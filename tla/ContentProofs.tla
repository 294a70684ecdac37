---------------------------- MODULE ContentProofs ----------------------------
(***************************************************************************)
(* More theorems about Serialization: what becomes of the contents of a    *)
(* message that is merged with another, cut short or measured.  To parse   *)
(* one message's bytes into another is to merge the two: the paths of the  *)
(* round trip again, from any message instead of a new one.  Damage leaves *)
(* each object whole or empty: the damaged bytes are the old ones but for  *)
(* their last item, and that one keeps its entry's key only.  And what a   *)
(* class says its bytes take is what it writes, for everything a parser    *)
(* can make of bytes, damaged ones included.                               *)
(***************************************************************************)
EXTENDS SerializationProofs

(* If a parser of class c takes the item without an error, it makes m2 of  *)
(* message m.                                                              *)
Turned(c, m, it, m2) == TurnOf(c, m, it).ok => TurnOf(c, m, it).msg = m2

(* If it takes all the items in s without an error, it makes m2 of m.      *)
Makes(c, m, s, m2) ==
  /\ Items(s)
  /\ \E path : /\ path[0] = m /\ path[Len(s)] = m2
               /\ \A i \in 1..Len(s) : Turned(c, path[i - 1], s[i], path[i])

(* No items, no change. *)
LEMMA MakesNothing ==
  ASSUME NEW c, NEW m
  PROVE  Makes(c, m, <<>>, m)
<1>1. Items(<<>>) /\ Len(<<>>) = 0
  BY DEF Items
<1> DEFINE path == [i \in {0} |-> m]
<1>2. path[0] = m /\ path[Len(<<>>)] = m
  BY <1>1
<1>3. \A i \in 1..Len(<<>>) : FALSE
  BY <1>1
<1> HIDE DEF path
<1> QED BY <1>1, <1>2, <1>3 DEF Makes

(* One item. *)
LEMMA MakesOne ==
  ASSUME NEW c, NEW m, NEW it, NEW m2, Turned(c, m, it, m2)
  PROVE  Makes(c, m, <<it>>, m2)
<1> DEFINE s == <<it>>
           path == [i \in {0, 1} |-> IF i = 0 THEN m ELSE m2]
<1>1. s = [i \in 1..1 |-> s[i]] /\ s[1] = it
  OBVIOUS
<1> HIDE DEF s
<1>2. Items(s) /\ Len(s) = 1
  BY <1>1, ItemsOf
<1>3. path[0] = m /\ path[1] = m2
  OBVIOUS
<1> HIDE DEF path
<1>4. \A i \in 1..Len(s) : i = 1 /\ i - 1 = 0
  BY <1>2
<1>5. \A i \in 1..Len(s) : Turned(c, path[i - 1], s[i], path[i])
  BY <1>1, <1>3, <1>4
<1>6. Makes(c, m, s, m2)
  BY <1>2, <1>3, <1>5 DEF Makes
<1> QED BY <1>6 DEF s

(* One field after the other. *)
LEMMA MakesOn ==
  ASSUME NEW c, NEW m, NEW s, NEW m2, NEW t, NEW m3, Makes(c, m, s, m2), Makes(c, m2, t, m3)
  PROVE  Makes(c, m, s \o t, m3)
<1> DEFINE u == s \o t
           n == Len(s)
           l == Len(t)
<1>1. Items(s) /\ Items(t)
  BY DEF Makes
<1>2. /\ Items(u) /\ n \in Nat /\ l \in Nat /\ DOMAIN u = 1..(n + l)
      /\ \A i \in 1..(n + l) : u[i] = IF i <= n THEN s[i] ELSE t[i - n]
  BY <1>1, Concatenated
<1>3. PICK p : /\ p[0] = m /\ p[n] = m2
               /\ \A i \in 1..n : Turned(c, p[i - 1], s[i], p[i])
  BY DEF Makes
<1>4. PICK q : /\ q[0] = m2 /\ q[l] = m3
               /\ \A i \in 1..l : Turned(c, q[i - 1], t[i], q[i])
  BY DEF Makes
<1>5. Len(u) = n + l
  <2>1. Len(u) \in Nat /\ DOMAIN u = 1..Len(u)
    BY <1>2, ItemsDomain
  <2> QED BY <1>2, <2>1
<1> HIDE DEF u, n, l
<1> DEFINE path == [i \in 0..(n + l) |-> IF i <= n THEN p[i] ELSE q[i - n]]
<1>6. path[0] = m /\ path[n + l] = m3
  <2>1. 0 \in 0..(n + l) /\ n + l \in 0..(n + l) /\ 0 <= n
    BY <1>2
  <2>2. path[0] = m
    BY <1>3, <2>1
  <2>3. CASE l = 0
    BY <1>2, <1>3, <1>4, <2>1, <2>3
  <2>4. CASE l # 0
    <3>1. ~(n + l <= n) /\ (n + l) - n = l
      BY <1>2, <2>4
    <3> QED BY <1>4, <2>1, <2>2, <3>1
  <2> QED BY <2>3, <2>4
<1>7. ASSUME NEW i \in 1..(n + l)
      PROVE  Turned(c, path[i - 1], u[i], path[i])
  <2>1. i \in 0..(n + l) /\ i - 1 \in 0..(n + l)
    BY <1>2
  <2>2. CASE i <= n
    <3>1. i \in 1..n /\ u[i] = s[i] /\ path[i] = p[i] /\ path[i - 1] = p[i - 1]
      BY <1>2, <2>1, <2>2
    <3> HIDE DEF path
    <3> QED BY <1>3, <3>1
  <2>3. CASE i = n + 1
    <3>1. 1 \in 1..l /\ u[i] = t[1] /\ path[i] = q[1] /\ path[i - 1] = p[n] /\ 1 - 1 = 0
      BY <1>2, <2>1, <2>3
    <3> HIDE DEF path
    <3> QED BY <1>3, <1>4, <3>1
  <2>4. CASE i > n + 1
    <3>1. /\ i - n \in 1..l /\ u[i] = t[i - n] /\ path[i] = q[i - n]
          /\ path[i - 1] = q[(i - n) - 1]
      BY <1>2, <2>1, <2>4
    <3> HIDE DEF path
    <3> QED BY <1>4, <3>1
  <2> QED BY <1>2, <2>2, <2>3, <2>4
<1> HIDE DEF path
<1>8. Makes(c, m, u, m3)
  BY <1>2, <1>5, <1>6, <1>7 DEF Makes
<1> QED BY <1>8 DEF u

(* What such a parser makes of a message is what it gives. *)
LEMMA FoldMakes ==
  ASSUME NEW c, NEW m, NEW s, NEW m2, Makes(c, m, s, m2),
         Every!Fold(c, Parsed(m, TRUE), s).ok
  PROVE  Every!Fold(c, Parsed(m, TRUE), s).msg = m2
<1> DEFINE n == Len(s)
<1>1. n \in Nat /\ DOMAIN s = 1..n
  BY ItemsDomain DEF Makes
<1>2. PICK path : /\ path[0] = m /\ path[n] = m2
                  /\ \A i \in 1..n : Turned(c, path[i - 1], s[i], path[i])
  BY DEF Makes
<1>3. PICK read : /\ Every!Folds(c, Parsed(m, TRUE), s, n, read)
                  /\ Every!Fold(c, Parsed(m, TRUE), s) = read[n]
  BY <1>1, Every!FoldReads, ZenonT(60)
<1> HIDE DEF n
<1> DEFINE T == {i \in Nat : i <= n => (read[i].ok => read[i].msg = path[i])}
<1>4. 0 \in T
  <2>1. 0 \in 0..n
    BY <1>1
  <2>2. read[0] = Parsed(m, TRUE)
    BY <1>3, <2>1 DEF Every!Folds
  <2>3. read[0].msg = path[0]
    BY <1>2, <2>2 DEF Parsed
  <2> HIDE DEF T
  <2> QED BY <2>3 DEF T
<1>5. ASSUME NEW i \in Nat, i \in T
      PROVE  i + 1 \in T
  <2> SUFFICES ASSUME i + 1 <= n, read[i + 1].ok PROVE read[i + 1].msg = path[i + 1]
    OBVIOUS
  <2>1. i + 1 \in 1..n /\ i + 1 \in 0..n /\ i + 1 # 0 /\ (i + 1) - 1 = i
        /\ (read[i].ok => read[i].msg = path[i])
    BY <1>1, <1>5
  <2> DEFINE it == s[i + 1]
             r == read[i]
             r2 == read[i + 1]
             p == path[i]
             p2 == path[i + 1]
  <2>2. r2 = At(c, r, it)
    BY <1>3, <2>1 DEF Every!Folds
  <2>3. Turned(c, p, it, p2) /\ (r.ok => r.msg = p) /\ r2.ok
    BY <1>2, <2>1
  <2> HIDE DEF T, it, r, r2, p, p2
  <2>4. r2.msg = p2
    BY <2>2, <2>3 DEF At, Turned
  <2> QED BY <2>4 DEF r2, p2
<1> HIDE DEF T
<1>6. T = Nat
  BY <1>4, <1>5, Every!NatInherits DEF T
<1>7. read[n].ok => read[n].msg = path[n]
  BY <1>1, <1>6 DEF T
<1>8. read[n].ok
  BY <1>3
<1> QED BY <1>2, <1>3, <1>7, <1>8

(* A field that is written only if it is not the default. *)
LEMMA MakesIf ==
  ASSUME NEW c, NEW m, NEW it, NEW condition \in BOOLEAN, NEW m2,
         condition => Turned(c, m, it, m2), ~condition => m2 = m
  PROVE  Makes(c, m, If(condition, it), m2)
<1>1. CASE condition
  <2>1. Makes(c, m, <<it>>, m2)
    BY <1>1, MakesOne
  <2> QED BY <1>1, <2>1 DEF If
<1>2. CASE ~condition
  <2>1. Makes(c, m, <<>>, m)
    BY MakesNothing
  <2> QED BY <1>2, <2>1 DEF If
<1> QED BY <1>1, <1>2

(* A field into which nothing is merged. *)
LEMMA UptoSame ==
  ASSUME NEW m, NEW to, NEW F, NEW f \in DOMAIN to, f \notin F, m[f] = to[f]
  PROVE  Upto(m, to, F \cup {f}) = Upto(m, to, F)
<1> DEFINE a == Upto(m, to, F)
           b == Upto(m, to, F \cup {f})
<1>1. Differ(a, b, f, to[f], m[f])
  BY UptoNext
<1> HIDE DEF a, b
<1>2. b = a
  BY <1>1, SetAgain DEF Differ
<1> QED BY <1>2 DEF a, b

(* Number x. *)
LEMMA MakesNumber ==
  ASSUME NEW c, NEW m, NEW to, NEW F, NEW f \in DOMAIN to, f \notin F,
         NEW x, m[f] = MergeNumber(to[f], x),
         NEW tag, ReadsNumber(c, f, tag), NEW it, IsWritten(it, tag), it.num = <<x>>
  PROVE  Makes(c, Upto(m, to, F), If(x # 0, it), Upto(m, to, F \cup {f}))
<1> DEFINE a == Upto(m, to, F)
           b == Upto(m, to, F \cup {f})
<1>0. Differ(a, b, f, to[f], m[f])
  BY UptoNext
<1>1. x = 0 => b = a
  <2>1. x = 0 => m[f] = to[f]
    BY DEF MergeNumber
  <2> QED BY <2>1, UptoSame
<1> HIDE DEF a, b
<1>2. TurnOf(c, a, it) = SetNumber(a, f, it)
  BY DEF ReadsNumber, IsWritten
<1>3. it.num[1] = x
  OBVIOUS
<1>4. x # 0 => b = [a EXCEPT ![f] = x]
  BY <1>0 DEF Differ, MergeNumber
<1>5. x # 0 => Turned(c, a, it, b)
  BY <1>2, <1>3, <1>4 DEF Turned, SetNumber, Parsed
<1>6. (x # 0) \in BOOLEAN
  OBVIOUS
<1>7. Makes(c, a, If(x # 0, it), b)
  BY <1>1, <1>5, <1>6, MakesIf
<1> QED BY <1>7 DEF a, b

(* String x. *)
LEMMA MakesString ==
  ASSUME NEW c, NEW m, NEW to, NEW F, NEW f \in DOMAIN to, f \notin F,
         NEW x, m[f] = (IF x # "" THEN x ELSE to[f]),
         NEW tag, ReadsString(c, f, tag), NEW it, IsWritten(it, tag), it.str = x
  PROVE  Makes(c, Upto(m, to, F), If(x # "", it), Upto(m, to, F \cup {f}))
<1> DEFINE a == Upto(m, to, F)
           b == Upto(m, to, F \cup {f})
<1>0. Differ(a, b, f, to[f], m[f])
  BY UptoNext
<1>1. x = "" => b = a
  BY UptoSame, ZenonT(60)
<1> HIDE DEF a, b
<1>2. TurnOf(c, a, it) = SetString(a, f, it)
  BY DEF ReadsString, IsWritten
<1>4. x # "" => b = [a EXCEPT ![f] = x]
  BY <1>0 DEF Differ
<1>5. x # "" => Turned(c, a, it, b)
  <2>1. x # "" => SetString(a, f, it).msg = b
    BY <1>4 DEF SetString, Parsed
  <2> QED BY <1>2, <2>1 DEF Turned
<1>6. (x # "") \in BOOLEAN
  OBVIOUS
<1>7. Makes(c, a, If(x # "", it), b)
  BY <1>1, <1>5, <1>6, MakesIf
<1> QED BY <1>7 DEF a, b

(* Sequences are extended by what is read. *)
LEMMA NothingJoined ==
  ASSUME NEW xs, Items(xs)
  PROVE  xs \o <<>> = xs /\ <<>> \o xs = xs
<1> DEFINE S == Range(xs)
<1>1. xs \in Seq(S)
  BY DEF Items
<1> HIDE DEF S
<1> QED BY <1>1

(* Packed numbers xs. *)
LEMMA MakesPacked ==
  ASSUME NEW c, NEW m, NEW to, NEW F, NEW f \in DOMAIN to, f \notin F, Items(to[f]),
         NEW xs, Items(xs), m[f] = to[f] \o xs,
         NEW tag, ReadsNumbers(c, f, tag), NEW s, Packed(s, tag, xs)
  PROVE  Makes(c, Upto(m, to, F), s, Upto(m, to, F \cup {f}))
<1> DEFINE a == Upto(m, to, F)
           b == Upto(m, to, F \cup {f})
<1>0. Differ(a, b, f, to[f], m[f])
  BY UptoNext
<1>1. xs = <<>> => b = a
  <2>1. xs = <<>> => m[f] = to[f]
    BY NothingJoined
  <2> QED BY <2>1, UptoSame
<1> HIDE DEF a, b
<1>2. PICK size : s = If(xs # <<>>, Item(tag, xs, "", <<>>, size))
  BY DEF Packed
<1> DEFINE it == Item(tag, xs, "", <<>>, size)
<1>3. it.tag = tag /\ it.num = xs
  BY DEF Item
<1> HIDE DEF it
<1>4. TurnOf(c, a, it) = AddNumbers(a, f, it)
  BY <1>3 DEF ReadsNumbers
<1>5. [a EXCEPT ![f] = @ \o it.num] = b
  BY <1>0, <1>3 DEF Differ
<1>6. Turned(c, a, it, b)
  <2>1. AddNumbers(a, f, it).msg = b
    BY <1>5 DEF AddNumbers, Parsed
  <2> QED BY <1>4, <2>1 DEF Turned
<1>7. (xs # <<>>) \in BOOLEAN
  OBVIOUS
<1>8. Makes(c, a, If(xs # <<>>, it), b)
  BY <1>1, <1>6, <1>7, MakesIf
<1> QED BY <1>2, <1>8 DEF a, b, it

(* Several strings, or messages: what the parser does with each. *)
Joins(c, f, xs, s) ==
  /\ Items(xs) /\ s = [i \in DOMAIN xs |-> s[i]]
  /\ \A i \in DOMAIN xs : \A x : Turned(c, x, s[i], [x EXCEPT ![f] = Append(x[f], xs[i])])

(* Appending first to what is then put behind something. *)
LEMMA AppendedBehind ==
  ASSUME NEW a, Items(a), NEW xs, Items(xs), NEW n \in Nat, n + 1 \in DOMAIN xs
  PROVE  Append(a \o SubSeq(xs, 1, n), xs[n + 1]) = a \o SubSeq(xs, 1, n + 1)
<1> DEFINE S == Range(a) \cup Range(xs)
<1>1. a \in Seq(S) /\ xs \in Seq(S)
  BY DEF Items
<1> HIDE DEF S
<1> DEFINE p == SubSeq(xs, 1, n)
           q == SubSeq(xs, 1, n + 1)
<1>2. n + 1 <= Len(xs) /\ Len(xs) \in Nat /\ Len(a) \in Nat
  BY <1>1
<1>3. /\ p \in Seq(S) /\ Len(p) = n /\ (\A i \in 1..n : p[i] = xs[i])
      /\ q \in Seq(S) /\ Len(q) = n + 1 /\ (\A i \in 1..(n + 1) : q[i] = xs[i])
  BY <1>1, <1>2
<1> DEFINE x == xs[n + 1]
<1>4. x \in S
  BY <1>1, <1>2
<1> HIDE DEF p, q, x
<1>5. p \in Seq(S) /\ q \in Seq(S) /\ q = Append(p, x)
  <2>1. Append(p, x) \in Seq(S) /\ Len(Append(p, x)) = n + 1
    BY <1>3, <1>4
  <2>2. \A i \in 1..(n + 1) : Append(p, x)[i] = q[i]
    BY <1>3, <1>4 DEF x
  <2> DEFINE l == Append(p, x)
  <2> HIDE DEF l
  <2>3. q = l
    BY <1>3, <2>1, <2>2 DEF l
  <2> QED BY <1>3, <2>3 DEF l
<1> DEFINE l == Append(a \o p, x)
           r == a \o Append(p, x)
           k == Len(a) + n + 1
<1>c. \A u, w \in Seq(S) : u \o w \in Seq(S) /\ Len(u \o w) = Len(u) + Len(w)
  OBVIOUS
<1>a. a \o p \in Seq(S) /\ Len(a \o p) = Len(a) + n
  <2>1. a \o p \in Seq(S) /\ Len(a \o p) = Len(a) + Len(p)
    BY <1>1, <1>3, <1>c, Zenon
  <2> QED BY <1>3, <2>1, Zenon
<1>b. \A u \in Seq(S) : Append(u, x) \in Seq(S) /\ Len(Append(u, x)) = Len(u) + 1
  BY <1>4
<1>6. l \in Seq(S) /\ Len(l) = k
  <2>1. l \in Seq(S) /\ Len(l) = Len(a \o p) + 1
    BY <1>a, <1>b
  <2> HIDE DEF l
  <2> QED BY <1>2, <1>a, <2>1
<1>7. r \in Seq(S) /\ Len(r) = k
  <2>1. Len(Append(p, x)) = n + 1 /\ Append(p, x) \in Seq(S)
    BY <1>3, <1>4
  <2> QED BY <1>1, <1>2, <2>1
<1>8. \A i \in 1..k : l[i] = r[i]
  <2> TAKE i \in 1..k
  <2>1. i \in Nat /\ 1 <= i /\ i <= Len(a) + n + 1
    BY <1>2
  <2>2. Len(Append(p, x)) = n + 1 /\ Append(p, x) \in Seq(S)
    BY <1>3, <1>4
  <2>3. l[i] = IF i <= Len(a) + n THEN (a \o p)[i] ELSE x
    BY <1>2, <1>4, <1>a
  <2>4. r[i] = IF i <= Len(a) THEN a[i] ELSE Append(p, x)[i - Len(a)]
    BY <1>1, <1>2, <2>2
  <2>5. i <= Len(a) + n => (a \o p)[i] = IF i <= Len(a) THEN a[i] ELSE p[i - Len(a)]
    BY <1>1, <1>2, <1>3
  <2>6. i > Len(a) => Append(p, x)[i - Len(a)] = IF i <= Len(a) + n THEN p[i - Len(a)] ELSE x
    BY <1>2, <1>3, <1>4
  <2> DEFINE u == a \o p
             w == Append(p, x)
             j == i - Len(a)
  <2>7. /\ l[i] = IF i <= Len(a) + n THEN u[i] ELSE x
        /\ r[i] = IF i <= Len(a) THEN a[i] ELSE w[j]
        /\ i <= Len(a) + n => u[i] = IF i <= Len(a) THEN a[i] ELSE p[j]
        /\ i > Len(a) => w[j] = IF i <= Len(a) + n THEN p[j] ELSE x
    BY <2>3, <2>4, <2>5, <2>6
  <2> HIDE DEF l, r, u, w, j
  <2> QED BY <1>2, <2>1, <2>7
<1> HIDE DEF l, r
<1>9. l = r
  BY <1>2, <1>6, <1>7, <1>8
<1> QED BY <1>5, <1>9 DEF l, r, p, q, x
(* So a field is merged whose elements are appended one by one. *)
LEMMA MakesEach ==
  ASSUME NEW c, NEW m, NEW to, NEW F, NEW f \in DOMAIN to, f \notin F, Items(to[f]),
         NEW xs, m[f] = to[f] \o xs, NEW s, Joins(c, f, xs, s)
  PROVE  Makes(c, Upto(m, to, F), s, Upto(m, to, F \cup {f}))
<1> DEFINE a == Upto(m, to, F)
           b == Upto(m, to, F \cup {f})
           z == to[f]
           n == Len(xs)
<1>0. Differ(a, b, f, to[f], m[f])
  BY UptoNext
<1> HIDE DEF a, b
<1>1. IsRecord(a) /\ a[f] = z /\ f \in DOMAIN a /\ b = [a EXCEPT ![f] = z \o xs] /\ Items(z)
  BY <1>0 DEF Differ
<1>2. Items(xs) /\ n \in Nat /\ DOMAIN xs = 1..n
  BY ItemsDomain DEF Joins
<1>3. Items(s) /\ Len(s) = n
  <2>1. s = [i \in 1..n |-> s[i]]
    BY <1>2 DEF Joins
  <2> HIDE DEF n
  <2> QED BY <1>2, <2>1, ItemsOf
<1> HIDE DEF z
<1>4. SubSeq(xs, 1, 0) = <<>> /\ SubSeq(xs, 1, n) = xs
  <2> DEFINE S == Range(xs)
  <2>1. xs \in Seq(S)
    BY <1>2 DEF Items
  <2> HIDE DEF S
  <2> QED BY <2>1
<1> HIDE DEF n
<1> DEFINE first(i) == z \o SubSeq(xs, 1, i)
<1>5. first(0) = z /\ first(n) = z \o xs
  BY <1>1, <1>4, NothingJoined
<1>6. \A i \in 1..n : Append(first(i - 1), xs[i]) = first(i)
  <2> TAKE i \in 1..n
  <2> DEFINE l == i - 1
  <2>1. l \in Nat /\ l + 1 \in DOMAIN xs /\ i = l + 1
    BY <1>2
  <2> HIDE DEF l
  <2>2. Append(z \o SubSeq(xs, 1, l), xs[l + 1]) = z \o SubSeq(xs, 1, l + 1)
    BY <1>1, <1>2, <2>1, AppendedBehind
  <2> QED BY <2>1, <2>2 DEF l
<1> HIDE DEF first
<1> DEFINE path == [i \in 0..n |-> [a EXCEPT ![f] = first(i)]]
<1>7. \A i \in 0..n : path[i] = [a EXCEPT ![f] = first(i)]
  OBVIOUS
<1>8. 0 \in 0..n /\ n \in 0..n /\ \A i \in 1..n : i \in 0..n /\ i - 1 \in 0..n /\ i \in DOMAIN xs
  BY <1>2
<1> HIDE DEF path
<1>9. path[0] = a
  <2>1. path[0] = [a EXCEPT ![f] = z]
    BY <1>5, <1>7, <1>8
  <2> QED BY <1>1, <2>1, SetAgain
<1>10. path[n] = b
  BY <1>1, <1>5, <1>7, <1>8
<1>11. ASSUME NEW i \in 1..n
       PROVE  Turned(c, path[i - 1], s[i], path[i])
  <2> DEFINE p == path[i - 1]
             q == path[i]
             u == first(i - 1)
             w == first(i)
  <2>1. p = [a EXCEPT ![f] = u] /\ q = [a EXCEPT ![f] = w] /\ Append(u, xs[i]) = w
    BY <1>6, <1>7, <1>8
  <2>2. Turned(c, p, s[i], [p EXCEPT ![f] = Append(p[f], xs[i])])
    BY <1>8 DEF Joins
  <2> HIDE DEF p, q, u, w
  <2>3. [p EXCEPT ![f] = Append(p[f], xs[i])] = q
    BY <1>1, <2>1
  <2>4. Turned(c, p, s[i], q)
    BY <2>2, <2>3
  <2> QED BY <2>4 DEF p, q
<1>12. Makes(c, a, s, b)
  BY <1>3, <1>9, <1>10, <1>11 DEF Makes
<1> QED BY <1>12 DEF a, b

(* Several strings, *)
LEMMA MakesStrings ==
  ASSUME NEW c, NEW m, NEW to, NEW F, NEW f \in DOMAIN to, f \notin F, Items(to[f]),
         NEW xs, Items(xs), m[f] = to[f] \o xs, NEW tag, ReadsStrings(c, f, tag)
  PROVE  Makes(c, Upto(m, to, F), WriteStrings(tag, xs), Upto(m, to, F \cup {f}))
<1> DEFINE s == WriteStrings(tag, xs)
<1>1. s = [i \in DOMAIN xs |-> WriteString(tag, xs[i])]
  BY DEF WriteStrings
<1> HIDE DEF s
<1>2. s = [i \in DOMAIN xs |-> s[i]]
  BY <1>1
<1>3. ASSUME NEW i \in DOMAIN xs, NEW x
      PROVE  Turned(c, x, s[i], [x EXCEPT ![f] = Append(x[f], xs[i])])
  <2> DEFINE it == s[i]
             y == xs[i]
  <2>1. it.tag = tag /\ it.str = y
    BY <1>1 DEF WriteString, Item
  <2> HIDE DEF it, y
  <2>2. TurnOf(c, x, it) = AddString(x, f, it)
    BY <2>1 DEF ReadsStrings
  <2>3. AddString(x, f, it).msg = [x EXCEPT ![f] = Append(x[f], y)]
    BY <2>1 DEF AddString, Parsed
  <2>4. Turned(c, x, it, [x EXCEPT ![f] = Append(x[f], y)])
    BY <2>2, <2>3 DEF Turned
  <2> QED BY <2>4 DEF it, y
<1>4. Joins(c, f, xs, s)
  BY <1>2, <1>3 DEF Joins
<1>5. Makes(c, Upto(m, to, F), s, Upto(m, to, F \cup {f}))
  BY <1>4, MakesEach
<1> QED BY <1>5 DEF s

(* What AddMessage() makes of what the message's own parser gives. *)
Collected(m, f, r, whole) == Parsed([m EXCEPT ![f] = Append(@, r.msg)], r.ok /\ whole)

(* Class c does so with this tag, whatever item has it. *)
Collects(c, f, tag, v, new) ==
  \A m, it : it.tag = tag =>
    TurnOf(c, m, it) = Collected(m, f, Every!Fold(v, Parsed(new, TRUE), it.sub), it.whole)

(* Several messages. *)
LEMMA MakesMessages ==
  ASSUME NEW c, NEW m, NEW to, NEW F, NEW f \in DOMAIN to, f \notin F, Items(to[f]),
         NEW xs, Items(xs), m[f] = to[f] \o xs,
         NEW tag, NEW v, NEW newv, Collects(c, f, tag, v, newv),
         NEW s, s = [i \in DOMAIN xs |-> s[i]],
         \A i \in DOMAIN xs : s[i].tag = tag /\ Makes(v, newv, s[i].sub, xs[i])
  PROVE  Makes(c, Upto(m, to, F), s, Upto(m, to, F \cup {f}))
<1>1. ASSUME NEW i \in DOMAIN xs, NEW x
      PROVE  Turned(c, x, s[i], [x EXCEPT ![f] = Append(x[f], xs[i])])
  <2> DEFINE it == s[i]
             y == xs[i]
             r == Every!Fold(v, Parsed(newv, TRUE), it.sub)
  <2>1. it.tag = tag /\ Makes(v, newv, it.sub, y)
    OBVIOUS
  <2> HIDE DEF it, y
  <2>2. r.ok => r.msg = y
    BY <2>1, FoldMakes
  <2>3. TurnOf(c, x, it) = Collected(x, f, r, it.whole)
    BY <2>1 DEF Collects
  <2> HIDE DEF r
  <2>4. Collected(x, f, r, it.whole).ok => r.ok
    BY DEF Collected, Parsed
  <2>5. r.ok => Collected(x, f, r, it.whole).msg = [x EXCEPT ![f] = Append(x[f], y)]
    BY <2>2 DEF Collected, Parsed
  <2>6. Turned(c, x, it, [x EXCEPT ![f] = Append(x[f], y)])
    BY <2>3, <2>4, <2>5 DEF Turned
  <2> QED BY <2>6 DEF it, y
<1>2. Joins(c, f, xs, s)
  BY <1>1 DEF Joins
<1> QED BY <1>2, MakesEach

(* What SetMessage() makes of what the message's own parser gives. *)
Nested(m, f, r, whole) == Parsed([m EXCEPT ![f] = <<r.msg>>], r.ok /\ whole)

(* Class c does so with this tag, whatever item has it. *)
Nests(c, f, tag, v, new) ==
  \A m, it : it.tag = tag =>
    TurnOf(c, m, it)
      = Nested(m, f, Every!Fold(v, Parsed(Mutable(m[f], new), TRUE), it.sub), it.whole)

(* A message that need not be there, what is written of it and what it is  *)
(* merged to with the one in field "at".                                   *)
Merging(v, new, tag, s, xs, at, merged) ==
  \/ xs = <<>> /\ s = <<>> /\ merged = at
  \/ \E it, y : /\ s = <<it>> /\ merged = <<y>> /\ it.tag = tag
                /\ Makes(v, Mutable(at, new), it.sub, y)

(* So it is merged. *)
LEMMA MakesMessage ==
  ASSUME NEW c, NEW m, NEW to, NEW F, NEW f \in DOMAIN to, f \notin F,
         NEW tag, NEW v, NEW newv, Nests(c, f, tag, v, newv),
         NEW xs, NEW s, Merging(v, newv, tag, s, xs, to[f], m[f])
  PROVE  Makes(c, Upto(m, to, F), s, Upto(m, to, F \cup {f}))
<1> DEFINE a == Upto(m, to, F)
           b == Upto(m, to, F \cup {f})
<1>0. Differ(a, b, f, to[f], m[f])
  BY UptoNext
<1>1. m[f] = to[f] => b = a
  BY UptoSame
<1> HIDE DEF a, b
<1>2. CASE m[f] = to[f] /\ s = <<>>
  <2>1. Makes(c, a, s, b)
    BY <1>1, <1>2, MakesNothing
  <2> QED BY <2>1 DEF a, b
<1>3. ASSUME NEW it, NEW y, s = <<it>>, m[f] = <<y>>, it.tag = tag,
             Makes(v, Mutable(to[f], newv), it.sub, y)
      PROVE  Makes(c, Upto(m, to, F), s, Upto(m, to, F \cup {f}))
  <2> DEFINE z == Mutable(to[f], newv)
             r == Every!Fold(v, Parsed(z, TRUE), it.sub)
  <2>1. a[f] = to[f] /\ b = [a EXCEPT ![f] = <<y>>]
    BY <1>0, <1>3 DEF Differ
  <2>2. TurnOf(c, a, it) = Nested(a, f, r, it.whole)
    BY <1>3, <2>1 DEF Nests
  <2>3. r.ok => r.msg = y
    BY <1>3, FoldMakes
  <2> HIDE DEF r
  <2>4. Nested(a, f, r, it.whole).ok => r.ok
    BY DEF Nested, Parsed
  <2>5. r.ok => Nested(a, f, r, it.whole).msg = b
    BY <2>1, <2>3 DEF Nested, Parsed
  <2>6. Turned(c, a, it, b)
    BY <2>2, <2>4, <2>5 DEF Turned
  <2>7. Makes(c, a, s, b)
    BY <1>3, <2>6, MakesOne
  <2> QED BY <2>7 DEF a, b
<1> QED BY <1>2, <1>3 DEF Merging

(* The value of an entry, written into an item. *)
Values(v, new, it, x) ==
  IF v = "Number" THEN it.tag = 16 /\ it.num[1] = x
  ELSE it.tag = 18 /\ Makes(v, new, it.sub, x)

(* An entry that is read without an error has the key and the value that   *)
(* were written.                                                           *)
LEMMA EntryMakes ==
  ASSUME NEW v, NEW new, NEW key, NEW x, NEW it, NEW tag, NEW value,
         IsEntry(it, tag, key, value), Values(v, new, value, x),
         NEW r, r = Entries!Fold(v, Base(new), it.sub), r.ok
  PROVE  r.msg.key = key /\ r.msg.value = x
<1> DEFINE n == 2
           s == it.sub
<1>1. n \in Nat /\ DOMAIN s = 1..n /\ s[2] = value
  BY DEF IsEntry
<1>0. r = Entries!Fold(v, Base(new), s)
  OBVIOUS
<1> HIDE DEF n, s
<1>2. PICK read : Entries!Folds(v, Base(new), s, n, read) /\ r = read[n]
  BY <1>0, <1>1, Entries!FoldReads
<1>3. 0 \in 0..2 /\ 1 \in 0..2 /\ 2 \in 0..2 /\ 1 - 1 = 0 /\ 2 - 1 = 1
  OBVIOUS
<1>4. /\ read[0] = Base(new) /\ read[1] = AtEntry(v, read[0], s[1])
      /\ read[2] = AtEntry(v, read[1], value) /\ r = read[2]
  BY <1>1, <1>2, <1>3 DEF Entries!Folds, n
<1> DEFINE e == [key |-> NoText, value |-> new]
           r1 == read[1]
<1>5. r1 = SetString(e, "key", s[1])
  <2>1. read[0].ok = TRUE /\ read[0].msg = e
    BY <1>4 DEF Base, Parsed
  <2>2. s[1].tag = 10 /\ ~EndsMessage(s[1])
    BY DEF s, IsEntry, EndsMessage
  <2> HIDE DEF e
  <2> QED BY <1>4, <2>1, <2>2 DEF AtEntry
<1>6. r1.msg = [key |-> key, value |-> new]
  <2>1. s[1].str = key
    BY DEF s, IsEntry
  <2>2. [e EXCEPT !["key"] = key] = [key |-> key, value |-> new]
    OBVIOUS
  <2> HIDE DEF e
  <2>3. SetString(e, "key", s[1]).msg = [e EXCEPT !["key"] = key]
    BY <2>1 DEF SetString, Parsed
  <2> QED BY <1>5, <2>2, <2>3
<1> HIDE DEF e, r1
<1>7. r1.ok /\ r = ValueOf(v, r1.msg, value)
  <2>1. r = AtEntry(v, r1, value) /\ r.ok
    BY <1>4 DEF r1
  <2>2. value.tag # 10
    BY DEF Values
  <2>3. ~EndsMessage(value)
    BY <2>1 DEF AtEntry, Parsed
  <2> QED BY <2>1, <2>2, <2>3 DEF AtEntry
<1> DEFINE d == r1.msg
<1>8. d.key = key /\ d.value = new /\ d = [key |-> key, value |-> new]
  BY <1>6
<1>9. r = ValueOf(v, d, value)
  BY <1>7
<1> HIDE DEF d
<1>10. CASE v = "Number"
  <2>1. r = NumberValue(d, value) /\ value.tag = 16 /\ value.num[1] = x
    BY <1>9, <1>10 DEF ValueOf, Values
  <2>2. r.msg = [d EXCEPT !.value = x]
    BY <2>1 DEF NumberValue, Parsed
  <2> QED BY <1>8, <2>2
<1>11. CASE v # "Number"
  <2> DEFINE q == Every!Fold(v, Parsed(new, TRUE), value.sub)
  <2>1. value.tag = 18 /\ Makes(v, new, value.sub, x)
    BY <1>11 DEF Values
  <2>2. q.ok => q.msg = x
    BY <2>1, FoldMakes
  <2>3. r = Parsed([d EXCEPT !.value = q.msg], q.ok /\ value.whole)
    BY <1>8, <1>9, <1>11, <2>1 DEF ValueOf
  <2> HIDE DEF q
  <2>4. r.msg = [d EXCEPT !.value = q.msg]
    BY <2>3 DEF Parsed
  <2>5. Parsed([d EXCEPT !.value = q.msg], q.ok /\ value.whole).ok => q.ok
    BY DEF Parsed
  <2>6. q.ok
    BY <2>3, <2>5
  <2> QED BY <1>8, <2>2, <2>4, <2>6
<1> QED BY <1>10, <1>11

(* The entries of a map as they are written. *)
Mapped(s, tag, v, new, map, keys) ==
  /\ s = [i \in DOMAIN keys |-> s[i]]
  /\ \A i \in DOMAIN keys :
       \E value : IsEntry(s[i], tag, keys[i], value) /\ Values(v, new, value, map[keys[i]])

(* One entry more, and merged. *)
LEMMA MergedWith ==
  ASSUME NEW to, NEW map, NEW k, NEW x
  PROVE  MergeMap(to, With(map, k, x)) = With(MergeMap(to, map), k, x)
<1> DEFINE w == With(map, k, x)
           u == MergeMap(to, map)
<1>1. DOMAIN w = DOMAIN map \cup {k} /\ w[k] = x
      /\ \A j \in DOMAIN map : j # k => w[j] = map[j]
  BY DEF With
<1>2. DOMAIN u = DOMAIN map \cup DOMAIN to
      /\ \A j \in DOMAIN u : u[j] = IF j \in DOMAIN map THEN map[j] ELSE to[j]
  BY DEF MergeMap
<1> HIDE DEF w, u
<1>3. MergeMap(to, w) = [j \in DOMAIN w \cup DOMAIN to |-> IF j \in DOMAIN w THEN w[j] ELSE to[j]]
  BY DEF MergeMap
<1>4. With(u, k, x) = [j \in DOMAIN u \cup {k} |-> IF j = k THEN x ELSE u[j]]
  BY DEF With
<1>5. DOMAIN w \cup DOMAIN to = DOMAIN u \cup {k}
  BY <1>1, <1>2
<1>6. \A j \in DOMAIN u \cup {k} : (IF j \in DOMAIN w THEN w[j] ELSE to[j])
                                   = (IF j = k THEN x ELSE u[j])
  BY <1>1, <1>2
<1>7. MergeMap(to, w) = With(u, k, x)
  BY <1>3, <1>4, <1>5, <1>6
<1> QED BY <1>7 DEF w, u

(* Nothing, merged with a map or a map with nothing. *)
LEMMA MergedNothing ==
  ASSUME NEW map, IsMap(map)
  PROVE  MergeMap(map, NoEntries) = map /\ MergeMap(NoEntries, map) = map
BY DEF MergeMap, NoEntries, IsMap

(* A map. *)
LEMMA MakesMap ==
  ASSUME NEW c, NEW m, NEW to, NEW F, NEW f \in DOMAIN to, f \notin F, IsMap(to[f]),
         NEW map, IsMap(map), m[f] = MergeMap(to[f], map),
         NEW tag, NEW v, NEW newv, ReadsEntries(c, f, tag, v, newv),
         NEW order, NEW s, Mapped(s, tag, v, newv, map, Ordered(DOMAIN map, order))
  PROVE  Makes(c, Upto(m, to, F), s, Upto(m, to, F \cup {f}))
<1> DEFINE a == Upto(m, to, F)
           b == Upto(m, to, F \cup {f})
           z == to[f]
           keys == Ordered(DOMAIN map, order)
<1>0. Differ(a, b, f, to[f], m[f])
  BY UptoNext
<1> HIDE DEF a, b
<1>1. /\ IsRecord(a) /\ a[f] = z /\ f \in DOMAIN a
      /\ b = [a EXCEPT ![f] = MergeMap(z, map)] /\ IsMap(z)
  BY <1>0 DEF Differ
<1>2. PICK n \in Nat : DOMAIN keys = 1..n
  BY OrderedDomain DEF IsMap
<1>3. PICK first : /\ first[0] = NoEntries /\ first[n] = map
                   /\ \A i \in 1..n : With(first[i - 1], keys[i], map[keys[i]]) = first[i]
  BY <1>2, FirstEntries
<1>4. Mapped(s, tag, v, newv, map, keys)
  OBVIOUS
<1> HIDE DEF z, keys
<1>5. Items(s) /\ Len(s) = n
  <2>1. s = [i \in 1..n |-> s[i]]
    BY <1>2, <1>4 DEF Mapped
  <2> QED BY <2>1, ItemsOf
<1> DEFINE path == [i \in 0..n |-> [a EXCEPT ![f] = MergeMap(z, first[i])]]
<1>6. \A i \in 0..n : path[i] = [a EXCEPT ![f] = MergeMap(z, first[i])]
  OBVIOUS
<1>7. 0 \in 0..n /\ n \in 0..n
      /\ \A i \in 1..n : i \in 0..n /\ i - 1 \in 0..n /\ i \in DOMAIN keys
  BY <1>2
<1> HIDE DEF path
<1>8. path[0] = a
  <2>0. MergeMap(z, first[0]) = z
    BY <1>1, <1>3, MergedNothing
  <2>1. path[0] = [a EXCEPT ![f] = z]
    BY <1>6, <1>7, <2>0
  <2> QED BY <1>1, <2>1, SetAgain
<1>9. path[n] = b
  BY <1>1, <1>3, <1>6, <1>7
<1>10. ASSUME NEW i \in 1..n
       PROVE  Turned(c, path[i - 1], s[i], path[i])
  <2> DEFINE p == path[i - 1]
             q == path[i]
             g == first[i - 1]
             h == first[i]
             k == keys[i]
             x == map[k]
             it == s[i]
             r == Entries!Fold(v, Base(newv), it.sub)
             u == MergeMap(z, g)
  <2>1. /\ p = [a EXCEPT ![f] = u] /\ q = [a EXCEPT ![f] = MergeMap(z, h)]
        /\ With(g, k, x) = h
    BY <1>3, <1>6, <1>7
  <2>2. PICK value : IsEntry(it, tag, k, value) /\ Values(v, newv, value, x)
    BY <1>4, <1>7 DEF Mapped
  <2> HIDE DEF p, q, g, h, k, x, it
  <2>3. MergeMap(z, h) = With(u, k, x)
    BY <2>1, MergedWith
  <2>4. TurnOf(c, p, it) = Entry(p, f, r, it.whole)
    BY <2>2 DEF ReadsEntries, IsEntry
  <2>5. r.ok => r.msg.key = k /\ r.msg.value = x
    BY <2>2, EntryMakes
  <2> HIDE DEF r, u
  <2>6. p[f] = u /\ q = [p EXCEPT ![f] = With(u, k, x)]
    BY <1>1, <2>1, <2>3
  <2>7. Entry(p, f, r, it.whole).ok => r.ok
    BY DEF Entry, Parsed
  <2>8. r.ok => Entry(p, f, r, it.whole).msg = q
    BY <2>5, <2>6 DEF Entry, Parsed
  <2>9. Turned(c, p, it, q)
    BY <2>4, <2>7, <2>8 DEF Turned
  <2> QED BY <2>9 DEF p, q, it
<1>11. Makes(c, a, s, b)
  BY <1>5, <1>8, <1>9, <1>10 DEF Makes
<1> QED BY <1>11 DEF a, b
------------------------------------------------------------------------------
(* Entries whose values are numbers, *)
LEMMA NumbersMapped ==
  ASSUME NEW tag, NEW map, NEW order
  PROVE  Mapped(WriteMap(tag, map, order, LAMBDA v : WriteVarint(16, v)), tag, "Number", 0,
                map, Ordered(DOMAIN map, order))
<1> DEFINE keys == Ordered(DOMAIN map, order)
           s == WriteMap(tag, map, order, LAMBDA v : WriteVarint(16, v))
<1>1. s = [i \in DOMAIN keys |->
            WriteSub(tag, <<WriteString(10, keys[i]), WriteVarint(16, map[keys[i]])>>)]
  BY Zenon DEF WriteMap
<1> HIDE DEF s, keys
<1>2. ASSUME NEW i \in DOMAIN keys
      PROVE  \E value : /\ IsEntry(s[i], tag, keys[i], value)
                        /\ Values("Number", 0, value, map[keys[i]])
  <2> DEFINE k == keys[i]
             x == map[k]
             value == WriteVarint(16, x)
  <2>1. value.tag = 16 /\ value.num[1] = x
    BY DEF WriteVarint, Item
  <2>2. s[i] = WriteSub(tag, <<WriteString(10, k), value>>)
    BY <1>1
  <2> HIDE DEF k, x, value
  <2>3. IsEntry(s[i], tag, k, value)
    BY <2>2, EntryParts
  <2>4. Values("Number", 0, value, x)
    BY <2>1 DEF Values
  <2> QED BY <2>3, <2>4 DEF k, x
<1>3. s = [i \in DOMAIN keys |-> s[i]]
  BY <1>1
<1>4. Mapped(s, tag, "Number", 0, map, keys)
  BY <1>2, <1>3 DEF Mapped
<1> QED BY <1>4 DEF s, keys

(* and whose values are messages, written into w. *)
LEMMA MessagesMapped ==
  ASSUME NEW tag, NEW v, v # "Number", NEW new, NEW map, NEW keys, NEW s, NEW w,
         s = [i \in DOMAIN keys |-> WriteSub(tag,
                                             <<WriteString(10, keys[i]), WriteSub(18, w[i])>>)],
         \A i \in DOMAIN keys : Makes(v, new, w[i], map[keys[i]])
  PROVE  Mapped(s, tag, v, new, map, keys)
<1>1. ASSUME NEW i \in DOMAIN keys
      PROVE  \E value : /\ IsEntry(s[i], tag, keys[i], value)
                        /\ Values(v, new, value, map[keys[i]])
  <2> DEFINE k == keys[i]
             x == map[k]
             u == w[i]
             value == WriteSub(18, u)
             it == s[i]
  <2>1. value.tag = 18 /\ value.sub = u
    BY DEF WriteSub, Item
  <2>2. it = WriteSub(tag, <<WriteString(10, k), value>>) /\ Makes(v, new, u, x)
    OBVIOUS
  <2> HIDE DEF k, x, u, value, it
  <2>3. IsEntry(it, tag, k, value)
    BY <2>2, EntryParts
  <2>4. Values(v, new, value, x)
    BY <2>1, <2>2 DEF Values
  <2> QED BY <2>3, <2>4 DEF k, x, it
<1>2. s = [i \in DOMAIN keys |-> s[i]]
  OBVIOUS
<1> QED BY <1>1, <1>2 DEF Mapped

(* Messages of the same class as a new one are put together to one of it.  *)
LEMMA BothAre ==
  ASSUME NEW to, NEW new, IsA(to, new), NEW m, IsRecord(m), DOMAIN m = DOMAIN new,
         m["unknown"] = <<>>
  PROVE  IsA(to, to) /\ IsA(m, to)
BY DEF IsA

(* Unknown items, of which there are none. *)
LEMMA NoneJoined == <<>> \o <<>> = <<>>
<1>1. Items(<<>>)
  BY DEF Items
<1> QED BY <1>1, NothingJoined

(* Vectors are merged by parsing them. *)
LEMMA SensorMessage_Vec3Makes ==
  ASSUME NEW to, IsVec3(to), NEW v, IsVec3(v)
  PROVE  Makes("SensorMessage_Vec3", to, WriteSensorMessage_Vec3(v),
               MergeSensorMessage_Vec3(to, v))
<1> DEFINE c == "SensorMessage_Vec3"
           m == MergeSensorMessage_Vec3(to, v)
           F0 == {}
           F1 == F0 \cup {"arr"}
           s1 == WritePacked(10, v["arr"], EightBytes)
<1>1. /\ IsA(to, NewSensorMessage_Vec3) /\ IsA(v, NewSensorMessage_Vec3)
      /\ to.unknown = <<>> /\ v.unknown = <<>>
      /\ DOMAIN to = {"arr", "unknown"}
  BY DEF IsVec3, IsA, NewSensorMessage_Vec3
<1>2. /\ DOMAIN m = DOMAIN to /\ IsRecord(m) /\ m["unknown"] = to.unknown \o v.unknown
      /\ m["arr"] = to["arr"] \o v["arr"]
  BY <1>1 DEF MergeSensorMessage_Vec3, IsRecord
<1>3. IsA(to, to) /\ IsA(m, to)
  <2>1. m["unknown"] = <<>> /\ DOMAIN m = DOMAIN NewSensorMessage_Vec3
    BY <1>1, <1>2, NoneJoined DEF IsA
  <2> HIDE DEF m
  <2> QED BY <1>1, <1>2, <2>1, BothAre
<1> HIDE DEF m
<1>4. Makes(c, Upto(m, to, F0), s1, Upto(m, to, F1))
  <2>1. "arr" \in DOMAIN to /\ "arr" \notin F0
    BY <1>1
  <2>2. Items(to["arr"]) /\ Items(v["arr"])
    BY DEF IsVec3
  <2>3. ReadsNumbers(c, "arr", 10)
    BY DEF ReadsNumbers, TurnOf, ParseSensorMessage_Vec3
  <2>4. Packed(s1, 10, v["arr"])
    BY PackedEight
  <2> HIDE DEF c, F0, s1
  <2> QED BY <1>2, <2>1, <2>2, <2>3, <2>4, MakesPacked
<1>5. Upto(m, to, F0) = to /\ Upto(m, to, F1) = m
  <2>1. F1 \cup {"unknown"} = DOMAIN to
    BY <1>1
  <2> HIDE DEF F1
  <2> QED BY <1>3, <2>1, UptoEnds
<1> HIDE DEF c, F1, s1
<1>6. Makes(c, m, <<>>, m)
  BY MakesNothing
<1>7. Makes(c, to, s1 \o <<>>, m)
  BY <1>4, <1>5, <1>6, MakesOn
<1>8. WriteSensorMessage_Vec3(v) = s1 \o <<>>
  BY Zenon, <1>1 DEF WriteSensorMessage_Vec3, s1
<1> QED BY <1>7, <1>8 DEF c, m

(* A new vector, merged with one, is that one. *)
LEMMA NewVec3Merged ==
  ASSUME NEW v, IsVec3(v)
  PROVE  MergeSensorMessage_Vec3(NewSensorMessage_Vec3, v) = v
<1> DEFINE new == NewSensorMessage_Vec3
<1>1. /\ IsA(v, new) /\ v.unknown = <<>>
      /\ <<>> \o v.arr = v.arr
  BY NothingJoined, MergedNothing DEF IsVec3, IsA
<1>2. v = [f \in DOMAIN new |-> v[f]]
  BY <1>1 DEF IsA, IsRecord
<1> QED BY <1>1, <1>2, NoneJoined DEF MergeSensorMessage_Vec3, NewSensorMessage_Vec3

(* One that is parsed alone is read as it was written. *)
LEMMA SensorMessage_Vec3Made ==
  ASSUME NEW v, IsVec3(v)
  PROVE  Makes("SensorMessage_Vec3", NewSensorMessage_Vec3,
               WriteSensorMessage_Vec3(v), v)
<1> DEFINE new == NewSensorMessage_Vec3
<1>1. IsVec3(new) /\ MergeSensorMessage_Vec3(new, v) = v
  BY NewVec3, NewVec3Merged
<1> HIDE DEF new
<1>2. Makes("SensorMessage_Vec3", new, WriteSensorMessage_Vec3(v),
            MergeSensorMessage_Vec3(new, v))
  BY <1>1, SensorMessage_Vec3Makes
<1> QED BY <1>1, <1>2 DEF new

(* The types of sensors are merged by parsing them. *)
LEMMA HandshakeMessage_SensorsMakes ==
  ASSUME NEW to, IsHandshakeSensors(to), NEW v, IsHandshakeSensors(v)
  PROVE  Makes("HandshakeMessage_Sensors", to, WriteHandshakeMessage_Sensors(v),
               MergeHandshakeMessage_Sensors(to, v))
<1> DEFINE c == "HandshakeMessage_Sensors"
           m == MergeHandshakeMessage_Sensors(to, v)
           F0 == {}
           F1 == F0 \cup {"types"}
           s1 == WritePacked(10, v["types"], SizeNumber)
<1>1. /\ IsA(to, NewHandshakeMessage_Sensors) /\ IsA(v, NewHandshakeMessage_Sensors)
      /\ to.unknown = <<>> /\ v.unknown = <<>>
      /\ DOMAIN to = {"types", "unknown"}
  BY DEF IsHandshakeSensors, IsA, NewHandshakeMessage_Sensors
<1>2. /\ DOMAIN m = DOMAIN to /\ IsRecord(m) /\ m["unknown"] = to.unknown \o v.unknown
      /\ m["types"] = to["types"] \o v["types"]
  BY <1>1 DEF MergeHandshakeMessage_Sensors, IsRecord
<1>3. IsA(to, to) /\ IsA(m, to)
  <2>1. m["unknown"] = <<>> /\ DOMAIN m = DOMAIN NewHandshakeMessage_Sensors
    BY <1>1, <1>2, NoneJoined DEF IsA
  <2> HIDE DEF m
  <2> QED BY <1>1, <1>2, <2>1, BothAre
<1> HIDE DEF m
<1>4. Makes(c, Upto(m, to, F0), s1, Upto(m, to, F1))
  <2>1. "types" \in DOMAIN to /\ "types" \notin F0
    BY <1>1
  <2>2. Items(to["types"]) /\ Items(v["types"])
    BY DEF IsHandshakeSensors
  <2>3. ReadsNumbers(c, "types", 10)
    BY DEF ReadsNumbers, TurnOf, ParseHandshakeMessage_Sensors
  <2>4. Packed(s1, 10, v["types"])
    BY PackedNumbers
  <2> HIDE DEF c, F0, s1
  <2> QED BY <1>2, <2>1, <2>2, <2>3, <2>4, MakesPacked
<1>5. Upto(m, to, F0) = to /\ Upto(m, to, F1) = m
  <2>1. F1 \cup {"unknown"} = DOMAIN to
    BY <1>1
  <2> HIDE DEF F1
  <2> QED BY <1>3, <2>1, UptoEnds
<1> HIDE DEF c, F1, s1
<1>6. Makes(c, m, <<>>, m)
  BY MakesNothing
<1>7. Makes(c, to, s1 \o <<>>, m)
  BY <1>4, <1>5, <1>6, MakesOn
<1>8. WriteHandshakeMessage_Sensors(v) = s1 \o <<>>
  BY Zenon, <1>1 DEF WriteHandshakeMessage_Sensors, s1
<1> QED BY <1>7, <1>8 DEF c, m

(* New ones, merged with some, are these. *)
LEMMA NewHandshakeSensorsMerged ==
  ASSUME NEW v, IsHandshakeSensors(v)
  PROVE  MergeHandshakeMessage_Sensors(NewHandshakeMessage_Sensors, v) = v
<1> DEFINE new == NewHandshakeMessage_Sensors
<1>1. /\ IsA(v, new) /\ v.unknown = <<>>
      /\ <<>> \o v.types = v.types
  BY NothingJoined, MergedNothing DEF IsHandshakeSensors, IsA
<1>2. v = [f \in DOMAIN new |-> v[f]]
  BY <1>1 DEF IsA, IsRecord
<1> QED BY <1>1, <1>2, NoneJoined DEF MergeHandshakeMessage_Sensors, NewHandshakeMessage_Sensors

(* So are they read as they were written. *)
LEMMA HandshakeMessage_SensorsMade ==
  ASSUME NEW v, IsHandshakeSensors(v)
  PROVE  Makes("HandshakeMessage_Sensors", NewHandshakeMessage_Sensors,
               WriteHandshakeMessage_Sensors(v), v)
<1> DEFINE new == NewHandshakeMessage_Sensors
<1>1. IsHandshakeSensors(new) /\ MergeHandshakeMessage_Sensors(new, v) = v
  BY NewHandshakeSensors, NewHandshakeSensorsMerged
<1> HIDE DEF new
<1>2. Makes("HandshakeMessage_Sensors", new, WriteHandshakeMessage_Sensors(v),
            MergeHandshakeMessage_Sensors(new, v))
  BY <1>1, HandshakeMessage_SensorsMakes
<1> QED BY <1>1, <1>2 DEF new

(* What one turn of the parser of sensors is, whatever the sensor.         *)
LEMMA SensorTurn ==
  ASSUME NEW m, NEW it
  PROVE  /\ it.tag \in DoubleCases \cup {BoolCase}
              => TurnOf("SensorMessage_Sensor", m, it)
                   = Parsed(SetScalar(m, it.tag, it.num[1]), it.whole)
         /\ it.tag \in Vec3Cases
              => \E r : /\ r = Every!Fold("SensorMessage_Vec3",
                                          Parsed(MutableVec3(m, it.tag), TRUE), it.sub)
                        /\ TurnOf("SensorMessage_Sensor", m, it)
                             = Parsed(SetVec3(m, it.tag, r.msg), r.ok /\ it.whole)
<1> DEFINE c == "SensorMessage_Sensor"
<1>0. TurnOf(c, m, it) = ParseSensorMessage_Sensor(m, it)
  BY DEF TurnOf
<1> HIDE DEF c
<1>1. CASE it.tag \in DoubleCases \cup {BoolCase}
  <2>1. it.tag \notin Vec3Cases
    BY <1>1 DEF DoubleCases, BoolCase, Vec3Cases
  <2>2. ParseSensorMessage_Sensor(m, it) = Parsed(SetScalar(m, it.tag, it.num[1]), it.whole)
    BY <1>1, <2>1 DEF ParseSensorMessage_Sensor
  <2> QED BY <1>0, <2>1, <2>2 DEF c
<1>2. CASE it.tag \in Vec3Cases
  <2>1. it.tag \notin DoubleCases \cup {BoolCase}
    BY <1>2 DEF DoubleCases, BoolCase, Vec3Cases
  <2> DEFINE r == ParseItems(ParseSensorMessage_Vec3, MutableVec3(m, it.tag), it.sub)
  <2>2. ParseSensorMessage_Sensor(m, it) = Parsed(SetVec3(m, it.tag, r.msg), r.ok /\ it.whole)
    BY Zenon, <1>2, <2>1 DEF ParseSensorMessage_Sensor
  <2>3. r = Every!Fold("SensorMessage_Vec3", Parsed(MutableVec3(m, it.tag), TRUE), it.sub)
    BY SensorMessage_Vec3Parses
  <2> HIDE DEF r
  <2> QED BY <1>0, <2>1, <2>2, <2>3 DEF c
<1>3. CASE it.tag \notin DoubleCases \cup {BoolCase} /\ it.tag \notin Vec3Cases
  BY <1>3
<1> QED BY <1>1, <1>2, <1>3

(* The parts of a sensor. *)
LEMMA SensorParts ==
  ASSUME NEW m, IsSensor(m)
  PROVE  /\ m.unknown = <<>> /\ IsRecord(m)
         /\ DOMAIN m = {"case", "num", "vec", "unknown"}
         /\ m.case \in {0, BoolCase} \cup DoubleCases \cup Vec3Cases
         /\ IsVec3(m.vec)
         /\ m.case = 0 => m = NewSensorMessage_Sensor
         /\ m.case \in DoubleCases \cup {BoolCase}
              => m = SetScalar(NewSensorMessage_Sensor, m.case, m.num)
         /\ m.case \in Vec3Cases => m = SetVec3(NewSensorMessage_Sensor, m.case, m.vec)
<1> USE DEF NewSensorMessage_Sensor, DoubleCases, BoolCase, Vec3Cases, IsRecord
<1>1. CASE m = NewSensorMessage_Sensor
  BY <1>1, NewVec3
<1>2. ASSUME NEW case \in DoubleCases \cup {BoolCase}, NEW z,
             m = SetScalar(NewSensorMessage_Sensor, case, z)
      PROVE  /\ m.unknown = <<>> /\ IsRecord(m)
             /\ DOMAIN m = {"case", "num", "vec", "unknown"}
             /\ m.case = case /\ m.vec = NewSensorMessage_Vec3
             /\ m = SetScalar(NewSensorMessage_Sensor, case, m.num)
  BY <1>2, ScalarAgain
<1>3. ASSUME NEW case \in Vec3Cases, NEW v, IsVec3(v),
             m = SetVec3(NewSensorMessage_Sensor, case, v)
      PROVE  /\ m.unknown = <<>> /\ IsRecord(m)
             /\ DOMAIN m = {"case", "num", "vec", "unknown"}
             /\ m.case = case /\ m.num = 0 /\ m.vec = v
  <2> HIDE DEF DoubleCases, BoolCase, Vec3Cases
  <2> QED BY <1>3 DEF SetVec3
<1>4. /\ 0 \notin DoubleCases \cup {BoolCase} /\ 0 \notin Vec3Cases
      /\ (DoubleCases \cup {BoolCase}) \cap Vec3Cases = {}
  OBVIOUS
<1> HIDE DEF NewSensorMessage_Sensor, DoubleCases, BoolCase, Vec3Cases
<1> QED BY <1>1, <1>2, <1>3, <1>4, NewVec3 DEF IsSensor

(* What merging makes of a sensor: its number, its vector or nothing.      *)
LEMMA SensorMerged ==
  ASSUME NEW to, IsSensor(to), NEW v, IsSensor(v)
  PROVE  /\ v.case = 0 => MergeSensorMessage_Sensor(to, v) = to
         /\ v.case \in DoubleCases \cup {BoolCase}
              => MergeSensorMessage_Sensor(to, v) = SetScalar(to, v.case, v.num)
         /\ v.case \in Vec3Cases
              => MergeSensorMessage_Sensor(to, v)
                   = SetVec3(to, v.case,
                             MergeSensorMessage_Vec3(MutableVec3(to, v.case), v.vec))
<1> DEFINE case == v.case
           P == case \in DoubleCases \cup {BoolCase}
           R == case \in Vec3Cases
           x == SetScalar(to, case, v.num)
           y == SetVec3(to, case, MergeSensorMessage_Vec3(MutableVec3(to, case), v.vec))
           m == MergeSensorMessage_Sensor(to, v)
<1>1. v.unknown = <<>> /\ to.unknown = <<>> /\ IsRecord(to)
      /\ DOMAIN to = {"case", "num", "vec", "unknown"}
  BY SensorParts
<1>2. ~(P /\ R) /\ (P \/ R => case # 0)
  BY DEF DoubleCases, BoolCase, Vec3Cases
<1>3. x.unknown = <<>> /\ IsRecord(x) /\ "unknown" \in DOMAIN x
  BY <1>1 DEF SetScalar, IsRecord
<1>4. y.unknown = <<>> /\ IsRecord(y) /\ "unknown" \in DOMAIN y
  BY <1>1 DEF SetVec3, IsRecord
<1>5. \A z : z.unknown = <<>> /\ IsRecord(z) /\ "unknown" \in DOMAIN z
               => [z EXCEPT !.unknown = @ \o v.unknown] = z
  BY <1>1, NoneJoined, SetAgain
<1> HIDE DEF x, y
<1>6. case = 0 => m = [to EXCEPT !.unknown = @ \o v.unknown]
  BY <1>2 DEF MergeSensorMessage_Sensor
<1>7. P => m = [x EXCEPT !.unknown = @ \o v.unknown]
  BY <1>2 DEF MergeSensorMessage_Sensor, x
<1>8. R => m = [y EXCEPT !.unknown = @ \o v.unknown]
  BY <1>2 DEF MergeSensorMessage_Sensor, y
<1> HIDE DEF m
<1>9. /\ case = 0 => m = to
      /\ P => m = x
      /\ R => m = y
  BY <1>1, <1>3, <1>4, <1>5, <1>6, <1>7, <1>8
<1> QED BY <1>9 DEF x, y, m

(* Sensors are merged by parsing them. *)
LEMMA SensorMessage_SensorMakes ==
  ASSUME NEW to, IsSensor(to), NEW v, IsSensor(v)
  PROVE  Makes("SensorMessage_Sensor", to, WriteSensorMessage_Sensor(v),
               MergeSensorMessage_Sensor(to, v))
<1> DEFINE c == "SensorMessage_Sensor"
           m == MergeSensorMessage_Sensor(to, v)
           P == v.case \in DoubleCases
           Q == v.case = BoolCase
           R == v.case \in Vec3Cases
           p == WriteDouble(v.case, v.num)
           q == WriteVarint(BoolCase, v.num)
           r == WriteSub(v.case, WriteSensorMessage_Vec3(v.vec))
           x == IF P THEN m ELSE to
           y == IF P \/ Q THEN m ELSE to
<1>1. /\ v.unknown = <<>>
      /\ ~(P /\ Q) /\ ~(P /\ R) /\ ~(Q /\ R)
      /\ ~P /\ ~Q /\ ~R => m = to
      /\ P \/ Q => m = SetScalar(to, v.case, v.num)
      /\ R => m = SetVec3(to, v.case, MergeSensorMessage_Vec3(MutableVec3(to, v.case), v.vec))
  <2>1. ~(P /\ Q) /\ ~(P /\ R) /\ ~(Q /\ R)
    BY DEF DoubleCases, BoolCase, Vec3Cases
  <2>2. v.unknown = <<>> /\ (P \/ Q \/ R \/ v.case = 0)
    BY SensorParts
  <2> QED BY <2>1, <2>2, SensorMerged
<1>2. /\ p.whole = TRUE /\ p.tag = v.case /\ p.num[1] = v.num
      /\ q.whole = TRUE /\ q.tag = BoolCase /\ q.num[1] = v.num
      /\ r.whole = TRUE /\ r.tag = v.case /\ r.sub = WriteSensorMessage_Vec3(v.vec)
  BY DEF WriteDouble, WriteVarint, WriteSub, Item
<1> DEFINE u == MutableVec3(to, v.case)
           w == MergeSensorMessage_Vec3(u, v.vec)
<1>3. Makes("SensorMessage_Vec3", u, r.sub, w)
  <2>1. IsVec3(u) /\ IsVec3(v.vec)
    BY NewVec3, SensorParts DEF MutableVec3
  <2> HIDE DEF u, r
  <2> QED BY <1>2, <2>1, SensorMessage_Vec3Makes
<1> HIDE DEF m, p, q, r, u, w
<1>4. P => Turned(c, to, p, m)
  <2> SUFFICES ASSUME P PROVE Turned(c, to, p, m)
    OBVIOUS
  <2>1. TurnOf(c, to, p) = Parsed(SetScalar(to, p.tag, p.num[1]), p.whole)
    BY <1>2, SensorTurn
  <2> HIDE DEF c
  <2> QED BY <1>1, <1>2, <2>1 DEF Turned, Parsed
<1>5. Q => Turned(c, to, q, m)
  <2> SUFFICES ASSUME Q PROVE Turned(c, to, q, m)
    OBVIOUS
  <2>1. TurnOf(c, to, q) = Parsed(SetScalar(to, q.tag, q.num[1]), q.whole)
    BY <1>2, SensorTurn
  <2> HIDE DEF c
  <2> QED BY <1>1, <1>2, <2>1 DEF Turned, Parsed
<1>6. R => Turned(c, to, r, m)
  <2> SUFFICES ASSUME R PROVE Turned(c, to, r, m)
    OBVIOUS
  <2>1. PICK f : /\ f = Every!Fold("SensorMessage_Vec3", Parsed(u, TRUE), r.sub)
                 /\ TurnOf(c, to, r) = Parsed(SetVec3(to, r.tag, f.msg), f.ok /\ r.whole)
    <3>1. r.tag \in Vec3Cases /\ r.tag = v.case
      BY <1>2
    <3>2. \E f : /\ f = Every!Fold("SensorMessage_Vec3",
                                    Parsed(MutableVec3(to, r.tag), TRUE), r.sub)
                 /\ TurnOf("SensorMessage_Sensor", to, r)
                      = Parsed(SetVec3(to, r.tag, f.msg), f.ok /\ r.whole)
      BY <3>1, SensorTurn
    <3> QED BY <3>1, <3>2 DEF u, c
  <2>2. f.ok => f.msg = w
    BY <1>3, <2>1, FoldMakes
  <2> HIDE DEF c
  <2>3. Parsed(SetVec3(to, r.tag, f.msg), f.ok /\ r.whole).ok => f.ok
    BY DEF Parsed
  <2>4. Parsed(SetVec3(to, r.tag, f.msg), f.ok /\ r.whole).msg = SetVec3(to, r.tag, f.msg)
    BY DEF Parsed
  <2>5. m = SetVec3(to, r.tag, w)
    BY <1>1, <1>2 DEF u, w
  <2> QED BY <2>1, <2>2, <2>3, <2>4, <2>5 DEF Turned
<1>7. P \in BOOLEAN /\ Q \in BOOLEAN /\ R \in BOOLEAN
  BY DEF P, Q, R
<1> HIDE DEF c, P, Q, R
<1>8. Makes(c, to, If(P, p), x)
  <2>1. (P => x = m) /\ (~P => x = to)
    OBVIOUS
  <2> HIDE DEF x
  <2> QED BY <1>4, <1>7, <2>1, MakesIf
<1>9. Makes(c, x, If(Q, q), y)
  <2>1. (Q => x = to /\ y = m) /\ (~Q => y = x)
    BY <1>1
  <2> HIDE DEF x, y
  <2> QED BY <1>5, <1>7, <2>1, MakesIf
<1>10. Makes(c, y, If(R, r), m)
  <2>1. (R => y = to) /\ (~R => m = y)
    BY <1>1
  <2> HIDE DEF y
  <2> QED BY <1>6, <1>7, <2>1, MakesIf
<1> HIDE DEF x, y
<1>11. Makes(c, m, <<>>, m)
  BY MakesNothing
<1>12. Makes(c, to, If(P, p) \o If(Q, q) \o If(R, r) \o <<>>, m)
  BY <1>8, <1>9, <1>10, <1>11, MakesOn
<1>13. WriteSensorMessage_Sensor(v) = If(P, p) \o If(Q, q) \o If(R, r) \o <<>>
  BY <1>1 DEF WriteSensorMessage_Sensor, P, Q, R, p, q, r
<1> QED BY <1>12, <1>13 DEF c, m

(* One that is parsed alone is read as it was written. *)
LEMMA SensorMessage_SensorMade ==
  ASSUME NEW v, IsSensor(v)
  PROVE  Makes("SensorMessage_Sensor", NewSensorMessage_Sensor, WriteSensorMessage_Sensor(v), v)
<1> DEFINE new == NewSensorMessage_Sensor
<1>1. IsSensor(new)
  BY DEF IsSensor
<1>2. MergeSensorMessage_Sensor(new, v) = v
  <2>1. CASE v.case = 0
    BY <1>1, <2>1, SensorMerged, SensorParts
  <2>2. CASE v.case \in DoubleCases \cup {BoolCase}
    BY <1>1, <2>2, SensorMerged, SensorParts
  <2>3. CASE v.case \in Vec3Cases
    <3>1. MutableVec3(new, v.case) = NewSensorMessage_Vec3
      BY <2>3 DEF MutableVec3, NewSensorMessage_Sensor, Vec3Cases
    <3>2. MergeSensorMessage_Vec3(NewSensorMessage_Vec3, v.vec) = v.vec
      BY SensorParts, NewVec3Merged
    <3> QED BY <1>1, <2>3, <3>1, <3>2, SensorMerged, SensorParts
  <2> QED BY <2>1, <2>2, <2>3, SensorParts
<1> HIDE DEF new
<1>3. Makes("SensorMessage_Sensor", new, WriteSensorMessage_Sensor(v),
            MergeSensorMessage_Sensor(new, v))
  BY <1>1, SensorMessage_SensorMakes
<1> QED BY <1>2, <1>3 DEF new

(* What AddMessage() does with a sensor, *)
LEMMA SensorCollected ==
  ASSUME NEW new, NEW it, NEW m, NEW f
  PROVE  AddsSensor(m, f, new, it)
           = Collected(m, f, Every!Fold("SensorMessage_Sensor", Parsed(new, TRUE), it.sub),
                       it.whole)
<1> DEFINE r == ParseItems(ParseSensorMessage_Sensor, new, it.sub)
<1>1. AddsSensor(m, f, new, it) = Collected(m, f, r, it.whole)
  BY Zenon DEF AddMessage, AddsSensor, Collected
<1>2. r = Every!Fold("SensorMessage_Sensor", Parsed(new, TRUE), it.sub)
  BY SensorMessage_SensorParses
<1> QED BY Zenon, <1>1, <1>2

(* and with a vector. *)
LEMMA VectorCollected ==
  ASSUME NEW new, NEW it, NEW m, NEW f
  PROVE  AddsVector(m, f, new, it)
           = Collected(m, f, Every!Fold("SensorMessage_Vec3", Parsed(new, TRUE), it.sub),
                       it.whole)
<1> DEFINE r == ParseItems(ParseSensorMessage_Vec3, new, it.sub)
<1>1. AddsVector(m, f, new, it) = Collected(m, f, r, it.whole)
  BY Zenon DEF AddMessage, AddsVector, Collected
<1>2. r = Every!Fold("SensorMessage_Vec3", Parsed(new, TRUE), it.sub)
  BY SensorMessage_Vec3Parses
<1> QED BY Zenon, <1>1, <1>2

(* The lists of sensors, *)
LEMMA SensorsCollected ==
  Collects("SensorMessage_Sensors", "sensor", 10, "SensorMessage_Sensor",
           NewSensorMessage_Sensor)
<1> SUFFICES ASSUME NEW m, NEW it, it.tag = 10
             PROVE  TurnOf("SensorMessage_Sensors", m, it)
                      = Collected(m, "sensor",
                                  Every!Fold("SensorMessage_Sensor",
                                             Parsed(NewSensorMessage_Sensor, TRUE), it.sub),
                                  it.whole)
  BY DEF Collects
<1>1. ParseSensorMessage_Sensors(m, it)
        = AddsSensor(m, "sensor", NewSensorMessage_Sensor, it)
  BY Zenon DEF ParseSensorMessage_Sensors, AddsSensor
<1>2. TurnOf("SensorMessage_Sensors", m, it) = ParseSensorMessage_Sensors(m, it)
  BY DEF TurnOf
<1> QED BY Zenon, <1>1, <1>2, SensorCollected

(* sensors of an object *)
LEMMA ObjectSensorsCollected ==
  Collects("SensorMessage_Object", "objectSensors", 34, "SensorMessage_Sensor",
           NewSensorMessage_Sensor)
<1> SUFFICES ASSUME NEW m, NEW it, it.tag = 34
             PROVE  TurnOf("SensorMessage_Object", m, it)
                      = Collected(m, "objectSensors",
                                  Every!Fold("SensorMessage_Sensor",
                                             Parsed(NewSensorMessage_Sensor, TRUE), it.sub),
                                  it.whole)
  BY DEF Collects
<1>1. ParseSensorMessage_Object(m, it) = AddsSensor(m, "objectSensors", NewSensorMessage_Sensor, it)
  <2>1. it.tag = 34 /\ it.tag \notin {10, 9} /\ it.tag \notin {18, 17} /\ it.tag \notin {26, 25}
        /\ it.tag \notin {10, 9, 18, 17, 26, 25, 42, 50}
    OBVIOUS
  <2> QED BY Zenon, <2>1 DEF ParseSensorMessage_Object, AddsSensor
<1>2. TurnOf("SensorMessage_Object", m, it) = ParseSensorMessage_Object(m, it)
  BY DEF TurnOf
<1> QED BY Zenon, <1>1, <1>2, SensorCollected

(* and forces. *)
LEMMA ForceSensorsCollected ==
  Collects("SensorMessage_Object", "forceSensors", 42, "SensorMessage_Vec3",
           NewSensorMessage_Vec3)
<1> SUFFICES ASSUME NEW m, NEW it, it.tag = 42
             PROVE  TurnOf("SensorMessage_Object", m, it)
                      = Collected(m, "forceSensors",
                                  Every!Fold("SensorMessage_Vec3",
                                             Parsed(NewSensorMessage_Vec3, TRUE), it.sub),
                                  it.whole)
  BY DEF Collects
<1>1. ParseSensorMessage_Object(m, it) = AddsVector(m, "forceSensors", NewSensorMessage_Vec3, it)
  <2>1. it.tag = 42 /\ it.tag \notin {10, 9} /\ it.tag \notin {18, 17} /\ it.tag \notin {26, 25}
        /\ it.tag \notin {10, 9, 18, 17, 26, 25, 34, 50}
    OBVIOUS
  <2> QED BY Zenon, <2>1 DEF ParseSensorMessage_Object, AddsVector
<1>2. TurnOf("SensorMessage_Object", m, it) = ParseSensorMessage_Object(m, it)
  BY DEF TurnOf
<1> QED BY Zenon, <1>1, <1>2, VectorCollected

(* Each sensor in a sequence is read as it was written, *)
LEMMA SensorsMade ==
  ASSUME NEW tag, NEW xs, \A i \in DOMAIN xs : IsSensor(xs[i])
  PROVE  /\ WriteSensors(tag, xs) = [i \in DOMAIN xs |-> WriteSensors(tag, xs)[i]]
         /\ \A i \in DOMAIN xs :
              /\ WriteSensors(tag, xs)[i].tag = tag
              /\ Makes("SensorMessage_Sensor", NewSensorMessage_Sensor,
                       WriteSensors(tag, xs)[i].sub, xs[i])
<1> DEFINE s == WriteSensors(tag, xs)
<1>1. s = [i \in DOMAIN xs |-> WriteSub(tag, WriteSensorMessage_Sensor(xs[i]))]
  BY DEF WriteSensors
<1> HIDE DEF s
<1>2. ASSUME NEW i \in DOMAIN xs
      PROVE  /\ s[i].tag = tag
             /\ Makes("SensorMessage_Sensor", NewSensorMessage_Sensor, s[i].sub, xs[i])
  <2> DEFINE x == xs[i]
             w == WriteSensorMessage_Sensor(x)
  <2>1. s[i] = WriteSub(tag, w) /\ IsSensor(x)
    BY <1>1
  <2>2. Makes("SensorMessage_Sensor", NewSensorMessage_Sensor, w, x)
    BY <2>1, SensorMessage_SensorMade
  <2> HIDE DEF w, x
  <2>3. IsWritten(s[i], tag) /\ s[i].sub = w
    BY <2>1, WrittenScalar
  <2>4. s[i].tag = tag
    BY <2>3 DEF IsWritten
  <2> QED BY <2>2, <2>3, <2>4 DEF x
<1>3. s = [i \in DOMAIN xs |-> s[i]]
  BY <1>1
<1> QED BY <1>2, <1>3 DEF s

(* and each vector. *)
LEMMA VectorsMade ==
  ASSUME NEW xs, NEW s, s = [i \in DOMAIN xs |-> WriteSub(42, WriteSensorMessage_Vec3(xs[i]))],
         \A i \in DOMAIN xs : IsVec3(xs[i])
  PROVE  /\ s = [i \in DOMAIN xs |-> s[i]]
         /\ \A i \in DOMAIN xs :
              /\ s[i].tag = 42
              /\ Makes("SensorMessage_Vec3", NewSensorMessage_Vec3, s[i].sub, xs[i])
<1>1. ASSUME NEW i \in DOMAIN xs
      PROVE  /\ s[i].tag = 42
             /\ Makes("SensorMessage_Vec3", NewSensorMessage_Vec3, s[i].sub, xs[i])
  <2> DEFINE x == xs[i]
             w == WriteSensorMessage_Vec3(x)
  <2>1. s[i] = WriteSub(42, w) /\ IsVec3(x)
    OBVIOUS
  <2>2. Makes("SensorMessage_Vec3", NewSensorMessage_Vec3, w, x)
    BY <2>1, SensorMessage_Vec3Made
  <2> HIDE DEF w, x
  <2>3. IsWritten(s[i], 42) /\ s[i].sub = w
    BY <2>1, WrittenScalar
  <2>4. s[i].tag = 42
    BY <2>3 DEF IsWritten
  <2> QED BY <2>2, <2>3, <2>4 DEF x
<1>2. s = [i \in DOMAIN xs |-> s[i]]
  OBVIOUS
<1> QED BY <1>1, <1>2

(* Lists of sensors are merged by parsing them. *)
LEMMA SensorMessage_SensorsMakes ==
  ASSUME NEW to, IsSensors(to), NEW v, IsSensors(v)
  PROVE  Makes("SensorMessage_Sensors", to, WriteSensorMessage_Sensors(v),
               MergeSensorMessage_Sensors(to, v))
<1> DEFINE c == "SensorMessage_Sensors"
           m == MergeSensorMessage_Sensors(to, v)
           F0 == {}
           F1 == F0 \cup {"sensor"}
           s1 == WriteSensors(10, v["sensor"])
<1>1. /\ IsA(to, NewSensorMessage_Sensors) /\ IsA(v, NewSensorMessage_Sensors)
      /\ to.unknown = <<>> /\ v.unknown = <<>>
      /\ DOMAIN to = {"sensor", "unknown"}
  BY DEF IsSensors, IsA, NewSensorMessage_Sensors
<1>2. /\ DOMAIN m = DOMAIN to /\ IsRecord(m) /\ m["unknown"] = to.unknown \o v.unknown
      /\ m["sensor"] = to["sensor"] \o v["sensor"]
  BY <1>1 DEF MergeSensorMessage_Sensors, IsRecord
<1>3. IsA(to, to) /\ IsA(m, to)
  <2>1. m["unknown"] = <<>> /\ DOMAIN m = DOMAIN NewSensorMessage_Sensors
    BY <1>1, <1>2, NoneJoined DEF IsA
  <2> HIDE DEF m
  <2> QED BY <1>1, <1>2, <2>1, BothAre
<1> HIDE DEF m
<1>4. Makes(c, Upto(m, to, F0), s1, Upto(m, to, F1))
  <2>1. "sensor" \in DOMAIN to /\ "sensor" \notin F0
    BY <1>1
  <2>2. Items(to["sensor"]) /\ Items(v["sensor"])
    BY DEF IsSensors
  <2> DEFINE w == "SensorMessage_Sensor"
             neww == NewSensorMessage_Sensor
             xs == v["sensor"]
             tag == 10
  <2>3. Collects(c, "sensor", tag, w, neww)
    BY SensorsCollected
  <2>4. /\ s1 = [i \in DOMAIN xs |-> s1[i]]
        /\ \A i \in DOMAIN xs : s1[i].tag = tag /\ Makes(w, neww, s1[i].sub, xs[i])
    BY SensorsMade DEF IsSensors
  <2>5. m["sensor"] = to["sensor"] \o xs /\ Items(xs)
    BY <1>2, <2>2
  <2> HIDE DEF c, F0, s1, w, neww, xs, tag
  <2> QED BY <2>1, <2>2, <2>3, <2>4, <2>5, MakesMessages
<1>5. Upto(m, to, F0) = to /\ Upto(m, to, F1) = m
  <2>1. F1 \cup {"unknown"} = DOMAIN to
    BY <1>1
  <2> HIDE DEF F1
  <2> QED BY <1>3, <2>1, UptoEnds
<1> HIDE DEF c, F1, s1
<1>6. Makes(c, m, <<>>, m)
  BY MakesNothing
<1>7. Makes(c, to, s1 \o <<>>, m)
  BY <1>4, <1>5, <1>6, MakesOn
<1>8. WriteSensorMessage_Sensors(v) = s1 \o <<>>
  BY Zenon, <1>1 DEF WriteSensorMessage_Sensors, s1
<1> QED BY <1>7, <1>8 DEF c, m

(* A new list, merged with one, is that one. *)
LEMMA NewSensorsListMerged ==
  ASSUME NEW v, IsSensors(v)
  PROVE  MergeSensorMessage_Sensors(NewSensorMessage_Sensors, v) = v
<1> DEFINE new == NewSensorMessage_Sensors
<1>1. /\ IsA(v, new) /\ v.unknown = <<>>
      /\ <<>> \o v.sensor = v.sensor
  BY NothingJoined, MergedNothing DEF IsSensors, IsA
<1>2. v = [f \in DOMAIN new |-> v[f]]
  BY <1>1 DEF IsA, IsRecord
<1> QED BY <1>1, <1>2, NoneJoined DEF MergeSensorMessage_Sensors, NewSensorMessage_Sensors

(* It is read as it was written. *)
LEMMA SensorMessage_SensorsMade ==
  ASSUME NEW v, IsSensors(v)
  PROVE  Makes("SensorMessage_Sensors", NewSensorMessage_Sensors,
               WriteSensorMessage_Sensors(v), v)
<1> DEFINE new == NewSensorMessage_Sensors
<1>1. IsSensors(new) /\ MergeSensorMessage_Sensors(new, v) = v
  BY NewSensors, NewSensorsListMerged
<1> HIDE DEF new
<1>2. Makes("SensorMessage_Sensors", new, WriteSensorMessage_Sensors(v),
            MergeSensorMessage_Sensors(new, v))
  BY <1>1, SensorMessage_SensorsMakes
<1> QED BY <1>1, <1>2 DEF new

(* The settings of a HandshakeMessage, *)
LEMMA SettingsNested ==
  Nests("HandshakeMessage", "simSettings", 42, "HandshakeMessage_SimulationSettings",
        NewHandshakeMessage_SimulationSettings)
<1> DEFINE new == NewHandshakeMessage_SimulationSettings
<1> SUFFICES ASSUME NEW m, NEW it, it.tag = 42
             PROVE  TurnOf("HandshakeMessage", m, it)
                      = Nested(m, "simSettings",
                               Every!Fold("HandshakeMessage_SimulationSettings",
                                          Parsed(Mutable(m["simSettings"], new), TRUE), it.sub),
                               it.whole)
  BY DEF Nests
<1> DEFINE r == ParseItems(ParseHandshakeMessage_SimulationSettings, Mutable(m["simSettings"], new),
                           it.sub)
<1>1. ParseHandshakeMessage(m, it) = Nested(m, "simSettings", r, it.whole)
  <2>1. it.tag = 42 /\ it.tag \notin {8, 16, 24, 34}
    OBVIOUS
  <2> QED BY Zenon, <2>1 DEF ParseHandshakeMessage, SetMessage, Nested
<1>2. TurnOf("HandshakeMessage", m, it) = ParseHandshakeMessage(m, it)
  BY DEF TurnOf, Turn
<1>3. r = Every!Fold("HandshakeMessage_SimulationSettings",
                     Parsed(Mutable(m["simSettings"], new), TRUE), it.sub)
  BY HandshakeMessage_SimulationSettingsParses
<1> HIDE DEF new, r
<1> QED BY Zenon, <1>1, <1>2, <1>3 DEF new

(* They are merged by parsing them. *)
LEMMA HandshakeMessage_SimulationSettingsMakes ==
  ASSUME NEW to, IsA(to, NewHandshakeMessage_SimulationSettings),
         NEW v, IsA(v, NewHandshakeMessage_SimulationSettings)
  PROVE  Makes("HandshakeMessage_SimulationSettings", to,
               WriteHandshakeMessage_SimulationSettings(v),
               MergeHandshakeMessage_SimulationSettings(to, v))
<1> DEFINE c == "HandshakeMessage_SimulationSettings"
           new == NewHandshakeMessage_SimulationSettings
           m == MergeHandshakeMessage_SimulationSettings(to, v)
           F0 == {}
           F1 == F0 \cup {"timeStep"}
           s1 == If(v["timeStep"] # 0, WriteDouble(9, v["timeStep"]))
<1>1. /\ to.unknown = <<>> /\ v.unknown = <<>>
      /\ DOMAIN to = {"timeStep", "unknown"}
  BY DEF IsA, NewHandshakeMessage_SimulationSettings
<1>2. /\ DOMAIN m = DOMAIN to /\ IsRecord(m) /\ m["unknown"] = to.unknown \o v.unknown
      /\ m["timeStep"] = MergeNumber(to["timeStep"], v["timeStep"])
  BY <1>1 DEF MergeHandshakeMessage_SimulationSettings, IsRecord
<1>3. IsA(to, to) /\ IsA(m, to)
  <2>1. m["unknown"] = <<>> /\ DOMAIN m = DOMAIN new
    BY <1>1, <1>2, NoneJoined DEF IsA
  <2> HIDE DEF m, new
  <2> QED BY <1>1, <1>2, <2>1, BothAre DEF new
<1> HIDE DEF m
<1>4. Makes(c, Upto(m, to, F0), s1, Upto(m, to, F1))
  <2>1. "timeStep" \in DOMAIN to /\ "timeStep" \notin F0
    BY <1>1
  <2>2. ReadsNumber(c, "timeStep", 9)
    BY DEF ReadsNumber, TurnOf, ParseHandshakeMessage_SimulationSettings
  <2> DEFINE it == WriteDouble(9, v["timeStep"])
  <2>3. IsWritten(it, 9) /\ it.num = <<v["timeStep"]>>
    BY WrittenScalar
  <2> HIDE DEF c, F0, it
  <2>4. Makes(c, Upto(m, to, F0), If(v["timeStep"] # 0, it), Upto(m, to, F1))
    BY <1>2, <2>1, <2>2, <2>3, MakesNumber
  <2> QED BY <2>4 DEF it
<1>5. Upto(m, to, F0) = to /\ Upto(m, to, F1) = m
  <2>1. F1 \cup {"unknown"} = DOMAIN to
    BY <1>1
  <2> HIDE DEF F1
  <2> QED BY <1>3, <2>1, UptoEnds
<1> HIDE DEF c, F1, s1
<1>6. Makes(c, m, <<>>, m)
  BY MakesNothing
<1>7. Makes(c, to, s1 \o <<>>, m)
  BY <1>4, <1>5, <1>6, MakesOn
<1>8. WriteHandshakeMessage_SimulationSettings(v) = s1 \o <<>>
  BY <1>1 DEF WriteHandshakeMessage_SimulationSettings, s1
<1> QED BY <1>7, <1>8 DEF c, m

(* So are settings that are not there. *)
LEMMA SettingsMerging ==
  ASSUME NEW to, OneOf(to, NewHandshakeMessage_SimulationSettings),
         NEW xs, OneOf(xs, NewHandshakeMessage_SimulationSettings), NEW merged,
         merged = MergeSub(to, xs, NewHandshakeMessage_SimulationSettings,
                           MergeHandshakeMessage_SimulationSettings)
  PROVE  Merging("HandshakeMessage_SimulationSettings", NewHandshakeMessage_SimulationSettings, 42,
                 [i \in DOMAIN xs |->
                    WriteSub(42, WriteHandshakeMessage_SimulationSettings(xs[i]))],
                 xs, to, merged)
<1> DEFINE s == [i \in DOMAIN xs |-> WriteSub(42, WriteHandshakeMessage_SimulationSettings(xs[i]))]
           new == NewHandshakeMessage_SimulationSettings
           at == Mutable(to, new)
<1>1. CASE xs = <<>>
  <2>1. DOMAIN xs = {}
    BY <1>1
  <2>2. s = <<>>
    BY <2>1
  <2>3. merged = to
    BY <1>1 DEF MergeSub
  <2> QED BY <1>1, <2>2, <2>3 DEF Merging
<1>2. ASSUME NEW x, xs = <<x>>, IsA(x, new)
      PROVE  Merging("HandshakeMessage_SimulationSettings", new, 42, s, xs, to, merged)
  <2> DEFINE w == WriteHandshakeMessage_SimulationSettings(x)
             it == WriteSub(42, w)
             y == MergeHandshakeMessage_SimulationSettings(at, x)
  <2>1. s = <<it>>
    <3>1. DOMAIN xs = {1} /\ xs[1] = x
      BY <1>2
    <3>2. s = [i \in {1} |-> it]
      BY <3>1
    <3> HIDE DEF it, s
    <3>3. <<it>> = [i \in {1} |-> it]
      <4> DEFINE u == <<it>>
      <4>1. u = [i \in 1..1 |-> u[i]] /\ u[1] = it
        OBVIOUS
      <4> HIDE DEF u
      <4>2. u = [i \in {1} |-> it]
        BY <4>1
      <4> QED BY <4>2 DEF u
    <3> QED BY <3>2, <3>3
  <2>2. IsA(at, new)
    <3>1. IsA(new, new)
      BY DEF NewHandshakeMessage_SimulationSettings, IsA, IsRecord
    <3>2. \A z : to = <<z>> => at = z
      BY DEF Mutable
    <3>3. to = <<>> => at = new
      BY DEF Mutable
    <3> HIDE DEF at, new
    <3> QED BY <3>1, <3>2, <3>3 DEF OneOf, new
  <2>3. merged = <<y>>
    <3>1. xs # <<>> /\ xs[1] = x
      BY <1>2
    <3>2. MergeSub(to, xs, new, MergeHandshakeMessage_SimulationSettings)
            = <<MergeHandshakeMessage_SimulationSettings(at, xs[1])>>
      BY Zenon, <3>1 DEF MergeSub
    <3> QED BY <3>1, <3>2
  <2>4. Makes("HandshakeMessage_SimulationSettings", at, w, y)
    <3> HIDE DEF at
    <3> QED BY <1>2, <2>2, HandshakeMessage_SimulationSettingsMakes
  <2> HIDE DEF w, new, s, y, at
  <2>5. it.tag = 42 /\ it.sub = w
    BY DEF WriteSub, Item
  <2> HIDE DEF it
  <2> QED BY <2>1, <2>3, <2>4, <2>5 DEF Merging, at
<1> QED BY <1>1, <1>2 DEF OneOf

(* The variables of a SensorMessage. *)
LEMMA VariablesNested ==
  Nests("SensorMessage", "simVars", 34, "SensorMessage_SimulationVariables",
        NewSensorMessage_SimulationVariables)
<1> DEFINE new == NewSensorMessage_SimulationVariables
<1> SUFFICES ASSUME NEW m, NEW it, it.tag = 34
             PROVE  TurnOf("SensorMessage", m, it)
                      = Nested(m, "simVars",
                               Every!Fold("SensorMessage_SimulationVariables",
                                          Parsed(Mutable(m["simVars"], new), TRUE), it.sub),
                               it.whole)
  BY DEF Nests
<1> DEFINE r == ParseItems(ParseSensorMessage_SimulationVariables, Mutable(m["simVars"], new),
                           it.sub)
<1>1. ParseSensorMessage(m, it) = Nested(m, "simVars", r, it.whole)
  <2>1. it.tag = 34 /\ it.tag \notin {8, 26}
    OBVIOUS
  <2> QED BY Zenon, <2>1 DEF ParseSensorMessage, SetMessage, Nested
<1>2. TurnOf("SensorMessage", m, it) = ParseSensorMessage(m, it)
  BY DEF TurnOf, Turn
<1>3. r = Every!Fold("SensorMessage_SimulationVariables",
                     Parsed(Mutable(m["simVars"], new), TRUE), it.sub)
  BY SensorMessage_SimulationVariablesParses
<1> HIDE DEF new, r
<1> QED BY Zenon, <1>1, <1>2, <1>3 DEF new

(* They are merged by parsing them, too. *)
LEMMA SensorMessage_SimulationVariablesMakes ==
  ASSUME NEW to, IsA(to, NewSensorMessage_SimulationVariables),
         NEW v, IsA(v, NewSensorMessage_SimulationVariables)
  PROVE  Makes("SensorMessage_SimulationVariables", to,
               WriteSensorMessage_SimulationVariables(v),
               MergeSensorMessage_SimulationVariables(to, v))
<1> DEFINE c == "SensorMessage_SimulationVariables"
           new == NewSensorMessage_SimulationVariables
           m == MergeSensorMessage_SimulationVariables(to, v)
           F0 == {}
           F1 == F0 \cup {"simulatedTime"}
           s1 == If(v["simulatedTime"] # 0, WriteDouble(9, v["simulatedTime"]))
<1>1. /\ to.unknown = <<>> /\ v.unknown = <<>>
      /\ DOMAIN to = {"simulatedTime", "unknown"}
  BY DEF IsA, NewSensorMessage_SimulationVariables
<1>2. /\ DOMAIN m = DOMAIN to /\ IsRecord(m) /\ m["unknown"] = to.unknown \o v.unknown
      /\ m["simulatedTime"] = MergeNumber(to["simulatedTime"], v["simulatedTime"])
  BY <1>1 DEF MergeSensorMessage_SimulationVariables, IsRecord
<1>3. IsA(to, to) /\ IsA(m, to)
  <2>1. m["unknown"] = <<>> /\ DOMAIN m = DOMAIN new
    BY <1>1, <1>2, NoneJoined DEF IsA
  <2> HIDE DEF m, new
  <2> QED BY <1>1, <1>2, <2>1, BothAre DEF new
<1> HIDE DEF m
<1>4. Makes(c, Upto(m, to, F0), s1, Upto(m, to, F1))
  <2>1. "simulatedTime" \in DOMAIN to /\ "simulatedTime" \notin F0
    BY <1>1
  <2>2. ReadsNumber(c, "simulatedTime", 9)
    BY DEF ReadsNumber, TurnOf, ParseSensorMessage_SimulationVariables
  <2> DEFINE it == WriteDouble(9, v["simulatedTime"])
  <2>3. IsWritten(it, 9) /\ it.num = <<v["simulatedTime"]>>
    BY WrittenScalar
  <2> HIDE DEF c, F0, it
  <2>4. Makes(c, Upto(m, to, F0), If(v["simulatedTime"] # 0, it), Upto(m, to, F1))
    BY <1>2, <2>1, <2>2, <2>3, MakesNumber
  <2> QED BY <2>4 DEF it
<1>5. Upto(m, to, F0) = to /\ Upto(m, to, F1) = m
  <2>1. F1 \cup {"unknown"} = DOMAIN to
    BY <1>1
  <2> HIDE DEF F1
  <2> QED BY <1>3, <2>1, UptoEnds
<1> HIDE DEF c, F1, s1
<1>6. Makes(c, m, <<>>, m)
  BY MakesNothing
<1>7. Makes(c, to, s1 \o <<>>, m)
  BY <1>4, <1>5, <1>6, MakesOn
<1>8. WriteSensorMessage_SimulationVariables(v) = s1 \o <<>>
  BY <1>1 DEF WriteSensorMessage_SimulationVariables, s1
<1> QED BY <1>7, <1>8 DEF c, m

(* And variables that are not there. *)
LEMMA VariablesMerging ==
  ASSUME NEW to, OneOf(to, NewSensorMessage_SimulationVariables),
         NEW xs, OneOf(xs, NewSensorMessage_SimulationVariables), NEW merged,
         merged = MergeSub(to, xs, NewSensorMessage_SimulationVariables,
                           MergeSensorMessage_SimulationVariables)
  PROVE  Merging("SensorMessage_SimulationVariables", NewSensorMessage_SimulationVariables, 34,
                 [i \in DOMAIN xs |-> WriteSub(34, WriteSensorMessage_SimulationVariables(xs[i]))],
                 xs, to, merged)
<1> DEFINE s == [i \in DOMAIN xs |-> WriteSub(34, WriteSensorMessage_SimulationVariables(xs[i]))]
           new == NewSensorMessage_SimulationVariables
           at == Mutable(to, new)
<1>1. CASE xs = <<>>
  <2>1. DOMAIN xs = {}
    BY <1>1
  <2>2. s = <<>>
    BY <2>1
  <2>3. merged = to
    BY <1>1 DEF MergeSub
  <2> QED BY <1>1, <2>2, <2>3 DEF Merging
<1>2. ASSUME NEW x, xs = <<x>>, IsA(x, new)
      PROVE  Merging("SensorMessage_SimulationVariables", new, 34, s, xs, to, merged)
  <2> DEFINE w == WriteSensorMessage_SimulationVariables(x)
             it == WriteSub(34, w)
             y == MergeSensorMessage_SimulationVariables(at, x)
  <2>1. s = <<it>>
    <3>1. DOMAIN xs = {1} /\ xs[1] = x
      BY <1>2
    <3>2. s = [i \in {1} |-> it]
      BY <3>1
    <3> HIDE DEF it, s
    <3>3. <<it>> = [i \in {1} |-> it]
      <4> DEFINE u == <<it>>
      <4>1. u = [i \in 1..1 |-> u[i]] /\ u[1] = it
        OBVIOUS
      <4> HIDE DEF u
      <4>2. u = [i \in {1} |-> it]
        BY <4>1
      <4> QED BY <4>2 DEF u
    <3> QED BY <3>2, <3>3
  <2>2. IsA(at, new)
    <3>1. IsA(new, new)
      BY DEF NewSensorMessage_SimulationVariables, IsA, IsRecord
    <3>2. \A z : to = <<z>> => at = z
      BY DEF Mutable
    <3>3. to = <<>> => at = new
      BY DEF Mutable
    <3> HIDE DEF at, new
    <3> QED BY <3>1, <3>2, <3>3 DEF OneOf, new
  <2>3. merged = <<y>>
    <3>1. xs # <<>> /\ xs[1] = x
      BY <1>2
    <3>2. MergeSub(to, xs, new, MergeSensorMessage_SimulationVariables)
            = <<MergeSensorMessage_SimulationVariables(at, xs[1])>>
      BY Zenon, <3>1 DEF MergeSub
    <3> QED BY <3>1, <3>2
  <2>4. Makes("SensorMessage_SimulationVariables", at, w, y)
    <3> HIDE DEF at
    <3> QED BY <1>2, <2>2, SensorMessage_SimulationVariablesMakes
  <2> HIDE DEF w, new, s, y, at
  <2>5. it.tag = 34 /\ it.sub = w
    BY DEF WriteSub, Item
  <2> HIDE DEF it
  <2> QED BY <2>1, <2>3, <2>4, <2>5 DEF Merging, at
<1> QED BY <1>1, <1>2 DEF OneOf
------------------------------------------------------------------------------
(* A robot's controls are merged by parsing them. *)
LEMMA ControlMessage_ObjectMakes ==
  ASSUME NEW to, IsControlObject(to), NEW v, IsControlObject(v), NEW order
  PROVE  Makes("ControlMessage_Object", to, WriteControlMessage_Object(v, order),
               MergeControlMessage_Object(to, v))
<1> DEFINE c == "ControlMessage_Object"
           m == MergeControlMessage_Object(to, v)
           F0 == {}
           F1 == F0 \cup {"angles"}
           F2 == F1 \cup {"angularVelocities"}
           F3 == F2 \cup {"torques"}
           F4 == F3 \cup {"controlEvents"}
           F5 == F4 \cup {"values"}
           s1 == WritePacked(10, v["angles"], EightBytes)
           s2 == WritePacked(18, v["angularVelocities"], EightBytes)
           s3 == WritePacked(26, v["torques"], EightBytes)
           s4 == WriteMap(34, v["controlEvents"], order, LAMBDA x : WriteVarint(16, x))
           s5 == WritePacked(42, v["values"], EightBytes)
<1>1. /\ IsA(to, NewControlMessage_Object) /\ IsA(v, NewControlMessage_Object)
      /\ to.unknown = <<>> /\ v.unknown = <<>>
      /\ DOMAIN to = {"angles", "angularVelocities", "torques", "controlEvents", "values",
                      "unknown"}
  BY DEF IsControlObject, IsA, NewControlMessage_Object
<1>2. /\ DOMAIN m = DOMAIN to /\ IsRecord(m) /\ m["unknown"] = to.unknown \o v.unknown
      /\ m["angles"] = to["angles"] \o v["angles"]
      /\ m["angularVelocities"] = to["angularVelocities"] \o v["angularVelocities"]
      /\ m["torques"] = to["torques"] \o v["torques"]
      /\ m["controlEvents"] = MergeMap(to["controlEvents"], v["controlEvents"])
      /\ m["values"] = to["values"] \o v["values"]
  BY <1>1 DEF MergeControlMessage_Object, IsRecord
<1>3. IsA(to, to) /\ IsA(m, to)
  <2>1. m["unknown"] = <<>> /\ DOMAIN m = DOMAIN NewControlMessage_Object
    BY <1>1, <1>2, NoneJoined DEF IsA
  <2> HIDE DEF m
  <2> QED BY <1>1, <1>2, <2>1, BothAre
<1> HIDE DEF m
<1>4. Makes(c, Upto(m, to, F0), s1, Upto(m, to, F1))
  <2>1. "angles" \in DOMAIN to /\ "angles" \notin F0
    BY <1>1
  <2>2. Items(to["angles"]) /\ Items(v["angles"])
    BY DEF IsControlObject
  <2>3. ReadsNumbers(c, "angles", 10)
    BY DEF ReadsNumbers, TurnOf, ParseControlMessage_Object
  <2>4. Packed(s1, 10, v["angles"])
    BY PackedEight
  <2> HIDE DEF c, F0, s1
  <2> QED BY <1>2, <2>1, <2>2, <2>3, <2>4, MakesPacked
<1>5. Makes(c, Upto(m, to, F1), s2, Upto(m, to, F2))
  <2>1. "angularVelocities" \in DOMAIN to /\ "angularVelocities" \notin F1
    BY <1>1
  <2>2. Items(to["angularVelocities"]) /\ Items(v["angularVelocities"])
    BY DEF IsControlObject
  <2>3. ReadsNumbers(c, "angularVelocities", 18)
    BY DEF ReadsNumbers, TurnOf, ParseControlMessage_Object
  <2>4. Packed(s2, 18, v["angularVelocities"])
    BY PackedEight
  <2> HIDE DEF c, F1, s2
  <2> QED BY <1>2, <2>1, <2>2, <2>3, <2>4, MakesPacked
<1>6. Makes(c, Upto(m, to, F2), s3, Upto(m, to, F3))
  <2>1. "torques" \in DOMAIN to /\ "torques" \notin F2
    BY <1>1
  <2>2. Items(to["torques"]) /\ Items(v["torques"])
    BY DEF IsControlObject
  <2>3. ReadsNumbers(c, "torques", 26)
    BY DEF ReadsNumbers, TurnOf, ParseControlMessage_Object
  <2>4. Packed(s3, 26, v["torques"])
    BY PackedEight
  <2> HIDE DEF c, F2, s3
  <2> QED BY <1>2, <2>1, <2>2, <2>3, <2>4, MakesPacked
<1>7. Makes(c, Upto(m, to, F3), s4, Upto(m, to, F4))
  <2>1. "controlEvents" \in DOMAIN to /\ "controlEvents" \notin F3
    BY <1>1
  <2>2. IsMap(to["controlEvents"]) /\ IsMap(v["controlEvents"])
    BY DEF IsControlObject
  <2>3. ReadsEntries(c, "controlEvents", 34, "Number", 0)
    BY ControlMessage_Object_ControlEventsEntry
  <2>4. Mapped(s4, 34, "Number", 0, v["controlEvents"], Ordered(DOMAIN v["controlEvents"], order))
    BY NumbersMapped
  <2> HIDE DEF c, F3, s4
  <2> QED BY <1>2, <2>1, <2>2, <2>3, <2>4, MakesMap
<1>8. Makes(c, Upto(m, to, F4), s5, Upto(m, to, F5))
  <2>1. "values" \in DOMAIN to /\ "values" \notin F4
    BY <1>1
  <2>2. Items(to["values"]) /\ Items(v["values"])
    BY DEF IsControlObject
  <2>3. ReadsNumbers(c, "values", 42)
    BY DEF ReadsNumbers, TurnOf, ParseControlMessage_Object
  <2>4. Packed(s5, 42, v["values"])
    BY PackedEight
  <2> HIDE DEF c, F4, s5
  <2> QED BY <1>2, <2>1, <2>2, <2>3, <2>4, MakesPacked
<1>9. Upto(m, to, F0) = to /\ Upto(m, to, F5) = m
  <2>1. F5 \cup {"unknown"} = DOMAIN to
    BY <1>1
  <2> HIDE DEF F5
  <2> QED BY <1>3, <2>1, UptoEnds
<1> HIDE DEF c, F1, s1, F2, s2, F3, s3, F4, s4, F5, s5
<1>10. Makes(c, m, <<>>, m)
  BY MakesNothing
<1>11. Makes(c, to, s1 \o s2 \o s3 \o s4 \o s5 \o <<>>, m)
  BY <1>4, <1>5, <1>6, <1>7, <1>8, <1>9, <1>10, MakesOn
<1>12. WriteControlMessage_Object(v, order) = s1 \o s2 \o s3 \o s4 \o s5 \o <<>>
  BY Zenon, <1>1 DEF WriteControlMessage_Object, s1, s2, s3, s4, s5
<1> QED BY <1>11, <1>12 DEF c, m

(* New ones, merged with some, are these. *)
LEMMA NewControlObjectMerged ==
  ASSUME NEW v, IsControlObject(v)
  PROVE  MergeControlMessage_Object(NewControlMessage_Object, v) = v
<1> DEFINE new == NewControlMessage_Object
<1>1. /\ IsA(v, new) /\ v.unknown = <<>>
      /\ <<>> \o v.angles = v.angles
      /\ <<>> \o v.angularVelocities = v.angularVelocities
      /\ <<>> \o v.torques = v.torques
      /\ <<>> \o v.values = v.values
      /\ MergeMap(NoEntries, v.controlEvents) = v.controlEvents
  BY NothingJoined, MergedNothing DEF IsControlObject, IsA
<1>2. v = [f \in DOMAIN new |-> v[f]]
  BY <1>1 DEF IsA, IsRecord
<1> QED BY <1>1, <1>2, NoneJoined DEF MergeControlMessage_Object, NewControlMessage_Object

(* So are they read as they were written. *)
LEMMA ControlMessage_ObjectMade ==
  ASSUME NEW v, IsControlObject(v), NEW order
  PROVE  Makes("ControlMessage_Object", NewControlMessage_Object,
               WriteControlMessage_Object(v, order), v)
<1> DEFINE new == NewControlMessage_Object
<1>1. IsControlObject(new) /\ MergeControlMessage_Object(new, v) = v
  BY NewControlObject, NewControlObjectMerged
<1> HIDE DEF new
<1>2. Makes("ControlMessage_Object", new, WriteControlMessage_Object(v, order),
            MergeControlMessage_Object(new, v))
  BY <1>1, ControlMessage_ObjectMakes
<1> QED BY <1>1, <1>2 DEF new

(* A robot's description is merged by parsing it. *)
LEMMA HandshakeMessage_ObjectMakes ==
  ASSUME NEW to, IsHandshakeObject(to), NEW v, IsHandshakeObject(v), NEW order
  PROVE  Makes("HandshakeMessage_Object", to, WriteHandshakeMessage_Object(v, order),
               MergeHandshakeMessage_Object(to, v))
<1> DEFINE c == "HandshakeMessage_Object"
           m == MergeHandshakeMessage_Object(to, v)
           F0 == {}
           F1 == F0 \cup {"controlsInOrder"}
           F2 == F1 \cup {"jointSensors"}
           F3 == F2 \cup {"controlEvents"}
           F4 == F3 \cup {"sensors"}
           F5 == F4 \cup {"objectSensors"}
           F6 == F5 \cup {"jointSensorsInOrder"}
           F7 == F6 \cup {"controlTypesInOrder"}
           s1 == WriteStrings(10, v["controlsInOrder"])
           s2 == WritePacked(18, v["jointSensors"], SizeNumber)
           s3 == WriteMap(26, v["controlEvents"], order, LAMBDA x : WriteVarint(16, x))
           s4 == WriteMap(34, v["sensors"], order,
                          LAMBDA x : WriteSub(18, WriteHandshakeMessage_Sensors(x)))
           s5 == WritePacked(50, v["objectSensors"], SizeNumber)
           s6 == WriteStrings(58, v["jointSensorsInOrder"])
           s7 == WritePacked(66, v["controlTypesInOrder"], SizeNumber)
<1>1. /\ IsA(to, NewHandshakeMessage_Object) /\ IsA(v, NewHandshakeMessage_Object)
      /\ to.unknown = <<>> /\ v.unknown = <<>>
      /\ DOMAIN to = {"controlsInOrder", "jointSensors", "controlEvents", "sensors",
                      "objectSensors", "jointSensorsInOrder", "controlTypesInOrder", "unknown"}
  BY DEF IsHandshakeObject, IsA, NewHandshakeMessage_Object
<1>2. /\ DOMAIN m = DOMAIN to /\ IsRecord(m) /\ m["unknown"] = to.unknown \o v.unknown
      /\ m["controlsInOrder"] = to["controlsInOrder"] \o v["controlsInOrder"]
      /\ m["jointSensors"] = to["jointSensors"] \o v["jointSensors"]
      /\ m["controlEvents"] = MergeMap(to["controlEvents"], v["controlEvents"])
      /\ m["sensors"] = MergeMap(to["sensors"], v["sensors"])
      /\ m["objectSensors"] = to["objectSensors"] \o v["objectSensors"]
      /\ m["jointSensorsInOrder"] = to["jointSensorsInOrder"] \o v["jointSensorsInOrder"]
      /\ m["controlTypesInOrder"] = to["controlTypesInOrder"] \o v["controlTypesInOrder"]
  BY <1>1 DEF MergeHandshakeMessage_Object, IsRecord
<1>3. IsA(to, to) /\ IsA(m, to)
  <2>1. m["unknown"] = <<>> /\ DOMAIN m = DOMAIN NewHandshakeMessage_Object
    BY <1>1, <1>2, NoneJoined DEF IsA
  <2> HIDE DEF m
  <2> QED BY <1>1, <1>2, <2>1, BothAre
<1> HIDE DEF m
<1>4. Makes(c, Upto(m, to, F0), s1, Upto(m, to, F1))
  <2>1. "controlsInOrder" \in DOMAIN to /\ "controlsInOrder" \notin F0
    BY <1>1
  <2>2. Items(to["controlsInOrder"]) /\ Items(v["controlsInOrder"])
    BY DEF IsHandshakeObject
  <2>3. ReadsStrings(c, "controlsInOrder", 10)
    BY DEF ReadsStrings, TurnOf, ParseHandshakeMessage_Object
  <2> HIDE DEF c, F0
  <2> QED BY <1>2, <2>1, <2>2, <2>3, MakesStrings
<1>5. Makes(c, Upto(m, to, F1), s2, Upto(m, to, F2))
  <2>1. "jointSensors" \in DOMAIN to /\ "jointSensors" \notin F1
    BY <1>1
  <2>2. Items(to["jointSensors"]) /\ Items(v["jointSensors"])
    BY DEF IsHandshakeObject
  <2>3. ReadsNumbers(c, "jointSensors", 18)
    BY DEF ReadsNumbers, TurnOf, ParseHandshakeMessage_Object
  <2>4. Packed(s2, 18, v["jointSensors"])
    BY PackedNumbers
  <2> HIDE DEF c, F1, s2
  <2> QED BY <1>2, <2>1, <2>2, <2>3, <2>4, MakesPacked
<1>6. Makes(c, Upto(m, to, F2), s3, Upto(m, to, F3))
  <2>1. "controlEvents" \in DOMAIN to /\ "controlEvents" \notin F2
    BY <1>1
  <2>2. IsMap(to["controlEvents"]) /\ IsMap(v["controlEvents"])
    BY DEF IsHandshakeObject
  <2>3. ReadsEntries(c, "controlEvents", 26, "Number", 0)
    BY HandshakeMessage_Object_ControlEventsEntry
  <2>4. Mapped(s3, 26, "Number", 0, v["controlEvents"], Ordered(DOMAIN v["controlEvents"], order))
    BY NumbersMapped
  <2> HIDE DEF c, F2, s3
  <2> QED BY <1>2, <2>1, <2>2, <2>3, <2>4, MakesMap
<1>7. Makes(c, Upto(m, to, F3), s4, Upto(m, to, F4))
  <2>1. "sensors" \in DOMAIN to /\ "sensors" \notin F3
    BY <1>1
  <2>2. IsMap(to["sensors"]) /\ IsMap(v["sensors"])
    BY DEF IsHandshakeObject
  <2>3. ReadsEntries(c, "sensors", 34, "HandshakeMessage_Sensors", NewHandshakeMessage_Sensors)
    BY HandshakeMessage_Object_SensorsEntry
  <2>4. Mapped(s4, 34, "HandshakeMessage_Sensors", NewHandshakeMessage_Sensors, v["sensors"],
               Ordered(DOMAIN v["sensors"], order))
    <3> DEFINE map == v["sensors"]
               keys == Ordered(DOMAIN map, order)
               w == [i \in DOMAIN keys |-> WriteHandshakeMessage_Sensors(map[keys[i]])]
    <3>1. s4 = [i \in DOMAIN keys |->
                 WriteSub(34, <<WriteString(10, keys[i]), WriteSub(18, w[i])>>)]
      <4>1. s4 = [i \in DOMAIN keys |->
                   WriteSub(34, <<WriteString(10, keys[i]),
                      WriteSub(18, WriteHandshakeMessage_Sensors(map[keys[i]]))>>)]
        BY Zenon DEF WriteMap
      <4> HIDE DEF s4, keys, map
      <4> QED BY <4>1
    <3>2. \A k \in DOMAIN map : IsHandshakeSensors(map[k])
      BY DEF IsHandshakeObject
    <3>3. \A i \in DOMAIN keys : keys[i] \in DOMAIN map
      BY <2>2, OrderedRange DEF IsMap
    <3> HIDE DEF map, keys, s4
    <3>4. \A i \in DOMAIN keys :
            Makes("HandshakeMessage_Sensors", NewHandshakeMessage_Sensors, w[i], map[keys[i]])
      BY <3>2, <3>3, HandshakeMessage_SensorsMade
    <3> HIDE DEF w
    <3>5. Mapped(s4, 34, "HandshakeMessage_Sensors", NewHandshakeMessage_Sensors, map, keys)
      BY <3>1, <3>4, MessagesMapped
    <3> QED BY <3>5 DEF map, keys
  <2> HIDE DEF c, F3, s4
  <2> QED BY <1>2, <2>1, <2>2, <2>3, <2>4, MakesMap
<1>8. Makes(c, Upto(m, to, F4), s5, Upto(m, to, F5))
  <2>1. "objectSensors" \in DOMAIN to /\ "objectSensors" \notin F4
    BY <1>1
  <2>2. Items(to["objectSensors"]) /\ Items(v["objectSensors"])
    BY DEF IsHandshakeObject
  <2>3. ReadsNumbers(c, "objectSensors", 50)
    BY DEF ReadsNumbers, TurnOf, ParseHandshakeMessage_Object
  <2>4. Packed(s5, 50, v["objectSensors"])
    BY PackedNumbers
  <2> HIDE DEF c, F4, s5
  <2> QED BY <1>2, <2>1, <2>2, <2>3, <2>4, MakesPacked
<1>9. Makes(c, Upto(m, to, F5), s6, Upto(m, to, F6))
  <2>1. "jointSensorsInOrder" \in DOMAIN to /\ "jointSensorsInOrder" \notin F5
    BY <1>1
  <2>2. Items(to["jointSensorsInOrder"]) /\ Items(v["jointSensorsInOrder"])
    BY DEF IsHandshakeObject
  <2>3. ReadsStrings(c, "jointSensorsInOrder", 58)
    BY DEF ReadsStrings, TurnOf, ParseHandshakeMessage_Object
  <2> HIDE DEF c, F5
  <2> QED BY <1>2, <2>1, <2>2, <2>3, MakesStrings
<1>10. Makes(c, Upto(m, to, F6), s7, Upto(m, to, F7))
  <2>1. "controlTypesInOrder" \in DOMAIN to /\ "controlTypesInOrder" \notin F6
    BY <1>1
  <2>2. Items(to["controlTypesInOrder"]) /\ Items(v["controlTypesInOrder"])
    BY DEF IsHandshakeObject
  <2>3. ReadsNumbers(c, "controlTypesInOrder", 66)
    BY DEF ReadsNumbers, TurnOf, ParseHandshakeMessage_Object
  <2>4. Packed(s7, 66, v["controlTypesInOrder"])
    BY PackedNumbers
  <2> HIDE DEF c, F6, s7
  <2> QED BY <1>2, <2>1, <2>2, <2>3, <2>4, MakesPacked
<1>11. Upto(m, to, F0) = to /\ Upto(m, to, F7) = m
  <2>1. F7 \cup {"unknown"} = DOMAIN to
    BY <1>1
  <2> HIDE DEF F7
  <2> QED BY <1>3, <2>1, UptoEnds
<1> HIDE DEF c, F1, s1, F2, s2, F3, s3, F4, s4, F5, s5, F6, s6, F7, s7
<1>12. Makes(c, m, <<>>, m)
  BY MakesNothing
<1>13. Makes(c, to, s1 \o s2 \o s3 \o s4 \o s5 \o s6 \o s7 \o <<>>, m)
  BY <1>4, <1>5, <1>6, <1>7, <1>8, <1>9, <1>10, <1>11, <1>12, MakesOn
<1>14. WriteHandshakeMessage_Object(v, order) = s1 \o s2 \o s3 \o s4 \o s5 \o s6 \o s7 \o <<>>
  BY Zenon, <1>1 DEF WriteHandshakeMessage_Object, s1, s2, s3, s4, s5, s6, s7
<1> QED BY <1>13, <1>14 DEF c, m

(* A new one, merged with some, is this. *)
LEMMA NewHandshakeObjectMerged ==
  ASSUME NEW v, IsHandshakeObject(v)
  PROVE  MergeHandshakeMessage_Object(NewHandshakeMessage_Object, v) = v
<1> DEFINE new == NewHandshakeMessage_Object
<1>1. /\ IsA(v, new) /\ v.unknown = <<>>
      /\ <<>> \o v.controlsInOrder = v.controlsInOrder
      /\ <<>> \o v.jointSensors = v.jointSensors
      /\ <<>> \o v.objectSensors = v.objectSensors
      /\ <<>> \o v.jointSensorsInOrder = v.jointSensorsInOrder
      /\ <<>> \o v.controlTypesInOrder = v.controlTypesInOrder
      /\ MergeMap(NoEntries, v.controlEvents) = v.controlEvents
      /\ MergeMap(NoEntries, v.sensors) = v.sensors
  BY NothingJoined, MergedNothing DEF IsHandshakeObject, IsA
<1>2. v = [f \in DOMAIN new |-> v[f]]
  BY <1>1 DEF IsA, IsRecord
<1> QED BY <1>1, <1>2, NoneJoined DEF MergeHandshakeMessage_Object, NewHandshakeMessage_Object

(* So is it read as it was written. *)
LEMMA HandshakeMessage_ObjectMade ==
  ASSUME NEW v, IsHandshakeObject(v), NEW order
  PROVE  Makes("HandshakeMessage_Object", NewHandshakeMessage_Object,
               WriteHandshakeMessage_Object(v, order), v)
<1> DEFINE new == NewHandshakeMessage_Object
<1>1. IsHandshakeObject(new) /\ MergeHandshakeMessage_Object(new, v) = v
  BY NewHandshakeObject, NewHandshakeObjectMerged
<1> HIDE DEF new
<1>2. Makes("HandshakeMessage_Object", new, WriteHandshakeMessage_Object(v, order),
            MergeHandshakeMessage_Object(new, v))
  BY <1>1, HandshakeMessage_ObjectMakes
<1> QED BY <1>1, <1>2 DEF new

(* A robot's readings are merged by parsing them. *)
LEMMA SensorMessage_ObjectMakes ==
  ASSUME NEW to, IsSensorObject(to), NEW v, IsSensorObject(v), NEW order
  PROVE  Makes("SensorMessage_Object", to, WriteSensorMessage_Object(v, order),
               MergeSensorMessage_Object(to, v))
<1> DEFINE c == "SensorMessage_Object"
           m == MergeSensorMessage_Object(to, v)
           F0 == {}
           F1 == F0 \cup {"angleSensors"}
           F2 == F1 \cup {"angularVelocitySensors"}
           F3 == F2 \cup {"torqueSensors"}
           F4 == F3 \cup {"objectSensors"}
           F5 == F4 \cup {"forceSensors"}
           F6 == F5 \cup {"sensors"}
           s1 == WritePacked(10, v["angleSensors"], EightBytes)
           s2 == WritePacked(18, v["angularVelocitySensors"], EightBytes)
           s3 == WritePacked(26, v["torqueSensors"], EightBytes)
           s4 == WriteSensors(34, v["objectSensors"])
           s5 == [i \in DOMAIN v["forceSensors"] |->
                    WriteSub(42, WriteSensorMessage_Vec3(v["forceSensors"][i]))]
           s6 == WriteMap(50, v["sensors"], order,
                          LAMBDA x : WriteSub(18, WriteSensorMessage_Sensors(x)))
<1>1. /\ IsA(to, NewSensorMessage_Object) /\ IsA(v, NewSensorMessage_Object)
      /\ to.unknown = <<>> /\ v.unknown = <<>>
      /\ DOMAIN to = {"angleSensors", "angularVelocitySensors", "torqueSensors", "objectSensors",
                      "forceSensors", "sensors", "unknown"}
  BY DEF IsSensorObject, IsA, NewSensorMessage_Object
<1>2. /\ DOMAIN m = DOMAIN to /\ IsRecord(m) /\ m["unknown"] = to.unknown \o v.unknown
      /\ m["angleSensors"] = to["angleSensors"] \o v["angleSensors"]
      /\ m["angularVelocitySensors"] = to["angularVelocitySensors"] \o v["angularVelocitySensors"]
      /\ m["torqueSensors"] = to["torqueSensors"] \o v["torqueSensors"]
      /\ m["objectSensors"] = to["objectSensors"] \o v["objectSensors"]
      /\ m["forceSensors"] = to["forceSensors"] \o v["forceSensors"]
      /\ m["sensors"] = MergeMap(to["sensors"], v["sensors"])
  BY <1>1 DEF MergeSensorMessage_Object, IsRecord
<1>3. IsA(to, to) /\ IsA(m, to)
  <2>1. m["unknown"] = <<>> /\ DOMAIN m = DOMAIN NewSensorMessage_Object
    BY <1>1, <1>2, NoneJoined DEF IsA
  <2> HIDE DEF m
  <2> QED BY <1>1, <1>2, <2>1, BothAre
<1> HIDE DEF m
<1>4. Makes(c, Upto(m, to, F0), s1, Upto(m, to, F1))
  <2>1. "angleSensors" \in DOMAIN to /\ "angleSensors" \notin F0
    BY <1>1
  <2>2. Items(to["angleSensors"]) /\ Items(v["angleSensors"])
    BY DEF IsSensorObject
  <2>3. ReadsNumbers(c, "angleSensors", 10)
    BY DEF ReadsNumbers, TurnOf, ParseSensorMessage_Object
  <2>4. Packed(s1, 10, v["angleSensors"])
    BY PackedEight
  <2> HIDE DEF c, F0, s1
  <2> QED BY <1>2, <2>1, <2>2, <2>3, <2>4, MakesPacked
<1>5. Makes(c, Upto(m, to, F1), s2, Upto(m, to, F2))
  <2>1. "angularVelocitySensors" \in DOMAIN to /\ "angularVelocitySensors" \notin F1
    BY <1>1
  <2>2. Items(to["angularVelocitySensors"]) /\ Items(v["angularVelocitySensors"])
    BY DEF IsSensorObject
  <2>3. ReadsNumbers(c, "angularVelocitySensors", 18)
    BY DEF ReadsNumbers, TurnOf, ParseSensorMessage_Object
  <2>4. Packed(s2, 18, v["angularVelocitySensors"])
    BY PackedEight
  <2> HIDE DEF c, F1, s2
  <2> QED BY <1>2, <2>1, <2>2, <2>3, <2>4, MakesPacked
<1>6. Makes(c, Upto(m, to, F2), s3, Upto(m, to, F3))
  <2>1. "torqueSensors" \in DOMAIN to /\ "torqueSensors" \notin F2
    BY <1>1
  <2>2. Items(to["torqueSensors"]) /\ Items(v["torqueSensors"])
    BY DEF IsSensorObject
  <2>3. ReadsNumbers(c, "torqueSensors", 26)
    BY DEF ReadsNumbers, TurnOf, ParseSensorMessage_Object
  <2>4. Packed(s3, 26, v["torqueSensors"])
    BY PackedEight
  <2> HIDE DEF c, F2, s3
  <2> QED BY <1>2, <2>1, <2>2, <2>3, <2>4, MakesPacked
<1>7. Makes(c, Upto(m, to, F3), s4, Upto(m, to, F4))
  <2>1. "objectSensors" \in DOMAIN to /\ "objectSensors" \notin F3
    BY <1>1
  <2>2. Items(to["objectSensors"]) /\ Items(v["objectSensors"])
    BY DEF IsSensorObject
  <2> DEFINE w == "SensorMessage_Sensor"
             neww == NewSensorMessage_Sensor
             xs == v["objectSensors"]
             tag == 34
  <2>3. Collects(c, "objectSensors", tag, w, neww)
    BY ObjectSensorsCollected
  <2>4. /\ s4 = [i \in DOMAIN xs |-> s4[i]]
        /\ \A i \in DOMAIN xs : s4[i].tag = tag /\ Makes(w, neww, s4[i].sub, xs[i])
    BY SensorsMade DEF IsSensorObject
  <2>5. m["objectSensors"] = to["objectSensors"] \o xs /\ Items(xs)
    BY <1>2, <2>2
  <2> HIDE DEF c, F3, s4, w, neww, xs, tag
  <2> QED BY <2>1, <2>2, <2>3, <2>4, <2>5, MakesMessages
<1>8. Makes(c, Upto(m, to, F4), s5, Upto(m, to, F5))
  <2>1. "forceSensors" \in DOMAIN to /\ "forceSensors" \notin F4
    BY <1>1
  <2>2. Items(to["forceSensors"]) /\ Items(v["forceSensors"])
    BY DEF IsSensorObject
  <2> DEFINE w == "SensorMessage_Vec3"
             neww == NewSensorMessage_Vec3
             xs == v["forceSensors"]
             tag == 42
  <2>3. Collects(c, "forceSensors", tag, w, neww)
    BY ForceSensorsCollected
  <2>4. /\ s5 = [i \in DOMAIN xs |-> s5[i]]
        /\ \A i \in DOMAIN xs : s5[i].tag = tag /\ Makes(w, neww, s5[i].sub, xs[i])
    BY VectorsMade DEF IsSensorObject
  <2>5. m["forceSensors"] = to["forceSensors"] \o xs /\ Items(xs)
    BY <1>2, <2>2
  <2> HIDE DEF c, F4, s5, w, neww, xs, tag
  <2> QED BY <2>1, <2>2, <2>3, <2>4, <2>5, MakesMessages
<1>9. Makes(c, Upto(m, to, F5), s6, Upto(m, to, F6))
  <2>1. "sensors" \in DOMAIN to /\ "sensors" \notin F5
    BY <1>1
  <2>2. IsMap(to["sensors"]) /\ IsMap(v["sensors"])
    BY DEF IsSensorObject
  <2>3. ReadsEntries(c, "sensors", 50, "SensorMessage_Sensors", NewSensorMessage_Sensors)
    BY SensorMessage_Object_SensorsEntry
  <2>4. Mapped(s6, 50, "SensorMessage_Sensors", NewSensorMessage_Sensors, v["sensors"],
               Ordered(DOMAIN v["sensors"], order))
    <3> DEFINE map == v["sensors"]
               keys == Ordered(DOMAIN map, order)
               w == [i \in DOMAIN keys |-> WriteSensorMessage_Sensors(map[keys[i]])]
    <3>1. s6 = [i \in DOMAIN keys |->
                 WriteSub(50, <<WriteString(10, keys[i]), WriteSub(18, w[i])>>)]
      <4>1. s6 = [i \in DOMAIN keys |->
                   WriteSub(50, <<WriteString(10, keys[i]),
                      WriteSub(18, WriteSensorMessage_Sensors(map[keys[i]]))>>)]
        BY Zenon DEF WriteMap
      <4> HIDE DEF s6, keys, map
      <4> QED BY <4>1
    <3>2. \A k \in DOMAIN map : IsSensors(map[k])
      BY DEF IsSensorObject
    <3>3. \A i \in DOMAIN keys : keys[i] \in DOMAIN map
      BY <2>2, OrderedRange DEF IsMap
    <3> HIDE DEF map, keys, s6
    <3>4. \A i \in DOMAIN keys :
            Makes("SensorMessage_Sensors", NewSensorMessage_Sensors, w[i], map[keys[i]])
      BY <3>2, <3>3, SensorMessage_SensorsMade
    <3> HIDE DEF w
    <3>5. Mapped(s6, 50, "SensorMessage_Sensors", NewSensorMessage_Sensors, map, keys)
      BY <3>1, <3>4, MessagesMapped
    <3> QED BY <3>5 DEF map, keys
  <2> HIDE DEF c, F5, s6
  <2> QED BY <1>2, <2>1, <2>2, <2>3, <2>4, MakesMap
<1>10. Upto(m, to, F0) = to /\ Upto(m, to, F6) = m
  <2>1. F6 \cup {"unknown"} = DOMAIN to
    BY <1>1
  <2> HIDE DEF F6
  <2> QED BY <1>3, <2>1, UptoEnds
<1> HIDE DEF c, F1, s1, F2, s2, F3, s3, F4, s4, F5, s5, F6, s6
<1>11. Makes(c, m, <<>>, m)
  BY MakesNothing
<1>12. Makes(c, to, s1 \o s2 \o s3 \o s4 \o s5 \o s6 \o <<>>, m)
  BY <1>4, <1>5, <1>6, <1>7, <1>8, <1>9, <1>10, <1>11, MakesOn
<1>13. WriteSensorMessage_Object(v, order) = s1 \o s2 \o s3 \o s4 \o s5 \o s6 \o <<>>
  BY Zenon, <1>1 DEF WriteSensorMessage_Object, s1, s2, s3, s4, s5, s6
<1> QED BY <1>12, <1>13 DEF c, m

(* New ones, merged with some, are these. *)
LEMMA NewSensorObjectMerged ==
  ASSUME NEW v, IsSensorObject(v)
  PROVE  MergeSensorMessage_Object(NewSensorMessage_Object, v) = v
<1> DEFINE new == NewSensorMessage_Object
<1>1. /\ IsA(v, new) /\ v.unknown = <<>>
      /\ <<>> \o v.angleSensors = v.angleSensors
      /\ <<>> \o v.angularVelocitySensors = v.angularVelocitySensors
      /\ <<>> \o v.torqueSensors = v.torqueSensors
      /\ <<>> \o v.objectSensors = v.objectSensors
      /\ <<>> \o v.forceSensors = v.forceSensors
      /\ MergeMap(NoEntries, v.sensors) = v.sensors
  BY NothingJoined, MergedNothing DEF IsSensorObject, IsA
<1>2. v = [f \in DOMAIN new |-> v[f]]
  BY <1>1 DEF IsA, IsRecord
<1> QED BY <1>1, <1>2, NoneJoined DEF MergeSensorMessage_Object, NewSensorMessage_Object

(* So are they read as they were written. *)
LEMMA SensorMessage_ObjectMade ==
  ASSUME NEW v, IsSensorObject(v), NEW order
  PROVE  Makes("SensorMessage_Object", NewSensorMessage_Object,
               WriteSensorMessage_Object(v, order), v)
<1> DEFINE new == NewSensorMessage_Object
<1>1. IsSensorObject(new) /\ MergeSensorMessage_Object(new, v) = v
  BY NewSensorObject, NewSensorObjectMerged
<1> HIDE DEF new
<1>2. Makes("SensorMessage_Object", new, WriteSensorMessage_Object(v, order),
            MergeSensorMessage_Object(new, v))
  BY <1>1, SensorMessage_ObjectMakes
<1> QED BY <1>1, <1>2 DEF new

(* A HandshakeInitMessage is merged by parsing it. *)
LEMMA HandshakeInitMessageMakes ==
  ASSUME NEW to, IsHandshakeInitMessage(to), NEW v, IsHandshakeInitMessage(v)
  PROVE  Makes("HandshakeInitMessage", to, WriteHandshakeInitMessage(v),
               MergeHandshakeInitMessage(to, v))
<1> DEFINE c == "HandshakeInitMessage"
           m == MergeHandshakeInitMessage(to, v)
           F0 == {}
           F1 == F0 \cup {"messageType"}
           F2 == F1 \cup {"version"}
           s1 == If(v["messageType"] # 0, WriteVarint(8, v["messageType"]))
           s2 == If(v["version"] # 0, WriteVarint(16, v["version"]))
<1>1. /\ IsA(to, NewHandshakeInitMessage) /\ IsA(v, NewHandshakeInitMessage)
      /\ to.unknown = <<>> /\ v.unknown = <<>>
      /\ DOMAIN to = {"messageType", "version", "unknown"}
  BY DEF IsHandshakeInitMessage, IsA, NewHandshakeInitMessage
<1>2. /\ DOMAIN m = DOMAIN to /\ IsRecord(m) /\ m["unknown"] = to.unknown \o v.unknown
      /\ m["messageType"] = MergeNumber(to["messageType"], v["messageType"])
      /\ m["version"] = MergeNumber(to["version"], v["version"])
  BY <1>1 DEF MergeHandshakeInitMessage, IsRecord
<1>3. IsA(to, to) /\ IsA(m, to)
  <2>1. m["unknown"] = <<>> /\ DOMAIN m = DOMAIN NewHandshakeInitMessage
    BY <1>1, <1>2, NoneJoined DEF IsA
  <2> HIDE DEF m
  <2> QED BY <1>1, <1>2, <2>1, BothAre
<1> HIDE DEF m
<1>4. Makes(c, Upto(m, to, F0), s1, Upto(m, to, F1))
  <2>1. "messageType" \in DOMAIN to /\ "messageType" \notin F0
    BY <1>1
  <2>2. ReadsNumber(c, "messageType", 8)
    BY DEF ReadsNumber, TurnOf, Turn, ParseHandshakeInitMessage
  <2> DEFINE it == WriteVarint(8, v["messageType"])
  <2>3. IsWritten(it, 8) /\ it.num = <<v["messageType"]>>
    BY WrittenScalar
  <2> HIDE DEF c, F0, it
  <2>4. Makes(c, Upto(m, to, F0), If(v["messageType"] # 0, it), Upto(m, to, F1))
    BY <1>2, <2>1, <2>2, <2>3, MakesNumber
  <2> QED BY <2>4 DEF it
<1>5. Makes(c, Upto(m, to, F1), s2, Upto(m, to, F2))
  <2>1. "version" \in DOMAIN to /\ "version" \notin F1
    BY <1>1
  <2>2. ReadsNumber(c, "version", 16)
    BY DEF ReadsNumber, TurnOf, Turn, ParseHandshakeInitMessage
  <2> DEFINE it == WriteVarint(16, v["version"])
  <2>3. IsWritten(it, 16) /\ it.num = <<v["version"]>>
    BY WrittenScalar
  <2> HIDE DEF c, F1, it
  <2>4. Makes(c, Upto(m, to, F1), If(v["version"] # 0, it), Upto(m, to, F2))
    BY <1>2, <2>1, <2>2, <2>3, MakesNumber
  <2> QED BY <2>4 DEF it
<1>6. Upto(m, to, F0) = to /\ Upto(m, to, F2) = m
  <2>1. F2 \cup {"unknown"} = DOMAIN to
    BY <1>1
  <2> HIDE DEF F2
  <2> QED BY <1>3, <2>1, UptoEnds
<1> HIDE DEF c, F1, s1, F2, s2
<1>7. Makes(c, m, <<>>, m)
  BY MakesNothing
<1>8. Makes(c, to, s1 \o s2 \o <<>>, m)
  BY <1>4, <1>5, <1>6, <1>7, MakesOn
<1>9. WriteHandshakeInitMessage(v) = s1 \o s2 \o <<>>
  BY Zenon, <1>1 DEF WriteHandshakeInitMessage, s1, s2
<1> QED BY <1>8, <1>9 DEF c, m

(* So is a SensorRequestMessage, *)
LEMMA SensorRequestMessageMakes ==
  ASSUME NEW to, IsSensorRequestMessage(to), NEW v, IsSensorRequestMessage(v)
  PROVE  Makes("SensorRequestMessage", to, WriteSensorRequestMessage(v),
               MergeSensorRequestMessage(to, v))
<1> DEFINE c == "SensorRequestMessage"
           m == MergeSensorRequestMessage(to, v)
           F0 == {}
           F1 == F0 \cup {"messageType"}
           s1 == If(v["messageType"] # 0, WriteVarint(8, v["messageType"]))
<1>1. /\ IsA(to, NewSensorRequestMessage) /\ IsA(v, NewSensorRequestMessage)
      /\ to.unknown = <<>> /\ v.unknown = <<>>
      /\ DOMAIN to = {"messageType", "unknown"}
  BY DEF IsSensorRequestMessage, IsA, NewSensorRequestMessage
<1>2. /\ DOMAIN m = DOMAIN to /\ IsRecord(m) /\ m["unknown"] = to.unknown \o v.unknown
      /\ m["messageType"] = MergeNumber(to["messageType"], v["messageType"])
  BY <1>1 DEF MergeSensorRequestMessage, IsRecord
<1>3. IsA(to, to) /\ IsA(m, to)
  <2>1. m["unknown"] = <<>> /\ DOMAIN m = DOMAIN NewSensorRequestMessage
    BY <1>1, <1>2, NoneJoined DEF IsA
  <2> HIDE DEF m
  <2> QED BY <1>1, <1>2, <2>1, BothAre
<1> HIDE DEF m
<1>4. Makes(c, Upto(m, to, F0), s1, Upto(m, to, F1))
  <2>1. "messageType" \in DOMAIN to /\ "messageType" \notin F0
    BY <1>1
  <2>2. ReadsNumber(c, "messageType", 8)
    BY DEF ReadsNumber, TurnOf, Turn, ParseSensorRequestMessage
  <2> DEFINE it == WriteVarint(8, v["messageType"])
  <2>3. IsWritten(it, 8) /\ it.num = <<v["messageType"]>>
    BY WrittenScalar
  <2> HIDE DEF c, F0, it
  <2>4. Makes(c, Upto(m, to, F0), If(v["messageType"] # 0, it), Upto(m, to, F1))
    BY <1>2, <2>1, <2>2, <2>3, MakesNumber
  <2> QED BY <2>4 DEF it
<1>5. Upto(m, to, F0) = to /\ Upto(m, to, F1) = m
  <2>1. F1 \cup {"unknown"} = DOMAIN to
    BY <1>1
  <2> HIDE DEF F1
  <2> QED BY <1>3, <2>1, UptoEnds
<1> HIDE DEF c, F1, s1
<1>6. Makes(c, m, <<>>, m)
  BY MakesNothing
<1>7. Makes(c, to, s1 \o <<>>, m)
  BY <1>4, <1>5, <1>6, MakesOn
<1>8. WriteSensorRequestMessage(v) = s1 \o <<>>
  BY Zenon, <1>1 DEF WriteSensorRequestMessage, s1
<1> QED BY <1>7, <1>8 DEF c, m

(* a ResetMessage, *)
LEMMA ResetMessageMakes ==
  ASSUME NEW to, IsResetMessage(to), NEW v, IsResetMessage(v)
  PROVE  Makes("ResetMessage", to, WriteResetMessage(v),
               MergeResetMessage(to, v))
<1> DEFINE c == "ResetMessage"
           m == MergeResetMessage(to, v)
           F0 == {}
           F1 == F0 \cup {"messageType"}
           s1 == If(v["messageType"] # 0, WriteVarint(8, v["messageType"]))
<1>1. /\ IsA(to, NewResetMessage) /\ IsA(v, NewResetMessage)
      /\ to.unknown = <<>> /\ v.unknown = <<>>
      /\ DOMAIN to = {"messageType", "unknown"}
  BY DEF IsResetMessage, IsA, NewResetMessage
<1>2. /\ DOMAIN m = DOMAIN to /\ IsRecord(m) /\ m["unknown"] = to.unknown \o v.unknown
      /\ m["messageType"] = MergeNumber(to["messageType"], v["messageType"])
  BY <1>1 DEF MergeResetMessage, IsRecord
<1>3. IsA(to, to) /\ IsA(m, to)
  <2>1. m["unknown"] = <<>> /\ DOMAIN m = DOMAIN NewResetMessage
    BY <1>1, <1>2, NoneJoined DEF IsA
  <2> HIDE DEF m
  <2> QED BY <1>1, <1>2, <2>1, BothAre
<1> HIDE DEF m
<1>4. Makes(c, Upto(m, to, F0), s1, Upto(m, to, F1))
  <2>1. "messageType" \in DOMAIN to /\ "messageType" \notin F0
    BY <1>1
  <2>2. ReadsNumber(c, "messageType", 8)
    BY DEF ReadsNumber, TurnOf, Turn, ParseResetMessage
  <2> DEFINE it == WriteVarint(8, v["messageType"])
  <2>3. IsWritten(it, 8) /\ it.num = <<v["messageType"]>>
    BY WrittenScalar
  <2> HIDE DEF c, F0, it
  <2>4. Makes(c, Upto(m, to, F0), If(v["messageType"] # 0, it), Upto(m, to, F1))
    BY <1>2, <2>1, <2>2, <2>3, MakesNumber
  <2> QED BY <2>4 DEF it
<1>5. Upto(m, to, F0) = to /\ Upto(m, to, F1) = m
  <2>1. F1 \cup {"unknown"} = DOMAIN to
    BY <1>1
  <2> HIDE DEF F1
  <2> QED BY <1>3, <2>1, UptoEnds
<1> HIDE DEF c, F1, s1
<1>6. Makes(c, m, <<>>, m)
  BY MakesNothing
<1>7. Makes(c, to, s1 \o <<>>, m)
  BY <1>4, <1>5, <1>6, MakesOn
<1>8. WriteResetMessage(v) = s1 \o <<>>
  BY Zenon, <1>1 DEF WriteResetMessage, s1
<1> QED BY <1>7, <1>8 DEF c, m

(* an ErrorMessage, *)
LEMMA ErrorMessageMakes ==
  ASSUME NEW to, IsErrorMessage(to), NEW v, IsErrorMessage(v)
  PROVE  Makes("ErrorMessage", to, WriteErrorMessage(v),
               MergeErrorMessage(to, v))
<1> DEFINE c == "ErrorMessage"
           m == MergeErrorMessage(to, v)
           F0 == {}
           F1 == F0 \cup {"messageType"}
           F2 == F1 \cup {"error"}
           F3 == F2 \cup {"errormessage"}
           s1 == If(v["messageType"] # 0, WriteVarint(8, v["messageType"]))
           s2 == If(v["error"] # 0, WriteVarint(16, v["error"]))
           s3 == If(v["errormessage"] # "", WriteString(26, v["errormessage"]))
<1>1. /\ IsA(to, NewErrorMessage) /\ IsA(v, NewErrorMessage)
      /\ to.unknown = <<>> /\ v.unknown = <<>>
      /\ DOMAIN to = {"messageType", "error", "errormessage", "unknown"}
  BY DEF IsErrorMessage, IsA, NewErrorMessage
<1>2. /\ DOMAIN m = DOMAIN to /\ IsRecord(m) /\ m["unknown"] = to.unknown \o v.unknown
      /\ m["messageType"] = MergeNumber(to["messageType"], v["messageType"])
      /\ m["error"] = MergeNumber(to["error"], v["error"])
      /\ m["errormessage"] = IF v["errormessage"] # "" THEN v["errormessage"]
                             ELSE to["errormessage"]
  BY <1>1 DEF MergeErrorMessage, IsRecord
<1>3. IsA(to, to) /\ IsA(m, to)
  <2>1. m["unknown"] = <<>> /\ DOMAIN m = DOMAIN NewErrorMessage
    BY <1>1, <1>2, NoneJoined DEF IsA
  <2> HIDE DEF m
  <2> QED BY <1>1, <1>2, <2>1, BothAre
<1> HIDE DEF m
<1>4. Makes(c, Upto(m, to, F0), s1, Upto(m, to, F1))
  <2>1. "messageType" \in DOMAIN to /\ "messageType" \notin F0
    BY <1>1
  <2>2. ReadsNumber(c, "messageType", 8)
    BY DEF ReadsNumber, TurnOf, Turn, ParseErrorMessage
  <2> DEFINE it == WriteVarint(8, v["messageType"])
  <2>3. IsWritten(it, 8) /\ it.num = <<v["messageType"]>>
    BY WrittenScalar
  <2> HIDE DEF c, F0, it
  <2>4. Makes(c, Upto(m, to, F0), If(v["messageType"] # 0, it), Upto(m, to, F1))
    BY <1>2, <2>1, <2>2, <2>3, MakesNumber
  <2> QED BY <2>4 DEF it
<1>5. Makes(c, Upto(m, to, F1), s2, Upto(m, to, F2))
  <2>1. "error" \in DOMAIN to /\ "error" \notin F1
    BY <1>1
  <2>2. ReadsNumber(c, "error", 16)
    BY DEF ReadsNumber, TurnOf, Turn, ParseErrorMessage
  <2> DEFINE it == WriteVarint(16, v["error"])
  <2>3. IsWritten(it, 16) /\ it.num = <<v["error"]>>
    BY WrittenScalar
  <2> HIDE DEF c, F1, it
  <2>4. Makes(c, Upto(m, to, F1), If(v["error"] # 0, it), Upto(m, to, F2))
    BY <1>2, <2>1, <2>2, <2>3, MakesNumber
  <2> QED BY <2>4 DEF it
<1>6. Makes(c, Upto(m, to, F2), s3, Upto(m, to, F3))
  <2>1. "errormessage" \in DOMAIN to /\ "errormessage" \notin F2
    BY <1>1
  <2>2. ReadsString(c, "errormessage", 26)
    BY DEF ReadsString, TurnOf, Turn, ParseErrorMessage
  <2> DEFINE it == WriteString(26, v["errormessage"])
  <2>3. IsWritten(it, 26) /\ it.str = v["errormessage"]
    BY WrittenScalar
  <2> HIDE DEF c, F2, it
  <2>4. Makes(c, Upto(m, to, F2), If(v["errormessage"] # "", it), Upto(m, to, F3))
    BY <1>2, <2>1, <2>2, <2>3, MakesString
  <2> QED BY <2>4 DEF it
<1>7. Upto(m, to, F0) = to /\ Upto(m, to, F3) = m
  <2>1. F3 \cup {"unknown"} = DOMAIN to
    BY <1>1
  <2> HIDE DEF F3
  <2> QED BY <1>3, <2>1, UptoEnds
<1> HIDE DEF c, F1, s1, F2, s2, F3, s3
<1>8. Makes(c, m, <<>>, m)
  BY MakesNothing
<1>9. Makes(c, to, s1 \o s2 \o s3 \o <<>>, m)
  BY <1>4, <1>5, <1>6, <1>7, <1>8, MakesOn
<1>10. WriteErrorMessage(v) = s1 \o s2 \o s3 \o <<>>
  BY Zenon, <1>1 DEF WriteErrorMessage, s1, s2, s3
<1> QED BY <1>9, <1>10 DEF c, m

(* a ControlMessage, *)
LEMMA ControlMessageMakes ==
  ASSUME NEW to, IsControlMessage(to), NEW v, IsControlMessage(v), NEW order
  PROVE  Makes("ControlMessage", to, WriteControlMessage(v, order),
               MergeControlMessage(to, v))
<1> DEFINE c == "ControlMessage"
           m == MergeControlMessage(to, v)
           F0 == {}
           F1 == F0 \cup {"messageType"}
           F2 == F1 \cup {"objects"}
           s1 == If(v["messageType"] # 0, WriteVarint(8, v["messageType"]))
           s2 == WriteMap(18, v["objects"], order,
                          LAMBDA x : WriteSub(18, WriteControlMessage_Object(x, order)))
<1>1. /\ IsA(to, NewControlMessage) /\ IsA(v, NewControlMessage)
      /\ to.unknown = <<>> /\ v.unknown = <<>>
      /\ DOMAIN to = {"messageType", "objects", "unknown"}
  BY DEF IsControlMessage, IsA, NewControlMessage
<1>2. /\ DOMAIN m = DOMAIN to /\ IsRecord(m) /\ m["unknown"] = to.unknown \o v.unknown
      /\ m["messageType"] = MergeNumber(to["messageType"], v["messageType"])
      /\ m["objects"] = MergeMap(to["objects"], v["objects"])
  BY <1>1 DEF MergeControlMessage, IsRecord
<1>3. IsA(to, to) /\ IsA(m, to)
  <2>1. m["unknown"] = <<>> /\ DOMAIN m = DOMAIN NewControlMessage
    BY <1>1, <1>2, NoneJoined DEF IsA
  <2> HIDE DEF m
  <2> QED BY <1>1, <1>2, <2>1, BothAre
<1> HIDE DEF m
<1>4. Makes(c, Upto(m, to, F0), s1, Upto(m, to, F1))
  <2>1. "messageType" \in DOMAIN to /\ "messageType" \notin F0
    BY <1>1
  <2>2. ReadsNumber(c, "messageType", 8)
    BY DEF ReadsNumber, TurnOf, Turn, ParseControlMessage
  <2> DEFINE it == WriteVarint(8, v["messageType"])
  <2>3. IsWritten(it, 8) /\ it.num = <<v["messageType"]>>
    BY WrittenScalar
  <2> HIDE DEF c, F0, it
  <2>4. Makes(c, Upto(m, to, F0), If(v["messageType"] # 0, it), Upto(m, to, F1))
    BY <1>2, <2>1, <2>2, <2>3, MakesNumber
  <2> QED BY <2>4 DEF it
<1>5. Makes(c, Upto(m, to, F1), s2, Upto(m, to, F2))
  <2>1. "objects" \in DOMAIN to /\ "objects" \notin F1
    BY <1>1
  <2>2. IsMap(to["objects"]) /\ IsMap(v["objects"])
    BY DEF IsControlMessage
  <2>3. ReadsEntries(c, "objects", 18, "ControlMessage_Object", NewControlMessage_Object)
    BY ControlMessage_ObjectsEntry
  <2>4. Mapped(s2, 18, "ControlMessage_Object", NewControlMessage_Object, v["objects"],
               Ordered(DOMAIN v["objects"], order))
    <3> DEFINE map == v["objects"]
               keys == Ordered(DOMAIN map, order)
               w == [i \in DOMAIN keys |-> WriteControlMessage_Object(map[keys[i]], order)]
    <3>1. s2 = [i \in DOMAIN keys |->
                 WriteSub(18, <<WriteString(10, keys[i]), WriteSub(18, w[i])>>)]
      <4>1. s2 = [i \in DOMAIN keys |->
                   WriteSub(18, <<WriteString(10, keys[i]),
                      WriteSub(18, WriteControlMessage_Object(map[keys[i]], order))>>)]
        BY Zenon DEF WriteMap
      <4> HIDE DEF s2, keys, map
      <4> QED BY <4>1
    <3>2. \A k \in DOMAIN map : IsControlObject(map[k])
      BY DEF IsControlMessage
    <3>3. \A i \in DOMAIN keys : keys[i] \in DOMAIN map
      BY <2>2, OrderedRange DEF IsMap
    <3> HIDE DEF map, keys, s2
    <3>4. \A i \in DOMAIN keys :
            Makes("ControlMessage_Object", NewControlMessage_Object, w[i], map[keys[i]])
      BY <3>2, <3>3, ControlMessage_ObjectMade
    <3> HIDE DEF w
    <3>5. Mapped(s2, 18, "ControlMessage_Object", NewControlMessage_Object, map, keys)
      BY <3>1, <3>4, MessagesMapped
    <3> QED BY <3>5 DEF map, keys
  <2> HIDE DEF c, F1, s2
  <2> QED BY <1>2, <2>1, <2>2, <2>3, <2>4, MakesMap
<1>6. Upto(m, to, F0) = to /\ Upto(m, to, F2) = m
  <2>1. F2 \cup {"unknown"} = DOMAIN to
    BY <1>1
  <2> HIDE DEF F2
  <2> QED BY <1>3, <2>1, UptoEnds
<1> HIDE DEF c, F1, s1, F2, s2
<1>7. Makes(c, m, <<>>, m)
  BY MakesNothing
<1>8. Makes(c, to, s1 \o s2 \o <<>>, m)
  BY <1>4, <1>5, <1>6, <1>7, MakesOn
<1>9. WriteControlMessage(v, order) = s1 \o s2 \o <<>>
  BY Zenon, <1>1 DEF WriteControlMessage, s1, s2
<1> QED BY <1>8, <1>9 DEF c, m

(* a SensorMessage *)
LEMMA SensorMessageMakes ==
  ASSUME NEW to, IsSensorMessage(to), NEW v, IsSensorMessage(v), NEW order
  PROVE  Makes("SensorMessage", to, WriteSensorMessage(v, order),
               MergeSensorMessage(to, v))
<1> DEFINE c == "SensorMessage"
           m == MergeSensorMessage(to, v)
           F0 == {}
           F1 == F0 \cup {"messageType"}
           F2 == F1 \cup {"objects"}
           F3 == F2 \cup {"simVars"}
           s1 == If(v["messageType"] # 0, WriteVarint(8, v["messageType"]))
           s2 == WriteMap(26, v["objects"], order,
                          LAMBDA x : WriteSub(18, WriteSensorMessage_Object(x, order)))
           s3 == [i \in DOMAIN v["simVars"] |->
                    WriteSub(34, WriteSensorMessage_SimulationVariables(v["simVars"][i]))]
<1>1. /\ IsA(to, NewSensorMessage) /\ IsA(v, NewSensorMessage)
      /\ to.unknown = <<>> /\ v.unknown = <<>>
      /\ DOMAIN to = {"messageType", "objects", "simVars", "unknown"}
  BY DEF IsSensorMessage, IsA, NewSensorMessage
<1>2. /\ DOMAIN m = DOMAIN to /\ IsRecord(m) /\ m["unknown"] = to.unknown \o v.unknown
      /\ m["messageType"] = MergeNumber(to["messageType"], v["messageType"])
      /\ m["objects"] = MergeMap(to["objects"], v["objects"])
      /\ m["simVars"] = MergeSub(to["simVars"], v["simVars"], NewSensorMessage_SimulationVariables,
                       MergeSensorMessage_SimulationVariables)
  BY <1>1 DEF MergeSensorMessage, IsRecord
<1>3. IsA(to, to) /\ IsA(m, to)
  <2>1. m["unknown"] = <<>> /\ DOMAIN m = DOMAIN NewSensorMessage
    BY <1>1, <1>2, NoneJoined DEF IsA
  <2> HIDE DEF m
  <2> QED BY <1>1, <1>2, <2>1, BothAre
<1> HIDE DEF m
<1>4. Makes(c, Upto(m, to, F0), s1, Upto(m, to, F1))
  <2>1. "messageType" \in DOMAIN to /\ "messageType" \notin F0
    BY <1>1
  <2>2. ReadsNumber(c, "messageType", 8)
    BY DEF ReadsNumber, TurnOf, Turn, ParseSensorMessage
  <2> DEFINE it == WriteVarint(8, v["messageType"])
  <2>3. IsWritten(it, 8) /\ it.num = <<v["messageType"]>>
    BY WrittenScalar
  <2> HIDE DEF c, F0, it
  <2>4. Makes(c, Upto(m, to, F0), If(v["messageType"] # 0, it), Upto(m, to, F1))
    BY <1>2, <2>1, <2>2, <2>3, MakesNumber
  <2> QED BY <2>4 DEF it
<1>5. Makes(c, Upto(m, to, F1), s2, Upto(m, to, F2))
  <2>1. "objects" \in DOMAIN to /\ "objects" \notin F1
    BY <1>1
  <2>2. IsMap(to["objects"]) /\ IsMap(v["objects"])
    BY DEF IsSensorMessage
  <2>3. ReadsEntries(c, "objects", 26, "SensorMessage_Object", NewSensorMessage_Object)
    BY SensorMessage_ObjectsEntry
  <2>4. Mapped(s2, 26, "SensorMessage_Object", NewSensorMessage_Object, v["objects"],
               Ordered(DOMAIN v["objects"], order))
    <3> DEFINE map == v["objects"]
               keys == Ordered(DOMAIN map, order)
               w == [i \in DOMAIN keys |-> WriteSensorMessage_Object(map[keys[i]], order)]
    <3>1. s2 = [i \in DOMAIN keys |->
                 WriteSub(26, <<WriteString(10, keys[i]), WriteSub(18, w[i])>>)]
      <4>1. s2 = [i \in DOMAIN keys |->
                   WriteSub(26, <<WriteString(10, keys[i]),
                      WriteSub(18, WriteSensorMessage_Object(map[keys[i]], order))>>)]
        BY Zenon DEF WriteMap
      <4> HIDE DEF s2, keys, map
      <4> QED BY <4>1
    <3>2. \A k \in DOMAIN map : IsSensorObject(map[k])
      BY DEF IsSensorMessage
    <3>3. \A i \in DOMAIN keys : keys[i] \in DOMAIN map
      BY <2>2, OrderedRange DEF IsMap
    <3> HIDE DEF map, keys, s2
    <3>4. \A i \in DOMAIN keys :
            Makes("SensorMessage_Object", NewSensorMessage_Object, w[i], map[keys[i]])
      BY <3>2, <3>3, SensorMessage_ObjectMade
    <3> HIDE DEF w
    <3>5. Mapped(s2, 26, "SensorMessage_Object", NewSensorMessage_Object, map, keys)
      BY <3>1, <3>4, MessagesMapped
    <3> QED BY <3>5 DEF map, keys
  <2> HIDE DEF c, F1, s2
  <2> QED BY <1>2, <2>1, <2>2, <2>3, <2>4, MakesMap
<1>6. Makes(c, Upto(m, to, F2), s3, Upto(m, to, F3))
  <2>1. "simVars" \in DOMAIN to /\ "simVars" \notin F2
    BY <1>1
  <2>2. Nests(c, "simVars", 34, "SensorMessage_SimulationVariables",
              NewSensorMessage_SimulationVariables)
    BY VariablesNested
  <2>3. OneOf(to["simVars"], NewSensorMessage_SimulationVariables)
        /\ OneOf(v["simVars"], NewSensorMessage_SimulationVariables)
    BY DEF IsSensorMessage
  <2>4. Merging("SensorMessage_SimulationVariables", NewSensorMessage_SimulationVariables,
                34, s3, v["simVars"], to["simVars"], m["simVars"])
    BY <1>2, <2>3, VariablesMerging
  <2> HIDE DEF c, F2, s3
  <2> QED BY <2>1, <2>2, <2>4, MakesMessage
<1>7. Upto(m, to, F0) = to /\ Upto(m, to, F3) = m
  <2>1. F3 \cup {"unknown"} = DOMAIN to
    BY <1>1
  <2> HIDE DEF F3
  <2> QED BY <1>3, <2>1, UptoEnds
<1> HIDE DEF c, F1, s1, F2, s2, F3, s3
<1>8. Makes(c, m, <<>>, m)
  BY MakesNothing
<1>9. Makes(c, to, s1 \o s2 \o s3 \o <<>>, m)
  BY <1>4, <1>5, <1>6, <1>7, <1>8, MakesOn
<1>10. WriteSensorMessage(v, order) = s1 \o s2 \o s3 \o <<>>
  BY Zenon, <1>1 DEF WriteSensorMessage, s1, s2, s3
<1> QED BY <1>9, <1>10 DEF c, m

(* and a HandshakeMessage. *)
LEMMA HandshakeMessageMakes ==
  ASSUME NEW to, IsHandshakeMessage(to), NEW v, IsHandshakeMessage(v), NEW order
  PROVE  Makes("HandshakeMessage", to, WriteHandshakeMessage(v, order),
               MergeHandshakeMessage(to, v))
<1> DEFINE c == "HandshakeMessage"
           m == MergeHandshakeMessage(to, v)
           F0 == {}
           F1 == F0 \cup {"messageType"}
           F2 == F1 \cup {"version"}
           F3 == F2 \cup {"controlType"}
           F4 == F3 \cup {"objects"}
           F5 == F4 \cup {"simSettings"}
           s1 == If(v["messageType"] # 0, WriteVarint(8, v["messageType"]))
           s2 == If(v["version"] # 0, WriteVarint(16, v["version"]))
           s3 == If(v["controlType"] # 0, WriteVarint(24, v["controlType"]))
           s4 == WriteMap(34, v["objects"], order,
                          LAMBDA x : WriteSub(18, WriteHandshakeMessage_Object(x, order)))
           s5 == [i \in DOMAIN v["simSettings"] |->
                    WriteSub(42, WriteHandshakeMessage_SimulationSettings(v["simSettings"][i]))]
<1>1. /\ IsA(to, NewHandshakeMessage) /\ IsA(v, NewHandshakeMessage)
      /\ to.unknown = <<>> /\ v.unknown = <<>>
      /\ DOMAIN to = {"messageType", "version", "controlType", "objects", "simSettings",
                      "unknown"}
  BY DEF IsHandshakeMessage, IsA, NewHandshakeMessage
<1>2. /\ DOMAIN m = DOMAIN to /\ IsRecord(m) /\ m["unknown"] = to.unknown \o v.unknown
      /\ m["messageType"] = MergeNumber(to["messageType"], v["messageType"])
      /\ m["version"] = MergeNumber(to["version"], v["version"])
      /\ m["controlType"] = MergeNumber(to["controlType"], v["controlType"])
      /\ m["objects"] = MergeMap(to["objects"], v["objects"])
      /\ m["simSettings"] = MergeSub(to["simSettings"], v["simSettings"],
                                     NewHandshakeMessage_SimulationSettings,
                       MergeHandshakeMessage_SimulationSettings)
  BY <1>1 DEF MergeHandshakeMessage, IsRecord
<1>3. IsA(to, to) /\ IsA(m, to)
  <2>1. m["unknown"] = <<>> /\ DOMAIN m = DOMAIN NewHandshakeMessage
    BY <1>1, <1>2, NoneJoined DEF IsA
  <2> HIDE DEF m
  <2> QED BY <1>1, <1>2, <2>1, BothAre
<1> HIDE DEF m
<1>4. Makes(c, Upto(m, to, F0), s1, Upto(m, to, F1))
  <2>1. "messageType" \in DOMAIN to /\ "messageType" \notin F0
    BY <1>1
  <2>2. ReadsNumber(c, "messageType", 8)
    BY DEF ReadsNumber, TurnOf, Turn, ParseHandshakeMessage
  <2> DEFINE it == WriteVarint(8, v["messageType"])
  <2>3. IsWritten(it, 8) /\ it.num = <<v["messageType"]>>
    BY WrittenScalar
  <2> HIDE DEF c, F0, it
  <2>4. Makes(c, Upto(m, to, F0), If(v["messageType"] # 0, it), Upto(m, to, F1))
    BY <1>2, <2>1, <2>2, <2>3, MakesNumber
  <2> QED BY <2>4 DEF it
<1>5. Makes(c, Upto(m, to, F1), s2, Upto(m, to, F2))
  <2>1. "version" \in DOMAIN to /\ "version" \notin F1
    BY <1>1
  <2>2. ReadsNumber(c, "version", 16)
    BY DEF ReadsNumber, TurnOf, Turn, ParseHandshakeMessage
  <2> DEFINE it == WriteVarint(16, v["version"])
  <2>3. IsWritten(it, 16) /\ it.num = <<v["version"]>>
    BY WrittenScalar
  <2> HIDE DEF c, F1, it
  <2>4. Makes(c, Upto(m, to, F1), If(v["version"] # 0, it), Upto(m, to, F2))
    BY <1>2, <2>1, <2>2, <2>3, MakesNumber
  <2> QED BY <2>4 DEF it
<1>6. Makes(c, Upto(m, to, F2), s3, Upto(m, to, F3))
  <2>1. "controlType" \in DOMAIN to /\ "controlType" \notin F2
    BY <1>1
  <2>2. ReadsNumber(c, "controlType", 24)
    BY DEF ReadsNumber, TurnOf, Turn, ParseHandshakeMessage
  <2> DEFINE it == WriteVarint(24, v["controlType"])
  <2>3. IsWritten(it, 24) /\ it.num = <<v["controlType"]>>
    BY WrittenScalar
  <2> HIDE DEF c, F2, it
  <2>4. Makes(c, Upto(m, to, F2), If(v["controlType"] # 0, it), Upto(m, to, F3))
    BY <1>2, <2>1, <2>2, <2>3, MakesNumber
  <2> QED BY <2>4 DEF it
<1>7. Makes(c, Upto(m, to, F3), s4, Upto(m, to, F4))
  <2>1. "objects" \in DOMAIN to /\ "objects" \notin F3
    BY <1>1
  <2>2. IsMap(to["objects"]) /\ IsMap(v["objects"])
    BY DEF IsHandshakeMessage
  <2>3. ReadsEntries(c, "objects", 34, "HandshakeMessage_Object", NewHandshakeMessage_Object)
    BY HandshakeMessage_ObjectsEntry
  <2>4. Mapped(s4, 34, "HandshakeMessage_Object", NewHandshakeMessage_Object, v["objects"],
               Ordered(DOMAIN v["objects"], order))
    <3> DEFINE map == v["objects"]
               keys == Ordered(DOMAIN map, order)
               w == [i \in DOMAIN keys |-> WriteHandshakeMessage_Object(map[keys[i]], order)]
    <3>1. s4 = [i \in DOMAIN keys |->
                 WriteSub(34, <<WriteString(10, keys[i]), WriteSub(18, w[i])>>)]
      <4>1. s4 = [i \in DOMAIN keys |->
                   WriteSub(34, <<WriteString(10, keys[i]),
                      WriteSub(18, WriteHandshakeMessage_Object(map[keys[i]], order))>>)]
        BY Zenon DEF WriteMap
      <4> HIDE DEF s4, keys, map
      <4> QED BY <4>1
    <3>2. \A k \in DOMAIN map : IsHandshakeObject(map[k])
      BY DEF IsHandshakeMessage
    <3>3. \A i \in DOMAIN keys : keys[i] \in DOMAIN map
      BY <2>2, OrderedRange DEF IsMap
    <3> HIDE DEF map, keys, s4
    <3>4. \A i \in DOMAIN keys :
            Makes("HandshakeMessage_Object", NewHandshakeMessage_Object, w[i], map[keys[i]])
      BY <3>2, <3>3, HandshakeMessage_ObjectMade
    <3> HIDE DEF w
    <3>5. Mapped(s4, 34, "HandshakeMessage_Object", NewHandshakeMessage_Object, map, keys)
      BY <3>1, <3>4, MessagesMapped
    <3> QED BY <3>5 DEF map, keys
  <2> HIDE DEF c, F3, s4
  <2> QED BY <1>2, <2>1, <2>2, <2>3, <2>4, MakesMap
<1>8. Makes(c, Upto(m, to, F4), s5, Upto(m, to, F5))
  <2>1. "simSettings" \in DOMAIN to /\ "simSettings" \notin F4
    BY <1>1
  <2>2. Nests(c, "simSettings", 42, "HandshakeMessage_SimulationSettings",
              NewHandshakeMessage_SimulationSettings)
    BY SettingsNested
  <2>3. OneOf(to["simSettings"], NewHandshakeMessage_SimulationSettings)
        /\ OneOf(v["simSettings"], NewHandshakeMessage_SimulationSettings)
    BY DEF IsHandshakeMessage
  <2>4. Merging("HandshakeMessage_SimulationSettings", NewHandshakeMessage_SimulationSettings,
                42, s5, v["simSettings"], to["simSettings"], m["simSettings"])
    BY <1>2, <2>3, SettingsMerging
  <2> HIDE DEF c, F4, s5
  <2> QED BY <2>1, <2>2, <2>4, MakesMessage
<1>9. Upto(m, to, F0) = to /\ Upto(m, to, F5) = m
  <2>1. F5 \cup {"unknown"} = DOMAIN to
    BY <1>1
  <2> HIDE DEF F5
  <2> QED BY <1>3, <2>1, UptoEnds
<1> HIDE DEF c, F1, s1, F2, s2, F3, s3, F4, s4, F5, s5
<1>10. Makes(c, m, <<>>, m)
  BY MakesNothing
<1>11. Makes(c, to, s1 \o s2 \o s3 \o s4 \o s5 \o <<>>, m)
  BY <1>4, <1>5, <1>6, <1>7, <1>8, <1>9, <1>10, MakesOn
<1>12. WriteHandshakeMessage(v, order) = s1 \o s2 \o s3 \o s4 \o s5 \o <<>>
  BY Zenon, <1>1 DEF WriteHandshakeMessage, s1, s2, s3, s4, s5
<1> QED BY <1>11, <1>12 DEF c, m

(* All of them are. *)
LEMMA MessageMakes ==
  ASSUME NEW k \in Kinds, NEW to, Sound(k, to), NEW v, Sound(k, v), NEW order
  PROVE  Makes(k, to, Write(k, v, order), Merge(k, to, v))
<1> USE DEF Sound, Write, Merge
<1>1. CASE k = "HandshakeInitMessage"
  BY <1>1, HandshakeInitMessageMakes
<1>2. CASE k = "HandshakeMessage"
  BY <1>2, HandshakeMessageMakes
<1>3. CASE k = "ControlMessage"
  BY <1>3, ControlMessageMakes
<1>4. CASE k = "SensorMessage"
  BY <1>4, SensorMessageMakes
<1>5. CASE k = "ResetMessage"
  BY <1>5, ResetMessageMakes
<1>6. CASE k = "ErrorMessage"
  BY <1>6, ErrorMessageMakes
<1>7. CASE k = "SensorRequestMessage"
  BY <1>7, SensorRequestMessageMakes
<1> QED BY <1>1, <1>2, <1>3, <1>4, <1>5, <1>6, <1>7 DEF Kinds, TypeNumber
------------------------------------------------------------------------------
(* A message of any class is parsed by going through its items.            *)
LEMMA ParseEvery ==
  ASSUME NEW k \in Kinds, NEW m, NEW s
  PROVE  Parse(k, m, s) = Every!Fold(k, Parsed(m, TRUE), s)
<1> DEFINE base == Parsed(m, TRUE)
           Own(iter) == iter = [t \in SUBSET DOMAIN s |->
             IF t = {} THEN base ELSE On(k, iter[t \ {Max(t)}], s[Max(t)])]
           All(iter) == iter = [t \in SUBSET DOMAIN s |->
             IF t = {} THEN base ELSE At(k, iter[t \ {Max(t)}], s[Max(t)])]
<1>1. Parse(k, m, s) = (CHOOSE iter : Own(iter))[DOMAIN s]
  <2>1. Reading!Fold(k, base, s) = (CHOOSE iter : Own(iter))[DOMAIN s]
    BY Zenon DEF Reading!Fold, Reading!FoldLeft, Reading!MapThenFoldSet, Reading!Max, Max
  <2> QED BY <2>1, ParseFolds
<1>2. Every!Fold(k, base, s) = (CHOOSE iter : All(iter))[DOMAIN s]
  BY Zenon DEF Every!Fold, Every!FoldLeft, Every!MapThenFoldSet, Every!Max, Max
<1>3. \A r, it : At(k, r, it) = On(k, r, it)
  <2>1. \A x, it : TurnOf(k, x, it) = Turn(k, x, it)
    BY DEF TurnOf, Kinds, TypeNumber
  <2> QED BY <2>1 DEF At, On, Parsed
<1> HIDE DEF base
<1>4. \A iter : Own(iter) <=> All(iter)
  BY <1>3
<1> HIDE DEF Own, All
<1>5. (CHOOSE iter : Own(iter)) = (CHOOSE iter : All(iter))
  BY <1>4
<1> QED BY Zenon, <1>1, <1>2, <1>5 DEF base

(* Messages whose class has Makes are merged by parsing them: vectors,     *)
LEMMA Vec3Merge ==
  ASSUME NEW S, \A m \in S : IsVec3(m)
  PROVE  Merges(S, ParseSensorMessage_Vec3, WriteSensorMessage_Vec3,
                MergeSensorMessage_Vec3)
<1> SUFFICES ASSUME NEW to \in S, NEW from \in S,
                    ParseItems(ParseSensorMessage_Vec3, to, WriteSensorMessage_Vec3(from)).ok
             PROVE  ParseItems(ParseSensorMessage_Vec3, to, WriteSensorMessage_Vec3(from)).msg
                      = MergeSensorMessage_Vec3(to, from)
  BY Zenon DEF Merges
<1> DEFINE s == WriteSensorMessage_Vec3(from)
           r == ParseItems(ParseSensorMessage_Vec3, to, s)
           m2 == MergeSensorMessage_Vec3(to, from)
<1>1. Makes("SensorMessage_Vec3", to, s, m2)
  BY SensorMessage_Vec3Makes
<1> HIDE DEF s, m2
<1>2. r = Every!Fold("SensorMessage_Vec3", Parsed(to, TRUE), s)
  BY SensorMessage_Vec3Parses
<1>3. r.ok
  BY DEF s
<1> HIDE DEF r
<1>4. r.msg = m2
  BY <1>1, <1>2, <1>3, FoldMakes
<1> QED BY <1>4 DEF r, s, m2

(* sensors, *)
LEMMA SensorMerge ==
  ASSUME NEW S, \A m \in S : IsSensor(m)
  PROVE  Merges(S, ParseSensorMessage_Sensor, WriteSensorMessage_Sensor,
                MergeSensorMessage_Sensor)
<1> SUFFICES ASSUME NEW to \in S, NEW from \in S,
                    ParseItems(ParseSensorMessage_Sensor, to, WriteSensorMessage_Sensor(from)).ok
             PROVE  ParseItems(ParseSensorMessage_Sensor, to, WriteSensorMessage_Sensor(from)).msg
                      = MergeSensorMessage_Sensor(to, from)
  BY Zenon DEF Merges
<1> DEFINE s == WriteSensorMessage_Sensor(from)
           r == ParseItems(ParseSensorMessage_Sensor, to, s)
           m2 == MergeSensorMessage_Sensor(to, from)
<1>1. Makes("SensorMessage_Sensor", to, s, m2)
  BY SensorMessage_SensorMakes
<1> HIDE DEF s, m2
<1>2. r = Every!Fold("SensorMessage_Sensor", Parsed(to, TRUE), s)
  BY SensorMessage_SensorParses
<1>3. r.ok
  BY DEF s
<1> HIDE DEF r
<1>4. r.msg = m2
  BY <1>1, <1>2, <1>3, FoldMakes
<1> QED BY <1>4 DEF r, s, m2

(* lists of them, *)
LEMMA ListsMerge ==
  ASSUME NEW S, \A m \in S : IsSensors(m)
  PROVE  Merges(S, ParseSensorMessage_Sensors, WriteSensorMessage_Sensors,
                MergeSensorMessage_Sensors)
<1> SUFFICES ASSUME NEW to \in S, NEW from \in S,
                    ParseItems(ParseSensorMessage_Sensors, to, WriteSensorMessage_Sensors(from)).ok
             PROVE  ParseItems(ParseSensorMessage_Sensors, to, WriteSensorMessage_Sensors(from)).msg
                      = MergeSensorMessage_Sensors(to, from)
  BY Zenon DEF Merges
<1> DEFINE s == WriteSensorMessage_Sensors(from)
           r == ParseItems(ParseSensorMessage_Sensors, to, s)
           m2 == MergeSensorMessage_Sensors(to, from)
<1>1. Makes("SensorMessage_Sensors", to, s, m2)
  BY SensorMessage_SensorsMakes
<1> HIDE DEF s, m2
<1>2. r = Every!Fold("SensorMessage_Sensors", Parsed(to, TRUE), s)
  BY SensorMessage_SensorsParses
<1>3. r.ok
  BY DEF s
<1> HIDE DEF r
<1>4. r.msg = m2
  BY <1>1, <1>2, <1>3, FoldMakes
<1> QED BY <1>4 DEF r, s, m2

(* a robot's readings, *)
LEMMA ReadingsMerge ==
  ASSUME NEW S, \A m \in S : IsSensorObject(m), NEW order
  PROVE  \A to, from \in S :
           ParseItems(ParseSensorMessage_Object, to, WriteSensorMessage_Object(from, order)).ok
             => ParseItems(ParseSensorMessage_Object, to,
                           WriteSensorMessage_Object(from, order)).msg
                  = MergeSensorMessage_Object(to, from)
<1> SUFFICES ASSUME NEW to \in S, NEW from \in S,
                    ParseItems(ParseSensorMessage_Object, to,
                               WriteSensorMessage_Object(from, order)).ok
             PROVE  ParseItems(ParseSensorMessage_Object, to,
                               WriteSensorMessage_Object(from, order)).msg
                      = MergeSensorMessage_Object(to, from)
  BY Zenon
<1> DEFINE s == WriteSensorMessage_Object(from, order)
           r == ParseItems(ParseSensorMessage_Object, to, s)
           m2 == MergeSensorMessage_Object(to, from)
<1>1. Makes("SensorMessage_Object", to, s, m2)
  BY SensorMessage_ObjectMakes
<1> HIDE DEF s, m2
<1>2. r = Every!Fold("SensorMessage_Object", Parsed(to, TRUE), s)
  BY SensorMessage_ObjectParses
<1>3. r.ok
  BY DEF s
<1> HIDE DEF r
<1>4. r.msg = m2
  BY <1>1, <1>2, <1>3, FoldMakes
<1> QED BY <1>4 DEF r, s, m2

(* the types of its sensors, *)
LEMMA TypesMerge ==
  ASSUME NEW S, \A m \in S : IsHandshakeSensors(m)
  PROVE  Merges(S, ParseHandshakeMessage_Sensors, WriteHandshakeMessage_Sensors,
                MergeHandshakeMessage_Sensors)
<1> SUFFICES ASSUME NEW to \in S, NEW from \in S,
                    ParseItems(ParseHandshakeMessage_Sensors, to,
                               WriteHandshakeMessage_Sensors(from)).ok
             PROVE  ParseItems(ParseHandshakeMessage_Sensors, to,
                               WriteHandshakeMessage_Sensors(from)).msg
                      = MergeHandshakeMessage_Sensors(to, from)
  BY Zenon DEF Merges
<1> DEFINE s == WriteHandshakeMessage_Sensors(from)
           r == ParseItems(ParseHandshakeMessage_Sensors, to, s)
           m2 == MergeHandshakeMessage_Sensors(to, from)
<1>1. Makes("HandshakeMessage_Sensors", to, s, m2)
  BY HandshakeMessage_SensorsMakes
<1> HIDE DEF s, m2
<1>2. r = Every!Fold("HandshakeMessage_Sensors", Parsed(to, TRUE), s)
  BY HandshakeMessage_SensorsParses
<1>3. r.ok
  BY DEF s
<1> HIDE DEF r
<1>4. r.msg = m2
  BY <1>1, <1>2, <1>3, FoldMakes
<1> QED BY <1>4 DEF r, s, m2

(* its description *)
LEMMA DescriptionsMerge ==
  ASSUME NEW S, \A m \in S : IsHandshakeObject(m), NEW order
  PROVE  \A to, from \in S :
           ParseItems(ParseHandshakeMessage_Object, to,
                      WriteHandshakeMessage_Object(from, order)).ok
             => ParseItems(ParseHandshakeMessage_Object, to,
                           WriteHandshakeMessage_Object(from, order)).msg
                  = MergeHandshakeMessage_Object(to, from)
<1> SUFFICES ASSUME NEW to \in S, NEW from \in S,
                    ParseItems(ParseHandshakeMessage_Object, to,
                               WriteHandshakeMessage_Object(from, order)).ok
             PROVE  ParseItems(ParseHandshakeMessage_Object, to,
                               WriteHandshakeMessage_Object(from, order)).msg
                      = MergeHandshakeMessage_Object(to, from)
  BY Zenon
<1> DEFINE s == WriteHandshakeMessage_Object(from, order)
           r == ParseItems(ParseHandshakeMessage_Object, to, s)
           m2 == MergeHandshakeMessage_Object(to, from)
<1>1. Makes("HandshakeMessage_Object", to, s, m2)
  BY HandshakeMessage_ObjectMakes
<1> HIDE DEF s, m2
<1>2. r = Every!Fold("HandshakeMessage_Object", Parsed(to, TRUE), s)
  BY HandshakeMessage_ObjectParses
<1>3. r.ok
  BY DEF s
<1> HIDE DEF r
<1>4. r.msg = m2
  BY <1>1, <1>2, <1>3, FoldMakes
<1> QED BY <1>4 DEF r, s, m2

(* and its controls. *)
LEMMA ControlsMerge ==
  ASSUME NEW S, \A m \in S : IsControlObject(m), NEW order
  PROVE  \A to, from \in S :
           ParseItems(ParseControlMessage_Object, to, WriteControlMessage_Object(from, order)).ok
             => ParseItems(ParseControlMessage_Object, to,
                           WriteControlMessage_Object(from, order)).msg
                  = MergeControlMessage_Object(to, from)
<1> SUFFICES ASSUME NEW to \in S, NEW from \in S,
                    ParseItems(ParseControlMessage_Object, to,
                               WriteControlMessage_Object(from, order)).ok
             PROVE  ParseItems(ParseControlMessage_Object, to,
                               WriteControlMessage_Object(from, order)).msg
                      = MergeControlMessage_Object(to, from)
  BY Zenon
<1> DEFINE s == WriteControlMessage_Object(from, order)
           r == ParseItems(ParseControlMessage_Object, to, s)
           m2 == MergeControlMessage_Object(to, from)
<1>1. Makes("ControlMessage_Object", to, s, m2)
  BY ControlMessage_ObjectMakes
<1> HIDE DEF s, m2
<1>2. r = Every!Fold("ControlMessage_Object", Parsed(to, TRUE), s)
  BY ControlMessage_ObjectParses
<1>3. r.ok
  BY DEF s
<1> HIDE DEF r
<1>4. r.msg = m2
  BY <1>1, <1>2, <1>3, FoldMakes
<1> QED BY <1>4 DEF r, s, m2

(* A new message is one that messages can be. *)
LEMMA NewSound ==
  ASSUME NEW k \in Kinds
  PROVE  Sound(k, New(k))
<1> USE NoEntriesIsMap DEF Sound, New, IsA, IsRecord
<1>1. CASE k = "HandshakeInitMessage"
  BY <1>1 DEF NewHandshakeInitMessage, IsHandshakeInitMessage
<1>2. CASE k = "HandshakeMessage"
  BY <1>2 DEF NewHandshakeMessage, IsHandshakeMessage, OneOf
<1>3. CASE k = "ControlMessage"
  BY <1>3 DEF NewControlMessage, IsControlMessage
<1>4. CASE k = "SensorMessage"
  BY <1>4 DEF NewSensorMessage, IsSensorMessage, OneOf
<1>5. CASE k = "ResetMessage"
  BY <1>5 DEF NewResetMessage, IsResetMessage
<1>6. CASE k = "ErrorMessage"
  BY <1>6 DEF NewErrorMessage, IsErrorMessage
<1>7. CASE k = "SensorRequestMessage"
  BY <1>7 DEF NewSensorRequestMessage, IsSensorRequestMessage
<1> QED BY <1>1, <1>2, <1>3, <1>4, <1>5, <1>6, <1>7 DEF Kinds, TypeNumber

(* So whatever stands in a message is merged by parsing it. *)
LEMMA SentMerges == IInv /\ Sent => MergeIsParse
<1> DEFINE order     == CHOOSE o \in Orders : TRUE
           Objects   == Range(pm.objects)
           Lists     == UNION {Range(o.sensors) : o \in Objects}
           Sensors   == (UNION {Range(o.objectSensors) : o \in Objects})
                          \cup UNION {Range(list.sensor) : list \in Lists}
           Messages  == {New(kind), pm} \cup Edits(kind, New(kind))
           objects1  == {NewSensorMessage_Object} \cup Objects
           lists1    == {NewSensorMessage_Sensors} \cup Lists
           sensors1  == {NewSensorMessage_Sensor} \cup Sensors
           vectors1  == {NewSensorMessage_Vec3} \cup {sensor.vec : sensor \in Sensors}
                          \cup UNION {Range(o.forceSensors) : o \in Objects}
           objects2  == {NewHandshakeMessage_Object} \cup Objects
           lists2    == {NewHandshakeMessage_Sensors} \cup Lists
           objects3  == {NewControlMessage_Object} \cup Objects
           OfSensor ==
             /\ Merges(objects1, ParseSensorMessage_Object,
                       LAMBDA m : WriteSensorMessage_Object(m, order), MergeSensorMessage_Object)
             /\ Merges(lists1, ParseSensorMessage_Sensors, WriteSensorMessage_Sensors,
                       MergeSensorMessage_Sensors)
             /\ Merges(sensors1, ParseSensorMessage_Sensor, WriteSensorMessage_Sensor,
                       MergeSensorMessage_Sensor)
             /\ Merges(vectors1, ParseSensorMessage_Vec3, WriteSensorMessage_Vec3,
                       MergeSensorMessage_Vec3)
           OfHandshake ==
             /\ Merges(objects2, ParseHandshakeMessage_Object,
                       LAMBDA m : WriteHandshakeMessage_Object(m, order),
                       MergeHandshakeMessage_Object)
             /\ Merges(lists2, ParseHandshakeMessage_Sensors, WriteHandshakeMessage_Sensors,
                       MergeHandshakeMessage_Sensors)
           OfControl ==
             Merges(objects3, ParseControlMessage_Object,
                    LAMBDA m : WriteControlMessage_Object(m, order), MergeControlMessage_Object)
           OfAll ==
             \A to \in IF edits <= 1 THEN Messages ELSE {New(kind), pm} :
               Parse(kind, to, Write(kind, pm, order)).ok
                 => Parse(kind, to, Write(kind, pm, order)).msg = Merge(kind, to, pm)
<1> SUFFICES ASSUME IInv, Sent, kind # NoKind, frame = NoFrame
             PROVE  /\ kind = "SensorMessage" => OfSensor
                    /\ kind = "HandshakeMessage" => OfHandshake
                    /\ kind = "ControlMessage" => OfControl
                    /\ OfAll
  BY Zenon DEF MergeIsParse
<1>1. kind \in Kinds /\ Sound(kind, pm)
  BY DEF IInv, Sent
<1> HIDE DEF order
<1>2. ASSUME kind = "SensorMessage" PROVE OfSensor
  <2>1. \A o \in Objects : IsSensorObject(o)
    BY <1>1, <1>2 DEF Sound, IsSensorMessage, Range
  <2> HIDE DEF Objects
  <2>2. \A list \in Lists : IsSensors(list)
    BY <2>1 DEF IsSensorObject, Range
  <2> HIDE DEF Lists
  <2>3. \A sensor \in Sensors : IsSensor(sensor)
    <3>1. \A o \in Objects : \A sensor \in Range(o.objectSensors) : IsSensor(sensor)
      BY <2>1 DEF IsSensorObject, Range
    <3>2. \A list \in Lists : \A sensor \in Range(list.sensor) : IsSensor(sensor)
      BY <2>2 DEF IsSensors, Range
    <3> QED BY <3>1, <3>2
  <2> HIDE DEF Sensors
  <2>4. \A m \in objects1 : IsSensorObject(m)
    BY <2>1, NewSensorObject
  <2>5. \A m \in lists1 : IsSensors(m)
    BY <2>2, NewSensors
  <2>6. \A m \in sensors1 : IsSensor(m)
    BY <2>3 DEF IsSensor
  <2>7. \A m \in vectors1 : IsVec3(m)
    <3>1. \A sensor \in Sensors : IsVec3(sensor.vec)
      BY <2>3, SensorParts
    <3>2. \A o \in Objects : \A m \in Range(o.forceSensors) : IsVec3(m)
      BY <2>1 DEF IsSensorObject, Range
    <3> QED BY <3>1, <3>2, NewVec3
  <2> HIDE DEF objects1, lists1, sensors1, vectors1
  <2>8. Merges(objects1, ParseSensorMessage_Object,
               LAMBDA m : WriteSensorMessage_Object(m, order), MergeSensorMessage_Object)
    BY Zenon, <2>4, ReadingsMerge DEF Merges
  <2>9. Merges(lists1, ParseSensorMessage_Sensors, WriteSensorMessage_Sensors,
               MergeSensorMessage_Sensors)
    BY Zenon, <2>5, ListsMerge
  <2>10. Merges(sensors1, ParseSensorMessage_Sensor, WriteSensorMessage_Sensor,
                MergeSensorMessage_Sensor)
    BY Zenon, <2>6, SensorMerge
  <2>11. Merges(vectors1, ParseSensorMessage_Vec3, WriteSensorMessage_Vec3,
                MergeSensorMessage_Vec3)
    BY Zenon, <2>7, Vec3Merge
  <2> QED BY Zenon, <2>8, <2>9, <2>10, <2>11
<1>3. ASSUME kind = "HandshakeMessage" PROVE OfHandshake
  <2>1. \A o \in Objects : IsHandshakeObject(o)
    BY <1>1, <1>3 DEF Sound, IsHandshakeMessage, Range
  <2> HIDE DEF Objects
  <2>2. \A list \in Lists : IsHandshakeSensors(list)
    BY <2>1 DEF IsHandshakeObject, Range
  <2> HIDE DEF Lists
  <2>3. \A m \in objects2 : IsHandshakeObject(m)
    BY <2>1, NewHandshakeObject
  <2>4. \A m \in lists2 : IsHandshakeSensors(m)
    BY <2>2, NewHandshakeSensors
  <2> HIDE DEF objects2, lists2
  <2>5. Merges(objects2, ParseHandshakeMessage_Object,
               LAMBDA m : WriteHandshakeMessage_Object(m, order), MergeHandshakeMessage_Object)
    BY Zenon, <2>3, DescriptionsMerge DEF Merges
  <2>6. Merges(lists2, ParseHandshakeMessage_Sensors, WriteHandshakeMessage_Sensors,
               MergeHandshakeMessage_Sensors)
    BY Zenon, <2>4, TypesMerge
  <2> QED BY Zenon, <2>5, <2>6
<1>4. ASSUME kind = "ControlMessage" PROVE OfControl
  <2>1. \A m \in objects3 : IsControlObject(m)
    BY <1>1, <1>4, NewControlObject DEF Sound, IsControlMessage, Range
  <2> HIDE DEF objects3
  <2>2. Merges(objects3, ParseControlMessage_Object,
               LAMBDA m : WriteControlMessage_Object(m, order), MergeControlMessage_Object)
    BY Zenon, <2>1, ControlsMerge DEF Merges
  <2> QED BY Zenon, <2>2
<1>5. OfAll
  <2>1. \A to \in {New(kind), pm} \cup Messages : Sound(kind, to)
    BY <1>1, NewSound, EditsSound
  <2> SUFFICES ASSUME NEW to, Sound(kind, to),
                      Parse(kind, to, Write(kind, pm, order)).ok
               PROVE  Parse(kind, to, Write(kind, pm, order)).msg = Merge(kind, to, pm)
    BY <2>1
  <2> DEFINE s == Write(kind, pm, order)
             m2 == Merge(kind, to, pm)
  <2>2. Makes(kind, to, s, m2)
    BY <1>1, MessageMakes
  <2>3. Parse(kind, to, s) = Every!Fold(kind, Parsed(to, TRUE), s)
    BY <1>1, ParseEvery
  <2>4. Parse(kind, to, s).ok
    OBVIOUS
  <2> HIDE DEF s, m2
  <2>5. Parse(kind, to, s).msg = m2
    BY <2>2, <2>3, <2>4, FoldMakes
  <2> QED BY <2>5 DEF s, m2
<1> HIDE DEF OfSensor, OfHandshake, OfControl, OfAll
<1> QED BY <1>2, <1>3, <1>4, <1>5

(* Merging: whatever is built, to parse the bytes of one message into      *)
(* another gives what merging the two gives, for every class of messages   *)
(* and in whatever order their maps are written.                           *)
THEOREM MergingIsParsing == Spec => []MergeIsParse
<1>1. Init => Sent
  BY DEF Init, Sent
<1>2. Spec => []Sent
  BY <1>1, Invariant, NextSent, PTL DEF Spec
<1> QED BY <1>2, Invariant, SentMerges, PTL
------------------------------------------------------------------------------
(* The tag of the objects of a class, *)
ObjectsTag(k) == IF k = "ControlMessage" THEN 18 ELSE IF k = "HandshakeMessage" THEN 34 ELSE 26

(* the class of them, *)
ObjectsClass(k) ==
  IF k = "ControlMessage" THEN "ControlMessage_Object"
  ELSE IF k = "HandshakeMessage" THEN "HandshakeMessage_Object"
  ELSE "SensorMessage_Object"

(* and one with nothing in it. *)
NewObject(k) ==
  IF k = "ControlMessage" THEN NewControlMessage_Object
  ELSE IF k = "HandshakeMessage" THEN NewHandshakeMessage_Object
  ELSE NewSensorMessage_Object

(* What is written of one of the objects of m, *)
OfObject(k, m, it) ==
  \E name \in DOMAIN m.objects : \E value :
    /\ IsEntry(it, ObjectsTag(k), name, value) /\ Items(it.sub)
    /\ Values(ObjectsClass(k), NewObject(k), value, m.objects[name])

(* and of all that is in m. *)
Faithful(k, m, s) ==
  Items(s) /\ \A i \in DOMAIN s : s[i].tag = ObjectsTag(k) => OfObject(k, m, s[i])

(* One behind the other. *)
LEMMA FaithfulOn ==
  ASSUME NEW k, NEW m, NEW s, NEW t, Faithful(k, m, s), Faithful(k, m, t)
  PROVE  Faithful(k, m, s \o t)
<1> DEFINE u == s \o t
           P(it) == it.tag = ObjectsTag(k) => OfObject(k, m, it)
<1>1. Items(s) /\ Items(t) /\ (\A i \in DOMAIN s : P(s[i])) /\ (\A i \in DOMAIN t : P(t[i]))
  BY DEF Faithful
<1>2. /\ Items(u) /\ Len(s) \in Nat /\ DOMAIN s = 1..Len(s)
      /\ Len(t) \in Nat /\ DOMAIN t = 1..Len(t)
      /\ DOMAIN u = 1..(Len(s) + Len(t))
      /\ \A i \in 1..(Len(s) + Len(t)) : u[i] = IF i <= Len(s) THEN s[i] ELSE t[i - Len(s)]
  BY <1>1, Concatenated
<1> HIDE DEF u, P
<1>3. \A i \in DOMAIN u : \/ i \in DOMAIN s /\ u[i] = s[i]
                          \/ i - Len(s) \in DOMAIN t /\ u[i] = t[i - Len(s)]
  BY <1>2
<1>4. \A i \in DOMAIN u : P(u[i])
  BY <1>1, <1>3
<1> QED BY <1>2, <1>4 DEF Faithful, u, P

(* Other fields, none of them *)
LEMMA FaithfulNothing == \A k, m : Faithful(k, m, <<>>)
BY DEF Faithful, Items

(* or one. *)
LEMMA FaithfulIf ==
  ASSUME NEW k, NEW m, NEW c \in BOOLEAN, NEW it, it.tag # ObjectsTag(k)
  PROVE  Faithful(k, m, If(c, it))
<1>1. CASE c
  <2> DEFINE s == <<it>>
  <2>1. s = [i \in 1..1 |-> s[i]] /\ s[1] = it /\ DOMAIN s = {1}
    OBVIOUS
  <2> HIDE DEF s
  <2>2. Faithful(k, m, s)
    BY <2>1, ItemsOf DEF Faithful
  <2> QED BY <1>1, <2>2 DEF If, s
<1>2. CASE ~c
  BY <1>2, FaithfulNothing DEF If
<1> QED BY <1>1, <1>2

(* or several. *)
LEMMA FaithfulEach ==
  ASSUME NEW k, NEW m, NEW xs, Items(xs), NEW s, s = [i \in DOMAIN xs |-> s[i]],
         \A i \in DOMAIN xs : s[i].tag # ObjectsTag(k)
  PROVE  Faithful(k, m, s)
<1>1. Len(xs) \in Nat /\ DOMAIN xs = 1..Len(xs)
  BY ItemsDomain
<1>2. Items(s) /\ DOMAIN s = DOMAIN xs
  BY <1>1, ItemsOf
<1> QED BY <1>2 DEF Faithful

(* The objects themselves. *)
LEMMA FaithfulObjects ==
  ASSUME NEW k, NEW m, IsMap(m.objects), NEW order, NEW keys,
         keys = Ordered(DOMAIN m.objects, order), NEW s, NEW w,
         s = [i \in DOMAIN keys |-> WriteSub(ObjectsTag(k),
                                             <<WriteString(10, keys[i]), WriteSub(18, w[i])>>)],
         \A i \in DOMAIN keys :
           Makes(ObjectsClass(k), NewObject(k), w[i], m.objects[keys[i]])
  PROVE  Faithful(k, m, s)
<1> DEFINE tag == ObjectsTag(k)
           v == ObjectsClass(k)
           new == NewObject(k)
<1>1. PICK n \in Nat : DOMAIN keys = 1..n /\ \A i \in 1..n : keys[i] \in DOMAIN m.objects
  BY OrderedRange DEF IsMap
<1>2. s = [i \in 1..n |-> s[i]]
  BY <1>1
<1>3. v # "Number"
  BY DEF ObjectsClass
<1>4. Mapped(s, tag, v, new, m.objects, keys)
  BY <1>3, MessagesMapped
<1>5. ASSUME NEW i \in 1..n
      PROVE  OfObject(k, m, s[i])
  <2> DEFINE a == WriteString(10, keys[i])
             b == WriteSub(18, w[i])
             q == <<a, b>>
             it == s[i]
  <2>1. it = WriteSub(tag, q)
    BY <1>1
  <2> HIDE DEF a, b
  <2>2. q = [j \in 1..2 |-> q[j]]
    OBVIOUS
  <2> HIDE DEF q
  <2>3. Items(q)
    BY <2>2, ItemsOf
  <2> HIDE DEF it, tag
  <2>4. it.sub = q
    BY <2>1 DEF WriteSub, Item
  <2>5. keys[i] \in DOMAIN m.objects /\ i \in DOMAIN keys
    BY <1>1
  <2>6. \E value : IsEntry(it, tag, keys[i], value) /\ Values(v, new, value, m.objects[keys[i]])
    BY <1>4, <2>5 DEF Mapped, it
  <2> QED BY <2>3, <2>4, <2>5, <2>6 DEF OfObject, it, tag
<1>6. Items(s) /\ DOMAIN s = 1..n
  BY <1>2, ItemsOf
<1> HIDE DEF v, new, tag
<1> QED BY <1>5, <1>6 DEF Faithful

(* The type and other numbers. *)
LEMMA FaithfulNumber ==
  ASSUME NEW k, NEW m, NEW tag \in {8, 16, 24}, NEW n
  PROVE  Faithful(k, m, If(n # 0, WriteVarint(tag, n)))
<1>1. WriteVarint(tag, n).tag = tag
  BY DEF WriteVarint, Item
<1>2. tag # ObjectsTag(k)
  BY DEF ObjectsTag
<1> QED BY <1>1, <1>2, FaithfulIf

(* What is written of a message is faithful to its objects. *)
LEMMA ControlFaithful ==
  ASSUME NEW m, IsControlMessage(m), NEW order
  PROVE  Faithful("ControlMessage", m, WriteControlMessage(m, order))
<1> DEFINE k == "ControlMessage"
           s1 == If(m.messageType # 0, WriteVarint(8, m.messageType))
           s2 == WriteMap(18, m.objects, order,
                          LAMBDA v : WriteSub(18, WriteControlMessage_Object(v, order)))
<1>1. Faithful(k, m, s1)
  BY FaithfulNumber
<1>2. Faithful(k, m, s2)
  <2> DEFINE map == m.objects
             keys == Ordered(DOMAIN map, order)
             w == [i \in DOMAIN keys |-> WriteControlMessage_Object(map[keys[i]], order)]
  <2>1. s2 = [i \in DOMAIN keys |->
               WriteSub(18, <<WriteString(10, keys[i]), WriteSub(18, w[i])>>)]
    <3>1. s2 = [i \in DOMAIN keys |->
                 WriteSub(18, <<WriteString(10, keys[i]),
                    WriteSub(18, WriteControlMessage_Object(map[keys[i]], order))>>)]
      BY Zenon DEF WriteMap
    <3> HIDE DEF s2, keys, map
    <3> QED BY <3>1
  <2>2. IsMap(map) /\ \A x \in DOMAIN map : IsControlObject(map[x])
    BY DEF IsControlMessage
  <2>3. \A i \in DOMAIN keys : keys[i] \in DOMAIN map
    BY <2>2, OrderedRange DEF IsMap
  <2> HIDE DEF keys, s2
  <2>4. \A i \in DOMAIN keys : Makes("ControlMessage_Object", NewControlMessage_Object,
                                     w[i], map[keys[i]])
    BY <2>2, <2>3, ControlMessage_ObjectMade
  <2> HIDE DEF w
  <2>5. /\ ObjectsTag(k) = 18 /\ ObjectsClass(k) = "ControlMessage_Object"
        /\ NewObject(k) = NewControlMessage_Object
    BY DEF ObjectsTag, ObjectsClass, NewObject
  <2> HIDE DEF k
  <2> QED BY <2>1, <2>2, <2>4, <2>5, FaithfulObjects DEF keys
<1>3. m.unknown = <<>>
  BY DEF IsControlMessage, IsA
<1> HIDE DEF k, s1, s2
<1>4. Faithful(k, m, s1 \o s2 \o <<>>)
  BY <1>1, <1>2, FaithfulOn, FaithfulNothing
<1>5. WriteControlMessage(m, order) = s1 \o s2 \o <<>>
  BY Zenon, <1>3 DEF WriteControlMessage, s1, s2
<1> QED BY <1>4, <1>5 DEF k

(* At most one message of another field. *)
LEMMA FaithfulOneOf ==
  ASSUME NEW k, NEW m, NEW xs, NEW new, OneOf(xs, new), NEW tag, tag # ObjectsTag(k), NEW s, NEW w,
         s = [i \in DOMAIN xs |-> WriteSub(tag, w[i])]
  PROVE  Faithful(k, m, s)
<1>1. Items(xs)
  <2>1. CASE xs = <<>>
    BY <2>1 DEF Items
  <2>2. ASSUME NEW x, xs = <<x>>
        PROVE  Items(xs)
    <3>1. xs = [i \in 1..1 |-> xs[i]]
      BY <2>2
    <3> QED BY <3>1, ItemsOf
  <2> QED BY <2>1, <2>2 DEF OneOf
<1>2. \A x : WriteSub(tag, x).tag = tag
  BY DEF WriteSub, Item
<1>3. s = [i \in DOMAIN xs |-> s[i]] /\ \A i \in DOMAIN xs : s[i].tag # ObjectsTag(k)
  BY <1>2
<1> QED BY <1>1, <1>3, FaithfulEach

(* A SensorMessage. *)
LEMMA SensorFaithful ==
  ASSUME NEW m, IsSensorMessage(m), NEW order
  PROVE  Faithful("SensorMessage", m, WriteSensorMessage(m, order))
<1> DEFINE k == "SensorMessage"
           s1 == If(m.messageType # 0, WriteVarint(8, m.messageType))
           s2 == WriteMap(26, m.objects, order,
                          LAMBDA v : WriteSub(18, WriteSensorMessage_Object(v, order)))
           xs == m.simVars
           w3 == [i \in DOMAIN xs |-> WriteSensorMessage_SimulationVariables(xs[i])]
           s3 == [i \in DOMAIN xs |->
                    WriteSub(34, WriteSensorMessage_SimulationVariables(xs[i]))]
<1>1. Faithful(k, m, s1)
  BY FaithfulNumber
<1>2. Faithful(k, m, s2)
  <2> DEFINE map == m.objects
             keys == Ordered(DOMAIN map, order)
             w == [i \in DOMAIN keys |-> WriteSensorMessage_Object(map[keys[i]], order)]
  <2>1. s2 = [i \in DOMAIN keys |->
               WriteSub(26, <<WriteString(10, keys[i]), WriteSub(18, w[i])>>)]
    <3>1. s2 = [i \in DOMAIN keys |->
                 WriteSub(26, <<WriteString(10, keys[i]),
                    WriteSub(18, WriteSensorMessage_Object(map[keys[i]], order))>>)]
      BY Zenon DEF WriteMap
    <3> HIDE DEF s2, keys, map
    <3> QED BY <3>1
  <2>2. IsMap(map) /\ \A x \in DOMAIN map : IsSensorObject(map[x])
    BY DEF IsSensorMessage
  <2>3. \A i \in DOMAIN keys : keys[i] \in DOMAIN map
    BY <2>2, OrderedRange DEF IsMap
  <2> HIDE DEF keys, s2
  <2>4. \A i \in DOMAIN keys : Makes("SensorMessage_Object", NewSensorMessage_Object,
                                     w[i], map[keys[i]])
    BY <2>2, <2>3, SensorMessage_ObjectMade
  <2> HIDE DEF w
  <2>5. /\ ObjectsTag(k) = 26 /\ ObjectsClass(k) = "SensorMessage_Object"
        /\ NewObject(k) = NewSensorMessage_Object
    BY DEF ObjectsTag, ObjectsClass, NewObject
  <2> HIDE DEF k
  <2> QED BY <2>1, <2>2, <2>4, <2>5, FaithfulObjects DEF keys
<1>3. m.unknown = <<>>
  BY DEF IsSensorMessage, IsA
<1>4. Faithful(k, m, s3)
  <2>1. OneOf(xs, NewSensorMessage_SimulationVariables)
    BY DEF IsSensorMessage
  <2>2. s3 = [i \in DOMAIN xs |-> WriteSub(34, w3[i])]
    OBVIOUS
  <2>3. 34 # ObjectsTag(k)
    BY DEF ObjectsTag
  <2> HIDE DEF k, xs, w3, s3
  <2> QED BY <2>1, <2>2, <2>3, FaithfulOneOf
<1> HIDE DEF k, s1, s2, s3
<1>5. Faithful(k, m, s1 \o s2 \o s3 \o <<>>)
  BY <1>1, <1>2, <1>4, FaithfulOn, FaithfulNothing
<1>6. WriteSensorMessage(m, order) = s1 \o s2 \o s3 \o <<>>
  BY Zenon, <1>3 DEF WriteSensorMessage, s1, s2, s3
<1> QED BY <1>5, <1>6 DEF k

(* A HandshakeMessage. *)
LEMMA HandshakeFaithful ==
  ASSUME NEW m, IsHandshakeMessage(m), NEW order
  PROVE  Faithful("HandshakeMessage", m, WriteHandshakeMessage(m, order))
<1> DEFINE k == "HandshakeMessage"
           s1 == If(m.messageType # 0, WriteVarint(8, m.messageType))
           s4 == If(m.version # 0, WriteVarint(16, m.version))
           s5 == If(m.controlType # 0, WriteVarint(24, m.controlType))
           s2 == WriteMap(34, m.objects, order,
                          LAMBDA v : WriteSub(18, WriteHandshakeMessage_Object(v, order)))
           xs == m.simSettings
           w3 == [i \in DOMAIN xs |-> WriteHandshakeMessage_SimulationSettings(xs[i])]
           s3 == [i \in DOMAIN xs |->
                    WriteSub(42, WriteHandshakeMessage_SimulationSettings(xs[i]))]
<1>1. Faithful(k, m, s1) /\ Faithful(k, m, s4) /\ Faithful(k, m, s5)
  BY FaithfulNumber
<1>2. Faithful(k, m, s2)
  <2> DEFINE map == m.objects
             keys == Ordered(DOMAIN map, order)
             w == [i \in DOMAIN keys |-> WriteHandshakeMessage_Object(map[keys[i]], order)]
  <2>1. s2 = [i \in DOMAIN keys |->
               WriteSub(34, <<WriteString(10, keys[i]), WriteSub(18, w[i])>>)]
    <3>1. s2 = [i \in DOMAIN keys |->
                 WriteSub(34, <<WriteString(10, keys[i]),
                    WriteSub(18, WriteHandshakeMessage_Object(map[keys[i]], order))>>)]
      BY Zenon DEF WriteMap
    <3> HIDE DEF s2, keys, map
    <3> QED BY <3>1
  <2>2. IsMap(map) /\ \A x \in DOMAIN map : IsHandshakeObject(map[x])
    BY DEF IsHandshakeMessage
  <2>3. \A i \in DOMAIN keys : keys[i] \in DOMAIN map
    BY <2>2, OrderedRange DEF IsMap
  <2> HIDE DEF keys, s2
  <2>4. \A i \in DOMAIN keys : Makes("HandshakeMessage_Object", NewHandshakeMessage_Object,
                                     w[i], map[keys[i]])
    BY <2>2, <2>3, HandshakeMessage_ObjectMade
  <2> HIDE DEF w
  <2>5. /\ ObjectsTag(k) = 34 /\ ObjectsClass(k) = "HandshakeMessage_Object"
        /\ NewObject(k) = NewHandshakeMessage_Object
    BY DEF ObjectsTag, ObjectsClass, NewObject
  <2> HIDE DEF k
  <2> QED BY <2>1, <2>2, <2>4, <2>5, FaithfulObjects DEF keys
<1>3. m.unknown = <<>>
  BY DEF IsHandshakeMessage, IsA
<1>4. Faithful(k, m, s3)
  <2>1. OneOf(xs, NewHandshakeMessage_SimulationSettings)
    BY DEF IsHandshakeMessage
  <2>2. s3 = [i \in DOMAIN xs |-> WriteSub(42, w3[i])]
    OBVIOUS
  <2>3. 42 # ObjectsTag(k)
    BY DEF ObjectsTag
  <2> HIDE DEF k, xs, w3, s3
  <2> QED BY <2>1, <2>2, <2>3, FaithfulOneOf
<1> HIDE DEF k, s1, s2, s3, s4, s5
<1>5. Faithful(k, m, s1 \o s4 \o s5 \o s2 \o s3 \o <<>>)
  BY <1>1, <1>2, <1>4, FaithfulOn, FaithfulNothing
<1>6. WriteHandshakeMessage(m, order) = s1 \o s4 \o s5 \o s2 \o s3 \o <<>>
  BY Zenon, <1>3 DEF WriteHandshakeMessage, s1, s2, s3, s4, s5
<1> QED BY <1>5, <1>6 DEF k

(* Of all three. *)
LEMMA WriteFaithful ==
  ASSUME NEW k \in HasObjects, NEW m, Sound(k, m), NEW order
  PROVE  Faithful(k, m, Write(k, m, order))
<1>1. CASE k = "ControlMessage"
  BY <1>1, ControlFaithful DEF Sound, Write
<1>2. CASE k = "HandshakeMessage"
  BY <1>2, HandshakeFaithful DEF Sound, Write
<1>3. CASE k = "SensorMessage"
  BY <1>3, SensorFaithful DEF Sound, Write
<1> QED BY <1>1, <1>2, <1>3 DEF HasObjects

(* What is left of an entry's bytes that end too soon: nothing, the key or *)
(* something whose own end is missing.                                     *)
Short(sub) ==
  \E n \in Nat : /\ DOMAIN sub = 1..n
                 /\ n = 0 \/ (n = 1 /\ sub[1].tag = 10) \/ (n # 0 /\ sub[n].whole = FALSE)

(* What CutShort() makes of an item. *)
LEMMA ShortItems ==
  ASSUME NEW it, NEW subs, NEW garbage, NEW x \in CutShort(it, subs, garbage)
  PROVE  \E sub \in subs : \E num : x = Cut(it, num, sub)
BY DEF CutShort

(* That is what is left. *)
LEMMA EntryShortened ==
  ASSUME NEW it, NEW tag, NEW key, NEW value, IsEntry(it, tag, key, value), Items(it.sub),
         NEW sub \in {<<>>} \cup CutInside(it.sub, Garbage)
  PROVE  Short(sub)
<1> DEFINE s == it.sub
<1>1. Items(s) /\ DOMAIN s = 1..2 /\ s[1].tag = 10 /\ Len(s) = 2
  <2>1. Items(s) /\ DOMAIN s = 1..2 /\ s[1].tag = 10
    BY DEF IsEntry
  <2> HIDE DEF s
  <2> QED BY <2>1, ItemsDomain
<1> HIDE DEF s
<1>2. CASE sub = <<>>
  <2>1. DOMAIN sub = 1..0
    BY <1>2
  <2> QED BY <2>1 DEF Short
<1>3. CASE sub \in Prefixes0(s)
  <2>1. PICK n \in 0..1 : sub = SubSeq(s, 1, n)
    BY <1>1, <1>3 DEF Prefixes0
  <2>2. n \in 0..Len(s) /\ n \in Nat /\ (n = 0 \/ n = 1)
    BY <1>1, <2>1
  <2>3. DOMAIN sub = 1..n /\ \A i \in 1..n : sub[i] = s[i]
    BY <1>1, <2>1, <2>2, Prefix
  <2> QED BY <1>1, <2>2, <2>3 DEF Short
<1>4. ASSUME NEW n \in DOMAIN s, NEW subs, NEW x \in CutShort(s[n], subs, Garbage),
             sub = Append(SubSeq(s, 1, n - 1), x)
      PROVE  Short(sub)
  <2> DEFINE v == SubSeq(s, 1, n - 1)
             m == n - 1
  <2>1. n \in Nat \ {0} /\ m \in Nat /\ n - 1 \in 0..Len(s) /\ m + 1 = n
    BY <1>1
  <2>2. x.whole = FALSE
    <3> DEFINE it2 == s[n]
    <3>1. x \in CutShort(it2, subs, Garbage)
      BY <1>4
    <3> HIDE DEF it2
    <3>2. \E y \in subs : \E num : x = Cut(it2, num, y)
      BY <3>1, ShortItems
    <3>3. PICK y, num : x = Cut(it2, num, y)
      BY <3>2
    <3> QED BY <3>3 DEF Cut
  <2>3. Items(v) /\ DOMAIN v = 1..m
    BY <1>1, <2>1, Prefix
  <2>4. sub = Append(v, x)
    BY <1>4
  <2> HIDE DEF v, m
  <2>5. DOMAIN sub = 1..(m + 1) /\ sub[m + 1] = x
    BY <2>1, <2>3, <2>4, Appended
  <2> QED BY <2>1, <2>2, <2>5 DEF Short
<1>5. CASE sub \in CutInside(s, Garbage) /\ sub \notin Prefixes0(s)
  <2>1. PICK n \in DOMAIN s :
          sub \in {Append(SubSeq(s, 1, n - 1), cut) :
                     cut \in CutShort(s[n], {<<>>} \cup Prefixes0(s[n].sub), Garbage)}
    BY <1>5 DEF CutInside, CutBetween
  <2> QED BY <1>4, <2>1
<1> QED BY <1>2, <1>3, <1>5 DEF s

(* What can arrive of a message: items that are faithful to its objects    *)
(* and, if the bytes were damaged, ones that are short.                    *)
Arrived(k, m, s, cut) ==
  /\ Items(s)
  /\ \A i \in DOMAIN s :
       s[i].tag = ObjectsTag(k) => OfObject(k, m, s[i]) \/ (cut /\ Short(s[i].sub))

(* Undamaged bytes arrive, *)
LEMMA FaithfulArrives ==
  ASSUME NEW k, NEW m, NEW s, Faithful(k, m, s)
  PROVE  \A cut : Arrived(k, m, s, cut)
BY DEF Faithful, Arrived

(* and so do damaged ones. *)
LEMMA DamagedArrives ==
  ASSUME NEW k, NEW m, NEW s, Faithful(k, m, s),
         NEW u \in Cuts(s, Garbage) \cup {Padded(s)}
  PROVE  Arrived(k, m, u, TRUE)
<1> DEFINE P(it) == it.tag = ObjectsTag(k) => OfObject(k, m, it)
           Q(it) == it.tag = ObjectsTag(k) => OfObject(k, m, it) \/ Short(it.sub)
<1>0. /\ \A it : P(it) => Q(it)
      /\ Faithful(k, m, s) <=> Items(s) /\ \A i \in DOMAIN s : P(s[i])
      /\ Arrived(k, m, u, TRUE) <=> Items(u) /\ \A i \in DOMAIN u : Q(u[i])
  BY DEF Faithful, Arrived
<1>1. Items(s) /\ DOMAIN s = 1..Len(s) /\ Len(s) \in Nat
  BY <1>0, ItemsDomain
<1>2. CASE u \in Prefixes0(s)
  <2>1. PICK n \in 0..(Len(s) - 1) : u = SubSeq(s, 1, n)
    BY <1>2 DEF Prefixes0
  <2>2. n \in 0..Len(s) /\ n <= Len(s)
    BY <1>1, <2>1
  <2>3. Items(u) /\ DOMAIN u = 1..n /\ \A i \in 1..n : u[i] = s[i]
    BY <1>1, <2>1, <2>2, Prefix
  <2>4. \A i \in 1..n : i \in DOMAIN s
    BY <1>1, <2>2
  <2> HIDE DEF P, Q
  <2> QED BY <1>0, <2>3, <2>4
<1>3. ASSUME NEW n \in DOMAIN s,
             NEW x \in CutShort(s[n], {<<>>} \cup CutInside(s[n].sub, Garbage), Garbage),
             u = Append(SubSeq(s, 1, n - 1), x)
      PROVE  Arrived(k, m, u, TRUE)
  <2> DEFINE v == SubSeq(s, 1, n - 1)
             l == n - 1
  <2>1. n \in Nat \ {0} /\ l \in Nat /\ n - 1 \in 0..Len(s) /\ n <= Len(s) /\ l + 1 = n
    BY <1>1
  <2>2. PICK sub \in {<<>>} \cup CutInside(s[n].sub, Garbage) : \E num : x = Cut(s[n], num, sub)
    <3> DEFINE it == s[n]
               subs == {<<>>} \cup CutInside(it.sub, Garbage)
    <3>1. x \in CutShort(it, subs, Garbage)
      BY <1>3
    <3> HIDE DEF it, subs
    <3>2. \E y \in subs : \E num : x = Cut(it, num, y)
      BY <3>1, ShortItems
    <3> QED BY <3>2 DEF it, subs
  <2>3. x.tag = s[n].tag /\ x.sub = sub
    <3>1. PICK num : x = Cut(s[n], num, sub)
      BY <2>2
    <3> QED BY <3>1 DEF Cut
  <2>4. Q(x)
    <3> SUFFICES ASSUME s[n].tag = ObjectsTag(k) PROVE Short(sub)
      BY <2>3
    <3>1. OfObject(k, m, s[n])
      BY <1>0
    <3>2. PICK name, value : IsEntry(s[n], ObjectsTag(k), name, value) /\ Items(s[n].sub)
      BY <3>1 DEF OfObject
    <3> QED BY <2>2, <3>2, EntryShortened
  <2>5. Items(v) /\ DOMAIN v = 1..l /\ \A i \in 1..l : v[i] = s[i]
    BY <1>1, <2>1, Prefix
  <2>6. u = Append(v, x)
    BY <1>3
  <2>7. \A i \in 1..l : i \in DOMAIN s
    BY <1>1, <2>1
  <2> HIDE DEF v, l, P, Q
  <2>8. /\ Items(u) /\ DOMAIN u = 1..(l + 1)
        /\ (\A i \in 1..l : u[i] = v[i]) /\ u[l + 1] = x
    BY <2>1, <2>5, <2>6, Appended
  <2>9. \A i \in DOMAIN u : i \in 1..l \/ i = l + 1
    BY <2>1, <2>8
  <2> QED BY <1>0, <2>4, <2>5, <2>7, <2>8, <2>9
<1>4. CASE u = Padded(s)
  <2> DEFINE x == Item(0, <<>>, "", <<>>, 0)
             n == Len(s)
  <2>1. Q(x)
    <3>1. x.tag = 0 /\ ObjectsTag(k) # 0
      BY DEF Item, ObjectsTag
    <3> QED BY <3>1
  <2>2. u = Append(s, x)
    BY <1>4 DEF Padded
  <2> HIDE DEF x, P, Q
  <2>3. Items(u) /\ DOMAIN u = 1..(n + 1) /\ (\A i \in 1..n : u[i] = s[i]) /\ u[n + 1] = x
    BY <1>1, <2>2, Appended
  <2>4. \A i \in DOMAIN u : i \in DOMAIN s \/ i = n + 1
    BY <1>1, <2>3
  <2> QED BY <1>0, <1>1, <2>1, <2>3, <2>4
<1>5. CASE u \in Cuts(s, Garbage) /\ u \notin Prefixes0(s)
  <2>1. PICK n \in DOMAIN s :
          u \in {Append(SubSeq(s, 1, n - 1), cut) :
                   cut \in CutShort(s[n], {<<>>} \cup CutInside(s[n].sub, Garbage), Garbage)}
    BY <1>5 DEF Cuts, CutBetween
  <2> QED BY <1>3, <2>1
<1> QED BY <1>2, <1>4, <1>5
------------------------------------------------------------------------------
(* Objects that were read are as they were sent or, of damaged bytes, have *)
(* nothing in them.                                                        *)
Right(k, m, objects, cut) ==
  \A name \in DOMAIN objects :
    \/ name \in DOMAIN m.objects /\ objects[name] = m.objects[name]
    \/ cut /\ objects[name] = NewObject(k)

(* An entry that is short is an error or has no value. *)
LEMMA ShortEntry ==
  ASSUME NEW v, v # "Number", NEW new, NEW s, Short(s),
         NEW r, r = Entries!Fold(v, Base(new), s), r.ok
  PROVE  r.msg.value = new
<1>1. PICK n \in Nat : /\ DOMAIN s = 1..n
                       /\ n = 0 \/ (n = 1 /\ s[1].tag = 10) \/ (n # 0 /\ s[n].whole = FALSE)
  BY DEF Short
<1>2. PICK read : Entries!Folds(v, Base(new), s, n, read) /\ r = read[n]
  BY <1>1, Entries!FoldReads
<1>3. read[0] = Base(new)
  BY <1>1, <1>2 DEF Entries!Folds
<1> DEFINE e == [key |-> NoText, value |-> new]
<1>4. Base(new).ok = TRUE /\ Base(new).msg = e /\ e.value = new
  BY DEF Base, Parsed
<1> HIDE DEF e
<1>5. n # 0 => r = AtEntry(v, read[n - 1], s[n])
  <2>1. n # 0 => n \in 0..n
    OBVIOUS
  <2> QED BY <1>2, <2>1 DEF Entries!Folds
<1>6. CASE n = 0
  BY <1>2, <1>3, <1>4, <1>6
<1>7. CASE n = 1 /\ s[1].tag = 10
  <2>1. r = AtEntry(v, Base(new), s[1])
    BY <1>3, <1>5, <1>7
  <2>2. r = SetString(e, "key", s[1])
    BY <1>4, <1>7, <2>1 DEF AtEntry, EndsMessage
  <2>3. r.msg = [e EXCEPT !["key"] = s[1].str]
    BY <2>2 DEF SetString, Parsed
  <2>4. e = [key |-> NoText, value |-> new]
    BY DEF e
  <2> QED BY <2>3, <2>4
<1>8. CASE n # 0 /\ s[n].whole = FALSE
  <2> DEFINE it == s[n]
             q == read[n - 1]
  <2>1. r = AtEntry(v, q, it) /\ it.whole = FALSE
    BY <1>5, <1>8
  <2> HIDE DEF it, q
  <2>2. \A a, b : Parsed(a, b).ok = b
    BY DEF Parsed
  <2>3. r = SetString(q.msg, "key", it) \/ r = ValueOf(v, q.msg, it)
    BY <2>1, <2>2 DEF AtEntry
  <2>4. ~SetString(q.msg, "key", it).ok
    BY <2>1, <2>2 DEF SetString
  <2>5. ~ValueOf(v, q.msg, it).ok
    BY <2>1, <2>2 DEF ValueOf
  <2> QED BY <2>3, <2>4, <2>5
<1> QED BY <1>1, <1>6, <1>7, <1>8

(* Where an object is read. *)
LEMMA ObjectTurn ==
  ASSUME NEW k \in HasObjects, NEW x, NEW it, it.tag = ObjectsTag(k)
  PROVE  Turn(k, x, it) = Entry(x, "objects", Entries!Fold(ObjectsClass(k), Base(NewObject(k)),
                                                           it.sub), it.whole)
<1>1. Turn(k, x, it) = TurnOf(k, x, it)
  BY DEF TurnOf, HasObjects
<1>2. ReadsEntries(k, "objects", ObjectsTag(k), ObjectsClass(k), NewObject(k))
  BY ControlMessage_ObjectsEntry, HandshakeMessage_ObjectsEntry, SensorMessage_ObjectsEntry
  DEF HasObjects, ObjectsTag, ObjectsClass, NewObject
<1> QED BY <1>1, <1>2 DEF ReadsEntries

(* Setting another field leaves the objects alone. *)
LEMMA OtherFieldSet ==
  ASSUME NEW x, "objects" \in DOMAIN x, NEW f, f # "objects"
  PROVE  \A y : [x EXCEPT ![f] = y].objects = x.objects
OBVIOUS

(* So does whatever is read elsewhere. *)
LEMMA OtherTurn ==
  ASSUME NEW k \in HasObjects, NEW x, "objects" \in DOMAIN x, NEW it, it.tag # ObjectsTag(k)
  PROVE  Turn(k, x, it).msg.objects = x.objects
<1>1. \A y, ok : Parsed(y, ok).msg = y
  BY DEF Parsed
<1>2. Unknown(x, it).msg.objects = x.objects
  <2>1. Unknown(x, it).msg = x \/ \E y : Unknown(x, it).msg = [x EXCEPT !["unknown"] = y]
    BY DEF Unknown, Parsed
  <2> QED BY <2>1, OtherFieldSet
<1>3. \A f : f # "objects" => SetNumber(x, f, it).msg.objects = x.objects
  BY <1>1, OtherFieldSet DEF SetNumber
<1>4. CASE k = "ControlMessage"
  BY <1>2, <1>3, <1>4 DEF Turn, ParseControlMessage, ObjectsTag
<1>5. CASE k = "HandshakeMessage"
  <2> DEFINE set == SetMessage(x, "simSettings", NewHandshakeMessage_SimulationSettings,
                               ParseHandshakeMessage_SimulationSettings, it)
  <2>1. \E y : set.msg = [x EXCEPT !["simSettings"] = y]
    BY DEF SetMessage, Parsed
  <2>2. set.msg.objects = x.objects
    BY <2>1, OtherFieldSet
  <2>3. it.tag # 34
    BY <1>5 DEF ObjectsTag
  <2>4. Turn(k, x, it) \in {SetNumber(x, "messageType", it), SetNumber(x, "version", it),
                            SetNumber(x, "controlType", it), set, Unknown(x, it)}
    BY Zenon, <1>5, <2>3 DEF Turn, ParseHandshakeMessage
  <2> HIDE DEF set
  <2> QED BY <1>2, <1>3, <2>2, <2>4
<1>6. CASE k = "SensorMessage"
  <2> DEFINE set == SetMessage(x, "simVars", NewSensorMessage_SimulationVariables,
                               ParseSensorMessage_SimulationVariables, it)
  <2>1. \E y : set.msg = [x EXCEPT !["simVars"] = y]
    BY DEF SetMessage, Parsed
  <2>2. set.msg.objects = x.objects
    BY <2>1, OtherFieldSet
  <2>3. it.tag # 26
    BY <1>6 DEF ObjectsTag
  <2>4. Turn(k, x, it) \in {SetNumber(x, "messageType", it), set, Unknown(x, it)}
    BY Zenon, <1>6, <2>3 DEF Turn, ParseSensorMessage
  <2> HIDE DEF set
  <2> QED BY <1>2, <1>3, <2>2, <2>4
<1> QED BY <1>4, <1>5, <1>6 DEF HasObjects

(* One turn of the parser keeps the objects right, *)
LEMMA TurnRight ==
  ASSUME NEW k \in HasObjects, NEW m, NEW cut, NEW x, "objects" \in DOMAIN x,
         Right(k, m, x.objects, cut), NEW it,
         it.tag = ObjectsTag(k) => OfObject(k, m, it) \/ (cut /\ Short(it.sub))
  PROVE  Right(k, m, Turn(k, x, it).msg.objects, cut)
<1>1. CASE it.tag # ObjectsTag(k)
  BY <1>1, OtherTurn
<1>2. CASE it.tag = ObjectsTag(k)
  <2> DEFINE v == ObjectsClass(k)
             new == NewObject(k)
             r == Entries!Fold(v, Base(new), it.sub)
             key == r.msg.key
             y == r.msg.value
  <2>1. Turn(k, x, it) = Entry(x, "objects", r, it.whole)
    BY <1>2, ObjectTurn
  <2>2. v # "Number"
    BY DEF ObjectsClass
  <2>3. ASSUME r.ok
        PROVE  (key \in DOMAIN m.objects /\ y = m.objects[key]) \/ (cut /\ y = new)
    <3>1. CASE OfObject(k, m, it)
      <4>1. PICK name \in DOMAIN m.objects : \E value :
              /\ IsEntry(it, ObjectsTag(k), name, value)
              /\ Values(v, new, value, m.objects[name])
        BY <3>1 DEF OfObject
      <4>2. PICK value : /\ IsEntry(it, ObjectsTag(k), name, value)
                         /\ Values(v, new, value, m.objects[name])
        BY <4>1
      <4>3. key = name /\ y = m.objects[name]
        BY <2>3, <4>2, EntryMakes
      <4> QED BY <4>3
    <3>2. CASE cut /\ Short(it.sub)
      BY <2>2, <2>3, <3>2, ShortEntry
    <3> QED BY <1>2, <3>1, <3>2
  <2> HIDE DEF v, r
  <2>4. CASE ~r.ok
    BY <2>1, <2>4 DEF Entry, Parsed
  <2>5. CASE r.ok
    <3>1. Turn(k, x, it).msg.objects = With(x.objects, key, y)
      BY <2>1, <2>5 DEF Entry, Parsed
    <3>2. /\ DOMAIN With(x.objects, key, y) = DOMAIN x.objects \cup {key}
          /\ \A name \in DOMAIN x.objects \cup {key} :
               With(x.objects, key, y)[name] = IF name = key THEN y ELSE x.objects[name]
      BY DEF With
    <3> HIDE DEF key, y
    <3> QED BY <2>3, <2>5, <3>1, <3>2 DEF Right
  <2> QED BY <2>4, <2>5
<1> QED BY <1>1, <1>2

(* and so does parsing all of a message. *)
LEMMA ParseRight ==
  ASSUME NEW k \in HasObjects, NEW m, NEW s, NEW cut, Arrived(k, m, s, cut)
  PROVE  Right(k, m, Parse(k, New(k), s).msg.objects, cut)
<1> DEFINE n == Len(s)
           x == New(k)
           Good(r) == DOMAIN r.msg = DOMAIN New(k) /\ Right(k, m, r.msg.objects, cut)
<1>1. n \in Nat /\ DOMAIN s = 1..n
  BY ItemsDomain DEF Arrived
<1>2. {"messageType", "objects"} \subseteq DOMAIN New(k) /\ k \in Kinds
      /\ DOMAIN New(k).objects = {}
  BY DEF New, HasObjects, Kinds, TypeNumber, NewHandshakeMessage, NewControlMessage,
     NewSensorMessage, NoEntries
<1>3. Right(k, m, New(k).objects, cut)
  BY <1>2 DEF Right
<1> HIDE DEF n, x
<1>4. PICK read : /\ read[0] = [msg |-> x, ok |-> TRUE]
                  /\ \A i \in 1..n : read[i] = On(k, read[i - 1], s[i])
                  /\ Parse(k, x, s) = read[n]
  BY <1>1, ParseReads
<1> DEFINE T == {i \in Nat : i <= n => Good(read[i])}
<1>5. 0 \in T
  BY <1>3, <1>4 DEF x
<1>6. ASSUME NEW i \in Nat, i \in T
      PROVE  i + 1 \in T
  <2> SUFFICES ASSUME i + 1 <= n PROVE Good(read[i + 1])
    OBVIOUS
  <2> DEFINE it == s[i + 1]
             r == read[i]
  <2>1. Good(r)
    BY <1>1, <1>6
  <2>2. read[i + 1] = On(k, r, it) /\ i + 1 \in DOMAIN s
    <3>1. i + 1 \in 1..n /\ (i + 1) - 1 = i
      BY <1>1
    <3> QED BY <1>1, <1>4, <3>1
  <2>3. it.tag = ObjectsTag(k) => OfObject(k, m, it) \/ (cut /\ Short(it.sub))
    BY <2>2 DEF Arrived
  <2> HIDE DEF T, it, r
  <2>4. Right(k, m, Turn(k, r.msg, it).msg.objects, cut)
    BY <1>2, <2>1, <2>3, TurnRight
  <2>5. DOMAIN Turn(k, r.msg, it).msg = DOMAIN r.msg
    BY <1>2, <2>1, TurnKeeps
  <2> QED BY <2>1, <2>2, <2>4, <2>5 DEF On, Parsed
<1> HIDE DEF T
<1>7. T = Nat
  BY <1>5, <1>6, Reading!NatInherits DEF T
<1>8. Good(read[n])
  BY <1>1, <1>7 DEF T
<1> QED BY <1>4, <1>8 DEF x

(* There is nothing in a new object. *)
LEMMA NewObjectEmpty ==
  ASSUME NEW k
  PROVE  \A f \in DOMAIN NewObject(k) : DOMAIN NewObject(k)[f] = {}
BY DEF NewObject, NewControlMessage_Object, NewHandshakeMessage_Object, NewSensorMessage_Object,
   NoEntries

(* The invariant: frames are what can arrive of the message, and readers   *)
(* parsed them.                                                            *)
Delivered ==
  /\ kind = NoKind => pm = <<>>
  /\ kind \in HasObjects /\ frame # NoFrame => Arrived(kind, pm, frame, damaged)
  /\ got.kind # NoKind => /\ frame # NoFrame
                          /\ got.msg = Parse(got.kind, New(got.kind), frame).msg

(* Every step keeps it, *)
LEMMA NextDelivered == IInv /\ Sent /\ Delivered /\ [Next]_vars => Delivered'
<1> SUFFICES ASSUME IInv, Sent, Delivered, [Next]_vars PROVE Delivered'
  OBVIOUS
<1>0. HasObjects \subseteq Kinds /\ NoKind \notin Kinds /\ NoMessage.kind = NoKind
  BY KindsDiffer DEF HasObjects, Kinds, TypeNumber, NoMessage
<1>1. CASE UNCHANGED vars
  BY <1>1 DEF vars, Delivered
<1>2. ASSUME NEW k \in Kinds, Create(k)
      PROVE  Delivered'
  BY <1>0, <1>2 DEF Create, Delivered, IInv
<1>3. CASE Edit
  BY <1>0, <1>3 DEF Edit, Delivered, IInv
<1>4. ASSUME NEW order \in Orders, SerializeToBytes(order)
      PROVE  Delivered'
  <2>1. /\ kind # NoKind /\ frame = NoFrame /\ frame' = Write(kind, pm, order) /\ got = NoMessage
        /\ UNCHANGED <<kind, pm, damaged, got>>
    BY <1>4 DEF SerializeToBytes, IInv
  <2>2. kind \in HasObjects => Faithful(kind, pm, frame')
    BY <2>1, WriteFaithful DEF Sent
  <2> QED BY <1>0, <2>1, <2>2, FaithfulArrives DEF Delivered
<1>5. CASE Damage
  <2>1. /\ frame # NoFrame /\ ~damaged /\ got = NoMessage /\ damaged' = TRUE
        /\ frame' \in Cuts(frame, Garbage) \cup {Padded(frame)}
        /\ UNCHANGED <<kind, pm, got>>
    BY <1>5 DEF Damage
  <2>2. kind # NoKind
    BY <2>1 DEF IInv
  <2>3. PICK order : frame = Write(kind, pm, order)
    BY <2>1 DEF Sent
  <2>4. kind \in HasObjects => Faithful(kind, pm, frame)
    BY <2>2, <2>3, WriteFaithful DEF Sent
  <2>5. kind \in HasObjects => Arrived(kind, pm, frame', TRUE)
    BY <2>1, <2>4, DamagedArrives
  <2> QED BY <1>0, <2>1, <2>2, <2>5 DEF Delivered
<1>6. ASSUME Unread, NEW from, got' = Raised(from) \/ \E k : got' = Received(from, k, frame)
      PROVE  Delivered'
  <2>1. got'.kind = NoKind \/ got'.msg = Parse(got'.kind, New(got'.kind), frame).msg
    BY <1>0, <1>6 DEF Raised, Received, NoMessage
  <2> QED BY <1>6, <2>1 DEF Unread, Delivered
<1>7. CASE CppFromBytes
  BY <1>6, <1>7 DEF CppFromBytes
<1>8. CASE PyFromBytes
  <2>1. Unread /\ (got' = Raised("py") \/ \E k : got' = Received("py", k, frame))
    BY <1>8 DEF PyFromBytes
  <2> QED BY <1>6, <2>1
<1>9. ASSUME NEW k \in Kinds, FromIStream(k)
      PROVE  Delivered'
  BY <1>6, <1>9 DEF FromIStream
<1>10. ASSUME NEW k \in Kinds, Cast(k)
       PROVE  Delivered'
  <2>1. got'.kind = got.kind /\ got'.msg = got.msg /\ UNCHANGED <<kind, pm, frame, damaged>>
    BY <1>10 DEF Cast
  <2> QED BY <2>1 DEF Delivered
<1>11. "SensorMessage" \in Kinds /\ "HandshakeMessage" \in Kinds
  BY DEF Kinds, TypeNumber
<1> QED
  BY <1>1, <1>2, <1>3, <1>4, <1>5, <1>7, <1>8, <1>9, <1>10, <1>11
  DEF Next, SensorMessageFromIStream, HandshakeMessageFromIStream,
      ToSensorMessage, ToHandshakeMessage

(* and it says that no object is halved. *)
LEMMA DeliveredWhole == IInv /\ Delivered => NoHalfObject
<1> SUFFICES ASSUME IInv, Delivered, got.kind = kind, "objects" \in DOMAIN pm,
                    NEW name \in DOMAIN got.msg.objects
             PROVE  \/ name \in DOMAIN pm.objects /\ got.msg.objects[name] = pm.objects[name]
                    \/ /\ damaged
                       /\ \A f \in DOMAIN got.msg.objects[name] :
                            DOMAIN got.msg.objects[name][f] = {}
  BY DEF NoHalfObject
<1>1. kind # NoKind /\ kind \in Kinds
  BY DEF IInv, Delivered
<1>2. kind \in HasObjects
  <2>1. "objects" \in DOMAIN New(kind)
    BY <1>1 DEF IInv, Made
  <2> QED BY <1>1, <2>1 DEF New, HasObjects, Kinds, TypeNumber, NewHandshakeInitMessage,
          NewResetMessage, NewErrorMessage, NewSensorRequestMessage
<1>3. Arrived(kind, pm, frame, damaged) /\ got.msg = Parse(kind, New(kind), frame).msg
  BY <1>1, <1>2 DEF Delivered
<1>4. Right(kind, pm, got.msg.objects, damaged)
  BY <1>2, <1>3, ParseRight
<1> QED BY <1>4, NewObjectEmpty DEF Right

(* Wherever bytes end, and whichever strings in them are not UTF-8, every  *)
(* robot that a reader is given is the one that was sent, or has nothing   *)
(* in it.                                                                  *)
THEOREM ObjectsAreWhole == Spec => []NoHalfObject
<1>1. Init => Sent /\ Delivered
  BY DEF Init, Sent, Delivered, NoMessage, HasObjects, NoKind
<1>2. Spec => [](Sent /\ Delivered)
  BY <1>1, Invariant, NextSent, NextDelivered, PTL DEF Spec
<1> QED BY <1>2, Invariant, DeliveredWhole, PTL
------------------------------------------------------------------------------
(* What an element of a sequence takes, c being the kind of sequence.      *)
SizeOf(c, x) ==
  CASE c = "items"     -> x.size
    [] c = "numbers"   -> SizeNumber(x)
    [] c = "doubles"   -> EightBytes(x)
    [] c = "strings"   -> 1 + StringSize(x)
    [] c = "sensors"   -> 1 + LengthDelimitedSize(SizeSensorMessage_Sensor(x))
    [] c = "vectors"   -> 1 + LengthDelimitedSize(SizeSensorMessage_Vec3(x))
    [] c = "settings"  -> 1 + LengthDelimitedSize(SizeHandshakeMessage_SimulationSettings(x))
    [] c = "variables" -> 1 + LengthDelimitedSize(SizeSensorMessage_SimulationVariables(x))

(* Adding it to what the ones before it take. *)
AddSize(c, n, x) == n + SizeOf(c, x)

(* Sums are folds of this. *)
Sums == INSTANCE Folding WITH Step <- AddSize

(* What a sequence takes. *)
Total(c, s) == Sums!Fold(c, 0, s)

(* These are the sums of the model: of items, *)
LEMMA ItemsAdd ==
  ASSUME NEW s
  PROVE  Bytes(s)
           = Total("items", s)
<1> DEFINE Went(n, x) == n + x.size
           Own(iter) == iter = [t \in SUBSET DOMAIN s |->
             IF t = {} THEN 0 ELSE Went(iter[t \ {Max(t)}], s[Max(t)])]
           All(iter) == iter = [t \in SUBSET DOMAIN s |->
             IF t = {} THEN 0
             ELSE AddSize("items", iter[t \ {Max(t)}], s[Max(t)])]
<1>1. Bytes(s)
        = (CHOOSE iter : Own(iter))[DOMAIN s]
  BY Zenon DEF Bytes, Sum, FoldLeft, MapThenFoldSet, Max
<1>2. Total("items", s) = (CHOOSE iter : All(iter))[DOMAIN s]
  BY Zenon DEF Total, Sums!Fold, Sums!FoldLeft, Sums!MapThenFoldSet, Sums!Max, Max
<1>3. \A n, x : Went(n, x) = AddSize("items", n, x)
  BY DEF AddSize, SizeOf
<1> HIDE DEF Went
<1>4. \A iter : Own(iter) <=> All(iter)
  BY <1>3
<1> HIDE DEF Own, All
<1>5. (CHOOSE iter : Own(iter)) = (CHOOSE iter : All(iter))
  BY <1>4
<1> QED BY Zenon, <1>1, <1>2, <1>5

(* of numbers, *)
LEMMA NumbersAdd ==
  ASSUME NEW s
  PROVE  PackedBytes(s, SizeNumber)
           = Total("numbers", s)
<1> DEFINE Went(n, x) == n + SizeNumber(x)
           Own(iter) == iter = [t \in SUBSET DOMAIN s |->
             IF t = {} THEN 0 ELSE Went(iter[t \ {Max(t)}], s[Max(t)])]
           All(iter) == iter = [t \in SUBSET DOMAIN s |->
             IF t = {} THEN 0
             ELSE AddSize("numbers", iter[t \ {Max(t)}], s[Max(t)])]
<1>1. PackedBytes(s, SizeNumber)
        = (CHOOSE iter : Own(iter))[DOMAIN s]
  BY Zenon DEF PackedBytes, Sum, FoldLeft, MapThenFoldSet, Max
<1>2. Total("numbers", s) = (CHOOSE iter : All(iter))[DOMAIN s]
  BY Zenon DEF Total, Sums!Fold, Sums!FoldLeft, Sums!MapThenFoldSet, Sums!Max, Max
<1>3. \A n, x : Went(n, x) = AddSize("numbers", n, x)
  BY DEF AddSize, SizeOf
<1> HIDE DEF Went
<1>4. \A iter : Own(iter) <=> All(iter)
  BY <1>3
<1> HIDE DEF Own, All
<1>5. (CHOOSE iter : Own(iter)) = (CHOOSE iter : All(iter))
  BY <1>4
<1> QED BY Zenon, <1>1, <1>2, <1>5

(* of doubles, *)
LEMMA DoublesAdd ==
  ASSUME NEW s
  PROVE  PackedBytes(s, EightBytes)
           = Total("doubles", s)
<1> DEFINE Went(n, x) == n + EightBytes(x)
           Own(iter) == iter = [t \in SUBSET DOMAIN s |->
             IF t = {} THEN 0 ELSE Went(iter[t \ {Max(t)}], s[Max(t)])]
           All(iter) == iter = [t \in SUBSET DOMAIN s |->
             IF t = {} THEN 0
             ELSE AddSize("doubles", iter[t \ {Max(t)}], s[Max(t)])]
<1>1. PackedBytes(s, EightBytes)
        = (CHOOSE iter : Own(iter))[DOMAIN s]
  BY Zenon DEF PackedBytes, Sum, FoldLeft, MapThenFoldSet, Max
<1>2. Total("doubles", s) = (CHOOSE iter : All(iter))[DOMAIN s]
  BY Zenon DEF Total, Sums!Fold, Sums!FoldLeft, Sums!MapThenFoldSet, Sums!Max, Max
<1>3. \A n, x : Went(n, x) = AddSize("doubles", n, x)
  BY DEF AddSize, SizeOf
<1> HIDE DEF Went
<1>4. \A iter : Own(iter) <=> All(iter)
  BY <1>3
<1> HIDE DEF Own, All
<1>5. (CHOOSE iter : Own(iter)) = (CHOOSE iter : All(iter))
  BY <1>4
<1> QED BY Zenon, <1>1, <1>2, <1>5

(* of strings, *)
LEMMA StringsAdd ==
  ASSUME NEW s
  PROVE  SizeStrings(s)
           = Total("strings", s)
<1> DEFINE Went(n, x) == n + (1 + StringSize(x))
           Own(iter) == iter = [t \in SUBSET DOMAIN s |->
             IF t = {} THEN 0 ELSE Went(iter[t \ {Max(t)}], s[Max(t)])]
           All(iter) == iter = [t \in SUBSET DOMAIN s |->
             IF t = {} THEN 0
             ELSE AddSize("strings", iter[t \ {Max(t)}], s[Max(t)])]
<1>1. SizeStrings(s)
        = (CHOOSE iter : Own(iter))[DOMAIN s]
  BY Zenon DEF SizeStrings, Sum, FoldLeft, MapThenFoldSet, Max
<1>2. Total("strings", s) = (CHOOSE iter : All(iter))[DOMAIN s]
  BY Zenon DEF Total, Sums!Fold, Sums!FoldLeft, Sums!MapThenFoldSet, Sums!Max, Max
<1>3. \A n, x : Went(n, x) = AddSize("strings", n, x)
  BY DEF AddSize, SizeOf
<1> HIDE DEF Went
<1>4. \A iter : Own(iter) <=> All(iter)
  BY <1>3
<1> HIDE DEF Own, All
<1>5. (CHOOSE iter : Own(iter)) = (CHOOSE iter : All(iter))
  BY <1>4
<1> QED BY Zenon, <1>1, <1>2, <1>5

(* of sensors, *)
LEMMA SensorsAdd ==
  ASSUME NEW s
  PROVE  SizeSensors(s)
           = Total("sensors", s)
<1> DEFINE Went(n, x) == n + (1 + LengthDelimitedSize(SizeSensorMessage_Sensor(x)))
           Own(iter) == iter = [t \in SUBSET DOMAIN s |->
             IF t = {} THEN 0 ELSE Went(iter[t \ {Max(t)}], s[Max(t)])]
           All(iter) == iter = [t \in SUBSET DOMAIN s |->
             IF t = {} THEN 0
             ELSE AddSize("sensors", iter[t \ {Max(t)}], s[Max(t)])]
<1>1. SizeSensors(s)
        = (CHOOSE iter : Own(iter))[DOMAIN s]
  BY Zenon DEF SizeSensors, Sum, FoldLeft, MapThenFoldSet, Max
<1>2. Total("sensors", s) = (CHOOSE iter : All(iter))[DOMAIN s]
  BY Zenon DEF Total, Sums!Fold, Sums!FoldLeft, Sums!MapThenFoldSet, Sums!Max, Max
<1>3. \A n, x : Went(n, x) = AddSize("sensors", n, x)
  BY DEF AddSize, SizeOf
<1> HIDE DEF Went
<1>4. \A iter : Own(iter) <=> All(iter)
  BY <1>3
<1> HIDE DEF Own, All
<1>5. (CHOOSE iter : Own(iter)) = (CHOOSE iter : All(iter))
  BY <1>4
<1> QED BY Zenon, <1>1, <1>2, <1>5

(* of vectors, *)
LEMMA VectorsAdd ==
  ASSUME NEW s
  PROVE  Sum(LAMBDA v : 1 + LengthDelimitedSize(SizeSensorMessage_Vec3(v)), s)
           = Total("vectors", s)
<1> DEFINE Went(n, x) == n + (1 + LengthDelimitedSize(SizeSensorMessage_Vec3(x)))
           Own(iter) == iter = [t \in SUBSET DOMAIN s |->
             IF t = {} THEN 0 ELSE Went(iter[t \ {Max(t)}], s[Max(t)])]
           All(iter) == iter = [t \in SUBSET DOMAIN s |->
             IF t = {} THEN 0
             ELSE AddSize("vectors", iter[t \ {Max(t)}], s[Max(t)])]
<1>1. Sum(LAMBDA v : 1 + LengthDelimitedSize(SizeSensorMessage_Vec3(v)), s)
        = (CHOOSE iter : Own(iter))[DOMAIN s]
  BY Zenon DEF Sum, FoldLeft, MapThenFoldSet, Max
<1>2. Total("vectors", s) = (CHOOSE iter : All(iter))[DOMAIN s]
  BY Zenon DEF Total, Sums!Fold, Sums!FoldLeft, Sums!MapThenFoldSet, Sums!Max, Max
<1>3. \A n, x : Went(n, x) = AddSize("vectors", n, x)
  BY DEF AddSize, SizeOf
<1> HIDE DEF Went
<1>4. \A iter : Own(iter) <=> All(iter)
  BY <1>3
<1> HIDE DEF Own, All
<1>5. (CHOOSE iter : Own(iter)) = (CHOOSE iter : All(iter))
  BY <1>4
<1> QED BY Zenon, <1>1, <1>2, <1>5

(* of settings, *)
LEMMA SettingsAdd ==
  ASSUME NEW s
  PROVE  Sum(LAMBDA v : 1 + LengthDelimitedSize(SizeHandshakeMessage_SimulationSettings(v)), s)
           = Total("settings", s)
<1> DEFINE Went(n, x) == n + (1 + LengthDelimitedSize(SizeHandshakeMessage_SimulationSettings(x)))
           Own(iter) == iter = [t \in SUBSET DOMAIN s |->
             IF t = {} THEN 0 ELSE Went(iter[t \ {Max(t)}], s[Max(t)])]
           All(iter) == iter = [t \in SUBSET DOMAIN s |->
             IF t = {} THEN 0
             ELSE AddSize("settings", iter[t \ {Max(t)}], s[Max(t)])]
<1>1. Sum(LAMBDA v : 1 + LengthDelimitedSize(SizeHandshakeMessage_SimulationSettings(v)), s)
        = (CHOOSE iter : Own(iter))[DOMAIN s]
  BY Zenon DEF Sum, FoldLeft, MapThenFoldSet, Max
<1>2. Total("settings", s) = (CHOOSE iter : All(iter))[DOMAIN s]
  BY Zenon DEF Total, Sums!Fold, Sums!FoldLeft, Sums!MapThenFoldSet, Sums!Max, Max
<1>3. \A n, x : Went(n, x) = AddSize("settings", n, x)
  BY DEF AddSize, SizeOf
<1> HIDE DEF Went
<1>4. \A iter : Own(iter) <=> All(iter)
  BY <1>3
<1> HIDE DEF Own, All
<1>5. (CHOOSE iter : Own(iter)) = (CHOOSE iter : All(iter))
  BY <1>4
<1> QED BY Zenon, <1>1, <1>2, <1>5

(* and of variables. *)
LEMMA VariablesAdd ==
  ASSUME NEW s
  PROVE  Sum(LAMBDA v : 1 + LengthDelimitedSize(SizeSensorMessage_SimulationVariables(v)), s)
           = Total("variables", s)
<1> DEFINE Went(n, x) == n + (1 + LengthDelimitedSize(SizeSensorMessage_SimulationVariables(x)))
           Own(iter) == iter = [t \in SUBSET DOMAIN s |->
             IF t = {} THEN 0 ELSE Went(iter[t \ {Max(t)}], s[Max(t)])]
           All(iter) == iter = [t \in SUBSET DOMAIN s |->
             IF t = {} THEN 0
             ELSE AddSize("variables", iter[t \ {Max(t)}], s[Max(t)])]
<1>1. Sum(LAMBDA v : 1 + LengthDelimitedSize(SizeSensorMessage_SimulationVariables(v)), s)
        = (CHOOSE iter : Own(iter))[DOMAIN s]
  BY Zenon DEF Sum, FoldLeft, MapThenFoldSet, Max
<1>2. Total("variables", s) = (CHOOSE iter : All(iter))[DOMAIN s]
  BY Zenon DEF Total, Sums!Fold, Sums!FoldLeft, Sums!MapThenFoldSet, Sums!Max, Max
<1>3. \A n, x : Went(n, x) = AddSize("variables", n, x)
  BY DEF AddSize, SizeOf
<1> HIDE DEF Went
<1>4. \A iter : Own(iter) <=> All(iter)
  BY <1>3
<1> HIDE DEF Own, All
<1>5. (CHOOSE iter : Own(iter)) = (CHOOSE iter : All(iter))
  BY <1>4
<1> QED BY Zenon, <1>1, <1>2, <1>5
------------------------------------------------------------------------------
(* sum has the sums on the way through the first n elements. *)
Adds(c, s, n, sum) == sum[0] = 0 /\ \A i \in 1..n : sum[i] = sum[i - 1] + SizeOf(c, s[i])

(* Sums go from element to element. *)
LEMMA TotalReads ==
  ASSUME NEW c, NEW s, NEW n \in Nat, DOMAIN s = 1..n
  PROVE  \E sum : Adds(c, s, n, sum) /\ Total(c, s) = sum[n]
<1>1. PICK sum : Sums!Folds(c, 0, s, n, sum) /\ Total(c, s) = sum[n]
  BY Sums!FoldReads DEF Total
<1>2. \A i \in 0..n : sum[i] = IF i = 0 THEN 0 ELSE sum[i - 1] + SizeOf(c, s[i])
  BY <1>1 DEF Sums!Folds, AddSize
<1>3. 0 \in 0..n /\ \A i \in 1..n : i \in 0..n /\ i # 0
  OBVIOUS
<1>4. Adds(c, s, n, sum)
  BY <1>2, <1>3 DEF Adds
<1> QED BY <1>1, <1>4

(* The elements have sizes. *)
Sized(c, s) == Items(s) /\ \A i \in DOMAIN s : SizeOf(c, s[i]) \in Nat

(* Then so has the sequence, and every sum on the way to it. *)
LEMMA SumsAreNumbers ==
  ASSUME NEW c, NEW s, NEW n \in Nat, DOMAIN s = 1..n, \A i \in 1..n : SizeOf(c, s[i]) \in Nat,
         NEW sum, Adds(c, s, n, sum)
  PROVE  \A i \in 0..n : sum[i] \in Nat
<1> USE DEF Adds
<1> DEFINE T == {i \in Nat : i <= n => sum[i] \in Nat}
<1>1. 0 \in T
  OBVIOUS
<1>2. ASSUME NEW i \in Nat, i \in T
      PROVE  i + 1 \in T
  <2> SUFFICES ASSUME i + 1 <= n PROVE sum[i + 1] \in Nat
    OBVIOUS
  <2>1. i + 1 \in 1..n /\ (i + 1) - 1 = i /\ sum[i] \in Nat
    BY <1>2
  <2>2. sum[i + 1] = sum[i] + SizeOf(c, s[i + 1]) /\ SizeOf(c, s[i + 1]) \in Nat
    BY <2>1
  <2> QED BY <2>1, <2>2
<1> HIDE DEF T
<1>3. T = Nat
  BY <1>1, <1>2, Sums!NatInherits DEF T
<1> HIDE DEF Adds
<1>4. \A i \in 0..n : i \in T /\ i <= n
  BY <1>3
<1> QED BY <1>4 DEF T

(* What a sequence takes is a number. *)
LEMMA TotalIsNumber ==
  ASSUME NEW c, NEW s, Sized(c, s)
  PROVE  Total(c, s) \in Nat
<1>1. Len(s) \in Nat /\ DOMAIN s = 1..Len(s) /\ \A i \in 1..Len(s) : SizeOf(c, s[i]) \in Nat
  BY ItemsDomain DEF Sized
<1>2. PICK sum : Adds(c, s, Len(s), sum) /\ Total(c, s) = sum[Len(s)]
  BY <1>1, TotalReads
<1>3. sum[Len(s)] \in Nat
  BY <1>1, <1>2, SumsAreNumbers
<1> QED BY <1>2, <1>3

(* Nothing takes nothing. *)
LEMMA TotalOfNothing ==
  ASSUME NEW c
  PROVE  Sized(c, <<>>) /\ Total(c, <<>>) = 0
<1>1. Items(<<>>) /\ DOMAIN <<>> = 1..0
  BY DEF Items
<1>2. PICK sum : Adds(c, <<>>, 0, sum) /\ Total(c, <<>>) = sum[0]
  BY <1>1, TotalReads
<1> QED BY <1>1, <1>2 DEF Sized, Adds

(* What elements take that take the same. *)
LEMMA TotalSame ==
  ASSUME NEW c, NEW s, NEW d, NEW t, NEW n \in Nat, DOMAIN s = 1..n, DOMAIN t = 1..n,
         \A i \in 1..n : SizeOf(c, s[i]) = SizeOf(d, t[i])
  PROVE  Total(c, s) = Total(d, t)
<1> USE DEF Adds
<1>1. PICK sum : Adds(c, s, n, sum) /\ Total(c, s) = sum[n]
  BY TotalReads
<1>2. PICK too : Adds(d, t, n, too) /\ Total(d, t) = too[n]
  BY TotalReads
<1> DEFINE T == {i \in Nat : i <= n => sum[i] = too[i]}
<1>3. 0 \in T
  BY <1>1, <1>2
<1>4. ASSUME NEW i \in Nat, i \in T
      PROVE  i + 1 \in T
  <2> SUFFICES ASSUME i + 1 <= n PROVE sum[i + 1] = too[i + 1]
    OBVIOUS
  <2>1. i + 1 \in 1..n /\ (i + 1) - 1 = i /\ sum[i] = too[i]
    BY <1>4
  <2> QED BY <1>1, <1>2, <2>1
<1> HIDE DEF T
<1>5. T = Nat
  BY <1>3, <1>4, Sums!NatInherits DEF T
<1> QED BY <1>1, <1>2, <1>5 DEF T

(* One thing behind another takes what the two take. *)
LEMMA TotalOfBoth ==
  ASSUME NEW c, NEW s, NEW t, Sized(c, s), Sized(c, t)
  PROVE  Sized(c, s \o t) /\ Total(c, s \o t) = Total(c, s) + Total(c, t)
<1> DEFINE u == s \o t
           m == Len(s)
           n == Len(t)
<1>1. /\ Items(u) /\ m \in Nat /\ DOMAIN s = 1..m /\ n \in Nat /\ DOMAIN t = 1..n
      /\ DOMAIN u = 1..(m + n)
      /\ \A i \in 1..(m + n) : u[i] = IF i <= m THEN s[i] ELSE t[i - m]
  BY Concatenated DEF Sized
<1> HIDE DEF u, m, n
<1>2. /\ \A i \in 1..m : SizeOf(c, s[i]) \in Nat
      /\ \A i \in 1..n : SizeOf(c, t[i]) \in Nat
  BY <1>1 DEF Sized
<1>3. Sized(c, u)
  <2> SUFFICES ASSUME NEW i \in 1..(m + n) PROVE SizeOf(c, u[i]) \in Nat
    BY <1>1 DEF Sized
  <2>1. CASE i <= m
    BY <1>1, <1>2, <2>1
  <2>2. CASE ~(i <= m)
    <3>1. i - m \in 1..n /\ u[i] = t[i - m]
      BY <1>1, <2>2
    <3> QED BY <1>2, <3>1
  <2> QED BY <2>1, <2>2
<1>4. PICK sum : Adds(c, s, m, sum) /\ Total(c, s) = sum[m]
  <2>1. m \in Nat /\ DOMAIN s = 1..m
    BY <1>1
  <2> QED BY <2>1, TotalReads
<1>5. PICK too : Adds(c, t, n, too) /\ Total(c, t) = too[n]
  <2>1. n \in Nat /\ DOMAIN t = 1..n
    BY <1>1
  <2> QED BY <2>1, TotalReads
<1>6. PICK all : Adds(c, u, m + n, all) /\ Total(c, u) = all[m + n]
  <2>1. m + n \in Nat
    BY <1>1
  <2> QED BY <1>1, <2>1, TotalReads
<1>7. /\ \A i \in 0..m : sum[i] \in Nat
      /\ \A i \in 0..n : too[i] \in Nat
  BY <1>1, <1>2, <1>4, <1>5, SumsAreNumbers
<1> USE DEF Adds
<1> DEFINE T == {i \in Nat : i <= m => all[i] = sum[i]}
           U == {i \in Nat : i <= n => all[m + i] = sum[m] + too[i]}
<1>8. 0 \in T
  BY <1>4, <1>6
<1>9. ASSUME NEW i \in Nat, i \in T
      PROVE  i + 1 \in T
  <2> SUFFICES ASSUME i + 1 <= m PROVE all[i + 1] = sum[i + 1]
    OBVIOUS
  <2>1. /\ i + 1 \in 1..m /\ i + 1 \in 1..(m + n) /\ (i + 1) - 1 = i /\ all[i] = sum[i]
        /\ u[i + 1] = s[i + 1]
    BY <1>1, <1>9
  <2> QED BY <1>4, <1>6, <2>1
<1> HIDE DEF T
<1>10. all[m] = sum[m] /\ sum[m] \in Nat
  <2>1. T = Nat
    BY <1>8, <1>9, Sums!NatInherits DEF T
  <2> QED BY <1>1, <1>7, <2>1 DEF T
<1>11. 0 \in U
  BY <1>1, <1>5, <1>10
<1>12. ASSUME NEW i \in Nat, i \in U
       PROVE  i + 1 \in U
  <2> SUFFICES ASSUME i + 1 <= n PROVE all[m + (i + 1)] = sum[m] + too[i + 1]
    OBVIOUS
  <2>1. /\ i + 1 \in 1..n /\ m + (i + 1) \in 1..(m + n) /\ (i + 1) - 1 = i
        /\ (m + (i + 1)) - 1 = m + i /\ (m + (i + 1)) - m = i + 1 /\ ~(m + (i + 1) <= m)
        /\ all[m + i] = sum[m] + too[i]
    BY <1>1, <1>12
  <2>2. u[m + (i + 1)] = t[i + 1] /\ SizeOf(c, t[i + 1]) \in Nat /\ too[i] \in Nat
    BY <1>1, <1>2, <1>7, <2>1
  <2> DEFINE j == m + (i + 1)
             x == SizeOf(c, t[i + 1])
  <2>3. all[j] = all[m + i] + x /\ too[i + 1] = too[i] + x
    <3>1. all[j] = all[j - 1] + SizeOf(c, u[j]) /\ j - 1 = m + i
      BY <1>6, <2>1
    <3> QED BY <1>5, <2>1, <2>2, <3>1
  <2> HIDE DEF j, x
  <2>4. x \in Nat /\ all[j] = (sum[m] + too[i]) + x
    BY <2>1, <2>2, <2>3 DEF x
  <2>5. all[j] = sum[m] + too[i + 1]
    BY <1>10, <2>2, <2>3, <2>4
  <2> QED BY <2>5 DEF j
<1> HIDE DEF U
<1>13. all[m + n] = sum[m] + too[n]
  <2>1. U = Nat
    BY <1>11, <1>12, Sums!NatInherits DEF U
  <2> QED BY <1>1, <2>1 DEF U
<1> QED BY <1>3, <1>4, <1>5, <1>6, <1>10, <1>13 DEF u
------------------------------------------------------------------------------
(* Sets of items that have sizes and nothing in them that has not.         *)
Closed(P) ==
  \A it \in P : it.size \in Nat /\ Items(it.num) /\ Items(it.sub) /\ Range(it.sub) \subseteq P

(* An item that takes a number of bytes, and so does all that is in it.    *)
ProperItem(it) == \E P : it \in P /\ Closed(P)

Proper(s) == Items(s) /\ \A i \in DOMAIN s : ProperItem(s[i])

(* What is in such an item *)
LEMMA ProperParts ==
  ASSUME NEW it, ProperItem(it)
  PROVE  it.size \in Nat /\ Items(it.num) /\ Proper(it.sub)
<1>1. PICK P : it \in P /\ Closed(P)
  BY DEF ProperItem
<1>2. it.size \in Nat /\ Items(it.num) /\ Items(it.sub) /\ Range(it.sub) \subseteq P
  BY <1>1 DEF Closed
<1>3. \A i \in DOMAIN it.sub : it.sub[i] \in P
  BY <1>2 DEF Range
<1> QED BY <1>1, <1>2, <1>3 DEF Proper, ProperItem

(* makes it one. *)
LEMMA ProperMade ==
  ASSUME NEW it, it.size \in Nat, Items(it.num), Proper(it.sub)
  PROVE  ProperItem(it)
<1> DEFINE s == it.sub
           Q(i) == CHOOSE P : s[i] \in P /\ Closed(P)
           P == {it} \cup UNION {Q(i) : i \in DOMAIN s}
<1>1. ASSUME NEW i \in DOMAIN s
      PROVE  s[i] \in Q(i) /\ Closed(Q(i))
  BY DEF Proper, ProperItem
<1>2. Items(s)
  BY DEF Proper
<1> HIDE DEF Q
<1>3. ASSUME NEW x \in P
      PROVE  x.size \in Nat /\ Items(x.num) /\ Items(x.sub) /\ Range(x.sub) \subseteq P
  <2>1. CASE x = it
    <3>1. Range(s) \subseteq P
      BY <1>1 DEF Range
    <3> HIDE DEF P
    <3> QED BY <1>2, <2>1, <3>1
  <2>2. CASE \E i \in DOMAIN s : x \in Q(i)
    <3>1. PICK i \in DOMAIN s : x \in Q(i)
      BY <2>2
    <3>2. Q(i) \subseteq P
      OBVIOUS
    <3> HIDE DEF P, s
    <3> QED BY <1>1, <3>1, <3>2 DEF Closed
  <2> QED BY <2>1, <2>2
<1>4. it \in P
  OBVIOUS
<1> HIDE DEF P
<1>5. Closed(P)
  BY <1>3 DEF Closed
<1> QED BY <1>4, <1>5 DEF ProperItem

(* The items in s take n bytes. *)
Weighs(s, n) == Proper(s) /\ n \in Nat /\ Bytes(s) = n

(* What they take are their sizes, one and all. *)
LEMMA ProperSized ==
  ASSUME NEW s, Proper(s)
  PROVE  Sized("items", s) /\ Weighs(s, Total("items", s)) /\ Weighs(s, Bytes(s))
<1>1. \A i \in DOMAIN s : s[i].size \in Nat
  BY ProperParts DEF Proper
<1>2. Sized("items", s)
  BY <1>1 DEF Sized, SizeOf, Proper
<1>3. Total("items", s) \in Nat /\ Bytes(s) = Total("items", s)
  BY <1>2, TotalIsNumber, ItemsAdd
<1> QED BY <1>2, <1>3 DEF Weighs

(* No items, *)
LEMMA WeighsNothing == Weighs(<<>>, 0) /\ Proper(<<>>)
<1>1. Items(<<>>)
  BY DEF Items
<1>2. Proper(<<>>)
  BY <1>1 DEF Proper
<1>3. Bytes(<<>>) = 0
  <2>1. Total("items", <<>>) = 0
    BY TotalOfNothing
  <2>2. Bytes(<<>>) = Total("items", <<>>)
    BY ItemsAdd
  <2> QED BY <2>1, <2>2
<1> QED BY <1>2, <1>3 DEF Weighs

(* one element is a sequence, *)
LEMMA OneElement ==
  ASSUME NEW x
  PROVE  Items(<<x>>) /\ DOMAIN <<x>> = 1..1 /\ <<x>>[1] = x
<1> DEFINE s == <<x>>
<1>1. s = [i \in 1..1 |-> s[i]] /\ s[1] = x
  OBVIOUS
<1> HIDE DEF s
<1>2. Items(s)
  BY <1>1, ItemsOf
<1> QED BY <1>1, <1>2 DEF s

(* one item, *)
LEMMA WeighsOne ==
  ASSUME NEW it, ProperItem(it)
  PROVE  Weighs(<<it>>, it.size) /\ Proper(<<it>>)
<1> DEFINE s == <<it>>
<1>1. Items(s) /\ DOMAIN s = 1..1 /\ s[1] = it
  BY OneElement
<1> HIDE DEF s
<1>2. Proper(s)
  BY <1>1 DEF Proper
<1>3. PICK sum : Adds("items", s, 1, sum) /\ Total("items", s) = sum[1]
  BY <1>1, TotalReads
<1>4. SizeOf("items", it) = it.size
  BY DEF SizeOf
<1>5. it.size \in Nat
  BY ProperParts
<1>6. sum[1] = sum[1 - 1] + SizeOf("items", s[1]) /\ sum[0] = 0
  BY <1>3 DEF Adds
<1>7. sum[1] = it.size
  BY <1>1, <1>4, <1>5, <1>6
<1>8. Weighs(s, it.size)
  BY <1>2, <1>3, <1>5, <1>7, ItemsAdd DEF Weighs
<1> QED BY <1>2, <1>8 DEF s

(* and some behind others. *)
LEMMA WeighsBoth ==
  ASSUME NEW s, NEW n, Weighs(s, n), NEW t, NEW l, Weighs(t, l)
  PROVE  Weighs(s \o t, n + l)
<1>1. Proper(s) /\ Proper(t) /\ n \in Nat /\ l \in Nat /\ Bytes(s) = n /\ Bytes(t) = l
  BY DEF Weighs
<1>2. Sized("items", s) /\ Sized("items", t)
  BY <1>1, ProperSized
<1>3. Total("items", s \o t) = Total("items", s) + Total("items", t)
  BY <1>2, TotalOfBoth
<1>4. Bytes(s \o t) = n + l
  BY <1>1, <1>3, ItemsAdd
<1>5. Proper(s \o t)
  <2> DEFINE u == s \o t
  <2>1. /\ Items(u) /\ Len(s) \in Nat /\ DOMAIN s = 1..Len(s)
        /\ Len(t) \in Nat /\ DOMAIN t = 1..Len(t)
        /\ DOMAIN u = 1..(Len(s) + Len(t))
        /\ \A i \in 1..(Len(s) + Len(t)) : u[i] = IF i <= Len(s) THEN s[i] ELSE t[i - Len(s)]
    BY <1>1, Concatenated DEF Proper
  <2> HIDE DEF u
  <2> DEFINE m == Len(s)
             k == Len(t)
  <2>2. \A i \in 1..(m + k) : i \in 1..m \/ (~(i <= m) /\ i - m \in 1..k)
    BY <2>1
  <2>3. \A i \in DOMAIN u : ProperItem(u[i])
    <3> SUFFICES ASSUME NEW i \in DOMAIN u PROVE ProperItem(u[i])
      OBVIOUS
    <3>1. CASE i \in 1..m
      BY <1>1, <2>1, <3>1 DEF Proper
    <3>2. CASE ~(i <= m) /\ i - m \in 1..k
      BY <1>1, <2>1, <3>2 DEF Proper
    <3> QED BY <2>1, <2>2, <3>1, <3>2
  <2> QED BY <2>1, <2>3 DEF Proper, u
<1> QED BY <1>1, <1>4, <1>5 DEF Weighs

(* An item that is written under a condition. *)
LEMMA WeighsIf ==
  ASSUME NEW condition, NEW it, NEW size, size \in Nat,
         condition => ProperItem(it) /\ it.size = 1 + size
  PROVE  Weighs(If(condition, it), SizeIf(condition, size))
<1>1. CASE condition
  <2>1. Weighs(<<it>>, 1 + size)
    BY <1>1, WeighsOne
  <2> QED BY <1>1, <2>1 DEF If, SizeIf
<1>2. CASE ~condition
  BY <1>2, WeighsNothing DEF If, SizeIf
<1> QED BY <1>1, <1>2

(* Sizes are numbers, whatever is written. *)
LEMMA SizesAreNumbers ==
  /\ \A n : VarintSize(n) \in Nat
  /\ \A n \in Nat : LengthDelimitedSize(n) \in Nat
  /\ \A s : StringSize(s) \in Nat
  /\ \A x : EightBytes(x) = 8
<1>1. \A n : VarintSize(n) \in Nat
  BY DEF VarintSize
<1>2. \A n \in Nat : LengthDelimitedSize(n) \in Nat
  BY <1>1 DEF LengthDelimitedSize
<1>3. TextSize \in Nat
  BY WireAssumption
<1> QED BY <1>1, <1>2, <1>3 DEF StringSize, EightBytes

(* Items that are written are proper if what is within them is. *)
LEMMA ItemProper ==
  ASSUME NEW tag, NEW num, Items(num), NEW str, NEW sub, Proper(sub), NEW size \in Nat
  PROVE  /\ ProperItem(Item(tag, num, str, sub, size))
         /\ Item(tag, num, str, sub, size).size = 1 + size
<1> DEFINE it == Item(tag, num, str, sub, size)
<1>1. it.size = 1 + size /\ it.num = num /\ it.sub = sub
  BY DEF Item
<1> HIDE DEF it
<1>2. ProperItem(it)
  BY <1>1, ProperMade
<1> QED BY <1>1, <1>2 DEF it

(* A number that is not the default, *)
LEMMA NumberWeighs ==
  ASSUME NEW condition, NEW tag, NEW n
  PROVE  Weighs(If(condition, WriteVarint(tag, n)), SizeIf(condition, VarintSize(n)))
<1>1. Items(<<n>>) /\ Proper(<<>>) /\ VarintSize(n) \in Nat
  BY OneElement, WeighsNothing, SizesAreNumbers
<1> DEFINE it == WriteVarint(tag, n)
           size == VarintSize(n)
<1>2. ProperItem(it) /\ it.size = 1 + size
  BY <1>1, ItemProper DEF WriteVarint
<1> HIDE DEF it, size
<1>3. Weighs(If(condition, it), SizeIf(condition, size))
  BY <1>1, <1>2, WeighsIf DEF size
<1> QED BY <1>3 DEF it, size

(* a double, *)
LEMMA DoubleWeighs ==
  ASSUME NEW condition, NEW tag, NEW x
  PROVE  Weighs(If(condition, WriteDouble(tag, x)), SizeIf(condition, 8))
<1>1. Items(<<x>>) /\ Proper(<<>>) /\ 8 \in Nat
  BY OneElement, WeighsNothing
<1> DEFINE it == WriteDouble(tag, x)
<1>2. ProperItem(it) /\ it.size = 1 + 8
  <2>1. \A size \in Nat : LET i == Item(tag, <<x>>, "", <<>>, size)
                          IN  ProperItem(i) /\ i.size = 1 + size
    BY <1>1, ItemProper
  <2> QED BY <2>1 DEF WriteDouble
<1> HIDE DEF it
<1>3. Weighs(If(condition, it), SizeIf(condition, 8))
  BY <1>2, WeighsIf
<1> QED BY <1>3 DEF it

(* and a string. *)
LEMMA StringItem ==
  ASSUME NEW tag, NEW s
  PROVE  ProperItem(WriteString(tag, s)) /\ WriteString(tag, s).size = 1 + StringSize(s)
<1>1. Items(<<>>)
  BY DEF Items
<1> QED BY <1>1, ItemProper, SizesAreNumbers, WeighsNothing DEF WriteString

(* So it is written. *)
LEMMA StringWeighs ==
  ASSUME NEW condition, NEW tag, NEW s
  PROVE  Weighs(If(condition, WriteString(tag, s)), SizeIf(condition, StringSize(s)))
BY StringItem, WeighsIf, SizesAreNumbers

(* A message within a message is announced with what it takes. *)
LEMMA SubItem ==
  ASSUME NEW tag, NEW s, NEW n, Weighs(s, n)
  PROVE  ProperItem(WriteSub(tag, s)) /\ WriteSub(tag, s).size = 1 + LengthDelimitedSize(n)
<1>1. Items(<<>>)
  BY DEF Items
<1>2. Proper(s) /\ Bytes(s) = n /\ LengthDelimitedSize(n) \in Nat
  BY SizesAreNumbers DEF Weighs
<1> QED BY <1>1, <1>2, ItemProper DEF WriteSub

(* Each element is written as one item. *)
LEMMA WeighsEach ==
  ASSUME NEW c, NEW xs, Items(xs), NEW s, s = [i \in DOMAIN xs |-> s[i]],
         \A i \in DOMAIN xs : ProperItem(s[i]) /\ s[i].size = SizeOf(c, xs[i])
  PROVE  Weighs(s, Total(c, xs))
<1> DEFINE n == Len(xs)
<1>1. n \in Nat /\ DOMAIN xs = 1..n
  BY ItemsDomain
<1> HIDE DEF n
<1>2. Items(s) /\ DOMAIN s = 1..n
  BY <1>1, ItemsOf
<1>3. Proper(s)
  BY <1>1, <1>2 DEF Proper
<1>4. \A i \in 1..n : SizeOf("items", s[i]) = SizeOf(c, xs[i])
  <2>1. \A x : SizeOf("items", x) = x.size
    BY DEF SizeOf
  <2> QED BY <1>1, <2>1
<1>5. Total("items", s) = Total(c, xs)
  BY <1>1, <1>2, <1>4, TotalSame
<1> QED BY <1>3, <1>5, ProperSized

(* Packed numbers *)
LEMMA PackedWeighs ==
  ASSUME NEW tag, NEW xs, Items(xs)
  PROVE  Weighs(WritePacked(tag, xs, SizeNumber), SizePacked(xs, SizeNumber))
<1> DEFINE n == PackedBytes(xs, SizeNumber)
<1>1. \A i \in DOMAIN xs : SizeOf("numbers", xs[i]) \in Nat
  BY SizesAreNumbers DEF SizeOf, SizeNumber
<1>2. n \in Nat
  BY <1>1, TotalIsNumber, NumbersAdd DEF Sized
<1> HIDE DEF n
<1> DEFINE it == Item(tag, xs, "", <<>>, LengthDelimitedSize(n))
<1>3. ProperItem(it) /\ it.size = 1 + LengthDelimitedSize(n)
  BY <1>2, SizesAreNumbers, ItemProper, WeighsNothing
<1> HIDE DEF it
<1>4. Weighs(If(xs # <<>>, it), SizeIf(xs # <<>>, LengthDelimitedSize(n)))
  BY <1>2, <1>3, SizesAreNumbers, WeighsIf
<1> QED BY Zenon, <1>4 DEF WritePacked, SizePacked, n, it

(* and packed doubles. *)
LEMMA DoublesWeigh ==
  ASSUME NEW tag, NEW xs, Items(xs)
  PROVE  Weighs(WritePacked(tag, xs, EightBytes), SizePacked(xs, EightBytes))
<1> DEFINE n == PackedBytes(xs, EightBytes)
<1>1. \A i \in DOMAIN xs : SizeOf("doubles", xs[i]) \in Nat
  BY SizesAreNumbers DEF SizeOf
<1>2. n \in Nat
  BY <1>1, TotalIsNumber, DoublesAdd DEF Sized
<1> HIDE DEF n
<1> DEFINE it == Item(tag, xs, "", <<>>, LengthDelimitedSize(n))
<1>3. ProperItem(it) /\ it.size = 1 + LengthDelimitedSize(n)
  BY <1>2, SizesAreNumbers, ItemProper, WeighsNothing
<1> HIDE DEF it
<1>4. Weighs(If(xs # <<>>, it), SizeIf(xs # <<>>, LengthDelimitedSize(n)))
  BY <1>2, <1>3, SizesAreNumbers, WeighsIf
<1> QED BY Zenon, <1>4 DEF WritePacked, SizePacked, n, it

(* Several strings. *)
LEMMA StringsWeigh ==
  ASSUME NEW tag, NEW ss, Items(ss)
  PROVE  Weighs(WriteStrings(tag, ss), SizeStrings(ss))
<1> DEFINE s == WriteStrings(tag, ss)
<1>1. s = [i \in DOMAIN ss |-> s[i]] /\ \A i \in DOMAIN ss : s[i] = WriteString(tag, ss[i])
  BY DEF WriteStrings
<1> HIDE DEF s
<1>2. \A i \in DOMAIN ss : ProperItem(s[i]) /\ s[i].size = SizeOf("strings", ss[i])
  BY <1>1, StringItem DEF SizeOf
<1> QED BY <1>1, <1>2, WeighsEach, StringsAdd DEF s
------------------------------------------------------------------------------
(* A set that is put in order has none of its elements twice. *)
LEMMA OrderedOnce ==
  ASSUME NEW S, IsFiniteSet(S), NEW order, NEW n \in Nat, DOMAIN Ordered(S, order) = 1..n
  PROVE  \A i, j \in 1..n : Ordered(S, order)[i] = Ordered(S, order)[j] => i = j
<1> DEFINE m == Cardinality(S)
           f == SetToSeq(S)
<1>1. m \in Nat /\ \E g \in [1..m -> S] : IsInjective(g)
  BY FS_CardinalityType DEF ExistsBijection, Bijection, Injection
<1>2. f \in [1..m -> S] /\ IsInjective(f)
  BY <1>1 DEF SetToSeq
<1>3. DOMAIN f = 1..m /\ Len(f) = m /\ \A i, j \in 1..m : f[i] = f[j] => i = j
  <2>1. f \in Seq(S)
    BY <1>1, <1>2
  <2> QED BY <1>1, <1>2, <2>1 DEF IsInjective
<1> HIDE DEF f, m
<1>4. CASE order = "forth"
  <2>1. Ordered(S, order) = f
    BY <1>4 DEF Ordered, f
  <2>2. 1..m = 1..n
    BY <1>3, <2>1
  <2> QED BY <1>3, <2>1, <2>2
<1>5. CASE order # "forth"
  <2> DEFINE g == [i \in 1..m |-> f[(m - i) + 1]]
  <2>1. Ordered(S, order) = g
    BY <1>3, <1>5 DEF Ordered, Reverse, f
  <2>2. 1..m = 1..n
    BY <2>1
  <2>3. \A i \in 1..m : (m - i) + 1 \in 1..m /\ g[i] = f[(m - i) + 1]
    BY <1>1
  <2> HIDE DEF g
  <2>4. \A i, j \in 1..m : (m - i) + 1 = (m - j) + 1 => i = j
    BY <1>1
  <2>5. \A i, j \in 1..m : g[i] = g[j] => i = j
    BY <1>3, <2>3, <2>4
  <2> QED BY <2>1, <2>2, <2>5
<1> QED BY <1>4, <1>5

(* Adding a value to a sum, if its key is in the part that is summed up.   *)
AddWithin(part, n, key) == n + IF key \in part.keys THEN part.size[key] ELSE 0

(* The sums over parts of a map are folds of this, in the order of keys.   *)
Parts == INSTANCE Folding WITH Step <- AddWithin

Part(size, t, keys) == Parts!Fold([keys |-> t, size |-> size], 0, keys)

(* Its sums on the way. *)
Counts(size, t, keys, n, sum) ==
  /\ sum[0] = 0
  /\ \A i \in 1..n : sum[i] = sum[i - 1] + IF keys[i] \in t THEN size[keys[i]] ELSE 0

(* They exist, *)
LEMMA PartReads ==
  ASSUME NEW size, NEW t, NEW keys, NEW n \in Nat, DOMAIN keys = 1..n
  PROVE  \E sum : Counts(size, t, keys, n, sum) /\ Part(size, t, keys) = sum[n]
<1> DEFINE part == [keys |-> t, size |-> size]
<1>1. PICK sum : Parts!Folds(part, 0, keys, n, sum) /\ Part(size, t, keys) = sum[n]
  BY Parts!FoldReads DEF Part
<1>2. \A k, key : AddWithin(part, k, key) = k + IF key \in t THEN size[key] ELSE 0
  BY DEF AddWithin
<1> HIDE DEF part
<1>3. \A i \in 0..n : sum[i] = IF i = 0 THEN 0 ELSE AddWithin(part, sum[i - 1], keys[i])
  BY <1>1 DEF Parts!Folds
<1>4. 0 \in 0..n /\ \A i \in 1..n : i \in 0..n /\ i # 0
  OBVIOUS
<1>5. Counts(size, t, keys, n, sum)
  BY <1>2, <1>3, <1>4 DEF Counts
<1> QED BY <1>1, <1>5

(* they are numbers, *)
LEMMA PartIsNumber ==
  ASSUME NEW size, NEW t, NEW keys, NEW n \in Nat,
         \A i \in 1..n : size[keys[i]] \in Nat,
         NEW sum, Counts(size, t, keys, n, sum)
  PROVE  \A i \in 0..n : sum[i] \in Nat
<1> DEFINE T == {i \in Nat : i <= n => sum[i] \in Nat}
<1>1. 0 \in T
  BY DEF Counts
<1>2. ASSUME NEW i \in Nat, i \in T
      PROVE  i + 1 \in T
  <2> SUFFICES ASSUME i + 1 <= n PROVE sum[i + 1] \in Nat
    OBVIOUS
  <2>1. i + 1 \in 1..n /\ (i + 1) - 1 = i /\ sum[i] \in Nat
    BY <1>2
  <2> DEFINE y == IF keys[i + 1] \in t THEN size[keys[i + 1]] ELSE 0
  <2>2. sum[i + 1] = sum[i] + y /\ y \in Nat
    BY <2>1 DEF Counts
  <2> QED BY <2>1, <2>2
<1> HIDE DEF T
<1>3. T = Nat
  BY <1>1, <1>2, Parts!NatInherits DEF T
<1>4. \A i \in 0..n : i \in T /\ i <= n
  BY <1>3
<1> QED BY <1>4 DEF T

(* nothing has the sum of nothing, *)
LEMMA PartOfNothing ==
  ASSUME NEW size, NEW keys, NEW n \in Nat, DOMAIN keys = 1..n
  PROVE  Part(size, {}, keys) = 0
<1>1. PICK sum : Counts(size, {}, keys, n, sum) /\ Part(size, {}, keys) = sum[n]
  BY PartReads
<1> DEFINE T == {i \in Nat : i <= n => sum[i] = 0}
<1>2. 0 \in T
  BY <1>1 DEF Counts
<1>3. ASSUME NEW i \in Nat, i \in T
      PROVE  i + 1 \in T
  <2> SUFFICES ASSUME i + 1 <= n PROVE sum[i + 1] = 0
    OBVIOUS
  <2>1. i + 1 \in 1..n /\ (i + 1) - 1 = i /\ sum[i] = 0
    BY <1>3
  <2> QED BY <1>1, <2>1 DEF Counts
<1> HIDE DEF T
<1>4. T = Nat
  BY <1>2, <1>3, Parts!NatInherits DEF T
<1>5. n \in T
  BY <1>4
<1> QED BY <1>1, <1>5 DEF T

(* and one key more has the sum with its value added, wherever it stands.  *)
LEMMA PartMore ==
  ASSUME NEW size, NEW t, NEW keys, NEW n \in Nat, DOMAIN keys = 1..n,
         \A i \in 1..n : size[keys[i]] \in Nat,
         \A i \in 1..n : \A k \in 1..n : keys[i] = keys[k] => i = k,
         NEW key \in t, \E i \in 1..n : keys[i] = key
  PROVE  Part(size, t, keys) = size[key] + Part(size, t \ {key}, keys)
<1>0. PICK j \in 1..n : keys[j] = key
  OBVIOUS
<1> DEFINE u == t \ {key}
           x == size[key]
<1>1. PICK sum : Counts(size, t, keys, n, sum) /\ Part(size, t, keys) = sum[n]
  BY PartReads
<1>2. PICK less : Counts(size, u, keys, n, less) /\ Part(size, u, keys) = less[n]
  BY PartReads
<1>3. x \in Nat /\ \A i \in 0..n : less[i] \in Nat
  BY <1>2, PartIsNumber
<1>4. \A i \in 1..n : keys[i] \in u <=> (keys[i] \in t /\ i # j)
  BY <1>0
<1> HIDE DEF u, x
<1> DEFINE T == {i \in Nat : i <= n => sum[i] = less[i] + IF i >= j THEN x ELSE 0}
<1>5. 0 \in T
  BY <1>1, <1>2 DEF Counts
<1>6. ASSUME NEW i \in Nat, i \in T
      PROVE  i + 1 \in T
  <2> SUFFICES ASSUME i + 1 <= n PROVE sum[i + 1] = less[i + 1] + IF i + 1 >= j THEN x ELSE 0
    OBVIOUS
  <2> DEFINE y == size[keys[i + 1]]
  <2>1. /\ i + 1 \in 1..n /\ (i + 1) - 1 = i /\ less[i] \in Nat /\ less[i + 1] \in Nat
        /\ sum[i] = less[i] + IF i >= j THEN x ELSE 0
    BY <1>3, <1>6
  <2>2. /\ sum[i + 1] = sum[i] + IF keys[i + 1] \in t THEN y ELSE 0
        /\ less[i + 1] = less[i] + IF keys[i + 1] \in u THEN y ELSE 0
    BY <1>1, <1>2, <2>1 DEF Counts
  <2>3. y \in Nat
    BY <2>1
  <2>4. CASE i + 1 = j
    <3>1. keys[i + 1] \in t /\ keys[i + 1] \notin u /\ y = x
      BY <1>0, <1>4, <2>1, <2>4 DEF x
    <3> HIDE DEF y
    <3> QED BY <1>3, <2>1, <2>2, <2>3, <2>4, <3>1
  <2>5. CASE i + 1 # j
    <3>1. keys[i + 1] \in u <=> keys[i + 1] \in t
      BY <1>4, <2>1, <2>5
    <3>2. i + 1 >= j <=> i >= j
      BY <2>5
    <3> HIDE DEF y
    <3> QED BY <1>3, <2>1, <2>2, <2>3, <3>1, <3>2
  <2> QED BY <2>4, <2>5
<1> HIDE DEF T
<1>7. T = Nat
  BY <1>5, <1>6, Parts!NatInherits DEF T
<1>8. n \in T /\ n \in 0..n /\ n >= j
  BY <1>7
<1>9. sum[n] = less[n] + x /\ less[n] \in Nat
  BY <1>3, <1>8 DEF T
<1> QED BY <1>1, <1>2, <1>3, <1>9 DEF u, x

(* The element of a set that a sum goes on with. *)
AnyOf(t) == CHOOSE x \in t : TRUE

(* iter is the function that MapThenSumSet() is defined by.                *)
Sweeps(S, size, iter) ==
  iter = [t \in SUBSET S |-> IF t = {} THEN 0 ELSE size[AnyOf(t)] + iter[t \ {AnyOf(t)}]]

(* What such sums come to, whichever element is taken first.               *)
LEMMA SweepSums ==
  ASSUME NEW S, IsFiniteSet(S), NEW size, \A x \in S : size[x] \in Nat, NEW order
  PROVE  (CHOOSE iter : Sweeps(S, size, iter))[S] = Part(size, S, Ordered(S, order))
<1> DEFINE keys == Ordered(S, order)
           W(t) == Part(size, t, keys)
<1>1. PICK n \in Nat : /\ DOMAIN keys = 1..n
                       /\ \A i \in 1..n : keys[i] \in S
                       /\ \A x \in S : \E i \in 1..n : keys[i] = x
  BY OrderedRange
<1>2. \A i, j \in 1..n : keys[i] = keys[j] => i = j
  BY <1>1, OrderedOnce
<1> HIDE DEF keys
<1>3. \A i \in 1..n : size[keys[i]] \in Nat
  BY <1>1
<1>4. W({}) = 0
  BY <1>1, PartOfNothing
<1>5. ASSUME NEW t \in SUBSET S, t # {}
      PROVE  W(t) = size[AnyOf(t)] + W(t \ {AnyOf(t)})
  <2>1. AnyOf(t) \in t /\ AnyOf(t) \in S
    BY <1>5 DEF AnyOf
  <2>2. \E j \in 1..n : keys[j] = AnyOf(t)
    BY <1>1, <2>1
  <2> QED BY <1>1, <1>2, <1>3, <2>1, <2>2, PartMore
<1> DEFINE w == [t \in SUBSET S |-> W(t)]
<1>6. Sweeps(S, size, w)
  <2> SUFFICES ASSUME NEW t \in SUBSET S
               PROVE  W(t) = IF t = {} THEN 0 ELSE size[AnyOf(t)] + w[t \ {AnyOf(t)}]
    BY DEF Sweeps
  <2>1. w[t \ {AnyOf(t)}] = W(t \ {AnyOf(t)})
    OBVIOUS
  <2> HIDE DEF w, W
  <2> QED BY <1>4, <1>5, <2>1
<1> DEFINE h == CHOOSE iter : Sweeps(S, size, iter)
<1>7. Sweeps(S, size, h)
  BY <1>6
<1> HIDE DEF h, w, W
<1>8. \A t \in SUBSET S : h[t] = IF t = {} THEN 0 ELSE size[AnyOf(t)] + h[t \ {AnyOf(t)}]
  BY <1>7 DEF Sweeps
<1> DEFINE T == {i \in Nat : \A t \in SUBSET S : Cardinality(t) = i => h[t] = W(t)}
<1>9. \A t \in SUBSET S : IsFiniteSet(t)
  BY FS_Subset
<1>10. 0 \in T
  <2>1. \A t \in SUBSET S : Cardinality(t) = 0 => t = {}
    BY <1>9, FS_EmptySet
  <2> QED BY <1>4, <1>8, <2>1
<1>11. ASSUME NEW i \in Nat, i \in T
       PROVE  i + 1 \in T
  <2> SUFFICES ASSUME NEW t \in SUBSET S, Cardinality(t) = i + 1 PROVE h[t] = W(t)
    OBVIOUS
  <2>1. t # {}
    BY FS_EmptySet
  <2>2. AnyOf(t) \in t
    BY <2>1 DEF AnyOf
  <2>3. Cardinality(t \ {AnyOf(t)}) = (i + 1) - 1
    BY <1>9, <2>2, FS_RemoveElement
  <2>4. t \ {AnyOf(t)} \in SUBSET S /\ Cardinality(t \ {AnyOf(t)}) = i
    BY <2>3
  <2>5. h[t \ {AnyOf(t)}] = W(t \ {AnyOf(t)})
    BY <1>11, <2>4
  <2> HIDE DEF T
  <2> QED BY <1>5, <1>8, <2>1, <2>5
<1> HIDE DEF T
<1>12. T = Nat
  BY <1>10, <1>11, Parts!NatInherits DEF T
<1>13. Cardinality(S) \in T /\ S \in SUBSET S
  BY <1>12, FS_CardinalityType
<1>14. h[S] = W(S)
  BY <1>13 DEF T
<1> QED BY <1>14 DEF h, W, keys

(* Items that each take what the value of a key is take the sum of them.   *)
LEMMA PartTotal ==
  ASSUME NEW size, NEW S, NEW keys, NEW n \in Nat, DOMAIN keys = 1..n,
         \A i \in 1..n : keys[i] \in S,
         NEW s, DOMAIN s = 1..n, \A i \in 1..n : s[i].size = size[keys[i]]
  PROVE  Total("items", s) = Part(size, S, keys)
<1>1. PICK sum : Counts(size, S, keys, n, sum) /\ Part(size, S, keys) = sum[n]
  BY PartReads
<1>2. PICK too : Adds("items", s, n, too) /\ Total("items", s) = too[n]
  BY TotalReads
<1>3. \A x : SizeOf("items", x) = x.size
  BY DEF SizeOf
<1> DEFINE T == {i \in Nat : i <= n => sum[i] = too[i]}
<1>4. 0 \in T
  BY <1>1, <1>2 DEF Counts, Adds
<1>5. ASSUME NEW i \in Nat, i \in T
      PROVE  i + 1 \in T
  <2> SUFFICES ASSUME i + 1 <= n PROVE sum[i + 1] = too[i + 1]
    OBVIOUS
  <2>1. i + 1 \in 1..n /\ (i + 1) - 1 = i /\ sum[i] = too[i]
    BY <1>5
  <2>2. sum[i + 1] = sum[i] + size[keys[i + 1]]
    BY <1>1, <2>1 DEF Counts
  <2>3. too[i + 1] = too[i] + size[keys[i + 1]]
    BY <1>2, <1>3, <2>1 DEF Adds
  <2> QED BY <2>1, <2>2, <2>3
<1> HIDE DEF T
<1>6. T = Nat
  BY <1>4, <1>5, Parts!NatInherits DEF T
<1>7. n \in T
  BY <1>6
<1> QED BY <1>1, <1>2, <1>7 DEF T

(* Entries that are written one by one take what the sum comes to.         *)
LEMMA MapWeighs ==
  ASSUME NEW S, IsFiniteSet(S), NEW size, \A x \in S : size[x] \in Nat, NEW order,
         NEW s, s = [i \in DOMAIN Ordered(S, order) |-> s[i]],
         \A i \in DOMAIN Ordered(S, order) :
           ProperItem(s[i]) /\ s[i].size = size[Ordered(S, order)[i]]
  PROVE  Weighs(s, (CHOOSE iter : Sweeps(S, size, iter))[S])
<1>1. PICK n \in Nat : /\ DOMAIN Ordered(S, order) = 1..n
                       /\ \A i \in 1..n : Ordered(S, order)[i] \in S
  BY OrderedRange
<1>2. s = [i \in 1..n |-> s[i]] /\ \A i \in 1..n : ProperItem(s[i])
  BY <1>1
<1>3. Part(size, S, Ordered(S, order)) = (CHOOSE iter : Sweeps(S, size, iter))[S]
  BY SweepSums
<1>4. Items(s) /\ DOMAIN s = 1..n
  BY <1>2, ItemsOf
<1>5. Proper(s)
  BY <1>2, <1>4 DEF Proper
<1>6. Total("items", s) = Part(size, S, Ordered(S, order))
  BY <1>1, <1>4, PartTotal
<1> QED BY <1>3, <1>5, <1>6, ProperSized
------------------------------------------------------------------------------
(* What an entry takes. *)
EntrySize(k, n) == 1 + LengthDelimitedSize(1 + StringSize(k) + 1 + n)

(* Two items. *)
LEMMA TwoElements ==
  ASSUME NEW x, NEW y
  PROVE  <<x>> \o <<y>> = <<x, y>>
<1> DEFINE s == <<x>>
           t == <<y>>
           u == s \o t
           v == <<x, y>>
<1>1. Items(s) /\ DOMAIN s = 1..1 /\ s[1] = x /\ Items(t) /\ DOMAIN t = 1..1 /\ t[1] = y
  BY OneElement
<1>2. v = [i \in 1..2 |-> v[i]] /\ v[1] = x /\ v[2] = y
  OBVIOUS
<1> HIDE DEF s, t, v
<1>3. /\ Items(u) /\ Len(s) \in Nat /\ DOMAIN s = 1..Len(s)
      /\ Len(t) \in Nat /\ DOMAIN t = 1..Len(t)
      /\ DOMAIN u = 1..(Len(s) + Len(t))
      /\ \A i \in 1..(Len(s) + Len(t)) : u[i] = IF i <= Len(s) THEN s[i] ELSE t[i - Len(s)]
  BY <1>1, Concatenated
<1> HIDE DEF u
<1>4. Len(s) = 1 /\ Len(t) = 1
  BY <1>1, <1>3
<1>5. DOMAIN u = 1..2 /\ u[1] = x /\ u[2] = y
  <2>1. 1 + 1 = 2 /\ 1 \in 1..2 /\ 2 \in 1..2 /\ 2 - 1 = 1 /\ 1 <= 1 /\ ~(2 <= 1)
    OBVIOUS
  <2> QED BY <1>1, <1>3, <1>4, <2>1
<1>6. u = [i \in 1..2 |-> u[i]]
  <2>1. \E S : u \in Seq(S)
    BY <1>3 DEF Items
  <2> QED BY <1>5, <2>1
<1>7. u = v
  BY <1>2, <1>5, <1>6
<1> QED BY <1>7 DEF u, s, t, v

(* An entry is written as its key and its value. *)
LEMMA EntryWeighs ==
  ASSUME NEW tag, NEW k, NEW it, ProperItem(it), NEW n \in Nat, it.size = 1 + n
  PROVE  LET e == WriteSub(tag, <<WriteString(10, k), it>>)
         IN  ProperItem(e) /\ e.size = EntrySize(k, n) /\ e.size \in Nat
<1> DEFINE key == WriteString(10, k)
           l == StringSize(k)
<1>1. Weighs(<<key>>, 1 + l) /\ Weighs(<<it>>, 1 + n) /\ l \in Nat
  <2>1. ProperItem(key) /\ key.size = 1 + l
    BY StringItem
  <2> HIDE DEF key
  <2> QED BY <2>1, WeighsOne, SizesAreNumbers
<1> HIDE DEF key, l
<1>2. Weighs(<<key, it>>, (1 + l) + (1 + n))
  <2>1. Weighs(<<key>> \o <<it>>, (1 + l) + (1 + n))
    BY <1>1, WeighsBoth
  <2> QED BY <2>1, TwoElements
<1>3. (1 + l) + (1 + n) = 1 + l + 1 + n /\ 1 + l + 1 + n \in Nat
  BY <1>1
<1> DEFINE s == <<key, it>>
<1>4. Weighs(s, 1 + l + 1 + n)
  BY <1>2, <1>3
<1> HIDE DEF s
<1>5. /\ ProperItem(WriteSub(tag, s))
      /\ WriteSub(tag, s).size = 1 + LengthDelimitedSize(1 + l + 1 + n)
      /\ LengthDelimitedSize(1 + l + 1 + n) \in Nat
  BY <1>3, <1>4, SubItem, SizesAreNumbers
<1> QED BY <1>5 DEF EntrySize, s, key, l
------------------------------------------------------------------------------
(* A number is an item too. *)
LEMMA NumberItem ==
  ASSUME NEW tag, NEW n
  PROVE  ProperItem(WriteVarint(tag, n)) /\ WriteVarint(tag, n).size = 1 + VarintSize(n)
<1>1. Items(<<n>>) /\ Proper(<<>>) /\ VarintSize(n) \in Nat
  BY OneElement, WeighsNothing, SizesAreNumbers
<1> QED BY <1>1, ItemProper DEF WriteVarint

(* What a value of a map takes without its tag. *)
ValueSize(v, x) ==
  CASE v = "Number"                   -> VarintSize(x)
    [] v = "HandshakeMessage_Sensors" -> LengthDelimitedSize(SizeHandshakeMessage_Sensors(x))
    [] v = "HandshakeMessage_Object"  -> LengthDelimitedSize(SizeHandshakeMessage_Object(x))
    [] v = "ControlMessage_Object"    -> LengthDelimitedSize(SizeControlMessage_Object(x))
    [] v = "SensorMessage_Sensors"    -> LengthDelimitedSize(SizeSensorMessage_Sensors(x))
    [] v = "SensorMessage_Object"     -> LengthDelimitedSize(SizeSensorMessage_Object(x))

(* What the entries of a map take. *)
EntrySizes(v, map) == [k \in DOMAIN map |-> EntrySize(k, ValueSize(v, map[k]))]

(* What a map takes: the sum, in some order. *)
MapSize(v, map) ==
  (CHOOSE iter : Sweeps(DOMAIN map, EntrySizes(v, map), iter))[DOMAIN map]

(* So it is written, if each value is what it takes. *)
LEMMA ValuesWeigh ==
  ASSUME NEW v, NEW map, IsMap(map), NEW tag, NEW order, NEW value,
         \A k \in DOMAIN map : /\ ProperItem(value[k]) /\ ValueSize(v, map[k]) \in Nat
                               /\ value[k].size = 1 + ValueSize(v, map[k])
  PROVE  Weighs([i \in DOMAIN Ordered(DOMAIN map, order) |->
                   LET k == Ordered(DOMAIN map, order)[i]
                   IN  WriteSub(tag, <<WriteString(10, k), value[k]>>)], MapSize(v, map))
<1> DEFINE s == [i \in DOMAIN Ordered(DOMAIN map, order) |->
                   LET k == Ordered(DOMAIN map, order)[i]
                   IN  WriteSub(tag, <<WriteString(10, k), value[k]>>)]
           S == DOMAIN map
           size == EntrySizes(v, map)
<1>1. IsFiniteSet(S)
  BY DEF IsMap
<1>2. /\ s = [i \in DOMAIN Ordered(S, order) |-> s[i]]
      /\ \A i \in DOMAIN Ordered(S, order) :
           s[i] = WriteSub(tag, <<WriteString(10, Ordered(S, order)[i]),
                           value[Ordered(S, order)[i]]>>)
  OBVIOUS
<1>3. ASSUME NEW k \in S
      PROVE  LET e == WriteSub(tag, <<WriteString(10, k), value[k]>>)
             IN  ProperItem(e) /\ e.size = size[k] /\ size[k] \in Nat
  <2>1. size[k] = EntrySize(k, ValueSize(v, map[k]))
    BY DEF EntrySizes
  <2> QED BY <2>1, EntryWeighs
<1>4. PICK n \in Nat : /\ DOMAIN Ordered(S, order) = 1..n
                       /\ \A i \in 1..n : Ordered(S, order)[i] \in S
  BY <1>1, OrderedRange
<1> HIDE DEF size, s, S
<1>5. \A i \in DOMAIN Ordered(S, order) :
        ProperItem(s[i]) /\ s[i].size = size[Ordered(S, order)[i]]
  BY <1>2, <1>3, <1>4
<1>6. Weighs(s, (CHOOSE iter : Sweeps(S, size, iter))[S])
  BY <1>1, <1>2, <1>3, <1>5, MapWeighs
<1> QED BY <1>6 DEF MapSize, size, s, S

(* These are the sizes of the maps of the model: of numbers, *)
LEMMA NumberMapSize ==
  ASSUME NEW map
  PROVE  SizeMap(map, VarintSize)
           = MapSize("Number", map)
<1> DEFINE S == DOMAIN map
           size == EntrySizes("Number", map)
           Took(k) == 1 + LengthDelimitedSize(1 + StringSize(k) + 1 + VarintSize(map[k]))
           Own(iter) == iter = [t \in SUBSET S |->
             IF t = {} THEN 0
             ELSE Took(CHOOSE x \in t : TRUE) + iter[t \ {CHOOSE x \in t : TRUE}]]
<1>1. SizeMap(map, VarintSize)
        = (CHOOSE iter : Own(iter))[S]
  BY Zenon DEF SizeMap, MapThenSumSet, MapThenFoldSet
<1>2. \A k \in S : size[k] = Took(k)
  BY DEF EntrySizes, EntrySize, ValueSize
<1>3. \A t \in SUBSET S : t # {} => (CHOOSE x \in t : TRUE) \in S
  OBVIOUS
<1> HIDE DEF Took, size, S
<1>4. \A iter : Own(iter) <=> Sweeps(S, size, iter)
  BY <1>2, <1>3 DEF Sweeps, AnyOf
<1> HIDE DEF Own
<1>5. (CHOOSE iter : Own(iter)) = (CHOOSE iter : Sweeps(S, size, iter))
  BY <1>4
<1> QED BY Zenon, <1>1, <1>5 DEF MapSize, S, size

(* of lists of types, *)
LEMMA HandshakeMessage_SensorsMapSize ==
  ASSUME NEW map
  PROVE  SizeMap(map, LAMBDA v : LengthDelimitedSize(SizeHandshakeMessage_Sensors(v)))
           = MapSize("HandshakeMessage_Sensors", map)
<1> DEFINE S == DOMAIN map
           size == EntrySizes("HandshakeMessage_Sensors", map)
           Took(k) == 1 + LengthDelimitedSize(1 + StringSize(k) + 1
                        + LengthDelimitedSize(SizeHandshakeMessage_Sensors(map[k])))
           Own(iter) == iter = [t \in SUBSET S |->
             IF t = {} THEN 0
             ELSE Took(CHOOSE x \in t : TRUE) + iter[t \ {CHOOSE x \in t : TRUE}]]
<1>1. SizeMap(map, LAMBDA v : LengthDelimitedSize(SizeHandshakeMessage_Sensors(v)))
        = (CHOOSE iter : Own(iter))[S]
  BY Zenon DEF SizeMap, MapThenSumSet, MapThenFoldSet
<1>2. \A k \in S : size[k] = Took(k)
  BY DEF EntrySizes, EntrySize, ValueSize
<1>3. \A t \in SUBSET S : t # {} => (CHOOSE x \in t : TRUE) \in S
  OBVIOUS
<1> HIDE DEF Took, size, S
<1>4. \A iter : Own(iter) <=> Sweeps(S, size, iter)
  BY <1>2, <1>3 DEF Sweeps, AnyOf
<1> HIDE DEF Own
<1>5. (CHOOSE iter : Own(iter)) = (CHOOSE iter : Sweeps(S, size, iter))
  BY <1>4
<1> QED BY Zenon, <1>1, <1>5 DEF MapSize, S, size

(* of descriptions, *)
LEMMA HandshakeMessage_ObjectMapSize ==
  ASSUME NEW map
  PROVE  SizeMap(map, LAMBDA v : LengthDelimitedSize(SizeHandshakeMessage_Object(v)))
           = MapSize("HandshakeMessage_Object", map)
<1> DEFINE S == DOMAIN map
           size == EntrySizes("HandshakeMessage_Object", map)
           Took(k) == 1 + LengthDelimitedSize(1 + StringSize(k) + 1
                        + LengthDelimitedSize(SizeHandshakeMessage_Object(map[k])))
           Own(iter) == iter = [t \in SUBSET S |->
             IF t = {} THEN 0
             ELSE Took(CHOOSE x \in t : TRUE) + iter[t \ {CHOOSE x \in t : TRUE}]]
<1>1. SizeMap(map, LAMBDA v : LengthDelimitedSize(SizeHandshakeMessage_Object(v)))
        = (CHOOSE iter : Own(iter))[S]
  BY Zenon DEF SizeMap, MapThenSumSet, MapThenFoldSet
<1>2. \A k \in S : size[k] = Took(k)
  BY DEF EntrySizes, EntrySize, ValueSize
<1>3. \A t \in SUBSET S : t # {} => (CHOOSE x \in t : TRUE) \in S
  OBVIOUS
<1> HIDE DEF Took, size, S
<1>4. \A iter : Own(iter) <=> Sweeps(S, size, iter)
  BY <1>2, <1>3 DEF Sweeps, AnyOf
<1> HIDE DEF Own
<1>5. (CHOOSE iter : Own(iter)) = (CHOOSE iter : Sweeps(S, size, iter))
  BY <1>4
<1> QED BY Zenon, <1>1, <1>5 DEF MapSize, S, size

(* of what robots are told, *)
LEMMA ControlMessage_ObjectMapSize ==
  ASSUME NEW map
  PROVE  SizeMap(map, LAMBDA v : LengthDelimitedSize(SizeControlMessage_Object(v)))
           = MapSize("ControlMessage_Object", map)
<1> DEFINE S == DOMAIN map
           size == EntrySizes("ControlMessage_Object", map)
           Took(k) == 1 + LengthDelimitedSize(1 + StringSize(k) + 1
                        + LengthDelimitedSize(SizeControlMessage_Object(map[k])))
           Own(iter) == iter = [t \in SUBSET S |->
             IF t = {} THEN 0
             ELSE Took(CHOOSE x \in t : TRUE) + iter[t \ {CHOOSE x \in t : TRUE}]]
<1>1. SizeMap(map, LAMBDA v : LengthDelimitedSize(SizeControlMessage_Object(v)))
        = (CHOOSE iter : Own(iter))[S]
  BY Zenon DEF SizeMap, MapThenSumSet, MapThenFoldSet
<1>2. \A k \in S : size[k] = Took(k)
  BY DEF EntrySizes, EntrySize, ValueSize
<1>3. \A t \in SUBSET S : t # {} => (CHOOSE x \in t : TRUE) \in S
  OBVIOUS
<1> HIDE DEF Took, size, S
<1>4. \A iter : Own(iter) <=> Sweeps(S, size, iter)
  BY <1>2, <1>3 DEF Sweeps, AnyOf
<1> HIDE DEF Own
<1>5. (CHOOSE iter : Own(iter)) = (CHOOSE iter : Sweeps(S, size, iter))
  BY <1>4
<1> QED BY Zenon, <1>1, <1>5 DEF MapSize, S, size

(* of lists of sensors, *)
LEMMA SensorMessage_SensorsMapSize ==
  ASSUME NEW map
  PROVE  SizeMap(map, LAMBDA v : LengthDelimitedSize(SizeSensorMessage_Sensors(v)))
           = MapSize("SensorMessage_Sensors", map)
<1> DEFINE S == DOMAIN map
           size == EntrySizes("SensorMessage_Sensors", map)
           Took(k) == 1 + LengthDelimitedSize(1 + StringSize(k) + 1
                        + LengthDelimitedSize(SizeSensorMessage_Sensors(map[k])))
           Own(iter) == iter = [t \in SUBSET S |->
             IF t = {} THEN 0
             ELSE Took(CHOOSE x \in t : TRUE) + iter[t \ {CHOOSE x \in t : TRUE}]]
<1>1. SizeMap(map, LAMBDA v : LengthDelimitedSize(SizeSensorMessage_Sensors(v)))
        = (CHOOSE iter : Own(iter))[S]
  BY Zenon DEF SizeMap, MapThenSumSet, MapThenFoldSet
<1>2. \A k \in S : size[k] = Took(k)
  BY DEF EntrySizes, EntrySize, ValueSize
<1>3. \A t \in SUBSET S : t # {} => (CHOOSE x \in t : TRUE) \in S
  OBVIOUS
<1> HIDE DEF Took, size, S
<1>4. \A iter : Own(iter) <=> Sweeps(S, size, iter)
  BY <1>2, <1>3 DEF Sweeps, AnyOf
<1> HIDE DEF Own
<1>5. (CHOOSE iter : Own(iter)) = (CHOOSE iter : Sweeps(S, size, iter))
  BY <1>4
<1> QED BY Zenon, <1>1, <1>5 DEF MapSize, S, size

(* and of what robots tell. *)
LEMMA SensorMessage_ObjectMapSize ==
  ASSUME NEW map
  PROVE  SizeMap(map, LAMBDA v : LengthDelimitedSize(SizeSensorMessage_Object(v)))
           = MapSize("SensorMessage_Object", map)
<1> DEFINE S == DOMAIN map
           size == EntrySizes("SensorMessage_Object", map)
           Took(k) == 1 + LengthDelimitedSize(1 + StringSize(k) + 1
                        + LengthDelimitedSize(SizeSensorMessage_Object(map[k])))
           Own(iter) == iter = [t \in SUBSET S |->
             IF t = {} THEN 0
             ELSE Took(CHOOSE x \in t : TRUE) + iter[t \ {CHOOSE x \in t : TRUE}]]
<1>1. SizeMap(map, LAMBDA v : LengthDelimitedSize(SizeSensorMessage_Object(v)))
        = (CHOOSE iter : Own(iter))[S]
  BY Zenon DEF SizeMap, MapThenSumSet, MapThenFoldSet
<1>2. \A k \in S : size[k] = Took(k)
  BY DEF EntrySizes, EntrySize, ValueSize
<1>3. \A t \in SUBSET S : t # {} => (CHOOSE x \in t : TRUE) \in S
  OBVIOUS
<1> HIDE DEF Took, size, S
<1>4. \A iter : Own(iter) <=> Sweeps(S, size, iter)
  BY <1>2, <1>3 DEF Sweeps, AnyOf
<1> HIDE DEF Own
<1>5. (CHOOSE iter : Own(iter)) = (CHOOSE iter : Sweeps(S, size, iter))
  BY <1>4
<1> QED BY Zenon, <1>1, <1>5 DEF MapSize, S, size

(* And these take what they are announced with: maps of numbers, *)
LEMMA NumberMapWeighs ==
  ASSUME NEW map, IsMap(map), NEW tag, NEW order
  PROVE  Weighs(WriteMap(tag, map, order, LAMBDA v : WriteVarint(16, v)),
                SizeMap(map, VarintSize))
<1> DEFINE value == [k \in DOMAIN map |-> WriteVarint(16, map[k])]
           s == [i \in DOMAIN Ordered(DOMAIN map, order) |->
                   LET k == Ordered(DOMAIN map, order)[i]
                   IN  WriteSub(tag, <<WriteString(10, k), value[k]>>)]
<1>1. WriteMap(tag, map, order, LAMBDA v : WriteVarint(16, v)) = s
  <2>1. PICK n \in Nat : /\ DOMAIN Ordered(DOMAIN map, order) = 1..n
                         /\ \A i \in 1..n : Ordered(DOMAIN map, order)[i] \in DOMAIN map
    BY OrderedRange DEF IsMap
  <2>2. \A i \in 1..n : value[Ordered(DOMAIN map, order)[i]]
                         = WriteVarint(16, map[Ordered(DOMAIN map, order)[i]])
    BY <2>1
  <2> HIDE DEF value
  <2> QED BY <2>1, <2>2 DEF WriteMap
<1>2. ASSUME NEW k \in DOMAIN map
      PROVE  /\ ProperItem(value[k]) /\ ValueSize("Number", map[k]) \in Nat
             /\ value[k].size = 1 + ValueSize("Number", map[k])
  <2>1. value[k] = WriteVarint(16, map[k]) /\ ValueSize("Number", map[k]) = VarintSize(map[k])
    BY DEF ValueSize
  <2> HIDE DEF value
  <2> QED BY <2>1, NumberItem, SizesAreNumbers
<1> HIDE DEF value
<1>3. Weighs(s, MapSize("Number", map))
  BY <1>2, ValuesWeigh
<1> HIDE DEF s
<1>4. SizeMap(map, VarintSize) = MapSize("Number", map)
  BY NumberMapSize
<1> QED BY Zenon, <1>1, <1>3, <1>4

(* of lists of types, *)
LEMMA HandshakeMessage_SensorsMapWeighs ==
  ASSUME NEW map, IsMap(map), NEW tag, NEW order,
         \A k \in DOMAIN map :
           Weighs(WriteHandshakeMessage_Sensors(map[k]), SizeHandshakeMessage_Sensors(map[k]))
  PROVE  Weighs(WriteMap(tag, map, order, LAMBDA v :
                         WriteSub(18, WriteHandshakeMessage_Sensors(v))),
                SizeMap(map, LAMBDA v : LengthDelimitedSize(SizeHandshakeMessage_Sensors(v))))
<1> DEFINE value == [k \in DOMAIN map |-> WriteSub(18, WriteHandshakeMessage_Sensors(map[k]))]
           s == [i \in DOMAIN Ordered(DOMAIN map, order) |->
                   LET k == Ordered(DOMAIN map, order)[i]
                   IN  WriteSub(tag, <<WriteString(10, k), value[k]>>)]
<1>1. WriteMap(tag, map, order, LAMBDA v : WriteSub(18, WriteHandshakeMessage_Sensors(v))) = s
  <2>1. PICK n \in Nat : /\ DOMAIN Ordered(DOMAIN map, order) = 1..n
                         /\ \A i \in 1..n : Ordered(DOMAIN map, order)[i] \in DOMAIN map
    BY OrderedRange DEF IsMap
  <2>2. \A i \in 1..n : value[Ordered(DOMAIN map, order)[i]]
                         = WriteSub(18, WriteHandshakeMessage_Sensors(map[Ordered(DOMAIN map,
                                                                                  order)[i]]))
    BY <2>1
  <2> HIDE DEF value
  <2> QED BY <2>1, <2>2 DEF WriteMap
<1>2. ASSUME NEW k \in DOMAIN map
      PROVE  /\ ProperItem(value[k]) /\ ValueSize("HandshakeMessage_Sensors", map[k]) \in Nat
             /\ value[k].size = 1 + ValueSize("HandshakeMessage_Sensors", map[k])
  <2> DEFINE t == WriteHandshakeMessage_Sensors(map[k])
             n == SizeHandshakeMessage_Sensors(map[k])
  <2>1. /\ value[k] = WriteSub(18, t)
        /\ ValueSize("HandshakeMessage_Sensors", map[k]) = LengthDelimitedSize(n)
    BY DEF ValueSize
  <2>2. Weighs(t, n) /\ n \in Nat
    BY DEF Weighs
  <2> HIDE DEF t, n, value
  <2> QED BY <2>1, <2>2, SubItem, SizesAreNumbers
<1> HIDE DEF value
<1>3. Weighs(s, MapSize("HandshakeMessage_Sensors", map))
  BY <1>2, ValuesWeigh
<1> HIDE DEF s
<1>4. SizeMap(map, LAMBDA v : LengthDelimitedSize(SizeHandshakeMessage_Sensors(v)))
        = MapSize("HandshakeMessage_Sensors", map)
  BY HandshakeMessage_SensorsMapSize
<1> QED BY Zenon, <1>1, <1>3, <1>4

(* The descriptions of objects, *)
HandshakeMessage_ObjectEntries(tag, map, order) ==
  WriteMap(tag, map, order,
           LAMBDA v : WriteSub(18, WriteHandshakeMessage_Object(v, order)))

(* of descriptions, *)
LEMMA HandshakeMessage_ObjectMapWeighs ==
  ASSUME NEW map, IsMap(map), NEW tag, NEW order,
         \A k \in DOMAIN map :
           Weighs(WriteHandshakeMessage_Object(map[k], order), SizeHandshakeMessage_Object(map[k]))
  PROVE  Weighs(HandshakeMessage_ObjectEntries(tag, map, order),
                SizeMap(map, LAMBDA v : LengthDelimitedSize(SizeHandshakeMessage_Object(v))))
<1> DEFINE value == [k \in DOMAIN map |-> WriteSub(18, WriteHandshakeMessage_Object(map[k], order))]
           s == [i \in DOMAIN Ordered(DOMAIN map, order) |->
                   LET k == Ordered(DOMAIN map, order)[i]
                   IN  WriteSub(tag, <<WriteString(10, k), value[k]>>)]
<1>1. WriteMap(tag, map, order, LAMBDA v : WriteSub(18, WriteHandshakeMessage_Object(v, order))) = s
  <2>1. PICK n \in Nat : /\ DOMAIN Ordered(DOMAIN map, order) = 1..n
                         /\ \A i \in 1..n : Ordered(DOMAIN map, order)[i] \in DOMAIN map
    BY OrderedRange DEF IsMap
  <2>2. \A i \in 1..n : value[Ordered(DOMAIN map, order)[i]]
                         = WriteSub(18, WriteHandshakeMessage_Object(map[Ordered(DOMAIN map,
                                                                                 order)[i]], order))
    BY <2>1
  <2> HIDE DEF value
  <2> QED BY <2>1, <2>2 DEF WriteMap
<1>2. ASSUME NEW k \in DOMAIN map
      PROVE  /\ ProperItem(value[k]) /\ ValueSize("HandshakeMessage_Object", map[k]) \in Nat
             /\ value[k].size = 1 + ValueSize("HandshakeMessage_Object", map[k])
  <2> DEFINE t == WriteHandshakeMessage_Object(map[k], order)
             n == SizeHandshakeMessage_Object(map[k])
  <2>1. /\ value[k] = WriteSub(18, t)
        /\ ValueSize("HandshakeMessage_Object", map[k]) = LengthDelimitedSize(n)
    BY DEF ValueSize
  <2>2. Weighs(t, n) /\ n \in Nat
    BY DEF Weighs
  <2> HIDE DEF t, n, value
  <2> QED BY <2>1, <2>2, SubItem, SizesAreNumbers
<1> HIDE DEF value
<1>3. Weighs(s, MapSize("HandshakeMessage_Object", map))
  BY <1>2, ValuesWeigh
<1> HIDE DEF s
<1>4. SizeMap(map, LAMBDA v : LengthDelimitedSize(SizeHandshakeMessage_Object(v)))
        = MapSize("HandshakeMessage_Object", map)
  BY HandshakeMessage_ObjectMapSize
<1> QED BY Zenon, <1>1, <1>3, <1>4 DEF HandshakeMessage_ObjectEntries

(* what they are told *)
ControlMessage_ObjectEntries(tag, map, order) ==
  WriteMap(tag, map, order,
           LAMBDA v : WriteSub(18, WriteControlMessage_Object(v, order)))

(* of what robots are told, *)
LEMMA ControlMessage_ObjectMapWeighs ==
  ASSUME NEW map, IsMap(map), NEW tag, NEW order,
         \A k \in DOMAIN map :
           Weighs(WriteControlMessage_Object(map[k], order), SizeControlMessage_Object(map[k]))
  PROVE  Weighs(ControlMessage_ObjectEntries(tag, map, order),
                SizeMap(map, LAMBDA v : LengthDelimitedSize(SizeControlMessage_Object(v))))
<1> DEFINE value == [k \in DOMAIN map |-> WriteSub(18, WriteControlMessage_Object(map[k], order))]
           s == [i \in DOMAIN Ordered(DOMAIN map, order) |->
                   LET k == Ordered(DOMAIN map, order)[i]
                   IN  WriteSub(tag, <<WriteString(10, k), value[k]>>)]
<1>1. WriteMap(tag, map, order, LAMBDA v : WriteSub(18, WriteControlMessage_Object(v, order))) = s
  <2>1. PICK n \in Nat : /\ DOMAIN Ordered(DOMAIN map, order) = 1..n
                         /\ \A i \in 1..n : Ordered(DOMAIN map, order)[i] \in DOMAIN map
    BY OrderedRange DEF IsMap
  <2>2. \A i \in 1..n : value[Ordered(DOMAIN map, order)[i]]
                         = WriteSub(18, WriteControlMessage_Object(map[Ordered(DOMAIN map,
                                                                               order)[i]], order))
    BY <2>1
  <2> HIDE DEF value
  <2> QED BY <2>1, <2>2 DEF WriteMap
<1>2. ASSUME NEW k \in DOMAIN map
      PROVE  /\ ProperItem(value[k]) /\ ValueSize("ControlMessage_Object", map[k]) \in Nat
             /\ value[k].size = 1 + ValueSize("ControlMessage_Object", map[k])
  <2> DEFINE t == WriteControlMessage_Object(map[k], order)
             n == SizeControlMessage_Object(map[k])
  <2>1. /\ value[k] = WriteSub(18, t)
        /\ ValueSize("ControlMessage_Object", map[k]) = LengthDelimitedSize(n)
    BY DEF ValueSize
  <2>2. Weighs(t, n) /\ n \in Nat
    BY DEF Weighs
  <2> HIDE DEF t, n, value
  <2> QED BY <2>1, <2>2, SubItem, SizesAreNumbers
<1> HIDE DEF value
<1>3. Weighs(s, MapSize("ControlMessage_Object", map))
  BY <1>2, ValuesWeigh
<1> HIDE DEF s
<1>4. SizeMap(map, LAMBDA v : LengthDelimitedSize(SizeControlMessage_Object(v)))
        = MapSize("ControlMessage_Object", map)
  BY ControlMessage_ObjectMapSize
<1> QED BY Zenon, <1>1, <1>3, <1>4 DEF ControlMessage_ObjectEntries

(* of lists of sensors, *)
LEMMA SensorMessage_SensorsMapWeighs ==
  ASSUME NEW map, IsMap(map), NEW tag, NEW order,
         \A k \in DOMAIN map :
           Weighs(WriteSensorMessage_Sensors(map[k]), SizeSensorMessage_Sensors(map[k]))
  PROVE  Weighs(WriteMap(tag, map, order, LAMBDA v : WriteSub(18, WriteSensorMessage_Sensors(v))),
                SizeMap(map, LAMBDA v : LengthDelimitedSize(SizeSensorMessage_Sensors(v))))
<1> DEFINE value == [k \in DOMAIN map |-> WriteSub(18, WriteSensorMessage_Sensors(map[k]))]
           s == [i \in DOMAIN Ordered(DOMAIN map, order) |->
                   LET k == Ordered(DOMAIN map, order)[i]
                   IN  WriteSub(tag, <<WriteString(10, k), value[k]>>)]
<1>1. WriteMap(tag, map, order, LAMBDA v : WriteSub(18, WriteSensorMessage_Sensors(v))) = s
  <2>1. PICK n \in Nat : /\ DOMAIN Ordered(DOMAIN map, order) = 1..n
                         /\ \A i \in 1..n : Ordered(DOMAIN map, order)[i] \in DOMAIN map
    BY OrderedRange DEF IsMap
  <2>2. \A i \in 1..n : value[Ordered(DOMAIN map, order)[i]]
                         = WriteSub(18, WriteSensorMessage_Sensors(map[Ordered(DOMAIN map,
                                                                               order)[i]]))
    BY <2>1
  <2> HIDE DEF value
  <2> QED BY <2>1, <2>2 DEF WriteMap
<1>2. ASSUME NEW k \in DOMAIN map
      PROVE  /\ ProperItem(value[k]) /\ ValueSize("SensorMessage_Sensors", map[k]) \in Nat
             /\ value[k].size = 1 + ValueSize("SensorMessage_Sensors", map[k])
  <2> DEFINE t == WriteSensorMessage_Sensors(map[k])
             n == SizeSensorMessage_Sensors(map[k])
  <2>1. /\ value[k] = WriteSub(18, t)
        /\ ValueSize("SensorMessage_Sensors", map[k]) = LengthDelimitedSize(n)
    BY DEF ValueSize
  <2>2. Weighs(t, n) /\ n \in Nat
    BY DEF Weighs
  <2> HIDE DEF t, n, value
  <2> QED BY <2>1, <2>2, SubItem, SizesAreNumbers
<1> HIDE DEF value
<1>3. Weighs(s, MapSize("SensorMessage_Sensors", map))
  BY <1>2, ValuesWeigh
<1> HIDE DEF s
<1>4. SizeMap(map, LAMBDA v : LengthDelimitedSize(SizeSensorMessage_Sensors(v)))
        = MapSize("SensorMessage_Sensors", map)
  BY SensorMessage_SensorsMapSize
<1> QED BY Zenon, <1>1, <1>3, <1>4

(* and what they tell, as they are written. *)
SensorMessage_ObjectEntries(tag, map, order) ==
  WriteMap(tag, map, order,
           LAMBDA v : WriteSub(18, WriteSensorMessage_Object(v, order)))

(* and of what robots tell. *)
LEMMA SensorMessage_ObjectMapWeighs ==
  ASSUME NEW map, IsMap(map), NEW tag, NEW order,
         \A k \in DOMAIN map :
           Weighs(WriteSensorMessage_Object(map[k], order), SizeSensorMessage_Object(map[k]))
  PROVE  Weighs(SensorMessage_ObjectEntries(tag, map, order),
                SizeMap(map, LAMBDA v : LengthDelimitedSize(SizeSensorMessage_Object(v))))
<1> DEFINE value == [k \in DOMAIN map |-> WriteSub(18, WriteSensorMessage_Object(map[k], order))]
           s == [i \in DOMAIN Ordered(DOMAIN map, order) |->
                   LET k == Ordered(DOMAIN map, order)[i]
                   IN  WriteSub(tag, <<WriteString(10, k), value[k]>>)]
<1>1. WriteMap(tag, map, order, LAMBDA v : WriteSub(18, WriteSensorMessage_Object(v, order))) = s
  <2>1. PICK n \in Nat : /\ DOMAIN Ordered(DOMAIN map, order) = 1..n
                         /\ \A i \in 1..n : Ordered(DOMAIN map, order)[i] \in DOMAIN map
    BY OrderedRange DEF IsMap
  <2>2. \A i \in 1..n : value[Ordered(DOMAIN map, order)[i]]
                         = WriteSub(18, WriteSensorMessage_Object(map[Ordered(DOMAIN map,
                                                                              order)[i]], order))
    BY <2>1
  <2> HIDE DEF value
  <2> QED BY <2>1, <2>2 DEF WriteMap
<1>2. ASSUME NEW k \in DOMAIN map
      PROVE  /\ ProperItem(value[k]) /\ ValueSize("SensorMessage_Object", map[k]) \in Nat
             /\ value[k].size = 1 + ValueSize("SensorMessage_Object", map[k])
  <2> DEFINE t == WriteSensorMessage_Object(map[k], order)
             n == SizeSensorMessage_Object(map[k])
  <2>1. /\ value[k] = WriteSub(18, t)
        /\ ValueSize("SensorMessage_Object", map[k]) = LengthDelimitedSize(n)
    BY DEF ValueSize
  <2>2. Weighs(t, n) /\ n \in Nat
    BY DEF Weighs
  <2> HIDE DEF t, n, value
  <2> QED BY <2>1, <2>2, SubItem, SizesAreNumbers
<1> HIDE DEF value
<1>3. Weighs(s, MapSize("SensorMessage_Object", map))
  BY <1>2, ValuesWeigh
<1> HIDE DEF s
<1>4. SizeMap(map, LAMBDA v : LengthDelimitedSize(SizeSensorMessage_Object(v)))
        = MapSize("SensorMessage_Object", map)
  BY SensorMessage_ObjectMapSize
<1> QED BY Zenon, <1>1, <1>3, <1>4 DEF SensorMessage_ObjectEntries
------------------------------------------------------------------------------
(* What stands in field f of the classes that are read from a stream.      *)
InVec3(f, y) == (f = "unknown" => Proper(y)) /\ (f = "arr" => Items(y))

FitsVec3(m) == DOMAIN m = DOMAIN NewSensorMessage_Vec3 /\ \A f \in DOMAIN m : InVec3(f, m[f])

(* A truth value is written as one byte. *)
FitsSensor(m) ==
  /\ DOMAIN m = DOMAIN NewSensorMessage_Sensor
  /\ Proper(m["unknown"]) /\ FitsVec3(m["vec"])
  /\ m["case"] = BoolCase => m["num"] \in {0, 1}

InSensors(f, y) ==
  /\ f = "unknown" => Proper(y)
  /\ f = "sensor" => Items(y) /\ \A i \in DOMAIN y : FitsSensor(y[i])

FitsSensors(m) ==
  DOMAIN m = DOMAIN NewSensorMessage_Sensors /\ \A f \in DOMAIN m : InSensors(f, m[f])

InSensorObject(f, y) ==
  /\ f = "unknown" => Proper(y)
  /\ f \in {"angleSensors", "angularVelocitySensors", "torqueSensors"} => Items(y)
  /\ f = "objectSensors" => Items(y) /\ \A i \in DOMAIN y : FitsSensor(y[i])
  /\ f = "forceSensors" => Items(y) /\ \A i \in DOMAIN y : FitsVec3(y[i])
  /\ f = "sensors" => IsMap(y) /\ \A k \in DOMAIN y : FitsSensors(y[k])

FitsSensorObject(m) ==
  DOMAIN m = DOMAIN NewSensorMessage_Object /\ \A f \in DOMAIN m : InSensorObject(f, m[f])

InNumber(f, y) == f = "unknown" => Proper(y)

FitsVariables(m) ==
  DOMAIN m = DOMAIN NewSensorMessage_SimulationVariables /\ \A f \in DOMAIN m : InNumber(f, m[f])

FitsSettings(m) ==
  DOMAIN m = DOMAIN NewHandshakeMessage_SimulationSettings /\ \A f \in DOMAIN m : InNumber(f, m[f])

InSensorMessage(f, y) ==
  /\ f = "unknown" => Proper(y)
  /\ f = "simVars" => Items(y) /\ \A i \in DOMAIN y : FitsVariables(y[i])
  /\ f = "objects" => IsMap(y) /\ \A k \in DOMAIN y : FitsSensorObject(y[k])

FitsSensorMessage(m) ==
  DOMAIN m = DOMAIN NewSensorMessage /\ \A f \in DOMAIN m : InSensorMessage(f, m[f])

InTypes(f, y) == (f = "unknown" => Proper(y)) /\ (f = "types" => Items(y))

FitsTypes(m) == /\ DOMAIN m = DOMAIN NewHandshakeMessage_Sensors
                /\ \A f \in DOMAIN m : InTypes(f, m[f])

InHandshakeObject(f, y) ==
  /\ f = "unknown" => Proper(y)
  /\ f \in {"controlsInOrder", "jointSensors", "objectSensors", "jointSensorsInOrder",
            "controlTypesInOrder"} => Items(y)
  /\ f = "controlEvents" => IsMap(y)
  /\ f = "sensors" => IsMap(y) /\ \A k \in DOMAIN y : FitsTypes(y[k])

FitsHandshakeObject(m) ==
  DOMAIN m = DOMAIN NewHandshakeMessage_Object /\ \A f \in DOMAIN m : InHandshakeObject(f, m[f])

InHandshakeMessage(f, y) ==
  /\ f = "unknown" => Proper(y)
  /\ f = "simSettings" => Items(y) /\ \A i \in DOMAIN y : FitsSettings(y[i])
  /\ f = "objects" => IsMap(y) /\ \A k \in DOMAIN y : FitsHandshakeObject(y[k])

FitsHandshakeMessage(m) ==
  DOMAIN m = DOMAIN NewHandshakeMessage /\ \A f \in DOMAIN m : InHandshakeMessage(f, m[f])

(* The same of a class by its name; numbers are as they may. *)
Fits(c, m) ==
  CASE c = "Number"                              -> TRUE
    [] c = "SensorMessage_Vec3"                  -> FitsVec3(m)
    [] c = "SensorMessage_Sensor"                -> FitsSensor(m)
    [] c = "SensorMessage_Sensors"               -> FitsSensors(m)
    [] c = "SensorMessage_Object"                -> FitsSensorObject(m)
    [] c = "SensorMessage_SimulationVariables"   -> FitsVariables(m)
    [] c = "SensorMessage"                       -> FitsSensorMessage(m)
    [] c = "HandshakeMessage_Sensors"            -> FitsTypes(m)
    [] c = "HandshakeMessage_Object"             -> FitsHandshakeObject(m)
    [] c = "HandshakeMessage_SimulationSettings" -> FitsSettings(m)
    [] c = "HandshakeMessage"                    -> FitsHandshakeMessage(m)

(* By their names. *)
LEMMA FitsByName ==
  ASSUME NEW m
  PROVE  /\ Fits("Number", m)
         /\ Fits("SensorMessage_Vec3", m) <=> FitsVec3(m)
         /\ Fits("SensorMessage_Sensor", m) <=> FitsSensor(m)
         /\ Fits("SensorMessage_Sensors", m) <=> FitsSensors(m)
         /\ Fits("SensorMessage_Object", m) <=> FitsSensorObject(m)
         /\ Fits("SensorMessage_SimulationVariables", m) <=> FitsVariables(m)
         /\ Fits("SensorMessage", m) <=> FitsSensorMessage(m)
         /\ Fits("HandshakeMessage_Sensors", m) <=> FitsTypes(m)
         /\ Fits("HandshakeMessage_Object", m) <=> FitsHandshakeObject(m)
         /\ Fits("HandshakeMessage_SimulationSettings", m) <=> FitsSettings(m)
         /\ Fits("HandshakeMessage", m) <=> FitsHandshakeMessage(m)
BY DEF Fits

(* New messages fit, *)
LEMMA NewFits ==
  /\ FitsVec3(NewSensorMessage_Vec3) /\ FitsSensor(NewSensorMessage_Sensor)
  /\ FitsSensors(NewSensorMessage_Sensors) /\ FitsSensorObject(NewSensorMessage_Object)
  /\ FitsVariables(NewSensorMessage_SimulationVariables) /\ FitsSensorMessage(NewSensorMessage)
  /\ FitsTypes(NewHandshakeMessage_Sensors) /\ FitsHandshakeObject(NewHandshakeMessage_Object)
  /\ FitsSettings(NewHandshakeMessage_SimulationSettings)
  /\ FitsHandshakeMessage(NewHandshakeMessage)
<1>1. Proper(<<>>) /\ Items(<<>>) /\ DOMAIN <<>> = {} /\ IsMap(NoEntries) /\ DOMAIN NoEntries = {}
  BY WeighsNothing, NoEntriesIsMap DEF Proper
<1>2. FitsVec3(NewSensorMessage_Vec3)
  BY <1>1 DEF FitsVec3, InVec3, NewSensorMessage_Vec3
<1>3. FitsSensor(NewSensorMessage_Sensor)
  BY <1>1, <1>2 DEF FitsSensor, NewSensorMessage_Sensor, BoolCase
<1>4. FitsSensors(NewSensorMessage_Sensors)
  BY <1>1 DEF FitsSensors, InSensors, NewSensorMessage_Sensors
<1>5. FitsSensorObject(NewSensorMessage_Object)
  BY <1>1 DEF FitsSensorObject, InSensorObject, NewSensorMessage_Object
<1>6. FitsVariables(NewSensorMessage_SimulationVariables)
  BY <1>1 DEF FitsVariables, InNumber, NewSensorMessage_SimulationVariables
<1>7. FitsSensorMessage(NewSensorMessage)
  BY <1>1 DEF FitsSensorMessage, InSensorMessage, NewSensorMessage
<1>8. FitsTypes(NewHandshakeMessage_Sensors)
  BY <1>1 DEF FitsTypes, InTypes, NewHandshakeMessage_Sensors
<1>9. FitsHandshakeObject(NewHandshakeMessage_Object)
  BY <1>1 DEF FitsHandshakeObject, InHandshakeObject, NewHandshakeMessage_Object
<1>10. FitsSettings(NewHandshakeMessage_SimulationSettings)
  BY <1>1 DEF FitsSettings, InNumber, NewHandshakeMessage_SimulationSettings
<1>11. FitsHandshakeMessage(NewHandshakeMessage)
  BY <1>1 DEF FitsHandshakeMessage, InHandshakeMessage, NewHandshakeMessage
<1> QED BY <1>2, <1>3, <1>4, <1>5, <1>6, <1>7, <1>8, <1>9, <1>10, <1>11

(* Class c makes of what fits what fits. *)
KeepsFit(c) == \A m, it : Fits(c, m) /\ ProperItem(it) => Fits(c, TurnOf(c, m, it).msg)

(* So does its parser, wherever it stops. *)
LEMMA FoldFits ==
  ASSUME NEW c, KeepsFit(c), NEW m, Fits(c, m), NEW s, Proper(s)
  PROVE  Fits(c, Every!Fold(c, Parsed(m, TRUE), s).msg)
<1> DEFINE base == Parsed(m, TRUE)
           n == Len(s)
<1>1. n \in Nat /\ DOMAIN s = 1..n /\ \A i \in 1..n : ProperItem(s[i])
  BY ItemsDomain DEF Proper
<1>2. base.msg = m
  BY DEF Parsed
<1> HIDE DEF n, base
<1>3. PICK read : Every!Folds(c, base, s, n, read) /\ Every!Fold(c, base, s) = read[n]
  BY <1>1, Every!FoldReads
<1> DEFINE T == {i \in Nat : i <= n => Fits(c, read[i].msg)}
<1>4. 0 \in T
  <2>1. read[0] = base
    BY <1>1, <1>3 DEF Every!Folds
  <2> QED BY <1>2, <2>1
<1>5. ASSUME NEW i \in Nat, i \in T
      PROVE  i + 1 \in T
  <2> SUFFICES ASSUME i + 1 <= n PROVE Fits(c, read[i + 1].msg)
    OBVIOUS
  <2> DEFINE r == read[i]
             it == s[i + 1]
  <2>1. /\ i + 1 \in 1..n /\ i + 1 \in 0..n /\ i + 1 # 0 /\ (i + 1) - 1 = i
        /\ Fits(c, r.msg) /\ ProperItem(it)
    BY <1>1, <1>5
  <2>2. read[i + 1] = At(c, r, it)
    BY <1>3, <2>1 DEF Every!Folds
  <2> HIDE DEF r, it
  <2>3. At(c, r, it).msg = r.msg \/ At(c, r, it) = TurnOf(c, r.msg, it)
    BY DEF At
  <2> QED BY <2>1, <2>2, <2>3 DEF KeepsFit
<1> HIDE DEF T
<1>6. T = Nat
  BY <1>4, <1>5, Every!NatInherits DEF T
<1>7. n \in T
  BY <1>1, <1>6
<1>8. Fits(c, read[n].msg)
  <2>1. n <= n
    BY <1>1
  <2> QED BY <1>7, <2>1 DEF T
<1>9. Fits(c, Every!Fold(c, base, s).msg)
  BY <1>3, <1>8
<1> QED BY <1>9 DEF base

(* Values of entries, v being their class or "Number", do too. *)
LEMMA EntryFits ==
  ASSUME NEW v, v = "Number" \/ KeepsFit(v), NEW new, Fits(v, new), NEW s, Proper(s)
  PROVE  Fits(v, Entries!Fold(v, Base(new), s).msg.value)
<1> DEFINE n == Len(s)
           E(e) == DOMAIN e = {"key", "value"} /\ Fits(v, e.value)
<1>1. n \in Nat /\ DOMAIN s = 1..n /\ \A i \in 1..n : ProperItem(s[i])
  BY ItemsDomain DEF Proper
<1>2. E(Base(new).msg)
  BY DEF Base, Parsed
<1> HIDE DEF n
<1>3. PICK read : Entries!Folds(v, Base(new), s, n, read) /\ Entries!Fold(v, Base(new), s) = read[n]
  BY <1>1, Entries!FoldReads
<1>4. ASSUME NEW e, E(e), NEW x, ProperItem(x)
      PROVE  E(ValueOf(v, e, x).msg)
  <2>1. CASE v = "Number"
    <3>1. \A y : Fits("Number", y)
      BY FitsByName
    <3>2. DOMAIN NumberValue(e, x).msg = {"key", "value"}
      BY <1>4 DEF NumberValue, Parsed
    <3> QED BY <2>1, <3>1, <3>2 DEF ValueOf
  <2>2. CASE v # "Number" /\ x.tag = 18
    <3> DEFINE r == Every!Fold(v, Parsed(e.value, TRUE), x.sub)
    <3>1. Proper(x.sub)
      BY <1>4, ProperParts
    <3>2. Fits(v, r.msg)
      BY <1>4, <2>2, <3>1, FoldFits
    <3>3. ValueOf(v, e, x) = Parsed([e EXCEPT !.value = r.msg], r.ok /\ x.whole)
      BY <2>2 DEF ValueOf
    <3> HIDE DEF r
    <3>4. ValueOf(v, e, x).msg = [e EXCEPT !.value = r.msg]
      BY <3>3 DEF Parsed
    <3> QED BY <1>4, <3>2, <3>4
  <2>3. CASE v # "Number" /\ x.tag # 18
    BY <1>4, <2>3 DEF ValueOf, Parsed
  <2> QED BY <2>1, <2>2, <2>3
<1>5. ASSUME NEW r, E(r.msg), NEW x, ProperItem(x)
      PROVE  E(AtEntry(v, r, x).msg)
  <2>1. E(ValueOf(v, r.msg, x).msg)
    BY <1>4, <1>5
  <2>2. E(SetString(r.msg, "key", x).msg)
    BY <1>5 DEF SetString, Parsed
  <2>3. E(Parsed(r.msg, FALSE).msg)
    BY <1>5 DEF Parsed
  <2> HIDE DEF E
  <2> QED BY <1>5, <2>1, <2>2, <2>3 DEF AtEntry
<1> HIDE DEF E
<1> DEFINE T == {i \in Nat : i <= n => E(read[i].msg)}
<1>6. 0 \in T
  <2>1. read[0] = Base(new)
    BY <1>1, <1>3 DEF Entries!Folds
  <2> QED BY <1>2, <2>1
<1>7. ASSUME NEW i \in Nat, i \in T
      PROVE  i + 1 \in T
  <2> SUFFICES ASSUME i + 1 <= n PROVE E(read[i + 1].msg)
    OBVIOUS
  <2>1. /\ i + 1 \in 1..n /\ i + 1 \in 0..n /\ i + 1 # 0 /\ (i + 1) - 1 = i
        /\ E(read[i].msg) /\ ProperItem(s[i + 1])
    BY <1>1, <1>7
  <2>2. read[i + 1] = AtEntry(v, read[i], s[i + 1])
    BY <1>3, <2>1 DEF Entries!Folds
  <2> QED BY <1>5, <2>1, <2>2
<1> HIDE DEF T
<1>8. T = Nat
  BY <1>6, <1>7, Entries!NatInherits DEF T
<1>9. n \in T
  BY <1>1, <1>8
<1> QED BY <1>1, <1>3, <1>9 DEF T, E
------------------------------------------------------------------------------
(* What stands in a field: a number or a string, items, several of them,   *)
(* messages of class v, or a map to such.                                  *)
Holds(form, v, y) ==
  CASE form = "any"      -> TRUE
    [] form = "items"    -> Proper(y)
    [] form = "list"     -> Items(y)
    [] form = "messages" -> Items(y) /\ \A i \in DOMAIN y : Fits(v, y[i])
    [] form = "map"      -> IsMap(y) /\ \A k \in DOMAIN y : Fits(v, y[k])

(* Class c has a field f for it. *)
Takes(c, f, form, v) ==
  \A m : Fits(c, m) => /\ f \in DOMAIN m /\ Holds(form, v, m[f])
                       /\ \A y : Holds(form, v, y) => Fits(c, [m EXCEPT ![f] = y])

(* A number or a string that is read *)
LEMMA KeepsNumber ==
  ASSUME NEW c, NEW f, NEW v, Takes(c, f, "any", v), NEW m, Fits(c, m), NEW it,
         TurnOf(c, m, it) = SetNumber(m, f, it)
  PROVE  Fits(c, TurnOf(c, m, it).msg)
<1>1. TurnOf(c, m, it).msg = [m EXCEPT ![f] = it.num[1]]
  BY DEF SetNumber, Parsed
<1>2. \A y : Holds("any", v, y)
  BY DEF Holds
<1> QED BY <1>1, <1>2 DEF Takes

(* and numbers *)
LEMMA KeepsNumbers ==
  ASSUME NEW c, NEW f, NEW v, Takes(c, f, "list", v), NEW m, Fits(c, m), NEW it, ProperItem(it),
         TurnOf(c, m, it) = AddNumbers(m, f, it)
  PROVE  Fits(c, TurnOf(c, m, it).msg)
<1> DEFINE y == m[f] \o it.num
<1>1. TurnOf(c, m, it).msg = [m EXCEPT ![f] = y]
  BY DEF AddNumbers, Parsed
<1>2. Items(m[f]) /\ Items(it.num)
  BY ProperParts DEF Takes, Holds
<1>3. Items(y)
  BY <1>2, Concatenated
<1> HIDE DEF y
<1>4. Holds("list", v, y)
  BY <1>3 DEF Holds
<1> QED BY <1>1, <1>4 DEF Takes

(* and strings that are added to others, *)
LEMMA KeepsStrings ==
  ASSUME NEW c, NEW f, NEW v, Takes(c, f, "list", v), NEW m, Fits(c, m), NEW it,
         TurnOf(c, m, it) = AddString(m, f, it)
  PROVE  Fits(c, TurnOf(c, m, it).msg)
<1> DEFINE y == Append(m[f], it.str)
<1>1. TurnOf(c, m, it).msg = [m EXCEPT ![f] = y]
  BY DEF AddString, Parsed
<1>2. Items(m[f])
  BY DEF Takes, Holds
<1>3. Items(y)
  BY <1>2, ItemsGrow DEF Grown
<1> HIDE DEF y
<1>4. Holds("list", v, y)
  BY <1>3 DEF Holds
<1> QED BY <1>1, <1>4 DEF Takes

(* what is not known, *)
LEMMA KeepsUnknown ==
  ASSUME NEW c, NEW v, Takes(c, "unknown", "items", v), NEW m, Fits(c, m), NEW it, ProperItem(it),
         TurnOf(c, m, it) = Unknown(m, it)
  PROVE  Fits(c, TurnOf(c, m, it).msg)
<1> DEFINE y == Append(m["unknown"], it)
<1>1. TurnOf(c, m, it).msg = m \/ TurnOf(c, m, it).msg = [m EXCEPT !["unknown"] = y]
  BY DEF Unknown, Parsed
<1>2. Proper(m["unknown"])
  BY DEF Takes, Holds
<1>3. Grown(m["unknown"], it, y)
  BY <1>2, ItemsGrow DEF Proper
<1> HIDE DEF y
<1>4. Proper(y)
  BY <1>2, <1>3 DEF Proper, Grown
<1>5. Holds("items", v, y)
  BY <1>4 DEF Holds
<1> QED BY <1>1, <1>5 DEF Takes

(* messages that are added to others, *)
LEMMA KeepsMessages ==
  ASSUME NEW c, NEW f, NEW v, Takes(c, f, "messages", v), NEW m, Fits(c, m),
         NEW it, ProperItem(it), KeepsFit(v), NEW new, Fits(v, new),
         NEW tag, Collects(c, f, tag, v, new), it.tag = tag
  PROVE  Fits(c, TurnOf(c, m, it).msg)
<1> DEFINE r == Every!Fold(v, Parsed(new, TRUE), it.sub)
           y == Append(m[f], r.msg)
<1>1. Fits(v, r.msg)
  BY ProperParts, FoldFits
<1>2. TurnOf(c, m, it) = Collected(m, f, r, it.whole)
  BY DEF Collects
<1> HIDE DEF r
<1>3. TurnOf(c, m, it).msg = [m EXCEPT ![f] = y]
  BY <1>2 DEF Collected, Parsed
<1>4. Items(m[f]) /\ \A i \in DOMAIN m[f] : Fits(v, m[f][i])
  BY DEF Takes, Holds
<1>5. Grown(m[f], r.msg, y)
  BY <1>4, ItemsGrow
<1> HIDE DEF y
<1>6. Holds("messages", v, y)
  BY <1>1, <1>4, <1>5 DEF Holds, Grown
<1> QED BY <1>3, <1>6 DEF Takes

(* a message within the message, *)
LEMMA KeepsMessage ==
  ASSUME NEW c, NEW f, NEW v, Takes(c, f, "messages", v), NEW m, Fits(c, m),
         NEW it, ProperItem(it), KeepsFit(v), NEW new, Fits(v, new),
         NEW tag, Nests(c, f, tag, v, new), it.tag = tag
  PROVE  Fits(c, TurnOf(c, m, it).msg)
<1> DEFINE x == Mutable(m[f], new)
           r == Every!Fold(v, Parsed(x, TRUE), it.sub)
           y == <<r.msg>>
<1>1. Items(m[f]) /\ \A i \in DOMAIN m[f] : Fits(v, m[f][i])
  BY DEF Takes, Holds
<1>2. Fits(v, x)
  <2>1. m[f] # <<>> => 1 \in DOMAIN m[f]
    BY <1>1, ItemsDomain
  <2> QED BY <1>1, <2>1 DEF Mutable
<1>3. TurnOf(c, m, it) = Nested(m, f, r, it.whole)
  BY DEF Nests
<1> HIDE DEF x
<1>4. Fits(v, r.msg)
  BY <1>2, ProperParts, FoldFits
<1> HIDE DEF r
<1>5. TurnOf(c, m, it).msg = [m EXCEPT ![f] = y]
  BY <1>3 DEF Nested, Parsed
<1>6. Items(y) /\ DOMAIN y = 1..1 /\ y[1] = r.msg
  BY OneElement
<1> HIDE DEF y
<1>7. Holds("messages", v, y)
  BY <1>4, <1>6 DEF Holds
<1> QED BY <1>5, <1>7 DEF Takes

(* and entries of maps keep a message fitting. *)
LEMMA KeepsEntries ==
  ASSUME NEW c, NEW f, NEW v, Takes(c, f, "map", v), NEW m, Fits(c, m),
         NEW it, ProperItem(it), v = "Number" \/ KeepsFit(v), NEW new, Fits(v, new),
         NEW tag, ReadsEntries(c, f, tag, v, new), it.tag = tag
  PROVE  Fits(c, TurnOf(c, m, it).msg)
<1> DEFINE r == Entries!Fold(v, Base(new), it.sub)
           y == With(m[f], r.msg.key, r.msg.value)
<1>1. Fits(v, r.msg.value)
  BY ProperParts, EntryFits
<1>2. TurnOf(c, m, it) = Entry(m, f, r, it.whole)
  BY DEF ReadsEntries
<1> HIDE DEF r
<1>3. TurnOf(c, m, it).msg = m \/ TurnOf(c, m, it).msg = [m EXCEPT ![f] = y]
  BY <1>2 DEF Entry, Parsed
<1>4. IsMap(m[f]) /\ \A k \in DOMAIN m[f] : Fits(v, m[f][k])
  BY DEF Takes, Holds
<1>5. IsMap(y) /\ \A k \in DOMAIN y : y[k] = r.msg.value \/ (k \in DOMAIN m[f] /\ y[k] = m[f][k])
  BY <1>4, MapGrows
<1> HIDE DEF y
<1>6. Holds("map", v, y)
  BY <1>1, <1>4, <1>5 DEF Holds
<1> QED BY <1>3, <1>6 DEF Takes
------------------------------------------------------------------------------
(* What stands in the fields of vectors. *)
LEMMA SensorMessage_Vec3Takes ==
  /\ Takes("SensorMessage_Vec3", "arr", "list", "Number")
  /\ Takes("SensorMessage_Vec3", "unknown", "items", "Number")
<1>1. \A m : Fits("SensorMessage_Vec3", m) <=> FitsVec3(m)
  BY FitsByName
<1>2. Takes("SensorMessage_Vec3", "arr", "list", "Number")
  <2> SUFFICES ASSUME NEW m, FitsVec3(m), NEW y, NEW m2, m2 = [m EXCEPT !["arr"] = y]
               PROVE  /\ "arr" \in DOMAIN m /\ Holds("list", "Number", m["arr"])
                      /\ Holds("list", "Number", y) => FitsVec3(m2)
    BY <1>1 DEF Takes
  <2>1. DOMAIN m = {"arr", "unknown"} /\ \A g \in DOMAIN m : InVec3(g, m[g])
    BY DEF FitsVec3, NewSensorMessage_Vec3
  <2>2. DOMAIN m2 = DOMAIN m /\ \A g \in DOMAIN m : m2[g] = IF g = "arr" THEN y ELSE m[g]
    BY <2>1
  <2>3. \A x : InVec3("arr", x) <=> Holds("list", "Number", x)
    BY FitsByName DEF InVec3, Holds
  <2>4. Holds("list", "Number", y) => \A g \in DOMAIN m : InVec3(g, m2[g])
    BY <2>1, <2>2, <2>3
  <2> QED BY <2>1, <2>2, <2>3, <2>4 DEF FitsVec3
<1>3. Takes("SensorMessage_Vec3", "unknown", "items", "Number")
  <2> SUFFICES ASSUME NEW m, FitsVec3(m), NEW y, NEW m2, m2 = [m EXCEPT !["unknown"] = y]
               PROVE  /\ "unknown" \in DOMAIN m /\ Holds("items", "Number", m["unknown"])
                      /\ Holds("items", "Number", y) => FitsVec3(m2)
    BY <1>1 DEF Takes
  <2>1. DOMAIN m = {"arr", "unknown"} /\ \A g \in DOMAIN m : InVec3(g, m[g])
    BY DEF FitsVec3, NewSensorMessage_Vec3
  <2>2. DOMAIN m2 = DOMAIN m /\ \A g \in DOMAIN m : m2[g] = IF g = "unknown" THEN y ELSE m[g]
    BY <2>1
  <2>3. \A x : InVec3("unknown", x) <=> Holds("items", "Number", x)
    BY FitsByName DEF InVec3, Holds
  <2>4. Holds("items", "Number", y) => \A g \in DOMAIN m : InVec3(g, m2[g])
    BY <2>1, <2>2, <2>3
  <2> QED BY <2>1, <2>2, <2>3, <2>4 DEF FitsVec3
<1> QED BY <1>2, <1>3

(* Their parser keeps that so. *)
LEMMA SensorMessage_Vec3Fits == KeepsFit("SensorMessage_Vec3")
<1> SUFFICES ASSUME NEW m, Fits("SensorMessage_Vec3", m), NEW it, ProperItem(it)
             PROVE  Fits("SensorMessage_Vec3", TurnOf("SensorMessage_Vec3", m, it).msg)
  BY DEF KeepsFit
<1>1. CASE it.tag \in {10, 9}
  <2>1. ReadsNumbers("SensorMessage_Vec3", "arr", 10)
    BY DEF ReadsNumbers, TurnOf, ParseSensorMessage_Vec3
  <2>2. ReadsNumbers("SensorMessage_Vec3", "arr", 9)
    BY DEF ReadsNumbers, TurnOf, ParseSensorMessage_Vec3
  <2>3. TurnOf("SensorMessage_Vec3", m, it) = AddNumbers(m, "arr", it)
    BY <1>1, <2>1, <2>2 DEF ReadsNumbers
  <2> QED BY <2>3, SensorMessage_Vec3Takes, KeepsNumbers
<1>2. CASE it.tag \notin {9, 10}
  <2>1. TurnOf("SensorMessage_Vec3", m, it) = Unknown(m, it)
    BY <1>2 DEF TurnOf, ParseSensorMessage_Vec3
  <2> QED BY <2>1, SensorMessage_Vec3Takes, KeepsUnknown
<1> QED BY <1>1, <1>2

(* A sensor keeps fitting: numbers are made truth values where they are    *)
(* such.                                                                   *)
LEMMA SensorMessage_SensorFits == KeepsFit("SensorMessage_Sensor")
<1> SUFFICES ASSUME NEW m, FitsSensor(m), NEW it, ProperItem(it)
             PROVE  FitsSensor(TurnOf("SensorMessage_Sensor", m, it).msg)
  BY FitsByName DEF KeepsFit
<1> DEFINE m2 == TurnOf("SensorMessage_Sensor", m, it).msg
<1>0. /\ DOMAIN m = {"case", "num", "vec", "unknown"} /\ Proper(m["unknown"]) /\ FitsVec3(m["vec"])
      /\ m["case"] = BoolCase => m["num"] \in {0, 1}
      /\ FitsVec3(NewSensorMessage_Vec3)
  BY NewFits DEF FitsSensor, NewSensorMessage_Sensor
<1>1. CASE it.tag \in DoubleCases \cup {BoolCase}
  <2>1. m2 = SetScalar(m, it.tag, it.num[1])
    <3>1. TurnOf("SensorMessage_Sensor", m, it) = Parsed(SetScalar(m, it.tag, it.num[1]), it.whole)
      BY <1>1, SensorTurn
    <3> QED BY <3>1 DEF Parsed
  <2> HIDE DEF m2
  <2>2. /\ DOMAIN m2 = DOMAIN m /\ m2["unknown"] = m["unknown"]
        /\ m2["vec"] = NewSensorMessage_Vec3
        /\ m2["case"] = BoolCase => m2["num"] = Truth(it.num[1])
    BY <1>0, <2>1 DEF SetScalar
  <2>3. \A x : Truth(x) \in {0, 1}
    BY DEF Truth
  <2>4. FitsSensor(m2)
    BY <1>0, <2>2, <2>3 DEF FitsSensor, NewSensorMessage_Sensor
  <2> QED BY <2>4 DEF m2
<1>2. CASE it.tag \in Vec3Cases
  <2>1. PICK r : /\ r = Every!Fold("SensorMessage_Vec3", Parsed(MutableVec3(m, it.tag), TRUE),
                                   it.sub)
                 /\ TurnOf("SensorMessage_Sensor", m, it)
                      = Parsed(SetVec3(m, it.tag, r.msg), r.ok /\ it.whole)
    BY <1>2, SensorTurn
  <2>2. FitsVec3(MutableVec3(m, it.tag))
    BY <1>0 DEF MutableVec3
  <2>3. FitsVec3(r.msg)
    <3>1. Fits("SensorMessage_Vec3", MutableVec3(m, it.tag)) /\ KeepsFit("SensorMessage_Vec3")
      BY <2>2, FitsByName, SensorMessage_Vec3Fits
    <3>2. Proper(it.sub)
      BY ProperParts
    <3>3. Fits("SensorMessage_Vec3", r.msg)
      BY <2>1, <3>1, <3>2, FoldFits
    <3> QED BY <3>3, FitsByName
  <2>4. m2 = SetVec3(m, it.tag, r.msg)
    BY <2>1 DEF Parsed
  <2> HIDE DEF m2
  <2>5. /\ DOMAIN m2 = DOMAIN m /\ m2["unknown"] = m["unknown"] /\ m2["vec"] = r.msg
        /\ m2["num"] = 0
    BY <1>0, <2>4 DEF SetVec3
  <2>6. FitsSensor(m2)
    BY <1>0, <2>3, <2>5 DEF FitsSensor, NewSensorMessage_Sensor
  <2> QED BY <2>6 DEF m2
<1>3. CASE it.tag \notin DoubleCases \cup {BoolCase} /\ it.tag \notin Vec3Cases
  <2> DEFINE y == Append(m["unknown"], it)
  <2>1. TurnOf("SensorMessage_Sensor", m, it) = Unknown(m, it)
    BY <1>3 DEF TurnOf, ParseSensorMessage_Sensor
  <2>2. m2 = m \/ m2 = [m EXCEPT !["unknown"] = y]
    BY <2>1 DEF Unknown, Parsed
  <2>3. Grown(m["unknown"], it, y)
    BY <1>0, ItemsGrow DEF Proper
  <2> HIDE DEF y, m2
  <2>4. Proper(y)
    BY <1>0, <2>3 DEF Proper, Grown
  <2>5. FitsSensor(m2)
    <3>1. CASE m2 = m
      BY <3>1
    <3>2. CASE m2 = [m EXCEPT !["unknown"] = y]
      <4>1. /\ DOMAIN m2 = DOMAIN m /\ m2["unknown"] = y /\ m2["vec"] = m["vec"]
            /\ m2["case"] = m["case"] /\ m2["num"] = m["num"]
        BY <1>0, <3>2
      <4> QED BY <1>0, <2>4, <4>1 DEF FitsSensor, NewSensorMessage_Sensor
    <3> QED BY <2>2, <3>1, <3>2
  <2> QED BY <2>5 DEF m2
<1> QED BY <1>1, <1>2, <1>3

(* What stands in the fields of lists of sensors. *)
LEMMA SensorMessage_SensorsTakes ==
  /\ Takes("SensorMessage_Sensors", "sensor", "messages", "SensorMessage_Sensor")
  /\ Takes("SensorMessage_Sensors", "unknown", "items", "Number")
<1>1. \A m : Fits("SensorMessage_Sensors", m) <=> FitsSensors(m)
  BY FitsByName
<1>2. Takes("SensorMessage_Sensors", "sensor", "messages", "SensorMessage_Sensor")
  <2> SUFFICES ASSUME NEW m, FitsSensors(m), NEW y, NEW m2, m2 = [m EXCEPT !["sensor"] = y]
               PROVE  /\ "sensor" \in DOMAIN m
                      /\ Holds("messages", "SensorMessage_Sensor", m["sensor"])
                      /\ Holds("messages", "SensorMessage_Sensor", y) => FitsSensors(m2)
    BY <1>1 DEF Takes
  <2>1. DOMAIN m = {"sensor", "unknown"} /\ \A g \in DOMAIN m : InSensors(g, m[g])
    BY DEF FitsSensors, NewSensorMessage_Sensors
  <2>2. DOMAIN m2 = DOMAIN m /\ \A g \in DOMAIN m : m2[g] = IF g = "sensor" THEN y ELSE m[g]
    BY <2>1
  <2>3. \A x : InSensors("sensor", x) <=> Holds("messages", "SensorMessage_Sensor", x)
    BY FitsByName DEF InSensors, Holds
  <2>4. Holds("messages", "SensorMessage_Sensor", y) => \A g \in DOMAIN m : InSensors(g, m2[g])
    BY <2>1, <2>2, <2>3
  <2> QED BY <2>1, <2>2, <2>3, <2>4 DEF FitsSensors
<1>3. Takes("SensorMessage_Sensors", "unknown", "items", "Number")
  <2> SUFFICES ASSUME NEW m, FitsSensors(m), NEW y, NEW m2, m2 = [m EXCEPT !["unknown"] = y]
               PROVE  /\ "unknown" \in DOMAIN m /\ Holds("items", "Number", m["unknown"])
                      /\ Holds("items", "Number", y) => FitsSensors(m2)
    BY <1>1 DEF Takes
  <2>1. DOMAIN m = {"sensor", "unknown"} /\ \A g \in DOMAIN m : InSensors(g, m[g])
    BY DEF FitsSensors, NewSensorMessage_Sensors
  <2>2. DOMAIN m2 = DOMAIN m /\ \A g \in DOMAIN m : m2[g] = IF g = "unknown" THEN y ELSE m[g]
    BY <2>1
  <2>3. \A x : InSensors("unknown", x) <=> Holds("items", "Number", x)
    BY FitsByName DEF InSensors, Holds
  <2>4. Holds("items", "Number", y) => \A g \in DOMAIN m : InSensors(g, m2[g])
    BY <2>1, <2>2, <2>3
  <2> QED BY <2>1, <2>2, <2>3, <2>4 DEF FitsSensors
<1> QED BY <1>2, <1>3

(* Their parser keeps that so. *)
LEMMA SensorMessage_SensorsFits == KeepsFit("SensorMessage_Sensors")
<1> SUFFICES ASSUME NEW m, Fits("SensorMessage_Sensors", m), NEW it, ProperItem(it)
             PROVE  Fits("SensorMessage_Sensors", TurnOf("SensorMessage_Sensors", m, it).msg)
  BY DEF KeepsFit
<1>1. CASE it.tag = 10
  <2>1. Fits("SensorMessage_Sensor", NewSensorMessage_Sensor) /\ KeepsFit("SensorMessage_Sensor")
    BY FitsByName, NewFits, SensorMessage_SensorFits
  <2> QED BY <1>1, <2>1, SensorMessage_SensorsTakes, SensorsCollected,
            KeepsMessages
<1>2. CASE it.tag \notin {10}
  <2>1. TurnOf("SensorMessage_Sensors", m, it) = Unknown(m, it)
    BY <1>2 DEF TurnOf, ParseSensorMessage_Sensors
  <2> QED BY <2>1, SensorMessage_SensorsTakes, KeepsUnknown
<1> QED BY <1>1, <1>2

(* What stands in the fields of what robots tell. *)
LEMMA SensorMessage_ObjectTakes ==
  /\ Takes("SensorMessage_Object", "angleSensors", "list", "Number")
  /\ Takes("SensorMessage_Object", "angularVelocitySensors", "list", "Number")
  /\ Takes("SensorMessage_Object", "torqueSensors", "list", "Number")
  /\ Takes("SensorMessage_Object", "objectSensors", "messages", "SensorMessage_Sensor")
  /\ Takes("SensorMessage_Object", "forceSensors", "messages", "SensorMessage_Vec3")
  /\ Takes("SensorMessage_Object", "sensors", "map", "SensorMessage_Sensors")
  /\ Takes("SensorMessage_Object", "unknown", "items", "Number")
<1>1. \A m : Fits("SensorMessage_Object", m) <=> FitsSensorObject(m)
  BY FitsByName
<1>2. Takes("SensorMessage_Object", "angleSensors", "list", "Number")
  <2> SUFFICES ASSUME NEW m, FitsSensorObject(m), NEW y, NEW m2,
                      m2 = [m EXCEPT !["angleSensors"] = y]
               PROVE  /\ "angleSensors" \in DOMAIN m /\ Holds("list", "Number", m["angleSensors"])
                      /\ Holds("list", "Number", y) => FitsSensorObject(m2)
    BY <1>1 DEF Takes
  <2>1. /\ DOMAIN m = {"angleSensors", "angularVelocitySensors", "torqueSensors", "objectSensors",
                       "forceSensors", "sensors", "unknown"}
        /\ \A g \in DOMAIN m : InSensorObject(g, m[g])
    BY DEF FitsSensorObject, NewSensorMessage_Object
  <2>2. DOMAIN m2 = DOMAIN m /\ \A g \in DOMAIN m : m2[g] = IF g = "angleSensors" THEN y ELSE m[g]
    BY <2>1
  <2>3. \A x : InSensorObject("angleSensors", x) <=> Holds("list", "Number", x)
    BY FitsByName DEF InSensorObject, Holds
  <2>4. Holds("list", "Number", y) => \A g \in DOMAIN m : InSensorObject(g, m2[g])
    BY <2>1, <2>2, <2>3
  <2> QED BY <2>1, <2>2, <2>3, <2>4 DEF FitsSensorObject
<1>3. Takes("SensorMessage_Object", "angularVelocitySensors", "list", "Number")
  <2> SUFFICES ASSUME NEW m, FitsSensorObject(m), NEW y, NEW m2,
                      m2 = [m EXCEPT !["angularVelocitySensors"] = y]
               PROVE  /\ "angularVelocitySensors" \in DOMAIN m
                      /\ Holds("list", "Number", m["angularVelocitySensors"])
                      /\ Holds("list", "Number", y) => FitsSensorObject(m2)
    BY <1>1 DEF Takes
  <2>1. /\ DOMAIN m = {"angleSensors", "angularVelocitySensors", "torqueSensors", "objectSensors",
                       "forceSensors", "sensors", "unknown"}
        /\ \A g \in DOMAIN m : InSensorObject(g, m[g])
    BY DEF FitsSensorObject, NewSensorMessage_Object
  <2>2. /\ DOMAIN m2 = DOMAIN m
        /\ \A g \in DOMAIN m : m2[g] = IF g = "angularVelocitySensors" THEN y ELSE m[g]
    BY <2>1
  <2>3. \A x : InSensorObject("angularVelocitySensors", x) <=> Holds("list", "Number", x)
    BY FitsByName DEF InSensorObject, Holds
  <2>4. Holds("list", "Number", y) => \A g \in DOMAIN m : InSensorObject(g, m2[g])
    BY <2>1, <2>2, <2>3
  <2> QED BY <2>1, <2>2, <2>3, <2>4 DEF FitsSensorObject
<1>4. Takes("SensorMessage_Object", "torqueSensors", "list", "Number")
  <2> SUFFICES ASSUME NEW m, FitsSensorObject(m), NEW y, NEW m2,
                      m2 = [m EXCEPT !["torqueSensors"] = y]
               PROVE  /\ "torqueSensors" \in DOMAIN m /\ Holds("list", "Number", m["torqueSensors"])
                      /\ Holds("list", "Number", y) => FitsSensorObject(m2)
    BY <1>1 DEF Takes
  <2>1. /\ DOMAIN m = {"angleSensors", "angularVelocitySensors", "torqueSensors", "objectSensors",
                       "forceSensors", "sensors", "unknown"}
        /\ \A g \in DOMAIN m : InSensorObject(g, m[g])
    BY DEF FitsSensorObject, NewSensorMessage_Object
  <2>2. DOMAIN m2 = DOMAIN m /\ \A g \in DOMAIN m : m2[g] = IF g = "torqueSensors" THEN y ELSE m[g]
    BY <2>1
  <2>3. \A x : InSensorObject("torqueSensors", x) <=> Holds("list", "Number", x)
    BY FitsByName DEF InSensorObject, Holds
  <2>4. Holds("list", "Number", y) => \A g \in DOMAIN m : InSensorObject(g, m2[g])
    BY <2>1, <2>2, <2>3
  <2> QED BY <2>1, <2>2, <2>3, <2>4 DEF FitsSensorObject
<1>5. Takes("SensorMessage_Object", "objectSensors", "messages", "SensorMessage_Sensor")
  <2> SUFFICES ASSUME NEW m, FitsSensorObject(m), NEW y, NEW m2,
                      m2 = [m EXCEPT !["objectSensors"] = y]
               PROVE  /\ "objectSensors" \in DOMAIN m
                      /\ Holds("messages", "SensorMessage_Sensor", m["objectSensors"])
                      /\ Holds("messages", "SensorMessage_Sensor", y) => FitsSensorObject(m2)
    BY <1>1 DEF Takes
  <2>1. /\ DOMAIN m = {"angleSensors", "angularVelocitySensors", "torqueSensors", "objectSensors",
                       "forceSensors", "sensors", "unknown"}
        /\ \A g \in DOMAIN m : InSensorObject(g, m[g])
    BY DEF FitsSensorObject, NewSensorMessage_Object
  <2>2. DOMAIN m2 = DOMAIN m /\ \A g \in DOMAIN m : m2[g] = IF g = "objectSensors" THEN y ELSE m[g]
    BY <2>1
  <2>3. \A x : InSensorObject("objectSensors", x) <=> Holds("messages", "SensorMessage_Sensor", x)
    BY FitsByName DEF InSensorObject, Holds
  <2>4. Holds("messages", "SensorMessage_Sensor", y) => \A g \in DOMAIN m : InSensorObject(g, m2[g])
    BY <2>1, <2>2, <2>3
  <2> QED BY <2>1, <2>2, <2>3, <2>4 DEF FitsSensorObject
<1>6. Takes("SensorMessage_Object", "forceSensors", "messages", "SensorMessage_Vec3")
  <2> SUFFICES ASSUME NEW m, FitsSensorObject(m), NEW y, NEW m2,
                      m2 = [m EXCEPT !["forceSensors"] = y]
               PROVE  /\ "forceSensors" \in DOMAIN m
                      /\ Holds("messages", "SensorMessage_Vec3", m["forceSensors"])
                      /\ Holds("messages", "SensorMessage_Vec3", y) => FitsSensorObject(m2)
    BY <1>1 DEF Takes
  <2>1. /\ DOMAIN m = {"angleSensors", "angularVelocitySensors", "torqueSensors", "objectSensors",
                       "forceSensors", "sensors", "unknown"}
        /\ \A g \in DOMAIN m : InSensorObject(g, m[g])
    BY DEF FitsSensorObject, NewSensorMessage_Object
  <2>2. DOMAIN m2 = DOMAIN m /\ \A g \in DOMAIN m : m2[g] = IF g = "forceSensors" THEN y ELSE m[g]
    BY <2>1
  <2>3. \A x : InSensorObject("forceSensors", x) <=> Holds("messages", "SensorMessage_Vec3", x)
    BY FitsByName DEF InSensorObject, Holds
  <2>4. Holds("messages", "SensorMessage_Vec3", y) => \A g \in DOMAIN m : InSensorObject(g, m2[g])
    BY <2>1, <2>2, <2>3
  <2> QED BY <2>1, <2>2, <2>3, <2>4 DEF FitsSensorObject
<1>7. Takes("SensorMessage_Object", "sensors", "map", "SensorMessage_Sensors")
  <2> SUFFICES ASSUME NEW m, FitsSensorObject(m), NEW y, NEW m2, m2 = [m EXCEPT !["sensors"] = y]
               PROVE  /\ "sensors" \in DOMAIN m
                      /\ Holds("map", "SensorMessage_Sensors", m["sensors"])
                      /\ Holds("map", "SensorMessage_Sensors", y) => FitsSensorObject(m2)
    BY <1>1 DEF Takes
  <2>1. /\ DOMAIN m = {"angleSensors", "angularVelocitySensors", "torqueSensors", "objectSensors",
                       "forceSensors", "sensors", "unknown"}
        /\ \A g \in DOMAIN m : InSensorObject(g, m[g])
    BY DEF FitsSensorObject, NewSensorMessage_Object
  <2>2. DOMAIN m2 = DOMAIN m /\ \A g \in DOMAIN m : m2[g] = IF g = "sensors" THEN y ELSE m[g]
    BY <2>1
  <2>3. \A x : InSensorObject("sensors", x) <=> Holds("map", "SensorMessage_Sensors", x)
    BY FitsByName DEF InSensorObject, Holds
  <2>4. Holds("map", "SensorMessage_Sensors", y) => \A g \in DOMAIN m : InSensorObject(g, m2[g])
    BY <2>1, <2>2, <2>3
  <2> QED BY <2>1, <2>2, <2>3, <2>4 DEF FitsSensorObject
<1>8. Takes("SensorMessage_Object", "unknown", "items", "Number")
  <2> SUFFICES ASSUME NEW m, FitsSensorObject(m), NEW y, NEW m2, m2 = [m EXCEPT !["unknown"] = y]
               PROVE  /\ "unknown" \in DOMAIN m /\ Holds("items", "Number", m["unknown"])
                      /\ Holds("items", "Number", y) => FitsSensorObject(m2)
    BY <1>1 DEF Takes
  <2>1. /\ DOMAIN m = {"angleSensors", "angularVelocitySensors", "torqueSensors", "objectSensors",
                       "forceSensors", "sensors", "unknown"}
        /\ \A g \in DOMAIN m : InSensorObject(g, m[g])
    BY DEF FitsSensorObject, NewSensorMessage_Object
  <2>2. DOMAIN m2 = DOMAIN m /\ \A g \in DOMAIN m : m2[g] = IF g = "unknown" THEN y ELSE m[g]
    BY <2>1
  <2>3. \A x : InSensorObject("unknown", x) <=> Holds("items", "Number", x)
    BY FitsByName DEF InSensorObject, Holds
  <2>4. Holds("items", "Number", y) => \A g \in DOMAIN m : InSensorObject(g, m2[g])
    BY <2>1, <2>2, <2>3
  <2> QED BY <2>1, <2>2, <2>3, <2>4 DEF FitsSensorObject
<1> QED BY <1>2, <1>3, <1>4, <1>5, <1>6, <1>7, <1>8

(* Their parser keeps that so. *)
LEMMA SensorMessage_ObjectFits == KeepsFit("SensorMessage_Object")
<1> SUFFICES ASSUME NEW m, Fits("SensorMessage_Object", m), NEW it, ProperItem(it)
             PROVE  Fits("SensorMessage_Object", TurnOf("SensorMessage_Object", m, it).msg)
  BY DEF KeepsFit
<1>1. CASE it.tag \in {10, 9}
  <2>1. ReadsNumbers("SensorMessage_Object", "angleSensors", 10)
    BY DEF ReadsNumbers, TurnOf, ParseSensorMessage_Object
  <2>2. ReadsNumbers("SensorMessage_Object", "angleSensors", 9)
    BY DEF ReadsNumbers, TurnOf, ParseSensorMessage_Object
  <2>3. TurnOf("SensorMessage_Object", m, it) = AddNumbers(m, "angleSensors", it)
    BY <1>1, <2>1, <2>2 DEF ReadsNumbers
  <2> QED BY <2>3, SensorMessage_ObjectTakes, KeepsNumbers
<1>2. CASE it.tag \in {18, 17}
  <2>1. ReadsNumbers("SensorMessage_Object", "angularVelocitySensors", 18)
    BY DEF ReadsNumbers, TurnOf, ParseSensorMessage_Object
  <2>2. ReadsNumbers("SensorMessage_Object", "angularVelocitySensors", 17)
    BY DEF ReadsNumbers, TurnOf, ParseSensorMessage_Object
  <2>3. TurnOf("SensorMessage_Object", m, it) = AddNumbers(m, "angularVelocitySensors", it)
    BY <1>2, <2>1, <2>2 DEF ReadsNumbers
  <2> QED BY <2>3, SensorMessage_ObjectTakes, KeepsNumbers
<1>3. CASE it.tag \in {26, 25}
  <2>1. ReadsNumbers("SensorMessage_Object", "torqueSensors", 26)
    BY DEF ReadsNumbers, TurnOf, ParseSensorMessage_Object
  <2>2. ReadsNumbers("SensorMessage_Object", "torqueSensors", 25)
    BY DEF ReadsNumbers, TurnOf, ParseSensorMessage_Object
  <2>3. TurnOf("SensorMessage_Object", m, it) = AddNumbers(m, "torqueSensors", it)
    BY <1>3, <2>1, <2>2 DEF ReadsNumbers
  <2> QED BY <2>3, SensorMessage_ObjectTakes, KeepsNumbers
<1>4. CASE it.tag = 34
  <2>1. Fits("SensorMessage_Sensor", NewSensorMessage_Sensor) /\ KeepsFit("SensorMessage_Sensor")
    BY FitsByName, NewFits, SensorMessage_SensorFits
  <2> QED BY <1>4, <2>1, SensorMessage_ObjectTakes, ObjectSensorsCollected,
            KeepsMessages
<1>5. CASE it.tag = 42
  <2>1. Fits("SensorMessage_Vec3", NewSensorMessage_Vec3) /\ KeepsFit("SensorMessage_Vec3")
    BY FitsByName, NewFits, SensorMessage_Vec3Fits
  <2> QED BY <1>5, <2>1, SensorMessage_ObjectTakes, ForceSensorsCollected,
            KeepsMessages
<1>6. CASE it.tag = 50
  <2>1. Fits("SensorMessage_Sensors", NewSensorMessage_Sensors) /\ KeepsFit("SensorMessage_Sensors")
    BY FitsByName, NewFits, SensorMessage_SensorsFits
  <2> QED BY <1>6, <2>1, SensorMessage_ObjectTakes, SensorMessage_Object_SensorsEntry,
            KeepsEntries
<1>7. CASE it.tag \notin {9, 10, 17, 18, 25, 26, 34, 42, 50}
  <2>1. TurnOf("SensorMessage_Object", m, it) = Unknown(m, it)
    BY <1>7 DEF TurnOf, ParseSensorMessage_Object
  <2> QED BY <2>1, SensorMessage_ObjectTakes, KeepsUnknown
<1> QED BY <1>1, <1>2, <1>3, <1>4, <1>5, <1>6, <1>7

(* What stands in the fields of variables. *)
LEMMA SensorMessage_SimulationVariablesTakes ==
  /\ Takes("SensorMessage_SimulationVariables", "simulatedTime", "any", "Number")
  /\ Takes("SensorMessage_SimulationVariables", "unknown", "items", "Number")
<1>1. \A m : Fits("SensorMessage_SimulationVariables", m) <=> FitsVariables(m)
  BY FitsByName
<1>2. Takes("SensorMessage_SimulationVariables", "simulatedTime", "any", "Number")
  <2> SUFFICES ASSUME NEW m, FitsVariables(m), NEW y, NEW m2, m2 = [m EXCEPT !["simulatedTime"] = y]
               PROVE  /\ "simulatedTime" \in DOMAIN m /\ Holds("any", "Number", m["simulatedTime"])
                      /\ Holds("any", "Number", y) => FitsVariables(m2)
    BY <1>1 DEF Takes
  <2>1. DOMAIN m = {"simulatedTime", "unknown"} /\ \A g \in DOMAIN m : InNumber(g, m[g])
    BY DEF FitsVariables, NewSensorMessage_SimulationVariables
  <2>2. DOMAIN m2 = DOMAIN m /\ \A g \in DOMAIN m : m2[g] = IF g = "simulatedTime" THEN y ELSE m[g]
    BY <2>1
  <2>3. \A x : InNumber("simulatedTime", x) <=> Holds("any", "Number", x)
    BY FitsByName DEF InNumber, Holds
  <2>4. Holds("any", "Number", y) => \A g \in DOMAIN m : InNumber(g, m2[g])
    BY <2>1, <2>2, <2>3
  <2> QED BY <2>1, <2>2, <2>3, <2>4 DEF FitsVariables
<1>3. Takes("SensorMessage_SimulationVariables", "unknown", "items", "Number")
  <2> SUFFICES ASSUME NEW m, FitsVariables(m), NEW y, NEW m2, m2 = [m EXCEPT !["unknown"] = y]
               PROVE  /\ "unknown" \in DOMAIN m /\ Holds("items", "Number", m["unknown"])
                      /\ Holds("items", "Number", y) => FitsVariables(m2)
    BY <1>1 DEF Takes
  <2>1. DOMAIN m = {"simulatedTime", "unknown"} /\ \A g \in DOMAIN m : InNumber(g, m[g])
    BY DEF FitsVariables, NewSensorMessage_SimulationVariables
  <2>2. DOMAIN m2 = DOMAIN m /\ \A g \in DOMAIN m : m2[g] = IF g = "unknown" THEN y ELSE m[g]
    BY <2>1
  <2>3. \A x : InNumber("unknown", x) <=> Holds("items", "Number", x)
    BY FitsByName DEF InNumber, Holds
  <2>4. Holds("items", "Number", y) => \A g \in DOMAIN m : InNumber(g, m2[g])
    BY <2>1, <2>2, <2>3
  <2> QED BY <2>1, <2>2, <2>3, <2>4 DEF FitsVariables
<1> QED BY <1>2, <1>3

(* Their parser keeps that so. *)
LEMMA SensorMessage_SimulationVariablesFits == KeepsFit("SensorMessage_SimulationVariables")
<1> SUFFICES ASSUME NEW m, Fits("SensorMessage_SimulationVariables", m), NEW it, ProperItem(it)
             PROVE  Fits("SensorMessage_SimulationVariables",
                         TurnOf("SensorMessage_SimulationVariables", m, it).msg)
  BY DEF KeepsFit
<1>1. CASE it.tag = 9
  <2>1. TurnOf("SensorMessage_SimulationVariables", m, it) = SetNumber(m, "simulatedTime", it)
    BY <1>1 DEF TurnOf, ParseSensorMessage_SimulationVariables
  <2> QED BY <2>1, SensorMessage_SimulationVariablesTakes, KeepsNumber
<1>2. CASE it.tag \notin {9}
  <2>1. TurnOf("SensorMessage_SimulationVariables", m, it) = Unknown(m, it)
    BY <1>2 DEF TurnOf, ParseSensorMessage_SimulationVariables
  <2> QED BY <2>1, SensorMessage_SimulationVariablesTakes, KeepsUnknown
<1> QED BY <1>1, <1>2

(* What stands in the fields of sensor messages. *)
LEMMA SensorMessageTakes ==
  /\ Takes("SensorMessage", "messageType", "any", "Number")
  /\ Takes("SensorMessage", "objects", "map", "SensorMessage_Object")
  /\ Takes("SensorMessage", "simVars", "messages", "SensorMessage_SimulationVariables")
  /\ Takes("SensorMessage", "unknown", "items", "Number")
<1>1. \A m : Fits("SensorMessage", m) <=> FitsSensorMessage(m)
  BY FitsByName
<1>2. Takes("SensorMessage", "messageType", "any", "Number")
  <2> SUFFICES ASSUME NEW m, FitsSensorMessage(m), NEW y, NEW m2,
                      m2 = [m EXCEPT !["messageType"] = y]
               PROVE  /\ "messageType" \in DOMAIN m /\ Holds("any", "Number", m["messageType"])
                      /\ Holds("any", "Number", y) => FitsSensorMessage(m2)
    BY <1>1 DEF Takes
  <2>1. /\ DOMAIN m = {"messageType", "objects", "simVars", "unknown"}
        /\ \A g \in DOMAIN m : InSensorMessage(g, m[g])
    BY DEF FitsSensorMessage, NewSensorMessage
  <2>2. DOMAIN m2 = DOMAIN m /\ \A g \in DOMAIN m : m2[g] = IF g = "messageType" THEN y ELSE m[g]
    BY <2>1
  <2>3. \A x : InSensorMessage("messageType", x) <=> Holds("any", "Number", x)
    BY FitsByName DEF InSensorMessage, Holds
  <2>4. Holds("any", "Number", y) => \A g \in DOMAIN m : InSensorMessage(g, m2[g])
    BY <2>1, <2>2, <2>3
  <2> QED BY <2>1, <2>2, <2>3, <2>4 DEF FitsSensorMessage
<1>3. Takes("SensorMessage", "objects", "map", "SensorMessage_Object")
  <2> SUFFICES ASSUME NEW m, FitsSensorMessage(m), NEW y, NEW m2, m2 = [m EXCEPT !["objects"] = y]
               PROVE  /\ "objects" \in DOMAIN m
                      /\ Holds("map", "SensorMessage_Object", m["objects"])
                      /\ Holds("map", "SensorMessage_Object", y) => FitsSensorMessage(m2)
    BY <1>1 DEF Takes
  <2>1. /\ DOMAIN m = {"messageType", "objects", "simVars", "unknown"}
        /\ \A g \in DOMAIN m : InSensorMessage(g, m[g])
    BY DEF FitsSensorMessage, NewSensorMessage
  <2>2. DOMAIN m2 = DOMAIN m /\ \A g \in DOMAIN m : m2[g] = IF g = "objects" THEN y ELSE m[g]
    BY <2>1
  <2>3. \A x : InSensorMessage("objects", x) <=> Holds("map", "SensorMessage_Object", x)
    BY FitsByName DEF InSensorMessage, Holds
  <2>4. Holds("map", "SensorMessage_Object", y) => \A g \in DOMAIN m : InSensorMessage(g, m2[g])
    BY <2>1, <2>2, <2>3
  <2> QED BY <2>1, <2>2, <2>3, <2>4 DEF FitsSensorMessage
<1>4. Takes("SensorMessage", "simVars", "messages", "SensorMessage_SimulationVariables")
  <2> SUFFICES ASSUME NEW m, FitsSensorMessage(m), NEW y, NEW m2, m2 = [m EXCEPT !["simVars"] = y]
               PROVE  /\ "simVars" \in DOMAIN m
                      /\ Holds("messages", "SensorMessage_SimulationVariables", m["simVars"])
                      /\ Holds("messages", "SensorMessage_SimulationVariables", y)
                           => FitsSensorMessage(m2)
    BY <1>1 DEF Takes
  <2>1. /\ DOMAIN m = {"messageType", "objects", "simVars", "unknown"}
        /\ \A g \in DOMAIN m : InSensorMessage(g, m[g])
    BY DEF FitsSensorMessage, NewSensorMessage
  <2>2. DOMAIN m2 = DOMAIN m /\ \A g \in DOMAIN m : m2[g] = IF g = "simVars" THEN y ELSE m[g]
    BY <2>1
  <2>3. \A x : InSensorMessage("simVars", x) <=> Holds("messages",
                                                       "SensorMessage_SimulationVariables", x)
    BY FitsByName DEF InSensorMessage, Holds
  <2>4. Holds("messages", "SensorMessage_SimulationVariables", y)
          => \A g \in DOMAIN m : InSensorMessage(g, m2[g])
    BY <2>1, <2>2, <2>3
  <2> QED BY <2>1, <2>2, <2>3, <2>4 DEF FitsSensorMessage
<1>5. Takes("SensorMessage", "unknown", "items", "Number")
  <2> SUFFICES ASSUME NEW m, FitsSensorMessage(m), NEW y, NEW m2, m2 = [m EXCEPT !["unknown"] = y]
               PROVE  /\ "unknown" \in DOMAIN m /\ Holds("items", "Number", m["unknown"])
                      /\ Holds("items", "Number", y) => FitsSensorMessage(m2)
    BY <1>1 DEF Takes
  <2>1. /\ DOMAIN m = {"messageType", "objects", "simVars", "unknown"}
        /\ \A g \in DOMAIN m : InSensorMessage(g, m[g])
    BY DEF FitsSensorMessage, NewSensorMessage
  <2>2. DOMAIN m2 = DOMAIN m /\ \A g \in DOMAIN m : m2[g] = IF g = "unknown" THEN y ELSE m[g]
    BY <2>1
  <2>3. \A x : InSensorMessage("unknown", x) <=> Holds("items", "Number", x)
    BY FitsByName DEF InSensorMessage, Holds
  <2>4. Holds("items", "Number", y) => \A g \in DOMAIN m : InSensorMessage(g, m2[g])
    BY <2>1, <2>2, <2>3
  <2> QED BY <2>1, <2>2, <2>3, <2>4 DEF FitsSensorMessage
<1> QED BY <1>2, <1>3, <1>4, <1>5

(* Their parser keeps that so. *)
LEMMA SensorMessageFits == KeepsFit("SensorMessage")
<1> SUFFICES ASSUME NEW m, Fits("SensorMessage", m), NEW it, ProperItem(it)
             PROVE  Fits("SensorMessage", TurnOf("SensorMessage", m, it).msg)
  BY DEF KeepsFit
<1>1. CASE it.tag = 8
  <2>1. TurnOf("SensorMessage", m, it) = SetNumber(m, "messageType", it)
    BY <1>1 DEF TurnOf, Turn, ParseSensorMessage
  <2> QED BY <2>1, SensorMessageTakes, KeepsNumber
<1>2. CASE it.tag = 26
  <2>1. Fits("SensorMessage_Object", NewSensorMessage_Object) /\ KeepsFit("SensorMessage_Object")
    BY FitsByName, NewFits, SensorMessage_ObjectFits
  <2> QED BY <1>2, <2>1, SensorMessageTakes, SensorMessage_ObjectsEntry,
            KeepsEntries
<1>3. CASE it.tag = 34
  <2>1. /\ Fits("SensorMessage_SimulationVariables", NewSensorMessage_SimulationVariables)
        /\ KeepsFit("SensorMessage_SimulationVariables")
    BY FitsByName, NewFits, SensorMessage_SimulationVariablesFits
  <2> QED BY <1>3, <2>1, SensorMessageTakes, VariablesNested,
            KeepsMessage
<1>4. CASE it.tag \notin {8, 26, 34}
  <2>1. TurnOf("SensorMessage", m, it) = Unknown(m, it)
    BY <1>4 DEF TurnOf, Turn, ParseSensorMessage
  <2> QED BY <2>1, SensorMessageTakes, KeepsUnknown
<1> QED BY <1>1, <1>2, <1>3, <1>4

(* What stands in the fields of lists of types. *)
LEMMA HandshakeMessage_SensorsTakes ==
  /\ Takes("HandshakeMessage_Sensors", "types", "list", "Number")
  /\ Takes("HandshakeMessage_Sensors", "unknown", "items", "Number")
<1>1. \A m : Fits("HandshakeMessage_Sensors", m) <=> FitsTypes(m)
  BY FitsByName
<1>2. Takes("HandshakeMessage_Sensors", "types", "list", "Number")
  <2> SUFFICES ASSUME NEW m, FitsTypes(m), NEW y, NEW m2, m2 = [m EXCEPT !["types"] = y]
               PROVE  /\ "types" \in DOMAIN m /\ Holds("list", "Number", m["types"])
                      /\ Holds("list", "Number", y) => FitsTypes(m2)
    BY <1>1 DEF Takes
  <2>1. DOMAIN m = {"types", "unknown"} /\ \A g \in DOMAIN m : InTypes(g, m[g])
    BY DEF FitsTypes, NewHandshakeMessage_Sensors
  <2>2. DOMAIN m2 = DOMAIN m /\ \A g \in DOMAIN m : m2[g] = IF g = "types" THEN y ELSE m[g]
    BY <2>1
  <2>3. \A x : InTypes("types", x) <=> Holds("list", "Number", x)
    BY FitsByName DEF InTypes, Holds
  <2>4. Holds("list", "Number", y) => \A g \in DOMAIN m : InTypes(g, m2[g])
    BY <2>1, <2>2, <2>3
  <2> QED BY <2>1, <2>2, <2>3, <2>4 DEF FitsTypes
<1>3. Takes("HandshakeMessage_Sensors", "unknown", "items", "Number")
  <2> SUFFICES ASSUME NEW m, FitsTypes(m), NEW y, NEW m2, m2 = [m EXCEPT !["unknown"] = y]
               PROVE  /\ "unknown" \in DOMAIN m /\ Holds("items", "Number", m["unknown"])
                      /\ Holds("items", "Number", y) => FitsTypes(m2)
    BY <1>1 DEF Takes
  <2>1. DOMAIN m = {"types", "unknown"} /\ \A g \in DOMAIN m : InTypes(g, m[g])
    BY DEF FitsTypes, NewHandshakeMessage_Sensors
  <2>2. DOMAIN m2 = DOMAIN m /\ \A g \in DOMAIN m : m2[g] = IF g = "unknown" THEN y ELSE m[g]
    BY <2>1
  <2>3. \A x : InTypes("unknown", x) <=> Holds("items", "Number", x)
    BY FitsByName DEF InTypes, Holds
  <2>4. Holds("items", "Number", y) => \A g \in DOMAIN m : InTypes(g, m2[g])
    BY <2>1, <2>2, <2>3
  <2> QED BY <2>1, <2>2, <2>3, <2>4 DEF FitsTypes
<1> QED BY <1>2, <1>3

(* Their parser keeps that so. *)
LEMMA HandshakeMessage_SensorsFits == KeepsFit("HandshakeMessage_Sensors")
<1> SUFFICES ASSUME NEW m, Fits("HandshakeMessage_Sensors", m), NEW it, ProperItem(it)
             PROVE  Fits("HandshakeMessage_Sensors", TurnOf("HandshakeMessage_Sensors", m, it).msg)
  BY DEF KeepsFit
<1>1. CASE it.tag \in {10, 8}
  <2>1. ReadsNumbers("HandshakeMessage_Sensors", "types", 10)
    BY DEF ReadsNumbers, TurnOf, ParseHandshakeMessage_Sensors
  <2>2. ReadsNumbers("HandshakeMessage_Sensors", "types", 8)
    BY DEF ReadsNumbers, TurnOf, ParseHandshakeMessage_Sensors
  <2>3. TurnOf("HandshakeMessage_Sensors", m, it) = AddNumbers(m, "types", it)
    BY <1>1, <2>1, <2>2 DEF ReadsNumbers
  <2> QED BY <2>3, HandshakeMessage_SensorsTakes, KeepsNumbers
<1>2. CASE it.tag \notin {8, 10}
  <2>1. TurnOf("HandshakeMessage_Sensors", m, it) = Unknown(m, it)
    BY <1>2 DEF TurnOf, ParseHandshakeMessage_Sensors
  <2> QED BY <2>1, HandshakeMessage_SensorsTakes, KeepsUnknown
<1> QED BY <1>1, <1>2

(* What stands in the fields of descriptions. *)
LEMMA HandshakeMessage_ObjectTakes ==
  /\ Takes("HandshakeMessage_Object", "controlsInOrder", "list", "Number")
  /\ Takes("HandshakeMessage_Object", "jointSensors", "list", "Number")
  /\ Takes("HandshakeMessage_Object", "controlEvents", "map", "Number")
  /\ Takes("HandshakeMessage_Object", "sensors", "map", "HandshakeMessage_Sensors")
  /\ Takes("HandshakeMessage_Object", "objectSensors", "list", "Number")
  /\ Takes("HandshakeMessage_Object", "jointSensorsInOrder", "list", "Number")
  /\ Takes("HandshakeMessage_Object", "controlTypesInOrder", "list", "Number")
  /\ Takes("HandshakeMessage_Object", "unknown", "items", "Number")
<1>1. \A m : Fits("HandshakeMessage_Object", m) <=> FitsHandshakeObject(m)
  BY FitsByName
<1>2. Takes("HandshakeMessage_Object", "controlsInOrder", "list", "Number")
  <2> SUFFICES ASSUME NEW m, FitsHandshakeObject(m), NEW y, NEW m2,
                      m2 = [m EXCEPT !["controlsInOrder"] = y]
               PROVE  /\ "controlsInOrder" \in DOMAIN m
                      /\ Holds("list", "Number", m["controlsInOrder"])
                      /\ Holds("list", "Number", y) => FitsHandshakeObject(m2)
    BY <1>1 DEF Takes
  <2>1. /\ DOMAIN m = {"controlsInOrder", "jointSensors", "controlEvents", "sensors",
                       "objectSensors", "jointSensorsInOrder", "controlTypesInOrder", "unknown"}
        /\ \A g \in DOMAIN m : InHandshakeObject(g, m[g])
    BY DEF FitsHandshakeObject, NewHandshakeMessage_Object
  <2>2. /\ DOMAIN m2 = DOMAIN m
        /\ \A g \in DOMAIN m : m2[g] = IF g = "controlsInOrder" THEN y ELSE m[g]
    BY <2>1
  <2>3. \A x : InHandshakeObject("controlsInOrder", x) <=> Holds("list", "Number", x)
    BY FitsByName DEF InHandshakeObject, Holds
  <2>4. Holds("list", "Number", y) => \A g \in DOMAIN m : InHandshakeObject(g, m2[g])
    BY <2>1, <2>2, <2>3
  <2> QED BY <2>1, <2>2, <2>3, <2>4 DEF FitsHandshakeObject
<1>3. Takes("HandshakeMessage_Object", "jointSensors", "list", "Number")
  <2> SUFFICES ASSUME NEW m, FitsHandshakeObject(m), NEW y, NEW m2,
                      m2 = [m EXCEPT !["jointSensors"] = y]
               PROVE  /\ "jointSensors" \in DOMAIN m /\ Holds("list", "Number", m["jointSensors"])
                      /\ Holds("list", "Number", y) => FitsHandshakeObject(m2)
    BY <1>1 DEF Takes
  <2>1. /\ DOMAIN m = {"controlsInOrder", "jointSensors", "controlEvents", "sensors",
                       "objectSensors", "jointSensorsInOrder", "controlTypesInOrder", "unknown"}
        /\ \A g \in DOMAIN m : InHandshakeObject(g, m[g])
    BY DEF FitsHandshakeObject, NewHandshakeMessage_Object
  <2>2. DOMAIN m2 = DOMAIN m /\ \A g \in DOMAIN m : m2[g] = IF g = "jointSensors" THEN y ELSE m[g]
    BY <2>1
  <2>3. \A x : InHandshakeObject("jointSensors", x) <=> Holds("list", "Number", x)
    BY FitsByName DEF InHandshakeObject, Holds
  <2>4. Holds("list", "Number", y) => \A g \in DOMAIN m : InHandshakeObject(g, m2[g])
    BY <2>1, <2>2, <2>3
  <2> QED BY <2>1, <2>2, <2>3, <2>4 DEF FitsHandshakeObject
<1>4. Takes("HandshakeMessage_Object", "controlEvents", "map", "Number")
  <2> SUFFICES ASSUME NEW m, FitsHandshakeObject(m), NEW y, NEW m2,
                      m2 = [m EXCEPT !["controlEvents"] = y]
               PROVE  /\ "controlEvents" \in DOMAIN m /\ Holds("map", "Number", m["controlEvents"])
                      /\ Holds("map", "Number", y) => FitsHandshakeObject(m2)
    BY <1>1 DEF Takes
  <2>1. /\ DOMAIN m = {"controlsInOrder", "jointSensors", "controlEvents", "sensors",
                       "objectSensors", "jointSensorsInOrder", "controlTypesInOrder", "unknown"}
        /\ \A g \in DOMAIN m : InHandshakeObject(g, m[g])
    BY DEF FitsHandshakeObject, NewHandshakeMessage_Object
  <2>2. DOMAIN m2 = DOMAIN m /\ \A g \in DOMAIN m : m2[g] = IF g = "controlEvents" THEN y ELSE m[g]
    BY <2>1
  <2>3. \A x : InHandshakeObject("controlEvents", x) <=> Holds("map", "Number", x)
    BY FitsByName DEF InHandshakeObject, Holds
  <2>4. Holds("map", "Number", y) => \A g \in DOMAIN m : InHandshakeObject(g, m2[g])
    BY <2>1, <2>2, <2>3
  <2> QED BY <2>1, <2>2, <2>3, <2>4 DEF FitsHandshakeObject
<1>5. Takes("HandshakeMessage_Object", "sensors", "map", "HandshakeMessage_Sensors")
  <2> SUFFICES ASSUME NEW m, FitsHandshakeObject(m), NEW y, NEW m2, m2 = [m EXCEPT !["sensors"] = y]
               PROVE  /\ "sensors" \in DOMAIN m
                      /\ Holds("map", "HandshakeMessage_Sensors", m["sensors"])
                      /\ Holds("map", "HandshakeMessage_Sensors", y) => FitsHandshakeObject(m2)
    BY <1>1 DEF Takes
  <2>1. /\ DOMAIN m = {"controlsInOrder", "jointSensors", "controlEvents", "sensors",
                       "objectSensors", "jointSensorsInOrder", "controlTypesInOrder", "unknown"}
        /\ \A g \in DOMAIN m : InHandshakeObject(g, m[g])
    BY DEF FitsHandshakeObject, NewHandshakeMessage_Object
  <2>2. DOMAIN m2 = DOMAIN m /\ \A g \in DOMAIN m : m2[g] = IF g = "sensors" THEN y ELSE m[g]
    BY <2>1
  <2>3. \A x : InHandshakeObject("sensors", x) <=> Holds("map", "HandshakeMessage_Sensors", x)
    BY FitsByName DEF InHandshakeObject, Holds
  <2>4. Holds("map", "HandshakeMessage_Sensors", y)
          => \A g \in DOMAIN m : InHandshakeObject(g, m2[g])
    BY <2>1, <2>2, <2>3
  <2> QED BY <2>1, <2>2, <2>3, <2>4 DEF FitsHandshakeObject
<1>6. Takes("HandshakeMessage_Object", "objectSensors", "list", "Number")
  <2> SUFFICES ASSUME NEW m, FitsHandshakeObject(m), NEW y, NEW m2,
                      m2 = [m EXCEPT !["objectSensors"] = y]
               PROVE  /\ "objectSensors" \in DOMAIN m /\ Holds("list", "Number", m["objectSensors"])
                      /\ Holds("list", "Number", y) => FitsHandshakeObject(m2)
    BY <1>1 DEF Takes
  <2>1. /\ DOMAIN m = {"controlsInOrder", "jointSensors", "controlEvents", "sensors",
                       "objectSensors", "jointSensorsInOrder", "controlTypesInOrder", "unknown"}
        /\ \A g \in DOMAIN m : InHandshakeObject(g, m[g])
    BY DEF FitsHandshakeObject, NewHandshakeMessage_Object
  <2>2. DOMAIN m2 = DOMAIN m /\ \A g \in DOMAIN m : m2[g] = IF g = "objectSensors" THEN y ELSE m[g]
    BY <2>1
  <2>3. \A x : InHandshakeObject("objectSensors", x) <=> Holds("list", "Number", x)
    BY FitsByName DEF InHandshakeObject, Holds
  <2>4. Holds("list", "Number", y) => \A g \in DOMAIN m : InHandshakeObject(g, m2[g])
    BY <2>1, <2>2, <2>3
  <2> QED BY <2>1, <2>2, <2>3, <2>4 DEF FitsHandshakeObject
<1>7. Takes("HandshakeMessage_Object", "jointSensorsInOrder", "list", "Number")
  <2> SUFFICES ASSUME NEW m, FitsHandshakeObject(m), NEW y, NEW m2,
                      m2 = [m EXCEPT !["jointSensorsInOrder"] = y]
               PROVE  /\ "jointSensorsInOrder" \in DOMAIN m
                      /\ Holds("list", "Number", m["jointSensorsInOrder"])
                      /\ Holds("list", "Number", y) => FitsHandshakeObject(m2)
    BY <1>1 DEF Takes
  <2>1. /\ DOMAIN m = {"controlsInOrder", "jointSensors", "controlEvents", "sensors",
                       "objectSensors", "jointSensorsInOrder", "controlTypesInOrder", "unknown"}
        /\ \A g \in DOMAIN m : InHandshakeObject(g, m[g])
    BY DEF FitsHandshakeObject, NewHandshakeMessage_Object
  <2>2. /\ DOMAIN m2 = DOMAIN m
        /\ \A g \in DOMAIN m : m2[g] = IF g = "jointSensorsInOrder" THEN y ELSE m[g]
    BY <2>1
  <2>3. \A x : InHandshakeObject("jointSensorsInOrder", x) <=> Holds("list", "Number", x)
    BY FitsByName DEF InHandshakeObject, Holds
  <2>4. Holds("list", "Number", y) => \A g \in DOMAIN m : InHandshakeObject(g, m2[g])
    BY <2>1, <2>2, <2>3
  <2> QED BY <2>1, <2>2, <2>3, <2>4 DEF FitsHandshakeObject
<1>8. Takes("HandshakeMessage_Object", "controlTypesInOrder", "list", "Number")
  <2> SUFFICES ASSUME NEW m, FitsHandshakeObject(m), NEW y, NEW m2,
                      m2 = [m EXCEPT !["controlTypesInOrder"] = y]
               PROVE  /\ "controlTypesInOrder" \in DOMAIN m
                      /\ Holds("list", "Number", m["controlTypesInOrder"])
                      /\ Holds("list", "Number", y) => FitsHandshakeObject(m2)
    BY <1>1 DEF Takes
  <2>1. /\ DOMAIN m = {"controlsInOrder", "jointSensors", "controlEvents", "sensors",
                       "objectSensors", "jointSensorsInOrder", "controlTypesInOrder", "unknown"}
        /\ \A g \in DOMAIN m : InHandshakeObject(g, m[g])
    BY DEF FitsHandshakeObject, NewHandshakeMessage_Object
  <2>2. /\ DOMAIN m2 = DOMAIN m
        /\ \A g \in DOMAIN m : m2[g] = IF g = "controlTypesInOrder" THEN y ELSE m[g]
    BY <2>1
  <2>3. \A x : InHandshakeObject("controlTypesInOrder", x) <=> Holds("list", "Number", x)
    BY FitsByName DEF InHandshakeObject, Holds
  <2>4. Holds("list", "Number", y) => \A g \in DOMAIN m : InHandshakeObject(g, m2[g])
    BY <2>1, <2>2, <2>3
  <2> QED BY <2>1, <2>2, <2>3, <2>4 DEF FitsHandshakeObject
<1>9. Takes("HandshakeMessage_Object", "unknown", "items", "Number")
  <2> SUFFICES ASSUME NEW m, FitsHandshakeObject(m), NEW y, NEW m2, m2 = [m EXCEPT !["unknown"] = y]
               PROVE  /\ "unknown" \in DOMAIN m /\ Holds("items", "Number", m["unknown"])
                      /\ Holds("items", "Number", y) => FitsHandshakeObject(m2)
    BY <1>1 DEF Takes
  <2>1. /\ DOMAIN m = {"controlsInOrder", "jointSensors", "controlEvents", "sensors",
                       "objectSensors", "jointSensorsInOrder", "controlTypesInOrder", "unknown"}
        /\ \A g \in DOMAIN m : InHandshakeObject(g, m[g])
    BY DEF FitsHandshakeObject, NewHandshakeMessage_Object
  <2>2. DOMAIN m2 = DOMAIN m /\ \A g \in DOMAIN m : m2[g] = IF g = "unknown" THEN y ELSE m[g]
    BY <2>1
  <2>3. \A x : InHandshakeObject("unknown", x) <=> Holds("items", "Number", x)
    BY FitsByName DEF InHandshakeObject, Holds
  <2>4. Holds("items", "Number", y) => \A g \in DOMAIN m : InHandshakeObject(g, m2[g])
    BY <2>1, <2>2, <2>3
  <2> QED BY <2>1, <2>2, <2>3, <2>4 DEF FitsHandshakeObject
<1> QED BY <1>2, <1>3, <1>4, <1>5, <1>6, <1>7, <1>8, <1>9

(* Their parser keeps that so. *)
LEMMA HandshakeMessage_ObjectFits == KeepsFit("HandshakeMessage_Object")
<1> SUFFICES ASSUME NEW m, Fits("HandshakeMessage_Object", m), NEW it, ProperItem(it)
             PROVE  Fits("HandshakeMessage_Object", TurnOf("HandshakeMessage_Object", m, it).msg)
  BY DEF KeepsFit
<1>1. CASE it.tag = 10
  <2>1. TurnOf("HandshakeMessage_Object", m, it) = AddString(m, "controlsInOrder", it)
    BY <1>1 DEF TurnOf, ParseHandshakeMessage_Object
  <2> QED BY <2>1, HandshakeMessage_ObjectTakes, KeepsStrings
<1>2. CASE it.tag \in {18, 16}
  <2>1. ReadsNumbers("HandshakeMessage_Object", "jointSensors", 18)
    BY DEF ReadsNumbers, TurnOf, ParseHandshakeMessage_Object
  <2>2. ReadsNumbers("HandshakeMessage_Object", "jointSensors", 16)
    BY DEF ReadsNumbers, TurnOf, ParseHandshakeMessage_Object
  <2>3. TurnOf("HandshakeMessage_Object", m, it) = AddNumbers(m, "jointSensors", it)
    BY <1>2, <2>1, <2>2 DEF ReadsNumbers
  <2> QED BY <2>3, HandshakeMessage_ObjectTakes, KeepsNumbers
<1>3. CASE it.tag = 26
  <2>1. Fits("Number", 0)
    BY FitsByName
  <2> QED BY <1>3, <2>1, HandshakeMessage_ObjectTakes, HandshakeMessage_Object_ControlEventsEntry,
            KeepsEntries
<1>4. CASE it.tag = 34
  <2>1. /\ Fits("HandshakeMessage_Sensors", NewHandshakeMessage_Sensors)
        /\ KeepsFit("HandshakeMessage_Sensors")
    BY FitsByName, NewFits, HandshakeMessage_SensorsFits
  <2> QED BY <1>4, <2>1, HandshakeMessage_ObjectTakes, HandshakeMessage_Object_SensorsEntry,
            KeepsEntries
<1>5. CASE it.tag \in {50, 48}
  <2>1. ReadsNumbers("HandshakeMessage_Object", "objectSensors", 50)
    BY DEF ReadsNumbers, TurnOf, ParseHandshakeMessage_Object
  <2>2. ReadsNumbers("HandshakeMessage_Object", "objectSensors", 48)
    BY DEF ReadsNumbers, TurnOf, ParseHandshakeMessage_Object
  <2>3. TurnOf("HandshakeMessage_Object", m, it) = AddNumbers(m, "objectSensors", it)
    BY <1>5, <2>1, <2>2 DEF ReadsNumbers
  <2> QED BY <2>3, HandshakeMessage_ObjectTakes, KeepsNumbers
<1>6. CASE it.tag = 58
  <2>1. TurnOf("HandshakeMessage_Object", m, it) = AddString(m, "jointSensorsInOrder", it)
    BY <1>6 DEF TurnOf, ParseHandshakeMessage_Object
  <2> QED BY <2>1, HandshakeMessage_ObjectTakes, KeepsStrings
<1>7. CASE it.tag \in {66, 64}
  <2>1. ReadsNumbers("HandshakeMessage_Object", "controlTypesInOrder", 66)
    BY DEF ReadsNumbers, TurnOf, ParseHandshakeMessage_Object
  <2>2. ReadsNumbers("HandshakeMessage_Object", "controlTypesInOrder", 64)
    BY DEF ReadsNumbers, TurnOf, ParseHandshakeMessage_Object
  <2>3. TurnOf("HandshakeMessage_Object", m, it) = AddNumbers(m, "controlTypesInOrder", it)
    BY <1>7, <2>1, <2>2 DEF ReadsNumbers
  <2> QED BY <2>3, HandshakeMessage_ObjectTakes, KeepsNumbers
<1>8. CASE it.tag \notin {10, 16, 18, 26, 34, 48, 50, 58, 64, 66}
  <2>1. TurnOf("HandshakeMessage_Object", m, it) = Unknown(m, it)
    BY <1>8 DEF TurnOf, ParseHandshakeMessage_Object
  <2> QED BY <2>1, HandshakeMessage_ObjectTakes, KeepsUnknown
<1> QED BY <1>1, <1>2, <1>3, <1>4, <1>5, <1>6, <1>7, <1>8

(* What stands in the fields of settings. *)
LEMMA HandshakeMessage_SimulationSettingsTakes ==
  /\ Takes("HandshakeMessage_SimulationSettings", "timeStep", "any", "Number")
  /\ Takes("HandshakeMessage_SimulationSettings", "unknown", "items", "Number")
<1>1. \A m : Fits("HandshakeMessage_SimulationSettings", m) <=> FitsSettings(m)
  BY FitsByName
<1>2. Takes("HandshakeMessage_SimulationSettings", "timeStep", "any", "Number")
  <2> SUFFICES ASSUME NEW m, FitsSettings(m), NEW y, NEW m2, m2 = [m EXCEPT !["timeStep"] = y]
               PROVE  /\ "timeStep" \in DOMAIN m /\ Holds("any", "Number", m["timeStep"])
                      /\ Holds("any", "Number", y) => FitsSettings(m2)
    BY <1>1 DEF Takes
  <2>1. DOMAIN m = {"timeStep", "unknown"} /\ \A g \in DOMAIN m : InNumber(g, m[g])
    BY DEF FitsSettings, NewHandshakeMessage_SimulationSettings
  <2>2. DOMAIN m2 = DOMAIN m /\ \A g \in DOMAIN m : m2[g] = IF g = "timeStep" THEN y ELSE m[g]
    BY <2>1
  <2>3. \A x : InNumber("timeStep", x) <=> Holds("any", "Number", x)
    BY FitsByName DEF InNumber, Holds
  <2>4. Holds("any", "Number", y) => \A g \in DOMAIN m : InNumber(g, m2[g])
    BY <2>1, <2>2, <2>3
  <2> QED BY <2>1, <2>2, <2>3, <2>4 DEF FitsSettings
<1>3. Takes("HandshakeMessage_SimulationSettings", "unknown", "items", "Number")
  <2> SUFFICES ASSUME NEW m, FitsSettings(m), NEW y, NEW m2, m2 = [m EXCEPT !["unknown"] = y]
               PROVE  /\ "unknown" \in DOMAIN m /\ Holds("items", "Number", m["unknown"])
                      /\ Holds("items", "Number", y) => FitsSettings(m2)
    BY <1>1 DEF Takes
  <2>1. DOMAIN m = {"timeStep", "unknown"} /\ \A g \in DOMAIN m : InNumber(g, m[g])
    BY DEF FitsSettings, NewHandshakeMessage_SimulationSettings
  <2>2. DOMAIN m2 = DOMAIN m /\ \A g \in DOMAIN m : m2[g] = IF g = "unknown" THEN y ELSE m[g]
    BY <2>1
  <2>3. \A x : InNumber("unknown", x) <=> Holds("items", "Number", x)
    BY FitsByName DEF InNumber, Holds
  <2>4. Holds("items", "Number", y) => \A g \in DOMAIN m : InNumber(g, m2[g])
    BY <2>1, <2>2, <2>3
  <2> QED BY <2>1, <2>2, <2>3, <2>4 DEF FitsSettings
<1> QED BY <1>2, <1>3

(* Their parser keeps that so. *)
LEMMA HandshakeMessage_SimulationSettingsFits == KeepsFit("HandshakeMessage_SimulationSettings")
<1> SUFFICES ASSUME NEW m, Fits("HandshakeMessage_SimulationSettings", m), NEW it, ProperItem(it)
             PROVE  Fits("HandshakeMessage_SimulationSettings",
                         TurnOf("HandshakeMessage_SimulationSettings", m, it).msg)
  BY DEF KeepsFit
<1>1. CASE it.tag = 9
  <2>1. TurnOf("HandshakeMessage_SimulationSettings", m, it) = SetNumber(m, "timeStep", it)
    BY <1>1 DEF TurnOf, ParseHandshakeMessage_SimulationSettings
  <2> QED BY <2>1, HandshakeMessage_SimulationSettingsTakes, KeepsNumber
<1>2. CASE it.tag \notin {9}
  <2>1. TurnOf("HandshakeMessage_SimulationSettings", m, it) = Unknown(m, it)
    BY <1>2 DEF TurnOf, ParseHandshakeMessage_SimulationSettings
  <2> QED BY <2>1, HandshakeMessage_SimulationSettingsTakes, KeepsUnknown
<1> QED BY <1>1, <1>2

(* What stands in the fields of handshakes. *)
LEMMA HandshakeMessageTakes ==
  /\ Takes("HandshakeMessage", "messageType", "any", "Number")
  /\ Takes("HandshakeMessage", "version", "any", "Number")
  /\ Takes("HandshakeMessage", "controlType", "any", "Number")
  /\ Takes("HandshakeMessage", "objects", "map", "HandshakeMessage_Object")
  /\ Takes("HandshakeMessage", "simSettings", "messages", "HandshakeMessage_SimulationSettings")
  /\ Takes("HandshakeMessage", "unknown", "items", "Number")
<1>1. \A m : Fits("HandshakeMessage", m) <=> FitsHandshakeMessage(m)
  BY FitsByName
<1>2. Takes("HandshakeMessage", "messageType", "any", "Number")
  <2> SUFFICES ASSUME NEW m, FitsHandshakeMessage(m), NEW y, NEW m2,
                      m2 = [m EXCEPT !["messageType"] = y]
               PROVE  /\ "messageType" \in DOMAIN m /\ Holds("any", "Number", m["messageType"])
                      /\ Holds("any", "Number", y) => FitsHandshakeMessage(m2)
    BY <1>1 DEF Takes
  <2>1. /\ DOMAIN m = {"messageType", "version", "controlType", "objects", "simSettings", "unknown"}
        /\ \A g \in DOMAIN m : InHandshakeMessage(g, m[g])
    BY DEF FitsHandshakeMessage, NewHandshakeMessage
  <2>2. DOMAIN m2 = DOMAIN m /\ \A g \in DOMAIN m : m2[g] = IF g = "messageType" THEN y ELSE m[g]
    BY <2>1
  <2>3. \A x : InHandshakeMessage("messageType", x) <=> Holds("any", "Number", x)
    BY FitsByName DEF InHandshakeMessage, Holds
  <2>4. Holds("any", "Number", y) => \A g \in DOMAIN m : InHandshakeMessage(g, m2[g])
    BY <2>1, <2>2, <2>3
  <2> QED BY <2>1, <2>2, <2>3, <2>4 DEF FitsHandshakeMessage
<1>3. Takes("HandshakeMessage", "version", "any", "Number")
  <2> SUFFICES ASSUME NEW m, FitsHandshakeMessage(m), NEW y, NEW m2,
                      m2 = [m EXCEPT !["version"] = y]
               PROVE  /\ "version" \in DOMAIN m /\ Holds("any", "Number", m["version"])
                      /\ Holds("any", "Number", y) => FitsHandshakeMessage(m2)
    BY <1>1 DEF Takes
  <2>1. /\ DOMAIN m = {"messageType", "version", "controlType", "objects", "simSettings", "unknown"}
        /\ \A g \in DOMAIN m : InHandshakeMessage(g, m[g])
    BY DEF FitsHandshakeMessage, NewHandshakeMessage
  <2>2. DOMAIN m2 = DOMAIN m /\ \A g \in DOMAIN m : m2[g] = IF g = "version" THEN y ELSE m[g]
    BY <2>1
  <2>3. \A x : InHandshakeMessage("version", x) <=> Holds("any", "Number", x)
    BY FitsByName DEF InHandshakeMessage, Holds
  <2>4. Holds("any", "Number", y) => \A g \in DOMAIN m : InHandshakeMessage(g, m2[g])
    BY <2>1, <2>2, <2>3
  <2> QED BY <2>1, <2>2, <2>3, <2>4 DEF FitsHandshakeMessage
<1>4. Takes("HandshakeMessage", "controlType", "any", "Number")
  <2> SUFFICES ASSUME NEW m, FitsHandshakeMessage(m), NEW y, NEW m2,
                      m2 = [m EXCEPT !["controlType"] = y]
               PROVE  /\ "controlType" \in DOMAIN m /\ Holds("any", "Number", m["controlType"])
                      /\ Holds("any", "Number", y) => FitsHandshakeMessage(m2)
    BY <1>1 DEF Takes
  <2>1. /\ DOMAIN m = {"messageType", "version", "controlType", "objects", "simSettings", "unknown"}
        /\ \A g \in DOMAIN m : InHandshakeMessage(g, m[g])
    BY DEF FitsHandshakeMessage, NewHandshakeMessage
  <2>2. DOMAIN m2 = DOMAIN m /\ \A g \in DOMAIN m : m2[g] = IF g = "controlType" THEN y ELSE m[g]
    BY <2>1
  <2>3. \A x : InHandshakeMessage("controlType", x) <=> Holds("any", "Number", x)
    BY FitsByName DEF InHandshakeMessage, Holds
  <2>4. Holds("any", "Number", y) => \A g \in DOMAIN m : InHandshakeMessage(g, m2[g])
    BY <2>1, <2>2, <2>3
  <2> QED BY <2>1, <2>2, <2>3, <2>4 DEF FitsHandshakeMessage
<1>5. Takes("HandshakeMessage", "objects", "map", "HandshakeMessage_Object")
  <2> SUFFICES ASSUME NEW m, FitsHandshakeMessage(m), NEW y, NEW m2,
                      m2 = [m EXCEPT !["objects"] = y]
               PROVE  /\ "objects" \in DOMAIN m
                      /\ Holds("map", "HandshakeMessage_Object", m["objects"])
                      /\ Holds("map", "HandshakeMessage_Object", y) => FitsHandshakeMessage(m2)
    BY <1>1 DEF Takes
  <2>1. /\ DOMAIN m = {"messageType", "version", "controlType", "objects", "simSettings", "unknown"}
        /\ \A g \in DOMAIN m : InHandshakeMessage(g, m[g])
    BY DEF FitsHandshakeMessage, NewHandshakeMessage
  <2>2. DOMAIN m2 = DOMAIN m /\ \A g \in DOMAIN m : m2[g] = IF g = "objects" THEN y ELSE m[g]
    BY <2>1
  <2>3. \A x : InHandshakeMessage("objects", x) <=> Holds("map", "HandshakeMessage_Object", x)
    BY FitsByName DEF InHandshakeMessage, Holds
  <2>4. Holds("map", "HandshakeMessage_Object", y)
          => \A g \in DOMAIN m : InHandshakeMessage(g, m2[g])
    BY <2>1, <2>2, <2>3
  <2> QED BY <2>1, <2>2, <2>3, <2>4 DEF FitsHandshakeMessage
<1>6. Takes("HandshakeMessage", "simSettings", "messages", "HandshakeMessage_SimulationSettings")
  <2> SUFFICES ASSUME NEW m, FitsHandshakeMessage(m), NEW y, NEW m2,
                      m2 = [m EXCEPT !["simSettings"] = y]
               PROVE  /\ "simSettings" \in DOMAIN m
                      /\ Holds("messages", "HandshakeMessage_SimulationSettings", m["simSettings"])
                      /\ Holds("messages", "HandshakeMessage_SimulationSettings", y)
                           => FitsHandshakeMessage(m2)
    BY <1>1 DEF Takes
  <2>1. /\ DOMAIN m = {"messageType", "version", "controlType", "objects", "simSettings", "unknown"}
        /\ \A g \in DOMAIN m : InHandshakeMessage(g, m[g])
    BY DEF FitsHandshakeMessage, NewHandshakeMessage
  <2>2. DOMAIN m2 = DOMAIN m /\ \A g \in DOMAIN m : m2[g] = IF g = "simSettings" THEN y ELSE m[g]
    BY <2>1
  <2>3. \A x : InHandshakeMessage("simSettings", x) <=> Holds("messages",
          "HandshakeMessage_SimulationSettings", x)
    BY FitsByName DEF InHandshakeMessage, Holds
  <2>4. Holds("messages", "HandshakeMessage_SimulationSettings", y)
          => \A g \in DOMAIN m : InHandshakeMessage(g, m2[g])
    BY <2>1, <2>2, <2>3
  <2> QED BY <2>1, <2>2, <2>3, <2>4 DEF FitsHandshakeMessage
<1>7. Takes("HandshakeMessage", "unknown", "items", "Number")
  <2> SUFFICES ASSUME NEW m, FitsHandshakeMessage(m), NEW y, NEW m2,
                      m2 = [m EXCEPT !["unknown"] = y]
               PROVE  /\ "unknown" \in DOMAIN m /\ Holds("items", "Number", m["unknown"])
                      /\ Holds("items", "Number", y) => FitsHandshakeMessage(m2)
    BY <1>1 DEF Takes
  <2>1. /\ DOMAIN m = {"messageType", "version", "controlType", "objects", "simSettings", "unknown"}
        /\ \A g \in DOMAIN m : InHandshakeMessage(g, m[g])
    BY DEF FitsHandshakeMessage, NewHandshakeMessage
  <2>2. DOMAIN m2 = DOMAIN m /\ \A g \in DOMAIN m : m2[g] = IF g = "unknown" THEN y ELSE m[g]
    BY <2>1
  <2>3. \A x : InHandshakeMessage("unknown", x) <=> Holds("items", "Number", x)
    BY FitsByName DEF InHandshakeMessage, Holds
  <2>4. Holds("items", "Number", y) => \A g \in DOMAIN m : InHandshakeMessage(g, m2[g])
    BY <2>1, <2>2, <2>3
  <2> QED BY <2>1, <2>2, <2>3, <2>4 DEF FitsHandshakeMessage
<1> QED BY <1>2, <1>3, <1>4, <1>5, <1>6, <1>7

(* Their parser keeps that so. *)
LEMMA HandshakeMessageFits == KeepsFit("HandshakeMessage")
<1> SUFFICES ASSUME NEW m, Fits("HandshakeMessage", m), NEW it, ProperItem(it)
             PROVE  Fits("HandshakeMessage", TurnOf("HandshakeMessage", m, it).msg)
  BY DEF KeepsFit
<1>1. CASE it.tag = 8
  <2>1. TurnOf("HandshakeMessage", m, it) = SetNumber(m, "messageType", it)
    BY <1>1 DEF TurnOf, Turn, ParseHandshakeMessage
  <2> QED BY <2>1, HandshakeMessageTakes, KeepsNumber
<1>2. CASE it.tag = 16
  <2>1. TurnOf("HandshakeMessage", m, it) = SetNumber(m, "version", it)
    BY <1>2 DEF TurnOf, Turn, ParseHandshakeMessage
  <2> QED BY <2>1, HandshakeMessageTakes, KeepsNumber
<1>3. CASE it.tag = 24
  <2>1. TurnOf("HandshakeMessage", m, it) = SetNumber(m, "controlType", it)
    BY <1>3 DEF TurnOf, Turn, ParseHandshakeMessage
  <2> QED BY <2>1, HandshakeMessageTakes, KeepsNumber
<1>4. CASE it.tag = 34
  <2>1. /\ Fits("HandshakeMessage_Object", NewHandshakeMessage_Object)
        /\ KeepsFit("HandshakeMessage_Object")
    BY FitsByName, NewFits, HandshakeMessage_ObjectFits
  <2> QED BY <1>4, <2>1, HandshakeMessageTakes, HandshakeMessage_ObjectsEntry,
            KeepsEntries
<1>5. CASE it.tag = 42
  <2>1. /\ Fits("HandshakeMessage_SimulationSettings", NewHandshakeMessage_SimulationSettings)
        /\ KeepsFit("HandshakeMessage_SimulationSettings")
    BY FitsByName, NewFits, HandshakeMessage_SimulationSettingsFits
  <2> QED BY <1>5, <2>1, HandshakeMessageTakes, SettingsNested,
            KeepsMessage
<1>6. CASE it.tag \notin {8, 16, 24, 34, 42}
  <2>1. TurnOf("HandshakeMessage", m, it) = Unknown(m, it)
    BY <1>6 DEF TurnOf, Turn, ParseHandshakeMessage
  <2> QED BY <2>1, HandshakeMessageTakes, KeepsUnknown
<1> QED BY <1>1, <1>2, <1>3, <1>4, <1>5, <1>6
------------------------------------------------------------------------------
(* What is written of vectors is as long as announced. *)
LEMMA SensorMessage_Vec3Weighs ==
  ASSUME NEW m, FitsVec3(m)
  PROVE  Weighs(WriteSensorMessage_Vec3(m), SizeSensorMessage_Vec3(m))
<1> DEFINE s1 == WritePacked(10, m["arr"], EightBytes)
           n1 == SizePacked(m["arr"], EightBytes)
           s2 == m["unknown"]
           n2 == Bytes(m["unknown"])
<1>1. /\ Proper(m["unknown"])
      /\ Items(m["arr"])
  BY DEF FitsVec3, InVec3, NewSensorMessage_Vec3
<1>2. Weighs(s1, n1)
  BY <1>1, DoublesWeigh
<1>3. Weighs(s2, n2)
  BY <1>1, ProperSized
<1>4. WriteSensorMessage_Vec3(m) = s1 \o s2
  BY Zenon DEF WriteSensorMessage_Vec3
<1>5. SizeSensorMessage_Vec3(m) = n1 + n2
  BY Zenon DEF SizeSensorMessage_Vec3
<1> HIDE DEF s1, n1, s2, n2
<1>6. Weighs(s1 \o s2, n1 + n2)
  BY <1>2, <1>3, WeighsBoth
<1> QED BY <1>4, <1>5, <1>6

(* What is written of sensors, whose truth values are written as one byte  *)
(* is as long as announced.                                                *)
LEMMA SensorMessage_SensorWeighs ==
  ASSUME NEW m, FitsSensor(m)
  PROVE  Weighs(WriteSensorMessage_Sensor(m), SizeSensorMessage_Sensor(m))
<1> DEFINE s1 == If(m["case"] \in DoubleCases, WriteDouble(m["case"], m["num"]))
           n1 == SizeIf(m["case"] \in DoubleCases, 8)
           s2 == If(m["case"] = BoolCase, WriteVarint(BoolCase, m["num"]))
           n2 == SizeIf(m["case"] = BoolCase, 1)
           vec == m["vec"]
           s3 == If(m["case"] \in Vec3Cases, WriteSub(m["case"], WriteSensorMessage_Vec3(vec)))
           n3 == SizeIf(m["case"] \in Vec3Cases, LengthDelimitedSize(SizeSensorMessage_Vec3(vec)))
           s4 == m["unknown"]
           n4 == Bytes(m["unknown"])
<1>1. FitsVec3(vec) /\ Proper(s4) /\ (m["case"] = BoolCase => m["num"] \in {0, 1})
  BY DEF FitsSensor
<1>2. Weighs(s1, n1)
  BY DoubleWeighs
<1>3. Weighs(s2, n2)
  <2>1. Weighs(s2, SizeIf(m["case"] = BoolCase, VarintSize(m["num"])))
    BY NumberWeighs
  <2>2. m["case"] = BoolCase => VarintSize(m["num"]) = 1
    BY <1>1 DEF VarintSize
  <2> HIDE DEF s2
  <2> QED BY <2>1, <2>2 DEF SizeIf
<1>4. Weighs(s3, n3)
  <2> DEFINE t == WriteSensorMessage_Vec3(vec)
             n == SizeSensorMessage_Vec3(vec)
  <2>1. Weighs(t, n) /\ n \in Nat
    BY <1>1, SensorMessage_Vec3Weighs DEF Weighs
  <2> HIDE DEF t, n
  <2>2. /\ ProperItem(WriteSub(m["case"], t)) /\ LengthDelimitedSize(n) \in Nat
        /\ WriteSub(m["case"], t).size = 1 + LengthDelimitedSize(n)
    BY <2>1, SubItem, SizesAreNumbers
  <2>3. Weighs(If(m["case"] \in Vec3Cases, WriteSub(m["case"], t)),
               SizeIf(m["case"] \in Vec3Cases, LengthDelimitedSize(n)))
    BY <2>2, WeighsIf
  <2> QED BY <2>3 DEF t, n
<1>5. Weighs(s4, n4)
  BY <1>1, ProperSized
<1>6. WriteSensorMessage_Sensor(m) = s1 \o s2 \o s3 \o s4
  BY Zenon DEF WriteSensorMessage_Sensor
<1>7. SizeSensorMessage_Sensor(m) = n1 + n2 + n3 + n4
  BY Zenon DEF SizeSensorMessage_Sensor
<1> HIDE DEF s1, n1, s2, n2, s3, n3, s4, n4
<1>8. Weighs(s1 \o s2 \o s3 \o s4, n1 + n2 + n3 + n4)
  BY <1>2, <1>3, <1>4, <1>5, WeighsBoth
<1> QED BY <1>6, <1>7, <1>8

(* What is written of several sensors is as long as announced. *)
LEMMA SensorsWeigh ==
  ASSUME NEW tag, NEW xs, Items(xs), \A i \in DOMAIN xs : FitsSensor(xs[i])
  PROVE  Weighs(WriteSensors(tag, xs),
                SizeSensors(xs))
<1> DEFINE s == WriteSensors(tag, xs)
<1>1. /\ s = [i \in DOMAIN xs |-> s[i]]
      /\ \A i \in DOMAIN xs : s[i] = WriteSub(tag, WriteSensorMessage_Sensor(xs[i]))
  BY DEF WriteSensors
<1>2. ASSUME NEW i \in DOMAIN xs
      PROVE  ProperItem(s[i]) /\ s[i].size = SizeOf("sensors", xs[i])
  <2> DEFINE t == WriteSensorMessage_Sensor(xs[i])
             n == SizeSensorMessage_Sensor(xs[i])
  <2>1. Weighs(t, n)
    BY SensorMessage_SensorWeighs
  <2>2. s[i] = WriteSub(tag, t) /\ SizeOf("sensors", xs[i]) = 1 + LengthDelimitedSize(n)
    BY <1>1 DEF SizeOf
  <2> HIDE DEF s, t, n
  <2> QED BY <2>1, <2>2, SubItem
<1> HIDE DEF s
<1>3. Weighs(s, Total("sensors", xs))
  BY <1>1, <1>2, WeighsEach
<1>4. SizeSensors(xs) = Total("sensors", xs)
  BY SensorsAdd
<1> QED BY Zenon, <1>3, <1>4 DEF s

(* What is written of several vectors is as long as announced. *)
LEMMA VectorsWeigh ==
  ASSUME NEW tag, NEW xs, Items(xs), \A i \in DOMAIN xs : FitsVec3(xs[i])
  PROVE  Weighs([i \in DOMAIN xs |-> WriteSub(tag, WriteSensorMessage_Vec3(xs[i]))],
                Sum(LAMBDA v : 1 + LengthDelimitedSize(SizeSensorMessage_Vec3(v)), xs))
<1> DEFINE s == [i \in DOMAIN xs |-> WriteSub(tag, WriteSensorMessage_Vec3(xs[i]))]
<1>1. /\ s = [i \in DOMAIN xs |-> s[i]]
      /\ \A i \in DOMAIN xs : s[i] = WriteSub(tag, WriteSensorMessage_Vec3(xs[i]))
  BY DEF WriteSensors
<1>2. ASSUME NEW i \in DOMAIN xs
      PROVE  ProperItem(s[i]) /\ s[i].size = SizeOf("vectors", xs[i])
  <2> DEFINE t == WriteSensorMessage_Vec3(xs[i])
             n == SizeSensorMessage_Vec3(xs[i])
  <2>1. Weighs(t, n)
    BY SensorMessage_Vec3Weighs
  <2>2. s[i] = WriteSub(tag, t) /\ SizeOf("vectors", xs[i]) = 1 + LengthDelimitedSize(n)
    BY <1>1 DEF SizeOf
  <2> HIDE DEF s, t, n
  <2> QED BY <2>1, <2>2, SubItem
<1> HIDE DEF s
<1>3. Weighs(s, Total("vectors", xs))
  BY <1>1, <1>2, WeighsEach
<1>4. Sum(LAMBDA v : 1 + LengthDelimitedSize(SizeSensorMessage_Vec3(v)), xs) = Total("vectors", xs)
  BY VectorsAdd
<1> QED BY Zenon, <1>3, <1>4 DEF s

(* What is written of lists of sensors is as long as announced. *)
LEMMA SensorMessage_SensorsWeighs ==
  ASSUME NEW m, FitsSensors(m)
  PROVE  Weighs(WriteSensorMessage_Sensors(m), SizeSensorMessage_Sensors(m))
<1> DEFINE s1 == WriteSensors(10, m["sensor"])
           n1 == SizeSensors(m["sensor"])
           s2 == m["unknown"]
           n2 == Bytes(m["unknown"])
<1>1. /\ Proper(m["unknown"])
      /\ Items(m["sensor"]) /\ \A i \in DOMAIN m["sensor"] : FitsSensor(m["sensor"][i])
  BY DEF FitsSensors, InSensors, NewSensorMessage_Sensors
<1>2. Weighs(s1, n1)
  BY <1>1, SensorsWeigh
<1>3. Weighs(s2, n2)
  BY <1>1, ProperSized
<1>4. WriteSensorMessage_Sensors(m) = s1 \o s2
  BY Zenon DEF WriteSensorMessage_Sensors
<1>5. SizeSensorMessage_Sensors(m) = n1 + n2
  BY Zenon DEF SizeSensorMessage_Sensors
<1> HIDE DEF s1, n1, s2, n2
<1>6. Weighs(s1 \o s2, n1 + n2)
  BY <1>2, <1>3, WeighsBoth
<1> QED BY <1>4, <1>5, <1>6

(* What is written of what robots tell is as long as announced. *)
LEMMA SensorMessage_ObjectWeighs ==
  ASSUME NEW m, FitsSensorObject(m), NEW order
  PROVE  Weighs(WriteSensorMessage_Object(m, order), SizeSensorMessage_Object(m))
<1> DEFINE s1 == WritePacked(10, m["angleSensors"], EightBytes)
           n1 == SizePacked(m["angleSensors"], EightBytes)
           s2 == WritePacked(18, m["angularVelocitySensors"], EightBytes)
           n2 == SizePacked(m["angularVelocitySensors"], EightBytes)
           s3 == WritePacked(26, m["torqueSensors"], EightBytes)
           n3 == SizePacked(m["torqueSensors"], EightBytes)
           s4 == WriteSensors(34, m["objectSensors"])
           n4 == SizeSensors(m["objectSensors"])
           s5 == [i \in DOMAIN m["forceSensors"] |->
                  WriteSub(42, WriteSensorMessage_Vec3(m["forceSensors"][i]))]
           n5 == Sum(LAMBDA v : 1 + LengthDelimitedSize(SizeSensorMessage_Vec3(v)),
                     m["forceSensors"])
           s6 == WriteMap(50, m["sensors"], order, LAMBDA v :
                          WriteSub(18, WriteSensorMessage_Sensors(v)))
           n6 == SizeMap(m["sensors"], LAMBDA v : LengthDelimitedSize(SizeSensorMessage_Sensors(v)))
           s7 == m["unknown"]
           n7 == Bytes(m["unknown"])
<1>1. /\ Proper(m["unknown"])
      /\ Items(m["angleSensors"])
      /\ Items(m["angularVelocitySensors"])
      /\ Items(m["torqueSensors"])
      /\ Items(m["objectSensors"])
      /\ \A i \in DOMAIN m["objectSensors"] : FitsSensor(m["objectSensors"][i])
      /\ Items(m["forceSensors"])
      /\ \A i \in DOMAIN m["forceSensors"] : FitsVec3(m["forceSensors"][i])
      /\ IsMap(m["sensors"]) /\ \A k \in DOMAIN m["sensors"] : FitsSensors(m["sensors"][k])
  BY DEF FitsSensorObject, InSensorObject, NewSensorMessage_Object
<1>2. Weighs(s1, n1)
  BY <1>1, DoublesWeigh
<1>3. Weighs(s2, n2)
  BY <1>1, DoublesWeigh
<1>4. Weighs(s3, n3)
  BY <1>1, DoublesWeigh
<1>5. Weighs(s4, n4)
  BY <1>1, SensorsWeigh
<1>6. Weighs(s5, n5)
  BY <1>1, VectorsWeigh
<1>7. Weighs(s6, n6)
  <2> DEFINE map == m["sensors"]
  <2>1. /\ IsMap(map)
        /\ \A k \in DOMAIN map :
             Weighs(WriteSensorMessage_Sensors(map[k]), SizeSensorMessage_Sensors(map[k]))
    BY <1>1, SensorMessage_SensorsWeighs
  <2> HIDE DEF map
  <2>2. Weighs(WriteMap(50, map, order, LAMBDA v : WriteSub(18, WriteSensorMessage_Sensors(v))),
               SizeMap(map, LAMBDA v : LengthDelimitedSize(SizeSensorMessage_Sensors(v))))
    BY <2>1, SensorMessage_SensorsMapWeighs
  <2> QED BY Zenon, <2>2 DEF map
<1>8. Weighs(s7, n7)
  BY <1>1, ProperSized
<1>9. WriteSensorMessage_Object(m, order) = s1 \o s2 \o s3 \o s4 \o s5 \o s6 \o s7
  BY Zenon DEF WriteSensorMessage_Object
<1>10. SizeSensorMessage_Object(m) = n1 + n2 + n3 + n4 + n5 + n6 + n7
  BY Zenon DEF SizeSensorMessage_Object
<1> HIDE DEF s1, n1, s2, n2, s3, n3, s4, n4, s5, n5, s6, n6, s7, n7
<1>11. Weighs(s1 \o s2 \o s3 \o s4 \o s5 \o s6 \o s7, n1 + n2 + n3 + n4 + n5 + n6 + n7)
  BY <1>2, <1>3, <1>4, <1>5, <1>6, <1>7, <1>8, WeighsBoth
<1> QED BY <1>9, <1>10, <1>11

(* What is written of variables is as long as announced. *)
LEMMA SensorMessage_SimulationVariablesWeighs ==
  ASSUME NEW m, FitsVariables(m)
  PROVE  Weighs(WriteSensorMessage_SimulationVariables(m), SizeSensorMessage_SimulationVariables(m))
<1> DEFINE s1 == If(m["simulatedTime"] # 0, WriteDouble(9, m["simulatedTime"]))
           n1 == SizeIf(m["simulatedTime"] # 0, 8)
           s2 == m["unknown"]
           n2 == Bytes(m["unknown"])
<1>1. Proper(m["unknown"])
  BY DEF FitsVariables, InNumber, NewSensorMessage_SimulationVariables
<1>2. Weighs(s1, n1)
  BY DoubleWeighs
<1>3. Weighs(s2, n2)
  BY <1>1, ProperSized
<1>4. WriteSensorMessage_SimulationVariables(m) = s1 \o s2
  BY Zenon DEF WriteSensorMessage_SimulationVariables
<1>5. SizeSensorMessage_SimulationVariables(m) = n1 + n2
  BY Zenon DEF SizeSensorMessage_SimulationVariables
<1> HIDE DEF s1, n1, s2, n2
<1>6. Weighs(s1 \o s2, n1 + n2)
  BY <1>2, <1>3, WeighsBoth
<1> QED BY <1>4, <1>5, <1>6

(* So is the field that may hold them. *)
LEMMA VariablesWeigh ==
  ASSUME NEW tag, NEW xs, Items(xs), \A i \in DOMAIN xs : FitsVariables(xs[i])
  PROVE  Weighs([i \in DOMAIN xs |-> WriteSub(tag, WriteSensorMessage_SimulationVariables(xs[i]))],
                Sum(LAMBDA v : 1 + LengthDelimitedSize(SizeSensorMessage_SimulationVariables(v)),
                    xs))
<1> DEFINE s == [i \in DOMAIN xs |-> WriteSub(tag, WriteSensorMessage_SimulationVariables(xs[i]))]
<1>1. /\ s = [i \in DOMAIN xs |-> s[i]]
      /\ \A i \in DOMAIN xs : s[i] = WriteSub(tag, WriteSensorMessage_SimulationVariables(xs[i]))
  BY DEF WriteSensors
<1>2. ASSUME NEW i \in DOMAIN xs
      PROVE  ProperItem(s[i]) /\ s[i].size = SizeOf("variables", xs[i])
  <2> DEFINE t == WriteSensorMessage_SimulationVariables(xs[i])
             n == SizeSensorMessage_SimulationVariables(xs[i])
  <2>1. Weighs(t, n)
    BY SensorMessage_SimulationVariablesWeighs
  <2>2. s[i] = WriteSub(tag, t) /\ SizeOf("variables", xs[i]) = 1 + LengthDelimitedSize(n)
    BY <1>1 DEF SizeOf
  <2> HIDE DEF s, t, n
  <2> QED BY <2>1, <2>2, SubItem
<1> HIDE DEF s
<1>3. Weighs(s, Total("variables", xs))
  BY <1>1, <1>2, WeighsEach
<1>4. Sum(LAMBDA v : 1 + LengthDelimitedSize(SizeSensorMessage_SimulationVariables(v)), xs)
        = Total("variables", xs)
  BY VariablesAdd
<1> QED BY Zenon, <1>3, <1>4 DEF s

(* What is written of sensor messages is as long as announced. *)
LEMMA SensorMessageWeighs ==
  ASSUME NEW m, FitsSensorMessage(m), NEW order
  PROVE  Weighs(WriteSensorMessage(m, order), SizeSensorMessage(m))
<1> DEFINE s1 == If(m["messageType"] # 0, WriteVarint(8, m["messageType"]))
           n1 == SizeIf(m["messageType"] # 0, VarintSize(m["messageType"]))
           s2 == WriteMap(26, m["objects"], order, LAMBDA v :
                          WriteSub(18, WriteSensorMessage_Object(v, order)))
           n2 == SizeMap(m["objects"], LAMBDA v : LengthDelimitedSize(SizeSensorMessage_Object(v)))
           s3 == [i \in DOMAIN m["simVars"] |->
                  WriteSub(34, WriteSensorMessage_SimulationVariables(m["simVars"][i]))]
           n3 == Sum(LAMBDA v : 1 + LengthDelimitedSize(SizeSensorMessage_SimulationVariables(v)),
                     m["simVars"])
           s4 == m["unknown"]
           n4 == Bytes(m["unknown"])
<1>1. /\ Proper(m["unknown"])
      /\ IsMap(m["objects"]) /\ \A k \in DOMAIN m["objects"] : FitsSensorObject(m["objects"][k])
      /\ Items(m["simVars"]) /\ \A i \in DOMAIN m["simVars"] : FitsVariables(m["simVars"][i])
  BY DEF FitsSensorMessage, InSensorMessage, NewSensorMessage
<1>2. Weighs(s1, n1)
  BY NumberWeighs
<1>3. Weighs(s2, n2)
  <2> DEFINE map == m["objects"]
  <2>1. /\ IsMap(map)
        /\ \A k \in DOMAIN map :
             Weighs(WriteSensorMessage_Object(map[k], order), SizeSensorMessage_Object(map[k]))
    BY <1>1, SensorMessage_ObjectWeighs
  <2> HIDE DEF map
  <2>2. Weighs(SensorMessage_ObjectEntries(26, map, order),
               SizeMap(map, LAMBDA v : LengthDelimitedSize(SizeSensorMessage_Object(v))))
    BY <2>1, SensorMessage_ObjectMapWeighs
  <2> QED BY Zenon, <2>2 DEF map, SensorMessage_ObjectEntries
<1>4. Weighs(s3, n3)
  BY <1>1, VariablesWeigh
<1>5. Weighs(s4, n4)
  BY <1>1, ProperSized
<1>6. WriteSensorMessage(m, order) = s1 \o s2 \o s3 \o s4
  BY Zenon DEF WriteSensorMessage
<1>7. SizeSensorMessage(m) = n2 + n3 + n1 + n4
  BY Zenon DEF SizeSensorMessage
<1> HIDE DEF s1, n1, s2, n2, s3, n3, s4, n4
<1>8. Weighs(s1 \o s2 \o s3 \o s4, n1 + n2 + n3 + n4)
  BY <1>2, <1>3, <1>4, <1>5, WeighsBoth
<1>9. n2 + n3 + n1 + n4 = n1 + n2 + n3 + n4
  BY <1>2, <1>3, <1>4, <1>5 DEF Weighs
<1> QED BY <1>6, <1>7, <1>8, <1>9

(* What is written of lists of types is as long as announced. *)
LEMMA HandshakeMessage_SensorsWeighs ==
  ASSUME NEW m, FitsTypes(m)
  PROVE  Weighs(WriteHandshakeMessage_Sensors(m), SizeHandshakeMessage_Sensors(m))
<1> DEFINE s1 == WritePacked(10, m["types"], SizeNumber)
           n1 == SizePacked(m["types"], SizeNumber)
           s2 == m["unknown"]
           n2 == Bytes(m["unknown"])
<1>1. /\ Proper(m["unknown"])
      /\ Items(m["types"])
  BY DEF FitsTypes, InTypes, NewHandshakeMessage_Sensors
<1>2. Weighs(s1, n1)
  BY <1>1, PackedWeighs
<1>3. Weighs(s2, n2)
  BY <1>1, ProperSized
<1>4. WriteHandshakeMessage_Sensors(m) = s1 \o s2
  BY Zenon DEF WriteHandshakeMessage_Sensors
<1>5. SizeHandshakeMessage_Sensors(m) = n1 + n2
  BY Zenon DEF SizeHandshakeMessage_Sensors
<1> HIDE DEF s1, n1, s2, n2
<1>6. Weighs(s1 \o s2, n1 + n2)
  BY <1>2, <1>3, WeighsBoth
<1> QED BY <1>4, <1>5, <1>6

(* What is written of descriptions is as long as announced. *)
LEMMA HandshakeMessage_ObjectWeighs ==
  ASSUME NEW m, FitsHandshakeObject(m), NEW order
  PROVE  Weighs(WriteHandshakeMessage_Object(m, order), SizeHandshakeMessage_Object(m))
<1> DEFINE s1 == WriteStrings(10, m["controlsInOrder"])
           n1 == SizeStrings(m["controlsInOrder"])
           s2 == WritePacked(18, m["jointSensors"], SizeNumber)
           n2 == SizePacked(m["jointSensors"], SizeNumber)
           s3 == WriteMap(26, m["controlEvents"], order, LAMBDA v : WriteVarint(16, v))
           n3 == SizeMap(m["controlEvents"], VarintSize)
           s4 == WriteMap(34, m["sensors"], order, LAMBDA v :
                          WriteSub(18, WriteHandshakeMessage_Sensors(v)))
           n4 == SizeMap(m["sensors"], LAMBDA v :
                         LengthDelimitedSize(SizeHandshakeMessage_Sensors(v)))
           s5 == WritePacked(50, m["objectSensors"], SizeNumber)
           n5 == SizePacked(m["objectSensors"], SizeNumber)
           s6 == WriteStrings(58, m["jointSensorsInOrder"])
           n6 == SizeStrings(m["jointSensorsInOrder"])
           s7 == WritePacked(66, m["controlTypesInOrder"], SizeNumber)
           n7 == SizePacked(m["controlTypesInOrder"], SizeNumber)
           s8 == m["unknown"]
           n8 == Bytes(m["unknown"])
<1>1. /\ Proper(m["unknown"])
      /\ Items(m["controlsInOrder"])
      /\ Items(m["jointSensors"])
      /\ IsMap(m["controlEvents"])
      /\ IsMap(m["sensors"]) /\ \A k \in DOMAIN m["sensors"] : FitsTypes(m["sensors"][k])
      /\ Items(m["objectSensors"])
      /\ Items(m["jointSensorsInOrder"])
      /\ Items(m["controlTypesInOrder"])
  BY DEF FitsHandshakeObject, InHandshakeObject, NewHandshakeMessage_Object
<1>2. Weighs(s1, n1)
  BY <1>1, StringsWeigh
<1>3. Weighs(s2, n2)
  BY <1>1, PackedWeighs
<1>4. Weighs(s3, n3)
  BY <1>1, NumberMapWeighs
<1>5. Weighs(s4, n4)
  <2> DEFINE map == m["sensors"]
  <2>1. /\ IsMap(map)
        /\ \A k \in DOMAIN map :
             Weighs(WriteHandshakeMessage_Sensors(map[k]), SizeHandshakeMessage_Sensors(map[k]))
    BY <1>1, HandshakeMessage_SensorsWeighs
  <2> HIDE DEF map
  <2>2. Weighs(WriteMap(34, map, order, LAMBDA v : WriteSub(18, WriteHandshakeMessage_Sensors(v))),
               SizeMap(map, LAMBDA v : LengthDelimitedSize(SizeHandshakeMessage_Sensors(v))))
    BY <2>1, HandshakeMessage_SensorsMapWeighs
  <2> QED BY Zenon, <2>2 DEF map
<1>6. Weighs(s5, n5)
  BY <1>1, PackedWeighs
<1>7. Weighs(s6, n6)
  BY <1>1, StringsWeigh
<1>8. Weighs(s7, n7)
  BY <1>1, PackedWeighs
<1>9. Weighs(s8, n8)
  BY <1>1, ProperSized
<1>10. WriteHandshakeMessage_Object(m, order) = s1 \o s2 \o s3 \o s4 \o s5 \o s6 \o s7 \o s8
  BY Zenon DEF WriteHandshakeMessage_Object
<1>11. SizeHandshakeMessage_Object(m) = n1 + n2 + n3 + n4 + n5 + n6 + n7 + n8
  BY Zenon DEF SizeHandshakeMessage_Object
<1> HIDE DEF s1, n1, s2, n2, s3, n3, s4, n4, s5, n5, s6, n6, s7, n7, s8, n8
<1>12. Weighs(s1 \o s2 \o s3 \o s4 \o s5 \o s6 \o s7 \o s8, n1 + n2 + n3 + n4 + n5 + n6 + n7 + n8)
  BY <1>2, <1>3, <1>4, <1>5, <1>6, <1>7, <1>8, <1>9, WeighsBoth
<1> QED BY <1>10, <1>11, <1>12

(* What is written of settings is as long as announced. *)
LEMMA HandshakeMessage_SimulationSettingsWeighs ==
  ASSUME NEW m, FitsSettings(m)
  PROVE  Weighs(WriteHandshakeMessage_SimulationSettings(m),
                SizeHandshakeMessage_SimulationSettings(m))
<1> DEFINE s1 == If(m["timeStep"] # 0, WriteDouble(9, m["timeStep"]))
           n1 == SizeIf(m["timeStep"] # 0, 8)
           s2 == m["unknown"]
           n2 == Bytes(m["unknown"])
<1>1. Proper(m["unknown"])
  BY DEF FitsSettings, InNumber, NewHandshakeMessage_SimulationSettings
<1>2. Weighs(s1, n1)
  BY DoubleWeighs
<1>3. Weighs(s2, n2)
  BY <1>1, ProperSized
<1>4. WriteHandshakeMessage_SimulationSettings(m) = s1 \o s2
  BY Zenon DEF WriteHandshakeMessage_SimulationSettings
<1>5. SizeHandshakeMessage_SimulationSettings(m) = n1 + n2
  BY Zenon DEF SizeHandshakeMessage_SimulationSettings
<1> HIDE DEF s1, n1, s2, n2
<1>6. Weighs(s1 \o s2, n1 + n2)
  BY <1>2, <1>3, WeighsBoth
<1> QED BY <1>4, <1>5, <1>6

(* So is the field that may hold them. *)
LEMMA SettingsWeigh ==
  ASSUME NEW tag, NEW xs, Items(xs), \A i \in DOMAIN xs : FitsSettings(xs[i])
  PROVE  Weighs([i \in DOMAIN xs |->
                 WriteSub(tag, WriteHandshakeMessage_SimulationSettings(xs[i]))],
                Sum(LAMBDA v : 1 + LengthDelimitedSize(SizeHandshakeMessage_SimulationSettings(v)),
                    xs))
<1> DEFINE s == [i \in DOMAIN xs |-> WriteSub(tag, WriteHandshakeMessage_SimulationSettings(xs[i]))]
<1>1. /\ s = [i \in DOMAIN xs |-> s[i]]
      /\ \A i \in DOMAIN xs : s[i] = WriteSub(tag, WriteHandshakeMessage_SimulationSettings(xs[i]))
  BY DEF WriteSensors
<1>2. ASSUME NEW i \in DOMAIN xs
      PROVE  ProperItem(s[i]) /\ s[i].size = SizeOf("settings", xs[i])
  <2> DEFINE t == WriteHandshakeMessage_SimulationSettings(xs[i])
             n == SizeHandshakeMessage_SimulationSettings(xs[i])
  <2>1. Weighs(t, n)
    BY HandshakeMessage_SimulationSettingsWeighs
  <2>2. s[i] = WriteSub(tag, t) /\ SizeOf("settings", xs[i]) = 1 + LengthDelimitedSize(n)
    BY <1>1 DEF SizeOf
  <2> HIDE DEF s, t, n
  <2> QED BY <2>1, <2>2, SubItem
<1> HIDE DEF s
<1>3. Weighs(s, Total("settings", xs))
  BY <1>1, <1>2, WeighsEach
<1>4. Sum(LAMBDA v : 1 + LengthDelimitedSize(SizeHandshakeMessage_SimulationSettings(v)), xs)
        = Total("settings", xs)
  BY SettingsAdd
<1> QED BY Zenon, <1>3, <1>4 DEF s

(* What is written of handshakes is as long as announced. *)
LEMMA HandshakeMessageWeighs ==
  ASSUME NEW m, FitsHandshakeMessage(m), NEW order
  PROVE  Weighs(WriteHandshakeMessage(m, order), SizeHandshakeMessage(m))
<1> DEFINE s1 == If(m["messageType"] # 0, WriteVarint(8, m["messageType"]))
           n1 == SizeIf(m["messageType"] # 0, VarintSize(m["messageType"]))
           s2 == If(m["version"] # 0, WriteVarint(16, m["version"]))
           n2 == SizeIf(m["version"] # 0, VarintSize(m["version"]))
           s3 == If(m["controlType"] # 0, WriteVarint(24, m["controlType"]))
           n3 == SizeIf(m["controlType"] # 0, VarintSize(m["controlType"]))
           s4 == WriteMap(34, m["objects"], order, LAMBDA v :
                          WriteSub(18, WriteHandshakeMessage_Object(v, order)))
           n4 == SizeMap(m["objects"], LAMBDA v :
                         LengthDelimitedSize(SizeHandshakeMessage_Object(v)))
           s5 == [i \in DOMAIN m["simSettings"] |->
                  WriteSub(42, WriteHandshakeMessage_SimulationSettings(m["simSettings"][i]))]
           n5 == Sum(LAMBDA v : 1 + LengthDelimitedSize(SizeHandshakeMessage_SimulationSettings(v)),
                     m["simSettings"])
           s6 == m["unknown"]
           n6 == Bytes(m["unknown"])
<1>1. /\ Proper(m["unknown"])
      /\ IsMap(m["objects"]) /\ \A k \in DOMAIN m["objects"] : FitsHandshakeObject(m["objects"][k])
      /\ Items(m["simSettings"])
      /\ \A i \in DOMAIN m["simSettings"] : FitsSettings(m["simSettings"][i])
  BY DEF FitsHandshakeMessage, InHandshakeMessage, NewHandshakeMessage
<1>2. Weighs(s1, n1)
  BY NumberWeighs
<1>3. Weighs(s2, n2)
  BY NumberWeighs
<1>4. Weighs(s3, n3)
  BY NumberWeighs
<1>5. Weighs(s4, n4)
  <2> DEFINE map == m["objects"]
  <2>1. /\ IsMap(map)
        /\ \A k \in DOMAIN map :
             Weighs(WriteHandshakeMessage_Object(map[k], order),
                    SizeHandshakeMessage_Object(map[k]))
    BY <1>1, HandshakeMessage_ObjectWeighs
  <2> HIDE DEF map
  <2>2. Weighs(HandshakeMessage_ObjectEntries(34, map, order),
               SizeMap(map, LAMBDA v : LengthDelimitedSize(SizeHandshakeMessage_Object(v))))
    BY <2>1, HandshakeMessage_ObjectMapWeighs
  <2> QED BY Zenon, <2>2 DEF map, HandshakeMessage_ObjectEntries
<1>6. Weighs(s5, n5)
  BY <1>1, SettingsWeigh
<1>7. Weighs(s6, n6)
  BY <1>1, ProperSized
<1>8. WriteHandshakeMessage(m, order) = s1 \o s2 \o s3 \o s4 \o s5 \o s6
  BY Zenon DEF WriteHandshakeMessage
<1>9. SizeHandshakeMessage(m) = n4 + n5 + n1 + n2 + n3 + n6
  BY Zenon DEF SizeHandshakeMessage
<1> HIDE DEF s1, n1, s2, n2, s3, n3, s4, n4, s5, n5, s6, n6
<1>10. Weighs(s1 \o s2 \o s3 \o s4 \o s5 \o s6, n1 + n2 + n3 + n4 + n5 + n6)
  BY <1>2, <1>3, <1>4, <1>5, <1>6, <1>7, WeighsBoth
<1>11. n4 + n5 + n1 + n2 + n3 + n6 = n1 + n2 + n3 + n4 + n5 + n6
  BY <1>2, <1>3, <1>4, <1>5, <1>6, <1>7 DEF Weighs
<1> QED BY <1>8, <1>9, <1>10, <1>11

(* What is written of what robots are told is as long as announced. *)
LEMMA ControlMessage_ObjectWeighs ==
  ASSUME NEW m, IsControlObject(m), NEW order
  PROVE  Weighs(WriteControlMessage_Object(m, order), SizeControlMessage_Object(m))
<1> DEFINE s1 == WritePacked(10, m["angles"], EightBytes)
           n1 == SizePacked(m["angles"], EightBytes)
           s2 == WritePacked(18, m["angularVelocities"], EightBytes)
           n2 == SizePacked(m["angularVelocities"], EightBytes)
           s3 == WritePacked(26, m["torques"], EightBytes)
           n3 == SizePacked(m["torques"], EightBytes)
           s4 == WriteMap(34, m["controlEvents"], order, LAMBDA v : WriteVarint(16, v))
           n4 == SizeMap(m["controlEvents"], VarintSize)
           s5 == WritePacked(42, m["values"], EightBytes)
           n5 == SizePacked(m["values"], EightBytes)
           s6 == m["unknown"]
           n6 == Bytes(m["unknown"])
<1>1. /\ Proper(m["unknown"])
      /\ Items(m["angles"])
      /\ Items(m["angularVelocities"])
      /\ Items(m["torques"])
      /\ IsMap(m["controlEvents"])
      /\ Items(m["values"])
  BY WeighsNothing DEF IsControlObject, IsA
<1>2. Weighs(s1, n1)
  BY <1>1, DoublesWeigh
<1>3. Weighs(s2, n2)
  BY <1>1, DoublesWeigh
<1>4. Weighs(s3, n3)
  BY <1>1, DoublesWeigh
<1>5. Weighs(s4, n4)
  BY <1>1, NumberMapWeighs
<1>6. Weighs(s5, n5)
  BY <1>1, DoublesWeigh
<1>7. Weighs(s6, n6)
  BY <1>1, ProperSized
<1>8. WriteControlMessage_Object(m, order) = s1 \o s2 \o s3 \o s4 \o s5 \o s6
  BY Zenon DEF WriteControlMessage_Object
<1>9. SizeControlMessage_Object(m) = n1 + n2 + n3 + n4 + n5 + n6
  BY Zenon DEF SizeControlMessage_Object
<1> HIDE DEF s1, n1, s2, n2, s3, n3, s4, n4, s5, n5, s6, n6
<1>10. Weighs(s1 \o s2 \o s3 \o s4 \o s5 \o s6, n1 + n2 + n3 + n4 + n5 + n6)
  BY <1>2, <1>3, <1>4, <1>5, <1>6, <1>7, WeighsBoth
<1> QED BY <1>8, <1>9, <1>10

(* What is written of control messages is as long as announced. *)
LEMMA ControlMessageWeighs ==
  ASSUME NEW m, IsControlMessage(m), NEW order
  PROVE  Weighs(WriteControlMessage(m, order), SizeControlMessage(m))
<1> DEFINE s1 == If(m["messageType"] # 0, WriteVarint(8, m["messageType"]))
           n1 == SizeIf(m["messageType"] # 0, VarintSize(m["messageType"]))
           s2 == WriteMap(18, m["objects"], order, LAMBDA v :
                          WriteSub(18, WriteControlMessage_Object(v, order)))
           n2 == SizeMap(m["objects"], LAMBDA v : LengthDelimitedSize(SizeControlMessage_Object(v)))
           s3 == m["unknown"]
           n3 == Bytes(m["unknown"])
<1>1. /\ Proper(m["unknown"])
      /\ IsMap(m["objects"]) /\ \A k \in DOMAIN m["objects"] : IsControlObject(m["objects"][k])
  BY WeighsNothing DEF IsControlMessage, IsA
<1>2. Weighs(s1, n1)
  BY NumberWeighs
<1>3. Weighs(s2, n2)
  <2> DEFINE map == m["objects"]
  <2>1. /\ IsMap(map)
        /\ \A k \in DOMAIN map :
             Weighs(WriteControlMessage_Object(map[k], order), SizeControlMessage_Object(map[k]))
    BY <1>1, ControlMessage_ObjectWeighs
  <2> HIDE DEF map
  <2>2. Weighs(ControlMessage_ObjectEntries(18, map, order),
               SizeMap(map, LAMBDA v : LengthDelimitedSize(SizeControlMessage_Object(v))))
    BY <2>1, ControlMessage_ObjectMapWeighs
  <2> QED BY Zenon, <2>2 DEF map, ControlMessage_ObjectEntries
<1>4. Weighs(s3, n3)
  BY <1>1, ProperSized
<1>5. WriteControlMessage(m, order) = s1 \o s2 \o s3
  BY Zenon DEF WriteControlMessage
<1>6. SizeControlMessage(m) = n2 + n1 + n3
  BY Zenon DEF SizeControlMessage
<1> HIDE DEF s1, n1, s2, n2, s3, n3
<1>7. Weighs(s1 \o s2 \o s3, n1 + n2 + n3)
  BY <1>2, <1>3, <1>4, WeighsBoth
<1>8. n2 + n1 + n3 = n1 + n2 + n3
  BY <1>2, <1>3, <1>4 DEF Weighs
<1> QED BY <1>5, <1>6, <1>7, <1>8

(* What is written of first messages is as long as announced. *)
LEMMA HandshakeInitMessageWeighs ==
  ASSUME NEW m, IsHandshakeInitMessage(m)
  PROVE  Weighs(WriteHandshakeInitMessage(m), SizeHandshakeInitMessage(m))
<1> DEFINE s1 == If(m["messageType"] # 0, WriteVarint(8, m["messageType"]))
           n1 == SizeIf(m["messageType"] # 0, VarintSize(m["messageType"]))
           s2 == If(m["version"] # 0, WriteVarint(16, m["version"]))
           n2 == SizeIf(m["version"] # 0, VarintSize(m["version"]))
           s3 == m["unknown"]
           n3 == Bytes(m["unknown"])
<1>1. Proper(m["unknown"])
  BY WeighsNothing DEF IsHandshakeInitMessage, IsA
<1>2. Weighs(s1, n1)
  BY NumberWeighs
<1>3. Weighs(s2, n2)
  BY NumberWeighs
<1>4. Weighs(s3, n3)
  BY <1>1, ProperSized
<1>5. WriteHandshakeInitMessage(m) = s1 \o s2 \o s3
  BY Zenon DEF WriteHandshakeInitMessage
<1>6. SizeHandshakeInitMessage(m) = n1 + n2 + n3
  BY Zenon DEF SizeHandshakeInitMessage
<1> HIDE DEF s1, n1, s2, n2, s3, n3
<1>7. Weighs(s1 \o s2 \o s3, n1 + n2 + n3)
  BY <1>2, <1>3, <1>4, WeighsBoth
<1> QED BY <1>5, <1>6, <1>7

(* What is written of resets is as long as announced. *)
LEMMA ResetMessageWeighs ==
  ASSUME NEW m, IsResetMessage(m)
  PROVE  Weighs(WriteResetMessage(m), SizeResetMessage(m))
<1> DEFINE s1 == If(m["messageType"] # 0, WriteVarint(8, m["messageType"]))
           n1 == SizeIf(m["messageType"] # 0, VarintSize(m["messageType"]))
           s2 == m["unknown"]
           n2 == Bytes(m["unknown"])
<1>1. Proper(m["unknown"])
  BY WeighsNothing DEF IsResetMessage, IsA
<1>2. Weighs(s1, n1)
  BY NumberWeighs
<1>3. Weighs(s2, n2)
  BY <1>1, ProperSized
<1>4. WriteResetMessage(m) = s1 \o s2
  BY Zenon DEF WriteResetMessage
<1>5. SizeResetMessage(m) = n1 + n2
  BY Zenon DEF SizeResetMessage
<1> HIDE DEF s1, n1, s2, n2
<1>6. Weighs(s1 \o s2, n1 + n2)
  BY <1>2, <1>3, WeighsBoth
<1> QED BY <1>4, <1>5, <1>6

(* What is written of requests is as long as announced. *)
LEMMA SensorRequestMessageWeighs ==
  ASSUME NEW m, IsSensorRequestMessage(m)
  PROVE  Weighs(WriteSensorRequestMessage(m), SizeSensorRequestMessage(m))
<1> DEFINE s1 == If(m["messageType"] # 0, WriteVarint(8, m["messageType"]))
           n1 == SizeIf(m["messageType"] # 0, VarintSize(m["messageType"]))
           s2 == m["unknown"]
           n2 == Bytes(m["unknown"])
<1>1. Proper(m["unknown"])
  BY WeighsNothing DEF IsSensorRequestMessage, IsA
<1>2. Weighs(s1, n1)
  BY NumberWeighs
<1>3. Weighs(s2, n2)
  BY <1>1, ProperSized
<1>4. WriteSensorRequestMessage(m) = s1 \o s2
  BY Zenon DEF WriteSensorRequestMessage
<1>5. SizeSensorRequestMessage(m) = n1 + n2
  BY Zenon DEF SizeSensorRequestMessage
<1> HIDE DEF s1, n1, s2, n2
<1>6. Weighs(s1 \o s2, n1 + n2)
  BY <1>2, <1>3, WeighsBoth
<1> QED BY <1>4, <1>5, <1>6

(* What is written of errors is as long as announced. *)
LEMMA ErrorMessageWeighs ==
  ASSUME NEW m, IsErrorMessage(m)
  PROVE  Weighs(WriteErrorMessage(m), SizeErrorMessage(m))
<1> DEFINE s1 == If(m["messageType"] # 0, WriteVarint(8, m["messageType"]))
           n1 == SizeIf(m["messageType"] # 0, VarintSize(m["messageType"]))
           s2 == If(m["error"] # 0, WriteVarint(16, m["error"]))
           n2 == SizeIf(m["error"] # 0, VarintSize(m["error"]))
           s3 == If(m["errormessage"] # "", WriteString(26, m["errormessage"]))
           n3 == SizeIf(m["errormessage"] # "", StringSize(m["errormessage"]))
           s4 == m["unknown"]
           n4 == Bytes(m["unknown"])
<1>1. Proper(m["unknown"])
  BY WeighsNothing DEF IsErrorMessage, IsA
<1>2. Weighs(s1, n1)
  BY NumberWeighs
<1>3. Weighs(s2, n2)
  BY NumberWeighs
<1>4. Weighs(s3, n3)
  BY StringWeighs
<1>5. Weighs(s4, n4)
  BY <1>1, ProperSized
<1>6. WriteErrorMessage(m) = s1 \o s2 \o s3 \o s4
  BY Zenon DEF WriteErrorMessage
<1>7. SizeErrorMessage(m) = n1 + n2 + n3 + n4
  BY Zenon DEF SizeErrorMessage
<1> HIDE DEF s1, n1, s2, n2, s3, n3, s4, n4
<1>8. Weighs(s1 \o s2 \o s3 \o s4, n1 + n2 + n3 + n4)
  BY <1>2, <1>3, <1>4, <1>5, WeighsBoth
<1> QED BY <1>6, <1>7, <1>8
------------------------------------------------------------------------------
(* Messages that were made fit as well: vectors, *)
LEMMA Vec3Is ==
  ASSUME NEW m, IsVec3(m)
  PROVE  FitsVec3(m)
<1>1. /\ DOMAIN m = DOMAIN NewSensorMessage_Vec3 /\ m["unknown"] = <<>> /\ Items(m["arr"])
      /\ Proper(<<>>)
  BY WeighsNothing DEF IsVec3, IsA
<1> QED BY <1>1 DEF FitsVec3, InVec3

(* sensors, *)
LEMMA SensorIs ==
  ASSUME NEW m, IsSensor(m)
  PROVE  FitsSensor(m)
<1>1. /\ DOMAIN m = DOMAIN NewSensorMessage_Sensor /\ m["unknown"] = <<>> /\ Proper(<<>>)
  BY SensorParts, WeighsNothing DEF NewSensorMessage_Sensor
<1>2. FitsVec3(m["vec"])
  BY SensorParts, Vec3Is
<1>3. m["case"] = BoolCase => m["num"] \in {0, 1}
  <2> SUFFICES ASSUME m["case"] = BoolCase PROVE m["num"] \in {0, 1}
    OBVIOUS
  <2>1. m = SetScalar(NewSensorMessage_Sensor, BoolCase, m["num"])
    BY SensorParts
  <2>2. \A x : SetScalar(NewSensorMessage_Sensor, BoolCase, x)["num"] = Truth(x)
    BY DEF SetScalar, NewSensorMessage_Sensor
  <2>3. \A x : Truth(x) \in {0, 1}
    BY DEF Truth
  <2> QED BY <2>1, <2>2, <2>3
<1> QED BY <1>1, <1>2, <1>3 DEF FitsSensor

(* lists of them, *)
LEMMA SensorsAre ==
  ASSUME NEW m, IsSensors(m)
  PROVE  FitsSensors(m)
<1>1. /\ DOMAIN m = DOMAIN NewSensorMessage_Sensors /\ m["unknown"] = <<>> /\ Proper(<<>>)
      /\ Items(m["sensor"]) /\ \A i \in DOMAIN m["sensor"] : FitsSensor(m["sensor"][i])
  BY WeighsNothing, SensorIs DEF IsSensors, IsA
<1> QED BY <1>1 DEF FitsSensors, InSensors

(* what robots tell, *)
LEMMA SensorObjectIs ==
  ASSUME NEW m, IsSensorObject(m)
  PROVE  FitsSensorObject(m)
<1>1. DOMAIN m = DOMAIN NewSensorMessage_Object /\ m["unknown"] = <<>> /\ Proper(<<>>)
  BY WeighsNothing DEF IsSensorObject, IsA
<1>2. \A f \in {"angleSensors", "angularVelocitySensors", "torqueSensors", "objectSensors",
                "forceSensors"} : Items(m[f])
  BY DEF IsSensorObject
<1>3. /\ \A i \in DOMAIN m["objectSensors"] : FitsSensor(m["objectSensors"][i])
      /\ \A i \in DOMAIN m["forceSensors"] : FitsVec3(m["forceSensors"][i])
      /\ IsMap(m["sensors"]) /\ \A k \in DOMAIN m["sensors"] : FitsSensors(m["sensors"][k])
  BY SensorIs, Vec3Is, SensorsAre DEF IsSensorObject
<1> QED BY <1>1, <1>2, <1>3 DEF FitsSensorObject, InSensorObject

(* a message that need not be there, *)
LEMMA OneOfThem ==
  ASSUME NEW xs, NEW new, OneOf(xs, new)
  PROVE  /\ Items(xs)
         /\ \A i \in DOMAIN xs : DOMAIN xs[i] = DOMAIN new /\ Proper(xs[i]["unknown"])
<1>1. Items(<<>>) /\ DOMAIN <<>> = {} /\ Proper(<<>>)
  BY WeighsNothing DEF Proper
<1>2. CASE xs = <<>>
  BY <1>1, <1>2
<1>3. ASSUME NEW x, xs = <<x>>, IsA(x, new)
      PROVE  /\ Items(xs)
             /\ \A i \in DOMAIN xs : DOMAIN xs[i] = DOMAIN new /\ Proper(xs[i]["unknown"])
  <2>1. Items(xs) /\ DOMAIN xs = 1..1 /\ xs[1] = x
    BY <1>3, OneElement
  <2>2. \A i \in DOMAIN xs : xs[i] = x
    BY <2>1
  <2> QED BY <1>1, <1>3, <2>1, <2>2 DEF IsA
<1> QED BY <1>2, <1>3 DEF OneOf

(* sensor messages, *)
LEMMA SensorMessageIs ==
  ASSUME NEW m, IsSensorMessage(m)
  PROVE  FitsSensorMessage(m)
<1>1. /\ DOMAIN m = DOMAIN NewSensorMessage /\ m["unknown"] = <<>> /\ Proper(<<>>)
      /\ OneOf(m["simVars"], NewSensorMessage_SimulationVariables)
  BY WeighsNothing DEF IsSensorMessage, IsA
<1>2. IsMap(m["objects"]) /\ \A k \in DOMAIN m["objects"] : FitsSensorObject(m["objects"][k])
  BY SensorObjectIs DEF IsSensorMessage
<1>3. Items(m["simVars"]) /\ \A i \in DOMAIN m["simVars"] : FitsVariables(m["simVars"][i])
  BY <1>1, OneOfThem DEF FitsVariables, InNumber
<1> QED BY <1>1, <1>2, <1>3 DEF FitsSensorMessage, InSensorMessage

(* lists of types, *)
LEMMA TypesAre ==
  ASSUME NEW m, IsHandshakeSensors(m)
  PROVE  FitsTypes(m)
<1>1. /\ DOMAIN m = DOMAIN NewHandshakeMessage_Sensors /\ m["unknown"] = <<>>
      /\ Items(m["types"]) /\ Proper(<<>>)
  BY WeighsNothing DEF IsHandshakeSensors, IsA
<1> QED BY <1>1 DEF FitsTypes, InTypes

(* descriptions *)
LEMMA HandshakeObjectIs ==
  ASSUME NEW m, IsHandshakeObject(m)
  PROVE  FitsHandshakeObject(m)
<1>1. DOMAIN m = DOMAIN NewHandshakeMessage_Object /\ m["unknown"] = <<>> /\ Proper(<<>>)
  BY WeighsNothing DEF IsHandshakeObject, IsA
<1>2. \A f \in {"controlsInOrder", "jointSensors", "objectSensors", "jointSensorsInOrder",
                "controlTypesInOrder"} : Items(m[f])
  BY DEF IsHandshakeObject
<1>3. /\ IsMap(m["controlEvents"])
      /\ IsMap(m["sensors"]) /\ \A k \in DOMAIN m["sensors"] : FitsTypes(m["sensors"][k])
  BY TypesAre DEF IsHandshakeObject
<1> QED BY <1>1, <1>2, <1>3 DEF FitsHandshakeObject, InHandshakeObject

(* and handshakes. *)
LEMMA HandshakeMessageIs ==
  ASSUME NEW m, IsHandshakeMessage(m)
  PROVE  FitsHandshakeMessage(m)
<1>1. /\ DOMAIN m = DOMAIN NewHandshakeMessage /\ m["unknown"] = <<>> /\ Proper(<<>>)
      /\ OneOf(m["simSettings"], NewHandshakeMessage_SimulationSettings)
  BY WeighsNothing DEF IsHandshakeMessage, IsA
<1>2. IsMap(m["objects"]) /\ \A k \in DOMAIN m["objects"] : FitsHandshakeObject(m["objects"][k])
  BY HandshakeObjectIs DEF IsHandshakeMessage
<1>3. /\ Items(m["simSettings"])
      /\ \A i \in DOMAIN m["simSettings"] : FitsSettings(m["simSettings"][i])
  BY <1>1, OneOfThem DEF FitsSettings, InNumber
<1> QED BY <1>1, <1>2, <1>3 DEF FitsHandshakeMessage, InHandshakeMessage

(* What any message that was made is announced with is what it takes, *)
LEMMA MadeWeighs ==
  ASSUME NEW k \in Kinds, NEW m, Sound(k, m), NEW order
  PROVE  Weighs(Write(k, m, order), ByteSize(k, m))
<1> USE DEF Sound, Write, ByteSize
<1>1. CASE k = "HandshakeInitMessage"
  BY <1>1, HandshakeInitMessageWeighs
<1>2. CASE k = "HandshakeMessage"
  BY <1>2, HandshakeMessageIs, HandshakeMessageWeighs
<1>3. CASE k = "ControlMessage"
  BY <1>3, ControlMessageWeighs
<1>4. CASE k = "SensorMessage"
  BY <1>4, SensorMessageIs, SensorMessageWeighs
<1>5. CASE k = "ResetMessage"
  BY <1>5, ResetMessageWeighs
<1>6. CASE k = "ErrorMessage"
  BY <1>6, ErrorMessageWeighs
<1>7. CASE k = "SensorRequestMessage"
  BY <1>7, SensorRequestMessageWeighs
<1> QED BY <1>1, <1>2, <1>3, <1>4, <1>5, <1>6, <1>7 DEF Kinds, TypeNumber

(* The messages that are read from a stream. *)
Streamed == {"SensorMessage", "HandshakeMessage"}

(* So it is with these, whatever was read. *)
LEMMA ReadWeighs ==
  ASSUME NEW k \in Streamed, NEW m, Fits(k, m), NEW order
  PROVE  Weighs(Write(k, m, order), ByteSize(k, m))
<1>1. CASE k = "SensorMessage"
  BY <1>1, FitsByName, SensorMessageWeighs DEF Write, ByteSize
<1>2. CASE k = "HandshakeMessage"
  BY <1>2, FitsByName, HandshakeMessageWeighs DEF Write, ByteSize
<1> QED BY <1>1, <1>2 DEF Streamed

(* What is read fits. *)
LEMMA ParseFits ==
  ASSUME NEW k \in Streamed, NEW s, Proper(s)
  PROVE  Fits(k, Parse(k, New(k), s).msg)
<1>1. k \in Kinds
  BY DEF Streamed, Kinds, TypeNumber
<1>2. Fits(k, New(k)) /\ KeepsFit(k)
  <2>1. CASE k = "SensorMessage"
    BY <2>1, FitsByName, NewFits, SensorMessageFits DEF New
  <2>2. CASE k = "HandshakeMessage"
    BY <2>2, FitsByName, NewFits, HandshakeMessageFits DEF New
  <2> QED BY <2>1, <2>2 DEF Streamed
<1> DEFINE new == New(k)
<1>3. new = New(k)
  OBVIOUS
<1>4. Parse(k, new, s) = Every!Fold(k, Parsed(new, TRUE), s)
  BY <1>1, ParseEvery
<1> HIDE DEF new
<1>5. Fits(k, Every!Fold(k, Parsed(new, TRUE), s).msg)
  BY <1>2, <1>3, FoldFits
<1> QED BY <1>3, <1>4, <1>5
------------------------------------------------------------------------------
(* Bytes that end too soon. *)

(* What is left of an item. *)
LEMMA ProperCut ==
  ASSUME NEW it, ProperItem(it), NEW subs, \A sub \in subs : Proper(sub), NEW garbage,
         NEW x \in CutShort(it, subs, garbage)
  PROVE  ProperItem(x)
<1>1. PICK sub \in subs : \E num : Items(num) /\ x = Cut(it, num, sub)
  <2>1. \A g : Items(<<g>>)
    BY OneElement
  <2>2. Items(<<>>)
    BY DEF Items
  <2> QED BY <2>1, <2>2 DEF CutShort
<1>2. PICK num : Items(num) /\ x = Cut(it, num, sub)
  BY <1>1
<1>3. x.size = it.size /\ x.num = num /\ x.sub = sub
  BY <1>2 DEF Cut
<1>4. it.size \in Nat
  BY ProperParts
<1> QED BY <1>1, <1>2, <1>3, <1>4, ProperMade

(* What is left in front of an item. *)
LEMMA ProperPrefix ==
  ASSUME NEW s, Proper(s), NEW n \in 0..Len(s)
  PROVE  Proper(SubSeq(s, 1, n))
<1>1. Items(s) /\ DOMAIN s = 1..Len(s) /\ Len(s) \in Nat /\ \A i \in DOMAIN s : ProperItem(s[i])
  BY ItemsDomain DEF Proper
<1> DEFINE u == SubSeq(s, 1, n)
<1>2. Items(u) /\ DOMAIN u = 1..n /\ \A i \in 1..n : u[i] = s[i]
  BY <1>1, Prefix
<1>3. \A i \in 1..n : i \in DOMAIN s
  BY <1>1
<1> HIDE DEF u
<1>4. Proper(u)
  BY <1>1, <1>2, <1>3 DEF Proper
<1> QED BY <1>4 DEF u

(* One more item. *)
LEMMA ProperMore ==
  ASSUME NEW s, Proper(s), NEW x, ProperItem(x)
  PROVE  Proper(Append(s, x))
BY ItemsGrow DEF Proper, Grown

(* All that is left. *)
LEMMA ProperLeft ==
  ASSUME NEW s, Proper(s), NEW n \in DOMAIN s, NEW subs, \A sub \in subs : Proper(sub),
         NEW garbage, NEW x \in CutShort(s[n], subs, garbage)
  PROVE  Proper(Append(SubSeq(s, 1, n - 1), x))
<1>1. DOMAIN s = 1..Len(s) /\ Len(s) \in Nat /\ ProperItem(s[n])
  BY ItemsDomain DEF Proper
<1>2. n - 1 \in 0..Len(s)
  BY <1>1
<1> QED BY <1>1, <1>2, ProperCut, ProperPrefix, ProperMore

(* The items in front of the end. *)
LEMMA ProperPrefixes ==
  ASSUME NEW s, Proper(s), NEW u \in Prefixes0(s)
  PROVE  Proper(u)
<1>1. PICK n \in 0..(Len(s) - 1) : u = SubSeq(s, 1, n)
  BY DEF Prefixes0
<1>2. Len(s) \in Nat
  BY ItemsDomain DEF Proper
<1>3. n \in 0..Len(s)
  BY <1>1, <1>2
<1> QED BY <1>1, <1>3, ProperPrefix

(* What is left within an item, *)
LEMMA ProperInside ==
  ASSUME NEW s, Proper(s), NEW garbage, NEW u \in CutInside(s, garbage)
  PROVE  Proper(u)
<1>1. CASE u \in Prefixes0(s)
  BY <1>1, ProperPrefixes
<1>2. CASE u \notin Prefixes0(s)
  <2>1. PICK n \in DOMAIN s :
          u \in {Append(SubSeq(s, 1, n - 1), cut) :
                   cut \in CutShort(s[n], {<<>>} \cup Prefixes0(s[n].sub), garbage)}
    BY <1>2 DEF CutInside, CutBetween
  <2> DEFINE subs == {<<>>} \cup Prefixes0(s[n].sub)
  <2>2. \A sub \in subs : Proper(sub)
    <3>1. Proper(s[n].sub)
      BY ProperParts DEF Proper
    <3> QED BY <3>1, WeighsNothing, ProperPrefixes
  <2>3. PICK cut \in CutShort(s[n], subs, garbage) : u = Append(SubSeq(s, 1, n - 1), cut)
    BY <2>1
  <2> HIDE DEF subs
  <2> QED BY <2>2, <2>3, ProperLeft
<1> QED BY <1>1, <1>2

(* and of a frame. *)
LEMMA ProperDamaged ==
  ASSUME NEW s, Proper(s), NEW garbage, NEW u \in Cuts(s, garbage) \cup {Padded(s)}
  PROVE  Proper(u)
<1>1. CASE u \in Prefixes0(s)
  BY <1>1, ProperPrefixes
<1>2. CASE u \in Cuts(s, garbage) /\ u \notin Prefixes0(s)
  <2>1. PICK n \in DOMAIN s :
          u \in {Append(SubSeq(s, 1, n - 1), cut) :
                   cut \in CutShort(s[n], {<<>>} \cup CutInside(s[n].sub, garbage), garbage)}
    BY <1>2 DEF Cuts, CutBetween
  <2> DEFINE subs == {<<>>} \cup CutInside(s[n].sub, garbage)
  <2>2. \A sub \in subs : Proper(sub)
    <3>1. Proper(s[n].sub)
      BY ProperParts DEF Proper
    <3> QED BY <3>1, WeighsNothing, ProperInside
  <2>3. PICK cut \in CutShort(s[n], subs, garbage) : u = Append(SubSeq(s, 1, n - 1), cut)
    BY <2>1
  <2> HIDE DEF subs
  <2> QED BY <2>2, <2>3, ProperLeft
<1>3. CASE u = Padded(s)
  <2>1. Items(<<>>) /\ 0 \in Nat
    BY DEF Items
  <2>2. ProperItem(Item(0, <<>>, "", <<>>, 0))
    BY <2>1, WeighsNothing, ItemProper
  <2> QED BY <1>3, <2>2, ProperMore DEF Padded
<1> QED BY <1>1, <1>2, <1>3
------------------------------------------------------------------------------
(* The invariant: all bytes there are have a size, and messages from a     *)
(* stream are of their classes' form.                                      *)
Measured ==
  /\ frame # NoFrame => Proper(frame)
  /\ got.from = "stream" => got.kind \in Streamed /\ Fits(got.kind, got.msg)

(* Every step keeps it, *)
LEMMA NextMeasured == IInv /\ Sent /\ Measured /\ [Next]_vars => Measured'
<1> SUFFICES ASSUME IInv, Sent, Measured, [Next]_vars PROVE Measured'
  OBVIOUS
<1>1. CASE UNCHANGED vars
  BY <1>1 DEF vars, Measured
<1>2. ASSUME NEW k \in Kinds, Create(k)
      PROVE  Measured'
  BY <1>2 DEF Create, Measured
<1>3. CASE Edit
  BY <1>3 DEF Edit, Measured
<1>4. ASSUME NEW order \in Orders, SerializeToBytes(order)
      PROVE  Measured'
  <2>1. kind # NoKind /\ frame' = Write(kind, pm, order) /\ UNCHANGED got
    BY <1>4 DEF SerializeToBytes
  <2>2. kind \in Kinds /\ Sound(kind, pm)
    BY <2>1 DEF IInv, Sent
  <2>3. Proper(frame')
    BY <2>1, <2>2, MadeWeighs DEF Weighs
  <2> QED BY <2>1, <2>3 DEF Measured
<1>5. CASE Damage
  <2>1. frame # NoFrame /\ frame' \in Cuts(frame, Garbage) \cup {Padded(frame)} /\ UNCHANGED got
    BY <1>5 DEF Damage
  <2>2. Proper(frame')
    BY <2>1, ProperDamaged DEF Measured
  <2> QED BY <2>1, <2>2 DEF Measured
<1>6. ASSUME Unread, NEW from, from # "stream",
             got' = Raised(from) \/ \E k : got' = Received(from, k, frame)
      PROVE  Measured'
  <2>1. got'.from = from
    BY <1>6 DEF Raised, Received, NoMessage
  <2> QED BY <1>6, <2>1 DEF Unread, Measured
<1>7. CASE CppFromBytes
  BY <1>6, <1>7 DEF CppFromBytes
<1>8. CASE PyFromBytes
  <2>1. Unread /\ (got' = Raised("py") \/ \E k : got' = Received("py", k, frame))
    BY <1>8 DEF PyFromBytes
  <2> QED BY <1>6, <2>1
<1>9. ASSUME NEW k \in Streamed, FromIStream(k)
      PROVE  Measured'
  <2>1. frame # NoFrame /\ UNCHANGED frame /\ got' = Received("stream", k, frame)
    BY <1>9 DEF FromIStream, Unread
  <2>2. got'.kind = k /\ got'.msg = Parse(k, New(k), frame).msg
    BY <2>1 DEF Received
  <2>3. Fits(k, Parse(k, New(k), frame).msg)
    BY <2>1, ParseFits DEF Measured
  <2> QED BY <2>1, <2>2, <2>3 DEF Measured
<1>10. ASSUME NEW k, Cast(k)
       PROVE  Measured'
  <2>1. /\ got'.from = got.from /\ got'.kind = got.kind /\ got'.msg = got.msg
        /\ UNCHANGED frame
    BY <1>10 DEF Cast
  <2> QED BY <2>1 DEF Measured
<1>11. "SensorMessage" \in Streamed /\ "HandshakeMessage" \in Streamed
  BY DEF Streamed
<1> QED
  BY <1>1, <1>2, <1>3, <1>4, <1>5, <1>7, <1>8, <1>9, <1>10, <1>11
  DEF Next, SensorMessageFromIStream, HandshakeMessageFromIStream,
      ToSensorMessage, ToHandshakeMessage

(* and it says that sizes agree. *)
LEMMA MeasuredAgrees == IInv /\ Sent /\ Measured => SizesAgree
<1> SUFFICES ASSUME IInv, Sent, Measured, NEW order \in Orders
             PROVE  /\ kind # NoKind /\ frame = NoFrame
                         => ByteSize(kind, pm) = Bytes(Write(kind, pm, order))
                    /\ got.from = "stream"
                         => ByteSize(got.kind, got.msg) = Bytes(Write(got.kind, got.msg, order))
  BY DEF SizesAgree
<1>1. kind # NoKind => Weighs(Write(kind, pm, order), ByteSize(kind, pm))
  <2>1. kind # NoKind => kind \in Kinds /\ Sound(kind, pm)
    BY DEF IInv, Sent
  <2> QED BY <2>1, MadeWeighs
<1>2. got.from = "stream" => Weighs(Write(got.kind, got.msg, order), ByteSize(got.kind, got.msg))
  BY ReadWeighs DEF Measured
<1> QED BY <1>1, <1>2 DEF Weighs

(* Whatever message is made, in whatever order its maps are written, and   *)
(* whatever is read from a file, also from one that ends too soon:         *)
(* ByteSizeLong(), from which the buffer and the lengths in front of       *)
(* messages come, is what _InternalSerialize() then writes.                *)
THEOREM SizesHold == Spec => []SizesAgree
<1>1. Init => Sent /\ Measured
  BY DEF Init, Sent, Measured, NoMessage, NoKind
<1>2. Spec => [](Sent /\ Measured)
  BY <1>1, Invariant, NextSent, NextMeasured, PTL DEF Spec
<1> QED BY <1>2, Invariant, MeasuredAgrees, PTL
==============================================================================
