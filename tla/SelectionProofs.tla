--------------------------- MODULE SelectionProofs ---------------------------
(***************************************************************************)
(* What Selected returns: facts about sequences, by the least number for   *)
(* which they fail.                                                        *)
(***************************************************************************)
EXTENDS Selection, SequenceTheorems, WellFoundedInduction, TLAPS

LEMMA LeastElement ==
  ASSUME NEW T, T \subseteq Nat, T # {}
  PROVE  \E n \in T : \A m \in T : n <= m
<1> DEFINE R == OpToRel(<, Nat)
<1>1. R = {ss \in Nat \X Nat : ss[1] < ss[2]}
  BY DEF OpToRel
<1>2. \E n \in T : \A m \in T : <<m, n>> \notin R
  BY NatLessThanWellFounded, WFMin, Zenon
<1> HIDE DEF R
<1>3. PICK n \in T : \A m \in T : <<m, n>> \notin R
  BY <1>2
<1>4. ASSUME NEW m \in T PROVE n <= m
  <2>1. <<m, n>> \notin R /\ m \in Nat /\ n \in Nat
    BY <1>3
  <2>2. ~(m < n)
    BY <1>1, <2>1
  <2> QED
    BY <2>1, <2>2
<1> QED
  BY <1>4

-----------------------------------------------------------------------------
(* The function inside Selected, on the first k elements.                  *)

UpToNext(f, s, T, n) ==
  IF n = 0 THEN <<>> ELSE IF s[n] \in T THEN Append(f[n - 1], s[n]) ELSE f[n - 1]

IsUpTo(f, s, T, k) == f = [n \in 0 .. k |-> UpToNext(f, s, T, n)]

LEMMA UpToExists ==
  ASSUME NEW s, NEW T, NEW k \in Nat
  PROVE  \E f : IsUpTo(f, s, T, k)
<1> DEFINE Bad == {n \in Nat : ~\E f : IsUpTo(f, s, T, n)}
<1>1. SUFFICES ASSUME Bad # {} PROVE FALSE
  OBVIOUS
<1>2. PICK n \in Bad : \A m \in Bad : n <= m
  <2>1. Bad \subseteq Nat
    OBVIOUS
  <2> HIDE DEF Bad
  <2> QED
    BY <1>1, <2>1, LeastElement
<1>3. n # 0
  <2>1. IsUpTo([m \in 0 .. 0 |-> <<>>], s, T, 0)
    BY DEF IsUpTo, UpToNext
  <2> QED
    BY <1>2, <2>1
<1>4. n - 1 \in Nat /\ n \in Nat /\ n - 1 \notin Bad
  BY <1>2, <1>3
<1>5. PICK f : IsUpTo(f, s, T, n - 1)
  BY <1>4
<1>6. PICK g : g = [m \in 0 .. n |-> IF m = n THEN UpToNext(f, s, T, n) ELSE f[m]]
  OBVIOUS
<1>7. ASSUME NEW m \in 0 .. n PROVE g[m] = UpToNext(g, s, T, m)
  <2>1. m = 0 \/ m - 1 \in 0 .. n - 1
    BY <1>4
  <2>2. m # 0 => g[m - 1] = f[m - 1]
    BY <2>1, <1>4, <1>6
  <2>3. UpToNext(g, s, T, m) = UpToNext(f, s, T, m)
    BY <2>2 DEF UpToNext
  <2>4. m # n => m \in 0 .. n - 1
    BY <1>4
  <2>5. m # n => f[m] = UpToNext(f, s, T, m)
    BY <2>4, <1>5 DEF IsUpTo
  <2> QED
    BY <2>3, <2>5, <1>6
<1>8. IsUpTo(g, s, T, n)
  BY <1>6, <1>7 DEF IsUpTo
<1> QED
  BY <1>2, <1>8

\* What the function says of its values.
UpToFits(f, s, T, k) ==
  /\ f[0] = <<>>
  /\ \A n \in 1 .. k : f[n] = IF s[n] \in T THEN Append(f[n - 1], s[n]) ELSE f[n - 1]

\* Selected(s, T) is the value of such a function at the length of s.
LEMMA SelectedIs ==
  ASSUME NEW s, NEW T, NEW k \in Nat, k = Len(s)
  PROVE  \E f : UpToFits(f, s, T, k) /\ Selected(s, T) = f[k]
<1> DEFINE Body(f) == [n \in 0 .. k |->
                         IF n = 0 THEN <<>>
                         ELSE IF s[n] \in T THEN Append(f[n - 1], s[n]) ELSE f[n - 1]]
           F == CHOOSE f : f = Body(f)
<1>1. \E f : f = Body(f)
  <2>1. PICK f : IsUpTo(f, s, T, k)
    BY UpToExists
  <2>2. f = Body(f)
    BY <2>1 DEF IsUpTo, UpToNext
  <2> QED
    BY <2>2
<1>2. F = Body(F)
  BY <1>1
<1>3. Selected(s, T) = F[k]
  BY DEF Selected
<1> HIDE DEF F
<1>4. UpToFits(F, s, T, k)
  <2>1. 0 \in 0 .. k /\ \A n \in 1 .. k : n \in 0 .. k /\ n # 0
    OBVIOUS
  <2>2. \A n \in 0 .. k : F[n] = UpToNext(F, s, T, n)
    BY <1>2 DEF UpToNext
  <2> QED
    BY <2>1, <2>2 DEF UpToFits, UpToNext
<1> QED
  BY <1>3, <1>4

\* What holds for the first values of such a function, it holds for the last:
\* Holds is the set of the numbers for which it holds.
LEMMA Reaches ==
  ASSUME NEW k \in Nat, NEW Holds, 0 \in Holds,
         \A n \in 1 .. k : n - 1 \in Holds => n \in Holds
  PROVE  \A n \in 0 .. k : n \in Holds
<1> DEFINE Bad == {n \in 0 .. k : n \notin Holds}
<1>1. SUFFICES ASSUME Bad # {} PROVE FALSE
  OBVIOUS
<1>2. PICK n \in Bad : \A m \in Bad : n <= m
  <2>1. Bad \subseteq Nat
    OBVIOUS
  <2> HIDE DEF Bad
  <2> QED
    BY <1>1, <2>1, LeastElement
<1>3. n \in 1 .. k /\ n - 1 \in 0 .. k /\ ~(n <= n - 1)
  BY <1>2
<1>4. n - 1 \in Holds
  BY <1>2, <1>3
<1> QED
  BY <1>2, <1>3, <1>4

LEMMA UpToTyped ==
  ASSUME NEW S, NEW s \in Seq(S), NEW T, NEW k \in Nat, k = Len(s),
         NEW f, UpToFits(f, s, T, k)
  PROVE  \A n \in 0 .. k : f[n] \in Seq(S \cap T)
<1> DEFINE Holds == {n \in 0 .. k : f[n] \in Seq(S \cap T)}
<1>1. /\ f[0] = <<>>
      /\ \A n \in 1 .. k : f[n] = IF s[n] \in T THEN Append(f[n - 1], s[n]) ELSE f[n - 1]
  BY DEF UpToFits
<1>2. 0 \in Holds
  <2>1. <<>> \in Seq(S \cap T) /\ 0 \in 0 .. k
    OBVIOUS
  <2> QED
    BY <1>1, <2>1
<1>3. ASSUME NEW n \in 1 .. k, n - 1 \in Holds PROVE n \in Holds
  <2>1. s[n] \in S /\ n \in 0 .. k
    OBVIOUS
  <2>2. f[n - 1] \in Seq(S \cap T)
    BY <1>3
  <2>3. s[n] \in T => Append(f[n - 1], s[n]) \in Seq(S \cap T)
    BY <2>1, <2>2
  <2>4. f[n] \in Seq(S \cap T)
    BY <1>1, <2>2, <2>3
  <2> QED
    BY <2>1, <2>4
<1>4. \A n \in 0 .. k : n \in Holds
  <2> HIDE DEF Holds
  <2> QED
    BY <1>2, <1>3, Reaches
<1> QED
  BY <1>4

LEMMA SelectedTyped ==
  ASSUME NEW S, NEW s \in Seq(S), NEW T
  PROVE  Selected(s, T) \in Seq(S \cap T)
<1>1. PICK k \in Nat : k = Len(s) /\ k \in 0 .. k
  OBVIOUS
<1>2. PICK f : UpToFits(f, s, T, k) /\ Selected(s, T) = f[k]
  BY <1>1, SelectedIs, Zenon
<1>3. \A n \in 0 .. k : f[n] \in Seq(S \cap T)
  BY <1>1, <1>2, UpToTyped, Zenon
<1> QED
  BY <1>1, <1>2, <1>3

\* The values depend on the elements so far only, and of these on those in T.
SameSelected(s, r, T, m) == \A n \in 1 .. m : s[n] = r[n] \/ {s[n], r[n]} \cap T = {}

LEMMA UpToSame ==
  ASSUME NEW s, NEW r, NEW T, NEW k \in Nat, NEW l \in Nat, NEW f, NEW g,
         NEW m \in Nat, m <= k, m <= l,
         UpToFits(f, s, T, k), UpToFits(g, r, T, l), SameSelected(s, r, T, m)
  PROVE  f[m] = g[m]
<1> USE DEF SameSelected
<1> DEFINE Holds == {n \in 0 .. m : f[n] = g[n]}
<1>1. /\ f[0] = <<>>
      /\ \A n \in 1 .. k : f[n] = IF s[n] \in T THEN Append(f[n - 1], s[n]) ELSE f[n - 1]
  BY DEF UpToFits
<1>2. /\ g[0] = <<>>
      /\ \A n \in 1 .. l : g[n] = IF r[n] \in T THEN Append(g[n - 1], r[n]) ELSE g[n - 1]
  BY DEF UpToFits
<1>3. 0 \in Holds
  BY <1>1, <1>2
<1>4. ASSUME NEW n \in 1 .. m, n - 1 \in Holds PROVE n \in Holds
  <2>1. n \in 1 .. k /\ n \in 1 .. l /\ n \in 0 .. m
    OBVIOUS
  <2>2. f[n] = g[n]
    BY <1>1, <1>2, <1>4, <2>1
  <2> QED
    BY <2>1, <2>2
<1>5. \A n \in 0 .. m : n \in Holds
  <2>1. m \in Nat
    OBVIOUS
  <2> HIDE DEF Holds
  <2> QED
    BY <1>3, <1>4, <2>1, Reaches
<1> QED
  BY <1>5

LEMMA SelectedEmpty == ASSUME NEW T PROVE Selected(<<>>, T) = <<>>
<1>1. 0 \in Nat /\ 0 = Len(<<>>)
  OBVIOUS
<1>2. PICK f : UpToFits(f, <<>>, T, 0) /\ Selected(<<>>, T) = f[0]
  BY <1>1, SelectedIs, Zenon
<1> QED
  BY <1>2 DEF UpToFits

LEMMA SelectedAppend ==
  ASSUME NEW S, NEW s \in Seq(S), NEW x \in S, NEW T
  PROVE  Selected(Append(s, x), T) =
           IF x \in T THEN Append(Selected(s, T), x) ELSE Selected(s, T)
<1>1. PICK r : r = Append(s, x)
  OBVIOUS
<1>2. PICK k \in Nat : k = Len(s)
  OBVIOUS
<1>3. PICK l \in Nat : l = Len(r) /\ l = k + 1
  BY <1>1, <1>2
<1>4. r[l] = x /\ SameSelected(s, r, T, k)
  BY <1>1, <1>2, <1>3 DEF SameSelected
<1>5. PICK f : UpToFits(f, s, T, k) /\ Selected(s, T) = f[k]
  BY <1>2, SelectedIs, Zenon
<1>6. PICK g : UpToFits(g, r, T, l) /\ Selected(r, T) = g[l]
  BY <1>3, SelectedIs, Zenon
<1>7. l \in 1 .. l /\ l - 1 = k /\ k <= k /\ k <= l
  BY <1>3
<1>8. f[k] = g[k]
  <2>1. UpToFits(f, s, T, k) /\ UpToFits(g, r, T, l) /\ SameSelected(s, r, T, k) /\ k <= k /\ k <= l
    BY <1>4, <1>5, <1>6, <1>7
  <2> QED
    BY <2>1, UpToSame
<1>9. g[l] = IF x \in T THEN Append(g[k], x) ELSE g[k]
  BY <1>4, <1>6, <1>7 DEF UpToFits
<1> QED
  BY <1>1, <1>5, <1>6, <1>8, <1>9

\* Only elements of s are selected, each as often as it is in s.
LEMMA SelectedMember ==
  ASSUME NEW S, NEW s \in Seq(S), NEW T, NEW p \in 1 .. Len(Selected(s, T))
  PROVE  Selected(s, T)[p] \in T /\ \E i \in 1 .. Len(s) : s[i] = Selected(s, T)[p]
<1> DEFINE R == {s[i] : i \in 1 .. Len(s)}
<1>1. s \in Seq(R)
  OBVIOUS
<1>2. \A x \in R : \E i \in 1 .. Len(s) : s[i] = x
  OBVIOUS
<1> HIDE DEF R
<1>3. Selected(s, T) \in Seq(R \cap T)
  BY <1>1, SelectedTyped
<1>4. Selected(s, T)[p] \in R \cap T
  BY <1>3
<1> QED
  BY <1>2, <1>4

IsOnce(s) == \A i, j \in 1 .. Len(s) : s[i] = s[j] => i = j

LEMMA SelectedOnce ==
  ASSUME NEW S, NEW s \in Seq(S), NEW T, IsOnce(s)
  PROVE  IsOnce(Selected(s, T))
<1>1. PICK k \in Nat : k = Len(s)
  OBVIOUS
<1>2. PICK f : UpToFits(f, s, T, k) /\ Selected(s, T) = f[k]
  BY <1>1, SelectedIs, Zenon
<1> DEFINE First(n) == {s[i] : i \in 1 .. n}
           Holds == {n \in 0 .. k : f[n] \in Seq(First(n)) /\ IsOnce(f[n])}
<1>3. 0 \in Holds
  <2>1. f[0] = <<>> /\ 0 \in 0 .. k
    BY <1>2 DEF UpToFits
  <2>2. <<>> \in Seq(First(0)) /\ IsOnce(<<>>)
    <3> HIDE DEF First
    <3> QED
      BY DEF IsOnce
  <2> QED
    BY <2>1, <2>2
<1>4. ASSUME NEW n \in 1 .. k, n - 1 \in Holds PROVE n \in Holds
  <2>1. f[n - 1] \in Seq(First(n - 1)) /\ IsOnce(f[n - 1]) /\ n \in 0 .. k /\ n \in Nat
    BY <1>4
  <2>2. f[n] = IF s[n] \in T THEN Append(f[n - 1], s[n]) ELSE f[n - 1]
    BY <1>2 DEF UpToFits
  <2>3. First(n - 1) \subseteq First(n) /\ s[n] \in First(n) /\ s[n] \notin First(n - 1)
    <3>1. ASSUME NEW i \in 1 .. n - 1 PROVE s[i] # s[n] /\ i \in 1 .. n
      BY <1>1 DEF IsOnce
    <3> QED
      BY <3>1
  <2> HIDE DEF First
  <2>4. f[n - 1] \in Seq(First(n))
    BY <2>1, <2>3
  <2>5. CASE s[n] \in T
    <3>1. f[n] = Append(f[n - 1], s[n])
      BY <2>2, <2>5
    <3>2. f[n] \in Seq(First(n)) /\ Len(f[n]) = Len(f[n - 1]) + 1
      BY <2>3, <2>4, <3>1
    <3>3. /\ f[n][Len(f[n])] = s[n]
          /\ \A i \in 1 .. Len(f[n - 1]) : f[n][i] = f[n - 1][i] /\ f[n - 1][i] # s[n]
      BY <2>1, <2>3, <2>4, <3>1
    <3>4. ASSUME NEW i \in 1 .. Len(f[n]), NEW j \in 1 .. Len(f[n]), f[n][i] = f[n][j]
          PROVE  i = j
      <4>1. Len(f[n - 1]) \in Nat
        BY <2>1
      <4>2. i = Len(f[n]) \/ i \in 1 .. Len(f[n - 1])
        BY <3>2, <4>1
      <4>3. j = Len(f[n]) \/ j \in 1 .. Len(f[n - 1])
        BY <3>2, <4>1
      <4> QED
        BY <2>1, <3>3, <3>4, <4>2, <4>3 DEF IsOnce
    <3> QED
      BY <2>1, <3>2, <3>4 DEF IsOnce
  <2>6. CASE s[n] \notin T
    BY <2>1, <2>2, <2>4, <2>6
  <2> QED
    BY <2>5, <2>6
<1>5. k \in Holds
  <2> HIDE DEF Holds
  <2>1. \A n \in 0 .. k : n \in Holds
    BY <1>3, <1>4, Reaches
  <2> QED
    BY <2>1
<1>6. IsOnce(f[k])
  BY <1>5
<1> QED
  BY <1>2, <1>6

LEMMA AppendReplaced ==
  ASSUME NEW S, NEW a \in Seq(S), NEW x \in S, NEW y \in S, NEW p, p = Len(a) + 1
  PROVE  /\ p \in 1 .. Len(Append(a, x)) /\ Append(a, x)[p] = x
         /\ Append(a, y) = [Append(a, x) EXCEPT ![p] = y]
<1>1. PICK b : b = Append(a, y)
  OBVIOUS
<1>2. PICK e : e = Append(a, x)
  OBVIOUS
<1>3. PICK c : c = [e EXCEPT ![p] = y]
  OBVIOUS
<1>4. /\ b \in Seq(S) /\ Len(b) = p /\ \A n \in 1 .. p : b[n] = IF n = p THEN y ELSE a[n]
      /\ e \in Seq(S) /\ Len(e) = p /\ \A n \in 1 .. p : e[n] = IF n = p THEN x ELSE a[n]
      /\ p \in 1 .. p
  BY <1>1, <1>2
<1>5. c \in Seq(S) /\ Len(c) = p /\ \A n \in 1 .. p : c[n] = IF n = p THEN y ELSE e[n]
  BY <1>3, <1>4
<1>6. b = c
  BY <1>4, <1>5, SeqEqual
<1> QED
  BY <1>1, <1>2, <1>3, <1>4, <1>6

WithValue(s, p, y) == [s EXCEPT ![p] = y]

LEMMA ReplacedAppend ==
  ASSUME NEW S, NEW a \in Seq(S), NEW x \in S, NEW y \in S, NEW p \in 1 .. Len(a)
  PROVE  Append(WithValue(a, p, y), x) = WithValue(Append(a, x), p, y)
<1> USE DEF WithValue
<1>1. PICK d : d = [a EXCEPT ![p] = y]
  OBVIOUS
<1>2. PICK l \in Nat : l = Len(a) + 1
  OBVIOUS
<1>3. d \in Seq(S) /\ Len(d) = l - 1 /\ \A n \in 1 .. l - 1 : d[n] = IF n = p THEN y ELSE a[n]
  BY <1>1, <1>2
<1>4. PICK b : b = Append(d, x)
  OBVIOUS
<1>5. PICK e : e = Append(a, x)
  OBVIOUS
<1>6. PICK c : c = [e EXCEPT ![p] = y]
  OBVIOUS
<1>7. b \in Seq(S) /\ Len(b) = l /\ \A n \in 1 .. l : b[n] = IF n = l THEN x ELSE d[n]
  BY <1>2, <1>3, <1>4
<1>8. e \in Seq(S) /\ Len(e) = l /\ \A n \in 1 .. l : e[n] = IF n = l THEN x ELSE a[n]
  BY <1>2, <1>5
<1>9. c \in Seq(S) /\ Len(c) = l /\ \A n \in 1 .. l : c[n] = IF n = p THEN y ELSE e[n]
  <2>1. p \in 1 .. l
    BY <1>2
  <2> QED
    BY <1>6, <1>8, <2>1
<1>10. ASSUME NEW n \in 1 .. l PROVE b[n] = c[n]
  <2>1. p # l /\ (n # l => n \in 1 .. l - 1)
    BY <1>2
  <2> QED
    BY <2>1, <1>3, <1>7, <1>8, <1>9
<1>11. b = c
  BY <1>7, <1>9, <1>10, SeqEqual
<1> QED
  BY <1>1, <1>4, <1>5, <1>6, <1>11

\* An element that is replaced by another one stays in its place.
LEMMA SelectedReplaced ==
  ASSUME NEW S, NEW s \in Seq(S), NEW T, NEW i \in 1 .. Len(s), NEW y \in S,
         s[i] \in T, y \in T, NEW r, r = WithValue(s, i, y)
  PROVE  \E p \in 1 .. Len(Selected(s, T)) :
           /\ Selected(s, T)[p] = s[i]
           /\ Selected(r, T) = WithValue(Selected(s, T), p, y)
<1>1. r = [s EXCEPT ![i] = y]
  BY DEF WithValue
<1>2. PICK k \in Nat : k = Len(s) /\ k = Len(r)
  BY <1>1
<1>3. i \in 1 .. k /\ r[i] = y /\ \A n \in 1 .. k : n # i => r[n] = s[n]
  BY <1>1, <1>2
<1>4. PICK f : UpToFits(f, s, T, k) /\ Selected(s, T) = f[k]
  BY <1>2, SelectedIs, Zenon
<1>5. PICK g : UpToFits(g, r, T, k) /\ Selected(r, T) = g[k]
  <2>1. k \in Nat /\ k = Len(r)
    BY <1>2
  <2> QED
    BY <2>1, SelectedIs
<1>6. \A n \in 0 .. k : f[n] \in Seq(S \cap T)
  BY <1>2, <1>4, UpToTyped
<1>7. f[i - 1] = g[i - 1] /\ i - 1 \in 0 .. k
  <2>1. i - 1 \in Nat /\ i - 1 <= k
    BY <1>3
  <2>2. SameSelected(s, r, T, i - 1)
    BY <1>3 DEF SameSelected
  <2>3. PICK h : h = i - 1
    OBVIOUS
  <2> QED
    BY <1>4, <1>5, <2>1, <2>2, <2>3, UpToSame
<1>8. PICK p : p = Len(f[i - 1]) + 1
  OBVIOUS
<1> DEFINE Same(n) == /\ p \in 1 .. Len(f[n]) /\ f[n][p] = s[i]
                      /\ g[n] = [f[n] EXCEPT ![p] = y]
           Holds == {n \in 0 .. k : n >= i => Same(n)}
<1>9. 0 \in Holds
  BY <1>3
<1>10. ASSUME NEW n \in 1 .. k, n - 1 \in Holds PROVE n \in Holds
  <2>1. /\ f[n] = IF s[n] \in T THEN Append(f[n - 1], s[n]) ELSE f[n - 1]
        /\ g[n] = IF r[n] \in T THEN Append(g[n - 1], r[n]) ELSE g[n - 1]
    BY <1>4, <1>5 DEF UpToFits
  <2>2. n \in 0 .. k /\ n - 1 \in 0 .. k /\ f[n - 1] \in Seq(S \cap T)
    BY <1>6
  <2>3. CASE n < i
    BY <1>3, <2>2, <2>3
  <2>4. CASE n = i
    <3>1. f[n] = Append(f[n - 1], s[i]) /\ g[n] = Append(f[n - 1], y) /\ p = Len(f[n - 1]) + 1
      BY <1>3, <1>7, <1>8, <2>1, <2>4
    <3>2. PICK a \in Seq(S \cap T) : a = f[n - 1] /\ p = Len(a) + 1
      BY <2>2, <3>1
    <3>3. /\ p \in 1 .. Len(Append(a, s[i])) /\ Append(a, s[i])[p] = s[i]
          /\ Append(a, y) = [Append(a, s[i]) EXCEPT ![p] = y]
      <4>1. PICK x \in S \cap T : x = s[i]
        OBVIOUS
      <4>2. y \in S \cap T /\ p = Len(a) + 1
        BY <3>2
      <4>3. /\ p \in 1 .. Len(Append(a, x)) /\ Append(a, x)[p] = x
            /\ Append(a, y) = [Append(a, x) EXCEPT ![p] = y]
        BY <4>2, AppendReplaced
      <4> QED
        BY <4>1, <4>3
    <3>4. Same(n)
      BY <3>1, <3>2, <3>3
    <3> QED
      BY <2>2, <3>4
  <2>5. CASE n > i
    <3>1. Same(n - 1) /\ r[n] = s[n] /\ s[n] \in S
      <4>1. n - 1 >= i /\ n \in 1 .. Len(s) /\ n # i
        BY <1>2, <1>3, <2>5
      <4>2. n - 1 >= i => Same(n - 1)
        BY <1>10
      <4> QED
        BY <1>3, <4>1, <4>2
    <3>2. CASE s[n] \notin T
      <4>1. f[n] = f[n - 1] /\ g[n] = g[n - 1]
        BY <2>1, <3>1, <3>2
      <4>2. Same(n)
        BY <3>1, <4>1
      <4> QED
        BY <2>2, <4>2
    <3>3. CASE s[n] \in T
      <4>1. f[n] = Append(f[n - 1], s[n]) /\ g[n] = Append(g[n - 1], s[n])
        BY <2>1, <3>1, <3>3
      <4>2. PICK a \in Seq(S \cap T) : a = f[n - 1]
        BY <2>2
      <4>3. p \in 1 .. Len(a) /\ a[p] = s[i] /\ g[n - 1] = [a EXCEPT ![p] = y]
        BY <3>1, <4>2
      <4>4. Append([a EXCEPT ![p] = y], s[n]) = [Append(a, s[n]) EXCEPT ![p] = y]
        <5>1. PICK R : R = S \cap T
          OBVIOUS
        <5>2. PICK x \in R : x = s[n]
          BY <3>1, <3>3, <5>1
        <5>3. a \in Seq(R) /\ y \in R /\ p \in 1 .. Len(a)
          BY <4>3, <5>1
        <5>4. Append(WithValue(a, p, y), x) = WithValue(Append(a, x), p, y)
          BY <5>3, ReplacedAppend
        <5> QED
          BY <5>2, <5>4 DEF WithValue
      <4>5. Same(n)
        BY <4>1, <4>2, <4>3, <4>4
      <4> QED
        BY <2>2, <4>5
    <3> QED
      BY <3>2, <3>3
  <2> QED
    BY <1>3, <2>3, <2>4, <2>5
<1>11. k \in Holds
  <2>1. k \in 0 .. k
    BY <1>2
  <2> HIDE DEF Holds
  <2>2. \A n \in 0 .. k : n \in Holds
    BY <1>9, <1>10, Reaches
  <2> QED
    BY <2>1, <2>2
<1>12. Same(k)
  BY <1>3, <1>11
<1> QED
  BY <1>4, <1>5, <1>12 DEF WithValue

\* What is not selected may change into something else that is not.
LEMMA SelectedIgnores ==
  ASSUME NEW S, NEW s \in Seq(S), NEW T, NEW i \in 1 .. Len(s), NEW y \in S,
         s[i] \notin T, y \notin T, NEW r, r = WithValue(s, i, y)
  PROVE  Selected(r, T) = Selected(s, T)
<1>1. r = [s EXCEPT ![i] = y]
  BY DEF WithValue
<1>2. PICK k \in Nat : k = Len(s) /\ k = Len(r)
  BY <1>1
<1>3. PICK f : UpToFits(f, s, T, k) /\ Selected(s, T) = f[k]
  BY <1>2, SelectedIs, Zenon
<1>4. PICK g : UpToFits(g, r, T, k) /\ Selected(r, T) = g[k]
  <2>1. k \in Nat /\ k = Len(r)
    BY <1>2
  <2> QED
    BY <2>1, SelectedIs
<1>5. SameSelected(s, r, T, k) /\ k <= k
  BY <1>1, <1>2 DEF SameSelected
<1>6. f[k] = g[k]
  BY <1>3, <1>4, <1>5, UpToSame
<1> QED
  BY <1>1, <1>3, <1>4, <1>6
==============================================================================
