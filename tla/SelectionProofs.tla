-------------------------- MODULE SelectionProofs --------------------------
(***************************************************************************)
(* What Select returns, by induction over the sequence.  The library's     *)
(* induction theorems take the predicate as an operator, which no prover   *)
(* here can instantiate; with the predicate as a set they are the          *)
(* statement that every set of naturals has a least element, which is the  *)
(* library's WFMin.                                                        *)
(***************************************************************************)
EXTENDS Selection, WellFoundedInduction, TLAPS

(* Of some naturals there is a least one.                                  *)
LEMMA LeastElement ==
  ASSUME NEW T \in SUBSET Nat, T # {}
  PROVE  \E x \in T : \A y \in T : x <= y
<1> DEFINE R == OpToRel(<, Nat)
<1>1. IsWellFoundedOn(R, Nat)
  BY NatLessThanWellFounded
<1>2. \A y, x \in Nat : y < x => <<y, x>> \in R
  BY DEF OpToRel
<1> HIDE DEF R
<1>3. PICK x \in T : \A y \in T : <<y, x>> \notin R
  BY <1>1, WFMin, Zenon
<1>4. ASSUME NEW y \in T PROVE x <= y
  <2>1. x \in Nat /\ y \in Nat /\ ~ (y < x)
    BY <1>2, <1>3
  <2>2. QED
    BY <2>1
<1>5. QED
  BY <1>4

(* A set that has 0, and n + 1 with every n, has every natural.            *)
LEMMA Induction ==
  ASSUME NEW S, 0 \in S, \A n \in Nat : n \in S => n + 1 \in S
  PROVE  Nat \subseteq S
<1> SUFFICES ASSUME Nat \ S # {} PROVE FALSE
  OBVIOUS
<1>1. PICK x \in Nat \ S : \A y \in Nat \ S : x <= y
  BY LeastElement
<1>2. x - 1 \in Nat
  BY <1>1
<1>3. QED
  BY <1>1, <1>2

(* f is the recursion of Select up to n.                                   *)
Picks(s, keep, n, f) ==
  f = [k \in 0 .. n |-> IF k = 0 THEN <<>>
                        ELSE IF s[k] \in keep THEN Append(f[k - 1], s[k]) ELSE f[k - 1]]

(* The recursion of Select has a solution, however long s is;              *)
LEMMA PicksExist ==
  ASSUME NEW s, NEW keep
  PROVE  \A n \in Nat : \E f : Picks(s, keep, n, f)
<1> DEFINE S == {n \in Nat : \E f : Picks(s, keep, n, f)}
<1>1. 0 \in S
  <2>1. Picks(s, keep, 0, [k \in 0 .. 0 |-> <<>>])
    BY DEF Picks
  <2>2. QED
    BY <2>1
<1>2. ASSUME NEW n \in Nat, n \in S PROVE n + 1 \in S
  <2>1. PICK f : Picks(s, keep, n, f)
    BY <1>2
  <2> DEFINE last == IF s[n + 1] \in keep THEN Append(f[n], s[n + 1]) ELSE f[n]
             g == [k \in 0 .. n + 1 |-> IF k = n + 1 THEN last ELSE f[k]]
  <2>2. ASSUME NEW k \in 0 .. n + 1
        PROVE  g[k] = IF k = 0 THEN <<>>
                      ELSE IF s[k] \in keep THEN Append(g[k - 1], s[k]) ELSE g[k - 1]
    <3>1. CASE k = n + 1
      <4>1. g[k] = last /\ k - 1 = n /\ g[n] = f[n]
        BY <3>1
      <4>2. QED
        BY <3>1, <4>1
    <3>2. CASE k # n + 1
      <4>1. k \in 0 .. n /\ (k # 0 => k - 1 \in 0 .. n)
        BY <3>2
      <4>2. g[k] = f[k] /\ (k # 0 => g[k - 1] = f[k - 1])
        BY <4>1
      <4>3. QED
        BY <2>1, <4>1, <4>2 DEF Picks
    <3>3. QED
      BY <3>1, <3>2
  <2>3. g = [k \in 0 .. n + 1 |-> g[k]]
    OBVIOUS
  <2> HIDE DEF g
  <2>4. Picks(s, keep, n + 1, g)
    BY <2>2, <2>3 DEF Picks
  <2>5. QED
    BY <2>4
<1> HIDE DEF S
<1>3. Nat \subseteq S
  BY <1>1, <1>2, Induction
<1>4. QED
  BY <1>3 DEF S

(* and any two agree as far as both go.                                    *)
LEMMA PicksAgree ==
  ASSUME NEW s, NEW keep, NEW m \in Nat, NEW n \in Nat, m <= n,
         NEW f, Picks(s, keep, m, f), NEW g, Picks(s, keep, n, g)
  PROVE  \A k \in 0 .. m : f[k] = g[k]
<1> DEFINE S == {k \in Nat : k <= m => f[k] = g[k]}
<1>1. 0 \in S
  BY DEF Picks
<1>2. ASSUME NEW k \in Nat, k \in S PROVE k + 1 \in S
  <2> SUFFICES ASSUME k + 1 <= m PROVE f[k + 1] = g[k + 1]
    OBVIOUS
  <2>1. f[k] = g[k]
    BY <1>2
  <2>2. k + 1 \in 0 .. m /\ k + 1 \in 0 .. n /\ k + 1 # 0 /\ (k + 1) - 1 = k
    OBVIOUS
  <2>3. f[k + 1] = IF s[k + 1] \in keep THEN Append(f[k], s[k + 1]) ELSE f[k]
    BY <2>2 DEF Picks
  <2>4. g[k + 1] = IF s[k + 1] \in keep THEN Append(g[k], s[k + 1]) ELSE g[k]
    BY <2>2 DEF Picks
  <2>5. QED
    BY <2>1, <2>3, <2>4
<1> HIDE DEF S
<1>3. Nat \subseteq S
  BY <1>1, <1>2, Induction
<1>4. QED
  BY <1>3 DEF S

(* Select is the last value of such a solution.                            *)
LEMMA SelectPicks ==
  ASSUME NEW s, Len(s) \in Nat, NEW keep
  PROVE  \E f : Picks(s, keep, Len(s), f) /\ Select(s, keep) = f[Len(s)]
<1> DEFINE f == CHOOSE g : Picks(s, keep, Len(s), g)
<1>1. Picks(s, keep, Len(s), f)
  BY PicksExist
<1>2. Select(s, keep) = f[Len(s)]
  BY DEF Select, Picks
<1>3. QED
  BY <1>1, <1>2

-----------------------------------------------------------------------------
(* Select of a sequence that grows.                                        *)
LEMMA SelectAppend ==
  ASSUME NEW T, NEW s \in Seq(T), NEW x \in T, NEW keep
  PROVE  Select(Append(s, x), keep) =
           IF x \in keep THEN Append(Select(s, keep), x) ELSE Select(s, keep)
<1> DEFINE t == Append(s, x)
           n == Len(s)
<1>1. n \in Nat /\ Len(t) = n + 1 /\ t[n + 1] = x /\ \A k \in 1 .. n : t[k] = s[k]
  OBVIOUS
<1> HIDE DEF t, n
<1>2. PICK f : Picks(s, keep, n, f) /\ Select(s, keep) = f[n]
  BY <1>1, SelectPicks DEF n
<1>3. PICK g : Picks(t, keep, n + 1, g) /\ Select(t, keep) = g[n + 1]
  BY <1>1, SelectPicks
<1> DEFINE h == [k \in 0 .. n |-> g[k]]
<1>4. Picks(s, keep, n, h)
  <2>1. ASSUME NEW k \in 0 .. n
        PROVE  h[k] = IF k = 0 THEN <<>>
                      ELSE IF s[k] \in keep THEN Append(h[k - 1], s[k]) ELSE h[k - 1]
    <3>1. k \in 0 .. n + 1 /\ (k # 0 => k - 1 \in 0 .. n /\ s[k] = t[k])
      BY <1>1
    <3>2. g[k] = IF k = 0 THEN <<>>
                 ELSE IF t[k] \in keep THEN Append(g[k - 1], t[k]) ELSE g[k - 1]
      BY <1>3, <3>1 DEF Picks
    <3>3. QED
      BY <3>1, <3>2
  <2>2. h = [k \in 0 .. n |-> h[k]]
    OBVIOUS
  <2> HIDE DEF h
  <2>3. QED
    BY <2>1, <2>2 DEF Picks
<1>5. g[n] = f[n]
  <2>1. h[n] = f[n]
    BY <1>1, <1>2, <1>4, PicksAgree
  <2>2. QED
    BY <1>1, <2>1
<1>6. g[n + 1] = IF t[n + 1] \in keep THEN Append(g[n], t[n + 1]) ELSE g[n]
  <2>1. n + 1 \in 0 .. n + 1 /\ n + 1 # 0 /\ (n + 1) - 1 = n
    BY <1>1
  <2>2. QED
    BY <1>3, <2>1 DEF Picks
<1>7. QED
  BY <1>1, <1>2, <1>3, <1>5, <1>6 DEF t

(* Select of the empty sequence.                                           *)
LEMMA SelectEmpty ==
  ASSUME NEW keep
  PROVE  Select(<<>>, keep) = <<>>
<1>1. PICK f : Picks(<<>>, keep, 0, f) /\ Select(<<>>, keep) = f[0]
  BY SelectPicks
<1>2. QED
  BY <1>1 DEF Picks

(* A set that has <<>>, and with a sequence all that are longer by one,    *)
(* has all sequences.                                                      *)
LEMMA SequenceInduction ==
  ASSUME NEW T, NEW S, <<>> \in S,
         \A s \in Seq(T), x \in T : s \in S => Append(s, x) \in S
  PROVE  Seq(T) \subseteq S
<1> DEFINE N == {n \in Nat : \A s \in Seq(T) : Len(s) = n => s \in S}
<1>1. 0 \in N
  <2>1. ASSUME NEW s \in Seq(T), Len(s) = 0 PROVE s = <<>>
    BY <2>1
  <2>2. QED
    BY <2>1
<1>2. ASSUME NEW n \in Nat, n \in N PROVE n + 1 \in N
  <2> SUFFICES ASSUME NEW s \in Seq(T), Len(s) = n + 1 PROVE s \in S
    OBVIOUS
  <2> DEFINE r == SubSeq(s, 1, n)
  <2>1. r \in Seq(T) /\ Len(r) = n /\ s[n + 1] \in T
    OBVIOUS
  <2>2. s = Append(r, s[n + 1])
    OBVIOUS
  <2> HIDE DEF r
  <2>3. QED
    BY <1>2, <2>1, <2>2
<1> HIDE DEF N
<1>3. Nat \subseteq N
  BY <1>1, <1>2, Induction
<1>4. QED
  BY <1>3 DEF N

(* What is selected is of keep.                                            *)
LEMMA SelectType ==
  ASSUME NEW T, NEW keep, NEW s \in Seq(T)
  PROVE  Select(s, keep) \in Seq(T \cap keep)
<1> DEFINE U == T \cap keep
           S == {r \in Seq(T) : Select(r, keep) \in Seq(U)}
<1>1. <<>> \in S
  <2> HIDE DEF U
  <2>1. <<>> \in Seq(T) /\ <<>> \in Seq(U)
    OBVIOUS
  <2>2. QED
    BY <2>1, SelectEmpty
<1>2. ASSUME NEW r \in Seq(T), NEW x \in T, r \in S PROVE Append(r, x) \in S
  <2>1. Append(r, x) \in Seq(T)
    OBVIOUS
  <2>2. Select(Append(r, x), keep) =
          IF x \in keep THEN Append(Select(r, keep), x) ELSE Select(r, keep)
    BY SelectAppend
  <2>3. x \in keep => x \in U
    OBVIOUS
  <2> HIDE DEF U
  <2>4. Select(r, keep) \in Seq(U)
    BY <1>2
  <2>5. x \in U => Append(Select(r, keep), x) \in Seq(U)
    BY <2>4
  <2>6. Select(Append(r, x), keep) \in Seq(U)
    BY <2>2, <2>3, <2>4, <2>5, Zenon
  <2>7. QED
    BY <2>1, <2>6
<1> HIDE DEF S
<1>3. Seq(T) \subseteq S
  BY <1>1, <1>2, SequenceInduction
<1>4. QED
  BY <1>3 DEF S

(* Nothing is selected just if there is nothing to keep.                   *)
LEMMA SelectNothing ==
  ASSUME NEW T, NEW keep, NEW s \in Seq(T)
  PROVE  Select(s, keep) = <<>> <=> \A k \in 1 .. Len(s) : s[k] \notin keep
<1> DEFINE S == {r \in Seq(T) : Select(r, keep) = <<>> <=> \A k \in 1 .. Len(r) : r[k] \notin keep}
<1>1. <<>> \in S
  BY SelectEmpty
<1>2. ASSUME NEW r \in Seq(T), NEW x \in T, r \in S PROVE Append(r, x) \in S
  <2> DEFINE t == Append(r, x)
  <2>1. /\ t \in Seq(T) /\ Len(t) = Len(r) + 1 /\ t[Len(r) + 1] = x
        /\ \A k \in 1 .. Len(r) : t[k] = r[k]
    OBVIOUS
  <2>2. Select(t, keep) = IF x \in keep THEN Append(Select(r, keep), x) ELSE Select(r, keep)
    BY SelectAppend
  <2>3. Select(r, keep) \in Seq(T \cap keep)
    BY SelectType
  <2> HIDE DEF t
  <2>4. CASE x \in keep
    <3>1. Select(t, keep) # <<>>
      BY <2>2, <2>3, <2>4
    <3>2. Len(r) + 1 \in 1 .. Len(t)
      BY <2>1
    <3>3. QED
      BY <2>1, <2>4, <3>1, <3>2 DEF t
  <2>5. CASE x \notin keep
    <3>1. (\A k \in 1 .. Len(t) : t[k] \notin keep) <=> \A k \in 1 .. Len(r) : r[k] \notin keep
      BY <2>1, <2>5
    <3>2. QED
      BY <1>2, <2>1, <2>2, <2>5, <3>1 DEF t
  <2>6. QED
    BY <2>4, <2>5
<1> HIDE DEF S
<1>3. Seq(T) \subseteq S
  BY <1>1, <1>2, SequenceInduction
<1>4. QED
  BY <1>3 DEF S

(* What follows the last element to keep makes no difference.              *)
LEMMA SelectPadded ==
  ASSUME NEW T, NEW keep, NEW s \in Seq(T), NEW m \in 0 .. Len(s),
         \A k \in m + 1 .. Len(s) : s[k] \notin keep
  PROVE  Select(s, keep) = Select(SubSeq(s, 1, m), keep)
<1> DEFINE N == {n \in Nat : m <= n /\ n <= Len(s) =>
                               Select(SubSeq(s, 1, n), keep) = Select(SubSeq(s, 1, m), keep)}
<1>1. 0 \in N
  OBVIOUS
<1>2. ASSUME NEW n \in Nat, n \in N PROVE n + 1 \in N
  <2> SUFFICES ASSUME m <= n, n + 1 <= Len(s)
               PROVE  Select(SubSeq(s, 1, n + 1), keep) = Select(SubSeq(s, 1, m), keep)
    OBVIOUS
  <2>1. SubSeq(s, 1, n) \in Seq(T) /\ s[n + 1] \in T /\ s[n + 1] \notin keep
    OBVIOUS
  <2>2. SubSeq(s, 1, n + 1) = Append(SubSeq(s, 1, n), s[n + 1])
    OBVIOUS
  <2>3. Select(SubSeq(s, 1, n + 1), keep) = Select(SubSeq(s, 1, n), keep)
    <3> DEFINE r == SubSeq(s, 1, n)
    <3> HIDE DEF r
    <3>1. r \in Seq(T) /\ SubSeq(s, 1, n + 1) = Append(r, s[n + 1])
      BY <2>1, <2>2 DEF r
    <3>2. Select(Append(r, s[n + 1]), keep) = Select(r, keep)
      BY <2>1, <3>1, SelectAppend
    <3>3. QED
      BY <3>1, <3>2, Zenon DEF r
  <2>4. QED
    BY <1>2, <2>3
<1> HIDE DEF N
<1>3. Nat \subseteq N
  BY <1>1, <1>2, Induction
<1>4. Select(SubSeq(s, 1, Len(s)), keep) = Select(SubSeq(s, 1, m), keep)
  BY <1>3 DEF N
<1>5. SubSeq(s, 1, Len(s)) = s
  OBVIOUS
<1>6. QED
  BY <1>4, <1>5

(* A subsequence, and the one that ends a place later.                     *)
LEMMA SubSeqGrows ==
  ASSUME NEW T, NEW s \in Seq(T), NEW m \in Nat \ {0}, NEW n \in Nat, m <= n + 1, n + 1 <= Len(s)
  PROVE  /\ SubSeq(s, m, n) \in Seq(T)
         /\ SubSeq(s, m, n + 1) = Append(SubSeq(s, m, n), s[n + 1])
<1>1. SubSeq(s, m, n) \in Seq(T)
  OBVIOUS
<1>2. SubSeq(s, m, n + 1) = Append(SubSeq(s, m, n), s[n + 1])
  OBVIOUS
<1>3. QED
  BY <1>1, <1>2

(* If the first element is the only one to keep, it is selected.           *)
LEMMA SelectFirst ==
  ASSUME NEW T, NEW keep, NEW s \in Seq(T), s # <<>>, s[1] \in keep,
         \A k \in 2 .. Len(s) : s[k] \notin keep
  PROVE  Select(s, keep) = <<s[1]>>
<1> DEFINE x == s[1]
<1>1. 1 \in 0 .. Len(s) /\ x \in T /\ x \in keep /\ 1 + 1 = 2
  OBVIOUS
<1>2. SubSeq(s, 1, 1) = Append(<<>>, x)
  <2>1. SubSeq(s, 1, 0 + 1) = Append(SubSeq(s, 1, 0), s[0 + 1])
    BY <1>1, SubSeqGrows
  <2>2. 0 + 1 = 1
    OBVIOUS
  <2>3. SubSeq(s, 1, 0) = <<>>
    OBVIOUS
  <2>4. QED
    BY <2>1, <2>2, <2>3, Zenon
<1>3. Select(s, keep) = Select(SubSeq(s, 1, 1), keep)
  BY <1>1, SelectPadded
<1> HIDE DEF x
<1>4. <<x>> = Append(<<>>, x) /\ <<>> \in Seq(T)
  OBVIOUS
<1>5. Select(Append(<<>>, x), keep) = Append(Select(<<>>, keep), x)
  BY <1>1, <1>4, SelectAppend
<1>6. QED
  BY <1>2, <1>3, <1>4, <1>5, SelectEmpty DEF x
=============================================================================
