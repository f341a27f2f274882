------------------------------- MODULE Lists -------------------------------
(* Families of lists: the ready lists of the CPUs, the lists of the wait   *)
(* queues, the lists of the children of the tasks.                         *)
EXTENDS Integers, Sequences, TLAPS

(* List c of the family has t; no task is in the family twice.             *)
Has(F, c, t) == \E k \in 1 .. Len(F[c]) : F[c][k] = t
Once(F) ==
    \A c, d \in DOMAIN F : \A k \in 1 .. Len(F[c]), l \in 1 .. Len(F[d]) :
        F[c][k] = F[d][l] => c = d /\ k = l

(* G is F with e added to list c, or with the e of list c taken away, or   *)
(* with the whole list c moved into list d.                                *)
Added(I, S, F, c, e, G) ==
    /\ G \in [I -> Seq(S)] /\ Len(G[c]) = Len(F[c]) + 1
    /\ \A d \in I \ {c} : G[d] = F[d]
    /\ \A d \in I : \A t : Has(G, d, t) <=> Has(F, d, t) \/ (d = c /\ t = e)
    /\ Once(F) /\ (\A d \in I : ~Has(F, d, e)) => Once(G)
Removed(I, S, F, c, e, G) ==
    /\ G \in [I -> Seq(S)] /\ Len(G[c]) = Len(F[c]) - 1
    /\ \A d \in I \ {c} : G[d] = F[d]
    /\ e \in S /\ Has(F, c, e)
    /\ \A d \in I : \A t : Has(G, d, t) <=> Has(F, d, t) /\ t # e
    /\ Once(G)
Joined(I, S, F, c, d, G) ==
    /\ G \in [I -> Seq(S)] /\ G[c] = <<>>
    /\ \A a \in I \ {c, d} : G[a] = F[a]
    /\ \A a \in I : \A t : Has(G, a, t) <=> a # c /\ (Has(F, a, t) \/ (a = d /\ Has(F, c, t)))
    /\ Once(G)

(* A is the list s with e put in as element k, or with element k left out. *)
With(s, k, e, A) ==
    /\ Len(A) = Len(s) + 1 /\ k \in 1 .. Len(A) /\ A[k] = e
    /\ \A j \in 1 .. Len(A) : (j < k => A[j] = s[j]) /\ (j > k => A[j] = s[j - 1])
LeftOut(s, k, A) ==
    /\ Len(A) = Len(s) - 1 /\ k \in 1 .. Len(s)
    /\ \A j \in 1 .. Len(A) : (j < k => A[j] = s[j]) /\ (j >= k => A[j] = s[j + 1])

LEMMA ListLength ==
    ASSUME NEW S, NEW s \in Seq(S)
    PROVE  Len(s) \in Nat
OBVIOUS

LEMMA ListElement ==
    ASSUME NEW S, NEW s \in Seq(S), NEW k \in 1 .. Len(s)
    PROVE  s[k] \in S
OBVIOUS

LEMMA InOneList ==
    ASSUME NEW I, NEW S, NEW F \in [I -> Seq(S)], Once(F), NEW c \in I, NEW d \in I, NEW t,
           Has(F, c, t), Has(F, d, t)
    PROVE  c = d
BY DEF Has, Once

-----------------------------------------------------------------------------
(* Putting e into list c, as its element number k: at the end, at the head.*)
LEMMA PutIntoOne ==
    ASSUME NEW I, NEW S, NEW F \in [I -> Seq(S)], NEW c \in I, NEW e \in S, NEW k,
           NEW A \in Seq(S), With(F[c], k, e, A), NEW G, G = [F EXCEPT ![c] = A]
    PROVE  Added(I, S, F, c, e, G)
<1> DEFINE Old(j) == IF j > k THEN j - 1 ELSE j
           n == Len(F[c])
<1>1. n \in Nat
  BY ListLength
<1>2. /\ G \in [I -> Seq(S)] /\ G[c] = A /\ \A d \in I \ {c} : G[d] = F[d]
  OBVIOUS
<1> HIDE DEF n
<1>3. Len(A) = n + 1 /\ k \in 1 .. n + 1 /\ A[k] = e
  BY Zenon DEF With, n
<1>4. \A j \in 1 .. n + 1 : j \in Int /\ (j = k \/ (Old(j) \in 1 .. n /\ A[j] = F[c][Old(j)]))
  BY <1>1 DEF With, n
<1>5. \A i \in 1 .. n : \E j \in 1 .. n + 1 : A[j] = F[c][i]
  <2> TAKE i \in 1 .. n
  <2>1. CASE i < k
    BY <1>1, <2>1 DEF With, n
  <2>2. CASE ~(i < k)
    <3>1. i + 1 \in 1 .. n + 1 /\ i + 1 > k /\ (i + 1) - 1 = i
      BY <1>1, <1>3, <2>2
    <3>2. A[i + 1] = F[c][i]
      BY <3>1 DEF With, n
    <3> QED
      BY <3>1, <3>2
  <2> QED
    BY <2>1, <2>2
<1>6. ASSUME NEW d \in I, NEW t PROVE Has(G, d, t) <=> Has(F, d, t) \/ (d = c /\ t = e)
  <2>1. CASE d # c
    BY <1>2, <2>1, Zenon DEF Has
  <2>2. CASE d = c
    <3>1. Has(G, c, t) <=> \E j \in 1 .. n + 1 : A[j] = t
      BY <1>2, <1>3, Zenon DEF Has
    <3>2. Has(F, c, t) <=> \E i \in 1 .. n : F[c][i] = t
      BY Zenon DEF Has, n
    <3> HIDE DEF Old
    <3>3. (\E j \in 1 .. n + 1 : A[j] = t) => (\E i \in 1 .. n : F[c][i] = t) \/ t = e
      BY <1>3, <1>4, Zenon
    <3>4. (\E i \in 1 .. n : F[c][i] = t) \/ t = e => \E j \in 1 .. n + 1 : A[j] = t
      BY <1>3, <1>5, Zenon
    <3> QED
      BY <2>2, <3>1, <3>2, <3>3, <3>4, Zenon
  <2> QED
    BY <2>1, <2>2, Zenon
<1>7. ASSUME Once(F), \A d \in I : ~Has(F, d, e) PROVE Once(G)
  <2> SUFFICES ASSUME NEW a \in I, NEW b \in I, NEW i \in 1 .. Len(G[a]), NEW j \in 1 .. Len(G[b]),
                      G[a][i] = G[b][j]
               PROVE  a = b /\ i = j
    BY <1>2 DEF Once
  <2> DEFINE p == IF a = c THEN Old(i) ELSE i
             q == IF b = c THEN Old(j) ELSE j
  <2>1. (a = c /\ i = k) \/ (p \in 1 .. Len(F[a]) /\ F[a][p] = G[a][i])
    <3> HIDE DEF Old
    <3> QED
      BY <1>2, <1>3, <1>4, Zenon DEF n
  <2>2. (b = c /\ j = k) \/ (q \in 1 .. Len(F[b]) /\ F[b][q] = G[b][j])
    <3> HIDE DEF Old
    <3> QED
      BY <1>2, <1>3, <1>4, Zenon DEF n
  <2>3. \A d \in I : \A m \in 1 .. Len(F[d]) : F[d][m] # e
    BY <1>7, Zenon DEF Has
  <2>4. a = c => i \in Int /\ k \in Int
    BY <1>2, <1>3
  <2>5. b = c => j \in Int /\ k \in Int
    BY <1>2, <1>3
  <2> HIDE DEF p, q
  <2>6. CASE (a = c /\ i = k) \/ (b = c /\ j = k)
    <3>1. a = c /\ i = k => G[a][i] = e
      BY <1>2, <1>3, Zenon
    <3>2. b = c /\ j = k => G[b][j] = e
      BY <1>2, <1>3, Zenon
    <3> QED
      BY <2>1, <2>2, <2>3, <2>6, <3>1, <3>2, Zenon
  <2>7. CASE ~(a = c /\ i = k) /\ ~(b = c /\ j = k)
    <3>1. \A m \in 1 .. Len(F[a]), l \in 1 .. Len(F[b]) : F[a][m] = F[b][l] => a = b /\ m = l
      BY <1>7, Zenon DEF Once
    <3>2. a = b /\ p = q
      BY <2>1, <2>2, <2>7, <3>1, Zenon
    <3>3. a # c => i = j
      BY <3>2 DEF p, q
    <3>4. a = c => i = j
      BY <2>4, <2>5, <2>7, <3>2 DEF p, q
    <3> QED
      BY <3>2, <3>3, <3>4, Zenon
  <2> QED
    BY <2>6, <2>7, Zenon
<1> QED
  BY <1>2, <1>3, <1>6, <1>7, Zenon DEF Added, n

LEMMA AppendToOne ==
    ASSUME NEW I, NEW S, NEW F \in [I -> Seq(S)], NEW c \in I, NEW e \in S,
           NEW G, G = [F EXCEPT ![c] = Append(F[c], e)]
    PROVE  Added(I, S, F, c, e, G)
<1> DEFINE A == Append(F[c], e)
<1>1. /\ A \in Seq(S) /\ Len(A) = Len(F[c]) + 1 /\ Len(F[c]) \in Nat
      /\ \A j \in 1 .. Len(F[c]) : A[j] = F[c][j]
      /\ A[Len(F[c]) + 1] = e
  OBVIOUS
<1> HIDE DEF A
<1>2. With(F[c], Len(A), e, A)
  BY <1>1, SMTT(30) DEF With
<1>3. G = [F EXCEPT ![c] = A]
  BY DEF A
<1> QED
  BY <1>1, <1>2, <1>3, PutIntoOne, Zenon

LEMMA ConsToOne ==
    ASSUME NEW I, NEW S, NEW F \in [I -> Seq(S)], NEW c \in I, NEW e \in S,
           NEW G, G = [F EXCEPT ![c] = <<e>> \o F[c]]
    PROVE  Added(I, S, F, c, e, G)
<1> DEFINE A == <<e>> \o F[c]
<1>1. <<e>> \in Seq(S) /\ Len(<<e>>) = 1 /\ <<e>>[1] = e /\ F[c] \in Seq(S) /\ Len(F[c]) \in Nat
  OBVIOUS
<1>2. /\ A \in Seq(S) /\ Len(A) = Len(F[c]) + 1
      /\ \A j \in 1 .. Len(F[c]) + 1 : A[j] = IF j <= 1 THEN <<e>>[j] ELSE F[c][j - 1]
  BY <1>1
<1>3. G = [F EXCEPT ![c] = A]
  OBVIOUS
<1> HIDE DEF A
<1>4. With(F[c], 1, e, A)
  BY <1>1, <1>2 DEF With
<1> QED
  BY <1>2, <1>3, <1>4, PutIntoOne, Zenon

-----------------------------------------------------------------------------
(* Taking element number k out of list c: the first, the last, any.        *)
LEMMA TakeFromOne ==
    ASSUME NEW I, NEW S, NEW F \in [I -> Seq(S)], Once(F), NEW c \in I, NEW k,
           NEW A \in Seq(S), LeftOut(F[c], k, A), NEW G, G = [F EXCEPT ![c] = A]
    PROVE  Removed(I, S, F, c, F[c][k], G)
<1> DEFINE Old(j) == IF j >= k THEN j + 1 ELSE j
           n == Len(F[c])
           e == F[c][k]
<1>1. n \in Nat
  BY ListLength
<1>2. /\ G \in [I -> Seq(S)] /\ G[c] = A /\ \A d \in I \ {c} : G[d] = F[d]
  OBVIOUS
<1> HIDE DEF n
<1>3. Len(A) = n - 1 /\ k \in 1 .. n /\ e \in S
  BY ListElement, Zenon DEF LeftOut, n
<1>4. \A j \in 1 .. n - 1 : j \in Int /\ Old(j) \in 1 .. n /\ Old(j) # k /\ A[j] = F[c][Old(j)]
  BY <1>1, <1>3 DEF LeftOut
<1>5. \A i \in 1 .. n : i # k => \E j \in 1 .. n - 1 : A[j] = F[c][i]
  <2> SUFFICES ASSUME NEW i \in 1 .. n, i # k PROVE \E j \in 1 .. n - 1 : A[j] = F[c][i]
    OBVIOUS
  <2>1. CASE i < k
    BY <1>1, <1>3, <2>1 DEF LeftOut
  <2>2. CASE ~(i < k)
    <3>1. i - 1 \in 1 .. n - 1 /\ i - 1 >= k /\ (i - 1) + 1 = i
      BY <1>1, <1>3, <2>2
    <3>2. A[i - 1] = F[c][i]
      BY <1>3, <3>1 DEF LeftOut
    <3> QED
      BY <3>1, <3>2
  <2> QED
    BY <2>1, <2>2
<1>o. \A a, b \in I : \A i \in 1 .. Len(F[a]), j \in 1 .. Len(F[b]) :
         F[a][i] = F[b][j] => a = b /\ i = j
  BY Zenon DEF Once
<1>h. Has(F, c, e) /\ \A d \in I \ {c} : ~Has(F, d, e)
  BY <1>3, <1>o, Zenon DEF Has, n
<1>6. ASSUME NEW d \in I, NEW t PROVE Has(G, d, t) <=> Has(F, d, t) /\ t # e
  <2>1. CASE d # c
    <3>1. Has(G, d, t) <=> Has(F, d, t)
      BY <1>2, <2>1, Zenon DEF Has
    <3> HIDE DEF e
    <3> QED
      BY <1>h, <2>1, <3>1, Zenon
  <2>2. CASE d = c
    <3>1. Has(G, c, t) <=> \E j \in 1 .. n - 1 : A[j] = t
      BY <1>2, <1>3, Zenon DEF Has
    <3>2. Has(F, c, t) <=> \E i \in 1 .. n : F[c][i] = t
      BY Zenon DEF Has, n
    <3>3. \A i \in 1 .. n : F[c][i] = e <=> i = k
      BY <1>3, <1>o, Zenon DEF n
    <3> HIDE DEF Old, e
    <3> QED
      <4>1. (\E j \in 1 .. n - 1 : A[j] = t) => (\E i \in 1 .. n : F[c][i] = t) /\ t # e
        BY <1>4, <3>3, Zenon
      <4>2. (\E i \in 1 .. n : F[c][i] = t) /\ t # e => \E j \in 1 .. n - 1 : A[j] = t
        BY <1>5, <3>3, Zenon
      <4> QED
        BY <2>2, <3>1, <3>2, <4>1, <4>2, Zenon
  <2> QED
    BY <2>1, <2>2, Zenon
<1>7. Once(G)
  <2> SUFFICES ASSUME NEW a \in I, NEW b \in I, NEW i \in 1 .. Len(G[a]), NEW j \in 1 .. Len(G[b]),
                      G[a][i] = G[b][j]
               PROVE  a = b /\ i = j
    BY <1>2 DEF Once
  <2> DEFINE p == IF a = c THEN Old(i) ELSE i
             q == IF b = c THEN Old(j) ELSE j
  <2>1. p \in 1 .. Len(F[a]) /\ F[a][p] = G[a][i]
    <3> HIDE DEF Old
    <3> QED
      BY <1>2, <1>3, <1>4, Zenon DEF n
  <2>2. q \in 1 .. Len(F[b]) /\ F[b][q] = G[b][j]
    <3> HIDE DEF Old
    <3> QED
      BY <1>2, <1>3, <1>4, Zenon DEF n
  <2>3. a = c => i \in Int /\ k \in Int
    BY <1>2, <1>3
  <2>4. b = c => j \in Int /\ k \in Int
    BY <1>2, <1>3
  <2> HIDE DEF p, q
  <2>5. a = b /\ p = q
    <3>1. \A m \in 1 .. Len(F[a]), l \in 1 .. Len(F[b]) : F[a][m] = F[b][l] => a = b /\ m = l
      BY <1>o, Zenon
    <3> QED
      BY <2>1, <2>2, <3>1, Zenon
  <2>6. a # c => i = j
    BY <2>5 DEF p, q
  <2>7. a = c => i = j
    BY <2>3, <2>4, <2>5 DEF p, q
  <2> QED
    BY <2>5, <2>6, <2>7, Zenon
<1> QED
  BY <1>2, <1>3, <1>6, <1>7, <1>h, Zenon DEF Removed, n

LEMMA TailOfOne ==
    ASSUME NEW I, NEW S, NEW F \in [I -> Seq(S)], NEW c \in I, F[c] # <<>>, Once(F),
           NEW G, G = [F EXCEPT ![c] = Tail(F[c])]
    PROVE  Removed(I, S, F, c, Head(F[c]), G)
<1> DEFINE A == Tail(F[c])
<1>1. F[c] \in Seq(S) /\ Len(F[c]) \in Nat /\ Len(F[c]) # 0 /\ F[c][1] = Head(F[c])
  OBVIOUS
<1>2. /\ A \in Seq(S) /\ Len(A) = Len(F[c]) - 1
      /\ \A j \in 1 .. Len(F[c]) - 1 : A[j] = F[c][j + 1]
  BY <1>1
<1>3. G = [F EXCEPT ![c] = A]
  OBVIOUS
<1> HIDE DEF A
<1>4. LeftOut(F[c], 1, A)
  BY <1>1, <1>2 DEF LeftOut
<1>5. Removed(I, S, F, c, F[c][1], G)
  BY <1>2, <1>3, <1>4, TakeFromOne, Zenon
<1> QED
  BY <1>1, <1>5, Zenon

(* The part of a list up to element n.                                     *)
LEMMA FirstPart ==
    ASSUME NEW S, NEW s \in Seq(S), NEW n \in 0 .. Len(s)
    PROVE  /\ SubSeq(s, 1, n) \in Seq(S) /\ Len(SubSeq(s, 1, n)) = n
           /\ \A i \in 1 .. n : SubSeq(s, 1, n)[i] = s[i]
<1>1. Len(s) \in Nat /\ n \in Nat /\ \A i \in 1 .. n : s[i] \in S
  BY ListLength, ListElement
<1> DEFINE A == SubSeq(s, 1, n)
<1>2. /\ A \in Seq(S) /\ Len(A) = (IF 1 <= n THEN n - 1 + 1 ELSE 0)
      /\ \A i \in 1 .. n - 1 + 1 : A[i] = s[1 + i - 1]
  BY <1>1
<1> HIDE DEF A
<1>3. Len(A) = n /\ \A i \in 1 .. n : i \in 1 .. n - 1 + 1 /\ 1 + i - 1 = i
  BY <1>1, <1>2
<1> QED
  BY <1>2, <1>3 DEF A

LEMMA FrontOfOne ==
    ASSUME NEW I, NEW S, NEW F \in [I -> Seq(S)], NEW c \in I, Len(F[c]) > 0, Once(F),
           NEW G, G = [F EXCEPT ![c] = SubSeq(F[c], 1, Len(F[c]) - 1)]
    PROVE  Removed(I, S, F, c, F[c][Len(F[c])], G)
<1> DEFINE A == SubSeq(F[c], 1, Len(F[c]) - 1)
<1>1. F[c] \in Seq(S) /\ Len(F[c]) \in Nat /\ Len(F[c]) - 1 \in 0 .. Len(F[c])
      /\ Len(F[c]) \in 1 .. Len(F[c])
  BY ListLength
<1>2. /\ A \in Seq(S) /\ Len(A) = Len(F[c]) - 1
      /\ \A i \in 1 .. Len(F[c]) - 1 : A[i] = F[c][i]
  BY <1>1, FirstPart, Zenon
<1>3. G = [F EXCEPT ![c] = A]
  OBVIOUS
<1> HIDE DEF A
<1>4. LeftOut(F[c], Len(F[c]), A)
  BY <1>1, <1>2 DEF LeftOut
<1> QED
  BY <1>1, <1>2, <1>3, <1>4, TakeFromOne, Zenon

(* A list without its element k.                                           *)
LEMMA OthersOfList ==
    ASSUME NEW S, NEW s \in Seq(S), NEW k \in 1 .. Len(s)
    PROVE  LET A == SubSeq(s, 1, k - 1) \o SubSeq(s, k + 1, Len(s))
           IN  A \in Seq(S) /\ LeftOut(s, k, A)
<1> DEFINE n == Len(s)
           B == SubSeq(s, 1, k - 1)
           C == SubSeq(s, k + 1, n)
           A == B \o C
<1>0. n \in Nat /\ k \in Int /\ k \in 1 .. n /\ \A i \in 1 .. n : s[i] \in S
  BY ListLength, ListElement
<1>1. B \in Seq(S) /\ Len(B) = k - 1 /\ \A i \in 1 .. k - 1 : B[i] = s[i]
  <2>1. k - 1 \in 0 .. Len(s)
    BY <1>0
  <2> QED
    BY <2>1, FirstPart, Zenon
<1>2. C \in Seq(S) /\ Len(C) = n - k /\ \A i \in 1 .. n - k : C[i] = s[k + i]
  <2>1. \A i \in k + 1 .. n : s[i] \in S
    BY <1>0
  <2>2. /\ C \in Seq(S) /\ Len(C) = (IF k + 1 <= n THEN n - (k + 1) + 1 ELSE 0)
        /\ \A i \in 1 .. n - (k + 1) + 1 : C[i] = s[k + 1 + i - 1]
    BY <1>0, <2>1
  <2> HIDE DEF n, C
  <2>3. Len(C) = n - k /\ \A i \in 1 .. n - k : i \in 1 .. n - (k + 1) + 1 /\ k + 1 + i - 1 = k + i
    BY <1>0, <2>2
  <2> QED
    BY <2>2, <2>3
<1> HIDE DEF n, B, C
<1>4. /\ A \in Seq(S) /\ Len(A) = Len(B) + Len(C)
      /\ \A j \in 1 .. Len(B) + Len(C) : A[j] = IF j <= Len(B) THEN B[j] ELSE C[j - Len(B)]
  <2>1. B \in Seq(S) /\ C \in Seq(S)
    BY <1>1, <1>2, Zenon
  <2> QED
    BY <2>1
<1> HIDE DEF A
<1>5. /\ Len(A) = n - 1
      /\ \A j \in 1 .. n - 1 : A[j] = IF j <= k - 1 THEN B[j] ELSE C[j - (k - 1)]
  BY <1>0, <1>1, <1>2, <1>4
<1>6. ASSUME NEW j \in 1 .. n - 1 PROVE (j < k => A[j] = s[j]) /\ (j >= k => A[j] = s[j + 1])
  <2>1. CASE j < k
    BY <1>0, <1>1, <1>5, <2>1
  <2>2. CASE j >= k
    <3>1. j - (k - 1) \in 1 .. n - k /\ k + (j - (k - 1)) = j + 1 /\ ~(j <= k - 1)
      BY <1>0, <2>2
    <3>2. A[j] = C[j - (k - 1)]
      BY <1>5, <3>1
    <3> QED
      BY <1>0, <1>2, <2>2, <3>1, <3>2
  <2> QED
    BY <1>0, <2>1, <2>2
<1> QED
  BY <1>0, <1>4, <1>5, <1>6, Zenon DEF LeftOut, A, B, C, n

-----------------------------------------------------------------------------
(* Moving list c in front of list d.                                       *)
LEMMA JoinLists ==
    ASSUME NEW I, NEW S, NEW F \in [I -> Seq(S)], Once(F), NEW c \in I, NEW d \in I, c # d,
           NEW G, G = [F EXCEPT ![c] = <<>>, ![d] = F[c] \o F[d]]
    PROVE  Joined(I, S, F, c, d, G)
<1> DEFINE A == F[c] \o F[d]
           m == Len(F[c])
           n == Len(F[d])
<1>1. m \in Nat /\ n \in Nat /\ F[c] \in Seq(S) /\ F[d] \in Seq(S)
  BY ListLength
<1>2. /\ A \in Seq(S) /\ Len(A) = m + n
      /\ \A j \in 1 .. m + n : A[j] = IF j <= m THEN F[c][j] ELSE F[d][j - m]
  BY <1>1
<1>3. <<>> \in Seq(S) /\ Len(<<>>) = 0
  OBVIOUS
<1> HIDE DEF A
<1>4. /\ G \in [I -> Seq(S)] /\ G[c] = <<>> /\ G[d] = A
      /\ \A a \in I \ {c, d} : G[a] = F[a]
  BY <1>2, <1>3, Zenon DEF A
<1>d. DOMAIN G = I
  BY <1>4
<1> HIDE DEF m, n
(* Where the element j of list a was before.                               *)
<1> DEFINE Old(a, j) == IF a = d /\ j <= m THEN c ELSE a
           Nr(a, j) == IF a = d /\ j > m THEN j - m ELSE j
           Was(a, j) == /\ j \in Int /\ a # c /\ Old(a, j) \in I
                        /\ Nr(a, j) \in 1 .. Len(F[Old(a, j)])
                        /\ G[a][j] = F[Old(a, j)][Nr(a, j)]
<1>5. ASSUME NEW a \in I, NEW j \in 1 .. Len(G[a]) PROVE Was(a, j)
  <2>1. CASE a = c
    BY <1>3, <1>4, <2>1
  <2>2. CASE a = d
    BY <1>1, <1>2, <1>4, <2>2, SMTT(30) DEF m, n
  <2>3. CASE a # c /\ a # d
    BY <1>4, <2>3
  <2> QED
    BY <2>1, <2>2, <2>3
<1> HIDE DEF Old, Nr, Was
<1>6. ASSUME NEW a \in I, NEW t
      PROVE  Has(G, a, t) <=> a # c /\ (Has(F, a, t) \/ (a = d /\ Has(F, c, t)))
  <2>1. ASSUME Has(G, a, t) PROVE a # c /\ (Has(F, a, t) \/ (a = d /\ Has(F, c, t)))
    <3>1. PICK j \in 1 .. Len(G[a]) : G[a][j] = t
      BY <2>1 DEF Has
    <3>2. a # c /\ Has(F, Old(a, j), t)
      <4>1. Was(a, j)
        BY <1>5, Zenon
      <4> QED
        BY <3>1, <4>1, Zenon DEF Was, Has
    <3> QED
      BY <3>2 DEF Old
  <2>2. ASSUME Has(F, c, t) PROVE Has(G, d, t)
    <3>1. PICK j \in 1 .. m : F[c][j] = t
      BY <2>2 DEF Has, m
    <3>2. j \in 1 .. m + n /\ A[j] = t
      BY <1>1, <1>2, <3>1
    <3> QED
      BY <1>2, <1>4, <3>2, Zenon DEF Has
  <2>3. ASSUME Has(F, d, t) PROVE Has(G, d, t)
    <3>1. PICK j \in 1 .. n : F[d][j] = t
      BY <2>3 DEF Has, n
    <3>2. j + m \in 1 .. m + n /\ A[j + m] = t
      <4>1. j + m \in 1 .. m + n /\ ~(j + m <= m) /\ (j + m) - m = j
        BY <1>1
      <4> QED
        BY <1>2, <3>1, <4>1
    <3> QED
      BY <1>2, <1>4, <3>2, Zenon DEF Has
  <2>4. ASSUME a # c, a # d, Has(F, a, t) PROVE Has(G, a, t)
    BY <1>4, <2>4 DEF Has
  <2> QED
    BY <2>1, <2>2, <2>3, <2>4, Zenon
<1>7. Once(G)
  <2> SUFFICES ASSUME NEW a \in I, NEW b \in I, NEW i \in 1 .. Len(G[a]), NEW j \in 1 .. Len(G[b]),
                      G[a][i] = G[b][j]
               PROVE  a = b /\ i = j
    BY <1>d, SMTT(30) DEF Once
  <2>0. Was(a, i) /\ Was(b, j)
    BY <1>5, Zenon
  <2>1. Old(a, i) = Old(b, j) /\ Nr(a, i) = Nr(b, j)
    <3>1. /\ Old(a, i) \in I /\ Nr(a, i) \in 1 .. Len(F[Old(a, i)])
          /\ Old(b, j) \in I /\ Nr(b, j) \in 1 .. Len(F[Old(b, j)])
          /\ F[Old(a, i)][Nr(a, i)] = F[Old(b, j)][Nr(b, j)]
      BY <2>0, Zenon DEF Was
    <3> QED
      BY <3>1, SMTT(30) DEF Once
  <2>2. i \in Int /\ j \in Int /\ a # c /\ b # c
    BY <2>0, Zenon DEF Was
  <2> QED
    BY <1>1, <2>1, <2>2 DEF Old, Nr
<1> QED
  BY <1>4, <1>6, <1>7, Zenon DEF Joined
=============================================================================
