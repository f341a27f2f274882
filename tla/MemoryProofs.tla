--------------------------- MODULE MemoryProofs ---------------------------
(* Proofs that the caches of the page allocator and of the slabs stay      *)
(* exact on every machine.                                                 *)
EXTENDS PageAlloc, Slab, FiniteSetTheorems, TLAPS

IInv == TypeOK /\ CachesExact /\ ScanNeverFails

-----------------------------------------------------------------------------
(* Lowest is the minimum of a non-empty set of naturals.                   *)
LEMMA LowestMember ==
    ASSUME NEW S, S \subseteq Nat, S # {}
    PROVE  Lowest(S) \in S /\ \A q \in S : Lowest(S) <= q
<1> DEFINE Below == {ss \in Nat \X Nat : ss[1] < ss[2]}
<1>1. \A x, y \in Nat : <<y, x>> \in Below \/ x <= y
  OBVIOUS
<1>2. IsWellFoundedOn(Below, Nat)
  BY NatLessThanWellFounded, Zenon DEF OpToRel
<1> HIDE DEF Below
<1>3. \E x \in S : \A y \in S : ~(<<y, x>> \in Below)
  BY <1>2, WFMin, Zenon
<1> QED
  BY <1>1, <1>3, Zenon DEF Lowest

LEMMA RegionCount ==
    ASSUME NEW S, NEW s \in Seq(S)
    PROVE  Len(s) \in Nat
OBVIOUS

LEMMA RegionOf ==
    ASSUME NEW S, NEW s \in Seq(S), NEW k \in 1 .. Len(s)
    PROVE  s[k] \in S
OBVIOUS

(* The memory map's entries, and the bounds they give the areas.           *)
LEMMA RegionShape ==
    ASSUME NEW i \in Areas
    PROVE  /\ i \in Nat
           /\ Regions[i].spa \in Nat /\ Regions[i].spa <= Spa(i)
           /\ Spa(i) \in Nat /\ Epa(i) \in Nat
           /\ Spa(i) < Epa(i) /\ Epa(i) <= NPages
<1>1. Regions[i] \in [spa : Nat, epa : Nat] /\ i \in Nat
  <2>1. Regions \in Seq([spa : Nat, epa : Nat])
    BY BootAssumption
  <2>2. i \in 1 .. Len(Regions)
    BY <2>1, RegionCount DEF Areas
  <2>3. Regions[i] \in [spa : Nat, epa : Nat]
    BY <2>1, <2>2, RegionOf, Zenon
  <2> QED
    BY <2>2, <2>3
<1>2. Regions[i].spa \in Nat /\ Epa(i) \in Nat
  BY <1>1 DEF Epa
<1>3. Regions[i].spa < Epa(i) /\ Epa(i) <= NPages
  BY BootAssumption DEF Epa
<1>4. Spa(i) \in Nat /\ Regions[i].spa <= Spa(i) /\ Spa(i) < Epa(i)
  BY <1>2, <1>3, BootAssumption DEF Spa
<1> QED
  BY <1>1, <1>2, <1>3, <1>4

(* The areas are pairwise disjoint sets of pages below mm.hpa.             *)
LEMMA AreaShape ==
    /\ \A i \in Areas : PagesOf(i) \subseteq Page /\ PagesOf(i) \subseteq Nat
    /\ \A i, j \in Areas : i # j => PagesOf(i) \cap PagesOf(j) = {}
<1>1. ASSUME NEW i \in Areas
      PROVE  PagesOf(i) \subseteq Page /\ PagesOf(i) \subseteq Nat
  <2>1. NPages \in Nat
    BY BootAssumption
  <2> QED
    BY <2>1, RegionShape DEF PagesOf, Page
<1>2. ASSUME NEW i \in Areas, NEW j \in Areas, i < j
      PROVE  PagesOf(i) \cap PagesOf(j) = {}
  <2>1. Epa(i) <= Regions[j].spa
    BY <1>2, BootAssumption DEF Epa
  <2>2. Epa(i) <= Spa(j)
    BY <2>1, RegionShape
  <2> QED
    BY <2>2, RegionShape DEF PagesOf
<1>3. ASSUME NEW i \in Areas, NEW j \in Areas, i # j
      PROVE  PagesOf(i) \cap PagesOf(j) = {}
  <2>1. i < j \/ j < i
    BY <1>3, RegionShape
  <2> QED
    BY <2>1, <1>2
<1> QED
  BY <1>1, <1>3

(* An area's free pages are a finite set.                                  *)
LEMMA FreeFinite ==
    ASSUME NEW i \in Areas
    PROVE  /\ IsFiniteSet(PagesOf(i))
           /\ IsFiniteSet(FreeOf(i)) /\ Cardinality(FreeOf(i)) \in Nat
           /\ FreeOf(i) \subseteq PagesOf(i) /\ FreeOf(i) \subseteq Nat
<1>1. IsFiniteSet(PagesOf(i))
  BY RegionShape, FS_Interval DEF PagesOf
<1>2. FreeOf(i) \subseteq PagesOf(i) /\ FreeOf(i) \subseteq Nat
  BY AreaShape DEF FreeOf
<1> QED
  BY <1>1, <1>2, FS_Subset, FS_CardinalityType
-----------------------------------------------------------------------------
(* set_mrt_table leaves exact caches behind.                               *)
LEMMA BootExact == Init => IInv
<1> SUFFICES ASSUME Init PROVE IInv
  OBVIOUS
<1>1. TypeOK
  <2>1. Reserved \in Nat /\ Garbage \subseteq 0 .. Reserved
    BY BootAssumption DEF Reserved
  <2>2. \A p \in Page : BootByte(p) \in 0 .. Reserved
    BY <2>1 DEF BootByte
  <2>3. mrt \in [Page -> 0 .. Reserved]
    BY <2>1, <2>2 DEF Init
  <2>4. \A i \in Areas : BootFpp(i) \in Nat /\ Spa(i) \in Nat
    BY RegionShape DEF BootFpp
  <2> QED
    BY <2>3, <2>4 DEF Init, TypeOK
<1>2. ASSUME NEW i \in Areas
      PROVE  /\ fpp[i] = Cardinality(FreeOf(i))
             /\ fpp[i] > 0 => /\ nfpa[i] \in FreeOf(i)
                              /\ \A q \in FreeOf(i) : nfpa[i] <= q
  <2>0. \A p \in PagesOf(i) : p \in Page /\ p \in Nat /\ p < Epa(i) /\ Spa(i) <= p
    BY AreaShape, RegionShape DEF PagesOf
  <2>1. \A p \in PagesOf(i) : mrt[p] = BootByte(p)
    BY <2>0, RegionShape, BootAssumption DEF Init, Unwritten
  <2>2. CASE Epa(i) <= KEnd
    <3>1. ASSUME NEW p \in PagesOf(i) PROVE mrt[p] # 0
      <4>1. KEnd \in Nat /\ Reserved \in Nat \ {0}
        BY BootAssumption DEF Reserved
      <4>2. ~(p >= KEnd)
        BY <2>0, <2>2, <4>1, RegionShape
      <4> QED
        BY <2>1, <4>1, <4>2, Zenon DEF BootByte
    <3>2. FreeOf(i) = {}
      BY <3>1 DEF FreeOf
    <3>3. fpp[i] = 0 /\ ~(0 > 0)
      BY <2>2 DEF Init, BootFpp
    <3>4. Cardinality(FreeOf(i)) = 0
      BY <3>2, FS_EmptySet, Zenon
    <3> QED
      BY <3>3, <3>4, Zenon
  <2>3. CASE ~(Epa(i) <= KEnd)
    <3>1. KEnd <= Spa(i)
      BY <2>3, RegionShape, BootAssumption DEF Spa
    <3>2. ASSUME NEW p \in PagesOf(i) PROVE mrt[p] = 0
      <4>1. p >= KEnd
        BY <2>0, <3>1, RegionShape, BootAssumption
      <4> QED
        BY <2>1, <4>1 DEF BootByte
    <3>3. FreeOf(i) = PagesOf(i)
      BY <3>2 DEF FreeOf
    <3>4. Cardinality(PagesOf(i)) = Epa(i) - Spa(i)
      BY RegionShape, FS_Interval DEF PagesOf
    <3>5. Spa(i) \in PagesOf(i)
      BY AreaShape, RegionShape DEF PagesOf
    <3> QED
      BY <2>0, <2>3, <3>3, <3>4, <3>5, RegionShape DEF Init, BootFpp
  <2> QED
    BY <2>2, <2>3
<1>3. CachesExact
  BY <1>2 DEF CachesExact
<1> QED
  BY <1>1, <1>3 DEF IInv, ScanNeverFails, Init
-----------------------------------------------------------------------------
(* Taking free pages of one area, and searching nfpa again from where it   *)
(* was, keeps the caches exact and never misses.                           *)
LEMMA TakeExact ==
    ASSUME IInv, NEW i \in Areas, NEW take, take \subseteq FreeOf(i), take # {},
           fpp[i] > 0, halted = "no",
           Take(i, take, nfpa[i])
    PROVE  IInv'
<1> DEFINE after == [p \in Page |-> IF p \in take THEN mrt[p] + 1 ELSE mrt[p]]
           left  == fpp[i] - Cardinality(take)
           seen  == {p \in nfpa[i] .. Epa(i) - 1 : after[p] = 0}
<1>1. mrt' = after /\ fpp' = [fpp EXCEPT ![i] = left] /\ got' = take
  BY DEF Take
<1>2. mrt \in [Page -> 0 .. Reserved] /\ fpp \in [Areas -> Nat] /\ nfpa \in [Areas -> Nat]
  BY DEF IInv, TypeOK
<1>3. /\ fpp[i] = Cardinality(FreeOf(i))
      /\ nfpa[i] \in FreeOf(i) /\ \A q \in FreeOf(i) : nfpa[i] <= q
  BY DEF IInv, CachesExact
<1>4. take \subseteq PagesOf(i) /\ take \subseteq Page /\ \A p \in take : mrt[p] = 0
  BY AreaShape DEF FreeOf
<1>5. mrt' \in [Page -> 0 .. Reserved]
  <2>1. 1 \in 0 .. Reserved
    BY BootAssumption DEF Reserved
  <2> QED
    BY <1>1, <1>2, <1>4, <2>1
<1>6. FreeOf(i)' = FreeOf(i) \ take
  BY <1>1, <1>2, <1>4, AreaShape DEF FreeOf
<1>7. \A j \in Areas \ {i} : FreeOf(j)' = FreeOf(j)
  BY <1>1, <1>2, <1>4, AreaShape DEF FreeOf
<1>8. /\ IsFiniteSet(FreeOf(i) \ take)
      /\ Cardinality(FreeOf(i) \ take) = left
      /\ left \in Nat
  <2>1. FreeOf(i) \cap take = take
    OBVIOUS
  <2>2. IsFiniteSet(take) /\ Cardinality(take) \in Nat
    BY FreeFinite, FS_Subset, FS_CardinalityType
  <2>3. /\ IsFiniteSet(FreeOf(i) \ take)
        /\ Cardinality(FreeOf(i) \ take) = Cardinality(FreeOf(i)) - Cardinality(FreeOf(i) \cap take)
    BY FreeFinite, FS_Difference, Zenon
  <2>4. Cardinality(FreeOf(i) \ take) \in Nat
    BY <2>3, FS_CardinalityType
  <2> QED
    BY <1>3, <2>1, <2>2, <2>3, <2>4
<1>9. seen = FreeOf(i) \ take
  <2>1. \A p \in FreeOf(i) \ take : p \in seen
    BY <1>2, <1>3, <1>4, AreaShape, RegionShape, FreeFinite DEF FreeOf, PagesOf
  <2>2. ASSUME NEW p \in seen PROVE p \in FreeOf(i) \ take
    <3>1. p \in PagesOf(i) /\ p \in Page
      BY <1>2, <1>3, AreaShape, RegionShape DEF FreeOf, PagesOf
    <3> QED
      BY <1>2, <1>4, <3>1 DEF FreeOf
  <2> QED
    BY <2>1, <2>2
<1>10. CASE left = 0
  <2>1. nfpa' = nfpa /\ halted' = halted
    BY <1>10 DEF Take
  <2>2. TypeOK'
    BY <1>1, <1>2, <1>4, <1>5, <1>8, <2>1 DEF IInv, TypeOK
  <2>3. CachesExact'
    <3> HIDE DEF left
    <3>1. ASSUME NEW j \in Areas, j # i
          PROVE  /\ fpp'[j] = Cardinality(FreeOf(j)')
                 /\ fpp'[j] > 0 => /\ nfpa'[j] \in FreeOf(j)'
                                   /\ \A q \in FreeOf(j)' : nfpa'[j] <= q
      BY <1>1, <1>2, <1>7, <2>1, <3>1 DEF IInv, CachesExact
    <3>2. fpp'[i] = Cardinality(FreeOf(i)') /\ ~(fpp'[i] > 0)
      BY <1>1, <1>2, <1>6, <1>8, <1>10
    <3> QED
      BY <3>1, <3>2 DEF CachesExact
  <2> QED
    BY <2>1, <2>2, <2>3 DEF IInv, ScanNeverFails
<1>11. CASE left # 0
  <2>1. seen # {} /\ seen \subseteq Nat
    <3>1. seen # {}
      BY <1>8, <1>9, <1>11, FS_EmptySet, Zenon
    <3> QED
      BY <3>1, <1>9, FreeFinite
  <2>2. Lowest(seen) \in seen /\ \A q \in seen : Lowest(seen) <= q
    BY <2>1, LowestMember, Zenon
  <2>3. nfpa' = [nfpa EXCEPT ![i] = Lowest(seen)] /\ halted' = halted
    BY <1>11, <2>1 DEF Take
  <2> HIDE DEF seen, after, left
  <2>4. TypeOK'
    BY <1>1, <1>2, <1>4, <1>5, <1>8, <2>1, <2>2, <2>3, Zenon DEF IInv, TypeOK
  <2>5. CachesExact'
    <3>1. ASSUME NEW j \in Areas, j # i
          PROVE  /\ fpp'[j] = Cardinality(FreeOf(j)')
                 /\ fpp'[j] > 0 => /\ nfpa'[j] \in FreeOf(j)'
                                   /\ \A q \in FreeOf(j)' : nfpa'[j] <= q
      BY <1>1, <1>2, <1>7, <2>3, <3>1 DEF IInv, CachesExact
    <3>2. /\ fpp'[i] = Cardinality(FreeOf(i)')
          /\ nfpa'[i] \in FreeOf(i)'
          /\ \A q \in FreeOf(i)' : nfpa'[i] <= q
      BY <1>1, <1>2, <1>6, <1>8, <1>9, <2>2, <2>3, SMTT(30)
    <3> QED
      BY <3>1, <3>2 DEF CachesExact
  <2> QED
    BY <2>3, <2>4, <2>5 DEF IInv, ScanNeverFails
<1> QED
  BY <1>10, <1>11

(* A call that returns or halts without touching the tables keeps IInv.    *)
LEMMA TablesKept ==
    ASSUME IInv, UNCHANGED <<mrt, fpp, nfpa>>, got' = {},
           halted' \in {"no", "oom", "misuse"}
    PROVE  IInv'
<1>1. TypeOK'
  BY DEF IInv, TypeOK
<1>2. \A i \in Areas : FreeOf(i)' = FreeOf(i)
  BY DEF FreeOf
<1>3. CachesExact'
  BY <1>2 DEF IInv, CachesExact
<1>4. ScanNeverFails'
  BY DEF ScanNeverFails
<1> QED
  BY <1>1, <1>3, <1>4 DEF IInv

(* A halt() leaves the tables alone.                                       *)
LEMMA HaltExact ==
    ASSUME IInv, NEW why \in {"oom", "misuse"}, Halt(why)
    PROVE  IInv'
BY TablesKept DEF Halt

(* alloc_page_4k: the cached page of the first area with room is taken.    *)
LEMMA AllocPageExact == IInv /\ AllocPage => IInv'
<1> SUFFICES ASSUME IInv, AllocPage PROVE IInv'
  OBVIOUS
<1> DEFINE open == {i \in Areas : fpp[i] > 0}
<1>1. CASE open = {}
  BY <1>1, HaltExact DEF AllocPage
<1>2. CASE open # {}
  <2> DEFINE i == Lowest(open)
  <2>1. i \in open
    <3>1. open \subseteq Nat
      BY RegionShape
    <3> QED
      BY <1>2, <3>1, LowestMember
  <2>2. i \in Areas /\ fpp[i] > 0
    BY <2>1
  <2>3. Take(i, {nfpa[i]}, nfpa[i]) /\ halted = "no"
    BY <1>2 DEF AllocPage
  <2>4. {nfpa[i]} \subseteq FreeOf(i)
    BY <2>2 DEF IInv, CachesExact
  <2> HIDE DEF i
  <2> QED
    BY <2>2, <2>3, <2>4, TakeExact
<1> QED
  BY <1>1, <1>2

(* alloc_n_pages_4k: the first run of one area is taken.                   *)
LEMMA AllocRunExact ==
    ASSUME IInv, NEW n \in Nat, AllocRun(n)
    PROVE  IInv'
<1> DEFINE fits == {i \in Areas : fpp[i] >= n /\ Runs(i, n) # {}}
<1>1. CASE n = 0 \/ fits = {}
  BY <1>1, TablesKept DEF AllocRun
<1>2. CASE n # 0 /\ fits # {}
  <2> DEFINE i == Lowest(fits)
             r == Lowest(Runs(i, n))
  <2>1. i \in fits
    <3>1. fits \subseteq Nat
      BY RegionShape
    <3> QED
      BY <1>2, <3>1, LowestMember
  <2>2. i \in Areas /\ fpp[i] >= n /\ Runs(i, n) # {}
    BY <2>1
  <2>3. Take(i, r .. r + n - 1, nfpa[i]) /\ halted = "no"
    BY <1>2 DEF AllocRun
  <2> HIDE DEF i
  <2>4. /\ fpp[i] \in Nat /\ nfpa[i] \in Nat /\ fpp[i] > 0
        /\ nfpa[i] \in FreeOf(i)
    BY <1>2, <2>2 DEF IInv, TypeOK, CachesExact
  <2>5. r \in Runs(i, n)
    <3>1. Runs(i, n) \subseteq Nat
      BY <2>2, <2>4, RegionShape DEF Runs
    <3> QED
      BY <2>2, <3>1, LowestMember
  <2> HIDE DEF r
  <2>6. /\ r \in Nat /\ nfpa[i] <= r /\ r + n <= Epa(i)
        /\ \A p \in r .. r + n - 1 : mrt[p] = 0
    BY <2>2, <2>4, <2>5, RegionShape DEF Runs
  <2>7. r .. r + n - 1 \subseteq FreeOf(i)
    BY <2>2, <2>4, <2>6, RegionShape DEF FreeOf, PagesOf
  <2>8. r .. r + n - 1 # {}
    BY <1>2, <2>6
  <2> QED
    BY <2>2, <2>3, <2>4, <2>7, <2>8, TakeExact, Zenon
<1> QED
  BY <1>1, <1>2

(* add_reference_page_4k: a page in use stays in use, or the call halts.   *)
LEMMA AddReferenceExact ==
    ASSUME IInv, NEW p \in Page, AddReference(p)
    PROVE  IInv'
<1>1. CASE mrt[p] \in {0, Reserved}
  BY <1>1, HaltExact DEF AddReference
<1>2. CASE mrt[p] \notin {0, Reserved}
  <2>1. /\ mrt' = [mrt EXCEPT ![p] = IF @ = RefMax THEN @ ELSE @ + 1]
        /\ got' = {} /\ UNCHANGED <<fpp, nfpa, halted>>
    BY <1>2 DEF AddReference
  <2>2. mrt \in [Page -> 0 .. Reserved] /\ RefMax \in Nat
    BY BootAssumption DEF IInv, TypeOK
  <2>3. mrt' \in [Page -> 0 .. Reserved] /\ mrt'[p] # 0
    BY <1>2, <2>1, <2>2 DEF Reserved
  <2>4. \A q \in Page : mrt'[q] = 0 <=> mrt[q] = 0
    BY <1>2, <2>1, <2>2, <2>3
  <2>5. \A i \in Areas : FreeOf(i)' = FreeOf(i)
    BY <2>4, AreaShape DEF FreeOf
  <2> QED
    BY <2>1, <2>3, <2>5 DEF IInv, TypeOK, CachesExact, ScanNeverFails
<1> QED
  BY <1>1, <1>2

(* free_n_pages_4k and decrease_reference_page_4k: the pages that reach a  *)
(* count of 0 join the area's free pages, and nfpa can only move down to   *)
(* the lowest of them.                                                     *)
LEMMA ReleaseExact ==
    ASSUME IInv, NEW a \in Nat, NEW n \in Nat, Release(a, n)
    PROVE  IInv'
<1> DEFINE P == a .. a + n - 1
           bad(p) == \/ p >= NPages
                     \/ mrt[p] \in {0, Reserved}
                     \/ mrt[p] = 1 /\ \A i \in Areas : p \notin PagesOf(i)
           freed(i) == {p \in P \cap PagesOf(i) : mrt[p] = 1}
<1>1. CASE \E p \in P : bad(p)
  BY <1>1, HaltExact DEF Release
<1>2. CASE \A p \in P : ~bad(p)
  <2>1. /\ mrt' = [p \in Page |-> IF p \in P THEN mrt[p] - 1 ELSE mrt[p]]
        /\ fpp' = [i \in Areas |-> fpp[i] + Cardinality(freed(i))]
        /\ nfpa' = [i \in Areas |-> NextFree(i, freed(i))]
        /\ got' = {} /\ halted' = halted
    BY <1>2 DEF Release
  <2>2. /\ mrt \in [Page -> 0 .. Reserved] /\ fpp \in [Areas -> Nat]
        /\ nfpa \in [Areas -> Nat]
    BY DEF IInv, TypeOK
  <2>3. \A p \in P : p \in Page /\ mrt[p] \in Nat /\ mrt[p] # 0
    BY <1>2, <2>2, BootAssumption DEF Page, Reserved
  <2>4. mrt' \in [Page -> 0 .. Reserved]
    BY <2>1, <2>2, <2>3, BootAssumption DEF Reserved
  <2>5. ASSUME NEW i \in Areas
        PROVE  /\ FreeOf(i)' = FreeOf(i) \cup freed(i)
               /\ FreeOf(i) \cap freed(i) = {}
               /\ freed(i) \subseteq Nat
               /\ IsFiniteSet(freed(i)) /\ Cardinality(freed(i)) \in Nat
    <3>1. \A p \in PagesOf(i) : mrt'[p] = 0 <=> mrt[p] = 0 \/ p \in freed(i)
      BY <2>1, <2>2, <2>3, AreaShape
    <3>2. FreeOf(i)' = FreeOf(i) \cup freed(i)
      BY <3>1 DEF FreeOf
    <3>3. FreeOf(i) \cap freed(i) = {}
      BY DEF FreeOf
    <3>4. freed(i) \subseteq PagesOf(i) /\ freed(i) \subseteq Nat
      BY AreaShape
    <3> HIDE DEF freed
    <3>5. IsFiniteSet(freed(i)) /\ Cardinality(freed(i)) \in Nat
      BY <3>4, FreeFinite, FS_Subset, FS_CardinalityType
    <3> QED
      BY <3>2, <3>3, <3>4, <3>5
  <2> HIDE DEF freed
  <2>6. ASSUME NEW i \in Areas
        PROVE  /\ fpp'[i] = Cardinality(FreeOf(i)')
               /\ fpp'[i] \in Nat /\ nfpa'[i] \in Nat
               /\ fpp'[i] > 0 => /\ nfpa'[i] \in FreeOf(i)'
                                 /\ \A q \in FreeOf(i)' : nfpa'[i] <= q
    <3>1. /\ fpp[i] = Cardinality(FreeOf(i))
          /\ fpp[i] > 0 => /\ nfpa[i] \in FreeOf(i)
                           /\ \A q \in FreeOf(i) : nfpa[i] <= q
      BY DEF IInv, CachesExact
    <3>2. Cardinality(FreeOf(i)') = fpp[i] + Cardinality(freed(i))
      <4>1. Cardinality(FreeOf(i) \cup freed(i))
              = Cardinality(FreeOf(i)) + Cardinality(freed(i)) - Cardinality(FreeOf(i) \cap freed(i))
        BY <2>5, FreeFinite, FS_Union
      <4>2. Cardinality(FreeOf(i) \cap freed(i)) = 0
        BY <2>5, FS_EmptySet, Zenon
      <4>3. Cardinality(FreeOf(i)') = Cardinality(FreeOf(i) \cup freed(i))
        BY <2>5, Zenon
      <4>4. fpp[i] \in Nat /\ Cardinality(freed(i)) \in Nat
        BY <2>2, <2>5
      <4> QED
        BY <3>1, <4>1, <4>2, <4>3, <4>4
    <3>3. nfpa'[i] = NextFree(i, freed(i)) /\ fpp'[i] = fpp[i] + Cardinality(freed(i))
      BY <2>1
    <3>4. CASE freed(i) = {}
      <4>1. nfpa'[i] = nfpa[i] /\ fpp'[i] = fpp[i]
        BY <2>2, <3>3, <3>4, FS_EmptySet DEF NextFree
      <4> QED
        BY <2>2, <2>5, <3>1, <3>2, <3>3, <3>4, <4>1
    <3>5. CASE freed(i) # {}
      <4>1. Lowest(freed(i)) \in freed(i) /\ \A q \in freed(i) : Lowest(freed(i)) <= q
        BY <2>5, <3>5, LowestMember
      <4>2. nfpa[i] \in Nat /\ fpp[i] \in Nat /\ Lowest(freed(i)) \in Nat
        BY <2>2, <2>5, <4>1
      <4>3. FreeOf(i) \subseteq Nat /\ (fpp[i] = 0 => FreeOf(i) = {})
        BY <3>1, FreeFinite, FS_EmptySet
      <4>4. /\ nfpa'[i] \in FreeOf(i) \cup freed(i)
            /\ \A q \in FreeOf(i) \cup freed(i) : nfpa'[i] <= q
        <5>1. CASE fpp[i] > 0 /\ nfpa[i] < Lowest(freed(i))
          BY <2>5, <3>1, <3>3, <4>1, <4>2, <4>3, <5>1 DEF NextFree
        <5>2. CASE ~(fpp[i] > 0 /\ nfpa[i] < Lowest(freed(i)))
          <6>1. nfpa'[i] = Lowest(freed(i))
            BY <3>3, <3>5, <5>2 DEF NextFree
          <6>2. \A q \in FreeOf(i) : Lowest(freed(i)) <= q
            BY <3>1, <4>2, <4>3, <5>2
          <6> QED
            BY <4>1, <6>1, <6>2
        <5> QED
          BY <5>1, <5>2
      <4> QED
        BY <2>2, <2>5, <3>2, <3>3, <4>2, <4>3, <4>4
    <3> QED
      BY <3>4, <3>5
  <2>7. TypeOK'
    <3>1. fpp' \in [Areas -> Nat] /\ nfpa' \in [Areas -> Nat]
      BY <2>1, <2>6
    <3> QED
      BY <2>1, <2>4, <3>1 DEF IInv, TypeOK
  <2>8. CachesExact'
    BY <2>6 DEF CachesExact
  <2> QED
    BY <2>1, <2>7, <2>8 DEF IInv, ScanNeverFails
<1> QED
  BY <1>1, <1>2
-----------------------------------------------------------------------------
(* Every step of the allocator keeps IInv.                                 *)
LEMMA StepExact == IInv /\ [Next]_vars => IInv'
<1> SUFFICES ASSUME IInv, [Next]_vars PROVE IInv'
  OBVIOUS
<1>1. CASE AllocPage
  BY <1>1, AllocPageExact
<1>2. CASE \E n \in 0 .. MaxRun : AllocRun(n)
  BY <1>2, AllocRunExact
<1>3. CASE \E a \in 0 .. NPages, n \in 1 .. MaxRun : Release(a, n)
  BY <1>3, ReleaseExact
<1>4. CASE \E p \in Page : AddReference(p)
  BY <1>4, AddReferenceExact
<1>5. CASE UNCHANGED vars
  BY <1>5 DEF vars, IInv, TypeOK, CachesExact, ScanNeverFails, FreeOf
<1> QED
  BY <1>1, <1>2, <1>3, <1>4, <1>5 DEF Next

(* For every memory map, fpp counts an area's free pages and nfpa is the   *)
(* lowest of them, after any sequence of alloc_page_4k, alloc_n_pages_4k,  *)
(* free_n_pages_4k, kfree and add_reference_page_4k.                       *)
THEOREM CachesStayExact == Spec => [](TypeOK /\ CachesExact)
<1>1. IInv => TypeOK /\ CachesExact
  BY DEF IInv
<1> QED
  BY <1>1, BootExact, StepExact, PTL DEF Spec

(* For every memory map, the searches for the next free page (mm.c 110 and *)
(* 142) always find one: the halt() calls behind them are dead code.       *)
THEOREM NextFreePageIsFound == Spec => []ScanNeverFails
<1>1. IInv => ScanNeverFails
  BY DEF IInv
<1> QED
  BY <1>1, BootExact, StepExact, PTL DEF Spec

(* For every memory map, a call only ever hands out pages that were free:  *)
(* one run of one area, each now referenced once, no other count moved.    *)
THEOREM OnlyFreePagesHandedOut == Spec => HandsOutFreePages
<1> DEFINE A == got' # {} =>
         /\ \E i \in Areas : got' \subseteq PagesOf(i)
         /\ \A p \in got' : mrt[p] = 0 /\ mrt'[p] = 1
         /\ \A p, q \in got' : \A r \in p .. q : r \in got'
         /\ \A p \in Page \ got' : mrt'[p] = mrt[p]
<1>1. ASSUME IInv, NEW i \in Areas, NEW lo \in Nat, NEW hi \in Int, NEW from,
             lo .. hi \subseteq FreeOf(i), Take(i, lo .. hi, from)
      PROVE  A
  <2>1. /\ mrt' = [p \in Page |-> IF p \in lo .. hi THEN mrt[p] + 1 ELSE mrt[p]]
        /\ got' = lo .. hi
    BY <1>1 DEF Take
  <2>2. got' \subseteq PagesOf(i) /\ got' \subseteq Page /\ \A p \in got' : mrt[p] = 0
    BY <1>1, <2>1, AreaShape DEF FreeOf
  <2>3. \A p \in got' : mrt'[p] = 1
    BY <2>1, <2>2
  <2>4. \A p, q \in got' : \A r \in p .. q : r \in got'
    BY <2>1
  <2>5. \A p \in Page \ got' : mrt'[p] = mrt[p]
    BY <2>1
  <2> QED
    BY <2>2, <2>3, <2>4, <2>5
<1>2. IInv /\ [Next]_vars => [A]_vars
  <2> SUFFICES ASSUME IInv, Next PROVE A
    OBVIOUS
  <2>1. CASE AllocPage
    <3> DEFINE open == {i \in Areas : fpp[i] > 0}
               i    == Lowest(open)
    <3>1. CASE open = {}
      BY <2>1, <3>1 DEF AllocPage, Halt
    <3>2. CASE open # {}
      <4>1. open \subseteq Nat
        BY RegionShape
      <4>2. i \in Areas /\ fpp[i] > 0
        BY <3>2, <4>1, LowestMember
      <4>3. Take(i, {nfpa[i]}, nfpa[i])
        BY <2>1, <3>2 DEF AllocPage
      <4> HIDE DEF i
      <4>4. nfpa[i] \in Nat /\ nfpa[i] \in FreeOf(i)
        BY <4>2 DEF IInv, TypeOK, CachesExact
      <4>5. {nfpa[i]} = nfpa[i] .. nfpa[i]
        BY <4>4
      <4>6. Take(i, nfpa[i] .. nfpa[i], nfpa[i])
        BY <4>3, <4>5
      <4>7. nfpa[i] .. nfpa[i] \subseteq FreeOf(i) /\ nfpa[i] \in Int
        BY <4>4, <4>5
      <4> HIDE DEF A
      <4> QED
        BY <1>1, <4>2, <4>4, <4>6, <4>7
    <3> QED
      BY <3>1, <3>2
  <2>2. ASSUME NEW n \in 0 .. MaxRun, AllocRun(n) PROVE A
    <3> DEFINE fits == {i \in Areas : fpp[i] >= n /\ Runs(i, n) # {}}
               i    == Lowest(fits)
               r    == Lowest(Runs(i, n))
    <3>1. CASE n = 0 \/ fits = {}
      BY <2>2, <3>1 DEF AllocRun
    <3>2. CASE n # 0 /\ fits # {}
      <4>1. fits \subseteq Nat
        BY RegionShape
      <4>2. i \in Areas /\ fpp[i] >= n /\ Runs(i, n) # {}
        BY <3>2, <4>1, LowestMember
      <4>3. Take(i, r .. r + n - 1, nfpa[i])
        BY <2>2, <3>2 DEF AllocRun
      <4> HIDE DEF i
      <4>4. /\ n \in Nat /\ fpp[i] > 0 /\ nfpa[i] \in Nat
            /\ nfpa[i] \in FreeOf(i)
        BY <3>2, <4>2 DEF IInv, TypeOK, CachesExact
      <4>5. Runs(i, n) \subseteq Nat
        BY <4>2, <4>4, RegionShape DEF Runs
      <4>6. r \in Runs(i, n)
        BY <4>2, <4>5, LowestMember
      <4> HIDE DEF r
      <4>7. /\ r \in Nat /\ nfpa[i] <= r /\ r + n <= Epa(i)
            /\ \A p \in r .. r + n - 1 : mrt[p] = 0
        BY <4>2, <4>4, <4>6, RegionShape DEF Runs
      <4>8. r .. r + n - 1 \subseteq FreeOf(i)
        BY <4>2, <4>4, <4>7, RegionShape DEF FreeOf, PagesOf
      <4> QED
        BY <1>1, <4>2, <4>3, <4>4, <4>7, <4>8
    <3> QED
      BY <3>1, <3>2
  <2>3. ASSUME NEW a \in 0 .. NPages, NEW n \in 1 .. MaxRun, Release(a, n) PROVE A
    BY <2>3 DEF Release, Halt
  <2>4. ASSUME NEW p \in Page, AddReference(p) PROVE A
    BY <2>4 DEF AddReference, Halt
  <2> QED
    BY <2>1, <2>2, <2>3, <2>4 DEF Next
<1>3. HandsOutFreePages <=> [][A]_vars
  BY DEF HandsOutFreePages
<1> QED
  BY <1>2, <1>3, BootExact, StepExact, PTL DEF Spec

-----------------------------------------------------------------------------
(* What a slab with the entries E keeps of its bitmap b: how many are free *)
(* and the first of them.                                                  *)
Cached(E, b, count, first) ==
    /\ count = Cardinality(E \ b)
    /\ first = IF E \ b = {} THEN 0 ELSE Lowest(E \ b)

LEMMA LowestIs ==
    ASSUME NEW S, S \subseteq Nat, NEW x \in S, \A y \in S : x <= y
    PROVE  Lowest(S) = x
<1>1. Lowest(S) \in S /\ \A y \in S : Lowest(S) <= y
  BY LowestMember, Zenon
<1>2. Lowest(S) <= x /\ x <= Lowest(S) /\ x \in Nat /\ Lowest(S) \in Nat
  BY <1>1, Zenon
<1> QED
  BY <1>2

LEMMA FreeCount ==
    ASSUME NEW l \in Nat, NEW h \in Nat, NEW F \in SUBSET (l .. h)
    PROVE  /\ IsFiniteSet(F) /\ Cardinality(F) \in Nat /\ F \subseteq Nat
           /\ Cardinality(F) = 0 <=> F = {}
<1>1. l \in Int /\ h \in Int /\ l .. h \subseteq Nat
  OBVIOUS
<1>2. IsFiniteSet(l .. h)
  BY <1>1, FS_Interval, Zenon
<1>3. IsFiniteSet(F)
  BY <1>2, FS_Subset, Zenon
<1> QED
  BY <1>1, <1>3, FS_CardinalityType, FS_EmptySet, Zenon

(* What it finds when it takes the first free entry: the search through    *)
(* the entries after it, up to h, is a search through all the others.      *)
TakesFirst(E, h, b, count, first) ==
    /\ first \in E \ b /\ count \in Nat \ {0}
    /\ {k \in first + 1 .. h : k \notin b} = E \ (b \cup {first})
    /\ count > 1 <=> E \ (b \cup {first}) # {}
    /\ Cardinality(E \ (b \cup {first})) = count - 1

LEMMA TakeFirst ==
    ASSUME NEW l \in Nat, NEW h \in Nat, NEW b, NEW count, NEW first,
           Cached(l .. h, b, count, first), (l .. h) \ b # {}
    PROVE  TakesFirst(l .. h, h, b, count, first)
<1> DEFINE F == (l .. h) \ b
           G == (l .. h) \ (b \cup {first})
<1>1. F \in SUBSET (l .. h) /\ G \in SUBSET (l .. h)
  BY Zenon
<1>2. /\ IsFiniteSet(F) /\ Cardinality(F) \in Nat /\ F \subseteq Nat /\ (Cardinality(F) = 0 <=> F = {})
      /\ Cardinality(G) \in Nat /\ (Cardinality(G) = 0 <=> G = {})
  BY <1>1, FreeCount, Zenon
<1>3. first = Lowest(F) /\ count = Cardinality(F)
  BY Zenon DEF Cached
<1>4. first \in F /\ \A y \in F : first <= y
  BY <1>2, <1>3, LowestMember, Zenon
<1>5. G = F \ {first}
  BY Zenon
<1>6. Cardinality(G) = Cardinality(F) - 1
  <2> HIDE DEF F, G
  <2> QED
    BY <1>2, <1>4, <1>5, FS_RemoveElement, Zenon
<1>7. {k \in first + 1 .. h : k \notin b} = G
  <2>1. ASSUME NEW k \in G PROVE k \in first + 1 .. h /\ k \notin b
    <3>1. k \in l .. h /\ k # first /\ first <= k /\ k \notin b /\ first \in l .. h
      BY <1>4, <1>5, Zenon
    <3> QED
      BY <3>1
  <2>2. ASSUME NEW k \in first + 1 .. h, k \notin b PROVE k \in G
    <3>1. first \in l .. h
      BY <1>4, Zenon
    <3>2. k \in l .. h /\ k # first
      BY <2>2, <3>1
    <3> QED
      BY <2>2, <3>2, Zenon
  <2> HIDE DEF G
  <2> QED
    BY <2>1, <2>2, Zenon
<1>8. count \in Nat \ {0} /\ (count > 1 <=> Cardinality(G) # 0)
  <2> HIDE DEF F, G
  <2> QED
    BY <1>2, <1>3, <1>4, <1>6
<1> QED
  BY <1>2, <1>3, <1>4, <1>6, <1>7, <1>8, Zenon DEF TakesFirst

(* A taken entry is given back.                                            *)
LEMMA GiveBack ==
    ASSUME NEW l \in Nat, NEW h \in Nat, NEW b, NEW count, NEW first,
           Cached(l .. h, b, count, first), NEW j \in l .. h, j \in b
    PROVE  Cached(l .. h, b \ {j}, count + 1,
                  IF (l .. h) \ b = {} \/ first > j THEN j ELSE first)
<1> DEFINE F == (l .. h) \ b
           G == (l .. h) \ (b \ {j})
           new == IF F = {} \/ first > j THEN j ELSE first
<1>1. F \in SUBSET (l .. h) /\ G \in SUBSET (l .. h) /\ j \notin F /\ j \in Nat
  BY FreeCount
<1>2. /\ IsFiniteSet(F) /\ Cardinality(F) \in Nat /\ F \subseteq Nat /\ G \subseteq Nat
  BY <1>1, FreeCount, Zenon
<1>3. count = Cardinality(F) /\ first = IF F = {} THEN 0 ELSE Lowest(F)
  BY Zenon DEF Cached
<1>4. G = F \cup {j}
  BY Zenon
<1>5. Cardinality(G) = Cardinality(F) + 1
  BY <1>1, <1>2, <1>4, FS_AddElement, Zenon
<1>6. F # {} => first \in F /\ \A y \in F : first <= y
  BY <1>2, <1>3, LowestMember, Zenon
<1>7. new \in G /\ \A y \in G : new <= y
  <2> HIDE DEF F, G
  <2>1. CASE F = {}
    <3>1. new = j /\ \A y \in G : y = j
      BY <1>4, <2>1, Zenon
    <3> QED
      BY <1>1, <1>4, <3>1
  <2>2. CASE F # {}
    <3>1. first \in Nat /\ first \in F /\ \A y \in F : y \in Nat /\ first <= y
      BY <1>2, <1>6, <2>2, Zenon
    <3>2. CASE first > j
      BY <1>1, <1>4, <3>1, <3>2
    <3>3. CASE ~(first > j)
      BY <1>1, <1>4, <2>2, <3>1, <3>3
    <3> QED
      BY <3>2, <3>3, Zenon
  <2> QED
    BY <2>1, <2>2, Zenon
<1>8. Lowest(G) = new
  <2> HIDE DEF G, new
  <2> QED
    BY <1>2, <1>7, LowestIs, Zenon
<1> HIDE DEF new
<1>9. Cached(l .. h, b \ {j}, count + 1, new)
  BY <1>3, <1>5, <1>7, <1>8, Zenon DEF Cached
<1> QED
  BY <1>9, Zenon DEF new

Unborn == slabei + 1 .. MaxSlabs - 1

(* The inductive invariant: besides the caches, that the pages which are   *)
(* not slabs yet have no bit set.                                          *)
SlabInv ==
    /\ SlabTypeOK /\ SmallExact /\ MiddleExact
    /\ \A s \in Unborn : bitmap[s] = {}

SmallCached(s) == Cached(Entry, bitmap[s], totalfree[s], nextfree[s])

LEMMA SlabNumbers ==
    /\ EmptyNum \in Nat \ {0} /\ MaxSlabs \in Nat \ {0} /\ MiddleNum \in Nat \ {0}
    /\ MiddleNum - 1 \in Nat /\ 1 \in Nat /\ 0 \in Nat
  BY SlabAssumption

LEMMA SmallIsCached ==
    ASSUME SlabTypeOK
    PROVE  SmallExact <=> /\ \A s \in Slabs : SmallCached(s)
                          /\ FreeIn(nfslabi) # {}
                          /\ \A s \in Slabs : s < nfslabi => FreeIn(s) = {}
  BY Zenon DEF SmallExact, SmallCached, Cached, FreeIn

(* What holds of one slab.                                                 *)
LEMMA SmallFacts ==
    ASSUME SlabInv, NEW s \in Slabs
    PROVE  /\ s \in 0 .. MaxSlabs - 1 /\ s \in Nat /\ bitmap[s] \in SUBSET Entry
           /\ SmallCached(s)
           /\ totalfree[s] = 0 <=> FreeIn(s) = {}
           /\ nextfree[s] = 0 <=> FreeIn(s) = {}
           /\ totalfree[s] \in Nat
<1>1. slabei \in 0 .. MaxSlabs - 1 /\ SlabTypeOK
  BY Zenon DEF SlabInv, SlabTypeOK
<1>2. s \in 0 .. MaxSlabs - 1 /\ s \in Nat
  BY <1>1, SlabNumbers DEF Slabs
<1>3. bitmap[s] \in SUBSET Entry
  BY <1>1, <1>2, Zenon DEF SlabTypeOK
<1>4. SmallCached(s)
  BY <1>1, SmallIsCached, Zenon DEF SlabInv
<1>5. FreeIn(s) \in SUBSET (1 .. EmptyNum)
  BY Zenon DEF FreeIn, Entry
<1>6. /\ Cardinality(FreeIn(s)) = 0 <=> FreeIn(s) = {}
      /\ FreeIn(s) \subseteq Nat /\ Cardinality(FreeIn(s)) \in Nat
  BY <1>5, SlabNumbers, FreeCount, Zenon
<1>7. FreeIn(s) # {} => Lowest(FreeIn(s)) \in FreeIn(s)
  BY <1>6, LowestMember, Zenon
<1>8. 0 \notin FreeIn(s)
  BY <1>5
<1> QED
  <2>1. totalfree[s] = Cardinality(FreeIn(s))
    BY <1>4, Zenon DEF SmallCached, Cached, FreeIn
  <2>2. nextfree[s] = IF FreeIn(s) = {} THEN 0 ELSE Lowest(FreeIn(s))
    BY <1>4, Zenon DEF SmallCached, Cached, FreeIn
  <2>3. nextfree[s] = 0 <=> FreeIn(s) = {}
    BY <1>7, <1>8, <2>2, Zenon
  <2> QED
    BY <1>2, <1>3, <1>4, <1>6, <2>1, <2>3, Zenon

(* slab_alloc takes the first free entry of the first slab with room.      *)
LEMMA SmallTaken ==
    ASSUME SlabInv, NEW j, j = nextfree[nfslabi]
    PROVE  /\ nfslabi \in Slabs /\ j \in FreeIn(nfslabi) /\ j \in Entry
           /\ Rest(nfslabi) = Entry \ (bitmap[nfslabi] \cup {j})
           /\ totalfree[nfslabi] \in Nat \ {0}
           /\ totalfree[nfslabi] > 1 <=> Rest(nfslabi) # {}
           /\ totalfree[nfslabi] > 1 =>
                Cached(Entry, bitmap[nfslabi] \cup {j}, totalfree[nfslabi] - 1, Lowest(Rest(nfslabi)))
           /\ totalfree[nfslabi] = 1 => Cached(Entry, bitmap[nfslabi] \cup {j}, 0, 0)
<1> DEFINE s == nfslabi
           b == bitmap[nfslabi]
           count == totalfree[nfslabi]
<1>1. s \in Slabs /\ FreeIn(s) # {}
  BY Zenon DEF SlabInv, SlabTypeOK, SmallExact
<1>2. Cached(1 .. EmptyNum, b, count, j) /\ (1 .. EmptyNum) \ b # {}
  BY <1>1, SmallFacts, Zenon DEF SmallCached, FreeIn, Entry
<1>3. Rest(s) = {k \in j + 1 .. EmptyNum : k \notin b}
  BY Zenon DEF Rest
<1> HIDE DEF b, count, s
<1>4. TakesFirst(1 .. EmptyNum, EmptyNum, b, count, j)
  <2>1. 1 \in Nat /\ EmptyNum \in Nat
    BY SlabNumbers
  <2> QED
    BY <1>2, <2>1, TakeFirst, Zenon
<1>5. count = 1 => ~(count > 1) /\ count - 1 = 0
  OBVIOUS
<1>6. /\ j \in FreeIn(s) /\ j \in Entry /\ Rest(s) = Entry \ (b \cup {j})
      /\ count \in Nat \ {0} /\ (count > 1 <=> Rest(s) # {})
  BY <1>3, <1>4, Zenon DEF TakesFirst, FreeIn, Entry, b, s
<1>7. /\ count > 1 => Cached(Entry, b \cup {j}, count - 1, Lowest(Rest(s)))
      /\ count = 1 => Cached(Entry, b \cup {j}, 0, 0)
  BY <1>3, <1>4, <1>5, Zenon DEF TakesFirst, Cached, Entry
<1> QED
  BY <1>1, <1>6, <1>7, Zenon DEF b, count, s

(* slab_free gives one back.                                               *)
LEMMA SmallBack ==
    ASSUME SlabInv, NEW s \in Slabs, NEW j \in Entry, j \in bitmap[s]
    PROVE  Cached(Entry, bitmap[s] \ {j}, totalfree[s] + 1, NextFreeEntry(s, j))
<1>1. /\ Cached(1 .. EmptyNum, bitmap[s], totalfree[s], nextfree[s])
      /\ nextfree[s] = 0 <=> (1 .. EmptyNum) \ bitmap[s] = {}
  BY SmallFacts, Zenon DEF SmallCached, FreeIn, Entry
<1>2. 1 \in Nat /\ EmptyNum \in Nat
  BY SlabNumbers
<1>3. Cached(1 .. EmptyNum, bitmap[s] \ {j}, totalfree[s] + 1,
             IF (1 .. EmptyNum) \ bitmap[s] = {} \/ nextfree[s] > j THEN j ELSE nextfree[s])
  BY <1>1, <1>2, GiveBack, Zenon DEF Entry
<1> QED
  BY <1>1, <1>3, Zenon DEF NextFreeEntry, Entry

(* A slab gets the bitmap b with exact caches n and f, and m is the first  *)
(* slab with room then.                                                    *)
FirstWithRoom(s, b, m) ==
    /\ (m = s /\ Entry \ b # {}) \/ (m # s /\ FreeIn(m) # {})
    /\ \A t \in Slabs : t < m => (t = s /\ Entry \ b = {}) \/ (t # s /\ FreeIn(t) = {})

LEMMA OneSlabChanges ==
    ASSUME SlabInv, NEW s \in Slabs, NEW b \in SUBSET Entry, NEW n \in 0 .. EmptyNum,
           NEW f \in 0 .. EmptyNum, Cached(Entry, b, n, f),
           bitmap' = [bitmap EXCEPT ![s] = b], totalfree' = [totalfree EXCEPT ![s] = n],
           nextfree' = [nextfree EXCEPT ![s] = f],
           NEW m \in Slabs, nfslabi' = m, FirstWithRoom(s, b, m),
           UNCHANGED <<slabei, middle, stopped>>,
           handed' \in {<<>>} \cup ({"small"} \X Slabs \X Entry)
    PROVE  SlabInv'
<1>t. SlabTypeOK /\ SmallExact /\ MiddleExact
  BY Zenon DEF SlabInv
<1>s. s \in 0 .. MaxSlabs - 1
  BY SmallFacts, Zenon
<1>u. Slabs' = Slabs /\ Unborn' = Unborn /\ Slabs \subseteq 0 .. MaxSlabs - 1
      /\ \A t \in Unborn : t \in (0 .. MaxSlabs - 1) \ {s}
  <2>1. Slabs' = Slabs /\ Unborn' = Unborn
    BY Zenon DEF Slabs, Unborn
  <2>2. slabei \in 0 .. MaxSlabs - 1
    BY <1>t, Zenon DEF SlabTypeOK
  <2> QED
    BY <2>1, <2>2, SlabNumbers DEF Unborn, Slabs
<1>1. /\ bitmap'[s] = b /\ totalfree'[s] = n /\ nextfree'[s] = f
      /\ \A t \in (0 .. MaxSlabs - 1) \ {s} : /\ bitmap'[t] = bitmap[t] /\ totalfree'[t] = totalfree[t]
                                              /\ nextfree'[t] = nextfree[t]
  BY <1>t, <1>s, Zenon DEF SlabTypeOK
<1>2. SlabTypeOK'
  <2>1. /\ bitmap' \in [0 .. MaxSlabs - 1 -> SUBSET Entry]
        /\ totalfree' \in [0 .. MaxSlabs - 1 -> 0 .. EmptyNum]
        /\ nextfree' \in [0 .. MaxSlabs - 1 -> 0 .. EmptyNum]
    BY <1>t, Zenon DEF SlabTypeOK
  <2> QED
    BY <1>t, <1>u, <2>1, Zenon DEF SlabTypeOK, middle
<1>3. ASSUME NEW t \in Slabs
      PROVE  /\ FreeIn(t)' = (IF t = s THEN Entry \ b ELSE FreeIn(t))
             /\ totalfree'[t] = Cardinality(FreeIn(t)')
             /\ nextfree'[t] = IF FreeIn(t)' = {} THEN 0 ELSE Lowest(FreeIn(t)')
  <2>1. CASE t = s
    BY <1>1, <2>1, Zenon DEF FreeIn, Cached
  <2>2. CASE t # s
    <3>1. bitmap'[t] = bitmap[t] /\ totalfree'[t] = totalfree[t] /\ nextfree'[t] = nextfree[t]
      BY <1>1, <1>u, <2>2, Zenon
    <3>2. FreeIn(t)' = FreeIn(t)
      BY <3>1, Zenon DEF FreeIn
    <3> QED
      BY <1>t, <2>2, <3>1, <3>2, Zenon DEF SmallExact
  <2> QED
    BY <2>1, <2>2, Zenon
<1>4. FreeIn(nfslabi)' # {} /\ \A t \in Slabs : t < m => FreeIn(t)' = {}
  <2>1. FreeIn(nfslabi)' = FreeIn(m)'
    BY Zenon DEF FreeIn
  <2> QED
    BY <1>3, <2>1, Zenon DEF FirstWithRoom
<1>5. SmallExact'
  BY <1>3, <1>4, <1>u, Zenon DEF SmallExact
<1>6. MiddleExact'
  BY <1>t, Zenon DEF MiddleExact, middle
<1>7. \A t \in Unborn' : bitmap'[t] = {}
  BY <1>1, <1>u, Zenon DEF SlabInv
<1> QED
  BY <1>2, <1>5, <1>6, <1>7, Zenon DEF SlabInv

(* A search for an entry always ends at one.                               *)
LEMMA SmallFound ==
    ASSUME SlabInv, AllocSmall
    PROVE  /\ TakeEntry(nfslabi, nextfree[nfslabi]) /\ stopped' = "no"
           /\ handed' = <<"small", nfslabi, nextfree[nfslabi]>>
           /\ nextfree[nfslabi] \in FreeIn(nfslabi)
<1>1. /\ nextfree[nfslabi] \in FreeIn(nfslabi)
      /\ totalfree[nfslabi] > 1 <=> Rest(nfslabi) # {}
  BY SmallTaken, Zenon
<1> QED
  BY <1>1, Zenon DEF AllocSmall, TakeEntry

LEMMA AllocSmallKeeps ==
    ASSUME SlabInv, AllocSmall
    PROVE  SlabInv'
<1>t. SlabTypeOK /\ SmallExact /\ MiddleExact
  BY Zenon DEF SlabInv
<1>0. PICK s, j : s = nfslabi /\ j = nextfree[nfslabi]
  BY Zenon
<1>1. /\ s \in Slabs /\ j \in FreeIn(s) /\ j \in Entry /\ Rest(s) = Entry \ (bitmap[s] \cup {j})
      /\ totalfree[s] \in Nat \ {0}
      /\ totalfree[s] > 1 <=> Rest(s) # {}
      /\ totalfree[s] > 1 => Cached(Entry, bitmap[s] \cup {j}, totalfree[s] - 1, Lowest(Rest(s)))
      /\ totalfree[s] = 1 => Cached(Entry, bitmap[s] \cup {j}, 0, 0)
  BY <1>0, SmallTaken, Zenon
<1>2. s \in 0 .. MaxSlabs - 1 /\ s \in Nat /\ bitmap[s] \in SUBSET Entry
  BY <1>1, SmallFacts, Zenon
<1> DEFINE b == bitmap[s] \cup {j}
<1>3. b \in SUBSET Entry
  BY <1>1, <1>2, Zenon
<1>4. /\ bitmap' = [bitmap EXCEPT ![s] = b] /\ handed' = <<"small", s, j>>
      /\ UNCHANGED <<middle, stopped>>
  BY <1>0, SmallFound, Zenon DEF TakeEntry
<1>5. handed' \in {<<>>} \cup ({"small"} \X Slabs \X Entry)
  BY <1>1, <1>4, Zenon
<1>6. \A t \in Slabs : t < s => t # s /\ FreeIn(t) = {}
  <2>1. \A t \in Slabs : t < s => t # s
    BY <1>2 DEF Slabs
  <2> QED
    BY <1>0, <1>t, <2>1, Zenon DEF SmallExact
<1>7. CASE totalfree[s] > 1
  <2>1. Lowest(Rest(s)) \in 0 .. EmptyNum /\ totalfree[s] - 1 \in 0 .. EmptyNum
    <3>1. Rest(s) \subseteq Entry /\ Entry \subseteq Nat /\ Entry \subseteq 0 .. EmptyNum
      BY <1>1 DEF Entry
    <3>2. Lowest(Rest(s)) \in Rest(s)
      BY <1>1, <1>7, <3>1, LowestMember, Zenon
    <3>3. totalfree[s] \in 0 .. EmptyNum
      BY <1>2, <1>t, Zenon DEF SlabTypeOK
    <3>4. totalfree[s] - 1 \in 0 .. EmptyNum
      BY <1>7, <3>3, SlabNumbers
    <3> QED
      BY <3>1, <3>2, <3>4, Zenon
  <2>2. /\ totalfree' = [totalfree EXCEPT ![s] = totalfree[s] - 1]
        /\ nextfree' = [nextfree EXCEPT ![s] = Lowest(Rest(s))] /\ slabei' = slabei /\ nfslabi' = s
    <3>1. ~(totalfree[s] = 1)
      BY <1>7
    <3> QED
      BY <1>0, <1>1, <1>7, <3>1, Zenon DEF AllocSmall
  <2>3. FirstWithRoom(s, b, s)
    BY <1>1, <1>6, <1>7, Zenon DEF FirstWithRoom
  <2> HIDE DEF b
  <2>4. Cached(Entry, b, totalfree[s] - 1, Lowest(Rest(s)))
    BY <1>1, <1>7, Zenon DEF b
  <2> QED
    BY <1>1, <1>3, <1>4, <1>5, <2>1, <2>2, <2>3, <2>4, OneSlabChanges, Zenon
<1>8. CASE totalfree[s] = 1 /\ Later(s) # {}
  <2>0. ~(totalfree[s] > 1)
    BY <1>8
  <2>1. PICK m : m = Lowest(Later(s))
    BY Zenon
  <2>2. m \in Later(s) /\ \A t \in Later(s) : m <= t
    <3>1. Later(s) \subseteq Nat
      BY <1>2, <1>t DEF Later, SlabTypeOK
    <3> QED
      BY <1>8, <2>1, <3>1, LowestMember, Zenon
  <2>3. m \in Slabs /\ m # s /\ totalfree[m] # 0 /\ s < m
    BY <1>2, <1>t, <2>2 DEF Later, Slabs, SlabTypeOK
  <2>4. FreeIn(m) # {}
    BY <2>3, SmallFacts, Zenon
  <2>5. ASSUME NEW t \in Slabs, t < m, t # s PROVE FreeIn(t) = {}
    <3>1. CASE t < s
      BY <1>6, <3>1, Zenon
    <3>2. CASE ~(t < s)
      <4>1. totalfree[t] \in Nat
        BY SmallFacts, Zenon
      <4>2. t \in s + 1 .. slabei /\ m \in Nat /\ ~(m <= t)
        BY <1>2, <2>3, <2>5, <3>2, <1>t DEF Slabs, SlabTypeOK
      <4>3. ~(totalfree[t] > 0)
        BY <2>2, <4>2, Zenon DEF Later
      <4>4. totalfree[t] = 0
        BY <4>1, <4>3
      <4> QED
        BY <4>4, SmallFacts, Zenon
    <3> QED
      BY <3>1, <3>2, Zenon
  <2>6. Entry \ b = {}
    BY <1>1, <2>0, Zenon
  <2>7. FirstWithRoom(s, b, m)
    BY <2>3, <2>4, <2>5, <2>6, Zenon DEF FirstWithRoom
  <2>8. /\ totalfree' = [totalfree EXCEPT ![s] = 0] /\ nextfree' = [nextfree EXCEPT ![s] = 0]
        /\ slabei' = slabei /\ nfslabi' = m
    BY <1>0, <1>8, <2>0, <2>1, Zenon DEF AllocSmall
  <2> HIDE DEF b
  <2>9. Cached(Entry, b, 0, 0) /\ 0 \in 0 .. EmptyNum
    <3>1. 0 \in 0 .. EmptyNum
      BY SlabNumbers
    <3> QED
      BY <1>1, <1>8, <3>1, Zenon DEF b
  <2> QED
    BY <1>1, <1>3, <1>4, <1>5, <2>3, <2>7, <2>8, <2>9, OneSlabChanges, Zenon
<1>9. CASE totalfree[s] = 1 /\ Later(s) = {}
  <2>0. ~(totalfree[s] > 1)
    BY <1>9
  <2>1. PICK n : n = slabei + 1
    BY Zenon
  <2>2. /\ n < MaxSlabs /\ slabei' = n /\ nfslabi' = n
        /\ totalfree' = [totalfree EXCEPT ![s] = 0, ![n] = EmptyNum]
        /\ nextfree' = [nextfree EXCEPT ![s] = 0, ![n] = 1]
    BY <1>0, <1>9, <2>0, <2>1, Zenon DEF AllocSmall
  <2>3. /\ n \in 0 .. MaxSlabs - 1 /\ n # s /\ n \in Unborn /\ n \notin Slabs
        /\ Slabs' = Slabs \cup {n} /\ Unborn' \subseteq Unborn /\ s \notin Unborn
        /\ Slabs \subseteq 0 .. MaxSlabs - 1 /\ Unborn \subseteq 0 .. MaxSlabs - 1
        /\ \A t \in Slabs : t < n
    <3>1. slabei \in 0 .. MaxSlabs - 1
      BY <1>t, Zenon DEF SlabTypeOK
    <3> QED
      BY <1>1, <2>1, <2>2, <3>1, SlabNumbers DEF Slabs, Unborn
  <2>4. /\ bitmap'[s] = b /\ totalfree'[s] = 0 /\ nextfree'[s] = 0
        /\ bitmap'[n] = {} /\ totalfree'[n] = EmptyNum /\ nextfree'[n] = 1
        /\ \A t \in (0 .. MaxSlabs - 1) \ {s, n} :
              bitmap'[t] = bitmap[t] /\ totalfree'[t] = totalfree[t] /\ nextfree'[t] = nextfree[t]
    <3>1. bitmap[n] = {}
      BY <2>3, Zenon DEF SlabInv
    <3>2. bitmap'[s] = b /\ \A t \in (0 .. MaxSlabs - 1) \ {s} : bitmap'[t] = bitmap[t]
      BY <1>2, <1>4, <1>t, Zenon DEF SlabTypeOK
    <3>3. /\ totalfree'[s] = 0 /\ totalfree'[n] = EmptyNum
          /\ \A t \in (0 .. MaxSlabs - 1) \ {s, n} : totalfree'[t] = totalfree[t]
      BY <1>2, <1>t, <2>2, <2>3, Zenon DEF SlabTypeOK
    <3>4. /\ nextfree'[s] = 0 /\ nextfree'[n] = 1
          /\ \A t \in (0 .. MaxSlabs - 1) \ {s, n} : nextfree'[t] = nextfree[t]
      BY <1>2, <1>t, <2>2, <2>3, Zenon DEF SlabTypeOK
    <3> QED
      BY <2>3, <3>1, <3>2, <3>3, <3>4, Zenon
  <2>5. SlabTypeOK'
    <3>1. 0 \in 0 .. EmptyNum /\ EmptyNum \in 0 .. EmptyNum /\ 1 \in 0 .. EmptyNum
      BY SlabNumbers
    <3>2. /\ bitmap' \in [0 .. MaxSlabs - 1 -> SUBSET Entry]
          /\ totalfree' \in [0 .. MaxSlabs - 1 -> 0 .. EmptyNum]
          /\ nextfree' \in [0 .. MaxSlabs - 1 -> 0 .. EmptyNum]
      BY <1>3, <1>4, <1>t, <2>2, <3>1, Zenon DEF SlabTypeOK
    <3>3. slabei' \in 0 .. MaxSlabs - 1 /\ nfslabi' \in Slabs'
      BY <2>2, <2>3, Zenon
    <3>4. handed' \in {"small"} \X Slabs' \X Entry
      BY <1>1, <1>4, <2>3, Zenon
    <3> QED
      BY <1>4, <1>t, <3>2, <3>3, <3>4, Zenon DEF SlabTypeOK, middle
  <2>6. Cardinality(Entry) = EmptyNum /\ Lowest(Entry) = 1 /\ Entry # {}
    <3>1. Cardinality(1 .. EmptyNum) = EmptyNum
      BY SlabNumbers, FS_Interval
    <3>2. 1 \in Entry /\ Entry \subseteq Nat /\ \A y \in Entry : 1 <= y
      BY SlabNumbers DEF Entry
    <3> QED
      BY <3>1, <3>2, LowestIs, Zenon DEF Entry
  <2>7. Entry \ b = {}
    BY <1>1, <2>0, Zenon
  <2>8. ASSUME NEW t \in Slabs
        PROVE  /\ FreeIn(t)' = {}
               /\ totalfree'[t] = Cardinality(FreeIn(t)')
               /\ nextfree'[t] = IF FreeIn(t)' = {} THEN 0 ELSE Lowest(FreeIn(t)')
    <3>0. Cardinality({}) = 0
      BY FS_EmptySet, Zenon
    <3>1. CASE t = s
      <4>1. FreeIn(t)' = {}
        BY <2>4, <2>7, <3>1, Zenon DEF FreeIn
      <4> QED
        BY <2>4, <3>0, <3>1, <4>1, Zenon
    <3>2. CASE t # s
      <4>1. FreeIn(t) = {}
        <5>1. CASE t < s
          BY <1>6, <5>1, Zenon
        <5>2. CASE ~(t < s)
          <6>1. t \in s + 1 .. slabei
            BY <1>2, <1>t, <3>2, <5>2 DEF Slabs, SlabTypeOK
          <6>2. ~(totalfree[t] > 0) /\ totalfree[t] \in Nat
            BY <1>9, <6>1, SmallFacts, Zenon DEF Later
          <6>3. totalfree[t] = 0
            BY <6>2
          <6> QED
            BY <6>3, SmallFacts, Zenon
        <5> QED
          BY <5>1, <5>2, Zenon
      <4>2. bitmap'[t] = bitmap[t] /\ totalfree'[t] = totalfree[t] /\ nextfree'[t] = nextfree[t]
        BY <2>3, <2>4, <3>2, Zenon
      <4>3. FreeIn(t)' = FreeIn(t)
        BY <4>2, Zenon DEF FreeIn
      <4> QED
        BY <1>t, <4>1, <4>2, <4>3, Zenon DEF SmallExact
    <3> QED
      BY <3>1, <3>2, Zenon
  <2>9. FreeIn(n)' = Entry /\ FreeIn(nfslabi)' = Entry
    BY <2>2, <2>4, Zenon DEF FreeIn
  <2>10. SmallExact'
    <3>1. n \in Slabs' /\ \A t \in Slabs' : t \in Slabs \/ t = n
      BY <2>3, Zenon
    <3>2. ~(n < nfslabi')
      BY <2>2, <2>3
    <3> QED
      BY <2>4, <2>6, <2>8, <2>9, <3>1, <3>2, Zenon DEF SmallExact
  <2>11. MiddleExact'
    BY <1>4, <1>t, Zenon DEF MiddleExact, middle
  <2>12. \A t \in Unborn' : bitmap'[t] = {}
    <3>1. \A t \in Unborn' : t \in Unborn /\ (t = n \/ t \in (0 .. MaxSlabs - 1) \ {s, n})
      BY <2>3, Zenon
    <3> QED
      BY <2>4, <3>1, Zenon DEF SlabInv
  <2> QED
    BY <2>5, <2>10, <2>11, <2>12, Zenon DEF SlabInv
<1> QED
  <2>1. totalfree[s] > 1 \/ totalfree[s] = 1
    BY <1>1
  <2> QED
    BY <1>7, <1>8, <1>9, <2>1, Zenon

LEMMA FreeSmallKeeps ==
    ASSUME SlabInv, NEW s \in 0 .. MaxSlabs - 1, NEW j \in 0 .. EmptyNum, FreeSmall(s, j)
    PROVE  SlabInv'
<1>t. SlabTypeOK /\ SmallExact /\ MiddleExact
  BY Zenon DEF SlabInv
<1>1. CASE s > slabei \/ j \notin Entry \/ j \notin bitmap[s]
  <2>1. UNCHANGED <<small, middle>> /\ stopped' = "halt" /\ stopped = "no" /\ handed' = <<>>
    BY <1>1, Zenon DEF FreeSmall, Stop
  <2>2. SlabTypeOK'
    BY <1>t, <2>1, Zenon DEF SlabTypeOK, small, middle, Slabs
  <2>3. SmallExact' /\ MiddleExact'
    BY <1>t, <2>1, Zenon DEF SmallExact, MiddleExact, FreeIn, Slabs, small, middle
  <2> QED
    BY <2>1, <2>2, <2>3, Zenon DEF SlabInv, Unborn, small
<1>2. CASE ~(s > slabei) /\ j \in Entry /\ j \in bitmap[s]
  <2>1. /\ nfslabi' = FirstRoom(s) /\ handed' = <<>> /\ UNCHANGED <<slabei, middle, stopped>>
        /\ bitmap' = [bitmap EXCEPT ![s] = bitmap[s] \ {j}]
        /\ nextfree' = [nextfree EXCEPT ![s] = NextFreeEntry(s, j)]
        /\ totalfree' = [totalfree EXCEPT ![s] = totalfree[s] + 1]
    BY <1>2, Zenon DEF FreeSmall
  <2>2. s \in Slabs /\ nfslabi \in Slabs /\ nfslabi \in Nat /\ s \in Nat
    <3>1. slabei \in 0 .. MaxSlabs - 1 /\ nfslabi \in Slabs
      BY <1>t, Zenon DEF SlabTypeOK
    <3> QED
      BY <1>2, <3>1, SlabNumbers DEF Slabs
  <2>3. Cached(Entry, bitmap[s] \ {j}, totalfree[s] + 1, NextFreeEntry(s, j))
    BY <1>2, <2>2, SmallBack, Zenon
  <2>4. bitmap[s] \ {j} \in SUBSET Entry /\ j \in Entry \ (bitmap[s] \ {j})
    BY <1>2, <2>2, SmallFacts, Zenon
  <2>5. totalfree[s] + 1 \in 0 .. EmptyNum
    <3>1. Entry \ (bitmap[s] \ {j}) \in SUBSET (1 .. EmptyNum)
      BY Zenon DEF Entry
    <3>2. Cardinality(Entry \ (bitmap[s] \ {j})) <= EmptyNum
      <4>1. IsFiniteSet(1 .. EmptyNum) /\ Cardinality(1 .. EmptyNum) = EmptyNum
        BY SlabNumbers, FS_Interval
      <4> QED
        BY <3>1, <4>1, FS_Subset, Zenon
    <3>3. totalfree[s] \in Nat /\ totalfree[s] + 1 <= EmptyNum
      BY <2>2, <2>3, <3>2, SmallFacts, Zenon DEF Cached
    <3> QED
      BY <3>3, SlabNumbers
  <2>6. NextFreeEntry(s, j) \in 0 .. EmptyNum
    BY <1>t, Zenon DEF NextFreeEntry, SlabTypeOK
  <2>7. PICK m, b, n, f : /\ m = FirstRoom(s) /\ b = bitmap[s] \ {j} /\ n = totalfree[s] + 1
                          /\ f = NextFreeEntry(s, j)
    BY Zenon
  <2>8. m \in Slabs /\ FirstWithRoom(s, b, m)
    <3>1. CASE s < nfslabi
      <4>1. m = s /\ \A t \in Slabs : t < s => t < nfslabi /\ t # s
        BY <2>2, <2>7, <3>1 DEF FirstRoom, Slabs
      <4> QED
        BY <1>t, <2>2, <2>4, <2>7, <4>1, Zenon DEF FirstWithRoom, SmallExact
    <3>2. CASE ~(s < nfslabi)
      <4>1. m = nfslabi /\ \A t \in Slabs : t < nfslabi => t # s
        BY <2>2, <2>7, <3>2, Zenon DEF FirstRoom
      <4> QED
        BY <1>t, <2>2, <2>4, <2>7, <4>1, Zenon DEF FirstWithRoom, SmallExact
    <3> QED
      BY <3>1, <3>2, Zenon
  <2>9. /\ bitmap' = [bitmap EXCEPT ![s] = b] /\ totalfree' = [totalfree EXCEPT ![s] = n]
        /\ nextfree' = [nextfree EXCEPT ![s] = f] /\ nfslabi' = m
        /\ Cached(Entry, b, n, f) /\ b \in SUBSET Entry /\ n \in 0 .. EmptyNum /\ f \in 0 .. EmptyNum
    BY <2>1, <2>3, <2>4, <2>5, <2>6, <2>7, Zenon
  <2>10. handed' \in {<<>>} \cup ({"small"} \X Slabs \X Entry)
    BY <2>1, Zenon
  <2> QED
    BY <2>1, <2>2, <2>8, <2>9, <2>10, OneSlabChanges, Zenon
<1> QED
  BY <1>1, <1>2, Zenon

(* The middle slab has room as long as the machine runs.                   *)
LEMMA MiddleFacts ==
    ASSUME SlabInv, stopped = "no"
    PROVE  /\ Cached(Cell, mbitmap, mtotalfree, mnextfree) /\ Cell \ mbitmap # {}
           /\ mtotalfree \in Nat \ {0}
<1>1. /\ mtotalfree = Cardinality(Cell \ mbitmap) /\ mtotalfree > 0
      /\ mnextfree = Lowest(Cell \ mbitmap)
  BY Zenon DEF SlabInv, MiddleExact
<1>2. Cell \ mbitmap \in SUBSET (0 .. MiddleNum - 1)
  BY Zenon DEF Cell
<1>3. /\ Cardinality(Cell \ mbitmap) \in Nat
      /\ Cardinality(Cell \ mbitmap) = 0 <=> Cell \ mbitmap = {}
  BY <1>2, SlabNumbers, FreeCount, Zenon
<1>4. mtotalfree \in Nat \ {0}
  BY <1>1, <1>3
<1> QED
  BY <1>1, <1>3, <1>4, Zenon DEF Cached

LEMMA MiddleFound ==
    ASSUME SlabInv, AllocMiddle
    PROVE  /\ TakesFirst(Cell, MiddleNum - 1, mbitmap, mtotalfree, mnextfree)
           /\ mbitmap' = mbitmap \cup {mnextfree}
           /\ stopped = "no" /\ UNCHANGED small
           /\ \/ /\ mtotalfree > 1 /\ stopped' = "no" /\ mtotalfree' = mtotalfree - 1
                 /\ mnextfree' = Lowest(Cell \ (mbitmap \cup {mnextfree}))
                 /\ handed' = <<"middle", 0, mnextfree>>
              \/ /\ mtotalfree' = 0 /\ mnextfree' = 0 /\ stopped' = "spin" /\ handed' = <<>>
<1>1. stopped = "no"
  BY Zenon DEF AllocMiddle
<1>2. TakesFirst(Cell, MiddleNum - 1, mbitmap, mtotalfree, mnextfree)
  BY <1>1, MiddleFacts, SlabNumbers, TakeFirst, Zenon DEF Cell
<1> QED
  BY <1>1, <1>2, Zenon DEF AllocMiddle, TakesFirst

LEMMA AllocMiddleKeeps ==
    ASSUME SlabInv, AllocMiddle
    PROVE  SlabInv'
<1>t. SlabTypeOK /\ SmallExact /\ MiddleExact
  BY Zenon DEF SlabInv
<1>0. PICK j, G : j = mnextfree /\ G = Cell \ (mbitmap \cup {mnextfree})
  BY Zenon
<1>1. /\ j \in Cell /\ mbitmap' = mbitmap \cup {j} /\ G = Cell \ mbitmap' /\ UNCHANGED small
      /\ mtotalfree > 1 <=> G # {}
      /\ Cardinality(G) = mtotalfree - 1
      /\ \/ /\ mtotalfree > 1 /\ stopped' = "no" /\ mtotalfree' = mtotalfree - 1
            /\ mnextfree' = Lowest(G) /\ handed' = <<"middle", 0, j>>
         \/ mtotalfree' = 0 /\ mnextfree' = 0 /\ stopped' = "spin" /\ handed' = <<>>
  BY <1>0, MiddleFound, Zenon DEF TakesFirst
<1>2. mbitmap' \subseteq Cell /\ mtotalfree \in 0 .. MiddleNum /\ G \subseteq Cell
  BY <1>1, <1>t, Zenon DEF SlabTypeOK
<1>3. Cell \subseteq Nat /\ 0 \in Cell /\ 0 \in 0 .. MiddleNum
  BY SlabNumbers DEF Cell
<1>4. mtotalfree > 1 => mtotalfree - 1 > 0 /\ mtotalfree - 1 \in 0 .. MiddleNum
  BY <1>2, SlabNumbers
<1>5. mtotalfree > 1 => Lowest(G) \in Cell
  BY <1>1, <1>2, <1>3, LowestMember, Zenon
<1>6. mtotalfree' \in 0 .. MiddleNum /\ mnextfree' \in Cell /\ stopped' \in {"no", "halt", "spin"}
      /\ handed' \in {<<>>} \cup ({"middle"} \X {0} \X Cell)
  <2>1. <<"middle", 0, j>> \in {"middle"} \X {0} \X Cell
    BY <1>1, Zenon
  <2>2. mtotalfree' \in 0 .. MiddleNum
    BY <1>1, <1>3, <1>4, Zenon
  <2>3. mnextfree' \in Cell
    BY <1>1, <1>3, <1>5, Zenon
  <2> QED
    BY <1>1, <2>1, <2>2, <2>3, Zenon
<1>7. SlabTypeOK'
  BY <1>1, <1>2, <1>6, <1>t, Zenon DEF SlabTypeOK, small, Slabs
<1>8. SmallExact' /\ \A s \in Unborn' : bitmap'[s] = {}
  BY <1>1, <1>t, Zenon DEF SlabInv, SmallExact, FreeIn, Slabs, Unborn, small
<1>9. MiddleExact'
  BY <1>1, <1>4, Zenon DEF MiddleExact
<1> QED
  BY <1>7, <1>8, <1>9, Zenon DEF SlabInv

LEMMA FreeMiddleKeeps ==
    ASSUME SlabInv, NEW j \in Cell, FreeMiddle(j)
    PROVE  SlabInv'
<1>t. SlabTypeOK /\ SmallExact /\ MiddleExact
  BY Zenon DEF SlabInv
<1>1. /\ stopped = "no" /\ j \in mbitmap /\ mbitmap' = mbitmap \ {j} /\ mnextfree' = MiddleNext(j)
      /\ mtotalfree' = mtotalfree + 1 /\ handed' = <<>> /\ UNCHANGED <<small, stopped>>
  BY Zenon DEF FreeMiddle
<1>2. /\ Cached(Cell, mbitmap, mtotalfree, mnextfree) /\ Cell \ mbitmap # {}
      /\ mtotalfree \in Nat \ {0}
  BY <1>1, MiddleFacts, Zenon
<1>3. Cached(Cell, mbitmap \ {j}, mtotalfree + 1,
             IF Cell \ mbitmap = {} \/ mnextfree > j THEN j ELSE mnextfree)
  BY <1>1, <1>2, SlabNumbers, GiveBack, Zenon DEF Cell
<1>4. ~(mtotalfree = 0)
  BY <1>2, Zenon
<1>5. MiddleNext(j) = IF Cell \ mbitmap = {} \/ mnextfree > j THEN j ELSE mnextfree
  BY <1>2, <1>4, Zenon DEF MiddleNext
<1>6. Cached(Cell, mbitmap', mtotalfree', mnextfree') /\ Cell \ mbitmap' # {}
  BY <1>1, <1>3, <1>5, Zenon
<1>7. mtotalfree' > 0
  <2>1. mtotalfree \in Nat
    BY <1>2, Zenon
  <2> QED
    BY <1>1, <2>1
<1>8. MiddleExact'
  BY <1>6, <1>7, Zenon DEF MiddleExact, Cached
<1>9. mtotalfree' \in 0 .. MiddleNum
  <2>1. Cell \ mbitmap' \in SUBSET (0 .. MiddleNum - 1)
    BY Zenon DEF Cell
  <2>2. IsFiniteSet(0 .. MiddleNum - 1) /\ Cardinality(0 .. MiddleNum - 1) = MiddleNum
    BY SlabNumbers, FS_Interval
  <2>3. Cardinality(Cell \ mbitmap') <= MiddleNum /\ Cardinality(Cell \ mbitmap') \in Nat
    BY <2>1, <2>2, FS_Subset, FS_CardinalityType, Zenon
  <2>4. mtotalfree' = Cardinality(Cell \ mbitmap')
    BY <1>6, Zenon DEF Cached
  <2> QED
    BY <2>3, <2>4, SlabNumbers
<1>10. SlabTypeOK'
  BY <1>1, <1>9, <1>t, Zenon DEF SlabTypeOK, small, Slabs, MiddleNext
<1>11. SmallExact' /\ \A s \in Unborn' : bitmap'[s] = {}
  BY <1>1, <1>t, Zenon DEF SlabInv, SmallExact, FreeIn, Slabs, Unborn, small
<1> QED
  BY <1>8, <1>10, <1>11, Zenon DEF SlabInv

LEMMA SlabInitInv ==
    ASSUME SlabInit
    PROVE  SlabInv
<1>1. /\ slabei = 0 /\ nfslabi = 0 /\ handed = <<>> /\ stopped = "no"
      /\ mbitmap = {} /\ mtotalfree = MiddleNum /\ mnextfree = 0
      /\ bitmap = [s \in 0 .. MaxSlabs - 1 |-> {}]
      /\ totalfree = [s \in 0 .. MaxSlabs - 1 |-> IF s = 0 THEN EmptyNum ELSE 0]
      /\ nextfree = [s \in 0 .. MaxSlabs - 1 |-> IF s = 0 THEN 1 ELSE 0]
  BY Zenon DEF SlabInit
<1>2. /\ 0 \in 0 .. MaxSlabs - 1 /\ 0 \in 0 .. EmptyNum /\ 1 \in 0 .. EmptyNum /\ EmptyNum \in 0 .. EmptyNum
      /\ 0 \in Cell /\ MiddleNum \in 0 .. MiddleNum /\ MiddleNum > 0
  BY SlabNumbers DEF Cell
<1>3. Slabs = {0} /\ ~(0 < 0) /\ \A s \in Unborn : s \in 0 .. MaxSlabs - 1
  BY <1>1, SlabNumbers DEF Slabs, Unborn
<1>4. SlabTypeOK
  BY <1>1, <1>2, <1>3, Zenon DEF SlabTypeOK
<1>5. Cardinality(Entry) = EmptyNum /\ Lowest(Entry) = 1 /\ Entry # {}
  <2>1. Cardinality(1 .. EmptyNum) = EmptyNum
    BY SlabNumbers, FS_Interval
  <2>2. 1 \in Entry /\ Entry \subseteq Nat /\ \A y \in Entry : 1 <= y
    BY SlabNumbers DEF Entry
  <2> QED
    BY <2>1, <2>2, LowestIs, Zenon DEF Entry
<1>6. Cardinality(Cell) = MiddleNum /\ Lowest(Cell) = 0
  <2>1. Cardinality(0 .. MiddleNum - 1) = MiddleNum
    BY SlabNumbers, FS_Interval
  <2>2. 0 \in Cell /\ Cell \subseteq Nat /\ \A y \in Cell : 0 <= y
    BY SlabNumbers DEF Cell
  <2> QED
    BY <2>1, <2>2, LowestIs, Zenon DEF Cell
<1>7. bitmap[0] = {} /\ totalfree[0] = EmptyNum /\ nextfree[0] = 1
      /\ \A s \in Unborn : bitmap[s] = {}
  BY <1>1, <1>2, <1>3, Zenon
<1>8. FreeIn(0) = Entry /\ Cell \ mbitmap = Cell
  BY <1>1, <1>7, Zenon DEF FreeIn
<1>9. SmallExact
  BY <1>1, <1>3, <1>5, <1>7, <1>8, Zenon DEF SmallExact
<1>10. MiddleExact
  BY <1>1, <1>2, <1>6, <1>8, Zenon DEF MiddleExact
<1> QED
  BY <1>4, <1>7, <1>9, <1>10, Zenon DEF SlabInv

LEMMA SlabStepInv ==
    ASSUME SlabInv, [SlabNext]_slabVars
    PROVE  SlabInv'
<1>1. CASE UNCHANGED slabVars
  <2>1. SlabTypeOK'
    BY <1>1, Zenon DEF SlabInv, SlabTypeOK, slabVars, small, middle, Slabs
  <2>2. SmallExact' /\ MiddleExact' /\ \A s \in Unborn' : bitmap'[s] = {}
    BY <1>1, Zenon DEF SlabInv, SmallExact, MiddleExact, FreeIn, Slabs, Unborn, slabVars, small, middle
  <2> QED
    BY <2>1, <2>2, Zenon DEF SlabInv
<1> QED
  BY <1>1, AllocSmallKeeps, FreeSmallKeeps, AllocMiddleKeeps, FreeMiddleKeeps, Zenon DEF SlabNext

(* What one call does, for HandsOutFreeEntry.                              *)
HandsOutStep ==
    /\ handed' # <<>> =>
         LET s == handed'[2]  j == handed'[3] IN
         IF handed'[1] = "small"
           THEN j \in FreeIn(s) /\ bitmap' = [bitmap EXCEPT ![s] = @ \cup {j}]
           ELSE j \notin mbitmap /\ mbitmap' = mbitmap \cup {j}
    /\ AllocSmall \/ AllocMiddle => stopped' # "halt"

LEMMA SlabStepHandsOut ==
    ASSUME SlabInv, [SlabNext]_slabVars
    PROVE  [HandsOutStep]_slabVars
<1>1. CASE AllocSmall
  <2>1. PICK s, j : s = nfslabi /\ j = nextfree[nfslabi]
    BY Zenon
  <2>2. /\ bitmap' = [bitmap EXCEPT ![s] = bitmap[s] \cup {j}] /\ stopped' = "no"
        /\ handed' = <<"small", s, j>> /\ j \in FreeIn(s)
    BY <1>1, <2>1, SmallFound, Zenon DEF TakeEntry
  <2>3. handed'[1] = "small" /\ handed'[2] = s /\ handed'[3] = j
    BY <2>2
  <2> QED
    BY <2>2, <2>3, Zenon DEF HandsOutStep
<1>2. CASE AllocMiddle
  <2>1. PICK j : j = mnextfree
    BY Zenon
  <2>2. /\ j \notin mbitmap /\ mbitmap' = mbitmap \cup {j} /\ stopped' # "halt"
        /\ handed' = <<>> \/ handed' = <<"middle", 0, j>>
    <3>1. stopped' = "no" \/ stopped' = "spin"
      BY <1>2, MiddleFound, Zenon
    <3>2. stopped' # "halt"
      BY <3>1
    <3> QED
      BY <1>2, <2>1, <3>2, MiddleFound, Zenon DEF TakesFirst
  <2>3. handed' # <<>> => handed'[1] # "small" /\ handed'[3] = j
    BY <2>2
  <2> QED
    BY <2>2, <2>3, Zenon DEF HandsOutStep
<1>3. ASSUME NEW s \in 0 .. MaxSlabs - 1, NEW j \in 0 .. EmptyNum, FreeSmall(s, j),
             ~AllocSmall, ~AllocMiddle
      PROVE  HandsOutStep
  <2>1. handed' = <<>>
    BY <1>3, Zenon DEF FreeSmall, Stop
  <2> QED
    BY <1>3, <2>1, Zenon DEF HandsOutStep
<1>4. ASSUME NEW j \in Cell, FreeMiddle(j), ~AllocSmall, ~AllocMiddle
      PROVE  HandsOutStep
  <2>1. handed' = <<>>
    BY <1>4, Zenon DEF FreeMiddle
  <2> QED
    BY <1>4, <2>1, Zenon DEF HandsOutStep
<1> QED
  BY <1>1, <1>2, <1>3, <1>4, Zenon DEF SlabNext

(* slab_alloc and slab_free keep the count and the next free entry of      *)
(* every slab, and the first small slab with room, exact, for any number   *)
(* of slabs and entries; slab_alloc hands out only entries that nobody     *)
(* has, and the halt() of its searches is unreachable.                     *)
THEOREM SlabsStayExact == SlabSpec => SlabsExact
<1>1. SlabInit => SlabInv
  BY SlabInitInv
<1>2. SlabInv /\ [SlabNext]_slabVars => SlabInv'
  BY SlabStepInv
<1>3. SlabInv /\ [SlabNext]_slabVars => [HandsOutStep]_slabVars
  BY SlabStepHandsOut
<1>4. SlabInv => SmallExact /\ MiddleExact
  BY Zenon DEF SlabInv
<1> QED
  BY <1>1, <1>2, <1>3, <1>4, PTL DEF SlabSpec, SlabsExact, HandsOutFreeEntry, HandsOutStep
=============================================================================
