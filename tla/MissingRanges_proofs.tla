------------------------ MODULE MissingRanges_proofs ------------------------
(***************************************************************************)
(* For every MaxHeight and every set of blob types.                        *)
(*                                                                         *)
(* The operations, one at a time: the slices stay canonical, the published *)
(* series are the current ranges, the ranges implement the abstract set    *)
(* MissingSet, and the total counts what they cover.                       *)
(*                                                                         *)
(* Their gauge writes, one at a time, with a scrape in between: the writes *)
(* leave the vectors as they should be, and whatever is collected between  *)
(* them shows no height twice and nothing that was not so at the time.     *)
(***************************************************************************)
EXTENDS RangeScrape, SequenceTheorems, FiniteSetTheorems, WellFoundedInduction, TLAPS

-----------------------------------------------------------------------------
(* Least elements, and the slice operations. *)

\* A non-empty set of natural numbers has a least element.
LEMMA LeastElement ==
    ASSUME NEW T, T \subseteq Nat, T # {}
    PROVE  \E x \in T : \A y \in T : x <= y
<1> DEFINE Less == {ss \in Nat \X Nat : ss[1] < ss[2]}
<1>1. IsWellFoundedOn(Less, Nat)
  BY NatLessThanWellFounded DEF OpToRel
<1>2. PICK x \in T : \A y \in T : <<y, x>> \notin Less
  <2> HIDE DEF Less
  <2> QED BY <1>1, WFMin
<1>3. ASSUME NEW y \in T PROVE x <= y
  <2>1. <<y, x>> \in Nat \X Nat /\ x \in Nat /\ y \in Nat
    OBVIOUS
  <2>2. y < x => <<y, x>> \in Less
    BY <2>1
  <2>3. ~ (y < x)
    <3> HIDE DEF Less
    <3> QED BY <1>2, <2>2
  <2> QED BY <2>1, <2>3
<1> QED BY <1>2, <1>3

\* What InsertAt returns.
LEMMA InsertAtProperties ==
    ASSUME NEW S, NEW s \in Seq(S), NEW i \in 1 .. Len(s) + 1, NEW e \in S
    PROVE  /\ InsertAt(s, i, e) \in Seq(S)
           /\ Len(InsertAt(s, i, e)) = Len(s) + 1
           /\ \A j \in 1 .. i - 1 : InsertAt(s, i, e)[j] = s[j]
           /\ InsertAt(s, i, e)[i] = e
           /\ \A j \in i + 1 .. Len(s) + 1 : InsertAt(s, i, e)[j] = s[j - 1]
<1> DEFINE a == SubSeq(s, 1, i - 1)
           m == <<e>>
           z == SubSeq(s, i, Len(s))
           am == a \o m
<1>0. /\ Len(s) \in Nat /\ i \in Int /\ i - 1 \in Int
      /\ \A j \in 1 .. i - 1 : s[j] \in S
      /\ \A j \in i .. Len(s) : s[j] \in S
  BY LenProperties, ElementOfSeq
<1>1. /\ a \in Seq(S) /\ Len(a) = i - 1
      /\ \A j \in 1 .. i - 1 : a[j] = s[j]
  BY <1>0, SubSeqProperties
<1>2. /\ z \in Seq(S) /\ Len(z) = Len(s) - i + 1
      /\ \A j \in 1 .. Len(s) - i + 1 : z[j] = s[i + j - 1]
  BY <1>0, SubSeqProperties
<1>3. m \in Seq(S) /\ Len(m) = 1 /\ m[1] = e
  OBVIOUS
<1>4. InsertAt(s, i, e) = am \o z
  BY DEF InsertAt
<1> HIDE DEF a, m, z
<1>5. /\ am \in Seq(S) /\ Len(am) = Len(a) + Len(m)
      /\ \A j \in 1 .. Len(a) + Len(m) :
            am[j] = IF j <= Len(a) THEN a[j] ELSE m[j - Len(a)]
  <2>1. a \in Seq(S) /\ m \in Seq(S)
    BY <1>1, <1>3
  <2> QED BY <2>1, ConcatProperties
<1> HIDE DEF am
<1>6. Len(am) = i /\ am[i] = e /\ \A j \in 1 .. i - 1 : am[j] = s[j]
  <2>1. Len(am) = i
    BY <1>0, <1>1, <1>3, <1>5
  <2>2. am[i] = m[1]
    BY <1>0, <1>1, <1>3, <1>5
  <2>3. \A j \in 1 .. i - 1 : am[j] = a[j]
    BY <1>0, <1>1, <1>3, <1>5
  <2> QED BY <2>1, <2>2, <2>3, <1>1, <1>3
<1>7. /\ am \o z \in Seq(S) /\ Len(am \o z) = Len(am) + Len(z)
      /\ \A j \in 1 .. Len(am) + Len(z) :
            (am \o z)[j] = IF j <= Len(am) THEN am[j] ELSE z[j - Len(am)]
  <2>1. am \in Seq(S) /\ z \in Seq(S)
    BY <1>2, <1>5
  <2> QED BY <2>1, ConcatProperties
<1>8. \A j \in 1 .. i : (am \o z)[j] = am[j]
  BY <1>0, <1>2, <1>6, <1>7
<1>9. ASSUME NEW j \in i + 1 .. Len(s) + 1 PROVE (am \o z)[j] = s[j - 1]
  <2>1. (am \o z)[j] = z[j - i]
    BY <1>0, <1>2, <1>6, <1>7
  <2>2. z[j - i] = s[i + (j - i) - 1]
    BY <1>0, <1>2, SMTT(30)
  <2> QED BY <2>1, <2>2, <1>0
<1> QED BY <1>0, <1>2, <1>4, <1>6, <1>7, <1>8, <1>9

\* What RemoveAt returns.
LEMMA RemoveAtProperties ==
    ASSUME NEW S, NEW s \in Seq(S), NEW i \in 1 .. Len(s)
    PROVE  /\ RemoveAt(s, i) \in Seq(S)
           /\ Len(RemoveAt(s, i)) = Len(s) - 1
           /\ \A j \in 1 .. i - 1 : RemoveAt(s, i)[j] = s[j]
           /\ \A j \in i .. Len(s) - 1 : RemoveAt(s, i)[j] = s[j + 1]
<1> DEFINE a == SubSeq(s, 1, i - 1)
           z == SubSeq(s, i + 1, Len(s))
<1>0. /\ Len(s) \in Nat /\ i \in Int /\ i - 1 \in Int /\ i + 1 \in Int
      /\ \A j \in 1 .. i - 1 : s[j] \in S
      /\ \A j \in i + 1 .. Len(s) : s[j] \in S
  BY LenProperties, ElementOfSeq
<1>1. /\ a \in Seq(S) /\ Len(a) = i - 1
      /\ \A j \in 1 .. i - 1 : a[j] = s[j]
  BY <1>0, SubSeqProperties
<1>2. /\ z \in Seq(S) /\ Len(z) = Len(s) - i
      /\ \A j \in 1 .. Len(s) - i : z[j] = s[i + j]
  BY <1>0, SubSeqProperties
<1>3. RemoveAt(s, i) = a \o z
  BY DEF RemoveAt
<1> HIDE DEF a, z
<1>4. /\ a \o z \in Seq(S) /\ Len(a \o z) = Len(a) + Len(z)
      /\ \A j \in 1 .. Len(a) + Len(z) :
            (a \o z)[j] = IF j <= Len(a) THEN a[j] ELSE z[j - Len(a)]
  <2>1. a \in Seq(S) /\ z \in Seq(S)
    BY <1>1, <1>2
  <2> QED BY <2>1, ConcatProperties
<1>5. \A j \in 1 .. i - 1 : (a \o z)[j] = s[j]
  BY <1>0, <1>1, <1>2, <1>4
<1>6. ASSUME NEW j \in i .. Len(s) - 1 PROVE (a \o z)[j] = s[j + 1]
  <2>1. (a \o z)[j] = z[j - (i - 1)]
    BY <1>0, <1>1, <1>2, <1>4
  <2>2. z[j - (i - 1)] = s[i + (j - (i - 1))]
    BY <1>0, <1>2
  <2> QED BY <2>1, <2>2, <1>0
<1> QED BY <1>0, <1>1, <1>2, <1>3, <1>4, <1>5, <1>6

-----------------------------------------------------------------------------
(* The search. *)

\* The elements of a slice are pairs of natural numbers up to MaxHeight.
LEMMA SliceType ==
    ASSUME NEW rs \in Seq(Range64)
    PROVE  /\ Len(rs) \in Nat /\ DOMAIN rs = 1 .. Len(rs)
           /\ \A i \in 1 .. Len(rs) :
                 /\ rs[i] \in Range64
                 /\ rs[i].start \in Nat /\ rs[i].start <= MaxHeight
                 /\ rs[i].end \in Nat /\ rs[i].end <= MaxHeight
<1>1. Len(rs) \in Nat /\ DOMAIN rs = 1 .. Len(rs)
  BY LenProperties
<1>2. ASSUME NEW i \in 1 .. Len(rs) PROVE rs[i] \in Range64
  BY ElementOfSeq
<1>3. \A r \in Range64 : /\ r.start \in Nat /\ r.start <= MaxHeight
                         /\ r.end \in Nat /\ r.end <= MaxHeight
  BY MaxHeightAssumption DEF Range64, Heights
<1> QED BY <1>1, <1>2, <1>3

\* The position sort.Search returns exists, and has its defining property.
LEMMA FirstAfterCorrect ==
    ASSUME NEW rs \in Seq(Range64), NEW h \in Heights
    PROVE  /\ FirstAfter(rs, h) \in 1 .. Len(rs) + 1
           /\ \A j \in 1 .. FirstAfter(rs, h) - 1 : rs[j].start <= h
           /\ FirstAfter(rs, h) <= Len(rs) => h < rs[FirstAfter(rs, h)].start
<1> DEFINE T == {i \in 1 .. Len(rs) + 1 : i <= Len(rs) => h < rs[i].start}
<1>1. Len(rs) \in Nat /\ h \in Nat
  BY SliceType, MaxHeightAssumption DEF Heights
<1>2. T \subseteq Nat /\ Len(rs) + 1 \in T
  BY <1>1
<1>3. PICK k \in T : \A j \in T : k <= j
  <2> HIDE DEF T
  <2> QED BY <1>2, LeastElement
<1>4. ASSUME NEW j \in 1 .. k - 1 PROVE rs[j].start <= h
  <2>1. k \in 1 .. Len(rs) + 1 /\ j \in 1 .. Len(rs) /\ j < k
    BY <1>1, <1>3
  <2>2. j \notin T
    BY <1>3, <2>1, <1>1
  <2>3. ~ (h < rs[j].start)
    BY <2>1, <2>2, <1>1
  <2> QED BY <2>1, <2>3, <1>1, SliceType
<1>5. \E i \in 1 .. Len(rs) + 1 : /\ \A j \in 1 .. i - 1 : rs[j].start <= h
                                  /\ i <= Len(rs) => h < rs[i].start
  BY <1>3, <1>4
<1> QED BY <1>5 DEF FirstAfter

\* What findRangeIndex tells its callers about position idx.
FoundAt(rs, h, idx) ==
    /\ idx \in 1 .. Len(rs) + 1
    /\ \A j \in 1 .. idx - 1 : rs[j].end < h
    /\ \A j \in idx + 1 .. Len(rs) : h < rs[j].start
    /\ idx <= Len(rs) => h <= rs[idx].end

\* On a canonical slice the search separates the ranges below h from those
\* above it, and stops at the range of h when there is one.
LEMMA FindRangeIndexCorrect ==
    ASSUME NEW rs \in Seq(Range64), Canonical(rs), NEW h \in Heights
    PROVE  FoundAt(rs, h, FindRangeIndex(rs, h))
<1> DEFINE f == FirstAfter(rs, h)
<1>1. /\ f \in 1 .. Len(rs) + 1
      /\ \A j \in 1 .. f - 1 : rs[j].start <= h
      /\ f <= Len(rs) => h < rs[f].start
  BY FirstAfterCorrect
<1>2. /\ h \in Nat /\ Len(rs) \in Nat
      /\ \A i \in 1 .. Len(rs) : rs[i].start \in Nat /\ rs[i].end \in Nat
      /\ \A i \in 1 .. Len(rs) : rs[i].start <= rs[i].end
      /\ \A i, j \in 1 .. Len(rs) : i < j => rs[i].end + 1 < rs[j].start
  BY SliceType, MaxHeightAssumption DEF Heights, Canonical
<1>3. FindRangeIndex(rs, h) = IF f > 1 /\ h <= rs[f - 1].end THEN f - 1 ELSE f
  BY DEF FindRangeIndex
<1> HIDE DEF f
<1>4. CASE f > 1 /\ h <= rs[f - 1].end
  <2>1. FindRangeIndex(rs, h) = f - 1
    BY <1>3, <1>4
  <2>2. f - 1 \in 1 .. Len(rs) + 1
    BY <1>1, <1>2, <1>4
  <2>3. ASSUME NEW j \in 1 .. f - 1 - 1 PROVE rs[j].end < h
    <3>1. f - 1 \in 1 .. Len(rs) /\ j \in 1 .. Len(rs) /\ j < f - 1
      BY <1>1, <1>2, <1>4
    <3>2. rs[j].end + 1 < rs[f - 1].start /\ rs[f - 1].start <= h
      BY <3>1, <1>1, <1>2
    <3> QED BY <3>1, <3>2, <1>2
  <2>4. ASSUME NEW j \in f - 1 + 1 .. Len(rs) PROVE h < rs[j].start
    <3>1. f - 1 \in 1 .. Len(rs) /\ j \in 1 .. Len(rs) /\ f - 1 < j
      BY <1>1, <1>2, <1>4
    <3>2. rs[f - 1].end + 1 < rs[j].start
      BY <3>1, <1>2
    <3> QED BY <3>1, <3>2, <1>2, <1>4
  <2> QED BY <2>1, <2>2, <2>3, <2>4, <1>4 DEF FoundAt
<1>5. CASE ~ (f > 1 /\ h <= rs[f - 1].end)
  <2>1. FindRangeIndex(rs, h) = f
    BY <1>3, <1>5
  <2>2. ASSUME NEW j \in 1 .. f - 1 PROVE rs[j].end < h
    <3>1. f > 1 /\ f - 1 \in 1 .. Len(rs) /\ j \in 1 .. Len(rs) /\ j <= f - 1
      BY <1>1, <1>2
    <3>2. rs[f - 1].end < h
      BY <3>1, <1>2, <1>5
    <3>3. CASE j = f - 1
      BY <3>2, <3>3
    <3>4. CASE j < f - 1
      <4>1. rs[j].end + 1 < rs[f - 1].start /\ rs[f - 1].start <= rs[f - 1].end
        BY <3>1, <3>4, <1>2
      <4> QED BY <4>1, <3>1, <3>2, <1>2
    <3> QED BY <3>1, <3>3, <3>4, <1>1
  <2>3. ASSUME NEW j \in f .. Len(rs) PROVE h < rs[j].start
    <3>1. f \in 1 .. Len(rs) /\ j \in 1 .. Len(rs) /\ f <= j
      BY <1>1, <1>2
    <3>2. h < rs[f].start
      BY <3>1, <1>1
    <3>3. CASE j = f
      BY <3>2, <3>3
    <3>4. CASE f < j
      <4>1. rs[f].start <= rs[f].end /\ rs[f].end + 1 < rs[j].start
        BY <3>1, <3>4, <1>2
      <4> QED BY <4>1, <3>1, <3>2, <1>2
    <3> QED BY <3>1, <3>3, <3>4
  <2>4. f <= Len(rs) => h <= rs[f].end
    <3> HAVE f <= Len(rs)
    <3>1. f \in 1 .. Len(rs)
      BY <1>1, <1>2
    <3> QED BY <3>1, <1>1, <1>2
  <2>5. \A j \in f + 1 .. Len(rs) : h < rs[j].start
    BY <2>3, <1>1, <1>2
  <2> QED BY <2>1, <2>2, <2>4, <2>5, <1>1 DEF FoundAt
<1> QED BY <1>4, <1>5

-----------------------------------------------------------------------------
(* One range of a canonical slice replaced, removed or inserted. *)

\* The elements of a slice, by position.
LEMMA ToSetSlice ==
    ASSUME NEW rs \in Seq(Range64)
    PROVE  ToSet(rs) = {rs[i] : i \in 1 .. Len(rs)}
BY LenProperties DEF ToSet

\* A canonical slice, spelled out over positions.
LEMMA CanonicalSlice ==
    ASSUME NEW rs \in Seq(Range64)
    PROVE  Canonical(rs) <=>
              /\ \A i \in 1 .. Len(rs) : rs[i].start <= rs[i].end
              /\ \A i, j \in 1 .. Len(rs) : i < j => rs[i].end + 1 < rs[j].start
BY LenProperties DEF Canonical

\* No two positions of a canonical slice hold the same range.
LEMMA CanonicalDistinct ==
    ASSUME NEW rs \in Seq(Range64), Canonical(rs),
           NEW i \in 1 .. Len(rs), NEW j \in 1 .. Len(rs), rs[i] = rs[j]
    PROVE  i = j
<1>1. i \in Int /\ j \in Int
  OBVIOUS
<1>2. \A k, l \in 1 .. Len(rs) : k < l => rs[k] # rs[l]
  BY CanonicalSlice, SliceType
<1> QED BY <1>1, <1>2

\* A height lies in at most one range of a canonical slice.
LEMMA CanonicalDisjoint ==
    ASSUME NEW rs \in Seq(Range64), Canonical(rs), NEW x \in Heights,
           NEW r \in ToSet(rs), NEW q \in ToSet(rs), Within(x, r), Within(x, q)
    PROVE  r = q
<1>1. PICK i \in 1 .. Len(rs) : r = rs[i]
  BY ToSetSlice
<1>2. PICK j \in 1 .. Len(rs) : q = rs[j]
  BY ToSetSlice
<1>3. x \in Nat
  BY MaxHeightAssumption DEF Heights
<1>4. \A k, l \in 1 .. Len(rs) : k < l => ~ (Within(x, rs[k]) /\ Within(x, rs[l]))
  BY <1>3, CanonicalSlice, SliceType DEF Within
<1>5. i \in Int /\ j \in Int
  OBVIOUS
<1>6. ~ (i < j) /\ ~ (j < i)
  BY <1>1, <1>2, <1>4
<1> QED BY <1>1, <1>2, <1>5, <1>6

\* r is a non-empty range that touches none of the ranges before position i and
\* none of those from position k on.
Fits(rs, r, i, k) ==
    /\ r.start <= r.end
    /\ \A j \in 1 .. i - 1 : rs[j].end + 1 < r.start
    /\ \A j \in k .. Len(rs) : r.end + 1 < rs[j].start

\* The range at i replaced by one that fits between its neighbours.
LEMMA ReplaceOne ==
    ASSUME NEW rs \in Seq(Range64), Canonical(rs),
           NEW i \in 1 .. Len(rs), NEW r \in Range64, Fits(rs, r, i, i + 1)
    PROVE  /\ ReplaceAt(rs, i, r) \in Seq(Range64)
           /\ Len(ReplaceAt(rs, i, r)) = Len(rs)
           /\ ReplaceAt(rs, i, r)[i] = r
           /\ \A j \in 1 .. Len(rs) : j # i => ReplaceAt(rs, i, r)[j] = rs[j]
           /\ Canonical(ReplaceAt(rs, i, r))
           /\ ToSet(ReplaceAt(rs, i, r)) = (ToSet(rs) \ {rs[i]}) \cup {r}
<1> DEFINE s == ReplaceAt(rs, i, r)
<1>0. /\ r.start <= r.end
      /\ \A j \in 1 .. i - 1 : rs[j].end + 1 < r.start
      /\ \A j \in i + 1 .. Len(rs) : r.end + 1 < rs[j].start
  BY DEF Fits
<1>1. /\ s \in Seq(Range64) /\ Len(s) = Len(rs) /\ s[i] = r
      /\ \A j \in 1 .. Len(rs) : j # i => s[j] = rs[j]
  BY ExceptSeq DEF ReplaceAt
<1> HIDE DEF s
<1>2. Canonical(s)
  <2>1. \A j \in 1 .. Len(s) : s[j].start <= s[j].end
    BY <1>0, <1>1, CanonicalSlice
  <2>2. ASSUME NEW j \in 1 .. Len(s), NEW k \in 1 .. Len(s), j < k
        PROVE  s[j].end + 1 < s[k].start
    <3>1. Len(rs) \in Nat
      BY SliceType
    <3>2. CASE j # i /\ k # i
      BY <2>2, <3>2, <1>1, CanonicalSlice
    <3>3. CASE j = i
      BY <2>2, <3>1, <3>3, <1>0, <1>1
    <3>4. CASE k = i
      BY <2>2, <3>1, <3>4, <1>0, <1>1
    <3> QED BY <3>2, <3>3, <3>4
  <2> QED BY <2>1, <2>2, <1>1, CanonicalSlice
<1>3. ToSet(s) = (ToSet(rs) \ {rs[i]}) \cup {r}
  <2>1. ToSet(s) = {s[j] : j \in 1 .. Len(rs)} /\ ToSet(rs) = {rs[j] : j \in 1 .. Len(rs)}
    BY <1>1, ToSetSlice
  <2>2. \A j \in 1 .. Len(rs) : j # i => rs[j] # rs[i]
    BY CanonicalDistinct
  <2> QED BY <2>1, <2>2, <1>1
<1> QED BY <1>1, <1>2, <1>3 DEF s

\* A range inserted at i, fitting between its neighbours.
LEMMA InsertOne ==
    ASSUME NEW rs \in Seq(Range64), Canonical(rs),
           NEW i \in 1 .. Len(rs) + 1, NEW r \in Range64, Fits(rs, r, i, i)
    PROVE  /\ InsertAt(rs, i, r) \in Seq(Range64)
           /\ Canonical(InsertAt(rs, i, r))
           /\ ToSet(InsertAt(rs, i, r)) = ToSet(rs) \cup {r}
<1> DEFINE s == InsertAt(rs, i, r)
<1>0. /\ Len(rs) \in Nat /\ i \in Int
      /\ r.start <= r.end
      /\ \A j \in 1 .. i - 1 : rs[j].end + 1 < r.start
      /\ \A j \in i .. Len(rs) : r.end + 1 < rs[j].start
  BY SliceType DEF Fits
<1>1. /\ s \in Seq(Range64) /\ Len(s) = Len(rs) + 1 /\ s[i] = r
      /\ \A j \in 1 .. i - 1 : s[j] = rs[j]
      /\ \A j \in i + 1 .. Len(rs) + 1 : s[j] = rs[j - 1]
  BY InsertAtProperties
<1> HIDE DEF s
<1>2. /\ \A j \in 1 .. Len(rs) : rs[j].start <= rs[j].end
      /\ \A j, k \in 1 .. Len(rs) : j < k => rs[j].end + 1 < rs[k].start
  BY CanonicalSlice
<1>3. Canonical(s)
  <2>1. ASSUME NEW j \in 1 .. Len(s) PROVE s[j].start <= s[j].end
    <3>1. CASE j < i
      BY <3>1, <1>0, <1>1, <1>2
    <3>2. CASE j = i
      BY <3>2, <1>0, <1>1
    <3>3. CASE i < j
      BY <3>3, <1>0, <1>1, <1>2
    <3> QED BY <3>1, <3>2, <3>3, <1>0
  <2>2. ASSUME NEW j \in 1 .. Len(s), NEW k \in 1 .. Len(s), j < k
        PROVE  s[j].end + 1 < s[k].start
    <3>1. CASE k < i
      <4>1. s[j] = rs[j] /\ s[k] = rs[k] /\ j \in 1 .. Len(rs) /\ k \in 1 .. Len(rs)
        BY <3>1, <2>2, <1>0, <1>1
      <4> QED BY <4>1, <2>2, <1>2
    <3>2. CASE k = i
      BY <3>2, <2>2, <1>0, <1>1
    <3>3. CASE i < k /\ j < i
      <4>1. s[j] = rs[j] /\ s[k] = rs[k - 1] /\ j \in 1 .. Len(rs)
            /\ k - 1 \in 1 .. Len(rs) /\ j < k - 1
        BY <3>3, <2>2, <1>0, <1>1
      <4> QED BY <4>1, <1>2
    <3>4. CASE i < k /\ j = i
      <4>1. s[k] = rs[k - 1] /\ k - 1 \in i .. Len(rs)
        BY <3>4, <2>2, <1>0, <1>1
      <4> QED BY <4>1, <3>4, <1>0, <1>1
    <3>5. CASE i < j
      <4>1. s[j] = rs[j - 1] /\ s[k] = rs[k - 1] /\ j - 1 \in 1 .. Len(rs)
            /\ k - 1 \in 1 .. Len(rs) /\ j - 1 < k - 1
        BY <3>5, <2>2, <1>0, <1>1
      <4> QED BY <4>1, <1>2
    <3> QED BY <3>1, <3>2, <3>3, <3>4, <3>5, <2>2, <1>0
  <2> QED BY <2>1, <2>2, <1>1, CanonicalSlice
<1>4. ToSet(s) = ToSet(rs) \cup {r}
  <2>1. ToSet(s) = {s[j] : j \in 1 .. Len(rs) + 1} /\ ToSet(rs) = {rs[j] : j \in 1 .. Len(rs)}
    BY <1>1, ToSetSlice
  <2>2. ASSUME NEW j \in 1 .. Len(rs) + 1 PROVE s[j] \in ToSet(rs) \cup {r}
    <3>1. CASE j < i
      BY <3>1, <2>1, <1>0, <1>1
    <3>2. CASE j = i
      BY <3>2, <1>1
    <3>3. CASE i < j
      <4>1. s[j] = rs[j - 1] /\ j - 1 \in 1 .. Len(rs)
        BY <3>3, <1>0, <1>1
      <4> QED BY <4>1, <2>1
    <3> QED BY <3>1, <3>2, <3>3, <1>0
  <2>3. ASSUME NEW j \in 1 .. Len(rs) PROVE rs[j] \in ToSet(s)
    <3>1. CASE j < i
      BY <3>1, <2>1, <1>0, <1>1
    <3>2. CASE i <= j
      <4>1. j + 1 \in i + 1 .. Len(rs) + 1 /\ j + 1 \in 1 .. Len(rs) + 1 /\ (j + 1) - 1 = j
        BY <3>2, <1>0
      <4>2. s[j + 1] = rs[j]
        BY <4>1, <1>1
      <4> QED BY <4>1, <4>2, <2>1
    <3> QED BY <3>1, <3>2, <1>0
  <2>4. r \in ToSet(s)
    BY <2>1, <1>1
  <2> QED BY <2>1, <2>2, <2>3, <2>4
<1> QED BY <1>1, <1>3, <1>4 DEF s

\* The range at i removed.
LEMMA RemoveOne ==
    ASSUME NEW rs \in Seq(Range64), Canonical(rs), NEW i \in 1 .. Len(rs)
    PROVE  /\ RemoveAt(rs, i) \in Seq(Range64)
           /\ Canonical(RemoveAt(rs, i))
           /\ ToSet(RemoveAt(rs, i)) = ToSet(rs) \ {rs[i]}
<1> DEFINE s == RemoveAt(rs, i)
           at(j) == IF j < i THEN j ELSE j + 1
<1>0. Len(rs) \in Nat /\ i \in Int
  BY SliceType
<1>1. /\ s \in Seq(Range64) /\ Len(s) = Len(rs) - 1
      /\ \A j \in 1 .. i - 1 : s[j] = rs[j]
      /\ \A j \in i .. Len(rs) - 1 : s[j] = rs[j + 1]
  BY RemoveAtProperties
<1> HIDE DEF s
<1>2. ASSUME NEW j \in 1 .. Len(s)
      PROVE  s[j] = rs[at(j)] /\ at(j) \in 1 .. Len(rs) /\ at(j) # i
  BY <1>0, <1>1
<1>3. \A j, k \in 1 .. Len(s) : j < k => at(j) < at(k)
  BY <1>0, <1>1
<1> HIDE DEF at
<1>4. Canonical(s)
  BY <1>1, <1>2, <1>3, CanonicalSlice
<1>5. ASSUME NEW j \in 1 .. Len(rs), j # i PROVE rs[j] \in ToSet(s)
  <2>0. ToSet(s) = {s[k] : k \in 1 .. Len(s)}
    BY <1>1, ToSetSlice
  <2>1. CASE j < i
    BY <2>0, <2>1, <1>0, <1>1
  <2>2. CASE i < j
    <3>1. j - 1 \in i .. Len(rs) - 1 /\ (j - 1) + 1 = j /\ j - 1 \in 1 .. Len(s)
      BY <2>2, <1>0, <1>1
    <3>2. s[j - 1] = rs[j]
      BY <3>1, <1>1
    <3> QED BY <2>0, <3>1, <3>2
  <2> QED BY <2>1, <2>2, <1>5, <1>0
<1>6. ToSet(s) = ToSet(rs) \ {rs[i]}
  <2>1. ToSet(s) = {s[j] : j \in 1 .. Len(s)} /\ ToSet(rs) = {rs[j] : j \in 1 .. Len(rs)}
    BY <1>1, ToSetSlice
  <2>2. \A j \in 1 .. Len(rs) : j # i => rs[j] # rs[i]
    BY CanonicalDistinct
  <2> QED BY <2>1, <2>2, <1>2, <1>5
<1> QED BY <1>1, <1>4, <1>6 DEF s

-----------------------------------------------------------------------------
(* Each operation on one slice. *)

\* rs2 is what an operation on the canonical slice rs must leave behind when it
\* deletes the series old, updates the series new, and reports the heights cov.
SliceResult(rs, old, new, rs2, cov) ==
    /\ rs2 \in Seq(Range64)
    /\ Canonical(rs2)
    /\ ToSet(rs2) = (ToSet(rs) \ old) \cup new
    /\ old \subseteq ToSet(rs) \ new
    /\ Covered(rs2) = cov

\* uint64 neighbours, away from the wrap.
LEMMA Neighbours64 ==
    ASSUME NEW x \in Heights, NEW y \in Heights
    PROVE  /\ x < y => Succ64(x) = x + 1 /\ Succ64(x) \in Heights
           /\ x < y => Pred64(y) = y - 1 /\ Pred64(y) \in Heights
BY MaxHeightAssumption DEF Heights, Succ64, Pred64

\* The elements of rs2 are those of rs with the ones in old replaced by new.
Swaps(rs, rs2, old, new) ==
    old \subseteq ToSet(rs) /\ ToSet(rs2) = (ToSet(rs) \ old) \cup new

\* The ranges in new hold the heights of those in old, and h; or all but h.
Adds(old, new, h) ==
    \A x \in Heights : (\E n \in new : Within(x, n)) <=>
                           x = h \/ \E o \in old : Within(x, o)
Drops(old, new, h) ==
    \A x \in Heights : (\E n \in new : Within(x, n)) <=>
                           x # h /\ \E o \in old : Within(x, o)

\* Replacing ranges by ranges that hold the same heights and h adds h.
LEMMA CoverAdd ==
    ASSUME NEW rs, NEW rs2, NEW old, NEW new, NEW h \in Heights,
           Swaps(rs, rs2, old, new), Adds(old, new, h)
    PROVE  Covered(rs2) = Covered(rs) \cup {h}
<1>1. ASSUME NEW x \in Heights
      PROVE  (\E q \in ToSet(rs2) : Within(x, q)) <=>
                 x = h \/ \E q \in ToSet(rs) : Within(x, q)
  <2>1. (\E q \in ToSet(rs2) : Within(x, q)) <=>
            (\E n \in new : Within(x, n)) \/ \E q \in ToSet(rs) \ old : Within(x, q)
    BY DEF Swaps
  <2>2. (\E q \in ToSet(rs) : Within(x, q)) <=>
            (\E o \in old : Within(x, o)) \/ \E q \in ToSet(rs) \ old : Within(x, q)
    BY DEF Swaps
  <2> QED BY <2>1, <2>2 DEF Adds
<1> QED BY <1>1 DEF Covered

\* Replacing the range of h by ranges that hold its other heights removes h.
LEMMA CoverDrop ==
    ASSUME NEW rs \in Seq(Range64), Canonical(rs), NEW rs2, NEW o,
           NEW new, NEW h \in Heights, Within(h, o),
           Swaps(rs, rs2, {o}, new), Drops({o}, new, h)
    PROVE  Covered(rs2) = Covered(rs) \ {h}
<1>0. o \in ToSet(rs)
  BY DEF Swaps
<1>1. ASSUME NEW x \in Heights
      PROVE  (\E q \in ToSet(rs2) : Within(x, q)) <=>
                 x # h /\ \E q \in ToSet(rs) : Within(x, q)
  <2>1. (\E q \in ToSet(rs2) : Within(x, q)) <=>
            (\E n \in new : Within(x, n)) \/ \E q \in ToSet(rs) \ {o} : Within(x, q)
    BY DEF Swaps
  <2>2. (\E q \in ToSet(rs) : Within(x, q)) <=>
            Within(x, o) \/ \E q \in ToSet(rs) \ {o} : Within(x, q)
    BY <1>0
  <2>3. \A q \in ToSet(rs) \ {o} : ~ Within(h, q)
    BY <1>0, CanonicalDisjoint
  <2> QED BY <2>1, <2>2, <2>3 DEF Drops
<1> QED BY <1>1 DEF Covered

\* A height found in its range is covered; one not found is not.
LEMMA TrackedIffCovered ==
    ASSUME NEW rs \in Seq(Range64), Canonical(rs), NEW h \in Heights,
           NEW idx, FoundAt(rs, h, idx)
    PROVE  (idx <= Len(rs) /\ Within(h, rs[idx])) <=> h \in Covered(rs)
<1>1. Len(rs) \in Nat /\ h \in Nat /\ idx \in 1 .. Len(rs) + 1
  BY SliceType, MaxHeightAssumption DEF Heights, FoundAt
<1>2. h \in Covered(rs) <=> \E i \in 1 .. Len(rs) : Within(h, rs[i])
  BY ToSetSlice DEF Covered
<1>3. \A i \in 1 .. Len(rs) : Within(h, rs[i]) => i = idx
  <2> TAKE i \in 1 .. Len(rs)
  <2> HAVE Within(h, rs[i])
  <2>1. ~ (i < idx) /\ ~ (idx < i)
    BY <1>1, SliceType DEF FoundAt, Within
  <2> QED BY <2>1, <1>1
<1>4. idx <= Len(rs) => idx \in 1 .. Len(rs)
  BY <1>1
<1> QED BY <1>2, <1>3, <1>4

\* The facts an insertion at idx rests on, when h is in no range.
LEMMA UntrackedGap ==
    ASSUME NEW rs \in Seq(Range64), Canonical(rs), NEW h \in Heights,
           NEW idx, FoundAt(rs, h, idx),
           ~ (idx <= Len(rs) /\ Within(h, rs[idx]))
    PROVE  /\ idx \in 1 .. Len(rs) + 1 /\ Len(rs) \in Nat /\ h \in Nat /\ h <= MaxHeight
           /\ \A j \in 1 .. idx - 1 : rs[j].end < h
           /\ \A j \in idx .. Len(rs) : h < rs[j].start
           /\ \A j \in 1 .. idx - 2 : rs[j].end + 1 < h
           /\ \A j \in idx + 1 .. Len(rs) : h + 1 < rs[j].start
<1>1. idx \in 1 .. Len(rs) + 1 /\ Len(rs) \in Nat /\ h \in Nat /\ h <= MaxHeight
  BY SliceType, MaxHeightAssumption DEF Heights, FoundAt
<1>2. \A j \in 1 .. idx - 1 : rs[j].end < h
  BY DEF FoundAt
<1>3. idx <= Len(rs) => h < rs[idx].start
  <2> HAVE idx <= Len(rs)
  <2>1. idx \in 1 .. Len(rs)
    BY <1>1
  <2> QED BY <2>1, <1>1, SliceType DEF FoundAt, Within
<1>4. \A j \in idx .. Len(rs) : h < rs[j].start
  BY <1>1, <1>3 DEF FoundAt
<1>5. ASSUME NEW j \in 1 .. idx - 2 PROVE rs[j].end + 1 < h
  <2>1. idx - 1 \in 1 .. Len(rs) /\ j \in 1 .. Len(rs) /\ j < idx - 1 /\ idx - 1 \in 1 .. idx - 1
    BY <1>1
  <2>2. rs[j].end + 1 < rs[idx - 1].start /\ rs[idx - 1].start <= rs[idx - 1].end
    BY <2>1, CanonicalSlice
  <2>3. rs[idx - 1].end < h
    BY <2>1, <1>2
  <2> QED BY <2>1, <2>2, <2>3, <1>1, SliceType, SMTT(30)
<1>6. ASSUME NEW j \in idx + 1 .. Len(rs) PROVE h + 1 < rs[j].start
  <2>1. idx \in 1 .. Len(rs) /\ j \in 1 .. Len(rs) /\ idx < j
    BY <1>1
  <2>2. rs[idx].end + 1 < rs[j].start /\ rs[idx].start <= rs[idx].end
    BY <2>1, CanonicalSlice
  <2> QED BY <2>1, <2>2, <1>1, <1>3, SliceType, SMTT(30)
<1> QED BY <1>1, <1>2, <1>4, <1>5, <1>6

\* Extending the range below h.
LEMMA ExtendLeftSlice ==
    ASSUME NEW rs \in Seq(Range64), Canonical(rs), NEW h \in Heights,
           NEW idx, FoundAt(rs, h, idx),
           ~ (idx <= Len(rs) /\ Within(h, rs[idx])),
           idx > 1, Succ64(rs[idx - 1].end) = h,
           ~ (idx <= Len(rs) /\ Pred64(rs[idx].start) = h),
           NEW i, i = idx - 1, NEW r, r = NewRange(rs[i].start, h)
    PROVE  SliceResult(rs, {rs[i]}, {r}, ReplaceAt(rs, i, r), Covered(rs) \cup {h})
<1>1. /\ idx \in 1 .. Len(rs) + 1 /\ Len(rs) \in Nat /\ h \in Nat /\ h <= MaxHeight
      /\ \A j \in 1 .. idx - 1 : rs[j].end < h
      /\ \A j \in idx .. Len(rs) : h < rs[j].start
      /\ \A j \in idx + 1 .. Len(rs) : h + 1 < rs[j].start
  BY UntrackedGap, SMTT(30)
<1>2. i \in 1 .. Len(rs) /\ i \in 1 .. idx - 1 /\ idx = i + 1 /\ rs[i] \in Range64
  BY <1>1, SliceType
<1>3. rs[i].start \in Heights /\ rs[i].end \in Heights /\ rs[i].end + 1 = h
  <2>1. rs[i].start \in Heights /\ rs[i].end \in Heights /\ rs[i].end < h
    BY <1>1, <1>2 DEF Range64
  <2>2. Succ64(rs[i].end) = rs[i].end + 1
    BY <2>1, Neighbours64
  <2> QED BY <2>1, <2>2
<1>4. idx <= Len(rs) => h + 1 < rs[idx].start
  <2> HAVE idx <= Len(rs)
  <2>1. idx \in 1 .. Len(rs) /\ h < rs[idx].start
    BY <1>1
  <2>2. rs[idx].start \in Heights /\ rs[idx].start \in Nat
    BY <2>1, SliceType DEF Range64
  <2>3. Pred64(rs[idx].start) = rs[idx].start - 1
    BY <2>1, <2>2, Neighbours64
  <2>4. rs[idx].start # h + 1
    BY <2>1, <2>3, <1>1
  <2> QED BY <2>1, <2>2, <2>4, <1>1
<1>5. r \in Range64 /\ r.start = rs[i].start /\ r.end = h
  BY <1>3 DEF NewRange, Range64
<1>6. r.start <= r.end
  BY <1>1, <1>2, <1>3, <1>5, CanonicalSlice, SliceType
<1>7. \A j \in 1 .. i - 1 : rs[j].end + 1 < r.start
  <2> TAKE j \in 1 .. i - 1
  <2>1. j \in 1 .. Len(rs) /\ j < i
    BY <1>1, <1>2
  <2> QED BY <2>1, <1>2, <1>5, CanonicalSlice
<1>8. \A j \in i + 1 .. Len(rs) : r.end + 1 < rs[j].start
  BY <1>1, <1>2, <1>4, <1>5
<1>9. \A x \in Heights : Within(x, r) <=> x = h \/ \E o \in {rs[i]} : Within(x, o)
  <2>1. rs[i].start <= rs[i].end /\ rs[i].start \in Nat /\ rs[i].end \in Nat
    BY <1>2, CanonicalSlice, SliceType
  <2> QED BY <2>1, <1>1, <1>3, <1>5, MaxHeightAssumption DEF Within, Heights
<1>10. /\ ReplaceAt(rs, i, r) \in Seq(Range64) /\ Canonical(ReplaceAt(rs, i, r))
       /\ ToSet(ReplaceAt(rs, i, r)) = (ToSet(rs) \ {rs[i]}) \cup {r}
  <2>1. Fits(rs, r, i, i + 1)
    BY <1>6, <1>7, <1>8 DEF Fits
  <2> QED BY <2>1, <1>2, <1>5, ReplaceOne
<1>11. rs[i] \in ToSet(rs)
  BY <1>2, ToSetSlice
<1>12. Swaps(rs, ReplaceAt(rs, i, r), {rs[i]}, {r})
  BY <1>10, <1>11 DEF Swaps
<1>13. Adds({rs[i]}, {r}, h)
  BY <1>9 DEF Adds
<1>14. Covered(ReplaceAt(rs, i, r)) = Covered(rs) \cup {h}
  BY <1>12, <1>13, CoverAdd
<1>15. rs[i] # r
  BY <1>1, <1>3, <1>5, MaxHeightAssumption DEF Heights
<1> QED BY <1>10, <1>11, <1>14, <1>15 DEF SliceResult

\* Extending the range above h.
LEMMA ExtendRightSlice ==
    ASSUME NEW rs \in Seq(Range64), Canonical(rs), NEW h \in Heights,
           NEW idx, FoundAt(rs, h, idx),
           ~ (idx <= Len(rs) /\ Within(h, rs[idx])),
           ~ (idx > 1 /\ Succ64(rs[idx - 1].end) = h),
           idx <= Len(rs), Pred64(rs[idx].start) = h,
           NEW r, r = NewRange(h, rs[idx].end)
    PROVE  SliceResult(rs, {rs[idx]}, {r}, ReplaceAt(rs, idx, r), Covered(rs) \cup {h})
<1>1. /\ idx \in 1 .. Len(rs) /\ Len(rs) \in Nat /\ h \in Nat /\ h <= MaxHeight
      /\ \A j \in 1 .. idx - 1 : rs[j].end < h
      /\ \A j \in idx .. Len(rs) : h < rs[j].start
      /\ \A j \in 1 .. idx - 2 : rs[j].end + 1 < h
  BY UntrackedGap, SMTT(30)
<1>2. rs[idx] \in Range64 /\ rs[idx] \in ToSet(rs)
  BY <1>1, SliceType, ToSetSlice
<1>3. rs[idx].start \in Heights /\ rs[idx].end \in Heights /\ rs[idx].start = h + 1
  <2>1. rs[idx].start \in Heights /\ rs[idx].end \in Heights /\ h < rs[idx].start
    BY <1>1, <1>2 DEF Range64
  <2>2. Pred64(rs[idx].start) = rs[idx].start - 1
    BY <2>1, Neighbours64
  <2> QED BY <2>1, <2>2, <1>1, SliceType
<1>4. idx > 1 => rs[idx - 1].end + 1 < h
  <2> HAVE idx > 1
  <2>1. idx - 1 \in 1 .. Len(rs) /\ rs[idx - 1].end < h
    BY <1>1
  <2>2. rs[idx - 1].end \in Heights /\ rs[idx - 1].end \in Nat
    BY <2>1, SliceType DEF Range64
  <2>3. Succ64(rs[idx - 1].end) = rs[idx - 1].end + 1
    BY <2>1, <2>2, Neighbours64
  <2>4. rs[idx - 1].end + 1 # h
    BY <2>3
  <2> QED BY <2>1, <2>2, <2>4, <1>1
<1>5. r \in Range64 /\ r.start = h /\ r.end = rs[idx].end
  BY <1>3 DEF NewRange, Range64
<1>6. rs[idx].start <= rs[idx].end /\ rs[idx].start \in Nat /\ rs[idx].end \in Nat
  BY <1>1, CanonicalSlice, SliceType
<1>7. \A j \in 1 .. idx - 1 : rs[j].end + 1 < r.start
  BY <1>1, <1>4, <1>5
<1>8. \A j \in idx + 1 .. Len(rs) : r.end + 1 < rs[j].start
  <2> TAKE j \in idx + 1 .. Len(rs)
  <2>1. j \in 1 .. Len(rs) /\ idx < j
    BY <1>1
  <2> QED BY <2>1, <1>1, <1>5, CanonicalSlice
<1>9. /\ ReplaceAt(rs, idx, r) \in Seq(Range64) /\ Canonical(ReplaceAt(rs, idx, r))
      /\ ToSet(ReplaceAt(rs, idx, r)) = (ToSet(rs) \ {rs[idx]}) \cup {r}
  <2>1. r.start <= r.end
    BY <1>1, <1>3, <1>5, <1>6
  <2>2. Fits(rs, r, idx, idx + 1)
    BY <2>1, <1>7, <1>8 DEF Fits
  <2> QED BY <2>2, <1>1, <1>5, ReplaceOne
<1>10. Swaps(rs, ReplaceAt(rs, idx, r), {rs[idx]}, {r})
  BY <1>2, <1>9 DEF Swaps
<1>11. Adds({rs[idx]}, {r}, h)
  BY <1>1, <1>3, <1>5, <1>6, MaxHeightAssumption DEF Adds, Within, Heights
<1>12. Covered(ReplaceAt(rs, idx, r)) = Covered(rs) \cup {h}
  BY <1>10, <1>11, CoverAdd
<1>13. rs[idx] # r
  BY <1>1, <1>3, <1>5
<1> QED BY <1>2, <1>9, <1>12, <1>13 DEF SliceResult

\* Joining the ranges on both sides of h.
LEMMA MergeSlice ==
    ASSUME NEW rs \in Seq(Range64), Canonical(rs), NEW h \in Heights,
           NEW idx, FoundAt(rs, h, idx),
           ~ (idx <= Len(rs) /\ Within(h, rs[idx])),
           idx > 1, Succ64(rs[idx - 1].end) = h,
           idx <= Len(rs), Pred64(rs[idx].start) = h,
           NEW i, i = idx - 1, NEW r, r = NewRange(rs[i].start, rs[i + 1].end)
    PROVE  SliceResult(rs, {rs[i], rs[i + 1]}, {r}, ReplaceAt(RemoveAt(rs, i + 1), i, r),
                       Covered(rs) \cup {h})
<1> DEFINE s == RemoveAt(rs, i + 1)
           t == ReplaceAt(s, i, r)
<1>1. /\ idx \in 1 .. Len(rs) /\ Len(rs) \in Nat /\ h \in Nat /\ h <= MaxHeight
      /\ \A j \in 1 .. idx - 1 : rs[j].end < h
      /\ \A j \in idx .. Len(rs) : h < rs[j].start
  BY UntrackedGap, SMTT(30)
<1>2. /\ i \in 1 .. Len(rs) /\ i + 1 \in 1 .. Len(rs) /\ i \in Nat /\ idx = i + 1
      /\ rs[i] \in Range64 /\ rs[i + 1] \in Range64
      /\ rs[i] \in ToSet(rs) /\ rs[i + 1] \in ToSet(rs)
  BY <1>1, SliceType, ToSetSlice
<1>3. /\ rs[i].start \in Nat /\ rs[i].end \in Nat /\ rs[i].start <= rs[i].end
      /\ rs[i + 1].start \in Nat /\ rs[i + 1].end \in Nat
      /\ rs[i + 1].start <= rs[i + 1].end
      /\ rs[i].start \in Heights /\ rs[i].end \in Heights
      /\ rs[i + 1].start \in Heights /\ rs[i + 1].end \in Heights
  BY <1>2, SliceType, CanonicalSlice DEF Range64
<1>4. rs[i].end + 1 = h /\ rs[i + 1].start = h + 1
  <2>1. rs[i].end < h /\ h < rs[i + 1].start
    BY <1>1, <1>2
  <2>2. Succ64(rs[i].end) = rs[i].end + 1 /\ Pred64(rs[i + 1].start) = rs[i + 1].start - 1
    BY <2>1, <1>3, Neighbours64
  <2> QED BY <2>2, <1>2, <1>3
<1>5. r \in Range64 /\ r.start = rs[i].start /\ r.end = rs[i + 1].end /\ r.start <= r.end
  BY <1>1, <1>3, <1>4 DEF NewRange, Range64
<1>6. /\ s \in Seq(Range64) /\ Canonical(s) /\ ToSet(s) = ToSet(rs) \ {rs[i + 1]}
      /\ Len(s) = Len(rs) - 1
      /\ \A j \in 1 .. i : s[j] = rs[j]
      /\ \A j \in i + 1 .. Len(rs) - 1 : s[j] = rs[j + 1]
  <2>1. s \in Seq(Range64) /\ Canonical(s) /\ ToSet(s) = ToSet(rs) \ {rs[i + 1]}
    BY <1>2, RemoveOne
  <2>2. /\ Len(s) = Len(rs) - 1
        /\ \A j \in 1 .. (i + 1) - 1 : s[j] = rs[j]
        /\ \A j \in i + 1 .. Len(rs) - 1 : s[j] = rs[j + 1]
    BY <1>2, RemoveAtProperties
  <2> QED BY <2>1, <2>2, <1>2
<1> HIDE DEF s
<1>7. i \in 1 .. Len(s) /\ s[i] = rs[i]
  BY <1>1, <1>2, <1>6
<1>8. \A j \in 1 .. i - 1 : s[j].end + 1 < r.start
  <2> TAKE j \in 1 .. i - 1
  <2>1. j \in 1 .. Len(rs) /\ j < i /\ s[j] = rs[j]
    BY <1>2, <1>6
  <2> QED BY <2>1, <1>2, <1>5, CanonicalSlice
<1>9. \A j \in i + 1 .. Len(s) : r.end + 1 < s[j].start
  <2> TAKE j \in i + 1 .. Len(s)
  <2>1. j + 1 \in 1 .. Len(rs) /\ i + 1 < j + 1 /\ s[j] = rs[j + 1]
    BY <1>1, <1>2, <1>6
  <2> QED BY <2>1, <1>2, <1>5, CanonicalSlice
<1>10. /\ t \in Seq(Range64) /\ Canonical(t)
       /\ ToSet(t) = (ToSet(s) \ {s[i]}) \cup {r}
  <2>1. Fits(s, r, i, i + 1)
    BY <1>5, <1>8, <1>9 DEF Fits
  <2>2. s \in Seq(Range64) /\ Canonical(s) /\ i \in 1 .. Len(s) /\ r \in Range64
    BY <1>5, <1>6, <1>7
  <2> QED BY <2>1, <2>2, ReplaceOne
<1> HIDE DEF t
<1>11. Swaps(rs, t, {rs[i], rs[i + 1]}, {r})
  BY <1>2, <1>6, <1>7, <1>10 DEF Swaps
<1>12. Adds({rs[i], rs[i + 1]}, {r}, h)
  <2>1. ASSUME NEW x \in Heights
        PROVE  Within(x, r) <=> x = h \/ Within(x, rs[i]) \/ Within(x, rs[i + 1])
    BY <1>1, <1>3, <1>4, <1>5, MaxHeightAssumption, SMTT(30) DEF Within, Heights
  <2> QED BY <2>1 DEF Adds
<1>13. Covered(t) = Covered(rs) \cup {h}
  BY <1>11, <1>12, CoverAdd
<1>14. rs[i] # r /\ rs[i + 1] # r
  BY <1>1, <1>3, <1>4, <1>5
<1> QED BY <1>2, <1>10, <1>11, <1>13, <1>14 DEF SliceResult, Swaps, t, s

\* A new range for h alone.
LEMMA InsertSlice ==
    ASSUME NEW rs \in Seq(Range64), Canonical(rs), NEW h \in Heights,
           NEW idx, FoundAt(rs, h, idx),
           ~ (idx <= Len(rs) /\ Within(h, rs[idx])),
           ~ (idx > 1 /\ Succ64(rs[idx - 1].end) = h),
           ~ (idx <= Len(rs) /\ Pred64(rs[idx].start) = h),
           NEW r, r = NewRange(h, h)
    PROVE  SliceResult(rs, {}, {r}, InsertAt(rs, idx, r), Covered(rs) \cup {h})
<1>1. /\ idx \in 1 .. Len(rs) + 1 /\ Len(rs) \in Nat /\ h \in Nat /\ h <= MaxHeight
      /\ \A j \in 1 .. idx - 1 : rs[j].end < h
      /\ \A j \in idx .. Len(rs) : h < rs[j].start
      /\ \A j \in 1 .. idx - 2 : rs[j].end + 1 < h
      /\ \A j \in idx + 1 .. Len(rs) : h + 1 < rs[j].start
  BY UntrackedGap, SMTT(30)
<1>2. idx > 1 => rs[idx - 1].end + 1 < h
  <2> HAVE idx > 1
  <2>1. idx - 1 \in 1 .. Len(rs) /\ rs[idx - 1].end < h
    BY <1>1
  <2>2. rs[idx - 1].end \in Heights /\ rs[idx - 1].end \in Nat
    BY <2>1, SliceType DEF Range64
  <2>3. Succ64(rs[idx - 1].end) = rs[idx - 1].end + 1
    BY <2>1, <2>2, Neighbours64
  <2>4. rs[idx - 1].end + 1 # h
    BY <2>3
  <2> QED BY <2>1, <2>2, <2>4, <1>1
<1>3. idx <= Len(rs) => h + 1 < rs[idx].start
  <2> HAVE idx <= Len(rs)
  <2>1. idx \in 1 .. Len(rs) /\ h < rs[idx].start
    BY <1>1
  <2>2. rs[idx].start \in Heights /\ rs[idx].start \in Nat
    BY <2>1, SliceType DEF Range64
  <2>3. Pred64(rs[idx].start) = rs[idx].start - 1
    BY <2>1, <2>2, Neighbours64
  <2>4. rs[idx].start # h + 1
    BY <2>1, <2>3, <1>1
  <2> QED BY <2>1, <2>2, <2>4, <1>1
<1>4. r \in Range64 /\ r.start = h /\ r.end = h /\ r.start <= r.end
  BY <1>1 DEF NewRange, Range64
<1>5. \A j \in 1 .. idx - 1 : rs[j].end + 1 < r.start
  BY <1>1, <1>2, <1>4
<1>6. \A j \in idx .. Len(rs) : r.end + 1 < rs[j].start
  BY <1>1, <1>3, <1>4
<1>7. /\ InsertAt(rs, idx, r) \in Seq(Range64) /\ Canonical(InsertAt(rs, idx, r))
      /\ ToSet(InsertAt(rs, idx, r)) = ToSet(rs) \cup {r}
  <2>1. Fits(rs, r, idx, idx)
    BY <1>4, <1>5, <1>6 DEF Fits
  <2> QED BY <2>1, <1>1, <1>4, InsertOne
<1>8. Swaps(rs, InsertAt(rs, idx, r), {}, {r})
  BY <1>7 DEF Swaps
<1>9. Adds({}, {r}, h)
  BY <1>1, <1>4, MaxHeightAssumption DEF Adds, Within, Heights
<1>10. Covered(InsertAt(rs, idx, r)) = Covered(rs) \cup {h}
  BY <1>8, <1>9, CoverAdd
<1> QED BY <1>7, <1>10 DEF SliceResult

\* What a removal knows of the range that holds h.
LEMMA TrackedRange ==
    ASSUME NEW rs \in Seq(Range64), Canonical(rs), NEW h \in Heights,
           NEW i, FoundAt(rs, h, i), i <= Len(rs), Within(h, rs[i])
    PROVE  /\ i \in 1 .. Len(rs) /\ Len(rs) \in Nat /\ h \in Nat /\ h <= MaxHeight
           /\ rs[i] \in Range64 /\ rs[i] \in ToSet(rs)
           /\ rs[i].start \in Heights /\ rs[i].end \in Heights
           /\ rs[i].start \in Nat /\ rs[i].end \in Nat
           /\ rs[i].start <= h /\ h <= rs[i].end
           /\ \A j \in 1 .. i - 1 : rs[j].end + 1 < rs[i].start
           /\ \A j \in i + 1 .. Len(rs) : rs[i].end + 1 < rs[j].start
<1>1. i \in 1 .. Len(rs) /\ Len(rs) \in Nat /\ h \in Nat /\ h <= MaxHeight
  BY SliceType, MaxHeightAssumption DEF FoundAt, Heights
<1>2. /\ rs[i] \in Range64 /\ rs[i] \in ToSet(rs)
      /\ rs[i].start \in Heights /\ rs[i].end \in Heights
      /\ rs[i].start \in Nat /\ rs[i].end \in Nat
  BY <1>1, SliceType, ToSetSlice DEF Range64
<1>3. \A j \in 1 .. i - 1 : rs[j].end + 1 < rs[i].start
  BY <1>1, CanonicalSlice
<1>4. \A j \in i + 1 .. Len(rs) : rs[i].end + 1 < rs[j].start
  BY <1>1, CanonicalSlice
<1> QED BY <1>1, <1>2, <1>3, <1>4 DEF Within

\* A range that held only h disappears.
LEMMA DeleteSlice ==
    ASSUME NEW rs \in Seq(Range64), Canonical(rs), NEW h \in Heights,
           NEW i, FoundAt(rs, h, i), i <= Len(rs), Within(h, rs[i]),
           h = rs[i].start, h = rs[i].end
    PROVE  SliceResult(rs, {rs[i]}, {}, RemoveAt(rs, i), Covered(rs) \ {h})
<1>1. i \in 1 .. Len(rs) /\ h \in Nat /\ rs[i] \in ToSet(rs)
  BY TrackedRange, SMTT(30)
<1>2. /\ RemoveAt(rs, i) \in Seq(Range64) /\ Canonical(RemoveAt(rs, i))
      /\ ToSet(RemoveAt(rs, i)) = ToSet(rs) \ {rs[i]}
  BY <1>1, RemoveOne
<1>3. Swaps(rs, RemoveAt(rs, i), {rs[i]}, {})
  BY <1>1, <1>2 DEF Swaps
<1>4. Drops({rs[i]}, {}, h)
  <2>1. ASSUME NEW x \in Heights PROVE ~ (x # h /\ Within(x, rs[i]))
    BY <1>1, MaxHeightAssumption DEF Within, Heights
  <2> QED BY <2>1 DEF Drops
<1>5. Covered(RemoveAt(rs, i)) = Covered(rs) \ {h}
  BY <1>3, <1>4, CoverDrop
<1> QED BY <1>1, <1>2, <1>5 DEF SliceResult

\* A range whose first height is h loses it.
LEMMA ShrinkStartSlice ==
    ASSUME NEW rs \in Seq(Range64), Canonical(rs), NEW h \in Heights,
           NEW i, FoundAt(rs, h, i), i <= Len(rs), Within(h, rs[i]),
           h = rs[i].start, h # rs[i].end,
           NEW r, r = NewRange(Succ64(rs[i].start), rs[i].end)
    PROVE  SliceResult(rs, {rs[i]}, {r}, ReplaceAt(rs, i, r), Covered(rs) \ {h})
<1>1. /\ i \in 1 .. Len(rs) /\ Len(rs) \in Nat /\ h \in Nat /\ rs[i] \in ToSet(rs)
      /\ rs[i].start \in Heights /\ rs[i].end \in Heights
      /\ rs[i].start \in Nat /\ rs[i].end \in Nat /\ h < rs[i].end
      /\ \A j \in 1 .. i - 1 : rs[j].end + 1 < rs[i].start
      /\ \A j \in i + 1 .. Len(rs) : rs[i].end + 1 < rs[j].start
  BY TrackedRange, SMTT(30)
<1>2. r \in Range64 /\ r.start = h + 1 /\ r.end = rs[i].end
  <2>1. Succ64(rs[i].start) = h + 1 /\ Succ64(rs[i].start) \in Heights
    BY <1>1, Neighbours64
  <2> QED BY <2>1, <1>1 DEF NewRange, Range64
<1>3. Fits(rs, r, i, i + 1)
  <2>1. \A j \in 1 .. i - 1 : rs[j].end + 1 < r.start
    <3> TAKE j \in 1 .. i - 1
    <3>1. j \in 1 .. Len(rs)
      BY <1>1
    <3> QED BY <3>1, <1>1, <1>2, SliceType
  <2> QED BY <2>1, <1>1, <1>2 DEF Fits
<1>4. /\ ReplaceAt(rs, i, r) \in Seq(Range64) /\ Canonical(ReplaceAt(rs, i, r))
      /\ ToSet(ReplaceAt(rs, i, r)) = (ToSet(rs) \ {rs[i]}) \cup {r}
  BY <1>1, <1>2, <1>3, ReplaceOne
<1>5. Swaps(rs, ReplaceAt(rs, i, r), {rs[i]}, {r})
  BY <1>1, <1>4 DEF Swaps
<1>6. Drops({rs[i]}, {r}, h)
  BY <1>1, <1>2, MaxHeightAssumption DEF Drops, Within, Heights
<1>7. Covered(ReplaceAt(rs, i, r)) = Covered(rs) \ {h}
  BY <1>5, <1>6, CoverDrop
<1>8. rs[i] # r
  BY <1>1, <1>2
<1> QED BY <1>1, <1>4, <1>7, <1>8 DEF SliceResult

\* A range whose last height is h loses it.
LEMMA ShrinkEndSlice ==
    ASSUME NEW rs \in Seq(Range64), Canonical(rs), NEW h \in Heights,
           NEW i, FoundAt(rs, h, i), i <= Len(rs), Within(h, rs[i]),
           h # rs[i].start, h = rs[i].end,
           NEW r, r = NewRange(rs[i].start, Pred64(rs[i].end))
    PROVE  SliceResult(rs, {rs[i]}, {r}, ReplaceAt(rs, i, r), Covered(rs) \ {h})
<1>1. /\ i \in 1 .. Len(rs) /\ Len(rs) \in Nat /\ h \in Nat /\ rs[i] \in ToSet(rs)
      /\ rs[i].start \in Heights /\ rs[i].end \in Heights
      /\ rs[i].start \in Nat /\ rs[i].end \in Nat /\ rs[i].start < h
      /\ \A j \in 1 .. i - 1 : rs[j].end + 1 < rs[i].start
      /\ \A j \in i + 1 .. Len(rs) : rs[i].end + 1 < rs[j].start
  BY TrackedRange, SMTT(30)
<1>2. r \in Range64 /\ r.start = rs[i].start /\ r.end = h - 1
  <2>1. Pred64(rs[i].end) = h - 1 /\ Pred64(rs[i].end) \in Heights
    BY <1>1, Neighbours64
  <2> QED BY <2>1, <1>1 DEF NewRange, Range64
<1>3. Fits(rs, r, i, i + 1)
  <2>1. \A j \in i + 1 .. Len(rs) : r.end + 1 < rs[j].start
    <3> TAKE j \in i + 1 .. Len(rs)
    <3>1. j \in 1 .. Len(rs)
      BY <1>1
    <3> QED BY <3>1, <1>1, <1>2, SliceType
  <2> QED BY <2>1, <1>1, <1>2 DEF Fits
<1>4. /\ ReplaceAt(rs, i, r) \in Seq(Range64) /\ Canonical(ReplaceAt(rs, i, r))
      /\ ToSet(ReplaceAt(rs, i, r)) = (ToSet(rs) \ {rs[i]}) \cup {r}
  BY <1>1, <1>2, <1>3, ReplaceOne
<1>5. Swaps(rs, ReplaceAt(rs, i, r), {rs[i]}, {r})
  BY <1>1, <1>4 DEF Swaps
<1>6. Drops({rs[i]}, {r}, h)
  BY <1>1, <1>2, MaxHeightAssumption DEF Drops, Within, Heights
<1>7. Covered(ReplaceAt(rs, i, r)) = Covered(rs) \ {h}
  BY <1>5, <1>6, CoverDrop
<1>8. rs[i] # r
  BY <1>1, <1>2
<1> QED BY <1>1, <1>4, <1>7, <1>8 DEF SliceResult

\* A range with h strictly inside splits around it.
LEMMA SplitSlice ==
    ASSUME NEW rs \in Seq(Range64), Canonical(rs), NEW h \in Heights,
           NEW i, FoundAt(rs, h, i), i <= Len(rs), Within(h, rs[i]),
           h # rs[i].start, h # rs[i].end,
           NEW lo, lo = NewRange(rs[i].start, Pred64(h)),
           NEW hi, hi = NewRange(Succ64(h), rs[i].end)
    PROVE  SliceResult(rs, {rs[i]}, {lo, hi}, InsertAt(ReplaceAt(rs, i, lo), i + 1, hi),
                       Covered(rs) \ {h})
<1> DEFINE s == ReplaceAt(rs, i, lo)
           t == InsertAt(s, i + 1, hi)
<1>1. /\ i \in 1 .. Len(rs) /\ i \in Nat /\ Len(rs) \in Nat /\ h \in Nat
      /\ rs[i] \in ToSet(rs)
      /\ rs[i].start \in Heights /\ rs[i].end \in Heights
      /\ rs[i].start \in Nat /\ rs[i].end \in Nat
      /\ rs[i].start < h /\ h < rs[i].end
      /\ \A j \in 1 .. i - 1 : rs[j].end + 1 < rs[i].start
      /\ \A j \in i + 1 .. Len(rs) : rs[i].end + 1 < rs[j].start
  BY TrackedRange, SMTT(30)
<1>2. /\ lo \in Range64 /\ lo.start = rs[i].start /\ lo.end = h - 1
      /\ hi \in Range64 /\ hi.start = h + 1 /\ hi.end = rs[i].end
  <2>1. /\ Pred64(h) = h - 1 /\ Pred64(h) \in Heights
        /\ Succ64(h) = h + 1 /\ Succ64(h) \in Heights
    BY <1>1, Neighbours64
  <2> QED BY <2>1, <1>1 DEF NewRange, Range64
<1>3. Fits(rs, lo, i, i + 1)
  <2>1. \A j \in i + 1 .. Len(rs) : lo.end + 1 < rs[j].start
    <3> TAKE j \in i + 1 .. Len(rs)
    <3>1. j \in 1 .. Len(rs)
      BY <1>1
    <3> QED BY <3>1, <1>1, <1>2, SliceType
  <2> QED BY <2>1, <1>1, <1>2 DEF Fits
<1>4. /\ s \in Seq(Range64) /\ Len(s) = Len(rs) /\ s[i] = lo
      /\ \A j \in 1 .. Len(rs) : j # i => s[j] = rs[j]
      /\ Canonical(s) /\ ToSet(s) = (ToSet(rs) \ {rs[i]}) \cup {lo}
  <2>1. i \in 1 .. Len(rs) /\ lo \in Range64 /\ Fits(rs, lo, i, i + 1)
    BY <1>1, <1>2, <1>3
  <2> QED BY <2>1, ReplaceOne
<1> HIDE DEF s
<1>5. Fits(s, hi, i + 1, i + 1)
  <2>1. ASSUME NEW j \in 1 .. (i + 1) - 1 PROVE s[j].end + 1 < hi.start
    <3>1. CASE j = i
      BY <3>1, <1>1, <1>2, <1>4
    <3>2. CASE j # i
      <4>1. j \in 1 .. Len(rs) /\ j \in 1 .. i - 1 /\ s[j] = rs[j]
        BY <3>2, <1>1, <1>4
      <4> QED BY <4>1, <1>1, <1>2, SliceType
    <3> QED BY <3>1, <3>2
  <2>2. ASSUME NEW j \in i + 1 .. Len(s) PROVE hi.end + 1 < s[j].start
    <3>1. j \in 1 .. Len(rs) /\ j # i /\ s[j] = rs[j]
      BY <1>1, <1>4
    <3> QED BY <3>1, <1>1, <1>2, <1>4
  <2> QED BY <2>1, <2>2, <1>1, <1>2 DEF Fits
<1>6. /\ t \in Seq(Range64) /\ Canonical(t) /\ ToSet(t) = ToSet(s) \cup {hi}
  <2>1. i + 1 \in 1 .. Len(s) + 1
    BY <1>1, <1>4
  <2>2. s \in Seq(Range64) /\ Canonical(s) /\ hi \in Range64
    BY <1>2, <1>4
  <2> QED BY <2>1, <2>2, <1>5, InsertOne
<1> HIDE DEF t
<1>7. Swaps(rs, t, {rs[i]}, {lo, hi})
  BY <1>1, <1>4, <1>6 DEF Swaps
<1>8. Drops({rs[i]}, {lo, hi}, h)
  <2>1. ASSUME NEW x \in Heights
        PROVE  (Within(x, lo) \/ Within(x, hi)) <=> x # h /\ Within(x, rs[i])
    BY <1>1, <1>2, MaxHeightAssumption DEF Within, Heights
  <2> QED BY <2>1 DEF Drops
<1>9. Covered(t) = Covered(rs) \ {h}
  BY <1>7, <1>8, CoverDrop
<1>10. rs[i] # lo /\ rs[i] # hi
  BY <1>1, <1>2
<1> QED BY <1>1, <1>6, <1>7, <1>9, <1>10 DEF SliceResult, Swaps, t, s

-----------------------------------------------------------------------------
(* The inductive invariant and the theorems. *)

\* findRangeIndex needs a sorted slice, and an operation deletes the series of
\* a range it read from the slice: neither TypeOK nor PublishedMatchesRanges is
\* inductive without RangesCanonical.
IInv == TypeOK /\ RangesCanonical /\ PublishedMatchesRanges

\* The abstract state: the heights the slices cover.
Missing == [b \in BlobTypes |-> Covered(ranges[b])]

\* The slice of a blob type, under the invariant.
LEMMA SliceOf ==
    ASSUME IInv, NEW b \in BlobTypes
    PROVE  /\ ranges[b] \in Seq(Range64) /\ Canonical(ranges[b])
           /\ published[b] = ToSet(ranges[b])
BY DEF IInv, TypeOK, RangesCanonical, PublishedMatchesRanges

\* A deleteRange or updateRange call.
Call == [call : {"delete", "update"}, range : Range64]

\* The calls of made delete the series old, and after that set the series new.
CallsAre(made, old, new) ==
    /\ made \in Seq(Call)
    /\ \A k \in 1 .. Len(made) : \/ made[k].call = "delete" /\ made[k].range \in old
                                 \/ made[k].call = "update" /\ made[k].range \in new
    /\ \A r \in old : \E k \in 1 .. Len(made) : made[k] = Delete(r)
    /\ \A r \in new : \E k \in 1 .. Len(made) : made[k] = Update(r)
    /\ \A j, k \in 1 .. Len(made) :
          j < k /\ made[j].call = "update" => made[k].call = "update"

\* What the calls of the paths are.
LEMMA PathCalls ==
    ASSUME NEW x \in Range64, NEW y \in Range64, NEW z \in Range64
    PROVE  /\ CallsAre(<<Update(x)>>, {}, {x})
           /\ CallsAre(<<Delete(x)>>, {x}, {})
           /\ CallsAre(<<Delete(x), Update(y)>>, {x}, {y})
           /\ CallsAre(<<Delete(x), Delete(y), Update(z)>>, {x, y}, {z})
           /\ CallsAre(<<Delete(x), Update(y), Update(z)>>, {x}, {y, z})
<1>1. \A r \in Range64 : /\ Delete(r) \in Call /\ Delete(r).call = "delete" /\ Delete(r).range = r
                         /\ Update(r) \in Call /\ Update(r).call = "update" /\ Update(r).range = r
  BY DEF Delete, Update, Call
<1>2. CallsAre(<<Update(x)>>, {}, {x}) /\ CallsAre(<<Delete(x)>>, {x}, {})
  BY <1>1 DEF CallsAre
<1>3. CallsAre(<<Delete(x), Update(y)>>, {x}, {y})
  <2> DEFINE made == <<Delete(x), Update(y)>>
  <2>1. /\ made \in Seq(Call) /\ Len(made) = 2 /\ made[1] = Delete(x) /\ made[2] = Update(y)
        /\ 1 .. Len(made) = {1, 2}
    BY <1>1
  <2> HIDE DEF made
  <2>2. CallsAre(made, {x}, {y})
    BY <1>1, <2>1 DEF CallsAre
  <2> QED BY <2>2 DEF made
<1>4. CallsAre(<<Delete(x), Delete(y), Update(z)>>, {x, y}, {z})
  <2> DEFINE made == <<Delete(x), Delete(y), Update(z)>>
  <2>1. /\ made \in Seq(Call) /\ Len(made) = 3
        /\ made[1] = Delete(x) /\ made[2] = Delete(y) /\ made[3] = Update(z)
        /\ 1 .. Len(made) = {1, 2, 3}
    BY <1>1
  <2> HIDE DEF made
  <2>2. CallsAre(made, {x, y}, {z})
    BY <1>1, <2>1 DEF CallsAre
  <2> QED BY <2>2 DEF made
<1>5. CallsAre(<<Delete(x), Update(y), Update(z)>>, {x}, {y, z})
  <2> DEFINE made == <<Delete(x), Update(y), Update(z)>>
  <2>1. /\ made \in Seq(Call) /\ Len(made) = 3
        /\ made[1] = Delete(x) /\ made[2] = Update(y) /\ made[3] = Update(z)
        /\ 1 .. Len(made) = {1, 2, 3}
    BY <1>1
  <2> HIDE DEF made
  <2>2. CallsAre(made, {x}, {y, z})
    BY <1>1, <2>1 DEF CallsAre
  <2> QED BY <2>2 DEF made
<1> QED BY <1>2, <1>3, <1>4, <1>5

\* Such calls leave what they do not delete, and what they set.
LEMMA AfterCalls ==
    ASSUME NEW made, NEW old, NEW new, CallsAre(made, old, new), NEW shown
    PROVE  After(made, shown) = (shown \ old) \cup new
<1>1. /\ made \in Seq(Call) /\ DOMAIN made = 1 .. Len(made)
      /\ \A c : c \in ToSet(made) <=> \E k \in 1 .. Len(made) : made[k] = c
  BY LenProperties DEF CallsAre, ToSet
<1>2. \A r : /\ Delete(r).call = "delete" /\ Delete(r).range = r
            /\ Update(r).call = "update" /\ Update(r).range = r
  BY DEF Delete, Update
<1>3. \A r : Delete(r) \in ToSet(made) <=> r \in old
  BY <1>1, <1>2 DEF CallsAre
<1>4. ASSUME NEW r
      PROVE  (\E k \in DOMAIN made :
                 made[k] = Update(r) /\ \A j \in DOMAIN made : k < j => made[j] # Delete(r))
             <=> r \in new
  <2>1. ASSUME NEW k \in 1 .. Len(made), made[k] = Update(r) PROVE r \in new
    BY <1>2, <2>1 DEF CallsAre
  <2>2. ASSUME r \in new
        PROVE  \E k \in 1 .. Len(made) :
                  made[k] = Update(r) /\ \A j \in 1 .. Len(made) : k < j => made[j] # Delete(r)
    <3>1. PICK k \in 1 .. Len(made) : made[k] = Update(r)
      BY <2>2 DEF CallsAre
    <3>2. \A j \in 1 .. Len(made) : k < j => made[j].call = "update"
      BY <1>2, <3>1 DEF CallsAre
    <3> QED BY <1>2, <3>1, <3>2
  <2> QED BY <1>1, <2>1, <2>2
<1>5. \A r \in new : r \in {c.range : c \in ToSet(made)}
  BY <1>1, <1>2 DEF CallsAre
<1> QED BY <1>3, <1>4, <1>5 DEF After

\* The calls made delete what the slice no longer has, set what it has now, and leave
\* the series of the other blob types alone.
CallsFit(b) ==
    \E old, new : /\ CallsAre(calls', old, new) /\ old \cap new = {}
                  /\ published'[b] = (published[b] \ old) \cup new
                  /\ \A c \in BlobTypes : c # b => published'[c] = published[c]

\* What an operation on b leaves behind if cov are the heights the slice then covers.
Achieves(b, cov) == IInv' /\ Missing' = [Missing EXCEPT ![b] = cov] /\ CallsFit(b)

\* Deleting and updating the series that match the change of the slice.
LEMMA ReplacePreserves ==
    ASSUME IInv, NEW b \in BlobTypes, NEW old, NEW new, NEW rs2, NEW cov, NEW made,
           SliceResult(ranges[b], old, new, rs2, cov), CallsAre(made, old, new),
           Replace(b, made, rs2)
    PROVE  Achieves(b, cov)
<1>1. /\ rs2 \in Seq(Range64) /\ Canonical(rs2) /\ Covered(rs2) = cov
      /\ ToSet(rs2) = (ToSet(ranges[b]) \ old) \cup new /\ old \cap new = {}
  BY DEF SliceResult
<1>2. /\ ranges' = [ranges EXCEPT ![b] = rs2] /\ calls' = made
      /\ published' = [published EXCEPT ![b] = After(made, published[b])]
  BY DEF Replace
<1>3. ranges'[b] = rs2 /\ \A c \in BlobTypes : c # b => ranges'[c] = ranges[c]
  BY <1>2 DEF IInv, TypeOK
<1>4. /\ published'[b] = (published[b] \ old) \cup new
      /\ published'[b] = ToSet(rs2)
      /\ \A c \in BlobTypes : c # b => published'[c] = published[c]
  BY <1>1, <1>2, SliceOf, AfterCalls DEF IInv, TypeOK
<1>5. ToSet(rs2) \subseteq Range64
  BY <1>1, ToSetSlice, SliceType
<1>6. TypeOK'
  <2>1. calls' \in Seq(Call)
    BY <1>2 DEF CallsAre
  <2> QED BY <1>1, <1>2, <1>4, <1>5, <2>1 DEF IInv, TypeOK, Call
<1>7. RangesCanonical'
  <2>1. ASSUME NEW c \in BlobTypes PROVE Canonical(ranges'[c])
    BY <1>1, <1>3, SliceOf
  <2> QED BY <2>1 DEF RangesCanonical
<1>8. PublishedMatchesRanges'
  <2>1. ASSUME NEW c \in BlobTypes PROVE published'[c] = ToSet(ranges'[c])
    BY <1>3, <1>4, SliceOf
  <2> QED BY <2>1 DEF PublishedMatchesRanges
<1>9. Missing' = [Missing EXCEPT ![b] = cov]
  <2>1. \A c \in BlobTypes : Covered(ranges'[c]) = IF c = b THEN cov ELSE Covered(ranges[c])
    BY <1>1, <1>3
  <2>2. Missing' = [c \in BlobTypes |-> Covered(ranges'[c])]
    BY DEF Missing
  <2> QED BY <2>1, <2>2 DEF Missing
<1>10. CallsFit(b)
  BY <1>1, <1>2, <1>4 DEF CallsFit
<1> QED BY <1>6, <1>7, <1>8, <1>9, <1>10 DEF IInv, Achieves

\* Nothing is touched, and the abstract value already is what it should be.
LEMMA NoChange ==
    ASSUME IInv, NEW b \in BlobTypes, NoCalls, NEW cov, cov = Covered(ranges[b])
    PROVE  Achieves(b, cov)
<1>0. calls' = << >> /\ UNCHANGED <<ranges, published>>
  BY DEF NoCalls
<1>1. IInv'
  BY <1>0 DEF IInv, TypeOK, RangesCanonical, PublishedMatchesRanges
<1>2. Missing' = Missing
  BY <1>0 DEF Missing
<1>3. Missing = [Missing EXCEPT ![b] = cov]
  BY DEF Missing
<1>4. CallsAre(<< >>, {}, {})
  BY DEF CallsAre
<1>5. CallsFit(b)
  BY <1>0, <1>4 DEF CallsFit
<1> QED BY <1>1, <1>2, <1>3, <1>5 DEF Achieves

\* The ranges an operation deletes and sets are ranges.
LEMMA SliceRanges ==
    ASSUME NEW rs \in Seq(Range64), NEW old, NEW new, NEW rs2, NEW cov,
           SliceResult(rs, old, new, rs2, cov)
    PROVE  old \subseteq Range64 /\ new \subseteq Range64
<1>1. ToSet(rs) \subseteq Range64 /\ ToSet(rs2) \subseteq Range64
  BY ToSetSlice, SliceType DEF SliceResult
<1> QED BY <1>1 DEF SliceResult

\* RecordMissingBlock keeps the invariant and adds its height, nothing else.
LEMMA RecordMissingBlockStep ==
    ASSUME IInv, NEW b \in BlobTypes, NEW h \in Heights, RecordMissingBlock(b, h)
    PROVE  Achieves(b, Covered(ranges[b]) \cup {h})
<1> DEFINE rs == ranges[b]
           idx == FindRangeIndex(rs, h)
           tracked == idx <= Len(rs) /\ Within(h, rs[idx])
           mergeLeft == idx > 1 /\ Succ64(rs[idx - 1].end) = h
           mergeRight == idx <= Len(rs) /\ Pred64(rs[idx].start) = h
           cov == Covered(rs) \cup {h}
<1>1. rs \in Seq(Range64) /\ Canonical(rs)
  BY SliceOf
<1>2. FoundAt(rs, h, idx)
  BY <1>1, FindRangeIndexCorrect
<1>3. idx \in Int /\ (idx - 1) + 1 = idx
  BY <1>1, <1>2, SliceType DEF FoundAt
<1>4. \/ tracked /\ NoCalls
      \/ ~tracked /\ mergeLeft /\ mergeRight /\ MergeNeighbours(b, idx - 1)
      \/ ~tracked /\ mergeLeft /\ ~mergeRight /\ ExtendLeft(b, idx - 1, h)
      \/ ~tracked /\ ~mergeLeft /\ mergeRight /\ ExtendRight(b, idx, h)
      \/ ~tracked /\ ~mergeLeft /\ ~mergeRight /\ InsertRange(b, idx, h)
  BY DEF RecordMissingBlock
<1>5. CASE tracked /\ NoCalls
  <2>1. h \in Covered(rs)
    BY <1>1, <1>2, <1>5, TrackedIffCovered
  <2>2. cov = Covered(rs)
    BY <2>1
  <2> QED BY <1>5, <2>2, NoChange
<1>6. CASE ~tracked /\ mergeLeft /\ mergeRight /\ MergeNeighbours(b, idx - 1)
  <2> DEFINE i == idx - 1
             r == NewRange(rs[i].start, rs[i + 1].end)
  <2>1. SliceResult(rs, {rs[i], rs[i + 1]}, {r}, ReplaceAt(RemoveAt(rs, i + 1), i, r), cov)
    BY <1>1, <1>2, <1>6, MergeSlice
  <2>2. Replace(b, <<Delete(rs[i]), Delete(rs[i + 1]), Update(r)>>, ReplaceAt(RemoveAt(rs, i + 1), i, r))
    BY <1>6 DEF MergeNeighbours
  <2>3. CallsAre(<<Delete(rs[i]), Delete(rs[i + 1]), Update(r)>>, {rs[i], rs[i + 1]}, {r})
    BY <1>1, <2>1, SliceRanges, PathCalls
  <2> HIDE DEF cov
  <2>4. Achieves(b, cov)
    BY <2>1, <2>2, <2>3, ReplacePreserves
  <2> QED BY <2>4 DEF cov
<1>7. CASE ~tracked /\ mergeLeft /\ ~mergeRight /\ ExtendLeft(b, idx - 1, h)
  <2> DEFINE i == idx - 1
             r == NewRange(rs[i].start, h)
  <2>1. SliceResult(rs, {rs[i]}, {r}, ReplaceAt(rs, i, r), cov)
    BY <1>1, <1>2, <1>7, ExtendLeftSlice
  <2>2. Replace(b, <<Delete(rs[i]), Update(r)>>, ReplaceAt(rs, i, r))
    BY <1>7 DEF ExtendLeft
  <2>3. CallsAre(<<Delete(rs[i]), Update(r)>>, {rs[i]}, {r})
    BY <1>1, <2>1, SliceRanges, PathCalls
  <2> HIDE DEF cov
  <2>4. Achieves(b, cov)
    BY <2>1, <2>2, <2>3, ReplacePreserves
  <2> QED BY <2>4 DEF cov
<1>8. CASE ~tracked /\ ~mergeLeft /\ mergeRight /\ ExtendRight(b, idx, h)
  <2> DEFINE r == NewRange(h, rs[idx].end)
  <2>1. SliceResult(rs, {rs[idx]}, {r}, ReplaceAt(rs, idx, r), cov)
    BY <1>1, <1>2, <1>8, ExtendRightSlice
  <2>2. Replace(b, <<Delete(rs[idx]), Update(r)>>, ReplaceAt(rs, idx, r))
    BY <1>8 DEF ExtendRight
  <2>3. CallsAre(<<Delete(rs[idx]), Update(r)>>, {rs[idx]}, {r})
    BY <1>1, <2>1, SliceRanges, PathCalls
  <2> HIDE DEF cov
  <2>4. Achieves(b, cov)
    BY <2>1, <2>2, <2>3, ReplacePreserves
  <2> QED BY <2>4 DEF cov
<1>9. CASE ~tracked /\ ~mergeLeft /\ ~mergeRight /\ InsertRange(b, idx, h)
  <2> DEFINE r == NewRange(h, h)
  <2>1. SliceResult(rs, {}, {r}, InsertAt(rs, idx, r), cov)
    BY <1>1, <1>2, <1>9, InsertSlice
  <2>2. Replace(b, <<Update(r)>>, InsertAt(rs, idx, r))
    BY <1>9 DEF InsertRange
  <2>3. CallsAre(<<Update(r)>>, {}, {r})
    BY <1>1, <2>1, SliceRanges, PathCalls
  <2> HIDE DEF cov
  <2>4. Achieves(b, cov)
    BY <2>1, <2>2, <2>3, ReplacePreserves
  <2> QED BY <2>4 DEF cov
<1> QED BY <1>4, <1>5, <1>6, <1>7, <1>8, <1>9

\* RemoveVerifiedBlock keeps the invariant and takes its height away, nothing else.
LEMMA RemoveVerifiedBlockStep ==
    ASSUME IInv, NEW b \in BlobTypes, NEW h \in Heights, RemoveVerifiedBlock(b, h)
    PROVE  Achieves(b, Covered(ranges[b]) \ {h})
<1> DEFINE rs == ranges[b]
           idx == FindRangeIndex(rs, h)
           tracked == idx <= Len(rs) /\ Within(h, rs[idx])
           first == h = rs[idx].start
           last == h = rs[idx].end
           cov == Covered(rs) \ {h}
<1>1. rs \in Seq(Range64) /\ Canonical(rs)
  BY SliceOf
<1>2. FoundAt(rs, h, idx)
  BY <1>1, FindRangeIndexCorrect
<1>3. \/ ~tracked /\ NoCalls
      \/ tracked /\ first /\ last /\ DeleteRange(b, idx)
      \/ tracked /\ first /\ ~last /\ ShrinkStart(b, idx)
      \/ tracked /\ ~first /\ last /\ ShrinkEnd(b, idx)
      \/ tracked /\ ~first /\ ~last /\ SplitRange(b, idx, h)
  BY DEF RemoveVerifiedBlock
<1>4. CASE ~tracked /\ NoCalls
  <2>1. h \notin Covered(rs)
    BY <1>1, <1>2, <1>4, TrackedIffCovered
  <2>2. cov = Covered(rs)
    BY <2>1
  <2> QED BY <1>4, <2>2, NoChange
<1>5. CASE tracked /\ first /\ last /\ DeleteRange(b, idx)
  <2>1. SliceResult(rs, {rs[idx]}, {}, RemoveAt(rs, idx), cov)
    BY <1>1, <1>2, <1>5, DeleteSlice
  <2>2. Replace(b, <<Delete(rs[idx])>>, RemoveAt(rs, idx))
    BY <1>5 DEF DeleteRange
  <2>3. CallsAre(<<Delete(rs[idx])>>, {rs[idx]}, {})
    BY <1>1, <2>1, SliceRanges, PathCalls
  <2> HIDE DEF cov
  <2>4. Achieves(b, cov)
    BY <2>1, <2>2, <2>3, ReplacePreserves
  <2> QED BY <2>4 DEF cov
<1>6. CASE tracked /\ first /\ ~last /\ ShrinkStart(b, idx)
  <2> DEFINE r == NewRange(Succ64(rs[idx].start), rs[idx].end)
  <2>1. SliceResult(rs, {rs[idx]}, {r}, ReplaceAt(rs, idx, r), cov)
    BY <1>1, <1>2, <1>6, ShrinkStartSlice
  <2>2. Replace(b, <<Delete(rs[idx]), Update(r)>>, ReplaceAt(rs, idx, r))
    BY <1>6 DEF ShrinkStart
  <2>3. CallsAre(<<Delete(rs[idx]), Update(r)>>, {rs[idx]}, {r})
    BY <1>1, <2>1, SliceRanges, PathCalls
  <2> HIDE DEF cov
  <2>4. Achieves(b, cov)
    BY <2>1, <2>2, <2>3, ReplacePreserves
  <2> QED BY <2>4 DEF cov
<1>7. CASE tracked /\ ~first /\ last /\ ShrinkEnd(b, idx)
  <2> DEFINE r == NewRange(rs[idx].start, Pred64(rs[idx].end))
  <2>1. SliceResult(rs, {rs[idx]}, {r}, ReplaceAt(rs, idx, r), cov)
    BY <1>1, <1>2, <1>7, ShrinkEndSlice
  <2>2. Replace(b, <<Delete(rs[idx]), Update(r)>>, ReplaceAt(rs, idx, r))
    BY <1>7 DEF ShrinkEnd
  <2>3. CallsAre(<<Delete(rs[idx]), Update(r)>>, {rs[idx]}, {r})
    BY <1>1, <2>1, SliceRanges, PathCalls
  <2> HIDE DEF cov
  <2>4. Achieves(b, cov)
    BY <2>1, <2>2, <2>3, ReplacePreserves
  <2> QED BY <2>4 DEF cov
<1>8. CASE tracked /\ ~first /\ ~last /\ SplitRange(b, idx, h)
  <2> DEFINE lo == NewRange(rs[idx].start, Pred64(h))
             hi == NewRange(Succ64(h), rs[idx].end)
  <2>1. SliceResult(rs, {rs[idx]}, {lo, hi}, InsertAt(ReplaceAt(rs, idx, lo), idx + 1, hi), cov)
    BY <1>1, <1>2, <1>8, SplitSlice
  <2>2. Replace(b, <<Delete(rs[idx]), Update(lo), Update(hi)>>, InsertAt(ReplaceAt(rs, idx, lo), idx + 1, hi))
    BY <1>8 DEF SplitRange
  <2>3. CallsAre(<<Delete(rs[idx]), Update(lo), Update(hi)>>, {rs[idx]}, {lo, hi})
    BY <1>1, <2>1, SliceRanges, PathCalls
  <2> HIDE DEF cov
  <2>4. Achieves(b, cov)
    BY <2>1, <2>2, <2>3, ReplacePreserves
  <2> QED BY <2>4 DEF cov
<1> QED BY <1>3, <1>4, <1>5, <1>6, <1>7, <1>8

\* The empty slice.
LEMMA EmptySlice ==
    /\ << >> \in Seq(Range64) /\ Canonical(<< >>)
    /\ ToSet(<< >>) = {} /\ Covered(<< >>) = {}
<1>1. << >> \in Seq(Range64)
  BY EmptySeq
<1>2. DOMAIN << >> = {}
  OBVIOUS
<1>3. Canonical(<< >>)
  BY <1>2 DEF Canonical
<1>4. ToSet(<< >>) = {}
  BY <1>2 DEF ToSet
<1>5. Covered(<< >>) = {}
  BY <1>4 DEF Covered
<1> QED BY <1>1, <1>3, <1>4, <1>5

\* The invariant holds initially.
LEMMA InitIInv == Init => IInv
<1> SUFFICES ASSUME Init PROVE IInv
  OBVIOUS
<1>1. \A b \in BlobTypes : ranges[b] = << >> /\ published[b] = {}
  BY DEF Init
<1>2. TypeOK
  <2>1. calls \in Seq(Call)
    BY DEF Init
  <2> QED BY <2>1, EmptySlice DEF Init, TypeOK, Call
<1> QED BY <1>1, <1>2, EmptySlice DEF IInv, RangesCanonical, PublishedMatchesRanges

\* Every step keeps it, the stuttering ones included.
LEMMA NextIInv == IInv /\ [Next]_vars => IInv'
<1> SUFFICES ASSUME IInv, [Next]_vars PROVE IInv'
  OBVIOUS
<1>1. ASSUME NEW b \in BlobTypes, NEW h \in Heights, RecordMissingBlock(b, h)
      PROVE  IInv'
  BY <1>1, RecordMissingBlockStep DEF Achieves
<1>2. ASSUME NEW b \in BlobTypes, NEW h \in Heights, RemoveVerifiedBlock(b, h)
      PROVE  IInv'
  BY <1>2, RemoveVerifiedBlockStep DEF Achieves
<1>3. CASE UNCHANGED vars
  BY <1>3 DEF vars, IInv, TypeOK, RangesCanonical, PublishedMatchesRanges
<1> QED BY <1>1, <1>2, <1>3 DEF Next

\* The inductive invariant, from which the theorems below are read off.
LEMMA Invariance == Spec => []IInv
<1> QED BY InitIInv, NextIInv, PTL DEF Spec

\* RecordMissingBlock and RemoveVerifiedBlock keep slices of pairs of uint64
\* heights and publish only such pairs: no bound wraps out of its range.
THEOREM TypeCorrect == Spec => []TypeOK
<1>1. IInv => TypeOK
  BY DEF IInv
<1> QED BY <1>1, Invariance, PTL

\* For every MaxHeight, the slices stay sorted, disjoint and merged, whatever
\* the order of records and removals.
THEOREM CanonicalAlways == Spec => []RangesCanonical
<1>1. IInv => RangesCanonical
  BY DEF IInv
<1> QED BY <1>1, Invariance, PTL

\* For every MaxHeight, no series of a former range survives an update and none
\* of a current range is absent.
THEOREM PublishedAlways == Spec => []PublishedMatchesRanges
<1>1. IInv => PublishedMatchesRanges
  BY DEF IInv
<1> QED BY <1>1, Invariance, PTL

\* The ranges implement the set of missing heights: every record adds exactly its
\* height, every removal takes exactly its height away.
THEOREM RangesImplementSet == Spec => ImplementsMissingSet
<1>1. Init => Set!Init
  <2> SUFFICES ASSUME Init PROVE Missing = [b \in BlobTypes |-> {}]
    BY DEF Set!Init, Missing
  <2> QED BY EmptySlice DEF Init, Missing
<1>2. IInv /\ [Next]_vars => [Set!Next]_Missing
  <2> SUFFICES ASSUME IInv, [Next]_vars PROVE Set!Next \/ Missing' = Missing
    OBVIOUS
  <2>1. ASSUME NEW b \in BlobTypes, NEW h \in Heights, RecordMissingBlock(b, h)
        PROVE  Set!Next
    <3>1. Missing' = [Missing EXCEPT ![b] = Covered(ranges[b]) \cup {h}]
      BY <2>1, RecordMissingBlockStep DEF Achieves
    <3>2. Missing' = [Missing EXCEPT ![b] = Missing[b] \cup {h}]
      BY <3>1 DEF Missing
    <3>3. Set!RecordMissingBlock(b, h)
      BY <3>2 DEF Set!RecordMissingBlock, Missing
    <3> QED BY <3>3 DEF Set!Next, Heights
  <2>2. ASSUME NEW b \in BlobTypes, NEW h \in Heights, RemoveVerifiedBlock(b, h)
        PROVE  Set!Next
    <3>1. Missing' = [Missing EXCEPT ![b] = Covered(ranges[b]) \ {h}]
      BY <2>2, RemoveVerifiedBlockStep DEF Achieves
    <3>2. Missing' = [Missing EXCEPT ![b] = Missing[b] \ {h}]
      BY <3>1 DEF Missing
    <3>3. Set!RemoveVerifiedBlock(b, h)
      BY <3>2 DEF Set!RemoveVerifiedBlock, Missing
    <3> QED BY <3>3 DEF Set!Next, Heights
  <2>3. CASE UNCHANGED vars
    BY <2>3 DEF vars, Missing
  <2> QED BY <2>1, <2>2, <2>3 DEF Next
<1> QED BY <1>1, <1>2, Invariance, PTL DEF Spec, ImplementsMissingSet, Set!Spec, Missing
-----------------------------------------------------------------------------
(* The exported total.  RecordTotalMissingBlocks adds lengths in a loop, a  *)
(* fold: that a function with the fold's equation exists is shown by the    *)
(* cardinalities themselves, that there is no other by a least set on which *)
(* the two differ.                                                          *)

Length(r) == r.end - r.start + 1

\* The heights of the ranges at the positions of p.
CoveredAt(rs, p) == UNION {rs[i].start .. rs[i].end : i \in p}

\* Taking one range away takes its length off the number of heights.
LEMMA OneRangeLess ==
    ASSUME NEW rs \in Seq(Range64), Canonical(rs), NEW p \in SUBSET (1 .. Len(rs)), NEW i \in p
    PROVE  Cardinality(CoveredAt(rs, p)) = Length(rs[i]) + Cardinality(CoveredAt(rs, p \ {i}))
<1> DEFINE r == rs[i].start .. rs[i].end
           rest == CoveredAt(rs, p \ {i})
<1>1. \A k \in p : rs[k].start \in Nat /\ rs[k].end \in Nat /\ rs[k].start <= rs[k].end /\ rs[k].end <= MaxHeight
  BY SliceType DEF Canonical
<1>2. Cardinality(r) = Length(rs[i]) /\ IsFiniteSet(r)
  <2>1. rs[i].start \in Int /\ rs[i].end \in Int /\ rs[i].start <= rs[i].end
    BY <1>1
  <2>2. \A lo, hi \in Int : lo <= hi => Cardinality(lo .. hi) = hi - lo + 1 /\ IsFiniteSet(lo .. hi)
    BY FS_Interval
  <2> QED BY <2>1, <2>2 DEF Length
<1>3. rest \subseteq 0 .. MaxHeight
  <2> SUFFICES ASSUME NEW k \in p, NEW h \in rs[k].start .. rs[k].end PROVE h \in 0 .. MaxHeight
    BY DEF CoveredAt
  <2> QED BY <1>1, MaxHeightAssumption
<1>4. IsFiniteSet(rest) /\ Cardinality(rest) \in Nat
  <2>1. IsFiniteSet(0 .. MaxHeight)
    BY FS_Interval, MaxHeightAssumption
  <2> HIDE DEF rest
  <2> QED BY <1>3, <2>1, FS_Subset, FS_CardinalityType
<1>5. CoveredAt(rs, p) = r \cup rest
  BY DEF CoveredAt
<1>6. r \cap rest = {}
  <2> SUFFICES ASSUME NEW k \in p \ {i}, NEW h \in r, h \in rs[k].start .. rs[k].end PROVE FALSE
    BY DEF CoveredAt
  <2>1. k < i \/ i < k
    OBVIOUS
  <2>2. rs[k].end + 1 < rs[i].start \/ rs[i].end + 1 < rs[k].start
    BY <2>1 DEF Canonical
  <2> QED BY <1>1, <2>2
<1> HIDE DEF r, rest
<1>7. Cardinality(r \cup rest) = Cardinality(r) + Cardinality(rest) - Cardinality({})
  BY <1>2, <1>4, <1>6, FS_Union
<1>8. Length(rs[i]) \in Nat
  BY <1>2, FS_CardinalityType
<1> QED BY <1>2, <1>4, <1>5, <1>7, <1>8, FS_EmptySet DEF rest

\* The loop adds up to the number of heights covered.
LEMMA LoopCountsHeights ==
    ASSUME NEW rs \in Seq(Range64), Canonical(rs)
    PROVE  TotalMissing(rs) = Cardinality(Covered(rs)) % (MaxHeight + 1)
<1> DEFINE D == DOMAIN rs
           Some(p) == CHOOSE i \in p : TRUE
           Loop(g) == [p \in SUBSET D |->
                          IF p = {} THEN 0
                          ELSE (rs[Some(p)].end - rs[Some(p)].start + 1) + g[p \ {Some(p)}]]
           count == [p \in SUBSET D |-> Cardinality(CoveredAt(rs, p))]
           sum == CHOOSE g : g = Loop(g)
<1>1. D = 1 .. Len(rs) /\ IsFiniteSet(D)
  BY FS_Interval
<1>2. \A p \in SUBSET D : p # {} => Some(p) \in p
  OBVIOUS
<1>3. TotalMissing(rs) = sum[D] % (MaxHeight + 1)
  <2>1. MapThenSumSet(LAMBDA i : rs[i].end - rs[i].start + 1, DOMAIN rs) = sum[D]
    BY Zenon DEF MapThenSumSet, MapThenFoldSet
  <2> QED BY <2>1 DEF TotalMissing
<1>4. ASSUME NEW p \in SUBSET D, p # {} PROVE count[p] = Length(rs[Some(p)]) + count[p \ {Some(p)}]
  <2>1. p \in SUBSET (1 .. Len(rs)) /\ Some(p) \in p /\ p \ {Some(p)} \in SUBSET D
    BY <1>1, <1>2, <1>4
  <2> HIDE DEF Some
  <2>2. Cardinality(CoveredAt(rs, p)) = Length(rs[Some(p)]) + Cardinality(CoveredAt(rs, p \ {Some(p)}))
    BY <2>1, OneRangeLess
  <2> QED BY <2>1, <2>2
<1>5. count[{}] = 0
  BY FS_EmptySet DEF CoveredAt
<1>6. count = Loop(count)
  <2> HIDE DEF Some
  <2>1. \A p \in SUBSET D : count[p] = Loop(count)[p]
    BY <1>4, <1>5 DEF Length
  <2> QED BY <2>1
<1>7. ASSUME NEW g, g = Loop(g) PROVE g[D] = count[D]
  <2> DEFINE differ == {p \in SUBSET D : g[p] # count[p]}
             sizes == {Cardinality(p) : p \in differ}
  <2>1. \A p \in SUBSET D : IsFiniteSet(p) /\ Cardinality(p) \in Nat
    BY <1>1, FS_Subset, FS_CardinalityType
  <2>2. SUFFICES ASSUME differ # {} PROVE FALSE
    OBVIOUS
  <2>3. PICK n \in sizes : \A m \in sizes : n <= m
    <3>1. sizes \subseteq Nat /\ sizes # {}
      BY <2>1, <2>2
    <3> HIDE DEF sizes
    <3> QED BY <3>1, LeastElement
  <2>4. PICK p \in differ : n = Cardinality(p)
    BY <2>3
  <2>5. g[p] = IF p = {} THEN 0 ELSE Length(rs[Some(p)]) + g[p \ {Some(p)}]
    BY <1>7 DEF Length
  <2>6. p # {}
    BY <1>5, <2>4, <2>5
  <2>7. p \ {Some(p)} \in SUBSET D /\ Cardinality(p \ {Some(p)}) = Cardinality(p) - 1 /\ Cardinality(p) \in Nat
    BY <1>2, <2>1, <2>4, <2>6, FS_RemoveElement
  <2>8. p \ {Some(p)} \notin differ
    <3>1. Cardinality(p \ {Some(p)}) \notin sizes
      <4> HIDE DEF sizes, Some
      <4> QED BY <2>3, <2>4, <2>7
    <3> QED BY <3>1
  <2> HIDE DEF count, Some
  <2> QED BY <1>4, <2>4, <2>5, <2>6, <2>8
<1>8. sum = Loop(sum)
  <2> HIDE DEF Loop, count
  <2> QED BY <1>6
<1>9. count[D] = Cardinality(Covered(rs))
  <2>1. Covered(rs) = CoveredAt(rs, D)
    <3>1. \A i \in D : rs[i].start \in Nat /\ rs[i].end \in Nat /\ rs[i].end <= MaxHeight
      BY <1>1, SliceType
    <3>2. \A h : h \in Covered(rs) <=> h \in Heights /\ \E i \in D : rs[i].start <= h /\ h <= rs[i].end
      BY DEF Covered, ToSet, Within
    <3>3. \A h : h \in CoveredAt(rs, D) <=> \E i \in D : h \in rs[i].start .. rs[i].end
      BY DEF CoveredAt
    <3> HIDE DEF D
    <3>4. ASSUME NEW i \in D, NEW h
          PROVE  h \in rs[i].start .. rs[i].end
                    <=> h \in Heights /\ rs[i].start <= h /\ h <= rs[i].end
      BY <3>1, MaxHeightAssumption DEF Heights
    <3>5. \A h : h \in Covered(rs) <=> h \in CoveredAt(rs, D)
      BY <3>2, <3>3, <3>4
    <3> QED BY <3>5
  <2> QED BY <2>1
<1> HIDE DEF sum, count, Loop
<1> QED BY <1>3, <1>7, <1>8, <1>9

\* The gauge is what the loop returned after the last operation.
TotalIsSummed == total = [b \in BlobTypes |-> TotalMissing(ranges[b])]

\* An operation on one blob type leaves the slices of the others alone.
LEMMA OneSlice ==
    ASSUME TypeOK, NEW b \in BlobTypes, NEW h \in Heights,
           RecordMissingBlock(b, h) \/ RemoveVerifiedBlock(b, h)
    PROVE  (\A c \in BlobTypes \ {b} : ranges'[c] = ranges[c])
           /\ total' = [total EXCEPT ![b] = TotalMissing(ranges'[b])]
<1>1. DOMAIN ranges = BlobTypes
  BY DEF TypeOK
<1>2. ASSUME NEW made, NEW rs, Replace(b, made, rs)
      PROVE  \A c \in BlobTypes \ {b} : ranges'[c] = ranges[c]
  BY <1>1, <1>2 DEF Replace
<1>3. CASE RecordMissingBlock(b, h)
  BY <1>2, <1>3 DEF RecordMissingBlock, MergeNeighbours, ExtendLeft, ExtendRight, InsertRange, NoCalls
<1>4. CASE RemoveVerifiedBlock(b, h)
  BY <1>2, <1>4 DEF RemoveVerifiedBlock, DeleteRange, ShrinkStart, ShrinkEnd, SplitRange, NoCalls
<1> QED BY <1>3, <1>4

\* Every step keeps the running total the sum of the lengths.
LEMMA SummedKept == TypeOK /\ TotalIsSummed /\ [Next]_vars => TotalIsSummed'
<1> SUFFICES ASSUME TypeOK, TotalIsSummed, [Next]_vars PROVE TotalIsSummed'
  OBVIOUS
<1>1. CASE UNCHANGED vars
  BY <1>1 DEF vars, TotalIsSummed
<1>2. ASSUME NEW b \in BlobTypes, NEW h \in Heights, RecordMissingBlock(b, h) \/ RemoveVerifiedBlock(b, h)
      PROVE  TotalIsSummed'
  BY <1>2, OneSlice DEF TotalIsSummed
<1> QED BY <1>1, <1>2 DEF Next

\* For every MaxHeight, the exported total counts each missing height exactly once, in
\* uint64: ranges never overlap, and no operation forgets the deferred update.
THEOREM TotalAlwaysMatches == Spec => []TotalMatchesRanges
<1>1. Init => TotalIsSummed
  <2>1. TotalMissing(<< >>) = 0 % (MaxHeight + 1)
    BY LoopCountsHeights, EmptySlice, FS_EmptySet
  <2>2. 0 % (MaxHeight + 1) = 0
    BY MaxHeightAssumption
  <2> QED BY <2>1, <2>2 DEF Init, TotalIsSummed
<1>2. IInv /\ TotalIsSummed => TotalMatchesRanges
  BY LoopCountsHeights DEF IInv, TypeOK, RangesCanonical, TotalIsSummed, TotalMatchesRanges
<1>3. IInv => TypeOK
  BY DEF IInv
<1> QED BY <1>1, <1>2, <1>3, SummedKept, Invariance, PTL DEF Spec

-----------------------------------------------------------------------------
(* A scrape between the gauge writes: what an operation that holds Metrics.mu *)
(* has yet to do.                                                             *)

\* The vectors that hold series per range.
Kinds == {"start", "end"}

\* A series it is going to delete, and one it is going to set.
ToDelete(v, b, r) ==
    \E k \in 1 .. Len(todo) : todo[k][1] = v /\ todo[k][2] = b /\ r \in todo[k][3]

ToSetYet(v, b, r) ==
    \E k \in 1 .. Len(todo) : todo[k][1] = v /\ todo[k][2] = b /\ r \in todo[k][4]

TotalToSet(b) == \E k \in 1 .. Len(todo) : todo[k][1] = "total" /\ todo[k][2] = b

\* Each write is for a vector and a blob type; the value for the total is the new one.
WritesTyped ==
    \A k \in 1 .. Len(todo) :
        /\ todo[k][1] \in Vectors /\ todo[k][2] \in BlobTypes
        /\ todo[k][1] \in Kinds => todo[k][3] \subseteq Range64 /\ todo[k][4] \subseteq Range64
        /\ todo[k][1] = "total" => todo[k][3] = total[todo[k][2]]

\* What is to be deleted is not to stay; what is to be set is.
WritesAreChange ==
    \A v \in Kinds, b \in BlobTypes, r \in Range64 :
        /\ ToDelete(v, b, r) => r \notin published[b]
        /\ ToSetYet(v, b, r) => r \in published[b]

\* deleteRange comes before updateRange.
DeletesFirst ==
    \A j, k \in 1 .. Len(todo) :
        j < k /\ todo[j][1] \in Kinds /\ todo[k][1] \in Kinds /\ todo[j][4] # {} => todo[k][3] = {}

\* The gauges are what they are going to be, except for the writes to come.
ExceptForTodo ==
    \A b \in BlobTypes :
        /\ \A v \in Kinds, r \in Range64 :
              /\ r \in gauges[v][b] => r \in published[b] \/ ToDelete(v, b, r)
              /\ r \in published[b] => r \in gauges[v][b] \/ ToSetYet(v, b, r)
              /\ ToDelete(v, b, r) => gauges[v][b] \subseteq before.published[b]
              /\ r \in gauges[v][b] => r \in before.published[b] \/ r \in published[b]
              /\ r \in before.published[b] /\ r \in published[b] => r \in gauges[v][b]
        /\ gauges["total"][b] = total[b] \/ TotalToSet(b)
        /\ gauges["total"][b] \in {before.total[b], total[b]}

GaugeTypes ==
    /\ \E S : todo \in Seq(S)
    /\ gauges = [v \in Vectors |-> gauges[v]]
    /\ \A v \in Vectors : gauges[v] = [b \in BlobTypes |-> gauges[v][b]]
    /\ \A v \in Kinds, b \in BlobTypes : gauges[v][b] \subseteq Range64
    /\ total = [b \in BlobTypes |-> total[b]]

\* No two ranges of a set overlap or touch.
Apart(rs) == \A r, s \in rs : r # s => r.end + 1 < s.start \/ s.end + 1 < r.start

BeforeApart ==
    /\ \A b \in BlobTypes : Apart(before.published[b]) /\ before.published[b] \subseteq Range64
    /\ todo = << >> => before = Moment

WriterInv ==
    /\ IInv /\ GaugeTypes /\ WritesTyped /\ WritesAreChange /\ DeletesFirst
    /\ ExceptForTodo /\ BeforeApart

(* What a scrape has collected. *)

\* A collected vector shows nothing but what was so at some moment, and all that was so
\* at every moment.
OfItsTime(v) ==
    \A b \in BlobTypes :
        IF v = "total" THEN \E m \in seen : scrape[v][b] = m.total[b]
        ELSE \A r \in Range64 :
                /\ r \in scrape[v][b] => \E m \in seen : r \in m.published[b]
                /\ (\A m \in seen : r \in m.published[b]) => r \in scrape[v][b]

ScrapeInv ==
    /\ DOMAIN scrape \subseteq Vectors
    /\ scraping => before \in seen /\ Moment \in seen
    /\ ~scraping => DOMAIN scrape = {}
    /\ \A v \in DOMAIN scrape : OfItsTime(v)
    /\ \A v \in Kinds \cap DOMAIN scrape, b \in BlobTypes : scrape[v][b] \subseteq Range64
    /\ NoDoubleCount

-----------------------------------------------------------------------------
(* The writes of an operation. *)

\* The total is only touched for b.
LEMMA TotalChange ==
    ASSUME NEW b \in BlobTypes, NEW h \in Heights, total = [c \in BlobTypes |-> total[c]],
           RecordMissingBlock(b, h) \/ RemoveVerifiedBlock(b, h)
    PROVE  /\ total' = [c \in BlobTypes |-> total'[c]]
           /\ \A c \in BlobTypes : c # b => total'[c] = total[c]
<1>1. total' = [total EXCEPT ![b] = TotalMissing(ranges'[b])]
  BY DEF RecordMissingBlock, RemoveVerifiedBlock
<1> QED BY <1>1

\* The published ranges lie apart.
LEMMA PublishedApart ==
    ASSUME IInv, NEW b \in BlobTypes
    PROVE  published[b] \subseteq Range64 /\ Apart(published[b])
<1> DEFINE rs == ranges[b]
<1>1. rs \in Seq(Range64) /\ Canonical(rs) /\ published[b] = {rs[i] : i \in 1 .. Len(rs)}
  BY SliceOf, ToSetSlice
<1> HIDE DEF rs
<1>2. /\ \A i \in 1 .. Len(rs) : rs[i] \in Range64
      /\ \A i, j \in 1 .. Len(rs) : i < j => rs[i].end + 1 < rs[j].start
  BY <1>1, SliceType, CanonicalSlice
<1>3. ASSUME NEW i \in 1 .. Len(rs), NEW j \in 1 .. Len(rs), rs[i] # rs[j]
      PROVE  rs[i].end + 1 < rs[j].start \/ rs[j].end + 1 < rs[i].start
  <2>1. i < j \/ j < i
    BY <1>3
  <2> QED BY <2>1, <1>2
<1>4. published[b] \subseteq Range64
  BY <1>1, <1>2
<1>5. Apart(published[b])
  BY <1>1, <1>3 DEF Apart
<1> QED BY <1>4, <1>5

\* And so they do after a step.
LEMMA PublishedApartNext ==
    IInv' => \A b \in BlobTypes : published'[b] \subseteq Range64 /\ Apart(published'[b])
<1>1. IInv => \A b \in BlobTypes : published[b] \subseteq Range64 /\ Apart(published[b])
  BY PublishedApart
<1>2. (IInv => \A b \in BlobTypes : published[b] \subseteq Range64 /\ Apart(published[b]))'
  BY <1>1, PTL
<1> QED BY <1>2

\* The k-th of two writes per call belongs to a call, and is its first or its second.
LEMMA WriteOf ==
    ASSUME NEW n \in Nat
    PROVE  /\ 2 * n \in Nat
           /\ \A k \in 1 .. 2 * n : (k + 1) \div 2 \in 1 .. n
           /\ \A j, k \in 1 .. 2 * n : j < k => (j + 1) \div 2 <= (k + 1) \div 2
           /\ \A i \in 1 .. n : /\ 2 * i - 1 \in 1 .. 2 * n /\ 2 * i \in 1 .. 2 * n
                                /\ ((2 * i - 1) + 1) \div 2 = i /\ (2 * i - 1) % 2 = 1
                                /\ (2 * i + 1) \div 2 = i /\ (2 * i) % 2 # 1
<1>1. 2 * n \in Nat
  OBVIOUS
<1>2. ASSUME NEW k \in 1 .. 2 * n PROVE (k + 1) \div 2 \in 1 .. n
  OBVIOUS
<1>3. ASSUME NEW j \in 1 .. 2 * n, NEW k \in 1 .. 2 * n, j < k
      PROVE  (j + 1) \div 2 <= (k + 1) \div 2
  BY <1>3
<1>4. ASSUME NEW i \in 1 .. n
      PROVE  /\ 2 * i - 1 \in 1 .. 2 * n /\ 2 * i \in 1 .. 2 * n
             /\ ((2 * i - 1) + 1) \div 2 = i /\ (2 * i - 1) % 2 = 1
             /\ (2 * i + 1) \div 2 = i /\ (2 * i) % 2 # 1
  OBVIOUS
<1> QED BY <1>1, <1>2, <1>3, <1>4

\* A function on 1 .. n is a sequence of its values.
LEMMA FunctionIsSeq ==
    ASSUME NEW n \in Nat, NEW f, f = [k \in 1 .. n |-> f[k]]
    PROVE  Len(f) = n /\ f \in Seq({f[k] : k \in 1 .. n})
<1>1. f \in [1 .. n -> {f[k] : k \in 1 .. n}]
  OBVIOUS
<1>2. f \in Seq({f[k] : k \in 1 .. n}) /\ DOMAIN f = 1 .. n
  BY <1>1, SeqDef
<1>3. Len(f) = n
  BY <1>2, LenProperties
<1> QED BY <1>2, <1>3

\* A sequence over a set is one over every larger set.
LEMMA SeqMonotone ==
    ASSUME NEW A, NEW W, A \subseteq W, NEW s \in Seq(A)
    PROVE  s \in Seq(W)
<1>1. Len(s) \in Nat /\ s \in [1 .. Len(s) -> A]
  BY LenProperties
<1>2. s \in [1 .. Len(s) -> W]
  BY <1>1
<1> QED BY <1>1, <1>2, SeqDef

\* t are the writes of the calls of made, both vectors for each call, then the total.
WritesAre(t, made, b, x) ==
    /\ \E S : t \in Seq(S)
    /\ Len(t) = 2 * Len(made) + 1 /\ t[Len(t)] = <<"total", b, x>>
    /\ \A k \in 1 .. 2 * Len(made) :
          \E v \in Kinds : t[k] = CallWrite(v, b, made[(k + 1) \div 2])
    /\ \A i \in 1 .. Len(made), v \in Kinds :
          \E k \in 1 .. 2 * Len(made) : t[k] = CallWrite(v, b, made[i])

\* The writes an operation begins with.
LEMMA OperationWrites ==
    ASSUME NEW b, calls' \in Seq(Call), todo' = RangeWrites(b) \o TotalWrites(b)
    PROVE  WritesAre(todo', calls', b, total'[b])
<1> DEFINE n == Len(calls')
           f == RangeWrites(b)
           e == <<"total", b, total'[b]>>
           last == <<e>>
           A == {f[k] : k \in 1 .. 2 * n}
           W == A \cup {e}
<1>1. n \in Nat /\ 2 * n \in Nat
  BY LenProperties
<1>2. /\ f = [k \in 1 .. 2 * n |-> f[k]]
      /\ \A k \in 1 .. 2 * n :
            f[k] = CallWrite(IF k % 2 = 1 THEN "start" ELSE "end", b, calls'[(k + 1) \div 2])
  BY DEF RangeWrites
<1> HIDE DEF f
<1>3. Len(f) = 2 * n /\ f \in Seq(A)
  BY <1>1, <1>2, FunctionIsSeq
<1>4. f \in Seq(W) /\ last \in Seq(W) /\ Len(last) = 1 /\ last[1] = e
  <2>1. A \subseteq W /\ e \in W
    OBVIOUS
  <2> HIDE DEF A, W, e
  <2> QED BY <1>3, <2>1, SeqMonotone
<1>5. todo' = f \o last
  BY DEF TotalWrites, f
<1> HIDE DEF A, W, e, last, n
<1>6. /\ todo' \in Seq(W) /\ Len(todo') = 2 * n + 1
      /\ \A k \in 1 .. 2 * n + 1 : todo'[k] = IF k <= 2 * n THEN f[k] ELSE last[k - 2 * n]
  <2>1. /\ f \o last \in Seq(W) /\ Len(f \o last) = Len(f) + Len(last)
        /\ \A k \in 1 .. Len(f) + Len(last) :
              (f \o last)[k] = IF k <= Len(f) THEN f[k] ELSE last[k - Len(f)]
    BY <1>4, ConcatProperties
  <2> QED BY <2>1, <1>3, <1>4, <1>5
<1>7. todo'[2 * n + 1] = e /\ \A k \in 1 .. 2 * n : todo'[k] = f[k]
  <2>1. 2 * n + 1 \in 1 .. 2 * n + 1 /\ ~ (2 * n + 1 <= 2 * n) /\ (2 * n + 1) - 2 * n = 1
    BY <1>1
  <2>2. \A k \in 1 .. 2 * n : k \in 1 .. 2 * n + 1 /\ k <= 2 * n
    BY <1>1
  <2> QED BY <2>1, <2>2, <1>4, <1>6
<1>8. \A k \in 1 .. 2 * n : \E v \in Kinds : todo'[k] = CallWrite(v, b, calls'[(k + 1) \div 2])
  BY <1>2, <1>7 DEF Kinds
<1>9. ASSUME NEW i \in 1 .. n, NEW v \in Kinds
      PROVE  \E k \in 1 .. 2 * n : todo'[k] = CallWrite(v, b, calls'[i])
  <2>1. /\ 2 * i - 1 \in 1 .. 2 * n /\ 2 * i \in 1 .. 2 * n
        /\ ((2 * i - 1) + 1) \div 2 = i /\ (2 * i - 1) % 2 = 1
        /\ (2 * i + 1) \div 2 = i /\ (2 * i) % 2 # 1
    BY <1>1, WriteOf
  <2>2. todo'[2 * i - 1] = CallWrite("start", b, calls'[i])
    BY <2>1, <1>2, <1>7
  <2>3. todo'[2 * i] = CallWrite("end", b, calls'[i])
    BY <2>1, <1>2, <1>7
  <2> QED BY <2>1, <2>2, <2>3 DEF Kinds
<1> QED BY <1>6, <1>7, <1>8, <1>9 DEF WritesAre, n, e

-----------------------------------------------------------------------------
(* The writer keeps its invariant. *)

\* Without writes to come nothing is to be deleted or set.
LEMMA NothingToCome ==
    ASSUME todo = << >>
    PROVE  \A v, b, r : ~ ToDelete(v, b, r) /\ ~ ToSetYet(v, b, r) /\ ~ TotalToSet(b)
BY DEF ToDelete, ToSetYet, TotalToSet

\* The first write made, the others are still to come.
LEMMA OneWriteLess ==
    ASSUME NEW S, todo \in Seq(S), todo # << >>, todo' = Tail(todo)
    PROVE  /\ todo' \in Seq(S) /\ Head(todo) = todo[1]
           /\ Len(todo) \in Nat /\ 1 \in 1 .. Len(todo) /\ Len(todo') = Len(todo) - 1
           /\ \A k \in 1 .. Len(todo') : k + 1 \in 1 .. Len(todo) /\ todo'[k] = todo[k + 1]
           /\ \A k \in 2 .. Len(todo) : k - 1 \in 1 .. Len(todo') /\ todo'[k - 1] = todo[k]
<1>1. Len(todo) \in Nat /\ Len(todo) # 0 /\ Head(todo) = todo[1]
  BY LenProperties, EmptySeq, HeadTailProperties
<1>2. /\ todo' \in Seq(S) /\ Len(todo') = Len(todo) - 1
      /\ \A k \in 1 .. Len(todo) - 1 : todo'[k] = todo[k + 1]
  BY HeadTailProperties
<1> QED BY <1>1, <1>2

\* What was to come is the first write or still to come.
LEMMA StillToCome ==
    ASSUME NEW S, todo \in Seq(S), todo # << >>, todo' = Tail(todo), NEW v, NEW b, NEW r
    PROVE  /\ ToDelete(v, b, r) <=> \/ todo[1][1] = v /\ todo[1][2] = b /\ r \in todo[1][3]
                                    \/ ToDelete(v, b, r)'
           /\ ToSetYet(v, b, r) <=> \/ todo[1][1] = v /\ todo[1][2] = b /\ r \in todo[1][4]
                                    \/ ToSetYet(v, b, r)'
           /\ TotalToSet(b) <=> \/ todo[1][1] = "total" /\ todo[1][2] = b
                                \/ TotalToSet(b)'
<1>1. /\ Len(todo) \in Nat /\ 1 \in 1 .. Len(todo) /\ Len(todo') = Len(todo) - 1
      /\ \A k \in 1 .. Len(todo') : k + 1 \in 1 .. Len(todo) /\ todo'[k] = todo[k + 1]
      /\ \A k \in 2 .. Len(todo) : k - 1 \in 1 .. Len(todo') /\ todo'[k - 1] = todo[k]
  BY OneWriteLess
<1>2. \A k \in 1 .. Len(todo) : k = 1 \/ k \in 2 .. Len(todo)
  BY <1>1
<1>3. ToDelete(v, b, r) <=> \/ todo[1][1] = v /\ todo[1][2] = b /\ r \in todo[1][3]
                            \/ ToDelete(v, b, r)'
  BY <1>1, <1>2 DEF ToDelete
<1>4. ToSetYet(v, b, r) <=> \/ todo[1][1] = v /\ todo[1][2] = b /\ r \in todo[1][4]
                            \/ ToSetYet(v, b, r)'
  BY <1>1, <1>2 DEF ToSetYet
<1>5. TotalToSet(b) <=> \/ todo[1][1] = "total" /\ todo[1][2] = b
                        \/ TotalToSet(b)'
  BY <1>1, <1>2 DEF TotalToSet
<1> QED BY <1>3, <1>4, <1>5

\* As long as something is left to delete, the first write sets nothing.
LEMMA FirstDeletes ==
    ASSUME NEW S, todo \in Seq(S), todo # << >>, todo' = Tail(todo), DeletesFirst,
           NEW k \in 1 .. Len(todo'), todo[1][1] \in Kinds, todo'[k][1] \in Kinds,
           todo'[k][3] # {}
    PROVE  todo[1][4] = {}
<1>1. /\ 1 \in 1 .. Len(todo) /\ k + 1 \in 1 .. Len(todo) /\ 1 < k + 1
      /\ todo'[k] = todo[k + 1]
  BY OneWriteLess
<1>2. todo[k + 1][1] \in Kinds /\ todo[k + 1][3] # {}
  BY <1>1
<1>3. todo[1][4] # {} => todo[k + 1][3] = {}
  BY <1>1, <1>2 DEF DeletesFirst
<1> QED BY <1>2, <1>3

\* Initially both vectors are empty, and so are the ranges.
LEMMA WriterInit == ScrapeInit => WriterInv
<1> SUFFICES ASSUME ScrapeInit PROVE WriterInv
  OBVIOUS
<1>1. IInv /\ todo = << >> /\ before = Moment /\ total = [b \in BlobTypes |-> 0]
  BY InitIInv DEF ScrapeInit, Init
<1>2. /\ \A v, b, r : ~ ToDelete(v, b, r) /\ ~ ToSetYet(v, b, r) /\ ~ TotalToSet(b)
      /\ Len(todo) = 0
  BY <1>1, NothingToCome
<1>3. /\ gauges = [v \in Vectors |-> IF v = "total" THEN total ELSE published]
      /\ published = [b \in BlobTypes |-> published[b]]
      /\ Kinds \subseteq Vectors /\ "total" \in Vectors /\ "total" \notin Kinds
  BY <1>1 DEF ScrapeInit, IInv, TypeOK, Vectors, Kinds
<1>4. \A b \in BlobTypes : published[b] \subseteq Range64 /\ Apart(published[b])
  BY <1>1, PublishedApart
<1>5. before.published = published /\ before.total = total
  BY <1>1 DEF Moment
<1>6. GaugeTypes
  <2>1. \E S : todo \in Seq(S)
    BY <1>1
  <2> QED BY <1>1, <1>3, <1>4, <2>1 DEF GaugeTypes
<1>7. WritesTyped /\ WritesAreChange /\ DeletesFirst
  BY <1>2 DEF WritesTyped, WritesAreChange, DeletesFirst
<1>8. ExceptForTodo
  BY <1>2, <1>3, <1>5 DEF ExceptForTodo
<1>9. BeforeApart
  BY <1>1, <1>4, <1>5 DEF BeforeApart
<1> QED BY <1>1, <1>6, <1>7, <1>8, <1>9 DEF WriterInv

\* An operation makes the calls that fit the change of its slice.
LEMMA OperationCalls ==
    ASSUME IInv, NEW b \in BlobTypes, NEW h \in Heights,
           RecordMissingBlock(b, h) \/ RemoveVerifiedBlock(b, h)
    PROVE  IInv' /\ CallsFit(b)
BY RecordMissingBlockStep, RemoveVerifiedBlockStep DEF Achieves

\* An operation begins: its calls make up for what it changed.
LEMMA OperateStep ==
    ASSUME WriterInv, NEW b \in BlobTypes, Operate(b)
    PROVE  WriterInv'
<1> DEFINE n == Len(calls')
           write(v, k) == CallWrite(v, b, calls'[(k + 1) \div 2])
<1>1. PICK h \in Heights : RecordMissingBlock(b, h) \/ RemoveVerifiedBlock(b, h)
  BY DEF Operate
<1>2. /\ todo = << >> /\ before' = Moment /\ gauges' = gauges
      /\ todo' = RangeWrites(b) \o TotalWrites(b)
  BY DEF Operate
<1>3. IInv /\ GaugeTypes /\ BeforeApart
  BY DEF WriterInv
<1>4. IInv' /\ CallsFit(b)
  BY <1>1, <1>3, OperationCalls
<1>5. PICK old, new : /\ CallsAre(calls', old, new) /\ old \cap new = {}
                      /\ published'[b] = (published[b] \ old) \cup new
                      /\ \A c \in BlobTypes : c # b => published'[c] = published[c]
  BY <1>4 DEF CallsFit
<1>6. /\ total' = [c \in BlobTypes |-> total'[c]]
      /\ \A c \in BlobTypes : c # b => total'[c] = total[c]
  BY <1>1, <1>3, TotalChange DEF GaugeTypes
<1>7. /\ calls' \in Seq(Call) /\ n \in Nat
      /\ \A i \in 1 .. n : calls'[i] \in Call
      /\ \A i \in 1 .. n : \/ calls'[i].call = "delete" /\ calls'[i].range \in old
                           \/ calls'[i].call = "update" /\ calls'[i].range \in new
      /\ \A r \in old : \E i \in 1 .. n : calls'[i] = Delete(r)
      /\ \A r \in new : \E i \in 1 .. n : calls'[i] = Update(r)
      /\ \A i, j \in 1 .. n : i < j /\ calls'[i].call = "update" => calls'[j].call = "update"
  BY <1>5, LenProperties, ElementOfSeq DEF CallsAre
<1>8. \A v, r : /\ CallWrite(v, b, Delete(r)) = <<v, b, {r}, {}>>
               /\ CallWrite(v, b, Update(r)) = <<v, b, {}, {r}>>
  BY DEF CallWrite, Delete, Update
<1>9. /\ \E S : todo' \in Seq(S)
      /\ Len(todo') = 2 * n + 1 /\ todo'[2 * n + 1] = <<"total", b, total'[b]>>
      /\ \A k \in 1 .. 2 * n : \E v \in Kinds : todo'[k] = write(v, k)
      /\ \A i \in 1 .. n, v \in Kinds : \E k \in 1 .. 2 * n : todo'[k] = CallWrite(v, b, calls'[i])
  BY <1>2, <1>7, OperationWrites DEF WritesAre
<1>10. /\ \A k \in 1 .. 2 * n : (k + 1) \div 2 \in 1 .. n /\ k \in 1 .. Len(todo')
       /\ \A j, k \in 1 .. 2 * n : j < k => (j + 1) \div 2 <= (k + 1) \div 2
       /\ \A k \in 1 .. Len(todo') : k \in 1 .. 2 * n \/ k = 2 * n + 1
       /\ 2 * n + 1 \in 1 .. Len(todo')
  <2>1. /\ \A k \in 1 .. 2 * n : (k + 1) \div 2 \in 1 .. n
        /\ \A j, k \in 1 .. 2 * n : j < k => (j + 1) \div 2 <= (k + 1) \div 2
    BY <1>7, WriteOf
  <2> HIDE DEF n
  <2>2. /\ \A k \in 1 .. 2 * n : k \in 1 .. Len(todo')
        /\ \A k \in 1 .. Len(todo') : k \in 1 .. 2 * n \/ k = 2 * n + 1
        /\ 2 * n + 1 \in 1 .. Len(todo')
    BY <1>7, <1>9
  <2> QED BY <2>1, <2>2
<1>11. /\ todo'[2 * n + 1][1] = "total" /\ todo'[2 * n + 1][2] = b
       /\ todo'[2 * n + 1][3] = total'[b] /\ "total" \notin Kinds
       /\ Kinds \subseteq Vectors /\ "total" \in Vectors
  BY <1>9 DEF Kinds, Vectors
<1>12. old \subseteq Range64 /\ new \subseteq Range64
  <2>1. \A c \in Call : c.range \in Range64
    BY DEF Call
  <2>2. \A r : Delete(r).range = r /\ Update(r).range = r
    BY DEF Delete, Update
  <2> QED BY <1>7, <2>1, <2>2
<1> HIDE DEF n
\* A write of a call deletes a series of old or sets one of new.
<1>13. ASSUME NEW k \in 1 .. 2 * n
       PROVE  \E v \in Kinds :
                 \/ /\ calls'[(k + 1) \div 2].call = "delete"
                    /\ \E r \in old : todo'[k] = <<v, b, {r}, {}>>
                 \/ /\ calls'[(k + 1) \div 2].call = "update"
                    /\ \E r \in new : todo'[k] = <<v, b, {}, {r}>>
  <2>1. PICK v \in Kinds : todo'[k] = write(v, k)
    BY <1>9
  <2>2. (k + 1) \div 2 \in 1 .. n
    BY <1>10
  <2> QED BY <2>1, <2>2, <1>7 DEF CallWrite
<1>14. ASSUME NEW k \in 1 .. 2 * n
       PROVE  /\ todo'[k][1] \in Kinds /\ todo'[k][2] = b
              /\ todo'[k][3] \subseteq old /\ todo'[k][4] \subseteq new
              /\ calls'[(k + 1) \div 2].call = "update" => todo'[k][3] = {}
              /\ todo'[k][4] # {} => calls'[(k + 1) \div 2].call = "update"
  <2>1. PICK v \in Kinds :
           \/ /\ calls'[(k + 1) \div 2].call = "delete"
              /\ \E r \in old : todo'[k] = <<v, b, {r}, {}>>
           \/ /\ calls'[(k + 1) \div 2].call = "update"
              /\ \E r \in new : todo'[k] = <<v, b, {}, {r}>>
    BY <1>13
  <2>2. CASE /\ calls'[(k + 1) \div 2].call = "delete"
             /\ \E r \in old : todo'[k] = <<v, b, {r}, {}>>
    <3>1. PICK r \in old : todo'[k] = <<v, b, {r}, {}>>
      BY <2>2
    <3>2. todo'[k][1] = v /\ todo'[k][2] = b /\ todo'[k][3] = {r} /\ todo'[k][4] = {}
      BY <3>1
    <3> QED BY <2>2, <3>2
  <2>3. CASE /\ calls'[(k + 1) \div 2].call = "update"
             /\ \E r \in new : todo'[k] = <<v, b, {}, {r}>>
    <3>1. PICK r \in new : todo'[k] = <<v, b, {}, {r}>>
      BY <2>3
    <3>2. todo'[k][1] = v /\ todo'[k][2] = b /\ todo'[k][3] = {} /\ todo'[k][4] = {r}
      BY <3>1
    <3> QED BY <2>3, <3>2
  <2> QED BY <2>1, <2>2, <2>3
<1>15. WritesTyped'
  <2>1. ASSUME NEW k \in 1 .. Len(todo')
        PROVE  /\ todo'[k][1] \in Vectors /\ todo'[k][2] \in BlobTypes
               /\ todo'[k][1] \in Kinds => todo'[k][3] \subseteq Range64 /\ todo'[k][4] \subseteq Range64
               /\ todo'[k][1] = "total" => todo'[k][3] = total'[todo'[k][2]]
    <3>1. CASE k \in 1 .. 2 * n
      BY <1>11, <1>12, <1>14, <3>1
    <3>2. CASE k = 2 * n + 1
      BY <1>11, <3>2
    <3> QED BY <1>10, <3>1, <3>2
  <2> QED BY <2>1 DEF WritesTyped
<1>16. ASSUME NEW v \in Kinds, NEW c \in BlobTypes, NEW r
       PROVE  /\ ToDelete(v, c, r)' <=> c = b /\ r \in old
              /\ ToSetYet(v, c, r)' <=> c = b /\ r \in new
  <2>1. ASSUME NEW k \in 1 .. Len(todo'), todo'[k][1] = v
        PROVE  /\ todo'[k][2] = b
               /\ r \in todo'[k][3] => r \in old
               /\ r \in todo'[k][4] => r \in new
    <3>1. k \in 1 .. 2 * n
      BY <1>10, <1>11, <2>1
    <3> QED BY <1>14, <3>1
  <2>2. ASSUME r \in old
        PROVE  \E k \in 1 .. Len(todo') :
                  todo'[k][1] = v /\ todo'[k][2] = b /\ r \in todo'[k][3]
    <3>1. PICK i \in 1 .. n : calls'[i] = Delete(r)
      BY <1>7, <2>2
    <3>2. PICK k \in 1 .. 2 * n : todo'[k] = <<v, b, {r}, {}>>
      BY <1>8, <1>9, <3>1
    <3> QED BY <1>10, <3>2
  <2>3. ASSUME r \in new
        PROVE  \E k \in 1 .. Len(todo') :
                  todo'[k][1] = v /\ todo'[k][2] = b /\ r \in todo'[k][4]
    <3>1. PICK i \in 1 .. n : calls'[i] = Update(r)
      BY <1>7, <2>3
    <3>2. PICK k \in 1 .. 2 * n : todo'[k] = <<v, b, {}, {r}>>
      BY <1>8, <1>9, <3>1
    <3> QED BY <1>10, <3>2
  <2>4. ToDelete(v, c, r)' <=> c = b /\ r \in old
    BY <2>1, <2>2 DEF ToDelete
  <2>5. ToSetYet(v, c, r)' <=> c = b /\ r \in new
    BY <2>1, <2>3 DEF ToSetYet
  <2> QED BY <2>4, <2>5
<1>17. TotalToSet(b)'
  BY <1>10, <1>11 DEF TotalToSet
<1>18. DeletesFirst'
  <2>1. ASSUME NEW j \in 1 .. Len(todo'), NEW k \in 1 .. Len(todo'), j < k,
               todo'[j][1] \in Kinds, todo'[k][1] \in Kinds, todo'[j][4] # {}
        PROVE  todo'[k][3] = {}
    <3>1. j \in 1 .. 2 * n /\ k \in 1 .. 2 * n
      BY <1>10, <1>11, <2>1
    <3>2. calls'[(j + 1) \div 2].call = "update"
      BY <1>14, <2>1, <3>1
    <3>3. /\ (j + 1) \div 2 \in 1 .. n /\ (k + 1) \div 2 \in 1 .. n
          /\ (j + 1) \div 2 <= (k + 1) \div 2
      BY <1>10, <2>1, <3>1
    <3>4. calls'[(k + 1) \div 2].call = "update"
      <4> DEFINE x == (j + 1) \div 2
                 y == (k + 1) \div 2
      <4>1. x \in 1 .. n /\ y \in 1 .. n /\ (x < y \/ x = y) /\ calls'[x].call = "update"
        BY <3>2, <3>3
      <4> HIDE DEF x, y
      <4>2. calls'[y].call = "update"
        BY <1>7, <4>1
      <4> QED BY <4>2 DEF y
    <3> QED BY <1>14, <3>1, <3>4
  <2> QED BY <2>1 DEF DeletesFirst
<1>19. before'.published = published /\ before'.total = total
  BY <1>2 DEF Moment
<1>20. \A c \in BlobTypes : /\ gauges["total"][c] = total[c]
                            /\ \A v \in Kinds : gauges[v][c] = published[c]
  <2>1. ASSUME NEW c \in BlobTypes, NEW v \in Kinds PROVE gauges[v][c] = published[c]
    <3>1. gauges[v][c] \subseteq Range64 /\ published[c] \subseteq Range64
      BY <1>3, PublishedApart DEF GaugeTypes
    <3>2. \A r \in Range64 : r \in gauges[v][c] <=> r \in published[c]
      BY <1>2, NothingToCome DEF WriterInv, ExceptForTodo
    <3> QED BY <3>1, <3>2
  <2>2. \A c \in BlobTypes : gauges["total"][c] = total[c]
    BY <1>2, NothingToCome DEF WriterInv, ExceptForTodo
  <2> QED BY <2>1, <2>2
<1>21. WritesAreChange'
  BY <1>5, <1>16 DEF WritesAreChange
<1>22. ExceptForTodo'
  <2>1. ASSUME NEW c \in BlobTypes, NEW v \in Kinds, NEW r \in Range64
        PROVE  /\ r \in gauges'[v][c] => r \in published'[c] \/ ToDelete(v, c, r)'
               /\ r \in published'[c] => r \in gauges'[v][c] \/ ToSetYet(v, c, r)'
               /\ ToDelete(v, c, r)' => gauges'[v][c] \subseteq before'.published[c]
               /\ r \in gauges'[v][c] => r \in before'.published[c] \/ r \in published'[c]
               /\ r \in before'.published[c] /\ r \in published'[c] => r \in gauges'[v][c]
    <3>1. gauges'[v][c] = published[c] /\ before'.published[c] = published[c]
      BY <1>2, <1>19, <1>20
    <3>2. /\ ToDelete(v, c, r)' <=> c = b /\ r \in old
          /\ ToSetYet(v, c, r)' <=> c = b /\ r \in new
      BY <1>16
    <3> QED BY <3>1, <3>2, <1>5
  <2>2. ASSUME NEW c \in BlobTypes
        PROVE  /\ gauges'["total"][c] = total'[c] \/ TotalToSet(c)'
               /\ gauges'["total"][c] \in {before'.total[c], total'[c]}
    BY <1>2, <1>6, <1>17, <1>19, <1>20
  <2> QED BY <2>1, <2>2 DEF ExceptForTodo
<1>23. GaugeTypes'
  BY <1>2, <1>3, <1>6, <1>9 DEF GaugeTypes
<1>24. BeforeApart'
  <2>1. todo' # << >>
    BY <1>10
  <2>2. \A c \in BlobTypes : Apart(published[c]) /\ published[c] \subseteq Range64
    BY <1>3, PublishedApart
  <2> QED BY <1>19, <2>1, <2>2 DEF BeforeApart
<1> QED BY <1>4, <1>15, <1>18, <1>21, <1>22, <1>23, <1>24 DEF WriterInv

\* One write made: what it was for is as it is going to be, the rest as before.
LEMMA WriteStep ==
    ASSUME WriterInv, Write
    PROVE  WriterInv'
<1> DEFINE w == todo[1]
<1>1. PICK S : todo \in Seq(S)
  BY DEF WriterInv, GaugeTypes
<1>2. /\ todo # << >> /\ todo' = Tail(todo)
      /\ gauges' = [gauges EXCEPT ![Head(todo)[1]][Head(todo)[2]] =
                        IF Head(todo)[1] = "total" THEN Head(todo)[3]
                        ELSE (gauges[Head(todo)[1]][Head(todo)[2]] \ Head(todo)[3]) \cup Head(todo)[4]]
      /\ before' = IF Len(todo) = 1 THEN Moment ELSE before
      /\ UNCHANGED <<ranges, published, total, calls>>
  BY DEF Write, vars
<1>3. /\ todo' \in Seq(S) /\ Head(todo) = w
      /\ Len(todo) \in Nat /\ 1 \in 1 .. Len(todo) /\ Len(todo') = Len(todo) - 1
      /\ \A k \in 1 .. Len(todo') : k + 1 \in 1 .. Len(todo) /\ todo'[k] = todo[k + 1]
  BY <1>1, <1>2, OneWriteLess
<1>4. /\ IInv /\ GaugeTypes /\ WritesTyped /\ WritesAreChange /\ DeletesFirst
      /\ ExceptForTodo /\ BeforeApart
  BY DEF WriterInv
<1>5. /\ w[1] \in Vectors /\ w[2] \in BlobTypes
      /\ w[1] \in Kinds => w[3] \subseteq Range64 /\ w[4] \subseteq Range64
      /\ w[1] = "total" => w[3] = total[w[2]]
  BY <1>3, <1>4 DEF WritesTyped
<1>6. "total" \notin Kinds /\ Kinds \subseteq Vectors /\ "total" \in Vectors
      /\ \A v \in Vectors : v = "total" \/ v \in Kinds
  BY DEF Kinds, Vectors
<1>7. \A v, b, r :
         /\ ToDelete(v, b, r) <=> (w[1] = v /\ w[2] = b /\ r \in w[3]) \/ ToDelete(v, b, r)'
         /\ ToSetYet(v, b, r) <=> (w[1] = v /\ w[2] = b /\ r \in w[4]) \/ ToSetYet(v, b, r)'
         /\ TotalToSet(b) <=> (w[1] = "total" /\ w[2] = b) \/ TotalToSet(b)'
  BY <1>1, <1>2, StillToCome
<1> HIDE DEF w
<1>8. /\ gauges' = [v \in Vectors |-> gauges'[v]]
      /\ \A v \in Vectors : gauges'[v] = [b \in BlobTypes |-> gauges'[v][b]]
      /\ \A v \in Vectors, b \in BlobTypes :
            gauges'[v][b] = IF v = w[1] /\ b = w[2]
                            THEN IF v = "total" THEN w[3] ELSE (gauges[v][b] \ w[3]) \cup w[4]
                            ELSE gauges[v][b]
  <2> DEFINE x == IF w[1] = "total" THEN w[3] ELSE (gauges[w[1]][w[2]] \ w[3]) \cup w[4]
  <2>1. gauges' = [gauges EXCEPT ![w[1]][w[2]] = x]
    BY <1>2, <1>3
  <2>2. x = IF w[1] = "total" THEN w[3] ELSE (gauges[w[1]][w[2]] \ w[3]) \cup w[4]
    OBVIOUS
  <2> HIDE DEF x
  <2>3. /\ gauges = [v \in Vectors |-> gauges[v]]
        /\ \A v \in Vectors : gauges[v] = [b \in BlobTypes |-> gauges[v][b]]
    BY <1>4 DEF GaugeTypes
  <2>4. gauges' = [v \in Vectors |-> IF v = w[1] THEN [gauges[v] EXCEPT ![w[2]] = x] ELSE gauges[v]]
    BY <2>1, <2>3, <1>5
  <2>5. gauges'[w[1]] = [b \in BlobTypes |-> IF b = w[2] THEN x ELSE gauges[w[1]][b]]
    BY <2>3, <2>4, <1>5
  <2>6. \A v \in Vectors : v # w[1] => gauges'[v] = gauges[v]
    BY <2>4
  <2>7. \A v \in Vectors : gauges'[v] = [b \in BlobTypes |-> gauges'[v][b]]
    BY <2>3, <2>5, <2>6
  <2>8. gauges' = [v \in Vectors |-> gauges'[v]]
    BY <2>4
  <2>9. ASSUME NEW v \in Vectors, NEW b \in BlobTypes
        PROVE  gauges'[v][b] = IF v = w[1] /\ b = w[2]
                               THEN IF v = "total" THEN w[3] ELSE (gauges[v][b] \ w[3]) \cup w[4]
                               ELSE gauges[v][b]
    <3>1. CASE v = w[1] /\ b = w[2]
      BY <2>2, <2>5, <3>1
    <3>2. CASE v = w[1] /\ b # w[2]
      BY <2>5, <3>2
    <3>3. CASE v # w[1]
      BY <2>6, <3>3
    <3> QED BY <3>1, <3>2, <3>3
  <2> QED BY <2>7, <2>8, <2>9
<1>9. IInv'
  BY <1>2, <1>4 DEF IInv, TypeOK, RangesCanonical, PublishedMatchesRanges
<1>10. GaugeTypes'
  <2>1. \E T : todo' \in Seq(T)
    BY <1>3
  <2>2. ASSUME NEW v \in Kinds, NEW b \in BlobTypes PROVE gauges'[v][b] \subseteq Range64
    <3>1. gauges[v][b] \subseteq Range64 /\ v \in Vectors /\ v # "total"
      BY <1>4, <1>6 DEF GaugeTypes
    <3>2. CASE v = w[1] /\ b = w[2]
      <4>1. w[3] \subseteq Range64 /\ w[4] \subseteq Range64
        BY <1>5, <3>2
      <4>2. gauges'[v][b] = (gauges[v][b] \ w[3]) \cup w[4]
        BY <1>8, <3>1, <3>2
      <4> QED BY <3>1, <4>1, <4>2
    <3>3. CASE ~ (v = w[1] /\ b = w[2])
      BY <1>8, <3>1, <3>3
    <3> QED BY <3>2, <3>3
  <2>3. total' = [b \in BlobTypes |-> total'[b]]
    BY <1>2, <1>4 DEF GaugeTypes
  <2> QED BY <1>8, <2>1, <2>2, <2>3 DEF GaugeTypes
<1>11. WritesTyped'
  BY <1>2, <1>3, <1>4 DEF WritesTyped
<1>12. DeletesFirst'
  <2>1. ASSUME NEW j \in 1 .. Len(todo'), NEW k \in 1 .. Len(todo'), j < k,
               todo'[j][1] \in Kinds, todo'[k][1] \in Kinds, todo'[j][4] # {}
        PROVE  todo'[k][3] = {}
    <3>1. j + 1 \in 1 .. Len(todo) /\ k + 1 \in 1 .. Len(todo) /\ j + 1 < k + 1
      BY <1>3, <2>1
    <3>2. todo'[j] = todo[j + 1] /\ todo'[k] = todo[k + 1]
      BY <1>3
    <3> QED BY <1>4, <2>1, <3>1, <3>2 DEF DeletesFirst
  <2> QED BY <2>1 DEF DeletesFirst
<1>13. ASSUME NEW v \in Kinds, NEW b \in BlobTypes, NEW r \in Range64
       PROVE  /\ r \in gauges'[v][b] => r \in published[b] \/ ToDelete(v, b, r)'
              /\ r \in published[b] => r \in gauges'[v][b] \/ ToSetYet(v, b, r)'
              /\ r \in gauges'[v][b] => r \in before.published[b] \/ r \in published[b]
              /\ r \in before.published[b] /\ r \in published[b] => r \in gauges'[v][b]
  <2>1. /\ r \in gauges[v][b] => r \in published[b] \/ ToDelete(v, b, r)
        /\ r \in published[b] => r \in gauges[v][b] \/ ToSetYet(v, b, r)
        /\ ToDelete(v, b, r) => r \notin published[b]
        /\ ToSetYet(v, b, r) => r \in published[b]
        /\ r \in gauges[v][b] => r \in before.published[b] \/ r \in published[b]
        /\ r \in before.published[b] /\ r \in published[b] => r \in gauges[v][b]
    BY <1>4 DEF ExceptForTodo, WritesAreChange
  <2>2. CASE w[1] = v /\ w[2] = b
    <3>1. gauges'[v][b] = (gauges[v][b] \ w[3]) \cup w[4]
      BY <1>6, <1>8, <2>2
    <3> QED BY <1>7, <2>1, <2>2, <3>1
  <2>3. CASE ~ (w[1] = v /\ w[2] = b)
    <3>1. gauges'[v][b] = gauges[v][b]
      BY <1>6, <1>8, <2>3
    <3> QED BY <1>7, <2>1, <2>3, <3>1
  <2> QED BY <2>2, <2>3
<1>14. ASSUME NEW v \in Kinds, NEW b \in BlobTypes, NEW r \in Range64, ToDelete(v, b, r)'
       PROVE  gauges'[v][b] \subseteq before.published[b]
  <2>1. gauges[v][b] \subseteq before.published[b]
    BY <1>4, <1>7, <1>14 DEF ExceptForTodo
  <2>2. CASE w[1] = v /\ w[2] = b
    <3>1. PICK k \in 1 .. Len(todo') : todo'[k][1] = v /\ r \in todo'[k][3]
      BY <1>14 DEF ToDelete
    <3>2. todo[1][1] \in Kinds /\ todo'[k][1] \in Kinds /\ todo'[k][3] # {}
      BY <2>2, <3>1 DEF w
    <3>3. w[4] = {}
      <4>1. todo[1][4] = {}
        BY <1>1, <1>2, <1>4, <3>2, FirstDeletes
      <4> QED BY <4>1 DEF w
    <3>4. gauges'[v][b] = (gauges[v][b] \ w[3]) \cup w[4]
      BY <1>6, <1>8, <2>2
    <3> QED BY <2>1, <3>3, <3>4
  <2>3. CASE ~ (w[1] = v /\ w[2] = b)
    BY <1>6, <1>8, <2>1, <2>3
  <2> QED BY <2>2, <2>3
<1>15. ASSUME NEW b \in BlobTypes
       PROVE  /\ gauges'["total"][b] = total[b] \/ TotalToSet(b)'
              /\ gauges'["total"][b] \in {before.total[b], total[b]}
  <2>1. /\ gauges["total"][b] = total[b] \/ TotalToSet(b)
        /\ gauges["total"][b] \in {before.total[b], total[b]}
    BY <1>4 DEF ExceptForTodo
  <2>2. CASE w[1] = "total" /\ w[2] = b
    BY <1>5, <1>6, <1>8, <2>2
  <2>3. CASE ~ (w[1] = "total" /\ w[2] = b)
    BY <1>6, <1>7, <1>8, <2>1, <2>3
  <2> QED BY <2>2, <2>3
<1>16. CASE Len(todo) = 1
  <2>1. todo' = << >> /\ before' = Moment'
    <3>1. todo' = << >>
      BY <1>3, <1>16, EmptySeq
    <3> QED BY <1>2, <1>16, <3>1 DEF Moment
  <2>2. \A v, b, r : ~ ToDelete(v, b, r)' /\ ~ ToSetYet(v, b, r)' /\ ~ TotalToSet(b)'
    BY <2>1 DEF ToDelete, ToSetYet, TotalToSet
  <2>3. before'.published = published /\ before'.total = total
    BY <1>2, <2>1 DEF Moment
  <2>4. WritesAreChange'
    BY <2>2 DEF WritesAreChange
  <2>5. ExceptForTodo'
    BY <1>2, <1>13, <1>15, <2>2, <2>3 DEF ExceptForTodo
  <2>6. BeforeApart'
    BY <1>2, <1>4, <2>1, <2>3, PublishedApart DEF BeforeApart
  <2> QED BY <1>9, <1>10, <1>11, <1>12, <2>4, <2>5, <2>6 DEF WriterInv
<1>17. CASE Len(todo) # 1
  <2>1. todo' # << >> /\ before' = before
    <3>1. Len(todo') # 0
      BY <1>3, <1>17
    <3>2. todo' # << >>
      BY <3>1, EmptySeq
    <3> QED BY <1>2, <1>17, <3>2
  <2>2. WritesAreChange'
    BY <1>2, <1>4, <1>7, <2>1 DEF WritesAreChange
  <2>3. ExceptForTodo'
    BY <1>2, <1>13, <1>14, <1>15, <2>1 DEF ExceptForTodo
  <2>4. BeforeApart'
    BY <1>4, <2>1 DEF BeforeApart
  <2> QED BY <1>9, <1>10, <1>11, <1>12, <2>2, <2>3, <2>4 DEF WriterInv
<1> QED BY <1>16, <1>17

\* A scrape writes nothing.
LEMMA WriterKeeps ==
    ASSUME WriterInv, UNCHANGED <<vars, gauges, todo, before>>
    PROVE  WriterInv'
<1>1. /\ ranges' = ranges /\ published' = published /\ total' = total /\ calls' = calls
      /\ gauges' = gauges /\ todo' = todo /\ before' = before
  BY DEF vars
<1>2. IInv'
  BY <1>1 DEF WriterInv, IInv, TypeOK, RangesCanonical, PublishedMatchesRanges
<1>3. \A v, b, r : /\ ToDelete(v, b, r)' <=> ToDelete(v, b, r)
                   /\ ToSetYet(v, b, r)' <=> ToSetYet(v, b, r)
                   /\ TotalToSet(b)' <=> TotalToSet(b)
  BY <1>1 DEF ToDelete, ToSetYet, TotalToSet
<1>4. GaugeTypes' /\ WritesTyped' /\ DeletesFirst' /\ BeforeApart'
  BY <1>1 DEF WriterInv, GaugeTypes, WritesTyped, DeletesFirst, BeforeApart, Moment
<1>5. WritesAreChange' /\ ExceptForTodo'
  BY <1>1, <1>3 DEF WriterInv, WritesAreChange, ExceptForTodo
<1> QED BY <1>2, <1>4, <1>5 DEF WriterInv

-----------------------------------------------------------------------------
(* What a scrape collects. *)

\* In the middle of an operation a vector lies between what it was and what it is
\* going to be, and it never holds ranges of both at once that touch.
LEMMA VectorBetween ==
    ASSUME WriterInv, NEW v \in Kinds, NEW b \in BlobTypes
    PROVE  /\ gauges[v][b] \subseteq Range64 /\ Apart(gauges[v][b])
           /\ \A r \in Range64 :
                 /\ r \in gauges[v][b] => r \in before.published[b] \/ r \in published[b]
                 /\ r \in before.published[b] /\ r \in published[b] => r \in gauges[v][b]
<1>1. gauges[v][b] \subseteq Range64
  BY DEF WriterInv, GaugeTypes
<1>2. \A r \in Range64 :
         /\ r \in gauges[v][b] => r \in published[b] \/ ToDelete(v, b, r)
         /\ r \in published[b] => r \in gauges[v][b] \/ ToSetYet(v, b, r)
         /\ ToDelete(v, b, r) => gauges[v][b] \subseteq before.published[b]
         /\ r \in gauges[v][b] => r \in before.published[b] \/ r \in published[b]
         /\ r \in before.published[b] /\ r \in published[b] => r \in gauges[v][b]
  BY DEF WriterInv, ExceptForTodo
<1>3. Apart(before.published[b]) /\ Apart(published[b])
  BY PublishedApart DEF WriterInv, BeforeApart
<1>4. gauges[v][b] \subseteq before.published[b] \/ gauges[v][b] \subseteq published[b]
  <2>1. CASE \E r \in Range64 : ToDelete(v, b, r)
    BY <1>2, <2>1
  <2>2. CASE \A r \in Range64 : ~ ToDelete(v, b, r)
    BY <1>1, <1>2, <2>2
  <2> QED BY <2>1, <2>2
<1>5. Apart(gauges[v][b])
  BY <1>3, <1>4 DEF Apart
<1> QED BY <1>1, <1>2, <1>5

\* Initially there is no scrape.
LEMMA ScrapeInvInit == ScrapeInit => ScrapeInv
BY DEF ScrapeInit, ScrapeInv, NoDoubleCount

\* More moments seen, the same collected: it is still of its time.
LEMMA SeenGrows ==
    ASSUME ScrapeInv, seen \subseteq seen', UNCHANGED <<scraping, scrape>>,
           scraping => before' \in seen' /\ Moment' \in seen'
    PROVE  ScrapeInv'
<1>1. ASSUME NEW v \in DOMAIN scrape PROVE OfItsTime(v)'
  <2>1. OfItsTime(v) /\ scrape' = scrape
    BY DEF ScrapeInv
  <2> QED BY <2>1 DEF OfItsTime
<1>2. NoDoubleCount'
  BY DEF ScrapeInv, NoDoubleCount
<1> QED BY <1>1, <1>2 DEF ScrapeInv

\* Collecting a vector.
LEMMA CollectStep ==
    ASSUME WriterInv, ScrapeInv, NEW v \in Vectors, Collect(v)
    PROVE  ScrapeInv'
<1>1. /\ scraping /\ v \notin DOMAIN scrape
      /\ scrape' = [u \in DOMAIN scrape \cup {v} |-> IF u = v THEN gauges[v] ELSE scrape[u]]
      /\ scraping' = scraping /\ before' = before /\ seen' = seen
      /\ published' = published /\ total' = total
  BY DEF Collect, vars
<1>2. /\ DOMAIN scrape' = DOMAIN scrape \cup {v}
      /\ scrape'[v] = gauges[v]
      /\ \A w \in DOMAIN scrape : scrape'[w] = scrape[w]
  BY <1>1
<1>3. before \in seen /\ Moment \in seen /\ Moment' = Moment
  BY <1>1 DEF ScrapeInv, Moment
<1>4. Moment.published = published /\ Moment.total = total
  BY DEF Moment
<1>5. OfItsTime(v)'
  <2>1. ASSUME NEW b \in BlobTypes, v = "total"
        PROVE  \E m \in seen : gauges[v][b] = m.total[b]
    <3>1. gauges[v][b] \in {before.total[b], total[b]}
      BY <2>1 DEF WriterInv, ExceptForTodo
    <3> QED BY <1>3, <1>4, <3>1
  <2>2. ASSUME NEW b \in BlobTypes, v # "total", NEW r \in Range64
        PROVE  /\ r \in gauges[v][b] => \E m \in seen : r \in m.published[b]
               /\ (\A m \in seen : r \in m.published[b]) => r \in gauges[v][b]
    <3>1. v \in Kinds
      BY <2>2 DEF Kinds, Vectors
    <3>2. /\ r \in gauges[v][b] => r \in before.published[b] \/ r \in published[b]
          /\ r \in before.published[b] /\ r \in published[b] => r \in gauges[v][b]
      BY <3>1, VectorBetween
    <3> QED BY <1>3, <1>4, <3>2
  <2> QED BY <1>1, <1>2, <2>1, <2>2 DEF OfItsTime
<1>6. ASSUME NEW w \in DOMAIN scrape PROVE OfItsTime(w)'
  <2>1. OfItsTime(w) /\ scrape'[w] = scrape[w]
    BY <1>2 DEF ScrapeInv
  <2> QED BY <1>1, <2>1 DEF OfItsTime
<1>7. ASSUME NEW w \in Kinds \cap DOMAIN scrape', NEW b \in BlobTypes
      PROVE  scrape'[w][b] \subseteq Range64 /\ Apart(scrape'[w][b])
  <2>1. CASE w = v
    BY <1>2, <2>1, VectorBetween
  <2>2. CASE w # v
    BY <1>2, <2>2 DEF ScrapeInv, NoDoubleCount, Apart, Kinds
  <2> QED BY <2>1, <2>2
<1>8. NoDoubleCount'
  BY <1>7 DEF NoDoubleCount, Apart, Kinds
<1> QED BY <1>1, <1>2, <1>3, <1>5, <1>6, <1>7, <1>8 DEF ScrapeInv

(* The theorems. *)

FullInv == WriterInv /\ ScrapeInv

\* The invariant holds initially.
LEMMA FullInit == ScrapeInit => FullInv
BY WriterInit, ScrapeInvInit DEF FullInv

\* Every step keeps the invariant.
LEMMA FullNext == FullInv /\ [ScrapeNext]_scrapeVars => FullInv'
<1> SUFFICES ASSUME FullInv, [ScrapeNext]_scrapeVars PROVE FullInv'
  OBVIOUS
<1>0. WriterInv /\ ScrapeInv
  BY DEF FullInv
<1>1. ASSUME NEW b \in BlobTypes, Operate(b) PROVE FullInv'
  <2>1. WriterInv'
    BY <1>0, <1>1, OperateStep
  <2>2. /\ before' = Moment /\ scraping' = scraping /\ scrape' = scrape
        /\ (~ scraping /\ seen' = seen) \/ seen' = seen \cup {Moment'}
    BY <1>1 DEF Operate
  <2>3. seen \subseteq seen' /\ (scraping => before' \in seen' /\ Moment' \in seen')
    BY <1>0, <2>2 DEF ScrapeInv
  <2> QED BY <1>0, <2>1, <2>2, <2>3, SeenGrows DEF FullInv
<1>2. CASE Write
  <2>1. WriterInv'
    BY <1>0, <1>2, WriteStep
  <2>2. /\ scraping' = scraping /\ scrape' = scrape /\ seen' = seen
        /\ before' = Moment \/ before' = before
        /\ Moment' = Moment
    BY <1>2 DEF Write, vars, Moment
  <2>3. seen \subseteq seen' /\ (scraping => before' \in seen' /\ Moment' \in seen')
    BY <1>0, <2>2 DEF ScrapeInv
  <2> QED BY <1>0, <2>1, <2>2, <2>3, SeenGrows DEF FullInv
<1>3. CASE BeginScrape
  <2>1. WriterInv'
    BY <1>0, <1>3, WriterKeeps DEF BeginScrape
  <2>2. /\ scraping' /\ scrape' = scrape /\ DOMAIN scrape = {} /\ seen' = {before, Moment}
        /\ before' = before /\ Moment' = Moment
    BY <1>0, <1>3 DEF BeginScrape, ScrapeInv, vars, Moment
  <2>3. ScrapeInv'
    BY <2>2 DEF ScrapeInv, NoDoubleCount
  <2> QED BY <2>1, <2>3 DEF FullInv
<1>4. CASE EndScrape
  <2>1. WriterInv'
    BY <1>0, <1>4, WriterKeeps DEF EndScrape
  <2>2. ScrapeInv'
    BY <1>4 DEF EndScrape, ScrapeInv, NoDoubleCount
  <2> QED BY <2>1, <2>2 DEF FullInv
<1>5. ASSUME NEW v \in Vectors, Collect(v) PROVE FullInv'
  <2>1. WriterInv'
    BY <1>0, <1>5, WriterKeeps DEF Collect
  <2>2. ScrapeInv'
    BY <1>0, <1>5, CollectStep
  <2> QED BY <2>1, <2>2 DEF FullInv
<1>6. CASE UNCHANGED scrapeVars
  <2>1. /\ UNCHANGED <<vars, gauges, todo, before>>
        /\ scraping' = scraping /\ scrape' = scrape /\ seen' = seen /\ before' = before
    BY <1>6 DEF scrapeVars
  <2>2. WriterInv'
    BY <1>0, <2>1, WriterKeeps
  <2>3. Moment' = Moment
    BY <2>1 DEF vars, Moment
  <2>4. ScrapeInv'
    BY <1>0, <2>1, <2>3, SeenGrows DEF ScrapeInv
  <2> QED BY <2>2, <2>4 DEF FullInv
<1> QED BY <1>1, <1>2, <1>3, <1>4, <1>5, <1>6 DEF ScrapeNext

\* The inductive invariant of the writer and the scrape together.
LEMMA FullAlways == ScrapeSpec => []FullInv
BY FullInit, FullNext, PTL DEF ScrapeSpec

\* The writer and the scrape only add to the behaviours of MissingRanges: what its
\* theorems say of the slices and the series holds with the writes one by one.
THEOREM ScrapeIsMissingRanges == ScrapeSpec => Spec
<1>1. ScrapeInit => Init
  BY DEF ScrapeInit
<1>2. [ScrapeNext]_scrapeVars => [Next]_vars
  <2> SUFFICES ASSUME [ScrapeNext]_scrapeVars PROVE [Next]_vars
    OBVIOUS
  <2>1. ASSUME NEW b \in BlobTypes, Operate(b) PROVE Next
    BY <2>1 DEF Operate, Next
  <2>2. CASE Write \/ BeginScrape \/ EndScrape \/ \E v \in Vectors : Collect(v)
    BY <2>2 DEF Write, BeginScrape, EndScrape, Collect
  <2>3. CASE UNCHANGED scrapeVars
    BY <2>3 DEF scrapeVars
  <2> QED BY <2>1, <2>2, <2>3 DEF ScrapeNext
<1> QED BY <1>1, <1>2, PTL DEF ScrapeSpec, Spec

\* Whenever Metrics.mu is free the vectors hold exactly the ranges of the slices, and the
\* total the number of heights they cover: the deleteRange and updateRange calls of every
\* path of RecordMissingBlock and RemoveVerifiedBlock, made one write at a time, leave
\* no series of a former range behind and miss none of a current one.
THEOREM GaugesAlwaysSettle == ScrapeSpec => []GaugesSettled
<1>1. FullInv /\ TotalMatchesRanges => GaugesSettled
  <2> SUFFICES ASSUME FullInv, TotalMatchesRanges, todo = << >>, NEW b \in BlobTypes
               PROVE  /\ gauges["start"][b] = ToSet(ranges[b]) /\ gauges["end"][b] = ToSet(ranges[b])
                      /\ gauges["total"][b] = Cardinality(Covered(ranges[b])) % (MaxHeight + 1)
    BY DEF GaugesSettled
  <2>1. WriterInv /\ IInv /\ GaugeTypes
    BY DEF FullInv, WriterInv
  <2>2. ASSUME NEW v \in Kinds PROVE gauges[v][b] = ToSet(ranges[b])
    <3>1. gauges[v][b] \subseteq Range64 /\ published[b] \subseteq Range64
      BY <2>1, PublishedApart DEF GaugeTypes
    <3>2. \A r \in Range64 : r \in gauges[v][b] <=> r \in published[b]
      BY <2>1, NothingToCome DEF WriterInv, ExceptForTodo
    <3> QED BY <2>1, <3>1, <3>2, SliceOf
  <2>3. gauges["total"][b] = total[b]
    BY <2>1, NothingToCome DEF WriterInv, ExceptForTodo
  <2> QED BY <2>2, <2>3 DEF Kinds, TotalMatchesRanges
<1> QED BY <1>1, FullAlways, ScrapeIsMissingRanges, TotalAlwaysMatches, PTL

\* No scrape, wherever it falls among the gauge writes, shows a height in two ranges: a
\* range that grew, shrank or split is gone before what takes its place appears, even
\* when both start at the same height.
THEOREM NeverCountsTwice == ScrapeSpec => []NoDoubleCount
<1>1. FullInv => NoDoubleCount
  BY DEF FullInv, ScrapeInv
<1> QED BY <1>1, FullAlways, PTL

\* Whatever is scraped was so at some moment of the scrape, and what was so all along
\* is there.
THEOREM ScrapeAlwaysOfItsTime == ScrapeSpec => []ScrapeIsOfItsTime
<1>1. FullInv => ScrapeIsOfItsTime
  <2> SUFFICES ASSUME FullInv, Collected, NEW b \in BlobTypes
               PROVE  /\ \A v \in {"start", "end"}, r \in Range64 :
                            /\ r \in scrape[v][b] => \E m \in seen : r \in m.published[b]
                            /\ (\A m \in seen : r \in m.published[b]) => r \in scrape[v][b]
                      /\ \E m \in seen : scrape["total"][b] = m.total[b]
    BY DEF ScrapeIsOfItsTime
  <2>1. \A v \in Vectors : OfItsTime(v)
    BY DEF FullInv, ScrapeInv, Collected
  <2>2. OfItsTime("total") /\ \A v \in {"start", "end"} : OfItsTime(v) /\ v # "total"
    BY <2>1 DEF Vectors
  <2> QED BY <2>2 DEF OfItsTime
<1> QED BY <1>1, FullAlways, PTL
=============================================================================
