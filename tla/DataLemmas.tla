------------------------------ MODULE DataLemmas ------------------------------
(***************************************************************************)
(* What the operators on numbers and sequences that the models are built    *)
(* from return, for the proofs to cite.  A sequence that repeats nothing    *)
(* (IsInjective) and the set of its elements (ToSet) are all that most of   *)
(* them need to know of a list.                                             *)
(***************************************************************************)
EXTENDS Integers, SequencesExt, SequenceTheorems, WellFoundedInduction, TLAPS

(***************************************************************************)
(* A nonempty set of naturals has a least element.                          *)
(***************************************************************************)
LEMMA LeastNatural ==
  ASSUME NEW T \in SUBSET Nat, T # {}
  PROVE  \E m \in T : \A j \in T : m <= j
<1>1. PICK m \in T : \A j \in T : ~ (<<j, m>> \in OpToRel(<, Nat))
  BY NatLessThanWellFounded, WFMin
<1>2. \A j \in T : ~ (j < m)
  BY <1>1 DEF OpToRel
<1> QED  BY <1>2

(***************************************************************************)
(* What RemoveAt leaves: the elements before the place, and those behind it *)
(* one further to the front.                                                *)
(***************************************************************************)
LEMMA RemoveAtElements ==
  ASSUME NEW S, NEW s \in Seq(S), NEW i \in 1 .. Len(s)
  PROVE  /\ RemoveAt(s, i) \in Seq(S)
         /\ Len(RemoveAt(s, i)) = Len(s) - 1
         /\ \A j \in 1 .. Len(s) - 1 :
              RemoveAt(s, i)[j] = s[IF j < i THEN j ELSE j + 1]
<1> DEFINE front == SubSeq(s, 1, i - 1)
           back  == SubSeq(s, i + 1, Len(s))
<1>1. /\ front \in Seq(S) /\ Len(front) = i - 1
      /\ \A j \in 1 .. i - 1 : front[j] = s[j]
  BY SubSeqProperties
<1>2. /\ back \in Seq(S) /\ Len(back) = Len(s) - i
      /\ \A j \in 1 .. Len(s) - i : back[j] = s[i + j]
  BY SubSeqProperties
<1> HIDE DEF front, back
<1>3. RemoveAt(s, i) = front \o back
  BY DEF RemoveAt, front, back
<1>4. /\ front \o back \in Seq(S)
      /\ Len(front \o back) = Len(s) - 1
      /\ \A j \in 1 .. Len(s) - 1 :
           (front \o back)[j] = IF j <= i - 1 THEN front[j] ELSE back[j - (i - 1)]
  BY <1>1, <1>2, ConcatProperties
<1>5. ASSUME NEW j \in 1 .. Len(s) - 1
      PROVE  (front \o back)[j] = s[IF j < i THEN j ELSE j + 1]
  <2>1. CASE j < i
    BY <2>1, <1>1, <1>4
  <2>2. CASE ~ j < i
    <3>1. j - (i - 1) \in 1 .. Len(s) - i /\ i + (j - (i - 1)) = j + 1
      BY <2>2
    <3> QED  BY <3>1, <2>2, <1>2, <1>4
  <2> QED  BY <2>1, <2>2
<1> QED  BY <1>3, <1>4, <1>5

(***************************************************************************)
(* What InsertAt makes: the elements from the place on move one to the back. *)
(***************************************************************************)
Inserted(s, i, e, j) == IF j < i THEN s[j] ELSE IF j = i THEN e ELSE s[j - 1]

LEMMA InsertAtElements ==
  ASSUME NEW S, NEW s \in Seq(S), NEW e \in S, NEW i \in 1 .. Len(s) + 1
  PROVE  /\ InsertAt(s, i, e) \in Seq(S)
         /\ Len(InsertAt(s, i, e)) = Len(s) + 1
         /\ \A j \in 1 .. Len(s) + 1 :
              InsertAt(s, i, e)[j] = Inserted(s, i, e, j)
<1> DEFINE front == SubSeq(s, 1, i - 1)
           mid   == <<e>>
           back  == SubSeq(s, i, Len(s))
<1>1. /\ front \in Seq(S) /\ Len(front) = i - 1 /\ Len(s) \in Nat
      /\ \A j \in 1 .. i - 1 : front[j] = s[j]
  BY SubSeqProperties, LenProperties
<1>2. /\ back \in Seq(S) /\ Len(back) = Len(s) - i + 1
      /\ \A j \in 1 .. Len(s) - i + 1 : back[j] = s[i + j - 1]
  BY <1>1, SubSeqProperties
<1>3. mid \in Seq(S) /\ Len(mid) = 1 /\ mid[1] = e
  OBVIOUS
<1>4. InsertAt(s, i, e) = (front \o mid) \o back
  BY DEF InsertAt
<1> HIDE DEF front, mid, back
<1>5. /\ front \o mid \in Seq(S) /\ Len(front \o mid) = i
      /\ \A j \in 1 .. i : (front \o mid)[j] = IF j <= i - 1 THEN front[j] ELSE mid[j - (i - 1)]
  <2>1. /\ front \o mid \in Seq(S) /\ Len(front \o mid) = Len(front) + Len(mid)
        /\ \A j \in 1 .. Len(front) + Len(mid) :
             (front \o mid)[j] = IF j <= Len(front) THEN front[j] ELSE mid[j - Len(front)]
    BY <1>1, <1>3, ConcatProperties
  <2>2. Len(front) + Len(mid) = i
    BY <1>1, <1>3
  <2> QED  BY <1>1, <2>1, <2>2
<1> DEFINE most == front \o mid
<1>6. \A j \in 1 .. i : most[j] = IF j < i THEN s[j] ELSE e
  BY <1>1, <1>3, <1>5
<1>7. most \in Seq(S) /\ Len(most) = i
  BY <1>5
<1> HIDE DEF most
<1>8. /\ most \o back \in Seq(S) /\ Len(most \o back) = Len(s) + 1
      /\ \A j \in 1 .. Len(s) + 1 :
           (most \o back)[j] = IF j <= i THEN most[j] ELSE back[j - i]
  <2>1. /\ most \o back \in Seq(S) /\ Len(most \o back) = Len(most) + Len(back)
        /\ \A j \in 1 .. Len(most) + Len(back) :
             (most \o back)[j] = IF j <= Len(most) THEN most[j] ELSE back[j - Len(most)]
    BY <1>2, <1>7, ConcatProperties
  <2>2. Len(most) + Len(back) = Len(s) + 1
    BY <1>1, <1>2, <1>7
  <2> QED  BY <1>7, <2>1, <2>2
<1>9. ASSUME NEW j \in 1 .. Len(s) + 1
      PROVE  (most \o back)[j] = IF j < i THEN s[j] ELSE IF j = i THEN e ELSE s[j - 1]
  <2>1. CASE j <= i
    BY <2>1, <1>6, <1>8
  <2>2. CASE ~ j <= i
    <3>1. j - i \in 1 .. Len(s) - i + 1 /\ i + (j - i) - 1 = j - 1
      BY <1>1, <2>2
    <3> QED  BY <1>2, <1>8, <2>2, <3>1
  <2> QED  BY <2>1, <2>2
<1> QED  BY <1>4, <1>8, <1>9 DEF most, Inserted

\* A function on 1 .. n is a sequence of length n.
LEMMA FunctionIsSeq ==
  ASSUME NEW S, NEW n \in Nat, NEW f \in [1 .. n -> S]
  PROVE  f \in Seq(S) /\ Len(f) = n
OBVIOUS

(***************************************************************************)
(* An insertion at the end is an Append.                                    *)
(***************************************************************************)
LEMMA InsertAtEnd ==
  ASSUME NEW S, NEW s \in Seq(S), NEW e \in S
  PROVE  InsertAt(s, Len(s) + 1, e) = Append(s, e)
<1>1. Len(s) \in Nat /\ Len(s) + 1 \in 1 .. Len(s) + 1
  BY LenProperties
<1>2. PICK i : i = Len(s) + 1
  OBVIOUS
<1>3. /\ InsertAt(s, i, e) \in Seq(S) /\ Len(InsertAt(s, i, e)) = Len(s) + 1
      /\ \A j \in 1 .. Len(s) + 1 :
           InsertAt(s, i, e)[j] = IF j < i THEN s[j] ELSE IF j = i THEN e ELSE s[j - 1]
  <2>1. /\ InsertAt(s, i, e) \in Seq(S) /\ Len(InsertAt(s, i, e)) = Len(s) + 1
        /\ \A j \in 1 .. Len(s) + 1 : InsertAt(s, i, e)[j] = Inserted(s, i, e, j)
    BY <1>1, <1>2, InsertAtElements, Zenon
  <2> QED  BY <2>1, Zenon DEF Inserted
<1>4. /\ Append(s, e) \in Seq(S) /\ Len(Append(s, e)) = Len(s) + 1
      /\ \A j \in 1 .. Len(s) : Append(s, e)[j] = s[j]
      /\ Append(s, e)[Len(s) + 1] = e
  BY AppendProperties
<1>5. \A j \in 1 .. Len(s) + 1 : InsertAt(s, i, e)[j] = Append(s, e)[j]
  <2> SUFFICES ASSUME NEW j \in 1 .. Len(s) + 1
               PROVE  InsertAt(s, i, e)[j] = Append(s, e)[j]
    OBVIOUS
  <2>1. CASE j = i
    BY <2>1, <1>2, <1>3, <1>4
  <2>2. CASE j # i
    BY <2>2, <1>1, <1>2, <1>3, <1>4
  <2> QED  BY <2>1, <2>2
<1> QED  BY <1>2, <1>3, <1>4, <1>5, SeqEqual

(***************************************************************************)
(* The rest of a sequence from a place on: it grows with the sequence, and  *)
(* is the same when the sequence loses an element before that place.        *)
(***************************************************************************)
LEMMA SuffixElements ==
  ASSUME NEW S, NEW s \in Seq(S), NEW k \in 1 .. Len(s)
  PROVE  /\ SubSeq(s, k, Len(s)) \in Seq(S)
         /\ Len(SubSeq(s, k, Len(s))) = Len(s) - k + 1
         /\ \A i \in 1 .. Len(s) - k + 1 : SubSeq(s, k, Len(s))[i] = s[k + i - 1]
<1>1. Len(s) \in Nat /\ \A i \in k .. Len(s) : s[i] \in S
  BY LenProperties, ElementOfSeq
<1> QED  BY <1>1, SubSeqProperties

LEMMA SuffixGrows ==
  ASSUME NEW S, NEW s \in Seq(S), NEW e \in S, NEW k \in 1 .. Len(s)
  PROVE  SubSeq(Append(s, e), k, Len(Append(s, e))) = Append(SubSeq(s, k, Len(s)), e)
<1>1. PICK a, t : a = Append(s, e) /\ t = SubSeq(s, k, Len(s))
  OBVIOUS
<1>2. /\ a \in Seq(S) /\ Len(a) = Len(s) + 1 /\ Len(s) \in Nat
      /\ \A j \in 1 .. Len(s) : a[j] = s[j]
      /\ a[Len(s) + 1] = e
  BY <1>1, AppendProperties, LenProperties
<1>3. /\ t \in Seq(S) /\ Len(t) = Len(s) - k + 1
      /\ \A i \in 1 .. Len(s) - k + 1 : t[i] = s[k + i - 1]
  BY <1>1, SuffixElements
<1>4. k \in 1 .. Len(a)
  BY <1>2
<1>5. PICK b, c : b = SubSeq(a, k, Len(a)) /\ c = Append(t, e)
  OBVIOUS
<1>6. /\ b \in Seq(S) /\ Len(b) = Len(a) - k + 1
      /\ \A i \in 1 .. Len(a) - k + 1 : b[i] = a[k + i - 1]
  BY <1>2, <1>4, <1>5, SuffixElements
<1>7. /\ c \in Seq(S) /\ Len(c) = Len(t) + 1
      /\ \A i \in 1 .. Len(t) : c[i] = t[i]
      /\ c[Len(t) + 1] = e
  <2>1. t \in Seq(S)
    BY <1>3
  <2> QED  BY <2>1, <1>5, AppendProperties
<1>8. ASSUME NEW i \in 1 .. Len(b) PROVE b[i] = c[i]
  <2> DEFINE n == Len(s)
  <2>0. /\ n \in Nat /\ k \in 1 .. n /\ Len(a) = n + 1 /\ Len(t) = n - k + 1
        /\ i \in 1 .. n - k + 2
    BY <1>2, <1>3, <1>6
  <2>1. CASE i = Len(t) + 1
    <3>1. k + i - 1 = Len(s) + 1 /\ i \in 1 .. Len(a) - k + 1
      BY <2>1, <1>2, <1>3
    <3> QED  BY <2>1, <3>1, <1>2, <1>6, <1>7
  <2>2. CASE i # Len(t) + 1
    <3>1. i \in 1 .. Len(t) /\ k + i - 1 \in 1 .. Len(s) /\ i \in 1 .. Len(a) - k + 1
      BY <2>0, <2>2
    <3>2. b[i] = s[k + i - 1] /\ c[i] = s[k + i - 1]
      BY <3>1, <1>2, <1>3, <1>6, <1>7
    <3> QED  BY <3>2
  <2> QED  BY <2>1, <2>2
<1>9. b = c
  BY <1>2, <1>3, <1>6, <1>7, <1>8, SeqEqual, SMTT(30)
<1> QED  BY <1>1, <1>5, <1>9

LEMMA SuffixStays ==
  ASSUME NEW S, NEW s \in Seq(S), NEW k \in 1 .. Len(s), NEW j \in k + 1 .. Len(s)
  PROVE  SubSeq(RemoveAt(s, k), j - 1, Len(s) - 1) = SubSeq(s, j, Len(s))
<1>1. PICK r, t : r = RemoveAt(s, k) /\ t = SubSeq(s, j, Len(s))
  OBVIOUS
<1>2. /\ r \in Seq(S) /\ Len(r) = Len(s) - 1 /\ Len(s) \in Nat
      /\ \A i \in 1 .. Len(s) - 1 : r[i] = s[IF i < k THEN i ELSE i + 1]
  BY <1>1, RemoveAtElements, LenProperties
<1>3. /\ t \in Seq(S) /\ Len(t) = Len(s) - j + 1
      /\ \A i \in 1 .. Len(s) - j + 1 : t[i] = s[j + i - 1]
  BY <1>1, SuffixElements
<1>4. j - 1 \in 1 .. Len(r)
  BY <1>2
<1>5. PICK b : b = SubSeq(r, j - 1, Len(r))
  OBVIOUS
<1>6. /\ b \in Seq(S) /\ Len(b) = Len(r) - (j - 1) + 1
      /\ \A i \in 1 .. Len(r) - (j - 1) + 1 : b[i] = r[(j - 1) + i - 1]
  <2>1. PICK m : m = j - 1
    OBVIOUS
  <2>2. /\ SubSeq(r, m, Len(r)) \in Seq(S)
        /\ Len(SubSeq(r, m, Len(r))) = Len(r) - m + 1
        /\ \A i \in 1 .. Len(r) - m + 1 : SubSeq(r, m, Len(r))[i] = r[m + i - 1]
    BY <1>2, <1>4, <2>1, SuffixElements
  <2> QED  BY <1>5, <2>1, <2>2
<1>7. ASSUME NEW i \in 1 .. Len(b) PROVE b[i] = t[i]
  <2>1. /\ (j - 1) + i - 1 \in 1 .. Len(s) - 1 /\ ~ (j - 1) + i - 1 < k
        /\ ((j - 1) + i - 1) + 1 = j + i - 1
        /\ i \in 1 .. Len(s) - j + 1 /\ i \in 1 .. Len(r) - (j - 1) + 1
    BY <1>2, <1>6
  <2>2. b[i] = r[(j - 1) + i - 1] /\ r[(j - 1) + i - 1] = s[j + i - 1]
    BY <2>1, <1>2, <1>6
  <2> QED  BY <2>1, <2>2, <1>3
<1>8. b = t
  <2>1. Len(b) = Len(t)
    BY <1>2, <1>3, <1>6
  <2> QED  BY <2>1, <1>3, <1>6, <1>7, SeqEqual
<1> QED  BY <1>1, <1>2, <1>5, <1>8

\* The set of a sequence's elements.
LEMMA ToSetIs ==
  ASSUME NEW S, NEW s \in Seq(S)
  PROVE  ToSet(s) = {s[i] : i \in 1 .. Len(s)} /\ ToSet(s) \subseteq S
<1>1. s \in [1 .. Len(s) -> S] /\ DOMAIN s = 1 .. Len(s)
  BY LenProperties
<1> QED  BY <1>1 DEF ToSet

(***************************************************************************)
(* A new element at the end.                                                *)
(***************************************************************************)
LEMMA AppendElements ==
  ASSUME NEW S, NEW s \in Seq(S), NEW e \in S
  PROVE  /\ Append(s, e) \in Seq(S)
         /\ ToSet(Append(s, e)) = ToSet(s) \cup {e}
         /\ IsInjective(s) /\ e \notin ToSet(s) => IsInjective(Append(s, e))
<1> DEFINE a == Append(s, e)
<1>1. /\ a \in Seq(S) /\ Len(a) = Len(s) + 1 /\ Len(s) \in Nat
      /\ \A i \in 1 .. Len(s) : a[i] = s[i]
      /\ a[Len(s) + 1] = e
  BY AppendProperties, LenProperties
<1>2. DOMAIN a = 1 .. Len(s) + 1 /\ DOMAIN s = 1 .. Len(s)
  BY <1>1, LenProperties
<1> HIDE DEF a
<1>3. ToSet(a) = ToSet(s) \cup {e}
  <2>1. \A i \in DOMAIN a : a[i] \in ToSet(s) \cup {e}
    BY <1>1, <1>2 DEF ToSet
  <2>2. \A i \in DOMAIN s : i \in DOMAIN a /\ a[i] = s[i]
    BY <1>1, <1>2
  <2>3. Len(s) + 1 \in DOMAIN a
    BY <1>1, <1>2
  <2> QED  BY <1>1, <2>1, <2>2, <2>3 DEF ToSet
<1>4. ASSUME IsInjective(s), e \notin ToSet(s) PROVE IsInjective(a)
  <2>1. \A i \in DOMAIN s : s[i] # e
    BY <1>4 DEF ToSet
  <2>2. \A i \in DOMAIN a : i \in DOMAIN s \/ i = Len(s) + 1
    BY <1>1, <1>2
  <2> QED  BY <1>1, <1>2, <1>4, <2>1, <2>2 DEF IsInjective
<1> QED  BY <1>1, <1>3, <1>4 DEF a

(***************************************************************************)
(* Two sequences with nothing in common, one after the other.               *)
(***************************************************************************)
LEMMA ConcatElements ==
  ASSUME NEW S, NEW s \in Seq(S), NEW t \in Seq(S), IsInjective(s), IsInjective(t),
         ToSet(s) \cap ToSet(t) = {}
  PROVE  /\ s \o t \in Seq(S) /\ IsInjective(s \o t)
         /\ ToSet(s \o t) \subseteq ToSet(s) \cup ToSet(t)
<1> DEFINE u == s \o t
<1>1. /\ u \in Seq(S) /\ Len(u) = Len(s) + Len(t) /\ Len(s) \in Nat /\ Len(t) \in Nat
      /\ \A i \in 1 .. Len(u) : u[i] = IF i <= Len(s) THEN s[i] ELSE t[i - Len(s)]
  BY ConcatProperties, LenProperties
<1>2. /\ DOMAIN u = 1 .. Len(u) /\ DOMAIN s = 1 .. Len(s) /\ DOMAIN t = 1 .. Len(t)
  BY <1>1, LenProperties
<1> HIDE DEF u
<1>3. \A i \in DOMAIN u : \/ i \in DOMAIN s /\ u[i] = s[i]
                          \/ /\ i \notin DOMAIN s /\ i - Len(s) \in DOMAIN t
                             /\ u[i] = t[i - Len(s)]
  BY <1>1, <1>2
<1>4. \A i, j \in DOMAIN u : i - Len(s) = j - Len(s) => i = j
  BY <1>1, <1>2
<1>5. \A i \in DOMAIN s, j \in DOMAIN t : s[i] # t[j]
  BY DEF ToSet
<1>6. IsInjective(u)
  BY <1>3, <1>4, <1>5 DEF IsInjective
<1>7. ToSet(u) \subseteq ToSet(s) \cup ToSet(t)
  BY <1>3 DEF ToSet
<1> QED  BY <1>1, <1>6, <1>7 DEF u

(***************************************************************************)
(* Without the element at a place.                                          *)
(***************************************************************************)
LEMMA RemoveAtLeaves ==
  ASSUME NEW S, NEW s \in Seq(S), NEW i \in 1 .. Len(s), IsInjective(s)
  PROVE  /\ RemoveAt(s, i) \in Seq(S)
         /\ ToSet(RemoveAt(s, i)) = ToSet(s) \ {s[i]}
         /\ IsInjective(RemoveAt(s, i))
<1> DEFINE r == RemoveAt(s, i)
           old(j) == IF j < i THEN j ELSE j + 1
           new(j) == IF j < i THEN j ELSE j - 1
<1>1. /\ r \in Seq(S) /\ Len(r) = Len(s) - 1 /\ Len(s) \in Nat
      /\ \A j \in 1 .. Len(s) - 1 : r[j] = s[old(j)]
  BY RemoveAtElements, LenProperties
<1>2. DOMAIN r = 1 .. Len(s) - 1 /\ DOMAIN s = 1 .. Len(s)
  BY <1>1, LenProperties
<1> HIDE DEF r
<1>3. \A j \in DOMAIN r : old(j) \in DOMAIN s /\ old(j) # i
  BY <1>1, <1>2
<1>4. \A j, m \in DOMAIN r : old(j) = old(m) => j = m
  BY <1>1, <1>2
<1>5. \A j \in DOMAIN s : j # i => new(j) \in DOMAIN r /\ old(new(j)) = j
  BY <1>1, <1>2
<1>6. \A j \in DOMAIN r : r[j] = s[old(j)]
  BY <1>1, <1>2
<1>7. i \in DOMAIN s
  BY <1>2
<1> HIDE DEF old, new
<1>8. IsInjective(r)
  BY <1>3, <1>4, <1>6 DEF IsInjective
<1>9. ToSet(r) = ToSet(s) \ {s[i]}
  <2>1. ASSUME NEW j \in DOMAIN r PROVE r[j] \in ToSet(s) \ {s[i]}
    BY <1>3, <1>6, <1>7 DEF ToSet, IsInjective
  <2>2. ASSUME NEW j \in DOMAIN s, s[j] # s[i] PROVE s[j] \in ToSet(r)
    <3>1. new(j) \in DOMAIN r /\ r[new(j)] = s[j]
      BY <2>2, <1>5, <1>6
    <3> QED  BY <3>1 DEF ToSet
  <2> QED  BY <2>1, <2>2 DEF ToSet
<1> QED  BY <1>1, <1>8, <1>9 DEF r

(***************************************************************************)
(* The head and the tail.                                                   *)
(***************************************************************************)
LEMMA HeadTailElements ==
  ASSUME NEW S, NEW s \in Seq(S), s # << >>, IsInjective(s)
  PROVE  /\ Head(s) \in ToSet(s) /\ Tail(s) \in Seq(S)
         /\ ToSet(Tail(s)) = ToSet(s) \ {Head(s)}
         /\ IsInjective(Tail(s))
<1> DEFINE t == Tail(s)
<1>1. /\ t \in Seq(S) /\ Len(t) = Len(s) - 1 /\ Len(s) \in Nat
      /\ \A j \in 1 .. Len(t) : t[j] = s[j + 1]
  BY HeadTailProperties, LenProperties
<1>2. DOMAIN t = 1 .. Len(s) - 1 /\ DOMAIN s = 1 .. Len(s) /\ 1 \in DOMAIN s
  <2>1. Len(s) # 0
    BY EmptySeq
  <2> QED  BY <1>1, <2>1, LenProperties
<1>3. Head(s) = s[1]
  OBVIOUS
<1> HIDE DEF t
<1>4. \A j \in DOMAIN t : j + 1 \in DOMAIN s /\ t[j] = s[j + 1] /\ j + 1 # 1
  BY <1>1, <1>2
<1>5. \A j \in DOMAIN s : j # 1 => j - 1 \in DOMAIN t /\ t[j - 1] = s[j]
  BY <1>1, <1>2
<1>6. IsInjective(t)
  <2>1. ASSUME NEW i \in DOMAIN t, NEW j \in DOMAIN t, t[i] = t[j] PROVE i = j
    <3>1. i + 1 = j + 1
      BY <1>4, <2>1 DEF IsInjective
    <3> QED  BY <1>1, <1>2, <3>1
  <2> QED  BY <2>1 DEF IsInjective
<1>7. ToSet(t) = ToSet(s) \ {s[1]}
  <2>1. ASSUME NEW j \in DOMAIN t PROVE t[j] \in ToSet(s) \ {s[1]}
    BY <1>2, <1>4 DEF ToSet, IsInjective
  <2>2. ASSUME NEW j \in DOMAIN s, s[j] # s[1] PROVE s[j] \in ToSet(t)
    BY <1>5, <2>2 DEF ToSet
  <2> QED  BY <2>1, <2>2 DEF ToSet
<1> QED  BY <1>1, <1>2, <1>3, <1>6, <1>7 DEF t, ToSet
===============================================================================
