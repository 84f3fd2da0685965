------------------------------- MODULE Md5Proofs ------------------------------
(***************************************************************************)
(* The blocks that MD5 hashes are those of the padded message, however the  *)
(* calls cut it, for words and blocks of any size that fit each other.      *)
(***************************************************************************)
EXTENDS Md5, SequenceTheorems, TLAPS

(***************************************************************************)
(* Division with a remainder, which gives \div and % and only them.         *)
(***************************************************************************)
LEMMA DivMod ==
  ASSUME NEW a \in Int, NEW b \in Nat \ {0}
  PROVE  /\ a \div b \in Int /\ a % b \in 0 .. b - 1
         /\ a = b * (a \div b) + (a % b)
OBVIOUS

LEMMA OneQuotient ==
  ASSUME NEW b \in Nat \ {0}, NEW q \in Int, NEW p \in Int,
         NEW r \in 0 .. b - 1, NEW s \in 0 .. b - 1,
         b * q + r = b * p + s
  PROVE  q = p /\ r = s
<1>1. b * (q - p) = s - r
  OBVIOUS
<1>2. CASE q - p >= 1
  <2>1. b * (q - p) >= b
    BY <1>2
  <2> QED  BY <2>1, <1>1
<1>3. CASE q - p <= -1
  <2>1. b * (q - p) <= -b
    BY <1>3
  <2> QED  BY <2>1, <1>1
<1>4. CASE q = p
  BY <1>1, <1>4
<1> QED  BY <1>2, <1>3, <1>4

LEMMA DivModIs ==
  ASSUME NEW b \in Nat \ {0}, NEW q \in Int, NEW r \in 0 .. b - 1,
         NEW a \in Int, a = b * q + r
  PROVE  a % b = r /\ a \div b = q
<1>1. a \div b \in Int /\ a % b \in 0 .. b - 1 /\ a = b * (a \div b) + (a % b)
  BY DivMod
<1> QED  BY <1>1, OneQuotient

LEMMA ModShifts ==
  ASSUME NEW b \in Nat \ {0}, NEW a \in Int, NEW k \in Int
  PROVE  (a + b * k) % b = a % b
<1>1. PICK q, r : q = a \div b /\ r = a % b
  OBVIOUS
<1>2. q \in Int /\ r \in 0 .. b - 1 /\ a = b * q + r
  BY <1>1, DivMod
<1>3. PICK c, p : c = a + b * k /\ p = q + k
  OBVIOUS
<1>4. c \in Int /\ p \in Int /\ c = b * p + r
  BY <1>2, <1>3
<1>5. c % b = r
  BY <1>2, <1>4, DivModIs, ZenonT(60)
<1> QED  BY <1>1, <1>3, <1>5

-------------------------------------------------------------------------------
(***************************************************************************)
(* The elements of a piece of a sequence, of two sequences joined, of a     *)
(* message and of zeros.                                                    *)
(***************************************************************************)
IsPiece(p, s, m, n) == /\ Len(p) = n - m + 1
                       /\ \A i \in 1 .. n - m + 1 : p[i] = s[m + i - 1]

IsJoin(u, s, t) == /\ Len(u) = Len(s) + Len(t)
                   /\ \A i \in 1 .. Len(s) : u[i] = s[i]
                   /\ \A i \in 1 .. Len(t) : u[Len(s) + i] = t[i]

IsMessage(p, m, n) == /\ Len(p) = n - m + 1
                      /\ \A i \in 1 .. n - m + 1 : p[i] = Byte(m + i - 1)

IsZeros(p, n) == Len(p) = n /\ \A i \in 1 .. n : p[i] = Zero

Regroups(s, t, u) == (s \o t) \o u = s \o (t \o u)

LEMMA Regrouped ==
  ASSUME NEW S, NEW s \in Seq(S), NEW t \in Seq(S), NEW u \in Seq(S)
  PROVE  Regroups(s, t, u)
BY ConcatAssociative DEF Regroups

LEMMA PieceIs ==
  ASSUME NEW S, NEW s \in Seq(S), NEW m \in Nat, NEW n \in Nat,
         1 <= m, m <= n + 1, n <= Len(s)
  PROVE  SubSeq(s, m, n) \in Seq(S) /\ IsPiece(SubSeq(s, m, n), s, m, n)
<1>1. Len(s) \in Nat /\ \A i \in m .. n : s[i] \in S
  BY LenProperties, ElementOfSeq
<1> QED  BY <1>1, SubSeqProperties DEF IsPiece

LEMMA JoinIs ==
  ASSUME NEW S, NEW s \in Seq(S), NEW t \in Seq(S)
  PROVE  s \o t \in Seq(S) /\ IsJoin(s \o t, s, t)
<1>1. Len(s) \in Nat /\ Len(t) \in Nat
  BY LenProperties
<1> QED  BY <1>1, ConcatProperties DEF IsJoin

LEMMA MessageIs ==
  ASSUME NEW S, NEW m \in Nat, NEW n \in Nat, m <= n + 1, \A i \in m .. n : Byte(i) \in S
  PROVE  Message(m, n) \in Seq(S) /\ IsMessage(Message(m, n), m, n)
<1>1. Message(m, n) = [i \in 1 .. n - m + 1 |-> Byte(m + i - 1)]
  BY DEF Message
<1>2. [i \in 1 .. n - m + 1 |-> Byte(m + i - 1)] \in [1 .. n - m + 1 -> S]
  <2>1. \A i \in 1 .. n - m + 1 : m + i - 1 \in m .. n
    OBVIOUS
  <2> QED  BY <2>1
<1> QED  BY <1>1, <1>2 DEF IsMessage

LEMMA ZerosAre ==
  ASSUME NEW S, Zero \in S, NEW n \in Nat
  PROVE  Zeros(n) \in Seq(S) /\ IsZeros(Zeros(n), n)
BY DEF Zeros, IsZeros

-------------------------------------------------------------------------------
(***************************************************************************)
(* Adjacent pieces of a message, and zeros, join.                           *)
(***************************************************************************)
LEMMA MessageJoins ==
  ASSUME NEW m \in Nat, NEW n \in Nat, m <= n
  PROVE  Message(1, m) \o Message(m + 1, n) = Message(1, n)
<1> DEFINE S == {Byte(i) : i \in Nat}
<1>1. \A i \in Nat : Byte(i) \in S
  OBVIOUS
<1>2. /\ 1 \in Nat /\ m + 1 \in Nat
      /\ 1 <= m + 1 /\ m + 1 <= n + 1 /\ 1 <= n + 1
      /\ \A i \in 1 .. n : i \in Nat
      /\ \A i \in 1 .. m : i \in Nat
      /\ \A i \in m + 1 .. n : i \in Nat
  OBVIOUS
<1> HIDE DEF S
<1>3. PICK a, b, c, d : /\ a = Message(1, m) /\ b = Message(m + 1, n)
                        /\ c = Message(1, n) /\ d = a \o b
  OBVIOUS
<1>4. a \in Seq(S) /\ IsMessage(a, 1, m)
  BY <1>1, <1>2, <1>3, MessageIs, Zenon
<1>5. b \in Seq(S) /\ IsMessage(b, m + 1, n)
  BY <1>1, <1>2, <1>3, MessageIs, Zenon
<1>6. c \in Seq(S) /\ IsMessage(c, 1, n)
  BY <1>1, <1>2, <1>3, MessageIs, Zenon
<1>7. d \in Seq(S) /\ IsJoin(d, a, b)
  BY <1>3, <1>4, <1>5, JoinIs, Zenon
<1>8. /\ Len(a) = m /\ \A i \in 1 .. m : a[i] = Byte(i)
      /\ Len(b) = n - m /\ \A i \in 1 .. n - m : b[i] = Byte(m + i)
      /\ Len(c) = n /\ \A i \in 1 .. n : c[i] = Byte(i)
  <2>1. /\ m - 1 + 1 = m /\ n - 1 + 1 = n /\ n - (m + 1) + 1 = n - m
        /\ \A i \in 1 .. n : 1 + i - 1 = i /\ m + 1 + i - 1 = m + i
        /\ 1 .. m \subseteq 1 .. n /\ 1 .. n - m \subseteq 1 .. n
    OBVIOUS
  <2>2. Len(a) = m /\ \A i \in 1 .. m : a[i] = Byte(i)
    BY <2>1, <1>4, Zenon DEF IsMessage
  <2>3. Len(b) = n - m /\ \A i \in 1 .. n - m : b[i] = Byte(m + i)
    BY <2>1, <1>5, Zenon DEF IsMessage
  <2>4. Len(c) = n /\ \A i \in 1 .. n : c[i] = Byte(i)
    BY <2>1, <1>6, Zenon DEF IsMessage
  <2> QED  BY <2>2, <2>3, <2>4
<1>9. /\ Len(d) = n /\ \A i \in 1 .. m : d[i] = a[i]
      /\ \A i \in 1 .. n - m : d[m + i] = b[i]
  BY <1>7, <1>8 DEF IsJoin
<1>10. ASSUME NEW i \in 1 .. Len(d) PROVE d[i] = c[i]
  <2>1. CASE i <= m
    BY <2>1, <1>8, <1>9
  <2>2. CASE ~ i <= m
    <3>1. i - m \in 1 .. n - m /\ m + (i - m) = i
      BY <2>2, <1>9
    <3> QED  BY <3>1, <1>8, <1>9
  <2> QED  BY <2>1, <2>2
<1>11. d = c
  BY <1>6, <1>7, <1>8, <1>9, <1>10, SeqEqual, Zenon
<1> QED  BY <1>3, <1>11

LEMMA ZerosJoin ==
  ASSUME NEW m \in Nat, NEW n \in Nat
  PROVE  Zeros(m) \o Zeros(n) = Zeros(m + n)
<1> DEFINE S == {Zero}
<1>1. Zero \in S /\ m + n \in Nat
  OBVIOUS
<1> HIDE DEF S
<1>2. PICK a, b, c, d : a = Zeros(m) /\ b = Zeros(n) /\ c = Zeros(m + n) /\ d = a \o b
  OBVIOUS
<1>3. /\ a \in Seq(S) /\ IsZeros(a, m) /\ b \in Seq(S) /\ IsZeros(b, n)
      /\ c \in Seq(S) /\ IsZeros(c, m + n)
  BY <1>1, <1>2, ZerosAre, Zenon
<1>4. d \in Seq(S) /\ IsJoin(d, a, b)
  BY <1>2, <1>3, JoinIs, Zenon
<1>5. /\ Len(d) = m + n /\ Len(c) = m + n
      /\ \A i \in 1 .. m : d[i] = Zero
      /\ \A i \in 1 .. n : d[m + i] = Zero
      /\ \A i \in 1 .. m + n : c[i] = Zero
  BY <1>3, <1>4 DEF IsZeros, IsJoin
<1>6. ASSUME NEW i \in 1 .. Len(d) PROVE d[i] = c[i]
  <2>1. CASE i <= m
    BY <2>1, <1>5
  <2>2. CASE ~ i <= m
    <3>1. i - m \in 1 .. n /\ m + (i - m) = i
      BY <2>2, <1>5
    <3> QED  BY <3>1, <1>5
  <2> QED  BY <2>1, <2>2
<1>7. d = c
  BY <1>3, <1>4, <1>5, <1>6, SeqEqual, Zenon
<1> QED  BY <1>2, <1>7

-------------------------------------------------------------------------------
(***************************************************************************)
(* Bytes written into a sequence that they fit in change nothing before     *)
(* them, and not its length.                                                *)
(***************************************************************************)
Overwritten(b, u, t) ==
  SubSeq(b, 1, u) \o t \o SubSeq(b, u + Len(t) + 1, Len(b))

LEMMA OverwrittenIs ==
  ASSUME NEW S, NEW b \in Seq(S), NEW t \in Seq(S), NEW u \in Nat, u + Len(t) <= Len(b)
  PROVE  /\ Overwritten(b, u, t) \in Seq(S) /\ Len(Overwritten(b, u, t)) = Len(b)
         /\ SubSeq(Overwritten(b, u, t), 1, u + Len(t)) = SubSeq(b, 1, u) \o t
<1>1. Len(b) \in Nat /\ Len(t) \in Nat
  BY LenProperties
<1>2. PICK m, n : m = u + Len(t) /\ n = Len(b)
  OBVIOUS
<1>3. PICK a, z, p, w, v : /\ a = SubSeq(b, 1, u) /\ z = SubSeq(b, m + 1, n)
                           /\ p = a \o t /\ w = Overwritten(b, u, t)
                           /\ v = SubSeq(w, 1, m)
  OBVIOUS
<1>4. /\ u \in Nat /\ 1 \in Nat /\ m \in Nat /\ n \in Nat /\ m + 1 \in Nat
      /\ 1 <= 1 /\ 1 <= m + 1 /\ 1 <= u + 1 /\ u <= Len(b)
      /\ m + 1 <= n + 1 /\ n <= Len(b) /\ m <= n
  BY <1>1, <1>2
<1>5. a \in Seq(S) /\ IsPiece(a, b, 1, u)
  BY <1>3, <1>4, PieceIs, Zenon
<1>6. z \in Seq(S) /\ IsPiece(z, b, m + 1, n)
  BY <1>3, <1>4, PieceIs, Zenon
<1>7. p \in Seq(S) /\ IsJoin(p, a, t)
  BY <1>3, <1>5, JoinIs, Zenon
<1>8. w \in Seq(S) /\ IsJoin(w, p, z)
  <2>1. w = p \o z
    BY <1>2, <1>3 DEF Overwritten
  <2> QED  BY <2>1, <1>6, <1>7, JoinIs, Zenon
<1>9. Len(p) = m /\ Len(w) = n /\ \A i \in 1 .. m : w[i] = p[i]
  BY <1>2, <1>4, <1>5, <1>6, <1>7, <1>8 DEF IsPiece, IsJoin
<1>10. v \in Seq(S) /\ IsPiece(v, w, 1, m)
  <2>1. m <= Len(w)
    BY <1>4, <1>9
  <2> QED  BY <2>1, <1>3, <1>4, <1>8, PieceIs, Zenon
<1>11. Len(v) = Len(p) /\ \A i \in 1 .. Len(v) : v[i] = p[i]
  BY <1>4, <1>9, <1>10 DEF IsPiece
<1>12. v = p
  BY <1>7, <1>10, <1>11, SeqEqual, Zenon
<1> QED  BY <1>2, <1>3, <1>8, <1>9, <1>12

LEMMA OverwrittenToTheEnd ==
  ASSUME NEW S, NEW b \in Seq(S), NEW t \in Seq(S), NEW u \in Nat, u + Len(t) = Len(b)
  PROVE  Overwritten(b, u, t) = SubSeq(b, 1, u) \o t
<1>1. PICK w : w = Overwritten(b, u, t)
  OBVIOUS
<1>2. Len(b) \in Nat /\ Len(t) \in Nat
  BY LenProperties
<1>3. w \in Seq(S) /\ Len(w) = Len(b) /\ SubSeq(w, 1, u + Len(t)) = SubSeq(b, 1, u) \o t
  BY <1>1, <1>2, OverwrittenIs
<1>4. SubSeq(w, 1, Len(w)) = w
  BY <1>3, SubSeqFull
<1> QED  BY <1>1, <1>3, <1>4

-------------------------------------------------------------------------------
(***************************************************************************)
(* lo and hi count as one number, whatever the sizes of the words.          *)
(***************************************************************************)
LEMMA Sizes ==
  /\ Block \in Nat \ {0} /\ LenBytes \in Nat \ {0} /\ LenBytes < Block
  /\ LoMod \in Nat \ {0} /\ HiMod \in Nat \ {0} /\ MaxLen \in Nat
BY Md5Assumption

\* A count that wraps at a multiple of b keeps its place among the b's.
LEMMA WrapKeepsPlace ==
  ASSUME NEW b \in Nat \ {0}, NEW m \in Nat \ {0}, m % b = 0, NEW x \in Int
  PROVE  (x % m) % b = x % b
<1>1. PICK k : k = m \div b
  OBVIOUS
<1>2. k \in Int /\ m = b * k
  BY <1>1, DivMod
<1>3. PICK q, r : q = x \div m /\ r = x % m
  OBVIOUS
<1>4. q \in Int /\ r \in Int /\ x = m * q + r
  BY <1>3, DivMod
<1>5. PICK j : j = k * q
  OBVIOUS
<1>6. j \in Int /\ x = r + b * j
  BY <1>2, <1>4, <1>5
<1>7. (r + b * j) % b = r % b
  BY <1>4, <1>6, ModShifts
<1> QED  BY <1>3, <1>6, <1>7

LEMMA CarryIs ==
  ASSUME NEW m \in Nat \ {0}, NEW lo \in 0 .. m - 1, NEW size \in Nat
  PROVE  (lo + size) \div m = (IF (lo + size) % m < lo THEN 1 ELSE 0) + (size \div m)
<1>1. PICK q, r, x : q = size \div m /\ r = size % m /\ x = lo + size
  OBVIOUS
<1>2. q \in Int /\ r \in 0 .. m - 1 /\ size = m * q + r
  BY <1>1, DivMod
<1>3. CASE lo + r < m
  <2>1. PICK s : s = lo + r
    OBVIOUS
  <2>2. s \in 0 .. m - 1 /\ x \in Int /\ x = m * q + s /\ ~ s < lo
    BY <1>1, <1>2, <1>3, <2>1
  <2>3. x % m = s /\ x \div m = q
    BY <1>2, <2>2, DivModIs
  <2>4. (IF s < lo THEN 1 ELSE 0) + q = q
    BY <1>2, <2>2
  <2> QED  BY <1>1, <2>3, <2>4
<1>4. CASE ~ lo + r < m
  <2>1. PICK s, p : s = lo + r - m /\ p = q + 1
    OBVIOUS
  <2>2. s \in 0 .. m - 1 /\ p \in Int /\ x \in Int /\ x = m * p + s /\ s < lo
    BY <1>1, <1>2, <1>4, <2>1
  <2>3. x % m = s /\ x \div m = p
    BY <2>2, DivModIs
  <2>4. (IF s < lo THEN 1 ELSE 0) + q = p
    BY <1>2, <2>1, <2>2
  <2> QED  BY <1>1, <2>3, <2>4
<1> QED  BY <1>3, <1>4

LEMMA WordsAre ==
  ASSUME NEW m \in Nat \ {0}, NEW w \in Nat \ {0}, NEW hi \in Nat, NEW x \in Nat
  PROVE  ((hi + (x \div m)) % w) * m + (x % m) = (hi * m + x) % (w * m)
<1>1. PICK d, l : d = x \div m /\ l = x % m
  OBVIOUS
<1>2. d \in Int /\ l \in 0 .. m - 1 /\ x = m * d + l
  BY <1>1, DivMod
<1>3. PICK s : s = hi + d
  OBVIOUS
<1>4. PICK e, h : e = s \div w /\ h = s % w
  OBVIOUS
<1>5. e \in Int /\ h \in 0 .. w - 1 /\ s = w * e + h
  <2>1. s \in Int
    BY <1>2, <1>3
  <2> QED  BY <2>1, <1>4, DivMod
<1>6. PICK n, y, z : n = w * m /\ y = hi * m + x /\ z = h * m + l
  OBVIOUS
<1>7. n \in Nat \ {0} /\ y \in Int
  <2>1. w >= 1 /\ m >= 1
    OBVIOUS
  <2>2. w * m >= 1
    BY <2>1
  <2> QED  BY <2>2, <1>6
<1>8. z \in 0 .. n - 1
  <2>1. h * m >= 0 /\ (w - 1 - h) * m >= 0
    BY <1>5
  <2> QED  BY <2>1, <1>2, <1>5, <1>6
<1>9. y = n * e + z
  <2>1. y = m * s + l
    BY <1>2, <1>3, <1>6
  <2> QED  BY <2>1, <1>2, <1>5, <1>6
<1>10. y % n = z
  BY <1>5, <1>7, <1>8, <1>9, DivModIs
<1> QED  BY <1>1, <1>3, <1>4, <1>6, <1>10

\* A number that is kept modulo w * m is known in both words.
InWords(lo, hi, m, w, x) == lo = x % m /\ hi = (x \div m) % w

LEMMA WordsHold ==
  ASSUME NEW m \in Nat \ {0}, NEW w \in Nat \ {0},
         NEW hi \in 0 .. w - 1, NEW lo \in 0 .. m - 1, NEW x \in Nat,
         NEW n, n = w * m, hi * m + lo = x % n
  PROVE  InWords(lo, hi, m, w, x)
<1>1. n \in Nat \ {0}
  <2>1. w >= 1 /\ m >= 1
    OBVIOUS
  <2>2. w * m >= 1
    BY <2>1
  <2> QED  BY <2>2
<1>2. PICK k \in Int : x = n * k + (hi * m + lo)
  <2>1. x \in Int
    OBVIOUS
  <2>2. x \div n \in Int /\ x = n * (x \div n) + (x % n)
    BY <2>1, <1>1, DivMod, ZenonT(60)
  <2> QED  BY <2>2, Zenon
<1>3. PICK d : d = w * k + hi
  OBVIOUS
<1>4. d \in Int /\ x = m * d + lo
  BY <1>2, <1>3
<1>5. x % m = lo /\ x \div m = d
  BY <1>4, DivModIs
<1>6. d % w = hi
  BY <1>3, <1>4, DivModIs
<1> QED  BY <1>5, <1>6, Zenon DEF InWords

-------------------------------------------------------------------------------
(***************************************************************************)
(* What a context holds: the blocks absorbed and the used part of the       *)
(* buffer.                                                                  *)
(***************************************************************************)
Sound(c) == c \in Context /\ Len(c.buffer) = Block /\ Len(c.absorbed) % Block = 0

Held(c) == c.absorbed \o SubSeq(c.buffer, 1, c.lo % Block)

SameCount(r, c) == r.lo = c.lo /\ r.hi = c.hi

IsFilled(r, c, u, t) ==
  /\ SameCount(r, c) /\ r.absorbed = c.absorbed /\ Len(r.buffer) = Block
  /\ r.buffer = Overwritten(c.buffer, u, t)
  /\ SubSeq(r.buffer, 1, u + Len(t)) = SubSeq(c.buffer, 1, u) \o t

IsBody(r, c, t) ==
  SameCount(r, c) /\ r.buffer = c.buffer /\ r.absorbed = c.absorbed \o t

LEMMA ContextParts ==
  ASSUME NEW c \in Context
  PROVE  /\ c.lo \in 0 .. LoMod - 1 /\ c.hi \in 0 .. HiMod - 1
         /\ c.buffer \in Seq(Bytes) /\ c.absorbed \in Seq(Bytes)
BY DEF Context

LEMMA FilledIs ==
  ASSUME NEW c \in Context, Len(c.buffer) = Block,
         NEW u \in Nat, NEW t \in Seq(Bytes), u + Len(t) <= Block
  PROVE  Filled(c, u, t) \in Context /\ IsFilled(Filled(c, u, t), c, u, t)
<1>1. PICK w : w = Overwritten(c.buffer, u, t)
  OBVIOUS
<1>2. /\ w \in Seq(Bytes) /\ Len(w) = Block
      /\ SubSeq(w, 1, u + Len(t)) = SubSeq(c.buffer, 1, u) \o t
  BY <1>1, ContextParts, OverwrittenIs
<1>3. Filled(c, u, t) = [c EXCEPT !.buffer = w]
  BY <1>1 DEF Filled, Overwritten
<1> QED  BY <1>1, <1>2, <1>3 DEF Context, IsFilled, SameCount

LEMMA BodyIs ==
  ASSUME NEW c \in Context, NEW t \in Seq(Bytes)
  PROVE  body(c, t) \in Context /\ IsBody(body(c, t), c, t)
<1>1. PICK a : a = c.absorbed \o t
  OBVIOUS
<1>2. a \in Seq(Bytes)
  BY <1>1 DEF Context
<1>3. body(c, t) = [c EXCEPT !.absorbed = a]
  BY <1>1 DEF body
<1> QED  BY <1>1, <1>2, <1>3 DEF Context, IsBody, SameCount

LEMMA CountedIs ==
  ASSUME NEW c \in Context, NEW size \in Nat
  PROVE  /\ Counted(c, size) \in Context
         /\ Counted(c, size).buffer = c.buffer /\ Counted(c, size).absorbed = c.absorbed
         /\ Counted(c, size).lo = (c.lo + size) % LoMod
         /\ Counted(c, size).hi = (c.hi + ((c.lo + size) \div LoMod)) % HiMod
<1>1. c.lo \in 0 .. LoMod - 1 /\ c.hi \in 0 .. HiMod - 1
  BY DEF Context
<1>2. PICK x, l, d : x = c.lo + size /\ l = x % LoMod /\ d = x \div LoMod
  OBVIOUS
<1>3. x \in Nat /\ l \in 0 .. LoMod - 1 /\ d \in Int
  <2>1. x \in Nat
    BY <1>1, <1>2, Sizes
  <2> QED  BY <2>1, <1>2, Sizes
<1>4. PICK y, z : y = (IF l < c.lo THEN 1 ELSE 0) /\ z = size \div LoMod
  OBVIOUS
<1>5. d = y + z /\ y \in Int /\ z \in Int
  <2>1. d = y + z
    BY <1>1, <1>2, <1>4, Sizes, CarryIs
  <2> QED  BY <2>1, <1>4, Sizes, DivMod
<1>6. PICK h : h = (c.hi + d) % HiMod
  OBVIOUS
<1>7. h \in 0 .. HiMod - 1
  BY <1>1, <1>3, <1>6, Sizes
<1>8. Counted(c, size) = [c EXCEPT !.lo = l, !.hi = h]
  <2>1. c.hi + y + z = c.hi + d
    BY <1>1, <1>5
  <2> QED  BY <2>1, <1>2, <1>4, <1>6 DEF Counted
<1> QED  BY <1>2, <1>3, <1>6, <1>7, <1>8 DEF Context

-------------------------------------------------------------------------------
(***************************************************************************)
(* The three things MD5_Update does with bytes: it adds them to the used    *)
(* part of the buffer, it tops up and absorbs the buffer, and it absorbs    *)
(* blocks and keeps the rest.                                               *)
(***************************************************************************)
LEMMA AddedIs ==
  ASSUME NEW c, Sound(c), NEW u \in Nat, NEW t \in Seq(Bytes), u + Len(t) < Block,
         c.lo % Block = u + Len(t)
  PROVE  /\ Sound(Filled(c, u, t)) /\ SameCount(Filled(c, u, t), c)
         /\ Held(Filled(c, u, t)) = (c.absorbed \o SubSeq(c.buffer, 1, u)) \o t
<1>1. c \in Context /\ Len(c.buffer) = Block /\ Len(c.absorbed) % Block = 0
  BY DEF Sound
<1>2. PICK r, b : r = Filled(c, u, t) /\ b = SubSeq(c.buffer, 1, u)
  OBVIOUS
<1>3. u + Len(t) <= Block /\ Len(t) \in Nat /\ u <= Block
  BY Sizes, LenProperties
<1>4. r \in Context /\ IsFilled(r, c, u, t)
  BY <1>1, <1>2, <1>3, FilledIs, Zenon
<1>5. b \in Seq(Bytes) /\ c.absorbed \in Seq(Bytes)
  <2>1. u \in Nat /\ 1 \in Nat /\ 1 <= 1 /\ 1 <= u + 1 /\ u <= Len(c.buffer)
    BY <1>1, <1>3
  <2> QED  BY <2>1, <1>1, <1>2, ContextParts, PieceIs, Zenon
<1>6. Held(r) = c.absorbed \o (b \o t)
  BY <1>2, <1>4, Zenon DEF Held, IsFilled, SameCount
<1>7. (c.absorbed \o b) \o t = c.absorbed \o (b \o t)
  <2>1. Regroups(c.absorbed, b, t)
    BY <1>5, Regrouped, Zenon
  <2> QED  BY <2>1 DEF Regroups
<1> QED  BY <1>1, <1>2, <1>4, <1>6, <1>7 DEF Sound, IsFilled

LEMMA AbsorbedLength ==
  ASSUME NEW s \in Seq(Bytes), NEW t \in Seq(Bytes), Len(s) % Block = 0,
         NEW k \in Int, Len(t) = Block * k
  PROVE  Len(s \o t) % Block = 0
<1>1. PICK m, n : m = Len(s) /\ n = Len(t)
  OBVIOUS
<1>2. m \in Int /\ n \in Int /\ Len(s \o t) = m + n
  <2>1. IsJoin(s \o t, s, t)
    BY JoinIs, Zenon
  <2>2. Len(s) \in Nat /\ Len(t) \in Nat
    BY LenProperties
  <2> QED  BY <2>1, <2>2, <1>1 DEF IsJoin
<1>3. (m + Block * k) % Block = m % Block
  BY <1>2, ModShifts, Sizes
<1> QED  BY <1>1, <1>2, <1>3

LEMMA ToppedIs ==
  ASSUME NEW c, Sound(c), NEW u \in 0 .. Block, NEW t \in Seq(Bytes),
         u + Len(t) = Block, NEW f, f = Filled(c, u, t)
  PROVE  /\ Sound(body(f, f.buffer)) /\ SameCount(body(f, f.buffer), c)
         /\ body(f, f.buffer).absorbed = (c.absorbed \o SubSeq(c.buffer, 1, u)) \o t
<1>1. c \in Context /\ Len(c.buffer) = Block /\ Len(c.absorbed) % Block = 0
  BY DEF Sound
<1>2. PICK r, b : r = body(f, f.buffer) /\ b = SubSeq(c.buffer, 1, u)
  OBVIOUS
<1>3. u \in Nat /\ u + Len(t) <= Block /\ u + Len(t) = Len(c.buffer) /\ u <= Block
  BY <1>1, Sizes
<1>4. f \in Context /\ IsFilled(f, c, u, t)
  BY <1>1, <1>3, FilledIs, Zenon
<1>5. c.absorbed \in Seq(Bytes) /\ c.buffer \in Seq(Bytes) /\ f.buffer \in Seq(Bytes)
  BY <1>1, <1>4, ContextParts
<1>6. r \in Context /\ IsBody(r, f, f.buffer)
  BY <1>2, <1>4, <1>5, BodyIs, Zenon
<1>7. f.buffer = b \o t
  <2>1. Overwritten(c.buffer, u, t) = SubSeq(c.buffer, 1, u) \o t
    BY <1>3, <1>5, OverwrittenToTheEnd, Zenon
  <2> QED  BY <2>1, <1>2, <1>4, Zenon DEF IsFilled
<1>8. b \in Seq(Bytes)
  <2>1. 1 \in Nat /\ 1 <= 1 /\ 1 <= u + 1 /\ u <= Len(c.buffer)
    BY <1>1, <1>3
  <2> QED  BY <2>1, <1>2, <1>3, <1>5, PieceIs, Zenon
<1>9. r.absorbed = c.absorbed \o f.buffer
  BY <1>4, <1>6, Zenon DEF IsFilled, IsBody
<1>10. (c.absorbed \o b) \o t = c.absorbed \o (b \o t)
  <2>1. Regroups(c.absorbed, b, t)
    BY <1>5, <1>8, Regrouped, Zenon
  <2> QED  BY <2>1 DEF Regroups
<1>11. Len(r.buffer) = Block /\ Len(f.buffer) = Block * 1
  BY <1>4, <1>6, Sizes DEF IsFilled, IsBody
<1>12. Len(r.absorbed) % Block = 0
  <2>1. 1 \in Int
    OBVIOUS
  <2>2. Len(c.absorbed \o f.buffer) % Block = 0
    BY <2>1, <1>1, <1>5, <1>11, AbsorbedLength, Zenon
  <2> QED  BY <2>2, <1>9, Zenon
<1>13. SameCount(r, c)
  BY <1>4, <1>6, Zenon DEF IsFilled, IsBody, SameCount
<1> QED  BY <1>2, <1>6, <1>7, <1>9, <1>10, <1>11, <1>12, <1>13 DEF Sound

LEMMA RestIs ==
  ASSUME NEW c, Sound(c), NEW a \in Seq(Bytes), NEW k \in Int, Len(a) = Block * k,
         NEW z \in Seq(Bytes), c.lo % Block = Len(z), Len(z) < Block
  PROVE  /\ Sound(Filled(body(c, a), 0, z)) /\ SameCount(Filled(body(c, a), 0, z), c)
         /\ Held(Filled(body(c, a), 0, z)) = (c.absorbed \o a) \o z
<1>1. c \in Context /\ Len(c.buffer) = Block /\ Len(c.absorbed) % Block = 0
  BY DEF Sound
<1>2. PICK b : b = body(c, a)
  OBVIOUS
<1>3. b \in Context /\ IsBody(b, c, a)
  BY <1>1, <1>2, BodyIs, Zenon
<1>4. c.absorbed \in Seq(Bytes) /\ b.absorbed = c.absorbed \o a
  BY <1>1, <1>3, ContextParts DEF IsBody
<1>5. Len(b.absorbed) % Block = 0
  BY <1>1, <1>4, AbsorbedLength
<1>6. Sound(b) /\ b.lo = c.lo
  BY <1>1, <1>3, <1>5 DEF Sound, IsBody, SameCount
<1>7. 0 \in Nat /\ 0 + Len(z) < Block /\ b.lo % Block = 0 + Len(z)
  BY <1>6, LenProperties
<1>8. /\ Sound(Filled(b, 0, z)) /\ SameCount(Filled(b, 0, z), b)
      /\ Held(Filled(b, 0, z)) = (b.absorbed \o SubSeq(b.buffer, 1, 0)) \o z
  BY <1>6, <1>7, AddedIs, Zenon
<1>9. b.absorbed \o SubSeq(b.buffer, 1, 0) = b.absorbed
  <2>1. SubSeq(b.buffer, 1, 0) = << >>
    BY SubSeqEmpty
  <2>2. b.absorbed \in Seq(Bytes)
    BY <1>3, ContextParts
  <2> QED  BY <2>1, <2>2, ConcatEmptySeq
<1> QED  BY <1>2, <1>3, <1>4, <1>8, <1>9, Zenon DEF IsBody, SameCount
-------------------------------------------------------------------------------
(***************************************************************************)
(* A call of MD5_Update adds its bytes to those that the context holds, and *)
(* counts them.                                                             *)
(***************************************************************************)
AreCut(a, b, z, t, m, n, S) ==
  /\ a \in Seq(S) /\ b \in Seq(S) /\ z \in Seq(S)
  /\ Len(a) = m /\ Len(b) = n - m /\ Len(z) = Len(t) - n
  /\ a \o (b \o z) = t

LEMMA CutInThree ==
  ASSUME NEW S, NEW t \in Seq(S), NEW m \in Nat, NEW n \in Nat, m <= n, n <= Len(t)
  PROVE  AreCut(SubSeq(t, 1, m), SubSeq(t, m + 1, n), SubSeq(t, n + 1, Len(t)), t, m, n, S)
<1>1. PICK l : l = Len(t)
  OBVIOUS
<1>2. /\ l \in Nat /\ 1 \in Nat /\ m + 1 \in Nat /\ n + 1 \in Nat
      /\ 1 <= 1 /\ 1 <= m + 1 /\ 1 <= n + 1 /\ m <= Len(t) /\ l <= Len(t)
      /\ m + 1 <= n + 1 /\ n + 1 <= l + 1 /\ 1 <= l + 1
  BY <1>1, LenProperties
<1>3. PICK a, b, z : /\ a = SubSeq(t, 1, m) /\ b = SubSeq(t, m + 1, n)
                     /\ z = SubSeq(t, n + 1, l)
  OBVIOUS
<1>4. a \in Seq(S) /\ IsPiece(a, t, 1, m)
  BY <1>2, <1>3, PieceIs, Zenon
<1>5. b \in Seq(S) /\ IsPiece(b, t, m + 1, n)
  BY <1>2, <1>3, PieceIs, Zenon
<1>6. z \in Seq(S) /\ IsPiece(z, t, n + 1, l)
  BY <1>2, <1>3, PieceIs, Zenon
<1>7. PICK v, w : v = b \o z /\ w = a \o v
  OBVIOUS
<1>8. v \in Seq(S) /\ IsJoin(v, b, z)
  BY <1>5, <1>6, <1>7, JoinIs, Zenon
<1>9. w \in Seq(S) /\ IsJoin(w, a, v)
  BY <1>4, <1>7, <1>8, JoinIs, Zenon
<1>10. /\ Len(a) = m /\ Len(b) = n - m /\ Len(z) = l - n /\ Len(v) = l - m /\ Len(w) = l
       /\ \A i \in 1 .. m : a[i] = t[i]
       /\ \A i \in 1 .. n - m : b[i] = t[m + i]
       /\ \A i \in 1 .. l - n : z[i] = t[n + i]
  BY <1>2, <1>4, <1>5, <1>6, <1>8, <1>9 DEF IsPiece, IsJoin
<1>11. ASSUME NEW i \in 1 .. Len(w) PROVE w[i] = t[i]
  <2>1. CASE i <= m
    BY <2>1, <1>9, <1>10 DEF IsJoin
  <2>2. CASE m < i /\ i <= n
    <3>1. i - m \in 1 .. n - m /\ i - m \in 1 .. l - m /\ m + (i - m) = i
      BY <2>2, <1>1, <1>2
    <3>2. w[i] = v[i - m]
      BY <3>1, <1>9, <1>10 DEF IsJoin
    <3>3. v[i - m] = b[i - m]
      BY <3>1, <1>8, <1>10 DEF IsJoin
    <3> QED  BY <3>1, <3>2, <3>3, <1>10
  <2>3. CASE n < i
    <3>1. i - m \in 1 .. l - m /\ i - n \in 1 .. l - n /\ m + (i - m) = i /\ n + (i - n) = i
          /\ (n - m) + (i - n) = i - m
      BY <2>3, <1>2, <1>10
    <3>2. w[i] = v[i - m]
      BY <3>1, <1>9, <1>10 DEF IsJoin
    <3>3. v[i - m] = z[i - n]
      BY <3>1, <1>8, <1>10 DEF IsJoin
    <3> QED  BY <3>1, <3>2, <3>3, <1>10
  <2> QED  BY <2>1, <2>2, <2>3, <1>2, <1>10
<1>12. w = t
  BY <1>1, <1>9, <1>10, <1>11, SeqEqual, Zenon
<1>13. AreCut(a, b, z, t, m, n, S)
  BY <1>1, <1>4, <1>5, <1>6, <1>7, <1>10, <1>12, Zenon DEF AreCut
<1> QED  BY <1>1, <1>3, <1>13, Zenon

\* What of a call tops up the buffer, and where its blocks end.
TopUp(u) == IF u = 0 THEN 0 ELSE Block - u
Whole(top, size) == top + ((size - top) \div Block) * Block

IsWhole(u, size, top, n) ==
  /\ top \in Nat /\ n \in Nat /\ top <= n /\ n <= size /\ size - n < Block
  /\ (u + size) % Block = size - n
  /\ \E k \in Int : n - top = Block * k

LEMMA WholeIs ==
  ASSUME NEW u \in 0 .. Block - 1, NEW size \in Nat, ~ StillFits(u, size),
         NEW top, top = TopUp(u), NEW n, n = Whole(top, size)
  PROVE  IsWhole(u, size, top, n)
<1>1. Block \in Nat \ {0} /\ u \in Nat /\ u < Block
  BY Sizes
<1>2. /\ top \in Nat /\ top <= size
      /\ u = 0 => top = 0
      /\ u # 0 => u + top = Block
  BY <1>1 DEF TopUp, StillFits
<1>3. PICK d, q, r : d = size - top /\ q = d \div Block /\ r = d % Block
  OBVIOUS
<1>4. d = size - top
  BY <1>3, Zenon
<1>5. d \in Nat /\ q \in Int /\ r \in 0 .. Block - 1 /\ d = Block * q + r
  <2>1. d \in Nat
    BY <1>2, <1>3
  <2>2. d \in Int
    BY <2>1
  <2>3. /\ d \div Block \in Int /\ d % Block \in 0 .. Block - 1
        /\ d = Block * (d \div Block) + (d % Block)
    BY <2>2, <1>1, DivMod, Zenon
  <2> QED  BY <2>1, <2>3, <1>3
<1>6. q >= 0
  <2>1. CASE q <= -1
    <3>1. Block * q <= -Block
      BY <2>1, <1>1, <1>5
    <3> QED  BY <3>1, <1>1, <1>5
  <2> QED  BY <2>1, <1>5
<1>7. PICK j : j = Block * q
  OBVIOUS
<1>8. j \in Nat /\ n = top + j
  <2>1. j \in Nat
    BY <1>1, <1>5, <1>6, <1>7
  <2>2. q * Block = j
    BY <1>1, <1>5, <1>7
  <2>3. n = top + q * Block
    BY <1>3, Zenon DEF Whole
  <2> QED  BY <2>1, <2>2, <2>3
<1>9. r \in Nat /\ size = top + j + r
  <2>1. d = j + r
    BY <1>5, <1>7, Zenon
  <2>2. r \in Nat
    BY <1>5, <1>1
  <2> QED  BY <2>1, <2>2, <1>4, <1>2, <1>8
<1>10. r = size - n /\ n <= size /\ top <= n
  BY <1>9, <1>2, <1>8
<1>11. (u + size) % Block = r
  <2>1. PICK x : x = u + size
    OBVIOUS
  <2>2. PICK p : p \in Int /\ x = Block * p + r
    <3>1. CASE u = 0
      BY <3>1, <2>1, <1>2, <1>5, <1>7, <1>8, <1>9
    <3>2. CASE u # 0
      <4>1. q + 1 \in Int /\ Block * (q + 1) = j + Block
        BY <1>1, <1>5, <1>7
      <4>2. size = top + j + r /\ x = j + Block + r
        BY <3>2, <2>1, <1>1, <1>2, <1>8, <1>9
      <4>3. x = Block * (q + 1) + r
        BY <4>1, <4>2, <1>8, <1>9, <1>1
      <4> QED  BY <4>1, <4>3, Zenon
    <3> QED  BY <3>1, <3>2
  <2>3. x \in Int
    BY <2>1, <1>1
  <2>4. x % Block = r
    BY <2>2, <2>3, <1>1, <1>5, DivModIs, ZenonT(60)
  <2> QED  BY <2>1, <2>4
<1>12. q \in Int /\ n - top = Block * q
  BY <1>2, <1>5, <1>7, <1>8
<1>13. size - n < Block
  BY <1>1, <1>5, <1>10
<1>14. n \in Nat
  BY <1>2, <1>8
<1>15. (u + size) % Block = size - n
  BY <1>10, <1>11, Zenon
<1> QED  BY <1>2, <1>10, <1>12, <1>13, <1>14, <1>15, Zenon DEF IsWhole

LEMMA CountedHolds ==
  ASSUME NEW c, Sound(c), NEW size \in Nat, NEW k, k = Counted(c, size)
  PROVE  /\ Sound(k) /\ k.lo % Block = ((c.lo % Block) + size) % Block
         /\ k.buffer = c.buffer /\ k.absorbed = c.absorbed
         /\ k.lo = (c.lo + size) % LoMod
         /\ k.hi = (c.hi + ((c.lo + size) \div LoMod)) % HiMod
<1>1. c \in Context /\ Len(c.buffer) = Block /\ Len(c.absorbed) % Block = 0
  BY DEF Sound
<1>2. /\ k \in Context
      /\ k.buffer = c.buffer /\ k.absorbed = c.absorbed
      /\ k.lo = (c.lo + size) % LoMod
      /\ k.hi = (c.hi + ((c.lo + size) \div LoMod)) % HiMod
  BY <1>1, CountedIs, Zenon
<1>3. Sound(k)
  BY <1>1, <1>2, Zenon DEF Sound
<1>4. PICK x, u, q, y : /\ x = c.lo + size /\ u = c.lo % Block
                        /\ q = c.lo \div Block /\ y = u + size
  OBVIOUS
<1>5. c.lo \in Int
  BY <1>1, ContextParts, Sizes
<1>6. u \in 0 .. Block - 1 /\ q \in Int /\ c.lo = Block * q + u
  BY <1>4, <1>5, Sizes, DivMod
<1>7. x \in Int /\ y \in Int /\ x = y + Block * q
  <2>1. PICK j : j = Block * q
    OBVIOUS
  <2>2. j \in Int /\ c.lo = j + u
    BY <2>1, <1>6, Sizes
  <2>3. x = c.lo + size /\ y = u + size /\ u \in Int
    <3>1. u \in Int
      BY <1>6, Sizes
    <3> QED  BY <3>1, <1>4, Zenon
  <2> QED  BY <2>1, <2>2, <2>3, <1>5
<1>8. (x % LoMod) % Block = x % Block
  <2>1. LoMod % Block = 0
    BY Md5Assumption
  <2> QED  BY <2>1, <1>7, Sizes, WrapKeepsPlace, Zenon
<1>9. (y + Block * q) % Block = y % Block
  BY <1>6, <1>7, Sizes, ModShifts, Zenon
<1> QED  BY <1>2, <1>3, <1>4, <1>7, <1>8, <1>9, Zenon

\* The rounds that a call brings about on the buffer, when it fills it.
Topped(c, size, u, head) ==
  LET full == Filled(Counted(c, size), u, head)
  IN IF u = 0 THEN Counted(c, size) ELSE body(full, full.buffer)

LEMMA ToppedHolds ==
  ASSUME NEW c, Sound(c), NEW size \in Nat, NEW u, u = c.lo % Block,
         NEW head \in Seq(Bytes), Len(head) = TopUp(u)
  PROVE  /\ Sound(Topped(c, size, u, head))
         /\ SameCount(Topped(c, size, u, head), Counted(c, size))
         /\ Topped(c, size, u, head).absorbed = Held(c) \o head
<1>1. PICK k : k = Counted(c, size)
  OBVIOUS
<1>2. Sound(k) /\ k.buffer = c.buffer /\ k.absorbed = c.absorbed
  BY <1>1, CountedHolds, Zenon
<1>3. c \in Context /\ c.absorbed \in Seq(Bytes)
  BY ContextParts DEF Sound
<1>4. u \in 0 .. Block - 1
  <2>1. c.lo \in Int
    BY <1>3, ContextParts, Sizes
  <2> QED  BY <2>1, Sizes, DivMod
<1>5. CASE u = 0
  <2>1. SubSeq(c.buffer, 1, c.lo % Block) = << >> /\ head = << >>
    BY <1>5, SubSeqEmpty, EmptySeq DEF TopUp
  <2>2. c.absorbed \o << >> = c.absorbed
    BY <1>3, ConcatEmptySeq
  <2>3. k.absorbed = Held(c) \o head
    BY <2>1, <2>2, <1>2, Zenon DEF Held
  <2> QED  BY <2>3, <1>1, <1>2, <1>5, Zenon DEF Topped, SameCount
<1>6. CASE u # 0
  <2>1. u + Len(head) = Block
    BY <1>4, <1>6, Sizes DEF TopUp
  <2>2. PICK f : f = Filled(k, u, head)
    OBVIOUS
  <2>3. /\ Sound(body(f, f.buffer)) /\ SameCount(body(f, f.buffer), k)
        /\ body(f, f.buffer).absorbed = (k.absorbed \o SubSeq(k.buffer, 1, u)) \o head
    <3>1. u \in 0 .. Block
      BY <1>4, Sizes
    <3> QED  BY <3>1, <2>1, <2>2, <1>2, ToppedIs, Zenon
  <2>4. Topped(c, size, u, head) = body(f, f.buffer)
    BY <2>2, <1>1, <1>6, Zenon DEF Topped
  <2> QED  BY <2>3, <2>4, <1>1, <1>2, Zenon DEF Held
<1> QED  BY <1>5, <1>6, Zenon

LEMMA UpdatedIs ==
  ASSUME NEW c, Sound(c), NEW t \in Seq(Bytes)
  PROVE  /\ Sound(Updated(c, t)) /\ Held(Updated(c, t)) = Held(c) \o t
         /\ Updated(c, t).lo = (c.lo + Len(t)) % LoMod
         /\ Updated(c, t).hi = (c.hi + ((c.lo + Len(t)) \div LoMod)) % HiMod
<1>1. PICK s, u, k, r : /\ s = Len(t) /\ u = c.lo % Block /\ k = Counted(c, s)
                        /\ r = Updated(c, t)
  OBVIOUS
<1>2. s \in Nat
  BY <1>1, LenProperties
<1>3. c \in Context /\ c.absorbed \in Seq(Bytes) /\ c.buffer \in Seq(Bytes)
  BY ContextParts DEF Sound
<1>4. u \in 0 .. Block - 1
  <2>1. c.lo \in Int
    BY <1>3, ContextParts, Sizes
  <2> QED  BY <2>1, <1>1, Sizes, DivMod
<1>5. /\ Sound(k) /\ k.lo % Block = (u + s) % Block
      /\ k.buffer = c.buffer /\ k.absorbed = c.absorbed
      /\ k.lo = (c.lo + s) % LoMod
      /\ k.hi = (c.hi + ((c.lo + s) \div LoMod)) % HiMod
  BY <1>1, <1>2, CountedHolds, Zenon
<1>6. SUFFICES Sound(r) /\ SameCount(r, k) /\ Held(r) = Held(c) \o t
  BY <1>1, <1>5, Zenon DEF SameCount
<1>7. CASE StillFits(u, s)
  <2>1. u \in Nat /\ u + s < Block
    BY <1>2, <1>4, <1>7, Sizes DEF StillFits
  <2>2. (u + s) % Block = u + s
    BY <2>1, <1>2, Sizes
  <2>3. u + Len(t) < Block /\ k.lo % Block = u + Len(t)
    BY <2>1, <2>2, <1>1, <1>5, Zenon
  <2>4. r = Filled(k, u, t)
    BY <1>1, <1>7, Zenon DEF Updated
  <2>5. /\ Sound(Filled(k, u, t)) /\ SameCount(Filled(k, u, t), k)
        /\ Held(Filled(k, u, t)) = (k.absorbed \o SubSeq(k.buffer, 1, u)) \o t
    BY <2>1, <2>3, <1>5, AddedIs, Zenon
  <2>6. /\ Sound(r) /\ SameCount(r, k)
        /\ Held(r) = (k.absorbed \o SubSeq(k.buffer, 1, u)) \o t
    BY <2>4, <2>5, Zenon
  <2> QED  BY <2>6, <1>1, <1>5, Zenon DEF Held
<1>8. CASE ~ StillFits(u, s)
  <2>1. PICK top, n : top = TopUp(u) /\ n = Whole(top, s)
    OBVIOUS
  <2>2. /\ top \in Nat /\ n \in Nat /\ top <= n /\ n <= s /\ s - n < Block
        /\ (u + s) % Block = s - n
        /\ \E j \in Int : n - top = Block * j
    <3>1. IsWhole(u, s, top, n)
      BY <2>1, <1>2, <1>4, <1>8, WholeIs, Zenon
    <3> QED  BY <3>1, Zenon DEF IsWhole
  <2>3. PICK j \in Int : n - top = Block * j
    BY <2>2, Zenon
  <2>4. PICK h, a, z : /\ h = SubSeq(t, 1, top) /\ a = SubSeq(t, top + 1, n)
                       /\ z = SubSeq(t, n + 1, s)
    OBVIOUS
  <2>5. /\ h \in Seq(Bytes) /\ Len(h) = top /\ a \in Seq(Bytes) /\ Len(a) = n - top
        /\ z \in Seq(Bytes) /\ Len(z) = s - n /\ h \o (a \o z) = t
    <3>1. n <= Len(t) /\ top <= n /\ top \in Nat /\ n \in Nat
      BY <2>2, <1>1, Zenon
    <3>2. AreCut(SubSeq(t, 1, top), SubSeq(t, top + 1, n), SubSeq(t, n + 1, Len(t)),
                 t, top, n, Bytes)
      BY <3>1, CutInThree, Zenon
    <3>3. AreCut(h, a, z, t, top, n, Bytes)
      BY <3>2, <2>4, <1>1, Zenon
    <3> QED  BY <3>3, <1>1, Zenon DEF AreCut
  <2>6. PICK p : p = Topped(c, s, u, h)
    OBVIOUS
  <2>7. Sound(p) /\ SameCount(p, k) /\ p.absorbed = Held(c) \o h
    <3>1. Len(h) = TopUp(u) /\ u = c.lo % Block /\ h \in Seq(Bytes)
      BY <2>1, <2>5, <1>1, Zenon
    <3>2. /\ Sound(Topped(c, s, u, h)) /\ SameCount(Topped(c, s, u, h), Counted(c, s))
          /\ Topped(c, s, u, h).absorbed = Held(c) \o h
      BY <3>1, <1>2, ToppedHolds, Zenon
    <3> QED  BY <3>2, <2>6, <1>1, Zenon
  <2>8. r = Filled(body(p, a), 0, z)
    <3>1. r = Kept(body(p, a), u, z)
      BY <2>1, <2>4, <2>6, <1>1, <1>8, Zenon DEF Updated, Topped, TopUp, Whole
    <3> QED  BY <3>1, Zenon DEF Kept
  <2>9. Len(a) = Block * j /\ p.lo % Block = Len(z) /\ Len(z) < Block
    BY <2>2, <2>3, <2>5, <2>7, <1>5, Zenon DEF SameCount
  <2>10. /\ Sound(r) /\ SameCount(r, p)
         /\ Held(r) = (p.absorbed \o a) \o z
    BY <2>3, <2>5, <2>7, <2>8, <2>9, RestIs, Zenon
  <2>11. Held(r) = Held(c) \o t
    <3>1. Held(c) \in Seq(Bytes) /\ a \o z \in Seq(Bytes)
      <4>1. SubSeq(c.buffer, 1, c.lo % Block) \in Seq(Bytes)
        <5>1. u \in Nat /\ 1 \in Nat /\ 1 <= 1 /\ 1 <= u + 1 /\ u <= Len(c.buffer)
          BY <1>4, Sizes DEF Sound
        <5> QED  BY <5>1, <1>1, <1>3, PieceIs, Zenon
      <4> QED  BY <4>1, <2>5, <1>3, JoinIs, Zenon DEF Held
    <3>2. Held(c) \o h \in Seq(Bytes)
      BY <3>1, <2>5, JoinIs, Zenon
    <3>3. Regroups(Held(c) \o h, a, z) /\ Regroups(Held(c), h, a \o z)
      BY <3>1, <3>2, <2>5, Regrouped, Zenon
    <3> QED  BY <3>3, <2>5, <2>7, <2>10, Zenon DEF Regroups
  <2> QED  BY <2>7, <2>10, <2>11, Zenon DEF SameCount
<1> QED  BY <1>7, <1>8, Zenon

-------------------------------------------------------------------------------
(***************************************************************************)
(* MD5_Final: the padding, and the length behind it.                        *)
(***************************************************************************)
LEMMA BytesOfPadding == X80 \in Bytes /\ Zero \in Bytes /\ <<X80>> \in Seq(Bytes)
BY DEF Bytes

LEMMA LengthFieldIs ==
  ASSUME NEW lo \in 0 .. LoMod - 1, NEW hi \in 0 .. HiMod - 1
  PROVE  LengthField(lo, hi) \in Seq(Bytes) /\ Len(LengthField(lo, hi)) = LenBytes
<1> DEFINE E(j) == <<"length", j, IF j <= LenBytes \div 2 THEN 8 * lo ELSE hi>>
<1>1. ASSUME NEW j \in 1 .. LenBytes PROVE E(j) \in Bytes
  <2>1. PICK n : n = (IF j <= LenBytes \div 2 THEN 8 * lo ELSE hi)
    OBVIOUS
  <2>2. n \in 0 .. 8 * LoMod + HiMod
    BY <2>1, Sizes
  <2>3. E(j) = <<"length", j, n>>
    BY <2>1
  <2> QED  BY <2>2, <2>3 DEF Bytes
<1>2. LengthField(lo, hi) = [j \in 1 .. LenBytes |-> E(j)]
  BY DEF LengthField
<1> HIDE DEF E
<1>3. [j \in 1 .. LenBytes |-> E(j)] \in [1 .. LenBytes -> Bytes]
  BY <1>1
<1> QED  BY <1>2, <1>3, Sizes

\* The zeros of the padding, of a message that fills a block up to its place u.
PadLen(u) == (-(u + 1 + LenBytes)) % Block

IsMarked(r, c) ==
  /\ Sound(r) /\ SameCount(r, c) /\ r.absorbed = c.absorbed
  /\ SubSeq(r.buffer, 1, (c.lo % Block) + 1)
       = SubSeq(c.buffer, 1, c.lo % Block) \o <<X80>>

LEMMA PlaceOf ==
  ASSUME NEW c, Sound(c)
  PROVE  c.lo % Block \in 0 .. Block - 1
<1>1. c.lo \in Int
  BY ContextParts, Sizes DEF Sound
<1> QED  BY <1>1, Sizes, DivMod

LEMMA MarkedIs ==
  ASSUME NEW c, Sound(c), NEW v, v = c.lo % Block
  PROVE  IsMarked(Filled(c, v, <<X80>>), c)
<1>1. c \in Context /\ Len(c.buffer) = Block /\ Len(c.absorbed) % Block = 0
  BY DEF Sound
<1>2. PICK b, r : b = <<X80>> /\ r = Filled(c, v, b)
  OBVIOUS
<1>3. b \in Seq(Bytes) /\ Len(b) = 1
  BY <1>2, BytesOfPadding
<1>4. v \in Nat /\ v + Len(b) <= Block
  BY <1>3, PlaceOf, Sizes
<1>5. r \in Context /\ IsFilled(r, c, v, b)
  BY <1>1, <1>2, <1>3, <1>4, FilledIs, Zenon
<1>6. Sound(r) /\ SameCount(r, c) /\ r.absorbed = c.absorbed
  BY <1>1, <1>5, Zenon DEF IsFilled, Sound
<1>7. SubSeq(r.buffer, 1, v + 1) = SubSeq(c.buffer, 1, v) \o b
  BY <1>3, <1>5, Zenon DEF IsFilled
<1>8. IsMarked(r, c)
  BY <1>2, <1>6, <1>7, Zenon DEF IsMarked
<1> QED  BY <1>2, <1>8, Zenon

IsPadded(r, c, z) ==
  /\ Sound(r) /\ SameCount(r, c)
  /\ r.absorbed \o SubSeq(r.buffer, 1, Block - LenBytes) = (Held(c) \o <<X80>>) \o Zeros(z)

LEMMA ZerosOfBlock ==
  ASSUME NEW n \in Nat
  PROVE  Zeros(n) \in Seq(Bytes) /\ Len(Zeros(n)) = n
BY BytesOfPadding, ZerosAre DEF IsZeros

\* The length fits behind the 0x80.
LEMMA PaddedInBlock ==
  ASSUME NEW c, Sound(c), NEW v, v = c.lo % Block, ~ NoRoomForLength(v + 1)
  PROVE  IsPadded(Padded80(c), c, Block - (v + 1) - LenBytes)
<1>1. PICK m, z, r : /\ m = Filled(c, v, <<X80>>) /\ z = Block - (v + 1) - LenBytes
                     /\ r = Filled(m, v + 1, Zeros(z))
  OBVIOUS
<1>2. /\ v \in Nat /\ v + 1 \in Nat /\ z \in Nat /\ (v + 1) - 1 = v
      /\ (v + 1) + z <= Block /\ (v + 1) + z = Block - LenBytes
  BY <1>1, PlaceOf, Sizes DEF NoRoomForLength
<1>3. IsMarked(m, c)
  BY <1>1, MarkedIs, Zenon
<1>4. r = Padded80(c)
  BY <1>1, <1>2, Zenon DEF Padded80
<1>5. Zeros(z) \in Seq(Bytes) /\ Len(Zeros(z)) = z
  BY <1>2, ZerosOfBlock, Zenon
<1>6. m \in Context /\ Len(m.buffer) = Block /\ Len(m.absorbed) % Block = 0
  BY <1>3 DEF Sound, IsMarked
<1>7. r \in Context /\ IsFilled(r, m, v + 1, Zeros(z))
  <2>1. (v + 1) + Len(Zeros(z)) <= Block
    BY <1>2, <1>5, Zenon
  <2> QED  BY <2>1, <1>1, <1>2, <1>5, <1>6, FilledIs, Zenon
<1>8. Sound(r) /\ SameCount(r, c) /\ r.absorbed = c.absorbed
  BY <1>3, <1>6, <1>7, Zenon DEF IsFilled, IsMarked, Sound, SameCount
<1>9. SubSeq(r.buffer, 1, Block - LenBytes)
        = (SubSeq(c.buffer, 1, v) \o <<X80>>) \o Zeros(z)
  BY <1>2, <1>3, <1>5, <1>7, Zenon DEF IsFilled, IsMarked
<1>10. PICK a, b, x : a = c.absorbed /\ b = SubSeq(c.buffer, 1, v) /\ x = <<X80>>
  OBVIOUS
<1>11. a \in Seq(Bytes) /\ b \in Seq(Bytes) /\ x \in Seq(Bytes)
  <2>1. c.buffer \in Seq(Bytes) /\ c.absorbed \in Seq(Bytes)
    BY ContextParts DEF Sound
  <2>2. 1 \in Nat /\ 1 <= 1 /\ 1 <= v + 1 /\ v <= Len(c.buffer)
    BY <1>2, PlaceOf, Sizes DEF Sound
  <2> QED  BY <2>1, <2>2, <1>2, <1>10, PieceIs, BytesOfPadding, Zenon
<1>12. b \o x \in Seq(Bytes)
  BY <1>11, JoinIs, Zenon
<1>13. Regroups(a, b, x) /\ Regroups(a, b \o x, Zeros(z))
  BY <1>5, <1>11, <1>12, Regrouped, Zenon
<1>14. a \o ((b \o x) \o Zeros(z)) = ((a \o b) \o x) \o Zeros(z)
  BY <1>13, Zenon DEF Regroups
<1>15. IsPadded(r, c, z)
  BY <1>8, <1>9, <1>10, <1>14, Zenon DEF IsPadded, Held
<1> QED  BY <1>1, <1>4, <1>15, Zenon

\* It does not, and goes into a block of its own.
LEMMA PaddedOverBlock ==
  ASSUME NEW c, Sound(c), NEW v, v = c.lo % Block, NoRoomForLength(v + 1)
  PROVE  IsPadded(Padded80(c), c, (Block - (v + 1)) + (Block - LenBytes))
<1>1. PICK m, f, g, y, z : /\ m = Filled(c, v, <<X80>>)
                           /\ y = Block - (v + 1) /\ z = Block - LenBytes
                           /\ f = Filled(m, v + 1, Zeros(y)) /\ g = body(f, f.buffer)
  OBVIOUS
<1>2. PICK r : r = Filled(g, 0, Zeros(z))
  OBVIOUS
<1>3. /\ v \in Nat /\ v + 1 \in Nat /\ v + 1 <= Block /\ (v + 1) - 1 = v
      /\ y \in Nat /\ z \in Nat /\ (v + 1) + y = Block /\ z <= Block /\ 0 + z = z
      /\ v + 1 < Block + 1 /\ y + z \in Nat
  BY <1>1, PlaceOf, Sizes
<1>4. IsMarked(m, c)
  BY <1>1, MarkedIs, Zenon
<1>5. r = Padded80(c)
  BY <1>1, <1>2, <1>3, Zenon DEF Padded80
<1>6. /\ Zeros(y) \in Seq(Bytes) /\ Len(Zeros(y)) = y
      /\ Zeros(z) \in Seq(Bytes) /\ Len(Zeros(z)) = z
  BY <1>3, ZerosOfBlock, Zenon
<1>7. /\ Sound(g) /\ SameCount(g, m)
      /\ g.absorbed = (m.absorbed \o SubSeq(m.buffer, 1, v + 1)) \o Zeros(y)
  <2>1. (v + 1) + Len(Zeros(y)) = Block /\ v + 1 \in 0 .. Block
    BY <1>3, <1>6, Sizes
  <2>2. Sound(m) /\ f = Filled(m, v + 1, Zeros(y))
    BY <1>1, <1>4, Zenon DEF IsMarked
  <2>3. /\ Sound(body(f, f.buffer)) /\ SameCount(body(f, f.buffer), m)
        /\ body(f, f.buffer).absorbed
             = (m.absorbed \o SubSeq(m.buffer, 1, v + 1)) \o Zeros(y)
    BY <2>1, <2>2, <1>6, ToppedIs, Zenon
  <2> QED  BY <2>3, <1>1, Zenon
<1>8. r \in Context /\ IsFilled(r, g, 0, Zeros(z))
  <2>1. 0 \in Nat /\ 0 + Len(Zeros(z)) <= Block
    BY <1>3, <1>6, Sizes
  <2> QED  BY <2>1, <1>2, <1>6, <1>7, FilledIs, Zenon DEF Sound
<1>9. Sound(r) /\ SameCount(r, c) /\ r.absorbed = g.absorbed
  BY <1>4, <1>7, <1>8, Zenon DEF IsFilled, IsMarked, Sound, SameCount
<1>10. SubSeq(r.buffer, 1, z) = Zeros(z)
  <2>1. SubSeq(r.buffer, 1, z) = SubSeq(g.buffer, 1, 0) \o Zeros(z)
    BY <1>3, <1>6, <1>8, Zenon DEF IsFilled
  <2>2. SubSeq(g.buffer, 1, 0) = << >>
    BY SubSeqEmpty
  <2>3. << >> \o Zeros(z) = Zeros(z)
    BY <1>6, ConcatEmptySeq
  <2> QED  BY <2>1, <2>2, <2>3, Zenon
<1>11. PICK a, b, x : a = c.absorbed /\ b = SubSeq(c.buffer, 1, v) /\ x = <<X80>>
  OBVIOUS
<1>12. a \in Seq(Bytes) /\ b \in Seq(Bytes) /\ x \in Seq(Bytes)
  <2>1. c.buffer \in Seq(Bytes) /\ c.absorbed \in Seq(Bytes)
    BY ContextParts DEF Sound
  <2>2. 1 \in Nat /\ 1 <= 1 /\ 1 <= v + 1 /\ v <= Len(c.buffer)
    BY <1>3, PlaceOf, Sizes DEF Sound
  <2> QED  BY <2>1, <2>2, <1>3, <1>11, PieceIs, BytesOfPadding, Zenon
<1>13. a \o b \in Seq(Bytes)
  BY <1>12, JoinIs, Zenon
<1>14. (a \o b) \o x \in Seq(Bytes)
  BY <1>12, <1>13, JoinIs, Zenon
<1>15. /\ Regroups(a, b, x) /\ Regroups((a \o b) \o x, Zeros(y), Zeros(z))
       /\ Zeros(y) \o Zeros(z) = Zeros(y + z)
  BY <1>3, <1>6, <1>12, <1>14, Regrouped, ZerosJoin, Zenon
<1>16. g.absorbed = ((a \o b) \o x) \o Zeros(y)
  BY <1>4, <1>7, <1>11, <1>15, Zenon DEF IsMarked, Regroups
<1>17. g.absorbed \o Zeros(z) = ((a \o b) \o x) \o Zeros(y + z)
  BY <1>15, <1>16, Zenon DEF Regroups
<1>18. r.absorbed \o SubSeq(r.buffer, 1, Block - LenBytes) = g.absorbed \o Zeros(z)
  BY <1>1, <1>9, <1>10, Zenon
<1>19. Held(c) \o <<X80>> = (a \o b) \o x
  BY <1>11, Zenon DEF Held
<1>20. IsPadded(r, c, y + z)
  BY <1>9, <1>17, <1>18, <1>19, Zenon DEF IsPadded
<1> QED  BY <1>1, <1>5, <1>20, Zenon

LEMMA PaddedIs ==
  ASSUME NEW c, Sound(c), NEW v, v = c.lo % Block
  PROVE  IsPadded(Padded80(c), c, PadLen(v))
<1>1. v \in 0 .. Block - 1
  BY PlaceOf
<1>2. PICK x, y, z : /\ x = -(v + 1 + LenBytes)
                     /\ y = Block - (v + 1) - LenBytes
                     /\ z = (Block - (v + 1)) + (Block - LenBytes)
  OBVIOUS
<1>3. CASE NoRoomForLength(v + 1)
  <2>1. PICK q : q = -2
    OBVIOUS
  <2>2. z \in 0 .. Block - 1 /\ x \in Int /\ q \in Int /\ x = Block * q + z
    BY <2>1, <1>1, <1>2, <1>3, Sizes DEF NoRoomForLength
  <2>3. x % Block = z
    BY <2>2, Sizes, DivModIs, Zenon
  <2>4. PadLen(v) = z
    BY <2>3, <1>2, Zenon DEF PadLen
  <2>5. IsPadded(Padded80(c), c, (Block - (v + 1)) + (Block - LenBytes))
    BY <1>3, PaddedOverBlock, Zenon
  <2> QED  BY <2>4, <2>5, <1>2, Zenon
<1>4. CASE ~ NoRoomForLength(v + 1)
  <2>1. PICK q : q = -1
    OBVIOUS
  <2>2. y \in 0 .. Block - 1 /\ x \in Int /\ q \in Int /\ x = Block * q + y
    BY <2>1, <1>1, <1>2, <1>4, Sizes DEF NoRoomForLength
  <2>3. x % Block = y
    BY <2>2, Sizes, DivModIs, Zenon
  <2>4. PadLen(v) = y
    BY <2>3, <1>2, Zenon DEF PadLen
  <2>5. IsPadded(Padded80(c), c, Block - (v + 1) - LenBytes)
    BY <1>4, PaddedInBlock, Zenon
  <2> QED  BY <2>4, <2>5, <1>2, Zenon
<1> QED  BY <1>3, <1>4, Zenon

LEMMA FinishedIs ==
  ASSUME NEW c, Sound(c), NEW v, v = c.lo % Block
  PROVE  /\ Finished(c).absorbed \in Seq(Bytes)
         /\ Finished(c).absorbed
              = ((Held(c) \o <<X80>>) \o Zeros(PadLen(v))) \o LengthField(c.lo, c.hi)
<1>1. PICK r, l, n, f, g : /\ r = Padded80(c) /\ l = LengthField(c.lo, c.hi)
                           /\ n = Block - LenBytes /\ f = Filled(r, n, l)
                           /\ g = body(f, f.buffer)
  OBVIOUS
<1>2. IsPadded(r, c, PadLen(v))
  BY <1>1, PaddedIs, Zenon
<1>3. l \in Seq(Bytes) /\ Len(l) = LenBytes
  BY <1>1, LengthFieldIs, ContextParts DEF Sound
<1>4. n \in 0 .. Block /\ n + Len(l) = Block
  BY <1>1, <1>3, Sizes
<1>5. Sound(r) /\ r.absorbed \o SubSeq(r.buffer, 1, n)
                   = (Held(c) \o <<X80>>) \o Zeros(PadLen(v))
  BY <1>1, <1>2, Zenon DEF IsPadded
<1>6. Sound(g) /\ g.absorbed = (r.absorbed \o SubSeq(r.buffer, 1, n)) \o l
  <2>1. f = Filled(r, n, l)
    BY <1>1, Zenon
  <2>2. /\ Sound(body(f, f.buffer)) /\ SameCount(body(f, f.buffer), r)
        /\ body(f, f.buffer).absorbed = (r.absorbed \o SubSeq(r.buffer, 1, n)) \o l
    BY <2>1, <1>3, <1>4, <1>5, ToppedIs, Zenon
  <2> QED  BY <2>2, <1>1, Zenon
<1>7. Finished(c) = g
  BY <1>1, Zenon DEF Finished
<1>8. g.absorbed \in Seq(Bytes)
  BY <1>6, ContextParts DEF Sound
<1> QED  BY <1>1, <1>5, <1>6, <1>7, <1>8, Zenon

-------------------------------------------------------------------------------
(***************************************************************************)
(* What a context that was given a message of n bytes is like, through the  *)
(* three calls.                                                             *)
(***************************************************************************)
Has(c, n) ==
  /\ Sound(c) /\ Held(c) = Message(1, n)
  /\ c.hi * LoMod + c.lo = n % (HiMod * LoMod)

LEMMA MessageOfBytes ==
  ASSUME NEW m \in Nat, NEW n \in Nat, m <= n, n <= MaxLen
  PROVE  Message(m + 1, n) \in Seq(Bytes) /\ Len(Message(m + 1, n)) = n - m
<1>1. \A i \in m + 1 .. n : Byte(i) \in Bytes
  BY Sizes DEF Bytes
<1>2. m + 1 \in Nat /\ m + 1 <= n + 1 /\ n - (m + 1) + 1 = n - m
  OBVIOUS
<1>3. Message(m + 1, n) \in Seq(Bytes) /\ IsMessage(Message(m + 1, n), m + 1, n)
  BY <1>1, <1>2, MessageIs, Zenon
<1> QED  BY <1>2, <1>3, Zenon DEF IsMessage

LEMMA NothingYet ==
  ASSUME NEW c, Sound(c)
  PROVE  Has(Initialised(c), 0)
<1>1. PICK r : r = Initialised(c)
  OBVIOUS
<1>2. /\ r \in Context /\ r.lo = 0 /\ r.hi = 0 /\ r.absorbed = << >> /\ r.buffer = c.buffer
  <2>1. c \in Context
    BY Zenon DEF Sound
  <2>2. PICK e : e = << >>
    OBVIOUS
  <2>3. 0 \in 0 .. LoMod - 1 /\ 0 \in 0 .. HiMod - 1 /\ e \in Seq(Bytes)
    BY <2>2, Sizes
  <2>4. r = [c EXCEPT !.lo = 0, !.hi = 0, !.absorbed = e]
    BY <2>2, <1>1, Zenon DEF Initialised
  <2>5. r \in Context /\ r.lo = 0 /\ r.hi = 0 /\ r.absorbed = e /\ r.buffer = c.buffer
    BY <2>1, <2>3, <2>4 DEF Context
  <2> QED  BY <2>2, <2>5, Zenon
<1>3. 0 % Block = 0 /\ 0 * LoMod + 0 = 0 /\ 0 % (HiMod * LoMod) = 0
  <2>1. PICK n : n = HiMod * LoMod
    OBVIOUS
  <2>2. n \in Nat \ {0}
    <3>1. HiMod >= 1 /\ LoMod >= 1
      BY Sizes
    <3>2. n >= 1
      BY <3>1, <2>1, Sizes
    <3> QED  BY <3>2, <2>1, Sizes
  <2> QED  BY <2>1, <2>2, Sizes
<1>4. Sound(r)
  BY <1>2, <1>3 DEF Sound
<1>5. Held(r) = << >> /\ Message(1, 0) = << >>
  <2>1. SubSeq(r.buffer, 1, 0) = << >>
    BY SubSeqEmpty
  <2>2. << >> \o << >> = << >>
    OBVIOUS
  <2>3. Message(1, 0) = << >>
    BY DEF Message
  <2> QED  BY <2>1, <2>2, <2>3, <1>2, <1>3, Zenon DEF Held
<1> QED  BY <1>1, <1>2, <1>3, <1>4, <1>5, Zenon DEF Has

LEMMA CountedBytes ==
  ASSUME NEW m \in Nat, NEW s \in Nat,
         NEW hi \in 0 .. HiMod - 1, NEW lo \in 0 .. LoMod - 1,
         hi * LoMod + lo = m % (HiMod * LoMod)
  PROVE  ((hi + ((lo + s) \div LoMod)) % HiMod) * LoMod + ((lo + s) % LoMod)
           = (m + s) % (HiMod * LoMod)
<1>1. PICK w, x, n : w = HiMod * LoMod /\ x = lo + s /\ n = m + s
  OBVIOUS
<1>2. w \in Nat \ {0} /\ x \in Nat /\ hi \in Nat
  <2>1. HiMod >= 1 /\ LoMod >= 1
    BY Sizes
  <2>2. w >= 1 /\ w \in Int
    BY <2>1, <1>1, Sizes
  <2>3. x \in Nat /\ hi \in Nat
    BY <1>1, Sizes
  <2> QED  BY <2>2, <2>3
<1>3. ((hi + (x \div LoMod)) % HiMod) * LoMod + (x % LoMod) = (hi * LoMod + x) % w
  <2>1. ((hi + (x \div LoMod)) % HiMod) * LoMod + (x % LoMod)
          = (hi * LoMod + x) % (HiMod * LoMod)
    BY <1>2, WordsAre, Sizes, Zenon
  <2> QED  BY <2>1, <1>1, Zenon
<1>4. PICK h, k : h = hi * LoMod /\ k = m \div w
  OBVIOUS
<1>5. k \in Int /\ m = w * k + (m % w) /\ m % w \in Int
  BY <1>2, <1>4, DivMod
<1>6. PICK j : j = w * k
  OBVIOUS
<1>7. h + lo = m % w /\ m = j + (m % w) /\ j \in Int
  BY <1>1, <1>2, <1>4, <1>5, <1>6
<1>8. h \in Int
  BY <1>4, Sizes
<1>9. n = (h + x) + w * k /\ h + x \in Int
  <2>1. PICK l : l = m % w
    OBVIOUS
  <2>2. h + lo = l /\ m = j + l /\ x = lo + s /\ n = m + s
    BY <2>1, <1>1, <1>7, Zenon
  <2>3. lo \in Int
    BY Sizes
  <2>4. n = (h + x) + j /\ h + x \in Int
    BY <2>2, <2>3, <1>2, <1>7, <1>8
  <2> QED  BY <2>4, <1>6, Zenon
<1>10. n % w = (h + x) % w
  BY <1>2, <1>5, <1>9, ModShifts, Zenon
<1> QED  BY <1>1, <1>3, <1>4, <1>10, Zenon

LEMMA UpdatedHas ==
  ASSUME NEW c, NEW m \in Nat, Has(c, m), NEW s \in Nat, m + s <= MaxLen
  PROVE  Has(Updated(c, Message(m + 1, m + s)), m + s)
<1>1. PICK n, t, r : n = m + s /\ t = Message(m + 1, n) /\ r = Updated(c, t)
  OBVIOUS
<1>2. n \in Nat /\ m <= n /\ n <= MaxLen /\ n - m = s
  BY <1>1, Sizes
<1>3. t \in Seq(Bytes) /\ Len(t) = s
  BY <1>1, <1>2, MessageOfBytes, Zenon
<1>4. Sound(c) /\ Held(c) = Message(1, m) /\ c.hi * LoMod + c.lo = m % (HiMod * LoMod)
  BY DEF Has
<1>5. c.lo \in 0 .. LoMod - 1 /\ c.hi \in 0 .. HiMod - 1
  BY <1>4, ContextParts, Zenon DEF Sound
<1>6. /\ Sound(r) /\ Held(r) = Held(c) \o t
      /\ r.lo = (c.lo + s) % LoMod
      /\ r.hi = (c.hi + ((c.lo + s) \div LoMod)) % HiMod
  BY <1>1, <1>3, <1>4, UpdatedIs, Zenon
<1>7. Held(r) = Message(1, n)
  BY <1>1, <1>2, <1>4, <1>6, MessageJoins, Zenon
<1>8. r.hi * LoMod + r.lo = n % (HiMod * LoMod)
  BY <1>1, <1>4, <1>5, <1>6, CountedBytes, Zenon
<1> QED  BY <1>1, <1>6, <1>7, <1>8, Zenon DEF Has

\* The digest, of whatever context has the message.
LEMMA FinishedHas ==
  ASSUME NEW c, NEW n \in Nat, Has(c, n)
  PROVE  Finished(c).absorbed = PaddedMessage(n) /\ Finished(c).absorbed \in Seq(Bytes)
<1>1. Sound(c) /\ Held(c) = Message(1, n) /\ c.hi * LoMod + c.lo = n % (HiMod * LoMod)
  BY DEF Has
<1>2. PICK v, z, l : v = c.lo % Block /\ z = PadLen(v) /\ l = LengthField(c.lo, c.hi)
  OBVIOUS
<1>3. /\ Finished(c).absorbed \in Seq(Bytes)
      /\ Finished(c).absorbed = ((Message(1, n) \o <<X80>>) \o Zeros(z)) \o l
  BY <1>1, <1>2, FinishedIs, Zenon
<1>4. c.lo \in 0 .. LoMod - 1 /\ c.hi \in 0 .. HiMod - 1
  BY <1>1, ContextParts, Zenon DEF Sound
<1>5. c.lo = n % LoMod /\ c.hi = (n \div LoMod) % HiMod
  <2>1. PICK w : w = HiMod * LoMod
    OBVIOUS
  <2>2. c.hi * LoMod + c.lo = n % w
    BY <2>1, <1>1, Zenon
  <2>3. InWords(c.lo, c.hi, LoMod, HiMod, n)
    BY <2>1, <2>2, <1>4, Sizes, WordsHold, Zenon
  <2> QED  BY <2>3, Zenon DEF InWords
<1>6. (n % LoMod) % Block = n % Block
  <2>1. n \in Int /\ LoMod % Block = 0
    BY Md5Assumption
  <2> QED  BY <2>1, Sizes, WrapKeepsPlace, Zenon
<1>7. v = n % Block
  BY <1>2, <1>5, <1>6, Zenon
<1>8. z = (-(n + 1 + LenBytes)) % Block
  <2>1. PICK q, j, x, y : /\ q = n \div Block /\ j = Block * q
                          /\ x = -(v + 1 + LenBytes) /\ y = -(n + 1 + LenBytes)
    OBVIOUS
  <2>2. v \in 0 .. Block - 1 /\ q \in Int /\ n = Block * q + v
    BY <2>1, <1>7, Sizes, DivMod
  <2>3. v \in Int /\ j \in Int /\ n = j + v
    BY <2>1, <2>2, Sizes
  <2>4. x \in Int /\ y \in Int /\ x = y + j
    <3>1. x = -(v + 1 + LenBytes) /\ y = -(n + 1 + LenBytes)
      BY <2>1, Zenon
    <3> QED  BY <3>1, <2>3, Sizes
  <2>5. x % Block = y % Block
    <3>1. (y + Block * q) % Block = y % Block
      BY <2>2, <2>4, Sizes, ModShifts, Zenon
    <3>2. y + Block * q = x
      BY <2>1, <2>4, Zenon
    <3> QED  BY <3>1, <3>2, Zenon
  <2> QED  BY <2>1, <2>5, <1>2, Zenon DEF PadLen
<1>9. PaddedMessage(n) = ((Message(1, n) \o <<X80>>) \o Zeros(z)) \o l
  BY <1>2, <1>5, <1>8, Zenon DEF PaddedMessage
<1> QED  BY <1>3, <1>9, Zenon

-------------------------------------------------------------------------------
(***************************************************************************)
(* The inductive invariant: what the three properties say, together.        *)
(***************************************************************************)
IInv == TypeOK /\ BytesAccounted /\ DigestOfPadding

LEMMA TypeGives ==
  ASSUME TypeOK
  PROVE  Sound(ctx) /\ len \in Nat /\ len <= MaxLen /\ MaxLen \in Nat
<1>1. Sound(ctx) /\ len \in 0 .. MaxLen
  BY Zenon DEF TypeOK, Sound
<1>2. MaxLen \in Nat
  BY Sizes, Zenon
<1> QED  BY <1>1, <1>2

LEMMA OpenHas ==
  ASSUME IInv, stage = "open"
  PROVE  Has(ctx, len)
BY TypeGives, Zenon DEF IInv, BytesAccounted, BufferHoldsTail, LengthCounted, Has, Held

LEMMA ContextsSound ==
  Sound(OnStack) /\ Sound(Cleared)
<1>1. PICK a, z, e : a = [i \in 1 .. Block |-> Junk] /\ z = Zeros(Block) /\ e = << >>
  OBVIOUS
<1>2. a \in Seq(Bytes) /\ Len(a) = Block
  <2>1. Junk \in Bytes
    BY DEF Bytes
  <2> QED  BY <2>1, <1>1, Sizes
<1>3. z \in Seq(Bytes) /\ Len(z) = Block
  BY <1>1, ZerosOfBlock, Sizes
<1>4. e \in Seq(Bytes) /\ Len(e) % Block = 0
  <2>1. Len(e) = 0 /\ e \in Seq(Bytes)
    BY <1>1
  <2> QED  BY <2>1, Sizes
<1>5. 0 \in 0 .. LoMod - 1 /\ 0 \in 0 .. HiMod - 1
  BY Sizes
<1>6. OnStack = [lo |-> 0, hi |-> 0, absorbed |-> e, buffer |-> a]
  BY <1>1, Zenon DEF OnStack
<1>7. Cleared = [lo |-> 0, hi |-> 0, absorbed |-> e, buffer |-> z]
  BY <1>1, <1>6 DEF Cleared
<1> QED  BY <1>2, <1>3, <1>4, <1>5, <1>6, <1>7 DEF Sound, Context

\* What a step has to leave behind in each stage.
LEMMA OpenIs ==
  ASSUME stage' = "open", Has(ctx', len'), len' \in 0 .. MaxLen, result' \in Seq(Bytes)
  PROVE  IInv'
<1>1. /\ Sound(ctx') /\ Held(ctx') = Message(1, len')
      /\ ctx'.hi * LoMod + ctx'.lo = len' % (HiMod * LoMod)
  BY Zenon DEF Has
<1>2. TypeOK'
  BY <1>1 DEF TypeOK, Sound
<1>3. BytesAccounted'
  BY <1>1 DEF BytesAccounted, BufferHoldsTail, LengthCounted, Held
<1>4. DigestOfPadding'
  BY DEF DigestOfPadding
<1> QED  BY <1>2, <1>3, <1>4 DEF IInv

LEMMA DoneIs ==
  ASSUME stage' = "done", Sound(ctx'), len' \in 0 .. MaxLen,
         result' = PaddedMessage(len'), result' \in Seq(Bytes)
  PROVE  IInv'
<1>1. TypeOK'
  BY DEF TypeOK, Sound
<1> QED  BY <1>1 DEF IInv, BytesAccounted, DigestOfPadding

LEMMA InitHolds == Init => IInv
<1> SUFFICES ASSUME Init PROVE IInv
  OBVIOUS
<1>1. Sound(OnStack)
  BY ContextsSound, Zenon
<1>2. TypeOK
  <2>1. len \in 0 .. MaxLen
    BY Sizes DEF Init
  <2>2. result \in Seq(Bytes)
    BY DEF Init
  <2> QED  BY <2>1, <2>2, <1>1, Zenon DEF Init, TypeOK, Sound
<1> QED  BY <1>2 DEF Init, IInv, BytesAccounted, DigestOfPadding

LEMMA NextHolds == IInv /\ [Next]_vars => IInv'
<1> SUFFICES ASSUME IInv, [Next]_vars PROVE IInv'
  OBVIOUS
<1>1. /\ Sound(ctx) /\ len \in Nat /\ len <= MaxLen /\ MaxLen \in Nat
      /\ result \in Seq(Bytes) /\ len \in 0 .. MaxLen
  BY TypeGives DEF IInv, TypeOK
<1>2. CASE MD5_Init
  <2>1. PICK c \in {OnStack, ctx} : ctx' = Initialised(c)
    BY <1>2, Zenon DEF MD5_Init
  <2>2. Sound(c)
    BY <2>1, <1>1, ContextsSound, Zenon
  <2>3. Has(Initialised(c), 0)
    BY <2>2, NothingYet, Zenon
  <2>4. stage' = "open" /\ Has(ctx', len') /\ len' = 0 /\ result' = result
    BY <2>1, <2>3, <1>2, Zenon DEF MD5_Init
  <2>5. len' \in 0 .. MaxLen
    BY <2>4, <1>1
  <2> QED  BY <2>4, <2>5, <1>1, OpenIs
<1>3. ASSUME NEW size \in 0 .. MaxLen - len, MD5_Update(size) PROVE IInv'
  <2>1. /\ stage = "open" /\ ctx' = Updated(ctx, Message(len + 1, len + size))
        /\ len' = len + size /\ stage' = stage /\ result' = result
    BY <1>3, Zenon DEF MD5_Update
  <2>2. size \in Nat /\ len + size <= MaxLen /\ len + size \in 0 .. MaxLen
    BY <1>1
  <2>3. Has(ctx, len)
    BY <2>1, OpenHas, Zenon
  <2>4. Has(ctx', len')
    BY <2>1, <2>2, <2>3, <1>1, UpdatedHas, Zenon
  <2> QED  BY <2>1, <2>2, <2>4, <1>1, OpenIs
<1>4. CASE MD5_Final
  <2>1. /\ stage = "open" /\ result' = Finished(ctx).absorbed /\ ctx' = Cleared
        /\ stage' = "done" /\ len' = len
    BY <1>4, Zenon DEF MD5_Final
  <2>2. Has(ctx, len)
    BY <2>1, OpenHas, Zenon
  <2>3. result' = PaddedMessage(len') /\ result' \in Seq(Bytes)
    BY <2>1, <2>2, <1>1, FinishedHas, Zenon
  <2>4. Sound(ctx') /\ len' \in 0 .. MaxLen
    BY <2>1, <1>1, ContextsSound, Zenon
  <2> QED  BY <2>1, <2>3, <2>4, DoneIs
<1>5. ASSUME NEW size \in 0 .. MaxLen, hash_md5_binary(size) PROVE IInv'
  <2>1. PICK c, d : /\ c = Initialised(OnStack)
                    /\ d = Updated(c, Message(0 + 1, 0 + size))
    OBVIOUS
  <2>2. /\ 0 \in Nat /\ size \in Nat /\ 0 + 1 = 1 /\ 0 + size = size /\ 0 + size <= MaxLen
    BY <1>1
  <2>3. Has(c, 0)
    BY <2>1, ContextsSound, NothingYet, Zenon
  <2>4. Has(d, size)
    BY <2>1, <2>2, <2>3, UpdatedHas, Zenon
  <2>5. d = Updated(Initialised(OnStack), Message(1, size))
    BY <2>1, <2>2, Zenon
  <2>6. /\ result' = Finished(d).absorbed /\ len' = size /\ stage' = "done" /\ ctx' = ctx
    BY <2>5, <1>5, Zenon DEF hash_md5_binary
  <2>7. result' = PaddedMessage(len') /\ result' \in Seq(Bytes)
    BY <2>2, <2>4, <2>6, FinishedHas, Zenon
  <2>8. Sound(ctx') /\ len' \in 0 .. MaxLen
    BY <2>6, <1>1, Zenon
  <2> QED  BY <2>6, <2>7, <2>8, DoneIs
<1>6. CASE UNCHANGED vars
  BY <1>6 DEF IInv, vars, TypeOK, BytesAccounted, BufferHoldsTail, LengthCounted,
             DigestOfPadding
<1> QED  BY <1>2, <1>3, <1>4, <1>5, <1>6 DEF Next

LEMMA Invariant == Spec => []IInv
<1>1. Init => IInv
  BY InitHolds
<1>2. IInv /\ [Next]_vars => IInv'
  BY NextHolds
<1> QED  BY <1>1, <1>2, PTL DEF Spec

(***************************************************************************)
(* The buffer of 64 bytes (hash_md5.c:25) is left with 64 by every call,    *)
(* and only whole blocks are hashed.  FilledIs, on which this rests, asks   *)
(* of each memcpy and memset on the way (187-221) that it ends in the       *)
(* buffer, and the lemmas that cite it show that it does.                   *)
(***************************************************************************)
THEOREM Md5TypeCorrect == Spec => []TypeOK
<1>1. IInv => TypeOK
  BY DEF IInv
<1> QED  BY <1>1, Invariant, PTL

(***************************************************************************)
(* However a message is cut into calls of MD5_Update, the blocks hashed and *)
(* the used part of the buffer are that message, and lo and hi are its      *)
(* length (hash_md5.c:176-202).                                             *)
(***************************************************************************)
THEOREM Md5BytesAccounted == Spec => []BytesAccounted
<1>1. IInv => BytesAccounted
  BY DEF IInv
<1> QED  BY <1>1, Invariant, PTL

(***************************************************************************)
(* What is hashed is the message, padded as MD5 pads it, and nothing else:  *)
(* the same for every way to cut it and for hash_md5_binary's one call.     *)
(***************************************************************************)
THEOREM Md5DigestIsPadded == Spec => []DigestOfPadding
<1>1. IInv => DigestOfPadding
  BY DEF IInv
<1> QED  BY <1>1, Invariant, PTL
===============================================================================
