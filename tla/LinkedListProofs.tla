--------------------------- MODULE LinkedListProofs ---------------------------
(***************************************************************************)
(* The list of LinkedList stays well formed under every sequence of calls,  *)
(* for every set of cells and items; its calls respect their index, and it  *)
(* implements the sequence of ItemList.                                     *)
(***************************************************************************)
EXTENDS LinkedList, DataLemmas

\* f starts at start and goes on along next for k steps.
Follows(f, start, next, k) == /\ f[0] = start
                              /\ \A j \in 1 .. k : f[j] = next[f[j-1]]

(***************************************************************************)
(* A walk of k steps along next ends where any f that follows next does.    *)
(***************************************************************************)
LEMMA WalkFollows ==
  ASSUME NEW k \in Nat, NEW start, NEW next, NEW f, Follows(f, start, next, k)
  PROVE  Walk(start, next, k) = f[k]
<1> USE DEF Follows
<1> DEFINE w == CHOOSE v : v = [j \in 0 .. k |-> IF j = 0 THEN start ELSE next[v[j-1]]]
           diff == {j \in 0 .. k : w[j] # f[j]}
<1>1. \E v : v = [j \in 0 .. k |-> IF j = 0 THEN start ELSE next[v[j-1]]]
  <2>1. PICK g : g = [j \in 0 .. k |-> f[j]]
    OBVIOUS
  <2>2. ASSUME NEW j \in 0 .. k
        PROVE  f[j] = IF j = 0 THEN start ELSE next[g[j-1]]
    <3>1. CASE j # 0
      <4>1. j \in 1 .. k /\ j - 1 \in 0 .. k
        BY <3>1
      <4>2. g[j-1] = f[j-1]
        BY <4>1, <2>1
      <4> QED  BY <3>1, <4>1, <4>2
    <3> QED  BY <3>1
  <2>3. g = [j \in 0 .. k |-> IF j = 0 THEN start ELSE next[g[j-1]]]
    BY <2>1, <2>2
  <2> QED  BY <2>3
<1>2. w = [j \in 0 .. k |-> IF j = 0 THEN start ELSE next[w[j-1]]]
  BY <1>1
<1> HIDE DEF w
<1>3. diff = {}
  <2> SUFFICES ASSUME diff # {}
               PROVE  FALSE
    OBVIOUS
  <2>1. diff \in SUBSET Nat
    OBVIOUS
  <2>2. PICK m \in diff : \A j \in diff : m <= j
    BY <2>1, LeastNatural
  <2>3. m # 0
    <3>1. w[0] = start
      BY <1>2
    <3> QED  BY <3>1
  <2>4. m \in 1 .. k /\ m - 1 \in 0 .. k
    BY <2>3
  <2>5. w[m-1] = f[m-1]
    BY <2>2, <2>4
  <2>6. w[m] = next[w[m-1]]
    BY <1>2, <2>3
  <2> QED  BY <2>4, <2>5, <2>6
<1>4. w[k] = f[k]
  BY <1>3
<1>5. Walk(start, next, k) = w[k]
  BY DEF Walk, w
<1> QED  BY <1>4, <1>5

-------------------------------------------------------------------------------
(***************************************************************************)
(* linked_list_get_index returns the node at its index, from either end.    *)
(***************************************************************************)
LEMMA IndexFindsNode ==
  ASSUME TypeOK, NEW s \in [1 .. size -> live], Chain(s),
         NEW i \in 0 .. size - 1
  PROVE  linked_list_get_index(i) = s[i+1]
<1> USE DEF TypeOK
<1>1. Walk(head, front, i) = s[i+1]
  <2> DEFINE f == [j \in 0 .. i |-> s[j+1]]
  <2>1. f[0] = head
    BY DEF Chain
  <2>2. ASSUME NEW j \in 1 .. i
        PROVE  f[j] = front[f[j-1]]
    <3>1. j \in 1 .. size /\ j # size /\ j - 1 \in 0 .. i /\ j \in 0 .. i
      OBVIOUS
    <3>2. front[s[j]] = s[j+1]
      BY <3>1 DEF Chain
    <3>3. f[j] = s[j+1] /\ f[j-1] = s[j]
      BY <3>1
    <3> QED  BY <3>2, <3>3
  <2>3. f[i] = s[i+1]
    OBVIOUS
  <2>4. i \in Nat
    OBVIOUS
  <2>5. PICK h, g, u : h = head /\ g = front /\ u = f
    OBVIOUS
  <2> HIDE DEF f
  <2>6. Follows(u, h, g, i)
    BY <2>1, <2>2, <2>5 DEF Follows
  <2>7. Walk(h, g, i) = u[i]
    BY <2>4, <2>6, WalkFollows
  <2> QED  BY <2>3, <2>5, <2>7
<1>2. Walk(tail, back, size - 1 - i) = s[i+1]
  <2> DEFINE k == size - 1 - i
             f == [j \in 0 .. k |-> s[size - j]]
  <2>1. f[0] = tail
    BY DEF Chain
  <2>2. ASSUME NEW j \in 1 .. k
        PROVE  f[j] = back[f[j-1]]
    <3>1. /\ size - (j-1) \in 1 .. size /\ size - (j-1) # 1
          /\ j - 1 \in 0 .. k /\ j \in 0 .. k
      OBVIOUS
    <3>2. back[s[size - (j-1)]] = s[size - (j-1) - 1]
      BY <3>1 DEF Chain
    <3>3. f[j] = s[size - j] /\ f[j-1] = s[size - (j-1)]
      BY <3>1
    <3>4. size - (j-1) - 1 = size - j
      OBVIOUS
    <3> QED  BY <3>2, <3>3, <3>4
  <2>3. f[k] = s[i+1]
    <3>1. size - k = i + 1 /\ k \in 0 .. k
      OBVIOUS
    <3> QED  BY <3>1
  <2>4. k \in Nat
    OBVIOUS
  <2>5. PICK c, h, g, u : c = k /\ h = tail /\ g = back /\ u = f
    OBVIOUS
  <2> HIDE DEF f, k
  <2>6. Follows(u, h, g, c)
    BY <2>1, <2>2, <2>5 DEF Follows
  <2>7. Walk(h, g, c) = u[c]
    BY <2>4, <2>5, <2>6, WalkFollows
  <2> QED  BY <2>3, <2>5, <2>7 DEF k
<1> QED  BY <1>1, <1>2 DEF linked_list_get_index

-------------------------------------------------------------------------------
IInv == TypeOK /\ ListInv

(***************************************************************************)
(* linked_list_create makes an empty list.                                  *)
(***************************************************************************)
LEMMA CreateEstablishes ==
  ASSUME linked_list_create
  PROVE  IInv
<1> USE DEF linked_list_create
<1>1. TypeOK
  BY DEF TypeOK
<1>2. PICK s : s = [i \in 1 .. size |-> head]
  OBVIOUS
<1>3. s \in [1 .. size -> live]
  BY <1>2
<1>4. Chain(s)
  BY <1>2 DEF Chain
<1> QED  BY <1>1, <1>3, <1>4 DEF IInv, ListInv

(***************************************************************************)
(* linked_list_append keeps the list: the new node comes last.              *)
(***************************************************************************)
LEMMA AppendLinks ==
  ASSUME TypeOK, NEW s \in [1 .. size -> live], Chain(s),
         NEW n \in Node, NEW x \in Item, linked_list_append(n, x),
         NEW t, t = [i \in 1 .. size + 1 |-> IF i = size + 1 THEN n ELSE s[i]]
  PROVE  TypeOK' /\ t \in [1 .. size' -> live'] /\ Chain(t)'
<1> USE DEF linked_list_append, calloc_node
<1>0. TypeOK
  OBVIOUS
<1>1. TypeOK'
  BY <1>0 DEF TypeOK
<1>2. s \in [1 .. size -> live] /\ Chain(s)
  OBVIOUS
<1>3. t = [i \in 1 .. size + 1 |-> IF i = size + 1 THEN n ELSE s[i]]
  OBVIOUS
<1>4. size \in Nat /\ size' = size + 1 /\ n \notin live /\ live' = live \cup {n}
  BY <1>0 DEF TypeOK
<1>5. /\ \A i \in 1 .. size : t[i] = s[i] /\ s[i] \in live /\ t[i] # n
      /\ t[size'] = n
  <2>1. \A i \in 1 .. size : s[i] \in live /\ s[i] # n /\ i # size + 1 /\ i \in 1 .. size + 1
    BY <1>2, <1>4
  <2>2. size + 1 \in 1 .. size + 1
    BY <1>4
  <2> QED  BY <2>1, <2>2, <1>3, <1>4
<1>6. t \in [1 .. size' -> live']
  BY <1>3, <1>4, <1>5
<1>7. Chain(t)'
  <2>1. \A i, j \in 1 .. size' : t[i] = t[j] => i = j
    <3>1. \A i, j \in 1 .. size : s[i] = s[j] => i = j
      BY <1>2 DEF Chain
    <3> QED  BY <3>1, <1>4, <1>5
  <2>2. \A m \in live' : \E i \in 1 .. size' : t[i] = m
    <3>1. \A m \in live : \E i \in 1 .. size : s[i] = m
      BY <1>2 DEF Chain
    <3> QED  BY <3>1, <1>4, <1>5
  <2>3. tail = IF size = 0 THEN NULL ELSE s[size]
    BY <1>2 DEF Chain
  <2>4. size # 0 => s[size] # NULL
    BY <1>0, <1>4, NullAssumption DEF TypeOK
  <2>5. head' = IF size' = 0 THEN NULL ELSE t[1]
    <3>1. head = IF size = 0 THEN NULL ELSE s[1]
      BY <1>2 DEF Chain
    <3> QED  BY <3>1, <2>3, <2>4, <1>4, <1>5
  <2>6. tail' = IF size' = 0 THEN NULL ELSE t[size']
    BY <1>4, <1>5
  <2>7. ASSUME NEW i \in 1 .. size'
        PROVE  back'[t[i]] = IF i = 1 THEN NULL ELSE t[i-1]
    <3>1. CASE i = size'
      BY <3>1, <1>0, <1>4, <1>5, <2>3 DEF TypeOK
    <3>2. CASE i \in 1 .. size
      <4>1. back[s[i]] = IF i = 1 THEN NULL ELSE s[i-1]
        BY <3>2, <1>2 DEF Chain
      <4>2. i # 1 => t[i-1] = s[i-1]
        BY <3>2, <1>4, <1>5
      <4> QED  BY <3>2, <4>1, <4>2, <1>0, <1>5 DEF TypeOK
    <3> QED  BY <3>1, <3>2, <1>4
  <2>8. ASSUME NEW i \in 1 .. size'
        PROVE  front'[t[i]] = IF i = size' THEN NULL ELSE t[i+1]
    <3>1. CASE i = size'
      BY <3>1, <1>4, <1>5
    <3>2. CASE i \in 1 .. size
      <4>1. front[s[i]] = IF i = size THEN NULL ELSE s[i+1]
        BY <3>2, <1>2 DEF Chain
      <4>2. i # size => s[i] # s[size] /\ t[i+1] = s[i+1]
        BY <3>2, <1>2, <1>4, <1>5 DEF Chain
      <4>3. s[i] \in Node /\ s[i] # n /\ t[i] = s[i] /\ i # size'
        BY <3>2, <1>0, <1>4, <1>5 DEF TypeOK
      <4>4. front'[s[i]] = IF s[i] = tail THEN n ELSE front[s[i]]
        BY <4>3
      <4>5. i = size => t[i+1] = n
        BY <1>4, <1>5
      <4> QED  BY <3>2, <4>1, <4>2, <4>3, <4>4, <4>5, <2>3
    <3> QED  BY <3>1, <3>2, <1>4
  <2> QED  BY <2>1, <2>2, <2>5, <2>6, <2>7, <2>8 DEF Chain
<1> QED  BY <1>1, <1>6, <1>7

LEMMA AppendPreserves ==
  ASSUME IInv, NEW n \in Node, NEW x \in Item, linked_list_append(n, x)
  PROVE  IInv'
<1>1. PICK s \in [1 .. size -> live] : Chain(s)
  BY DEF IInv, ListInv
<1>2. PICK t : t = [i \in 1 .. size + 1 |-> IF i = size + 1 THEN n ELSE s[i]]
  OBVIOUS
<1> QED  BY <1>1, <1>2, AppendLinks DEF IInv, ListInv

(***************************************************************************)
(* Linking a new node before the node at position k moves the nodes from k  *)
(* on one place up.                                                         *)
(***************************************************************************)
LEMMA InsertBeforeLinks ==
  ASSUME TypeOK, NEW s \in [1 .. size -> live], Chain(s),
         NEW k \in 1 .. size, NEW n \in Node, NEW x \in Item,
         InsertBefore(s[k], n, x),
         NEW q, q = [i \in 1 .. size + 1 |-> IF i < k THEN s[i]
                                              ELSE IF i = k THEN n ELSE s[i-1]]
  PROVE  TypeOK' /\ q \in [1 .. size' -> live'] /\ Chain(q)'
<1> USE DEF InsertBefore, calloc_node
<1>1. TypeOK'
  <2>1. s[k] \in Node /\ back[s[k]] \in Node \cup {NULL}
    BY DEF TypeOK
  <2> QED  BY <2>1 DEF TypeOK
<1>2. size \in Nat /\ size' = size + 1 /\ n \notin live /\ live' = live \cup {n}
  BY DEF TypeOK
<1>3. q = [i \in 1 .. size + 1 |-> IF i < k THEN s[i] ELSE IF i = k THEN n ELSE s[i-1]]
  OBVIOUS
<1>4. /\ \A i \in 1 .. size : s[i] \in live /\ s[i] \in Node /\ s[i] # n /\ s[i] # NULL
      /\ q[k] = n
      /\ \A i \in 1 .. k - 1 : i \in 1 .. size /\ q[i] = s[i]
      /\ \A i \in k + 1 .. size' : i - 1 \in 1 .. size /\ q[i] = s[i-1]
  BY <1>2, <1>3, NullAssumption DEF TypeOK
<1>5. q \in [1 .. size' -> live']
  BY <1>2, <1>3, <1>4
<1>6. /\ \A i, j \in 1 .. size : s[i] = s[j] => i = j
      /\ \A m \in live : \E i \in 1 .. size : s[i] = m
      /\ head = s[1] /\ tail = s[size]
      /\ back[s[k]] = IF k = 1 THEN NULL ELSE s[k-1]
  BY <1>2 DEF Chain
<1>7. Chain(q)'
  <2>1. ASSUME NEW i \in 1 .. size', NEW j \in 1 .. size', q[i] = q[j]
        PROVE  i = j
    <3> DEFINE old(h) == IF h < k THEN h ELSE h - 1
    <3>1. \A h \in 1 .. size' : h # k => old(h) \in 1 .. size /\ q[h] = s[old(h)]
      BY <1>2, <1>4
    <3>2. i = k <=> j = k
      BY <3>1, <2>1, <1>4
    <3>3. CASE i # k
      <4>1. old(i) = old(j)
        BY <3>1, <3>2, <3>3, <2>1, <1>6
      <4> QED  BY <4>1, <3>2, <3>3, <1>2
    <3> QED  BY <3>2, <3>3
  <2>2. ASSUME NEW m \in live'
        PROVE  \E i \in 1 .. size' : q[i] = m
    <3>1. CASE m = n
      BY <3>1, <1>2, <1>4
    <3>2. CASE m \in live
      <4>1. PICK i \in 1 .. size : s[i] = m
        BY <3>2, <1>6
      <4>2. CASE i < k
        BY <4>1, <4>2, <1>2, <1>4
      <4>3. CASE i >= k
        <5>1. i + 1 \in 1 .. size' /\ i + 1 \in k + 1 .. size' /\ (i + 1) - 1 = i
          BY <4>3, <1>2
        <5>2. q[i+1] = s[i]
          BY <5>1, <1>4
        <5> QED  BY <5>1, <5>2, <4>1
      <4> QED  BY <4>2, <4>3, <1>2
    <3> QED  BY <3>1, <3>2, <1>2
  <2>3. head' = IF size' = 0 THEN NULL ELSE q[1]
    <3>1. CASE k = 1
      BY <3>1, <1>2, <1>4, <1>6
    <3>2. CASE k # 1
      <4>1. k - 1 \in 1 .. size /\ s[k-1] # NULL
        BY <3>2, <1>2, <1>4
      <4> QED  BY <3>2, <4>1, <1>2, <1>4, <1>6
    <3> QED  BY <3>1, <3>2
  <2>4. tail' = IF size' = 0 THEN NULL ELSE q[size']
    <3>1. size' \in k + 1 .. size' /\ size' - 1 = size
      BY <1>2
    <3> QED  BY <3>1, <1>2, <1>4, <1>6
  <2>5. ASSUME NEW i \in 1 .. size'
        PROVE  /\ back'[q[i]] = IF i = 1 THEN NULL ELSE q[i-1]
               /\ front'[q[i]] = IF i = size' THEN NULL ELSE q[i+1]
    <3>1. CASE i = k
      <4>1. back'[n] = back[s[k]] /\ front'[n] = s[k]
        OBVIOUS
      <4>2. k # 1 => q[k-1] = s[k-1]
        BY <1>2, <1>4
      <4>3. k + 1 \in k + 1 .. size' /\ q[k+1] = s[k]
        BY <1>2, <1>4
      <4> QED  BY <3>1, <4>1, <4>2, <4>3, <1>2, <1>4, <1>6
    <3>2. CASE i < k
      <4>1. i \in 1 .. size /\ i # size /\ q[i] = s[i]
        BY <3>2, <1>2, <1>4
      <4>2. /\ back[s[i]] = IF i = 1 THEN NULL ELSE s[i-1]
            /\ front[s[i]] = s[i+1]
        BY <4>1, <1>2 DEF Chain
      <4>3. s[i] # s[k] /\ (s[i] = back[s[k]] <=> i = k - 1)
        BY <3>2, <4>1, <1>2, <1>4, <1>6
      <4>4. /\ back'[s[i]] = back[s[i]]
            /\ front'[s[i]] = IF i = k - 1 THEN n ELSE s[i+1]
        BY <4>1, <4>2, <4>3, <1>4
      <4>5. i # 1 => q[i-1] = s[i-1]
        BY <3>2, <1>2, <1>4
      <4>6. q[i+1] = IF i = k - 1 THEN n ELSE s[i+1]
        BY <3>2, <1>2, <1>4
      <4> QED  BY <4>1, <4>2, <4>4, <4>5, <4>6, <3>2, <1>2
    <3>3. CASE i > k
      <4>0. i - 1 \in k .. size /\ i = (i - 1) + 1
        BY <3>3, <1>2
      <4>1. PICK j \in k .. size : i = j + 1
        BY <4>0
      <4>2. j \in 1 .. size /\ q[i] = s[j] /\ i # 1
        BY <4>1, <1>2, <1>4
      <4>3. /\ back[s[j]] = IF j = 1 THEN NULL ELSE s[j-1]
            /\ front[s[j]] = IF j = size THEN NULL ELSE s[j+1]
        BY <4>2, <1>2 DEF Chain
      <4>4. s[j] # back[s[k]] /\ (s[j] = s[k] <=> j = k)
        BY <4>1, <4>2, <1>2, <1>4, <1>6
      <4>5. /\ back'[s[j]] = IF j = k THEN n ELSE back[s[j]]
            /\ front'[s[j]] = front[s[j]]
        BY <4>2, <4>4, <1>4
      <4>6. q[i-1] = IF j = k THEN n ELSE s[j-1]
        BY <4>1, <1>2, <1>3
      <4>7. j # size => q[i+1] = s[j+1]
        BY <4>1, <1>2, <1>3
      <4> QED  BY <4>1, <4>2, <4>3, <4>5, <4>6, <4>7, <1>2
    <3> QED  BY <3>1, <3>2, <3>3, <1>2
  <2> QED  BY <2>1, <2>2, <2>3, <2>4, <2>5 DEF Chain
<1> QED  BY <1>1, <1>5, <1>7

LEMMA InsertBeforePreserves ==
  ASSUME TypeOK, NEW s \in [1 .. size -> live], Chain(s),
         NEW k \in 1 .. size, NEW n \in Node, NEW x \in Item,
         InsertBefore(s[k], n, x)
  PROVE  IInv'
<1>1. PICK q : q = [i \in 1 .. size + 1 |-> IF i < k THEN s[i]
                                            ELSE IF i = k THEN n ELSE s[i-1]]
  OBVIOUS
<1> QED  BY <1>1, InsertBeforeLinks DEF IInv, ListInv

(***************************************************************************)
(* linked_list_insert keeps the list, wherever its index points.            *)
(***************************************************************************)
LEMMA InsertPreserves ==
  ASSUME IInv, NEW i \in 0 .. size, NEW n \in Node, NEW x \in Item,
         linked_list_insert(i, n, x)
  PROVE  IInv'
<1>1. CASE linked_list_append(n, x)
  BY <1>1, AppendPreserves
<1>2. CASE i < size /\ InsertBefore(linked_list_get_index(i), n, x)
  <2>1. TypeOK
    BY DEF IInv
  <2>2. PICK s \in [1 .. size -> live] : Chain(s)
    BY DEF IInv, ListInv
  <2>3. i \in 0 .. size - 1 /\ i + 1 \in 1 .. size
    BY <1>2, <2>1 DEF TypeOK
  <2>4. linked_list_get_index(i) = s[i+1]
    BY <2>1, <2>2, <2>3, IndexFindsNode
  <2>5. InsertBefore(s[i+1], n, x)
    BY <1>2, <2>4
  <2> QED  BY <2>1, <2>2, <2>3, <2>5, InsertBeforePreserves
<1> QED  BY <1>1, <1>2 DEF linked_list_insert

(***************************************************************************)
(* Unlinking the node at position k moves the nodes after it one place      *)
(* down.                                                                    *)
(***************************************************************************)
LEMMA RemoveUnlinks ==
  ASSUME TypeOK, NEW s \in [1 .. size -> live], Chain(s),
         NEW k \in 1 .. size, NEW n \in Node, s[k] = n, linked_list_remove(n),
         NEW q, q = [i \in 1 .. size - 1 |-> s[IF i < k THEN i ELSE i + 1]]
  PROVE  TypeOK' /\ q \in [1 .. size' -> live'] /\ Chain(q)'
<1> USE DEF linked_list_remove, Bypass
<1>1. TypeOK
  OBVIOUS
<1>2. s \in [1 .. size -> live] /\ Chain(s)
  OBVIOUS
<1>3. /\ \A i, j \in 1 .. size : s[i] = s[j] => i = j
      /\ \A m \in live : \E i \in 1 .. size : s[i] = m
      /\ head = IF size = 0 THEN NULL ELSE s[1]
      /\ tail = IF size = 0 THEN NULL ELSE s[size]
  BY <1>2 DEF Chain
<1>4. k \in 1 .. size /\ s[k] = n
  OBVIOUS
<1>5. size \in Nat \ {0} /\ size' = size - 1 /\ size' \in Nat /\ live' = live \ {n}
  BY <1>1, <1>4 DEF TypeOK
<1>6. /\ \A i \in 1 .. size : s[i] \in live /\ s[i] \in Node /\ s[i] # NULL
      /\ \A i \in 1 .. size : s[i] = n <=> i = k
      /\ back[n] = IF k = 1 THEN NULL ELSE s[k-1]
      /\ front[n] = IF k = size THEN NULL ELSE s[k+1]
  <2>1. \A i \in 1 .. size : s[i] \in live /\ s[i] \in Node /\ s[i] # NULL
    BY <1>1, NullAssumption DEF TypeOK
  <2>2. \A i \in 1 .. size : s[i] = n <=> i = k
    BY <1>3, <1>4
  <2>3. /\ back[n] = IF k = 1 THEN NULL ELSE s[k-1]
        /\ front[n] = IF k = size THEN NULL ELSE s[k+1]
    BY <1>2, <1>4 DEF Chain
  <2> QED  BY <2>1, <2>2, <2>3
<1>7. TypeOK'
  BY <1>1, <1>5 DEF TypeOK
<1> DEFINE old(h) == IF h < k THEN h ELSE h + 1
<1>8. q = [i \in 1 .. size - 1 |-> s[old(i)]]
  OBVIOUS
<1>9. \A i \in 1 .. size' : old(i) \in 1 .. size /\ old(i) # k /\ q[i] = s[old(i)]
  BY <1>5, <1>8
<1>10. q \in [1 .. size' -> live']
  <2>1. \A i \in 1 .. size' : q[i] \in live'
    BY <1>5, <1>6, <1>9
  <2> QED  BY <2>1, <1>5, <1>8
<1>11. Chain(q)'
  <2>1. ASSUME NEW i \in 1 .. size', NEW j \in 1 .. size', q[i] = q[j]
        PROVE  i = j
    <3>1. old(i) = old(j)
      BY <2>1, <1>3, <1>9
    <3> QED  BY <3>1, <1>5
  <2>2. ASSUME NEW m \in live'
        PROVE  \E i \in 1 .. size' : q[i] = m
    <3>1. PICK h \in 1 .. size : s[h] = m /\ h # k
      BY <1>3, <1>4, <1>5
    <3>2. CASE h < k
      <4>1. h \in 1 .. size' /\ old(h) = h
        BY <3>2, <1>5
      <4> QED  BY <4>1, <3>1, <1>9
    <3>3. CASE h > k
      <4>1. h - 1 \in 1 .. size' /\ old(h - 1) = h
        BY <3>3, <1>5
      <4>2. q[h-1] = m
        BY <4>1, <3>1, <1>9
      <4> QED  BY <4>1, <4>2
    <3> QED  BY <3>1, <3>2, <3>3
  <2>3. head' = IF size' = 0 THEN NULL ELSE q[1]
    <3>1. head' = IF back[n] = NULL THEN front[n] ELSE head
      OBVIOUS
    <3>2. CASE size' = 0
      <4>1. k = 1 /\ k = size
        BY <3>2, <1>5
      <4> QED  BY <3>1, <3>2, <4>1, <1>6
    <3>3. CASE size' # 0
      <4>1. 1 \in 1 .. size' /\ q[1] = IF k = 1 THEN s[2] ELSE s[1]
        BY <3>3, <1>5, <1>9
      <4>2. CASE k = 1
        <5>1. k # size /\ k + 1 = 2
          BY <3>3, <4>2, <1>5
        <5> QED  BY <3>1, <3>3, <4>1, <4>2, <5>1, <1>6
      <4>3. CASE k # 1
        <5>1. k - 1 \in 1 .. size
          BY <4>3, <1>5
        <5> QED  BY <3>1, <3>3, <4>1, <4>3, <5>1, <1>3, <1>5, <1>6
      <4> QED  BY <4>2, <4>3
    <3> QED  BY <3>2, <3>3
  <2>4. tail' = IF size' = 0 THEN NULL ELSE q[size']
    <3>1. tail' = IF front[n] = NULL THEN back[n] ELSE tail
      OBVIOUS
    <3>2. CASE size' = 0
      <4>1. k = 1 /\ k = size
        BY <3>2, <1>5
      <4> QED  BY <3>1, <3>2, <4>1, <1>6
    <3>3. CASE size' # 0
      <4>1. size' \in 1 .. size' /\ q[size'] = IF k = size THEN s[k-1] ELSE s[size]
        BY <3>3, <1>5, <1>9
      <4>2. CASE k = size
        <5>1. k # 1
          BY <3>3, <4>2, <1>5
        <5> QED  BY <3>1, <3>3, <4>1, <4>2, <5>1, <1>6
      <4>3. CASE k # size
        <5>1. k + 1 \in 1 .. size
          BY <4>3, <1>5
        <5> QED  BY <3>1, <3>3, <4>1, <4>3, <5>1, <1>3, <1>5, <1>6
      <4> QED  BY <4>2, <4>3
    <3> QED  BY <3>2, <3>3
  <2>5. ASSUME NEW i \in 1 .. size'
        PROVE  back'[q[i]] = IF i = 1 THEN NULL ELSE q[i-1]
    <3>1. old(i) \in 1 .. size /\ old(i) # k /\ q[i] = s[old(i)]
      BY <1>9
    <3>2. PICK h \in 1 .. size : h = old(i)
      BY <3>1
    <3>3. back[s[h]] = IF h = 1 THEN NULL ELSE s[h-1]
      BY <1>2 DEF Chain
    <3>4. s[h] = front[n] <=> h = k + 1
      BY <1>3, <1>5, <1>6
    <3>5. back'[s[h]] = IF h = k + 1 THEN back[n] ELSE back[s[h]]
      BY <3>1, <3>2, <3>4, <1>6
    <3>6. i # 1 => /\ i - 1 \in 1 .. size' /\ q[i-1] = s[old(i-1)]
                   /\ old(i-1) = IF h = k + 1 THEN k - 1 ELSE h - 1
      BY <3>2, <1>5, <1>9
    <3>7. i = 1 <=> IF h = k + 1 THEN k = 1 ELSE h = 1
      BY <3>1, <3>2, <1>5
    <3> QED  BY <3>1, <3>2, <3>3, <3>5, <3>6, <3>7, <1>6
  <2>6. ASSUME NEW i \in 1 .. size'
        PROVE  front'[q[i]] = IF i = size' THEN NULL ELSE q[i+1]
    <3>1. old(i) \in 1 .. size /\ old(i) # k /\ q[i] = s[old(i)]
      BY <1>9
    <3>2. PICK h \in 1 .. size : h = old(i)
      BY <3>1
    <3>3. front[s[h]] = IF h = size THEN NULL ELSE s[h+1]
      BY <1>2 DEF Chain
    <3>4. s[h] = back[n] <=> h = k - 1
      BY <1>3, <1>5, <1>6
    <3>5. front'[s[h]] = IF h = k - 1 THEN front[n] ELSE front[s[h]]
      BY <3>1, <3>2, <3>4, <1>6
    <3>6. i # size' => /\ i + 1 \in 1 .. size' /\ q[i+1] = s[old(i+1)]
                       /\ old(i+1) = IF h = k - 1 THEN k + 1 ELSE h + 1
      BY <3>2, <1>5, <1>9
    <3>7. i = size' <=> IF h = k - 1 THEN k = size ELSE h = size
      BY <3>1, <3>2, <1>5
    <3> QED  BY <3>1, <3>2, <3>3, <3>5, <3>6, <3>7, <1>6
  <2> QED  BY <2>1, <2>2, <2>3, <2>4, <2>5, <2>6 DEF Chain
<1> QED  BY <1>7, <1>10, <1>11

LEMMA RemovePreserves ==
  ASSUME IInv, NEW n \in Node, linked_list_remove(n)
  PROVE  IInv'
<1>1. PICK s \in [1 .. size -> live] : Chain(s)
  BY DEF IInv, ListInv
<1>2. PICK k \in 1 .. size : s[k] = n
  BY <1>1 DEF Chain, linked_list_remove
<1>3. PICK q : q = [i \in 1 .. size - 1 |-> s[IF i < k THEN i ELSE i + 1]]
  OBVIOUS
<1> QED  BY <1>1, <1>2, <1>3, RemoveUnlinks DEF IInv, ListInv

(***************************************************************************)
(* linked_list_pop keeps the list: it removes the node at its index.        *)
(***************************************************************************)
LEMMA PopPreserves ==
  ASSUME IInv, NEW i \in 0 .. size, linked_list_pop(i)
  PROVE  IInv'
<1>1. TypeOK
  BY DEF IInv
<1>2. PICK s \in [1 .. size -> live] : Chain(s)
  BY DEF IInv, ListInv
<1>3. i \in 0 .. size - 1 /\ i + 1 \in 1 .. size
  BY <1>1 DEF TypeOK, linked_list_pop
<1>4. linked_list_get_index(i) = s[i+1]
  BY <1>1, <1>2, <1>3, IndexFindsNode
<1>5. s[i+1] \in Node /\ linked_list_remove(s[i+1])
  BY <1>1, <1>3, <1>4 DEF TypeOK, linked_list_pop
<1> QED  BY <1>5, RemovePreserves

(***************************************************************************)
(* linked_list_clear leaves what linked_list_create makes.                  *)
(***************************************************************************)
LEMMA ClearPreserves ==
  ASSUME linked_list_clear
  PROVE  IInv'
<1> USE DEF linked_list_clear
<1>1. TypeOK'
  BY DEF TypeOK
<1>2. PICK s : s = [i \in 1 .. 0 |-> NULL]
  OBVIOUS
<1>3. s \in [1 .. size' -> live']
  BY <1>2
<1>4. Chain(s)'
  BY <1>2 DEF Chain
<1> QED  BY <1>1, <1>3, <1>4 DEF IInv, ListInv

-------------------------------------------------------------------------------
(***************************************************************************)
(* The inductive invariant: whatever calls linked_list.c receives, its      *)
(* fields keep their types and the list stays well formed.                  *)
(***************************************************************************)
THEOREM Inductive == Spec => []IInv
<1>1. Init => IInv
  BY CreateEstablishes DEF Init
<1>2. IInv /\ [Next]_listVars => IInv'
  <2> SUFFICES ASSUME IInv, [Next]_listVars
               PROVE  IInv'
    OBVIOUS
  <2>1. ASSUME NEW n \in Node, NEW x \in Item, linked_list_append(n, x)
        PROVE  IInv'
    BY <2>1, AppendPreserves
  <2>2. ASSUME NEW n \in Node, NEW x \in Item, NEW i \in 0 .. size,
               linked_list_insert(i, n, x)
        PROVE  IInv'
    BY <2>2, InsertPreserves
  <2>3. ASSUME NEW n \in Node, linked_list_remove(n)
        PROVE  IInv'
    BY <2>3, RemovePreserves
  <2>4. ASSUME NEW i \in 0 .. size, linked_list_pop(i)
        PROVE  IInv'
    BY <2>4, PopPreserves
  <2>5. CASE linked_list_clear
    BY <2>5, ClearPreserves
  <2>6. CASE UNCHANGED listVars
    BY <2>6 DEF IInv, TypeOK, ListInv, Chain, listVars
  <2> QED  BY <2>1, <2>2, <2>3, <2>4, <2>5, <2>6 DEF Next
<1> QED  BY <1>1, <1>2, PTL DEF Spec

(***************************************************************************)
(* The fields of the list and of its nodes always hold what they should.    *)
(***************************************************************************)
THEOREM TypeCorrect == Spec => []TypeOK
<1>1. IInv => TypeOK
  BY DEF IInv
<1> QED  BY <1>1, Inductive, PTL

(***************************************************************************)
(* No pointer of the list dangles, no node is lost, both directions agree:  *)
(* after any number of appends, inserts, removals, pops and clears.         *)
(***************************************************************************)
THEOREM WellFormed == Spec => []ListInv
<1>1. IInv => ListInv
  BY DEF IInv
<1> QED  BY <1>1, Inductive, PTL

-------------------------------------------------------------------------------
(***************************************************************************)
(* The pointers leave one order only: it starts at the head and follows     *)
(* front.                                                                   *)
(***************************************************************************)
\* o is an order of n cells of S that starts at start and goes on along succ.
Along(o, n, S, start, succ) ==
  /\ o \in [1 .. n -> S]
  /\ n # 0 => o[1] = start
  /\ \A i \in 1 .. n : i # n => o[i+1] = succ[o[i]]

LEMMA OneOrder ==
  ASSUME NEW n \in Nat, NEW S, NEW start, NEW succ, NEW s, NEW t,
         Along(s, n, S, start, succ), Along(t, n, S, start, succ)
  PROVE  s = t
<1> USE DEF Along
<1> DEFINE diff == {i \in 1 .. n : s[i] # t[i]}
<1>1. diff = {}
  <2> SUFFICES ASSUME diff # {} PROVE FALSE
    OBVIOUS
  <2>1. diff \in SUBSET Nat
    OBVIOUS
  <2>2. PICK m \in diff : \A j \in diff : m <= j
    BY <2>1, LeastNatural
  <2>3. m # 1 /\ m - 1 \in 1 .. n /\ m - 1 # n /\ (m - 1) + 1 = m
    OBVIOUS
  <2>4. s[m-1] = t[m-1]
    BY <2>2, <2>3
  <2> QED  BY <2>3, <2>4
<1> QED  BY <1>1

LEMMA OrderIs ==
  ASSUME TypeOK, NEW s \in [1 .. size -> live], Chain(s)
  PROVE  Order = s
<1>1. size \in Nat
  BY DEF TypeOK
<1>2. Order \in [1 .. size -> live] /\ Chain(Order)
  BY DEF Order
<1>3. Along(s, size, live, head, front) /\ Along(Order, size, live, head, front)
  BY <1>2 DEF Chain, Along
<1> QED  BY <1>1, <1>3, OneOrder

\* The items are those of the cells in that order.
LEMMA ItemsAre ==
  ASSUME TypeOK, NEW s \in [1 .. size -> live], Chain(s)
  PROVE  /\ Items \in Seq(Item \cup {NULL}) /\ Len(Items) = size
         /\ \A i \in 1 .. size : Items[i] = item[s[i]]
<1>1. size \in Nat /\ live \subseteq Node /\ item \in [Node -> Item \cup {NULL}]
  BY DEF TypeOK
<1>3. Order = s
  BY OrderIs
<1>4. Items \in [1 .. size -> Item \cup {NULL}]
  BY <1>1, <1>3 DEF Items
<1> QED  BY <1>1, <1>3, <1>4, FunctionIsSeq DEF Items

\* The same of the next state.
LEMMA NextOrderIs ==
  ASSUME TypeOK', NEW s \in [1 .. size' -> live'], Chain(s)'
  PROVE  Order' = s
<1>1. size' \in Nat
  BY DEF TypeOK
<1>2. Order' \in [1 .. size' -> live'] /\ Chain(Order)'
  BY DEF Order
<1>3. Along(s, size', live', head', front') /\ Along(Order', size', live', head', front')
  BY <1>2 DEF Chain, Along
<1> QED  BY <1>1, <1>3, OneOrder

LEMMA NextItemsAre ==
  ASSUME TypeOK', NEW s \in [1 .. size' -> live'], Chain(s)'
  PROVE  /\ Items' \in Seq(Item \cup {NULL}) /\ Len(Items)' = size'
         /\ \A i \in 1 .. size' : Items'[i] = item'[s[i]]
<1>1. size' \in Nat /\ live' \subseteq Node /\ item' \in [Node -> Item \cup {NULL}]
  BY DEF TypeOK
<1>3. Order' = s
  BY NextOrderIs
<1>4. Items' \in [1 .. size' -> Item \cup {NULL}]
  BY <1>1, <1>3 DEF Items
<1> QED  BY <1>1, <1>3, <1>4, FunctionIsSeq DEF Items

-------------------------------------------------------------------------------
(* What each call does to the items: at the end, at a place, and from one.  *)

LEMMA AppendAdds ==
  ASSUME TypeOK, NEW s \in [1 .. size -> live], Chain(s),
         NEW n \in Node, NEW x \in Item, linked_list_append(n, x)
  PROVE  Items' = InsertAt(Items, size + 1, x)
<1> DEFINE S == Item \cup {NULL}
<1>1. PICK t : t = [i \in 1 .. size + 1 |-> IF i = size + 1 THEN n ELSE s[i]]
  OBVIOUS
<1>2. TypeOK' /\ t \in [1 .. size' -> live'] /\ Chain(t)'
  BY <1>1, AppendLinks
<1>3. /\ size \in Nat /\ size' = size + 1 /\ n \notin live
      /\ item'[n] = x /\ \A m \in live : item'[m] = item[m]
  BY DEF TypeOK, linked_list_append, calloc_node
<1>4. /\ Items \in Seq(S) /\ Len(Items) = size
      /\ \A i \in 1 .. size : Items[i] = item[s[i]]
  BY ItemsAre
<1>5. /\ Items' \in Seq(S) /\ Len(Items)' = size'
      /\ \A i \in 1 .. size' : Items'[i] = item'[t[i]]
  BY <1>2, NextItemsAre
<1>6. /\ InsertAt(Items, size + 1, x) \in Seq(S)
      /\ Len(InsertAt(Items, size + 1, x)) = size + 1
      /\ \A j \in 1 .. size + 1 : InsertAt(Items, size + 1, x)[j] =
           IF j < size + 1 THEN Items[j] ELSE IF j = size + 1 THEN x ELSE Items[j - 1]
  <2>1. size + 1 \in 1 .. Len(Items) + 1 /\ Len(Items) + 1 = size + 1 /\ x \in S
    BY <1>3, <1>4
  <2>2. PICK T, q0, i : T = S /\ q0 = Items /\ i = size + 1
    OBVIOUS
  <2>3. q0 \in Seq(T) /\ i \in 1 .. Len(q0) + 1 /\ x \in T
    BY <1>4, <2>1, <2>2
  <2>4. /\ InsertAt(q0, i, x) \in Seq(T)
        /\ Len(InsertAt(q0, i, x)) = Len(q0) + 1
        /\ \A j \in 1 .. Len(q0) + 1 :
             InsertAt(q0, i, x)[j] = Inserted(q0, i, x, j)
    BY <2>3, InsertAtElements, Zenon
  <2> QED  BY <1>4, <2>1, <2>2, <2>4 DEF Inserted
<1>7. ASSUME NEW j \in 1 .. size + 1
      PROVE  Items'[j] = InsertAt(Items, size + 1, x)[j]
  <2>1. CASE j = size + 1
    <3>1. t[j] = n /\ Items'[j] = item'[t[j]]
      BY <2>1, <1>1, <1>3, <1>5
    <3>2. InsertAt(Items, size + 1, x)[j] = x
      BY <2>1, <1>6
    <3> QED  BY <3>1, <3>2, <1>3
  <2>2. CASE j # size + 1
    <3>1. j \in 1 .. size /\ t[j] = s[j] /\ s[j] \in live /\ j < size + 1
      BY <2>2, <1>1, <1>3
    <3> QED  BY <3>1, <1>3, <1>4, <1>5, <1>6
  <2> QED  BY <2>1, <2>2
<1> QED  BY <1>3, <1>5, <1>6, <1>7, SeqEqual

LEMMA InsertBeforeAdds ==
  ASSUME TypeOK, NEW s \in [1 .. size -> live], Chain(s),
         NEW k \in 1 .. size, NEW n \in Node, NEW x \in Item,
         InsertBefore(s[k], n, x)
  PROVE  Items' = InsertAt(Items, k, x)
<1> DEFINE S == Item \cup {NULL}
<1>1. PICK q : q = [i \in 1 .. size + 1 |-> IF i < k THEN s[i]
                                            ELSE IF i = k THEN n ELSE s[i-1]]
  OBVIOUS
<1>2. TypeOK' /\ q \in [1 .. size' -> live'] /\ Chain(q)'
  BY <1>1, InsertBeforeLinks
<1>3. /\ size \in Nat /\ size' = size + 1 /\ n \notin live
      /\ item'[n] = x /\ \A m \in live : item'[m] = item[m]
  BY DEF TypeOK, InsertBefore, calloc_node
<1>4. /\ Items \in Seq(S) /\ Len(Items) = size
      /\ \A i \in 1 .. size : Items[i] = item[s[i]]
  BY ItemsAre
<1>5. /\ Items' \in Seq(S) /\ Len(Items)' = size'
      /\ \A i \in 1 .. size' : Items'[i] = item'[q[i]]
  BY <1>2, NextItemsAre
<1>6. /\ InsertAt(Items, k, x) \in Seq(S)
      /\ Len(InsertAt(Items, k, x)) = size + 1
      /\ \A j \in 1 .. size + 1 : InsertAt(Items, k, x)[j] =
           IF j < k THEN Items[j] ELSE IF j = k THEN x ELSE Items[j - 1]
  <2>1. k \in 1 .. Len(Items) + 1 /\ Len(Items) + 1 = size + 1 /\ x \in S
    BY <1>3, <1>4
  <2>2. PICK T, q0, i : T = S /\ q0 = Items /\ i = k
    OBVIOUS
  <2>3. q0 \in Seq(T) /\ i \in 1 .. Len(q0) + 1 /\ x \in T
    BY <1>4, <2>1, <2>2
  <2>4. /\ InsertAt(q0, i, x) \in Seq(T)
        /\ Len(InsertAt(q0, i, x)) = Len(q0) + 1
        /\ \A j \in 1 .. Len(q0) + 1 :
             InsertAt(q0, i, x)[j] = Inserted(q0, i, x, j)
    BY <2>3, InsertAtElements, Zenon
  <2> QED  BY <1>4, <2>1, <2>2, <2>4 DEF Inserted
<1>7. ASSUME NEW j \in 1 .. size + 1
      PROVE  Items'[j] = InsertAt(Items, k, x)[j]
  <2>1. CASE j = k
    <3>1. k \in 1 .. size + 1 /\ q[k] = n
      BY <1>1, <1>3
    <3>2. Items'[k] = x
      BY <3>1, <1>3, <1>5
    <3>3. InsertAt(Items, k, x)[k] = x
      BY <3>1, <1>6
    <3> QED  BY <2>1, <3>2, <3>3
  <2>2. CASE j < k
    <3>1. j \in 1 .. size /\ q[j] = s[j] /\ s[j] \in live
      BY <2>2, <1>1, <1>3
    <3>2. Items'[j] = item[s[j]] /\ Items[j] = item[s[j]]
      BY <3>1, <1>3, <1>4, <1>5
    <3> QED  BY <2>2, <3>2, <1>6
  <2>3. CASE j > k
    <3>1. j - 1 \in 1 .. size /\ q[j] = s[j-1] /\ s[j-1] \in live
      BY <2>3, <1>1, <1>3
    <3>2. Items'[j] = item[s[j-1]] /\ Items[j-1] = item[s[j-1]]
      BY <3>1, <1>3, <1>4, <1>5
    <3> QED  BY <2>3, <3>2, <1>6
  <2> QED  BY <2>1, <2>2, <2>3
<1> QED  BY <1>3, <1>5, <1>6, <1>7, SeqEqual

LEMMA RemoveTakes ==
  ASSUME TypeOK, NEW s \in [1 .. size -> live], Chain(s),
         NEW k \in 1 .. size, linked_list_remove(s[k])
  PROVE  Items' = RemoveAt(Items, k)
<1> DEFINE S == Item \cup {NULL}
<1>1. PICK q : q = [i \in 1 .. size - 1 |-> s[IF i < k THEN i ELSE i + 1]]
  OBVIOUS
<1>2. TypeOK' /\ q \in [1 .. size' -> live'] /\ Chain(q)'
  <2>1. s[k] \in Node
    BY DEF TypeOK
  <2> QED  BY <1>1, <2>1, RemoveUnlinks
<1>3. /\ size \in Nat /\ size' = size - 1
      /\ \A m \in live : m # s[k] => item'[m] = item[m]
  BY DEF TypeOK, linked_list_remove
<1>4. /\ Items \in Seq(S) /\ Len(Items) = size
      /\ \A i \in 1 .. size : Items[i] = item[s[i]]
  BY ItemsAre
<1>5. /\ Items' \in Seq(S) /\ Len(Items)' = size'
      /\ \A i \in 1 .. size' : Items'[i] = item'[q[i]]
  BY <1>2, NextItemsAre
<1>6. /\ RemoveAt(Items, k) \in Seq(S)
      /\ Len(RemoveAt(Items, k)) = size - 1
      /\ \A j \in 1 .. size - 1 : RemoveAt(Items, k)[j] = Items[IF j < k THEN j ELSE j + 1]
  BY <1>4, RemoveAtElements
<1>7. ASSUME NEW j \in 1 .. size - 1
      PROVE  Items'[j] = RemoveAt(Items, k)[j]
  <2>1. PICK m \in 1 .. size : m = (IF j < k THEN j ELSE j + 1) /\ m # k
    BY <1>3
  <2>2. s[m] \in live /\ s[m] # s[k]
    BY <2>1 DEF Chain
  <2>3. q[j] = s[m]
    BY <1>1, <2>1
  <2>4. Items'[j] = item[s[m]]
    BY <2>2, <2>3, <1>3, <1>5
  <2>5. Items[m] = item[s[m]]
    BY <1>4
  <2> QED  BY <2>1, <2>4, <2>5, <1>6
<1> QED  BY <1>3, <1>5, <1>6, <1>7, SeqEqual

-------------------------------------------------------------------------------
(***************************************************************************)
(* The calls that take an index act on the item at that index.              *)
(***************************************************************************)
LEMMA InsertActsOnIndex ==
  ASSUME IInv, NEW i \in 0 .. size, NEW n \in Node, NEW x \in Item,
         linked_list_insert(i, n, x)
  PROVE  Items' = InsertAt(Items, i + 1, x)
<1>1. TypeOK /\ size \in Nat
  BY DEF IInv, TypeOK
<1>2. PICK s \in [1 .. size -> live] : Chain(s)
  BY DEF IInv, ListInv
<1>3. CASE i >= size /\ linked_list_append(n, x)
  <2>1. i = size
    BY <1>1, <1>3
  <2> QED  BY <1>1, <1>2, <1>3, <2>1, AppendAdds
<1>4. CASE i < size /\ InsertBefore(linked_list_get_index(i), n, x)
  <2>1. i \in 0 .. size - 1 /\ i + 1 \in 1 .. size
    BY <1>1, <1>4
  <2>2. InsertBefore(s[i+1], n, x)
    BY <1>1, <1>2, <1>4, <2>1, IndexFindsNode
  <2> QED  BY <1>1, <1>2, <2>1, <2>2, InsertBeforeAdds
<1> QED  BY <1>3, <1>4 DEF linked_list_insert

LEMMA PopActsOnIndex ==
  ASSUME IInv, NEW i \in 0 .. size, linked_list_pop(i)
  PROVE  i + 1 \in 1 .. size /\ Items' = RemoveAt(Items, i + 1)
<1>1. TypeOK /\ size \in Nat
  BY DEF IInv, TypeOK
<1>2. PICK s \in [1 .. size -> live] : Chain(s)
  BY DEF IInv, ListInv
<1>3. i \in 0 .. size - 1 /\ i + 1 \in 1 .. size
  BY <1>1 DEF linked_list_pop
<1>4. linked_list_remove(s[i+1])
  BY <1>1, <1>2, <1>3, IndexFindsNode DEF linked_list_pop
<1> QED  BY <1>1, <1>2, <1>3, <1>4, RemoveTakes

(***************************************************************************)
(* insert puts its item at the index it is given, and pop takes the item    *)
(* from there, from whichever end get_index walks, for a list of any length *)
(* (linked_list.c, linked_list_insert and linked_list_pop).                 *)
(***************************************************************************)
THEOREM IndexIsRespected == Spec => ActsOnItsIndex
<1>1. IInv /\ [Next]_listVars =>
        [/\ \A i \in 0 .. size, n \in Node, x \in Item :
               linked_list_insert(i, n, x) => Items' = InsertAt(Items, i + 1, x)
         /\ \A i \in 0 .. size :
               linked_list_pop(i) => Items' = RemoveAt(Items, i + 1)]_listVars
  BY InsertActsOnIndex, PopActsOnIndex
<1> QED  BY <1>1, Inductive, PTL DEF Spec, ActsOnItsIndex

(***************************************************************************)
(* The pointers of linked_list.c implement the sequence of ItemList: no     *)
(* call loses, repeats or reorders an item it was not asked to.             *)
(***************************************************************************)
THEOREM ItemListRefined == Spec => ImplementsItemList
<1>1. Init => Abstract!Init
  <2> SUFFICES ASSUME Init PROVE Items = << >>
    BY DEF Abstract!Init
  <2>1. size = 0
    BY DEF Init, linked_list_create
  <2> QED  BY <2>1 DEF Items
<1>2. IInv /\ [Next]_listVars => [Abstract!Next]_Items
  <2> SUFFICES ASSUME IInv, [Next]_listVars PROVE Abstract!Next \/ Items' = Items
    OBVIOUS
  <2>1. TypeOK /\ size \in Nat
    BY DEF IInv, TypeOK
  <2>2. PICK s \in [1 .. size -> live] : Chain(s)
    BY DEF IInv, ListInv
  <2>3. Len(Items) = size
    BY <2>1, <2>2, ItemsAre
  <2> DEFINE Adds(i, x) == Items' = InsertAt(Items, i + 1, x)
  <2>4. ASSUME NEW x \in Item, NEW i \in 0 .. size, Adds(i, x) PROVE Abstract!Next
    BY <2>3, <2>4 DEF Abstract!Next, Abstract!InsertItem, Abstract!InsertAt, InsertAt
  <2>5. ASSUME NEW i \in 1 .. size, Items' = RemoveAt(Items, i) PROVE Abstract!Next
    BY <2>3, <2>5 DEF Abstract!Next, Abstract!RemoveItem, Abstract!RemoveAt, RemoveAt
  <2>6. ASSUME NEW n \in Node, NEW x \in Item, linked_list_append(n, x) PROVE Abstract!Next
    <3>1. size \in 0 .. size /\ Adds(size, x)
      BY <2>1, <2>2, <2>6, AppendAdds
    <3> QED  BY <2>4, <3>1
  <2>7. ASSUME NEW n \in Node, NEW x \in Item, NEW i \in 0 .. size,
               linked_list_insert(i, n, x)
        PROVE  Abstract!Next
    <3>1. Adds(i, x)
      BY <2>7, InsertActsOnIndex
    <3> QED  BY <2>4, <3>1
  <2>8. ASSUME NEW n \in Node, linked_list_remove(n) PROVE Abstract!Next
    <3>1. PICK k \in 1 .. size : s[k] = n
      BY <2>2, <2>8 DEF Chain, linked_list_remove
    <3> QED  BY <2>1, <2>2, <2>5, <2>8, <3>1, RemoveTakes
  <2>9. ASSUME NEW i \in 0 .. size, linked_list_pop(i) PROVE Abstract!Next
    BY <2>5, <2>9, PopActsOnIndex
  <2>10. CASE linked_list_clear
    <3>1. Items' = << >>
      BY <2>10 DEF linked_list_clear, Items
    <3> QED  BY <3>1 DEF Abstract!Next, Abstract!ClearItems
  <2>11. CASE UNCHANGED listVars
    BY <2>11 DEF Items, Order, Chain, listVars
  <2> HIDE DEF Adds
  <2> QED  BY <2>6, <2>7, <2>8, <2>9, <2>10, <2>11 DEF Next
<1> QED  BY <1>1, <1>2, Inductive, PTL DEF Spec, ImplementsItemList, Abstract!Spec
===============================================================================
