--------------------------- MODULE PageAllocProofs ---------------------------
(* Proofs about module PageAlloc: the lists linked through struct page       *)
(* implement the sets of blocks of module Buddy, for any number of frames,   *)
(* orders and zones.                                                         *)
EXTENDS PageAlloc, FiniteSetTheorems, SequenceTheorems, TLAPS

(* Module Buddy again, with what is proved of it.                            *)
P == INSTANCE BuddyProofs WITH free <- FreeBlocks, allocated <- ToSet(live)

-----------------------------------------------------------------------------
(* A list is a ring of nodes through its head h: w lists them in the order   *)
(* of next, from the head to the head, and S is the set of its entries.      *)
Links == [next : [Node -> Node], prev : [Node -> Node]]

IsRing(L, h, w, m) ==
  /\ w[0] = h /\ w[m + 1] = h
  /\ \A i, j \in 0 .. m : w[i] = w[j] => i = j
  /\ \A i \in 0 .. m : L.next[w[i]] = w[i + 1] /\ L.prev[w[i + 1]] = w[i]

Ring(L, h, S) ==
  \E m \in Nat : \E w \in [0 .. m + 1 -> Node] :
    IsRing(L, h, w, m) /\ S = {w[i] : i \in 1 .. m}

LEMMA LastDistinct ==
  ASSUME NEW L, NEW h, NEW m \in Nat, NEW w, IsRing(L, h, w, m)
  PROVE  \A i, j \in 1 .. m + 1 : w[i] = w[j] => i = j
<1>1. \A i, j \in 1 .. m : w[i] = w[j] => i = j
  BY DEF IsRing
<1>2. \A i \in 1 .. m : w[i] # w[m + 1]
  BY DEF IsRing
<1>3. \A i \in 1 .. m + 1 : i \in 1 .. m \/ i = m + 1
  OBVIOUS
<1>4. QED
  BY <1>1, <1>2, <1>3

LEMMA RingEmpty ==
  ASSUME NEW L \in Links, NEW h \in Node, L.next[h] = h, L.prev[h] = h
  PROVE  Ring(L, h, {})
<1> DEFINE w == [i \in 0 .. 1 |-> h]
<1>1. IsRing(L, h, w, 0)
  BY DEF IsRing
<1>2. w \in [0 .. 0 + 1 -> Node] /\ {w[i] : i \in 1 .. 0} = {}
  OBVIOUS
<1>3. QED
  BY <1>1, <1>2 DEF Ring

(* Every store that misses the nodes of a ring leaves it alone.              *)
LEMMA RingSame ==
  ASSUME NEW L, NEW M, NEW h, NEW S, Ring(L, h, S),
         \A x \in S \cup {h} : M.next[x] = L.next[x] /\ M.prev[x] = L.prev[x]
  PROVE  Ring(M, h, S)
<1>0. PICK m \in Nat : \E w \in [0 .. m + 1 -> Node] :
        IsRing(L, h, w, m) /\ S = {w[i] : i \in 1 .. m}
  BY DEF Ring
<1>1. PICK w \in [0 .. m + 1 -> Node] :
        IsRing(L, h, w, m) /\ S = {w[i] : i \in 1 .. m}
  BY <1>0
<1>2. \A i \in 0 .. m + 1 : w[i] \in S \cup {h}
  <2>1. \A i \in 0 .. m + 1 : i = 0 \/ i = m + 1 \/ i \in 1 .. m
    OBVIOUS
  <2>2. QED
    BY <1>1, <2>1 DEF IsRing
<1>3. \A i \in 0 .. m : i \in 0 .. m + 1 /\ i + 1 \in 0 .. m + 1
  OBVIOUS
<1>4. IsRing(M, h, w, m)
  BY <1>1, <1>2, <1>3 DEF IsRing
<1>5. QED
  BY <1>1, <1>4 DEF Ring

LEMMA RingFacts ==
  ASSUME NEW L, NEW h, NEW S, Ring(L, h, S)
  PROVE  /\ h \notin S /\ S \subseteq Node
         /\ \A x \in S \cup {h} : /\ L.next[x] \in S \cup {h} /\ L.prev[x] \in S \cup {h}
                                  /\ L.prev[L.next[x]] = x /\ L.next[L.prev[x]] = x
         /\ Empty(L, h) <=> S = {}
         /\ S # {} => L.next[h] \in S
<1>0. PICK m \in Nat : \E w \in [0 .. m + 1 -> Node] :
        IsRing(L, h, w, m) /\ S = {w[i] : i \in 1 .. m}
  BY DEF Ring
<1>1. PICK w \in [0 .. m + 1 -> Node] :
        IsRing(L, h, w, m) /\ S = {w[i] : i \in 1 .. m}
  BY <1>0
<1>2. \A i \in 0 .. m + 1 : w[i] \in S \cup {h}
  <2>1. \A i \in 0 .. m + 1 : i = 0 \/ i = m + 1 \/ i \in 1 .. m
    OBVIOUS
  <2>2. QED
    BY <1>1, <2>1 DEF IsRing
<1>3. \A x \in S \cup {h} : \E i \in 0 .. m : x = w[i]
  BY <1>1 DEF IsRing
<1>4. \A x \in S \cup {h} : \E i \in 0 .. m : x = w[i + 1]
  <2>1. \A i \in 1 .. m + 1 : i - 1 \in 0 .. m /\ (i - 1) + 1 = i
    OBVIOUS
  <2>2. \A x \in S \cup {h} : \E i \in 1 .. m + 1 : x = w[i]
    BY <1>1 DEF IsRing
  <2>3. QED
    BY <2>1, <2>2
<1>5. h \notin S /\ S \subseteq Node
  BY <1>1 DEF IsRing
<1>6. ASSUME NEW x \in S \cup {h}
      PROVE  /\ L.next[x] \in S \cup {h} /\ L.prev[x] \in S \cup {h}
             /\ L.prev[L.next[x]] = x /\ L.next[L.prev[x]] = x
  <2>1. PICK i \in 0 .. m : x = w[i]
    BY <1>3
  <2>2. PICK j \in 0 .. m : x = w[j + 1]
    BY <1>4
  <2>3. i + 1 \in 0 .. m + 1 /\ j \in 0 .. m + 1
    OBVIOUS
  <2>4. /\ L.next[w[i]] = w[i + 1] /\ L.prev[w[i + 1]] = w[i]
        /\ L.next[w[j]] = w[j + 1] /\ L.prev[w[j + 1]] = w[j]
    BY <1>1 DEF IsRing
  <2>5. w[i + 1] \in S \cup {h} /\ w[j] \in S \cup {h}
    BY <1>2, <2>3
  <2>6. QED
    BY <2>1, <2>2, <2>4, <2>5
<1>7. Empty(L, h) <=> S = {}
  <2>1. CASE m = 0
    BY <1>1, <2>1 DEF IsRing, Empty
  <2>2. CASE m # 0
    <3>1. 1 \in 1 .. m /\ 0 \in 0 .. m
      BY <2>2
    <3>2. w[1] \in S /\ L.next[h] = w[1]
      BY <1>1, <3>1 DEF IsRing
    <3>3. QED
      BY <1>5, <3>2 DEF Empty
  <2>3. QED
    BY <2>1, <2>2
<1>8. S # {} => L.next[h] \in S
  BY <1>5, <1>6, <1>7 DEF Empty
<1>9. QED
  BY <1>5, <1>6, <1>7, <1>8

(* list_del takes exactly its entry out of the ring.                         *)
LEMMA RingDel ==
  ASSUME NEW L \in Links, NEW h, NEW S, Ring(L, h, S), NEW x \in S
  PROVE  Ring(ListDel(L, x), h, S \ {x})
<1>0. PICK m \in Nat : \E w \in [0 .. m + 1 -> Node] :
        IsRing(L, h, w, m) /\ S = {w[i] : i \in 1 .. m}
  BY DEF Ring
<1>1. PICK w \in [0 .. m + 1 -> Node] :
        IsRing(L, h, w, m) /\ S = {w[i] : i \in 1 .. m}
  BY <1>0
<1>2. PICK d \in 1 .. m : x = w[d]
  BY <1>1
<1> DEFINE M == ListDel(L, x)
           k == m - 1
           v == [i \in 0 .. m |-> IF i < d THEN w[i] ELSE w[i + 1]]
<1>3. k \in Nat /\ k + 1 = m /\ d - 1 \in 0 .. m /\ d \in 0 .. m /\ (d - 1) + 1 = d
  BY <1>2
<1>4. L.prev[x] = w[d - 1] /\ L.next[x] = w[d + 1]
  BY <1>1, <1>2, <1>3 DEF IsRing
<1>5. /\ \A y \in Node : M.next[y] = IF y = w[d - 1] THEN w[d + 1] ELSE L.next[y]
      /\ \A y \in Node : M.prev[y] = IF y = w[d + 1] THEN w[d - 1] ELSE L.prev[y]
  BY <1>4 DEF ListDel, Links
<1>6. v \in [0 .. k + 1 -> Node]
  BY <1>3
<1>7. v[0] = h /\ v[k + 1] = h
  BY <1>1, <1>3 DEF IsRing
<1>8. \A i, j \in 0 .. k : v[i] = v[j] => i = j
  BY <1>1, <1>3 DEF IsRing
<1>9. ASSUME NEW i \in 0 .. k
      PROVE  M.next[v[i]] = v[i + 1] /\ M.prev[v[i + 1]] = v[i]
  <2>0. \A a, b \in 1 .. m + 1 : w[a] = w[b] => a = b
    BY <1>1, LastDistinct
  <2>1. CASE i < d - 1
    <3>1. v[i] = w[i] /\ v[i + 1] = w[i + 1] /\ i \in 0 .. m /\ i + 1 \in 1 .. m + 1
          /\ d + 1 \in 1 .. m + 1 /\ i + 1 # d + 1 /\ i # d - 1
      BY <1>3, <2>1
    <3>2. w[i] # w[d - 1] /\ w[i + 1] # w[d + 1]
      BY <1>1, <1>3, <2>0, <3>1 DEF IsRing
    <3>3. w[i] \in Node /\ w[i + 1] \in Node
      BY <3>1
    <3>4. L.next[w[i]] = w[i + 1] /\ L.prev[w[i + 1]] = w[i]
      BY <1>1, <3>1 DEF IsRing
    <3> HIDE DEF M, v
    <3>5. QED
      BY <1>5, <3>1, <3>2, <3>3, <3>4
  <2>2. CASE i = d - 1
    <3>1. v[i] = w[d - 1] /\ v[i + 1] = w[d + 1] /\ d - 1 \in 0 .. m + 1 /\ d + 1 \in 0 .. m + 1
      BY <1>3, <2>2
    <3>2. QED
      BY <1>5, <3>1
  <2>3. CASE i >= d
    <3>1. v[i] = w[i + 1] /\ v[i + 1] = w[(i + 1) + 1] /\ i + 1 \in 0 .. m
          /\ (i + 1) + 1 \in 1 .. m + 1
          /\ d + 1 \in 1 .. m + 1 /\ (i + 1) + 1 # d + 1 /\ i + 1 # d - 1
      BY <1>3, <2>3
    <3>2. w[i + 1] # w[d - 1] /\ w[(i + 1) + 1] # w[d + 1]
      BY <1>1, <1>3, <2>0, <3>1 DEF IsRing
    <3>3. w[i + 1] \in Node /\ w[(i + 1) + 1] \in Node
      BY <3>1
    <3>4. L.next[w[i + 1]] = w[(i + 1) + 1] /\ L.prev[w[(i + 1) + 1]] = w[i + 1]
      BY <1>1, <3>1 DEF IsRing
    <3> HIDE DEF M, v
    <3>5. QED
      BY <1>5, <3>1, <3>2, <3>3, <3>4
  <2>4. QED
    BY <2>1, <2>2, <2>3
<1>10. S \ {x} = {v[i] : i \in 1 .. k}
  <2>1. ASSUME NEW y \in S \ {x} PROVE \E i \in 1 .. k : y = v[i]
    <3>1. PICK a \in 1 .. m : y = w[a]
      BY <1>1
    <3>2. a < d \/ a > d
      BY <1>2, <2>1, <3>1
    <3>3. CASE a < d
      BY <1>3, <3>1, <3>3
    <3>4. CASE a > d
      <4>1. a - 1 \in 1 .. k /\ v[a - 1] = w[a]
        BY <1>3, <3>4
      <4>2. QED
        BY <3>1, <4>1
    <3>5. QED
      BY <3>2, <3>3, <3>4
  <2>2. ASSUME NEW i \in 1 .. k PROVE v[i] \in S \ {x}
    <3>1. CASE i < d
      <4>1. i \in 1 .. m /\ v[i] = w[i] /\ i # d /\ i \in 0 .. m
        BY <1>3, <3>1
      <4>2. QED
        BY <1>1, <1>2, <1>3, <4>1 DEF IsRing
    <3>2. CASE i >= d
      <4>1. i + 1 \in 1 .. m /\ v[i] = w[i + 1] /\ i + 1 # d /\ i + 1 \in 0 .. m
        BY <1>3, <3>2
      <4>2. QED
        BY <1>1, <1>2, <1>3, <4>1 DEF IsRing
    <3>3. QED
      BY <3>1, <3>2
  <2> HIDE DEF v
  <2>3. QED
    BY <2>1, <2>2
<1>11. IsRing(M, h, v, k)
  BY <1>7, <1>8, <1>9 DEF IsRing
<1>12. QED
  BY <1>3, <1>6, <1>10, <1>11 DEF Ring

(* list_add and list_add_tail put exactly the new entry into the ring.       *)
LEMMA RingAddHead ==
  ASSUME NEW L \in Links, NEW h, NEW S, Ring(L, h, S),
         NEW new \in Node, new \notin S \cup {h}
  PROVE  Ring(AddHead(L, h, new), h, S \cup {new})
<1>0. PICK m \in Nat : \E w \in [0 .. m + 1 -> Node] :
        IsRing(L, h, w, m) /\ S = {w[i] : i \in 1 .. m}
  BY DEF Ring
<1>1. PICK w \in [0 .. m + 1 -> Node] :
        IsRing(L, h, w, m) /\ S = {w[i] : i \in 1 .. m}
  BY <1>0
<1> DEFINE M == AddHead(L, h, new)
           k == m + 1
           v == [i \in 0 .. k + 1 |-> IF i = 0 THEN h ELSE IF i = 1 THEN new ELSE w[i - 1]]
<1>2. k \in Nat /\ 0 \in 0 .. m /\ L.next[h] = w[1] /\ h \in Node /\ w[0] = h /\ w[1] \in Node
  BY <1>1 DEF IsRing
<1>3. /\ \A y \in Node : M.next[y] =
           IF y = new THEN w[1] ELSE IF y = h THEN new ELSE L.next[y]
      /\ \A y \in Node : M.prev[y] =
           IF y = new THEN h ELSE IF y = w[1] THEN new ELSE L.prev[y]
  BY <1>2 DEF AddHead, ListAdd, Links
<1>4. v \in [0 .. k + 1 -> Node] /\ v[0] = h /\ v[1] = new /\ v[k + 1] = h
  BY <1>1, <1>2 DEF IsRing
<1>5. \A i \in 2 .. k + 1 : v[i] = w[i - 1]
  BY <1>2
<1>6. \A i \in 0 .. m + 1 : w[i] # new
  <2>1. \A i \in 0 .. m + 1 : i = 0 \/ i = m + 1 \/ i \in 1 .. m
    OBVIOUS
  <2>2. QED
    BY <1>1, <2>1 DEF IsRing
<1> HIDE DEF v, M
<1>7. \A i, j \in 0 .. k : v[i] = v[j] => i = j
  <2>1. \A i \in 0 .. k : i = 0 \/ i = 1 \/ (i \in 2 .. k + 1 /\ i - 1 \in 1 .. m)
    BY <1>2
  <2>2. \A i \in 2 .. k + 1 : i - 1 \in 1 .. m => v[i] # h /\ v[i] # new
    BY <1>1, <1>5, <1>6 DEF IsRing
  <2>3. \A i, j \in 2 .. k + 1 : i - 1 \in 1 .. m /\ j - 1 \in 1 .. m /\ v[i] = v[j] => i - 1 = j - 1
    BY <1>1, <1>5 DEF IsRing
  <2>4. h # new
    OBVIOUS
  <2>5. \A i, j \in 2 .. k + 1 : i - 1 = j - 1 => i = j
    OBVIOUS
  <2>6. QED
    BY <1>4, <2>1, <2>2, <2>3, <2>4, <2>5
<1>8. ASSUME NEW i \in 0 .. k
      PROVE  M.next[v[i]] = v[i + 1] /\ M.prev[v[i + 1]] = v[i]
  <2>1. CASE i = 0
    BY <1>2, <1>3, <1>4, <2>1
  <2>2. CASE i = 1
    <3>1. v[i + 1] = w[1]
      BY <1>2, <1>5, <2>2
    <3>2. QED
      BY <1>2, <1>3, <1>4, <1>6, <2>2, <3>1
  <2>3. CASE i >= 2
    <3>1. /\ v[i] = w[i - 1] /\ v[i + 1] = w[(i - 1) + 1]
          /\ i - 1 \in 1 .. m /\ i - 1 \in 0 .. m /\ (i - 1) + 1 \in 1 .. m + 1
          /\ i - 1 \in 0 .. m + 1 /\ (i - 1) + 1 \in 0 .. m + 1 /\ (i - 1) + 1 # 1
      BY <1>2, <1>5, <2>3
    <3>2. w[i - 1] # h /\ w[(i - 1) + 1] # w[1]
      BY <1>1, <3>1, LastDistinct DEF IsRing
    <3>3. w[i - 1] # new /\ w[(i - 1) + 1] # new /\ w[i - 1] \in Node /\ w[(i - 1) + 1] \in Node
      BY <1>6, <3>1
    <3>4. L.next[w[i - 1]] = w[(i - 1) + 1] /\ L.prev[w[(i - 1) + 1]] = w[i - 1]
      BY <1>1, <3>1 DEF IsRing
    <3>5. QED
      BY <1>3, <3>1, <3>2, <3>3, <3>4
  <2>4. QED
    BY <1>2, <2>1, <2>2, <2>3
<1>9. S \cup {new} = {v[i] : i \in 1 .. k}
  <2>1. 1 \in 1 .. k /\ \A i \in 1 .. m : i + 1 \in 1 .. k /\ i + 1 \in 2 .. k + 1 /\ (i + 1) - 1 = i
    BY <1>2
  <2>2. \A y \in S : \E i \in 1 .. k : y = v[i]
    BY <1>1, <1>5, <2>1
  <2>3. \A i \in 1 .. k : i = 1 \/ (i \in 2 .. k + 1 /\ i - 1 \in 1 .. m)
    BY <1>2
  <2>4. \A i \in 1 .. k : v[i] \in S \cup {new}
    BY <1>1, <1>4, <1>5, <2>3
  <2>5. QED
    BY <1>4, <2>1, <2>2, <2>4
<1>10. IsRing(M, h, v, k)
  BY <1>4, <1>7, <1>8 DEF IsRing
<1>11. QED
  BY <1>2, <1>4, <1>9, <1>10 DEF Ring, M

LEMMA RingAddTail ==
  ASSUME NEW L \in Links, NEW h, NEW S, Ring(L, h, S),
         NEW new \in Node, new \notin S \cup {h}
  PROVE  Ring(AddTail(L, h, new), h, S \cup {new})
<1>0. PICK m \in Nat : \E w \in [0 .. m + 1 -> Node] :
        IsRing(L, h, w, m) /\ S = {w[i] : i \in 1 .. m}
  BY DEF Ring
<1>1. PICK w \in [0 .. m + 1 -> Node] :
        IsRing(L, h, w, m) /\ S = {w[i] : i \in 1 .. m}
  BY <1>0
<1> DEFINE M == AddTail(L, h, new)
           k == m + 1
           v == [i \in 0 .. k + 1 |-> IF i <= m THEN w[i] ELSE IF i = k THEN new ELSE h]
<1>2. /\ k \in Nat /\ 0 \in 0 .. m /\ m \in 0 .. m /\ L.prev[h] = w[m]
      /\ h \in Node /\ w[0] = h /\ w[m + 1] = h /\ w[m] \in Node
  BY <1>1 DEF IsRing
<1>3. /\ \A y \in Node : M.next[y] =
           IF y = new THEN h ELSE IF y = w[m] THEN new ELSE L.next[y]
      /\ \A y \in Node : M.prev[y] =
           IF y = new THEN w[m] ELSE IF y = h THEN new ELSE L.prev[y]
  BY <1>2 DEF AddTail, ListAdd, Links
<1>4. v \in [0 .. k + 1 -> Node] /\ v[0] = h /\ v[k] = new /\ v[k + 1] = h
  BY <1>1, <1>2 DEF IsRing
<1>5. \A i \in 0 .. m : v[i] = w[i]
  BY <1>2
<1>6. \A i \in 0 .. m : w[i] # new
  BY <1>1 DEF IsRing
<1> HIDE DEF v, M
<1>7. \A i, j \in 0 .. k : v[i] = v[j] => i = j
  <2>1. \A i \in 0 .. k : i = k \/ i \in 0 .. m
    BY <1>2
  <2>2. QED
    BY <1>1, <1>4, <1>5, <1>6, <2>1 DEF IsRing
<1>8. ASSUME NEW i \in 0 .. k
      PROVE  M.next[v[i]] = v[i + 1] /\ M.prev[v[i + 1]] = v[i]
  <2>1. CASE i = k
    BY <1>2, <1>3, <1>4, <1>6, <2>1
  <2>2. CASE i = m
    <3>1. v[i] = w[m] /\ v[i + 1] = new /\ w[m] # new /\ i + 1 = k
      BY <1>2, <1>4, <1>5, <1>6, <2>2
    <3>2. QED
      BY <1>2, <1>3, <3>1
  <2>3. CASE i < m
    <3>1. /\ v[i] = w[i] /\ v[i + 1] = w[i + 1]
          /\ i \in 0 .. m /\ i + 1 \in 0 .. m /\ i # m /\ i + 1 # 0
      BY <1>2, <1>5, <2>3
    <3>2. w[i] # w[m] /\ w[i + 1] # h /\ w[i] # new /\ w[i + 1] # new
      BY <1>1, <1>2, <1>6, <3>1 DEF IsRing
    <3>3. w[i] \in Node /\ w[i + 1] \in Node
      BY <3>1
    <3>4. L.next[w[i]] = w[i + 1] /\ L.prev[w[i + 1]] = w[i]
      BY <1>1, <3>1 DEF IsRing
    <3>5. QED
      BY <1>3, <3>1, <3>2, <3>3, <3>4
  <2>4. QED
    BY <1>2, <2>1, <2>2, <2>3
<1>9. S \cup {new} = {v[i] : i \in 1 .. k}
  <2>1. k \in 1 .. k /\ \A i \in 1 .. m : i \in 1 .. k /\ i \in 0 .. m
    BY <1>2
  <2>2. \A y \in S : \E i \in 1 .. k : y = v[i]
    BY <1>1, <1>5, <2>1
  <2>3. \A i \in 1 .. k : i = k \/ i \in 1 .. m
    BY <1>2
  <2>4. \A i \in 1 .. k : v[i] \in S \cup {new}
    BY <1>1, <1>4, <1>5, <2>1, <2>3
  <2>5. QED
    BY <1>4, <2>1, <2>2, <2>4
<1>10. IsRing(M, h, v, k)
  BY <1>4, <1>7, <1>8 DEF IsRing
<1>11. QED
  BY <1>2, <1>4, <1>9, <1>10 DEF Ring, M

-----------------------------------------------------------------------------
(* The walk of Entries along a ring of pages meets exactly its entries.      *)
LruPages == {Lru(p) : p \in Page}

LEMMA BuddyAssumed == P!SizeAssumption /\ P!ZoneAssumption /\ P!LayoutAssumption
  BY BuddyAssumption
     DEF B!SizeAssumption, B!ZoneAssumption, B!LayoutAssumption, B!Page, B!Order,
         P!SizeAssumption, P!ZoneAssumption, P!LayoutAssumption, P!Page, P!Order

LEMMA PageSet ==
  /\ MaxPfn \in Nat \ {0} /\ MaxOrder \in Nat \ {0}
  /\ IsFiniteSet(Page) /\ Cardinality(Page) = MaxPfn
  /\ IsFiniteSet(LruPages) /\ Cardinality(LruPages) <= MaxPfn
<1>1. MaxPfn \in Nat \ {0} /\ MaxOrder \in Nat \ {0}
  BY BuddyAssumption DEF B!SizeAssumption
<1>2. IsFiniteSet(Page) /\ Cardinality(Page) = MaxPfn
  BY <1>1, FS_Interval DEF Page
<1> DEFINE f == [p \in Page |-> Lru(p)]
<1>3. f \in Surjection(Page, LruPages)
  BY DEF Surjection, LruPages
<1>4. QED
  BY <1>1, <1>2, <1>3, FS_Surjection

LEMMA RingLength ==
  ASSUME NEW L, NEW h, NEW m \in Nat, NEW w, IsRing(L, h, w, m),
         {w[i] : i \in 1 .. m} \subseteq LruPages
  PROVE  m <= MaxPfn
<1> DEFINE f == [i \in 1 .. m |-> w[i]]
<1>1. f \in Injection(1 .. m, LruPages)
  <2>1. f \in [1 .. m -> LruPages]
    OBVIOUS
  <2>2. \A i, j \in 1 .. m : f[i] = f[j] => i = j
    BY DEF IsRing
  <2> HIDE DEF f
  <2>3. QED
    BY <2>1, <2>2 DEF Injection, IsInjective
<1>2. Cardinality(1 .. m) = m /\ Cardinality(1 .. m) <= Cardinality(LruPages)
  BY <1>1, PageSet, FS_Injection, FS_Interval
<1>3. Cardinality(LruPages) \in Nat
  BY PageSet, FS_CardinalityType
<1>4. QED
  BY <1>2, <1>3, PageSet

Walks(f, L, h) ==
  f = [i \in 0 .. MaxPfn |->
         IF i = 0 THEN L.next[h]
         ELSE IF f[i - 1] = h THEN h ELSE L.next[f[i - 1]]]

LEMMA OneWalk ==
  ASSUME NEW L, NEW h, NEW f, NEW g, Walks(f, L, h), Walks(g, L, h)
  PROVE  f = g
<1> DEFINE T == {i \in 0 .. MaxPfn : f[i] # g[i]}
<1>1. SUFFICES ASSUME T # {} PROVE FALSE
  BY DEF Walks
<1>2. PICK t \in T : \A y \in T : t <= y
  <2>1. T \in SUBSET Nat
    BY PageSet
  <2>2. PICK t0 \in T : TRUE
    BY <1>1
  <2> HIDE DEF T
  <2>3. QED
    BY <2>1, <2>2, BuddyAssumed, P!Least
<1>3. t \in 0 .. MaxPfn /\ t # 0 /\ f[t] # g[t]
  BY PageSet DEF Walks
<1>4. t - 1 \in 0 .. MaxPfn /\ t - 1 \notin T
  BY <1>2, <1>3, PageSet
<1>5. f[t - 1] = g[t - 1]
  BY <1>4
<1> HIDE DEF T
<1>6. /\ f[t] = IF f[t - 1] = h THEN h ELSE L.next[f[t - 1]]
      /\ g[t] = IF g[t - 1] = h THEN h ELSE L.next[g[t - 1]]
  BY <1>3 DEF Walks
<1>7. QED
  BY <1>3, <1>5, <1>6

LEMMA RingWalk ==
  ASSUME NEW L, NEW h, NEW S \in SUBSET LruPages, Ring(L, h, S)
  PROVE  Entries(L, h) = S
<1>0. PICK m \in Nat : \E w \in [0 .. m + 1 -> Node] :
        IsRing(L, h, w, m) /\ S = {w[i] : i \in 1 .. m}
  BY DEF Ring
<1>1. PICK w \in [0 .. m + 1 -> Node] :
        IsRing(L, h, w, m) /\ S = {w[i] : i \in 1 .. m}
  BY <1>0
<1>2. m <= MaxPfn /\ MaxPfn \in Nat
  BY <1>1, RingLength, PageSet
<1> DEFINE f == [i \in 0 .. MaxPfn |-> IF i < m THEN w[i + 1] ELSE h]
           g == CHOOSE g : Walks(g, L, h)
<1>3. Walks(f, L, h)
  <2> SUFFICES ASSUME NEW i \in 0 .. MaxPfn
               PROVE  f[i] = IF i = 0 THEN L.next[h]
                             ELSE IF f[i - 1] = h THEN h ELSE L.next[f[i - 1]]
    BY DEF Walks
  <2>1. CASE i = 0
    BY <1>1, <1>2, <2>1 DEF IsRing
  <2>2. CASE i # 0 /\ i - 1 < m
    <3>1. i \in 1 .. m /\ i \in 0 .. m /\ i - 1 \in 0 .. MaxPfn /\ (i - 1) + 1 = i
      BY <1>2, <2>2
    <3>2. f[i - 1] = w[i] /\ w[i] # h /\ L.next[w[i]] = w[i + 1]
      BY <1>1, <2>2, <3>1 DEF IsRing
    <3>3. f[i] = w[i + 1]
      BY <1>1, <3>1 DEF IsRing
    <3>4. QED
      BY <2>2, <3>2, <3>3
  <2>3. CASE i # 0 /\ ~(i - 1 < m)
    BY <1>2, <2>3
  <2>4. QED
    BY <2>1, <2>2, <2>3
<1>4. g = f
  BY <1>3, OneWalk
<1>5. Entries(L, h) = {g[i] : i \in 0 .. MaxPfn} \ {h}
  BY DEF Entries, Walks
<1>6. {f[i] : i \in 0 .. MaxPfn} \ {h} = S
  <2>1. ASSUME NEW x \in S PROVE x # h /\ \E i \in 0 .. MaxPfn : x = f[i]
    <3>1. PICK i \in 1 .. m : x = w[i]
      BY <1>1
    <3>2. i - 1 \in 0 .. MaxPfn /\ f[i - 1] = w[i] /\ i \in 0 .. m /\ 0 \in 0 .. m /\ i # 0
      BY <1>2
    <3>3. QED
      BY <1>1, <3>1, <3>2 DEF IsRing
  <2>2. ASSUME NEW i \in 0 .. MaxPfn, f[i] # h PROVE f[i] \in S
    BY <1>1, <1>2, <2>2
  <2> HIDE DEF f
  <2>3. QED
    BY <2>1, <2>2
<1> HIDE DEF f, g
<1>7. QED
  BY <1>4, <1>5, <1>6

-----------------------------------------------------------------------------
(* All free lists at once: E[<<z, k>>] is what is on list k of zone z.       *)
Family(L, E) ==
  /\ L \in Links
  /\ E \in [Zone \X Order -> SUBSET LruPages]
  /\ \A r \in Zone \X Order : Ring(L, AreaHead(r[1], r[2]), E[r])
  /\ \A r, s \in Zone \X Order : r # s => E[r] \cap E[s] = {}

LEMMA Nodes ==
  /\ \A r \in Zone \X Order : AreaHead(r[1], r[2]) \in Node
  /\ \A r, s \in Zone \X Order : AreaHead(r[1], r[2]) = AreaHead(s[1], s[2]) => r = s
  /\ \A z \in Zone, y \in Zone, k \in Order : AreaHead(z, -1) # AreaHead(y, k)
  /\ LruPages \subseteq Node
  /\ \A r \in Zone \X Order : AreaHead(r[1], r[2]) \notin LruPages
  /\ \A z \in Zone : AreaHead(z, -1) \notin LruPages /\ AreaHead(z, -1) \in Node
  /\ Null \notin LruPages /\ Null \in Node
  /\ \A z \in Zone : Null # AreaHead(z, -1)
  /\ \A r \in Zone \X Order : Null # AreaHead(r[1], r[2])
<1>1. /\ \A k \in Order : k \in List /\ k # -1
      /\ -1 \in List
  BY PageSet DEF Order, List
<1>2. \A r \in Zone \X Order : r[1] \in Zone /\ r[2] \in Order /\ r = <<r[1], r[2]>>
  OBVIOUS
<1>3. \A r \in Zone \X Order : AreaHead(r[1], r[2]) \in Node
  BY <1>1, <1>2 DEF Node
<1>4. \A r, s \in Zone \X Order : AreaHead(r[1], r[2]) = AreaHead(s[1], s[2]) => r = s
  BY <1>2 DEF AreaHead
<1>5. \A z \in Zone, y \in Zone, k \in Order : AreaHead(z, -1) # AreaHead(y, k)
  BY <1>1 DEF AreaHead
<1>6. LruPages \subseteq Node /\ Null \notin LruPages /\ Null \in Node
  BY DEF Node, LruPages, Lru, Null
<1>7. /\ \A r \in Zone \X Order : AreaHead(r[1], r[2]) \notin LruPages
      /\ \A r \in Zone \X Order : Null # AreaHead(r[1], r[2])
  BY DEF LruPages, Lru, AreaHead, Null
<1>8. \A z \in Zone : AreaHead(z, -1) \notin LruPages /\ AreaHead(z, -1) \in Node
  BY <1>1 DEF LruPages, Lru, AreaHead, Node
<1>9. \A z \in Zone : Null # AreaHead(z, -1)
  BY DEF Null, AreaHead
<1>10. QED
  BY <1>3, <1>4, <1>5, <1>6, <1>7, <1>8, <1>9

(* Stores that stay inside one ring, or outside all, leave the others alone. *)
(* M are the links L after stores to the nodes of list r and to those of X.  *)
Stored(L, M, E, r, T, X) ==
  /\ T \in SUBSET LruPages /\ X \subseteq LruPages
  /\ Ring(M, AreaHead(r[1], r[2]), T)
  /\ \A s \in Zone \X Order : s # r => T \cap E[s] = {} /\ X \cap E[s] = {}
  /\ \A y \in Node : y \notin X \cup E[r] \cup {AreaHead(r[1], r[2])}
       => M.next[y] = L.next[y] /\ M.prev[y] = L.prev[y]

LEMMA FamilyStores ==
  ASSUME NEW L, NEW E, Family(L, E), NEW M \in Links, NEW r \in Zone \X Order,
         NEW T, NEW X, Stored(L, M, E, r, T, X)
  PROVE  Family(M, [E EXCEPT ![r] = T])
<1>0. /\ T \in SUBSET LruPages /\ X \subseteq LruPages
      /\ Ring(M, AreaHead(r[1], r[2]), T)
      /\ \A s \in Zone \X Order : s # r => T \cap E[s] = {} /\ X \cap E[s] = {}
      /\ \A y \in Node : y \notin X \cup E[r] \cup {AreaHead(r[1], r[2])}
           => M.next[y] = L.next[y] /\ M.prev[y] = L.prev[y]
  BY DEF Stored
<1> DEFINE F == [E EXCEPT ![r] = T]
<1>1. /\ F \in [Zone \X Order -> SUBSET LruPages] /\ F[r] = T
      /\ \A s \in Zone \X Order : s # r => F[s] = E[s]
  BY <1>0 DEF Family
<1> HIDE DEF F
<1>2. ASSUME NEW s \in Zone \X Order, s # r
      PROVE  Ring(M, AreaHead(s[1], s[2]), F[s])
  <2> DEFINE h == AreaHead(s[1], s[2])
  <2>1. Ring(L, h, E[s]) /\ E[s] \cap E[r] = {} /\ X \cap E[s] = {} /\ E[s] \subseteq LruPages
    BY <1>0, <1>2 DEF Family
  <2>2. h \notin LruPages /\ h # AreaHead(r[1], r[2]) /\ h \in Node
        /\ AreaHead(r[1], r[2]) \notin LruPages /\ LruPages \subseteq Node
    BY <1>2, Nodes
  <2>3. E[r] \subseteq LruPages
    BY DEF Family
  <2> HIDE DEF h
  <2>4. \A y \in E[s] \cup {h} : M.next[y] = L.next[y] /\ M.prev[y] = L.prev[y]
    BY <1>0, <2>1, <2>2, <2>3
  <2>5. Ring(M, h, E[s])
    BY <2>1, <2>4, RingSame
  <2>6. QED
    BY <1>1, <1>2, <2>5 DEF h
<1>3. \A s \in Zone \X Order : Ring(M, AreaHead(s[1], s[2]), F[s])
  BY <1>0, <1>1, <1>2
<1>4. \A s, t \in Zone \X Order : s # t => F[s] \cap F[t] = {}
  BY <1>0, <1>1 DEF Family
<1>5. QED
  BY <1>1, <1>3, <1>4 DEF Family, F

LEMMA FamilyDel ==
  ASSUME NEW L, NEW E, Family(L, E), NEW r \in Zone \X Order, NEW x \in E[r]
  PROVE  /\ Family(ListDel(L, x), [E EXCEPT ![r] = @ \ {x}])
         /\ \A y \in Node : y \notin E[r] \cup {AreaHead(r[1], r[2])}
              => ListDel(L, x).prev[y] = L.prev[y]
<1> DEFINE M == ListDel(L, x)
           h == AreaHead(r[1], r[2])
<1>1. L \in Links /\ Ring(L, h, E[r]) /\ E[r] \in SUBSET LruPages /\ L.next \in [Node -> Node]
      /\ L.prev \in [Node -> Node]
  BY DEF Family, Links
<1>2. x \in Node
  BY <1>1, Nodes
<1> HIDE DEF h
<1>3. L.next[x] \in E[r] \cup {h} /\ L.prev[x] \in E[r] \cup {h}
  BY <1>1, RingFacts
<1>4. M \in Links
  BY <1>1, <1>2 DEF Links, ListDel
<1>5. \A y \in Node : y \notin E[r] \cup {h} => M.next[y] = L.next[y] /\ M.prev[y] = L.prev[y]
  BY <1>1, <1>3 DEF ListDel
<1>6. Ring(M, h, E[r] \ {x})
  BY <1>1, RingDel
<1> DEFINE T == E[r] \ {x}
           X == {x}
<1>7. Family(M, [E EXCEPT ![r] = T])
  <2>1. \A s \in Zone \X Order : s # r => T \cap E[s] = {} /\ X \cap E[s] = {}
    BY DEF Family
  <2>2. T \in SUBSET LruPages /\ X \subseteq LruPages /\ Ring(M, AreaHead(r[1], r[2]), T)
    BY <1>1, <1>6 DEF h
  <2>3. \A y \in Node : y \notin X \cup E[r] \cup {AreaHead(r[1], r[2])}
           => M.next[y] = L.next[y] /\ M.prev[y] = L.prev[y]
    BY <1>5 DEF h
  <2> HIDE DEF M, T, X
  <2>4. Stored(L, M, E, r, T, X)
    BY <2>1, <2>2, <2>3 DEF Stored
  <2>5. QED
    BY <1>4, <2>4, FamilyStores
<1>8. QED
  BY <1>5, <1>7 DEF h

LEMMA FamilyAdd ==
  ASSUME NEW L, NEW E, Family(L, E), NEW r \in Zone \X Order, NEW x \in LruPages,
         \A s \in Zone \X Order : x \notin E[s],
         NEW M, M = AddHead(L, AreaHead(r[1], r[2]), x)
                \/ M = AddTail(L, AreaHead(r[1], r[2]), x)
  PROVE  /\ Family(M, [E EXCEPT ![r] = @ \cup {x}])
         /\ \A y \in Node : y \notin E[r] \cup {AreaHead(r[1], r[2]), x}
              => M.prev[y] = L.prev[y]
<1> DEFINE h == AreaHead(r[1], r[2])
<1>1. L \in Links /\ Ring(L, h, E[r]) /\ E[r] \in SUBSET LruPages /\ L.next \in [Node -> Node]
      /\ L.prev \in [Node -> Node]
  BY DEF Family, Links
<1>2. x \in Node /\ h \in Node /\ x # h /\ x \notin E[r]
  BY Nodes
<1>0. M = AddHead(L, h, x) \/ M = AddTail(L, h, x)
  OBVIOUS
<1> HIDE DEF h
<1>3. L.next[h] \in E[r] \cup {h} /\ L.prev[h] \in E[r] \cup {h}
  BY <1>1, RingFacts
<1>4. L.next[h] \in Node /\ L.prev[h] \in Node
  BY <1>1, <1>2
<1>5. /\ M \in Links
      /\ \A y \in Node : y \notin {x} \cup E[r] \cup {h}
           => M.next[y] = L.next[y] /\ M.prev[y] = L.prev[y]
  <2>1. CASE M = AddHead(L, h, x)
    <3>1. M.next = [L.next EXCEPT ![h] = x, ![x] = L.next[h]]
          /\ M.prev = [L.prev EXCEPT ![L.next[h]] = x, ![x] = h]
      BY <2>1 DEF AddHead, ListAdd
    <3>2. M \in Links
      BY <1>1, <1>2, <1>4, <2>1 DEF Links, AddHead, ListAdd
    <3>3. QED
      BY <1>1, <1>3, <3>1, <3>2
  <2>2. CASE M = AddTail(L, h, x)
    <3>1. M.next = [L.next EXCEPT ![L.prev[h]] = x, ![x] = h]
          /\ M.prev = [L.prev EXCEPT ![h] = x, ![x] = L.prev[h]]
      BY <2>2 DEF AddTail, ListAdd
    <3>2. M \in Links
      BY <1>1, <1>2, <1>4, <2>2 DEF Links, AddTail, ListAdd
    <3>3. QED
      BY <1>1, <1>3, <3>1, <3>2
  <2>3. QED
    BY <1>0, <2>1, <2>2
<1>6. Ring(M, h, E[r] \cup {x})
  BY <1>0, <1>1, <1>2, RingAddHead, RingAddTail
<1>7. Family(M, [E EXCEPT ![r] = E[r] \cup {x}])
  <2> DEFINE T == E[r] \cup {x}
             X == {x}
  <2>1. \A s \in Zone \X Order : s # r => T \cap E[s] = {} /\ X \cap E[s] = {}
    BY DEF Family
  <2>2. T \in SUBSET LruPages /\ X \subseteq LruPages
    BY <1>1
  <2>3. \A y \in Node : y \notin X \cup E[r] \cup {AreaHead(r[1], r[2])}
           => M.next[y] = L.next[y] /\ M.prev[y] = L.prev[y]
    BY <1>5 DEF h
  <2>4. Ring(M, AreaHead(r[1], r[2]), T)
    BY <1>6 DEF h
  <2> HIDE DEF T, X
  <2>5. Stored(L, M, E, r, T, X)
    BY <2>1, <2>2, <2>3, <2>4 DEF Stored
  <2>6. Family(M, [E EXCEPT ![r] = T])
    BY <1>5, <2>5, FamilyStores
  <2>7. QED
    BY <2>6 DEF T
<1>8. QED
  BY <1>5, <1>7 DEF h

-----------------------------------------------------------------------------
(* expand, turn by turn: f[j] are the links after the turn for order j.      *)
Turns(f, L, p, m, o) ==
  f = [j \in m .. o |->
         IF j = o THEN L
         ELSE AddTail(f[j + 1], AreaHead(AllocZone, j), Lru(p + HalfSize(j)))]

LEMMA TurnsExist ==
  ASSUME NEW L, NEW p, NEW o \in Int, NEW m \in Int, m <= o
  PROVE  \E f : Turns(f, L, p, m, o)
<1> DEFINE Has(d) == \E f : Turns(f, L, p, o - d, o)
           T == {d \in Nat : ~Has(d)}
<1>1. SUFFICES ASSUME T # {} PROVE FALSE
  <2>1. o - m \in Nat /\ o - (o - m) = m
    OBVIOUS
  <2>2. QED
    BY <2>1
<1>2. PICK t \in T : \A y \in T : t <= y
  <2>1. T \in SUBSET Nat
    OBVIOUS
  <2>2. PICK t0 \in T : TRUE
    BY <1>1
  <2> HIDE DEF T
  <2>3. QED
    BY <2>1, <2>2, BuddyAssumed, P!Least
<1>3. t \in Nat /\ ~Has(t)
  OBVIOUS
<1>4. t # 0
  <2> DEFINE f == [j \in o .. o |-> L]
  <2>1. Turns(f, L, p, o, o)
    BY DEF Turns
  <2>2. o - 0 = o
    OBVIOUS
  <2>3. Has(0)
    BY <2>1, <2>2
  <2>4. QED
    BY <1>3, <2>3
<1>5. t - 1 \in Nat /\ Has(t - 1)
  BY <1>2, <1>3, <1>4
<1> DEFINE l == o - t
<1>6. l \in Int /\ l < o /\ o - (t - 1) = l + 1
  BY <1>3, <1>4
<1>7. PICK g : Turns(g, L, p, l + 1, o)
  BY <1>5, <1>6
<1> DEFINE f == [j \in l .. o |->
                   IF j = l THEN AddTail(g[l + 1], AreaHead(AllocZone, l), Lru(p + HalfSize(l)))
                   ELSE g[j]]
<1> HIDE DEF l
<1>8. Turns(f, L, p, l, o)
  <2>0. \A j \in l + 1 .. o : g[j] =
          IF j = o THEN L
          ELSE AddTail(g[j + 1], AreaHead(AllocZone, j), Lru(p + HalfSize(j)))
    BY <1>7 DEF Turns
  <2> SUFFICES ASSUME NEW j \in l .. o
               PROVE  f[j] = IF j = o THEN L
                             ELSE AddTail(f[j + 1], AreaHead(AllocZone, j), Lru(p + HalfSize(j)))
    BY DEF Turns
  <2>1. CASE j = o
    BY <1>6, <2>0, <2>1
  <2>2. CASE j # o /\ j = l
    <3>1. f[j + 1] = g[l + 1] /\ f[j] = AddTail(g[l + 1], AreaHead(AllocZone, l), Lru(p + HalfSize(l)))
      BY <1>6, <2>2
    <3> HIDE DEF f
    <3>2. QED
      BY <2>2, <3>1
  <2>3. CASE j # o /\ j # l
    <3>1. f[j + 1] = g[j + 1] /\ f[j] = g[j] /\ j \in l + 1 .. o
      BY <1>6, <2>3
    <3> HIDE DEF f
    <3>2. QED
      BY <2>0, <2>3, <3>1
  <2>4. QED
    BY <2>1, <2>2, <2>3
<1>9. Has(t)
  BY <1>8 DEF l
<1>10. QED
  BY <1>3, <1>9

(* What the turns down to order j have put on the lists of block <<p, o>>.   *)
Given(j, o, p, r) ==
  IF r[1] = AllocZone /\ j <= r[2] /\ r[2] < o THEN {Lru(p + Size[r[2]])} ELSE {}
Grown(E, j, o, p) == [r \in Zone \X Order |-> E[r] \cup Given(j, o, p, r)]

Spare == AreaHead(AllocZone, -1)

LEMMA SizeStep ==
  /\ \A k \in Order : k \in Nat /\ k < MaxOrder /\ Size[k] \in Nat \ {0} /\ HalfSize(k) = Size[k]
  /\ \A j, k \in Order : j < k => 2 * Size[j] <= Size[k]
  /\ \A j \in Int, k \in Order : 0 <= j /\ j <= k => j \in Order
  /\ AllocZone \in Zone
  BY BuddyAssumption DEF B!SizeAssumption, B!ZoneAssumption, Order, B!Order, HalfSize

LEMMA TurnFamily ==
  ASSUME NEW L, NEW E, Family(L, E), NEW o \in Order, NEW j \in Order, j < o,
         NEW p \in Nat, NEW M, Family(M, Grown(E, j + 1, o, p)),
         \A k \in Order : k < o => Lru(p + Size[k]) \in LruPages
                                /\ \A s \in Zone \X Order : Lru(p + Size[k]) \notin E[s]
  PROVE  LET N == AddTail(M, AreaHead(AllocZone, j), Lru(p + HalfSize(j)))
         IN  /\ Family(N, Grown(E, j, o, p))
             /\ N.prev[Spare] = M.prev[Spare]
<1> DEFINE F == Grown(E, j + 1, o, p)
           r == <<AllocZone, j>>
           x == Lru(p + Size[j])
           N == AddTail(M, AreaHead(AllocZone, j), Lru(p + HalfSize(j)))
<1>1. /\ r \in Zone \X Order /\ x \in LruPages /\ HalfSize(j) = Size[j]
      /\ j \in Nat /\ o \in Nat
  BY SizeStep
<1>2. \A s \in Zone \X Order : F[s] = E[s] \cup Given(j + 1, o, p, s)
  BY DEF Grown
<1>3. ASSUME NEW s \in Zone \X Order
      PROVE  x \notin Given(j + 1, o, p, s)
  <2>1. s[2] \in Order /\ s[2] \in Nat
    BY SizeStep
  <2>2. CASE j + 1 <= s[2]
    <3>1. j < s[2]
      BY <1>1, <2>1, <2>2
    <3>2. Size[j] \in Nat /\ Size[j] # 0 /\ Size[s[2]] \in Nat /\ 2 * Size[j] <= Size[s[2]]
      BY <2>1, <3>1, SizeStep
    <3>3. p + Size[j] # p + Size[s[2]]
      BY <3>2
    <3>4. QED
      BY <3>3 DEF Given, Lru
  <2>3. CASE ~(j + 1 <= s[2])
    BY <2>3 DEF Given
  <2>4. QED
    BY <2>2, <2>3
<1>4. \A s \in Zone \X Order : x \notin F[s]
  BY <1>2, <1>3
<1> DEFINE G == [F EXCEPT ![r] = @ \cup {x}]
<1>5. /\ Family(N, G)
      /\ \A y \in Node : y \notin F[r] \cup {AreaHead(r[1], r[2]), x} => N.prev[y] = M.prev[y]
  <2>1. N = AddTail(M, AreaHead(r[1], r[2]), x)
    BY <1>1
  <2> HIDE DEF N, x, r, F
  <2>2. Family(M, F)
    BY DEF F
  <2>3. QED
    BY <1>1, <1>4, <2>1, <2>2, FamilyAdd
<1>6. G = Grown(E, j, o, p)
  <2>1. ASSUME NEW s \in Zone \X Order
        PROVE  Given(j, o, p, s) = IF s = r THEN {x} ELSE Given(j + 1, o, p, s)
    <3>1. s[2] \in Nat /\ s = <<s[1], s[2]>>
      BY SizeStep
    <3>2. CASE s = r
      BY <1>1, <3>2 DEF Given
    <3>3. CASE s # r
      <4>1. s[1] = AllocZone => s[2] # j
        BY <3>1, <3>3
      <4>2. s[1] = AllocZone => (j <= s[2] <=> j + 1 <= s[2])
        BY <1>1, <3>1, <4>1
      <4>3. QED
        BY <3>3, <4>2 DEF Given
    <3>4. QED
      BY <3>2, <3>3
  <2>2. Given(j + 1, o, p, r) = {}
    BY <1>1 DEF Given
  <2>3. \A s \in Zone \X Order : G[s] = E[s] \cup Given(j, o, p, s)
    <3>1. \A s \in Zone \X Order : G[s] = IF s = r THEN F[r] \cup {x} ELSE F[s]
      BY <1>1 DEF Grown
    <3> HIDE DEF G, F, x, r
    <3>2. QED
      BY <1>1, <1>2, <2>1, <2>2, <3>1
  <2>4. DOMAIN G = Zone \X Order /\ G = [s \in Zone \X Order |-> G[s]]
    BY DEF Grown
  <2> HIDE DEF G
  <2>5. QED
    BY <2>3, <2>4 DEF Grown
<1>7. Spare \in Node /\ Spare \notin F[r] \cup {AreaHead(r[1], r[2]), x}
  <2>1. F[r] \subseteq LruPages
    BY <1>1 DEF Family
  <2>2. QED
    BY <1>1, <2>1, Nodes, SizeStep DEF Spare
<1>8. QED
  BY <1>5, <1>6, <1>7

LEMMA TurnsFamily ==
  ASSUME NEW L, NEW E, Family(L, E), NEW o \in Order, NEW m \in Int, m <= o,
         NEW p \in Nat, NEW f, Turns(f, L, p, m, o),
         \A k \in Order : k < o => Lru(p + Size[k]) \in LruPages
                                /\ \A s \in Zone \X Order : Lru(p + Size[k]) \notin E[s],
         NEW j \in 0 .. o, m <= j
  PROVE  Family(f[j], Grown(E, j, o, p)) /\ f[j].prev[Spare] = L.prev[Spare]
<1> DEFINE Good(i) == Family(f[i], Grown(E, i, o, p)) /\ f[i].prev[Spare] = L.prev[Spare]
           T == {d \in 0 .. o - j : ~Good(o - d)}
<1>0. o \in Nat /\ j \in Order
  BY SizeStep
<1>1. SUFFICES ASSUME T # {} PROVE FALSE
  <2>1. o - j \in 0 .. o - j /\ o - (o - j) = j
    BY <1>0
  <2>2. QED
    BY <2>1
<1>2. PICK t \in T : \A y \in T : t <= y
  <2>1. T \in SUBSET Nat
    BY <1>0
  <2>2. PICK t0 \in T : TRUE
    BY <1>1
  <2> HIDE DEF T
  <2>3. QED
    BY <2>1, <2>2, BuddyAssumed, P!Least
<1>3. t \in 0 .. o - j /\ t \in Nat /\ ~Good(o - t)
  BY <1>0
<1>4. \A i \in m .. o : f[i] =
        IF i = o THEN L ELSE AddTail(f[i + 1], AreaHead(AllocZone, i), Lru(p + HalfSize(i)))
  BY DEF Turns
<1>5. CASE t = 0
  <2>1. f[o] = L /\ o - t = o
    BY <1>0, <1>4, <1>5
  <2>2. Grown(E, o, o, p) = E
    <3>1. \A r \in Zone \X Order : r[2] \in Nat
      BY SizeStep
    <3>2. \A r \in Zone \X Order : Given(o, o, p, r) = {}
      BY <1>0, <3>1 DEF Given
    <3>3. E = [r \in Zone \X Order |-> E[r]]
      BY DEF Family
    <3>4. QED
      BY <3>2, <3>3 DEF Grown
  <2>3. QED
    BY <1>3, <2>1, <2>2
<1>6. CASE t # 0
  <2> DEFINE i == o - t
  <2>1. /\ i \in Order /\ i < o /\ i \in m .. o /\ i # o /\ i + 1 = o - (t - 1)
        /\ t - 1 \in 0 .. o - j /\ t - 1 < t
    BY <1>0, <1>3, <1>6, SizeStep
  <2>2. Good(o - (t - 1))
    BY <1>2, <2>1
  <2>3. Good(i + 1)
    BY <2>1, <2>2
  <2>4. f[i] = AddTail(f[i + 1], AreaHead(AllocZone, i), Lru(p + HalfSize(i)))
    BY <1>4, <2>1
  <2> HIDE DEF i
  <2>5. Good(i)
    BY <2>1, <2>3, <2>4, TurnFamily
  <2>6. QED
    BY <1>3, <2>5 DEF i
<1>7. QED
  BY <1>5, <1>6

(* expand gives every second half to the list of its order, and for n = 0    *)
(* its last turn only touches the words before the first list.               *)
LEMMA ExpandFamily ==
  ASSUME NEW L, NEW E, Family(L, E), NEW o \in Order, NEW n \in Order, n <= o,
         NEW p \in Page,
         \A k \in Order : k < o => /\ Lru(p + Size[k]) \in LruPages
                                   /\ Lru(p + Size[k]) # L.prev[Spare]
                                   /\ \A s \in Zone \X Order : Lru(p + Size[k]) \notin E[s],
         L.prev[Spare] \in LruPages \cup {Null},
         \A s \in Zone \X Order : Lru(p) \notin E[s] /\ L.prev[Spare] \notin E[s]
  PROVE  /\ Family(Expand(L, p, n, o), Grown(E, n - 1, o, p))
         /\ Expand(L, p, n, o).prev[Spare] = IF n = 0 THEN Lru(p) ELSE L.prev[Spare]
<1> DEFINE f == CHOOSE f : Turns(f, L, p, n - 1, o)
<1>1. n \in Nat /\ o \in Nat /\ p \in Nat /\ n - 1 \in Int /\ n - 1 <= o
  BY SizeStep DEF Page
<1>2. Turns(f, L, p, n - 1, o)
  <2>1. \A m \in Int : m <= o => \E g : Turns(g, L, p, m, o)
    <3>1. o \in Int
      BY <1>1
    <3>2. QED
      BY <3>1, TurnsExist
  <2>2. QED
    BY <1>1, <2>1
<1>3. Expand(L, p, n, o) = f[n - 1]
  BY DEF Expand, Turns
<1> HIDE DEF f
<1>4. ASSUME NEW j \in 0 .. o, n - 1 <= j
      PROVE  Family(f[j], Grown(E, j, o, p)) /\ f[j].prev[Spare] = L.prev[Spare]
  BY <1>1, <1>2, <1>4, TurnsFamily
<1>5. CASE n # 0
  <2>1. n - 1 \in 0 .. o
    BY <1>1, <1>5
  <2>2. QED
    BY <1>1, <1>3, <1>4, <1>5, <2>1
<1>6. CASE n = 0
  <2> DEFINE M == f[0]
             N == f[-1]
             G == Grown(E, 0, o, p)
             v == L.prev[Spare]
  <2>1. Family(M, G) /\ M.prev[Spare] = v
    BY <1>1, <1>4, <1>6
  <2>2. N = AddTail(M, Spare, Lru(p))
    <3>1. HalfSize(-1) = 0 /\ p + 0 = p
      BY <1>1 DEF HalfSize
    <3>2. -1 \in n - 1 .. o /\ -1 # o /\ -1 + 1 = 0
      BY <1>1, <1>6
    <3>3. f[-1] = AddTail(f[-1 + 1], AreaHead(AllocZone, -1), Lru(p + HalfSize(-1)))
      BY <1>2, <3>2 DEF Turns
    <3>4. QED
      BY <3>1, <3>2, <3>3 DEF Spare
  <2> HIDE DEF M, N, v
  <2>3. N.next = [M.next EXCEPT ![v] = Lru(p), ![Lru(p)] = Spare]
        /\ N.prev = [M.prev EXCEPT ![Spare] = Lru(p), ![Lru(p)] = v]
    BY <2>1, <2>2 DEF AddTail, ListAdd
  <2>4. M.next \in [Node -> Node] /\ M.prev \in [Node -> Node]
    BY <2>1 DEF Family, Links
  <2>5. /\ Spare \in Node /\ Lru(p) \in LruPages /\ Lru(p) \in Node /\ v \in Node
        /\ v \in LruPages \cup {Null} /\ Lru(p) # Spare
    BY Nodes, SizeStep DEF Spare, LruPages, v
  <2>6. N \in Links
    BY <2>2, <2>1, <2>4, <2>5 DEF Links, AddTail, ListAdd
  <2>7. N.prev[Spare] = Lru(p)
    BY <2>3, <2>4, <2>5
  <2>8. \A y \in Node : y \notin {v, Lru(p), Spare}
          => N.next[y] = M.next[y] /\ N.prev[y] = M.prev[y]
    BY <2>3, <2>4
  <2>9. ASSUME NEW s \in Zone \X Order
        PROVE  Ring(N, AreaHead(s[1], s[2]), G[s])
    <3> DEFINE h == AreaHead(s[1], s[2])
    <3>1. Ring(M, h, G[s]) /\ G[s] \subseteq LruPages
      BY <2>1 DEF Family
    <3>2. h \in Node /\ h \notin {v, Lru(p), Spare}
      BY <2>5, Nodes, SizeStep DEF Spare
    <3>3. v \notin G[s] /\ Lru(p) \notin G[s]
      <4>1. G[s] = E[s] \cup Given(0, o, p, s)
        BY DEF Grown
      <4>2. v \notin E[s] /\ Lru(p) \notin E[s]
        BY DEF v
      <4>3. \A k \in Order : k < o => Lru(p + Size[k]) # v /\ Lru(p + Size[k]) # Lru(p)
        BY <1>1, SizeStep DEF v, Lru
      <4>4. \A y \in Given(0, o, p, s) : s[2] \in Order /\ s[2] < o /\ y = Lru(p + Size[s[2]])
        BY DEF Given
      <4>5. QED
        BY <4>1, <4>2, <4>3, <4>4
    <3>4. Spare \notin LruPages /\ LruPages \subseteq Node
      BY Nodes, SizeStep DEF Spare
    <3> HIDE DEF h, G
    <3>5. \A y \in G[s] \cup {h} : N.next[y] = M.next[y] /\ N.prev[y] = M.prev[y]
      BY <2>8, <3>1, <3>2, <3>3, <3>4
    <3>6. Ring(N, h, G[s])
      BY <3>1, <3>5, RingSame
    <3>7. QED
      BY <3>6 DEF h
  <2>10. Family(N, G)
    BY <2>1, <2>6, <2>9 DEF Family
  <2>11. G = Grown(E, n - 1, o, p)
    <3>0. \A i \in Nat : 0 <= i /\ n - 1 <= i
      BY <1>6
    <3>1. \A r \in Zone \X Order : 0 <= r[2] /\ n - 1 <= r[2]
      BY <3>0, SizeStep
    <3>2. \A r \in Zone \X Order : Given(0, o, p, r) = Given(n - 1, o, p, r)
      BY <3>1 DEF Given
    <3>3. QED
      BY <3>2 DEF Grown
  <2>12. QED
    BY <1>3, <1>6, <2>7, <2>10, <2>11 DEF N
<1>7. QED
  BY <1>5, <1>6

-----------------------------------------------------------------------------
(* BuddyProofs speaks of the very operators that PageAlloc takes from Buddy. *)
LEMMA SameGuards ==
  /\ \A p : P!MustReserve(p) <=> B!MustReserve(p)
  /\ \A p, k : P!BuddyOf(p, k) = B!BuddyOf(p, k)
  /\ \A p, k : P!CanMerge(p, k) <=> B!CanMerge(p, k)
  /\ P!Page = Page /\ P!Order = Order
  BY DEF P!MustReserve, B!MustReserve, P!BuddyOf, B!BuddyOf, P!Flip, B!Flip,
         P!CanMerge, B!CanMerge, P!IsBuddy, B!IsBuddy, P!NotInZone, B!NotInZone,
         P!Page, Page, P!Order, Order

LEMMA SameSpec ==
  /\ P!Init <=> B!Init
  /\ P!Next <=> B!Next
  /\ P!vars = B!vars
<1>1. P!Init <=> B!Init
  BY DEF P!Init, B!Init, P!None, B!None
<1>2. P!Reserve <=> B!Reserve
  BY DEF P!Reserve, B!Reserve, P!MustReserve, B!MustReserve, P!Page, B!Page
<1>3. P!FreePage <=> B!FreePage
  BY DEF P!FreePage, B!FreePage, P!MustReserve, B!MustReserve, P!Page, B!Page
<1>4. /\ P!Page = B!Page /\ P!Order = B!Order
      /\ \A p, k : P!BuddyOf(p, k) = B!BuddyOf(p, k)
      /\ \A p, k : P!CanMerge(p, k) <=> B!CanMerge(p, k)
  BY DEF P!BuddyOf, B!BuddyOf, P!Flip, B!Flip,
         P!CanMerge, B!CanMerge, P!IsBuddy, B!IsBuddy, P!NotInZone, B!NotInZone,
         P!Page, B!Page, P!Order, B!Order
<1>5. P!Merge <=> B!Merge
  BY <1>4 DEF P!Merge, B!Merge
<1>6. P!Settle <=> B!Settle
  BY <1>4 DEF P!Settle, B!Settle
<1>7. P!vars = B!vars
  BY DEF P!vars, B!vars
<1>8. \A n : P!Alloc(n) <=> B!Alloc(n)
  BY DEF P!Alloc, B!Alloc, P!Booted, B!Booted, P!Candidates, B!Candidates,
         P!SecondHalves, B!SecondHalves, P!Order, B!Order
<1>9. \A n : P!AllocFails(n) <=> B!AllocFails(n)
  BY <1>7 DEF P!AllocFails, B!AllocFails, P!Booted, B!Booted, P!Candidates, B!Candidates, P!vars, B!vars
<1>10. P!Next <=> B!Next
  BY <1>2, <1>3, <1>4, <1>5, <1>6, <1>8, <1>9 DEF P!Next, B!Next
<1>11. QED
  BY <1>1, <1>7, <1>10

-----------------------------------------------------------------------------
(* The lists that keep a set F of free blocks.                               *)
Held(F, r) == {Lru(p) : p \in {q \in Page : ZoneOf[q] = r[1] /\ <<q, r[2]>> \in F}}
Listed(F)  == [r \in Zone \X Order |-> Held(F, r)]

LEMMA ListedMember ==
  ASSUME NEW F, NEW r \in Zone \X Order, NEW p \in Page
  PROVE  /\ Lru(p) \in Listed(F)[r] <=> ZoneOf[p] = r[1] /\ <<p, r[2]>> \in F
         /\ Listed(F)[r] \subseteq LruPages
<1>1. \A q : Lru(q) = Lru(p) => q = p
  BY DEF Lru
<1>2. QED
  BY <1>1 DEF Listed, Held, LruPages

LEMMA ListedIs ==
  ASSUME NEW F, NEW G \in [Zone \X Order -> SUBSET LruPages],
         \A r \in Zone \X Order, p \in Page :
           Lru(p) \in G[r] <=> ZoneOf[p] = r[1] /\ <<p, r[2]>> \in F
  PROVE  G = Listed(F)
<1>1. \A r \in Zone \X Order : G[r] = Listed(F)[r]
  <2> SUFFICES ASSUME NEW r \in Zone \X Order PROVE G[r] = Listed(F)[r]
    OBVIOUS
  <2>1. G[r] \subseteq LruPages /\ Listed(F)[r] \subseteq LruPages
    BY DEF Listed, Held, LruPages
  <2>2. \A p \in Page : Lru(p) \in G[r] <=> Lru(p) \in Listed(F)[r]
    BY ListedMember
  <2>3. \A x \in LruPages : x \in G[r] <=> x \in Listed(F)[r]
    BY <2>2 DEF LruPages
  <2>4. QED
    BY <2>1, <2>3
<1>2. QED
  BY <1>1 DEF Listed

LEMMA ListedDel ==
  ASSUME NEW F, NEW p \in Page, NEW k \in Order, ZoneOf[p] \in Zone
  PROVE  Listed(F \ {<<p, k>>}) = [Listed(F) EXCEPT ![<<ZoneOf[p], k>>] = @ \ {Lru(p)}]
<1> DEFINE s == <<ZoneOf[p], k>>
           G == [Listed(F) EXCEPT ![s] = @ \ {Lru(p)}]
<1>1. s \in Zone \X Order /\ Listed(F) \in [Zone \X Order -> SUBSET LruPages]
  BY DEF Listed, Held, LruPages
<1>2. \A r \in Zone \X Order : G[r] = IF r = s THEN Listed(F)[r] \ {Lru(p)} ELSE Listed(F)[r]
  BY <1>1
<1>3. G \in [Zone \X Order -> SUBSET LruPages]
  BY <1>1
<1>4. ASSUME NEW r \in Zone \X Order, NEW q \in Page
      PROVE  Lru(q) \in G[r] <=> ZoneOf[q] = r[1] /\ <<q, r[2]>> \in F \ {<<p, k>>}
  <2>1. Lru(q) = Lru(p) <=> q = p
    BY DEF Lru
  <2>2. Lru(q) \in Listed(F)[r] <=> ZoneOf[q] = r[1] /\ <<q, r[2]>> \in F
    BY ListedMember
  <2>3. r = <<r[1], r[2]>>
    OBVIOUS
  <2> HIDE DEF G
  <2>4. QED
    BY <1>2, <2>1, <2>2, <2>3
<1> DEFINE H == F \ {<<p, k>>}
<1>5. G = Listed(H)
  <2>1. \A r \in Zone \X Order, q \in Page : Lru(q) \in G[r] <=> ZoneOf[q] = r[1] /\ <<q, r[2]>> \in H
    BY <1>4
  <2> HIDE DEF G, H
  <2>2. QED
    BY <1>3, <2>1, ListedIs
<1>6. QED
  BY <1>5

LEMMA ListedAdd ==
  ASSUME NEW F, NEW p \in Page, NEW k \in Order, ZoneOf[p] \in Zone
  PROVE  Listed(F \cup {<<p, k>>}) = [Listed(F) EXCEPT ![<<ZoneOf[p], k>>] = @ \cup {Lru(p)}]
<1> DEFINE s == <<ZoneOf[p], k>>
           G == [Listed(F) EXCEPT ![s] = @ \cup {Lru(p)}]
<1>1. s \in Zone \X Order /\ Listed(F) \in [Zone \X Order -> SUBSET LruPages]
      /\ Lru(p) \in LruPages
  BY DEF Listed, Held, LruPages
<1>2. \A r \in Zone \X Order : G[r] = IF r = s THEN Listed(F)[r] \cup {Lru(p)} ELSE Listed(F)[r]
  BY <1>1
<1>3. G \in [Zone \X Order -> SUBSET LruPages]
  BY <1>1
<1>4. ASSUME NEW r \in Zone \X Order, NEW q \in Page
      PROVE  Lru(q) \in G[r] <=> ZoneOf[q] = r[1] /\ <<q, r[2]>> \in F \cup {<<p, k>>}
  <2>1. Lru(q) = Lru(p) <=> q = p
    BY DEF Lru
  <2>2. Lru(q) \in Listed(F)[r] <=> ZoneOf[q] = r[1] /\ <<q, r[2]>> \in F
    BY ListedMember
  <2>3. r = <<r[1], r[2]>>
    OBVIOUS
  <2> HIDE DEF G
  <2>4. QED
    BY <1>2, <2>1, <2>2, <2>3
<1> DEFINE H == F \cup {<<p, k>>}
<1>5. G = Listed(H)
  <2>1. \A r \in Zone \X Order, q \in Page : Lru(q) \in G[r] <=> ZoneOf[q] = r[1] /\ <<q, r[2]>> \in H
    BY <1>4
  <2> HIDE DEF G, H
  <2>2. QED
    BY <1>3, <2>1, ListedIs
<1>6. QED
  BY <1>5

(* The second halves of block <<p, o>>, from order o - 1 down to n - 1.      *)
Halves(n, o, p) == {<<p + Size[j], j>> : j \in {i \in Order : n - 1 <= i /\ i < o}}

LEMMA ListedGrown ==
  ASSUME NEW F, NEW p \in Page, NEW o \in Order, NEW n \in Order,
         \A k \in Order : k < o => p + Size[k] \in Page /\ ZoneOf[p + Size[k]] = AllocZone
  PROVE  Grown(Listed(F), n - 1, o, p) = Listed(F \cup Halves(n, o, p))
<1> DEFINE G == Grown(Listed(F), n - 1, o, p)
<1>1. ASSUME NEW r \in Zone \X Order
      PROVE  Given(n - 1, o, p, r) \subseteq LruPages
  <2>1. r[2] < o => p + Size[r[2]] \in Page
    OBVIOUS
  <2>2. QED
    BY <2>1 DEF Given, LruPages
<1>2. G \in [Zone \X Order -> SUBSET LruPages]
  BY <1>1 DEF Grown, Listed, Held, LruPages
<1>3. ASSUME NEW r \in Zone \X Order, NEW q \in Page
      PROVE  Lru(q) \in G[r] <=> ZoneOf[q] = r[1] /\ <<q, r[2]>> \in F \cup Halves(n, o, p)
  <2>1. Lru(q) \in Listed(F)[r] <=> ZoneOf[q] = r[1] /\ <<q, r[2]>> \in F
    BY ListedMember
  <2>2. G[r] = Listed(F)[r] \cup Given(n - 1, o, p, r)
    BY DEF Grown
  <2>3. Lru(q) \in Given(n - 1, o, p, r) <=>
          r[1] = AllocZone /\ n - 1 <= r[2] /\ r[2] < o /\ q = p + Size[r[2]]
    BY DEF Given, Lru
  <2>4. <<q, r[2]>> \in Halves(n, o, p) <=> n - 1 <= r[2] /\ r[2] < o /\ q = p + Size[r[2]]
    BY DEF Halves
  <2>5. r[2] < o /\ q = p + Size[r[2]] => ZoneOf[q] = AllocZone
    OBVIOUS
  <2> HIDE DEF G
  <2>6. QED
    BY <2>1, <2>2, <2>3, <2>4, <2>5
<1>4. QED
  BY <1>2, <1>3, ListedIs

(* Walking the lists gives back the set they keep.                           *)
LEMMA ListedWalk ==
  ASSUME NEW L, NEW F, Family(L, Listed(F)), NEW z \in Zone, NEW k \in Order
  PROVE  Entries(L, AreaHead(z, k)) = Listed(F)[<<z, k>>]
<1> DEFINE r == <<z, k>>
<1>1. r \in Zone \X Order /\ r[1] = z /\ r[2] = k
  OBVIOUS
<1> HIDE DEF r
<1>2. Ring(L, AreaHead(r[1], r[2]), Listed(F)[r]) /\ Listed(F)[r] \in SUBSET LruPages
  BY <1>1 DEF Family
<1>3. Entries(L, AreaHead(r[1], r[2])) = Listed(F)[r]
  BY <1>2, RingWalk
<1>4. QED
  BY <1>1, <1>3 DEF r

LEMMA ListedFree ==
  ASSUME NEW L, NEW F \in SUBSET (Page \X Order), Family(L, Listed(F))
  PROVE  {b \in Page \X Order : Lru(b[1]) \in Entries(L, AreaHead(ZoneOf[b[1]], b[2]))} = F
<1>2. \A p \in Page : ZoneOf[p] \in Zone
  BY BuddyAssumption DEF B!ZoneAssumption, B!Page, Page
<1>3. ASSUME NEW b \in Page \X Order
      PROVE  Lru(b[1]) \in Entries(L, AreaHead(ZoneOf[b[1]], b[2])) <=> b \in F
  <2> DEFINE r == <<ZoneOf[b[1]], b[2]>>
  <2>1. /\ b = <<b[1], b[2]>> /\ b[1] \in Page /\ b[2] \in Order /\ r \in Zone \X Order
        /\ r[1] = ZoneOf[b[1]] /\ r[2] = b[2]
    BY <1>2
  <2> HIDE DEF r
  <2>2. Lru(b[1]) \in Listed(F)[r] <=> b \in F
    BY <2>1, ListedMember
  <2>3. Entries(L, AreaHead(ZoneOf[b[1]], b[2])) = Listed(F)[r]
    BY <1>2, <2>1, ListedWalk DEF r
  <2>4. QED
    BY <2>2, <2>3
<1>4. QED
  BY <1>3

-----------------------------------------------------------------------------
(* The inductive invariant: that of BuddyProofs for the sets of blocks, and  *)
(* for the lists that they are rings with the blocks as entries and that     *)
(* nr_free counts them.  The last turn of expand for order 0 stores through  *)
(* the prev of the words before free_area[0]: SpareEntry says that this      *)
(* never reaches a page on a list.                                           *)
FreeLists == Family(links, Listed(FreeBlocks))
Counts ==
  /\ nrFree \in [Zone -> [List -> Int]]
  /\ \A z \in Zone, k \in Order :
       nrFree[z][k] = Cardinality(Listed(FreeBlocks)[<<z, k>>])
SpareEntry ==
  links.prev[Spare] \in {Null} \cup {Lru(b[1]) : b \in {c \in ToSet(live) : c[2] = 0}}
Lives == live \in Seq(Page \X Order)

IInv == P!IInv /\ FreeLists /\ Counts /\ SpareEntry /\ Lives

LEMMA Zones == \A p \in Page : ZoneOf[p] \in Zone
  BY BuddyAssumption DEF B!ZoneAssumption, B!Page, Page

LEMMA FreeType == FreeBlocks \in SUBSET (Page \X Order)
  BY DEF FreeBlocks

LEMMA FreeIs ==
  ASSUME NEW F \in SUBSET (Page \X Order), Family(links, Listed(F))
  PROVE  FreeBlocks = F
  BY ListedFree DEF FreeBlocks, OnList

LEMMA FreeIsNext ==
  ASSUME NEW F \in SUBSET (Page \X Order), Family(links', Listed(F))
  PROVE  FreeBlocks' = F
  BY ListedFree DEF FreeBlocks, OnList

LEMMA ListedFinite ==
  ASSUME NEW F, NEW r \in Zone \X Order
  PROVE  IsFiniteSet(Listed(F)[r]) /\ Cardinality(Listed(F)[r]) \in Nat
<1>1. Listed(F)[r] \in SUBSET LruPages
  BY DEF Listed, Held, LruPages
<1>2. IsFiniteSet(Listed(F)[r])
  BY <1>1, PageSet, FS_Subset
<1>3. QED
  BY <1>2, FS_CardinalityType

LEMMA InitStep == ASSUME P!ZeroedJunk, Init PROVE P!Init /\ IInv
<1> DEFINE zero == [n \in Node |-> IF n[1] = "head" /\ n[3] \in Order THEN n ELSE Null]
<1>1. links = [next |-> zero, prev |-> zero] /\ live = <<>>
      /\ nrFree = [z \in Zone |-> [k \in List |-> 0]]
  BY DEF Init
<1>2. \A r \in Zone \X Order : zero[AreaHead(r[1], r[2])] = AreaHead(r[1], r[2])
  <2>1. \A r \in Zone \X Order : AreaHead(r[1], r[2]) \in Node /\ r[2] \in Order
    BY Nodes
  <2>2. QED
    BY <2>1 DEF AreaHead
<1>3. links \in Links
  <2>1. zero \in [Node -> Node]
    BY Nodes
  <2>2. QED
    BY <1>1, <2>1 DEF Links
<1>4. Listed({}) = [r \in Zone \X Order |-> {}]
  BY DEF Listed, Held
<1>5. \A r \in Zone \X Order : Ring(links, AreaHead(r[1], r[2]), {})
  <2> SUFFICES ASSUME NEW r \in Zone \X Order PROVE Ring(links, AreaHead(r[1], r[2]), {})
    OBVIOUS
  <2> DEFINE h == AreaHead(r[1], r[2])
  <2>1. h \in Node /\ links.next[h] = h /\ links.prev[h] = h
    BY <1>1, <1>2, Nodes
  <2> HIDE DEF h
  <2>2. Ring(links, h, {})
    BY <1>3, <2>1, RingEmpty
  <2>3. QED
    BY <2>2 DEF h
<1>6. Family(links, Listed({}))
  BY <1>3, <1>4, <1>5 DEF Family
<1>7. FreeBlocks = {}
  BY <1>6, FreeIs
<1>8. ToSet(live) = {}
  BY <1>1 DEF ToSet
<1>9. P!Init
  BY <1>7, <1>8 DEF Init, P!Init, P!None, None
<1>10. P!IInv
  BY <1>9, BuddyAssumed, P!InitInv
<1>11. Counts
  <2>1. nrFree \in [Zone -> [List -> Int]]
    BY <1>1
  <2>2. ASSUME NEW z \in Zone, NEW k \in Order
        PROVE  nrFree[z][k] = Cardinality(Listed(FreeBlocks)[<<z, k>>])
    <3>1. k \in List
      BY SizeStep DEF Order, List
    <3>2. Listed(FreeBlocks)[<<z, k>>] = {}
      BY <1>4, <1>7
    <3>3. QED
      BY <1>1, <3>1, <3>2, FS_EmptySet
  <2>3. QED
    BY <2>1, <2>2 DEF Counts
<1>12. SpareEntry
  <2>1. Spare \in Node /\ Spare[3] = -1 /\ -1 \notin Order
    BY Nodes, SizeStep DEF Spare, AreaHead, Order
  <2>2. QED
    BY <1>1, <2>1 DEF SpareEntry
<1>13. QED
  BY <1>1, <1>6, <1>7, <1>9, <1>10, <1>11, <1>12 DEF IInv, FreeLists, Lives

(* A step that leaves the lists and the clients alone leaves the blocks too. *)
LEMMA SameLists ==
  ASSUME UNCHANGED <<links, nrFree, live>>, FreeLists, Counts, SpareEntry, Lives
  PROVE  /\ FreeBlocks' = FreeBlocks /\ ToSet(live)' = ToSet(live)
         /\ FreeLists' /\ Counts' /\ SpareEntry' /\ Lives'
<1>1. FreeBlocks' = FreeBlocks
  BY DEF FreeBlocks, OnList
<1>2. QED
  BY <1>1 DEF FreeLists, Counts, SpareEntry, Lives

LEMMA ReserveRefines == IInv /\ Reserve => P!Reserve /\ IInv'
<1> SUFFICES ASSUME IInv, Reserve PROVE P!Reserve /\ IInv'
  OBVIOUS
<1>1. /\ FreeBlocks' = FreeBlocks /\ ToSet(live)' = ToSet(live)
      /\ FreeLists' /\ Counts' /\ SpareEntry' /\ Lives'
  BY SameLists DEF IInv, Reserve, lists
<1>2. P!Reserve
  BY <1>1, SameGuards DEF Reserve, P!Reserve
<1>3. P!IInv'
  BY <1>2, BuddyAssumed, P!ReserveStep DEF IInv
<1>4. QED
  BY <1>1, <1>2, <1>3 DEF IInv

LEMMA FreePageRefines == IInv /\ FreePage => P!FreePage /\ IInv'
<1> SUFFICES ASSUME IInv, FreePage PROVE P!FreePage /\ IInv'
  OBVIOUS
<1>1. /\ FreeBlocks' = FreeBlocks /\ ToSet(live)' = ToSet(live)
      /\ FreeLists' /\ Counts' /\ SpareEntry' /\ Lives'
  BY SameLists DEF IInv, FreePage, lists
<1>2. P!FreePage
  BY <1>1, SameGuards DEF FreePage, P!FreePage
<1>3. P!IInv'
  BY <1>2, BuddyAssumed, P!FreePageStep DEF IInv
<1>4. QED
  BY <1>1, <1>2, <1>3 DEF IInv

-----------------------------------------------------------------------------
LEMMA CountDel ==
  ASSUME NEW F, NEW p \in Page, NEW k \in Order, <<p, k>> \in F, NEW r \in Zone \X Order
  PROVE  Cardinality(Listed(F \ {<<p, k>>})[r]) =
           Cardinality(Listed(F)[r]) - (IF r = <<ZoneOf[p], k>> THEN 1 ELSE 0)
<1> DEFINE s == <<ZoneOf[p], k>>
           S == Listed(F)[r]
           T == Listed(F \ {<<p, k>>})[r]
<1>1. s \in Zone \X Order /\ Listed(F) \in [Zone \X Order -> SUBSET LruPages]
  BY Zones DEF Listed, Held, LruPages
<1>2. T = IF r = s THEN S \ {Lru(p)} ELSE S
  <2>1. Listed(F \ {<<p, k>>}) = [Listed(F) EXCEPT ![s] = @ \ {Lru(p)}]
    BY Zones, ListedDel
  <2> HIDE DEF s
  <2>2. QED
    BY <1>1, <2>1
<1>3. IsFiniteSet(S) /\ Cardinality(S) \in Nat
  BY ListedFinite
<1>4. r = s => Lru(p) \in S
  BY <1>1, ListedMember
<1> HIDE DEF s, S, T
<1>5. CASE r = s
  <2>1. Cardinality(S \ {Lru(p)}) = Cardinality(S) - 1
    BY <1>3, <1>4, <1>5, FS_RemoveElement
  <2>2. QED
    BY <1>2, <1>5, <2>1 DEF s, S, T
<1>6. CASE r # s
  BY <1>2, <1>3, <1>6 DEF s, S, T
<1>7. QED
  BY <1>5, <1>6

LEMMA CountAdd ==
  ASSUME NEW F, NEW p \in Page, NEW k \in Order, <<p, k>> \notin F, NEW r \in Zone \X Order
  PROVE  Cardinality(Listed(F \cup {<<p, k>>})[r]) =
           Cardinality(Listed(F)[r]) + (IF r = <<ZoneOf[p], k>> THEN 1 ELSE 0)
<1> DEFINE s == <<ZoneOf[p], k>>
           S == Listed(F)[r]
           T == Listed(F \cup {<<p, k>>})[r]
<1>1. s \in Zone \X Order /\ Listed(F) \in [Zone \X Order -> SUBSET LruPages]
  BY Zones DEF Listed, Held, LruPages
<1>2. T = IF r = s THEN S \cup {Lru(p)} ELSE S
  <2>1. Listed(F \cup {<<p, k>>}) = [Listed(F) EXCEPT ![s] = @ \cup {Lru(p)}]
    BY Zones, ListedAdd
  <2> HIDE DEF s
  <2>2. QED
    BY <1>1, <2>1
<1>3. IsFiniteSet(S) /\ Cardinality(S) \in Nat
  BY ListedFinite
<1>4. r = s => Lru(p) \notin S
  BY <1>1, ListedMember
<1> HIDE DEF s, S, T
<1>5. CASE r = s
  <2>1. Cardinality(S \cup {Lru(p)}) = Cardinality(S) + 1
    BY <1>3, <1>4, <1>5, FS_AddElement
  <2>2. QED
    BY <1>2, <1>5, <2>1 DEF s, S, T
<1>6. CASE r # s
  BY <1>2, <1>3, <1>6 DEF s, S, T
<1>7. QED
  BY <1>5, <1>6

(* A step counts d more blocks of order k in the zone of page p, and has d   *)
(* more on that list.                                                        *)
Counted(p, k, d) ==
  /\ nrFree' = [nrFree EXCEPT ![ZoneOf[p]][k] = @ + d]
  /\ \A r \in Zone \X Order :
       Cardinality(Listed(FreeBlocks')[r]) = Cardinality(Listed(FreeBlocks)[r])
         + (IF r = <<ZoneOf[p], k>> THEN d ELSE 0)

LEMMA CountStep ==
  ASSUME Counts, NEW p \in Page, NEW k \in Order, NEW d \in Int, Counted(p, k, d)
  PROVE  Counts'
<1> USE DEF Counted
<1>1. ZoneOf[p] \in Zone /\ k \in List /\ nrFree \in [Zone -> [List -> Int]]
  BY Zones, SizeStep DEF Order, List, Counts
<1>2. nrFree' \in [Zone -> [List -> Int]]
  BY <1>1
<1>3. ASSUME NEW z \in Zone, NEW j \in Order
      PROVE  nrFree'[z][j] = Cardinality(Listed(FreeBlocks')[<<z, j>>])
  <2>1. j \in List /\ nrFree[z][j] = Cardinality(Listed(FreeBlocks)[<<z, j>>])
    BY SizeStep DEF Order, List, Counts
  <2>2. nrFree'[z][j] = nrFree[z][j] + (IF <<z, j>> = <<ZoneOf[p], k>> THEN d ELSE 0)
    BY <1>1, <2>1
  <2>3. <<z, j>> \in Zone \X Order
    OBVIOUS
  <2>4. QED
    BY <2>1, <2>2, <2>3
<1>4. QED
  BY <1>2, <1>3 DEF Counts

LEMMA MergeRefines == IInv /\ Merge => P!Merge /\ IInv'
<1> SUFFICES ASSUME IInv, Merge PROVE P!Merge /\ IInv'
  OBVIOUS
<1>1. PICK p \in Page, k \in Order :
        /\ merging = {<<p, k>>}
        /\ B!CanMerge(p, k)
        /\ LET q == B!BuddyOf(p, k) IN
             /\ links' = ListDel(links, Lru(q))
             /\ nrFree' = [nrFree EXCEPT ![ZoneOf[p]][k] = @ - 1]
             /\ merging' = {<<IF p < q THEN p ELSE q, k + 1>>}
  BY DEF Merge
<1> DEFINE q == B!BuddyOf(p, k)
           F == FreeBlocks
           r == <<ZoneOf[q], k>>
<1>2. q = P!BuddyOf(p, k) /\ P!CanMerge(p, k) /\ P!Page = Page /\ P!Order = Order
  BY <1>1, SameGuards
<1>3. q \in Page /\ <<q, k>> \in F /\ ZoneOf[q] = ZoneOf[p]
  BY <1>1, <1>2, BuddyAssumed, P!MergeFindsBuddy DEF IInv
<1>4. /\ links' = ListDel(links, Lru(q))
      /\ nrFree' = [nrFree EXCEPT ![ZoneOf[q]][k] = @ + (-1)]
      /\ merging' = {<<IF p < q THEN p ELSE q, k + 1>>}
      /\ UNCHANGED <<layout, pfn, reserved, private, freePages, live>>
  <2>1. nrFree \in [Zone -> [List -> Int]] /\ ZoneOf[p] \in Zone /\ k \in List
    BY Zones, SizeStep DEF IInv, Counts, Order, List
  <2>2. nrFree[ZoneOf[p]][k] - 1 = nrFree[ZoneOf[p]][k] + (-1)
    BY <2>1
  <2>3. QED
    BY <1>1, <1>3, <2>2 DEF Merge, boot
<1> HIDE DEF q
<1>5. r \in Zone \X Order /\ Lru(q) \in Listed(F)[r] /\ Listed(F)[r] \subseteq LruPages
  BY <1>3, Zones, ListedMember
<1>6. /\ Family(links', Listed(F \ {<<q, k>>}))
      /\ \A y \in Node : y \notin Listed(F)[r] \cup {AreaHead(r[1], r[2])}
           => links'.prev[y] = links.prev[y]
  <2>1. Family(links, Listed(F))
    BY DEF IInv, FreeLists
  <2>2. Listed(F \ {<<q, k>>}) = [Listed(F) EXCEPT ![r] = @ \ {Lru(q)}]
    BY <1>3, Zones, ListedDel
  <2> HIDE DEF F, r
  <2>3. QED
    BY <1>4, <1>5, <2>1, <2>2, FamilyDel
<1>7. FreeBlocks' = F \ {<<q, k>>}
  BY <1>6, FreeType, FreeIsNext
<1>8. P!Merge
  BY <1>1, <1>2, <1>4, <1>7 DEF P!Merge
<1>9. P!IInv'
  BY <1>8, BuddyAssumed, P!MergeStep DEF IInv
<1>10. Counts'
  <2>1. \A s \in Zone \X Order :
          Cardinality(Listed(FreeBlocks')[s]) = Cardinality(Listed(F)[s])
            - (IF s = <<ZoneOf[q], k>> THEN 1 ELSE 0)
    BY <1>3, <1>7, CountDel
  <2>2. \A s \in Zone \X Order : Cardinality(Listed(F)[s]) \in Nat
    BY ListedFinite
  <2>3. \A s \in Zone \X Order :
          Cardinality(Listed(FreeBlocks')[s]) = Cardinality(Listed(F)[s])
            + (IF s = <<ZoneOf[q], k>> THEN -1 ELSE 0)
    BY <2>1, <2>2
  <2>4. nrFree' = [nrFree EXCEPT ![ZoneOf[q]][k] = @ + (-1)]
    BY <1>4
  <2>5. Counted(q, k, -1)
    BY <2>3, <2>4 DEF Counted
  <2>6. QED
    BY <1>3, <2>5, CountStep DEF IInv
<1>11. SpareEntry'
  <2>1. Spare \in Node /\ Spare \notin Listed(F)[r] \cup {AreaHead(r[1], r[2])}
    BY <1>5, Nodes, SizeStep DEF Spare
  <2>2. links'.prev[Spare] = links.prev[Spare]
    BY <1>6, <2>1
  <2>3. QED
    BY <1>4, <2>2 DEF IInv, SpareEntry
<1>12. FreeLists' /\ Lives'
  BY <1>4, <1>6, <1>7 DEF FreeLists, IInv, Lives
<1>13. QED
  BY <1>8, <1>9, <1>10, <1>11, <1>12 DEF IInv

LEMMA SettleRefines == IInv /\ Settle => P!Settle /\ IInv'
<1> SUFFICES ASSUME IInv, Settle PROVE P!Settle /\ IInv'
  OBVIOUS
<1>1. PICK p \in Page, k \in Order :
        /\ merging = {<<p, k>>}
        /\ ~B!CanMerge(p, k)
        /\ private' = [private EXCEPT ![p] = k]
        /\ links' = AddHead(links, AreaHead(ZoneOf[p], k), Lru(p))
        /\ nrFree' = [nrFree EXCEPT ![ZoneOf[p]][k] = @ + 1]
  BY DEF Settle
<1> DEFINE F == FreeBlocks
           r == <<ZoneOf[p], k>>
           m == <<p, k>>
<1>2. ~P!CanMerge(p, k) /\ P!Page = Page /\ P!Order = Order
  BY <1>1, SameGuards
<1>3. merging' = {} /\ UNCHANGED <<layout, pfn, reserved, freePages, live>>
  BY DEF Settle, boot
<1>4. \A c \in F : c[1] # p
  <2> SUFFICES ASSUME NEW c \in F, c[1] = p PROVE FALSE
    OBVIOUS
  <2>1. c \in Page \X Order /\ m \in Page \X Order
    BY FreeType
  <2>2. p \in P!Pages(c) /\ p \in P!Pages(m)
    BY <1>2, <2>1, BuddyAssumed, P!PagesFacts
  <2>3. c # m /\ c \in P!Blocks /\ m \in P!Blocks
    BY <1>1 DEF IInv, P!IInv, P!Progress, P!Blocks
  <2>4. QED
    BY <2>2, <2>3 DEF IInv, P!IInv, P!FreeDisjoint, P!Disjoint
<1>5. /\ r \in Zone \X Order /\ Lru(p) \in LruPages /\ Listed(F)[r] \subseteq LruPages
      /\ \A s \in Zone \X Order : Lru(p) \notin Listed(F)[s]
  <2>1. r \in Zone \X Order /\ Lru(p) \in LruPages
    BY Zones DEF LruPages
  <2>2. \A s \in Zone \X Order : <<p, s[2]>> \notin F
    BY <1>4
  <2>3. \A s \in Zone \X Order : Lru(p) \notin Listed(F)[s]
    BY <2>2, ListedMember
  <2>4. QED
    BY <2>1, <2>3, ListedMember
<1>6. /\ Family(links', Listed(F \cup {m}))
      /\ \A y \in Node : y \notin Listed(F)[r] \cup {AreaHead(r[1], r[2]), Lru(p)}
           => links'.prev[y] = links.prev[y]
  <2>1. Family(links, Listed(F))
    BY DEF IInv, FreeLists
  <2>2. Listed(F \cup {m}) = [Listed(F) EXCEPT ![r] = @ \cup {Lru(p)}]
    BY Zones, ListedAdd
  <2>3. links' = AddHead(links, AreaHead(r[1], r[2]), Lru(p))
    BY <1>1
  <2> HIDE DEF F, r, m
  <2>4. QED
    BY <1>5, <2>1, <2>2, <2>3, FamilyAdd
<1>7. FreeBlocks' = F \cup {m}
  BY <1>6, FreeType, FreeIsNext
<1>8. P!Settle
  BY <1>1, <1>2, <1>3, <1>7 DEF P!Settle
<1>9. P!IInv'
  BY <1>8, BuddyAssumed, P!SettleStep DEF IInv
<1>10. Counts'
  <2>1. m \notin F
    BY <1>4
  <2>2. \A s \in Zone \X Order :
          Cardinality(Listed(FreeBlocks')[s]) = Cardinality(Listed(F)[s])
            + (IF s = <<ZoneOf[p], k>> THEN 1 ELSE 0)
    BY <1>7, <2>1, CountAdd
  <2>3. Counted(p, k, 1)
    BY <1>1, <2>2 DEF Counted
  <2>4. QED
    BY <2>3, CountStep DEF IInv
<1>11. SpareEntry'
  <2>1. Spare \in Node /\ Spare \notin Listed(F)[r] \cup {AreaHead(r[1], r[2]), Lru(p)}
    BY <1>5, Nodes, SizeStep DEF Spare
  <2>2. links'.prev[Spare] = links.prev[Spare]
    BY <1>6, <2>1
  <2>3. QED
    BY <1>3, <2>2 DEF IInv, SpareEntry
<1>12. FreeLists' /\ Lives'
  BY <1>3, <1>6, <1>7 DEF FreeLists, IInv, Lives
<1>13. QED
  BY <1>8, <1>9, <1>10, <1>11, <1>12 DEF IInv

-----------------------------------------------------------------------------
(* The block __rmqueue takes: a free block of the least order in use, whose  *)
(* second halves are pages of the zone that are on no list.                  *)
Takes(n, o, p) == FirstUsed(n, o) /\ links.next[AreaHead(AllocZone, o)] = Lru(p)

LEMMA Taken ==
  ASSUME IInv, NEW n \in Order, NEW o \in n .. MaxOrder - 1, NEW p \in Page, Takes(n, o, p)
  PROVE  /\ o \in Order /\ n <= o
         /\ <<p, o>> \in P!Candidates(n)
         /\ \A c \in P!Candidates(n) : o <= c[2]
<1> DEFINE F == FreeBlocks
           r == <<AllocZone, o>>
<1>1. o \in Order /\ n <= o /\ r \in Zone \X Order
  BY SizeStep DEF Order
<1>2. ASSUME NEW j \in Order
      PROVE  /\ HasBlock(j) <=> Listed(F)[<<AllocZone, j>>] # {}
             /\ HasBlock(j) => links.next[AreaHead(AllocZone, j)] \in Listed(F)[<<AllocZone, j>>]
  <2> DEFINE s == <<AllocZone, j>>
  <2>1. s \in Zone \X Order /\ s[1] = AllocZone /\ s[2] = j
    BY SizeStep
  <2>2. Ring(links, AreaHead(AllocZone, j), Listed(F)[s])
    BY <2>1 DEF IInv, FreeLists, Family
  <2> HIDE DEF s, F
  <2>3. QED
    BY <2>2, RingFacts DEF HasBlock, s
<1>3. Lru(p) \in Listed(F)[r]
  BY <1>1, <1>2 DEF Takes, FirstUsed
<1>4. <<p, o>> \in F /\ ZoneOf[p] = AllocZone
  BY <1>1, <1>3, ListedMember
<1>5. <<p, o>> \in P!Candidates(n)
  BY <1>1, <1>4, SizeStep DEF P!Candidates
<1>6. ASSUME NEW c \in P!Candidates(n), ~(o <= c[2])
      PROVE  FALSE
  <2>1. c \in F /\ c[2] >= n /\ ZoneOf[c[1]] = AllocZone
    BY DEF P!Candidates
  <2>2. c[1] \in Page /\ c[2] \in Order /\ c = <<c[1], c[2]>>
    BY <2>1, FreeType
  <2>3. <<AllocZone, c[2]>> \in Zone \X Order
    BY <2>2, SizeStep
  <2>4. Lru(c[1]) \in Listed(F)[<<AllocZone, c[2]>>]
    BY <2>1, <2>2, <2>3, ListedMember
  <2>5. HasBlock(c[2])
    BY <1>2, <2>2, <2>4
  <2>6. c[2] \in n .. o - 1
    BY <1>1, <1>6, <2>1, <2>2, SizeStep
  <2>7. QED
    BY <2>5, <2>6 DEF Takes, FirstUsed
<1>7. QED
  BY <1>1, <1>5, <1>6

LEMMA Interior ==
  ASSUME IInv, NEW o \in Order, NEW p \in Page, <<p, o>> \in FreeBlocks,
         NEW k \in Order, k < o
  PROVE  /\ p + Size[k] \in Page /\ ZoneOf[p + Size[k]] = ZoneOf[p]
         /\ p + Size[k] # p
         /\ \A c \in FreeBlocks : c[1] # p + Size[k]
         /\ \A a \in ToSet(live) : a[2] = 0 => a[1] # p + Size[k]
<1> DEFINE b == <<p, o>>
           x == p + Size[k]
<1>1. /\ p \in Nat /\ Size[k] \in Nat \ {0} /\ Size[o] \in Nat /\ 2 * Size[k] <= Size[o]
      /\ b \in Page \X Order /\ P!Page = Page /\ P!Order = Order
  BY SizeStep, SameGuards DEF Page
<1>2. x \in P!Pages(b)
  <2>1. p <= x /\ x < p + Size[o] /\ x \in Int
    BY <1>1
  <2> HIDE DEF x
  <2>2. QED
    BY <1>1, <2>1, BuddyAssumed, P!PagesFacts
<1>3. x \in Page /\ ZoneOf[x] = ZoneOf[p]
  BY <1>1, <1>2 DEF IInv, P!IInv, P!ReservedKept, P!Blocks
<1>4. x # p
  BY <1>1
<1>5. ASSUME NEW c \in FreeBlocks, c[1] = x
      PROVE  FALSE
  <2>1. c \in Page \X Order /\ c # b
    BY <1>4, <1>5, FreeType
  <2>2. x \in P!Pages(c)
    BY <1>1, <1>5, <2>1, BuddyAssumed, P!PagesFacts
  <2>3. QED
    BY <1>2, <2>1, <2>2 DEF IInv, P!IInv, P!FreeDisjoint, P!Disjoint, P!Blocks
<1>6. ASSUME NEW a \in ToSet(live), a[2] = 0, a[1] = x
      PROVE  FALSE
  <2>1. a \in Page \X Order
    BY <1>1 DEF IInv, P!IInv, P!TypeOK
  <2>2. x \in P!Pages(a)
    BY <1>1, <1>6, <2>1, BuddyAssumed, P!PagesFacts
  <2>3. o >= 0
    BY SizeStep
  <2>4. QED
    BY <1>2, <1>6, <2>2, <2>3 DEF IInv, P!IInv, P!SameOrderDisjoint, P!Disjoint
<1>7. QED
  BY <1>3, <1>4, <1>5, <1>6

(* The page that the words before the first list point to is on no list.     *)
LEMMA SpareFree ==
  ASSUME IInv
  PROVE  /\ links.prev[Spare] \in LruPages \cup {Null}
         /\ \A s \in Zone \X Order : links.prev[Spare] \notin Listed(FreeBlocks)[s]
<1> DEFINE v == links.prev[Spare]
<1>1. CASE v = Null
  <2>1. \A s \in Zone \X Order : Listed(FreeBlocks)[s] \subseteq LruPages
    BY DEF Listed, Held, LruPages
  <2>2. QED
    BY <1>1, <2>1, Nodes
<1>2. ASSUME NEW a \in ToSet(live), a[2] = 0, v = Lru(a[1])
      PROVE  v \in LruPages /\ \A s \in Zone \X Order : v \notin Listed(FreeBlocks)[s]
  <2>1. a \in Page \X Order /\ P!Page = Page /\ P!Order = Order
    BY SameGuards DEF IInv, P!IInv, P!TypeOK
  <2>2. a[1] \in P!Pages(a) /\ a[1] \in Page
    BY <2>1, BuddyAssumed, P!PagesFacts
  <2>3. ASSUME NEW c \in FreeBlocks, c[1] = a[1]
        PROVE  FALSE
    <3>1. c \in Page \X Order
      BY FreeType
    <3>2. a[1] \in P!Pages(c) /\ c[2] >= 0
      BY <2>1, <2>3, <3>1, BuddyAssumed, SizeStep, P!PagesFacts
    <3>3. QED
      BY <1>2, <2>2, <3>2 DEF IInv, P!IInv, P!SameOrderDisjoint, P!Disjoint
  <2>4. \A s \in Zone \X Order : <<a[1], s[2]>> \notin FreeBlocks
    BY <2>3
  <2>5. \A s \in Zone \X Order : Lru(a[1]) \notin Listed(FreeBlocks)[s]
    BY <2>2, <2>4, ListedMember
  <2>6. QED
    BY <1>2, <2>2, <2>5 DEF LruPages
<1>3. v = Null \/ \E a \in ToSet(live) : a[2] = 0 /\ v = Lru(a[1])
  BY DEF IInv, SpareEntry
<1>4. QED
  BY <1>1, <1>2, <1>3

LEMMA AllocLinks ==
  ASSUME IInv, NEW n \in Order, NEW o \in Order, NEW p \in Page, n <= o,
         <<p, o>> \in FreeBlocks, ZoneOf[p] = AllocZone
  PROVE  LET M == LinksAfter(n, o, p)
             F == (FreeBlocks \ {<<p, o>>}) \cup Halves(n, o, p)
         IN  /\ Family(M, Listed(F)) /\ F \in SUBSET (Page \X Order)
             /\ M.prev[Spare] = IF n = 0 THEN Lru(p) ELSE links.prev[Spare]
<1> DEFINE b == <<p, o>>
           r == <<AllocZone, o>>
           G == FreeBlocks \ {b}
           E == Listed(G)
           L == ListDel(links, Lru(p))
           v == links.prev[Spare]
<1>1. r \in Zone \X Order /\ Lru(p) \in Listed(FreeBlocks)[r]
      /\ Listed(FreeBlocks)[r] \subseteq LruPages
  BY SizeStep, ListedMember
<1>2. /\ Family(L, E)
      /\ \A y \in Node : y \notin Listed(FreeBlocks)[r] \cup {AreaHead(r[1], r[2])}
           => L.prev[y] = links.prev[y]
  <2>1. Family(links, Listed(FreeBlocks))
    BY DEF IInv, FreeLists
  <2>2. E = [Listed(FreeBlocks) EXCEPT ![r] = @ \ {Lru(p)}]
    BY SizeStep, ListedDel
  <2> DEFINE D == Listed(FreeBlocks)
             x == Lru(p)
  <2>3. r \in Zone \X Order /\ x \in D[r] /\ Family(links, D)
    BY <1>1, <2>1
  <2> HIDE DEF E, D, r, x
  <2>4. /\ Family(ListDel(links, x), [D EXCEPT ![r] = @ \ {x}])
        /\ \A y \in Node : y \notin D[r] \cup {AreaHead(r[1], r[2])}
             => ListDel(links, x).prev[y] = links.prev[y]
    BY <2>3, FamilyDel
  <2>5. QED
    BY <2>2, <2>4 DEF D, x
<1>3. L.prev[Spare] = v
  <2>1. Spare \in Node /\ Spare \notin Listed(FreeBlocks)[r] \cup {AreaHead(r[1], r[2])}
    BY <1>1, Nodes, SizeStep DEF Spare
  <2>2. QED
    BY <1>2, <2>1
<1>4. \A s \in Zone \X Order : Listed(G)[s] \subseteq Listed(FreeBlocks)[s]
  BY DEF Listed, Held
<1>5. v \in LruPages \cup {Null} /\ \A s \in Zone \X Order : v \notin E[s]
  BY <1>4, SpareFree
<1>6. \A s \in Zone \X Order : Lru(p) \notin E[s]
  <2>1. ASSUME NEW c \in G, c[1] = p
        PROVE  FALSE
    <3>1. /\ c \in Page \X Order /\ b \in Page \X Order /\ c # b
          /\ P!Page = Page /\ P!Order = Order
      BY FreeType, SameGuards
    <3>2. p \in P!Pages(c) /\ p \in P!Pages(b)
      BY <2>1, <3>1, BuddyAssumed, P!PagesFacts
    <3>3. QED
      BY <3>1, <3>2 DEF IInv, P!IInv, P!FreeDisjoint, P!Disjoint, P!Blocks
  <2>2. \A s \in Zone \X Order : <<p, s[2]>> \notin G
    BY <2>1
  <2>3. QED
    BY <2>2, ListedMember
<1>7. ASSUME NEW k \in Order, k < o
      PROVE  /\ p + Size[k] \in Page /\ ZoneOf[p + Size[k]] = AllocZone
             /\ Lru(p + Size[k]) \in LruPages
             /\ Lru(p + Size[k]) # v
             /\ \A s \in Zone \X Order : Lru(p + Size[k]) \notin E[s]
  <2> DEFINE x == p + Size[k]
  <2>1. x \in Page /\ ZoneOf[x] = AllocZone /\ (\A c \in FreeBlocks : c[1] # x)
        /\ \A a \in ToSet(live) : a[2] = 0 => a[1] # x
    BY <1>7, Interior
  <2> HIDE DEF x
  <2>2. \A s \in Zone \X Order : Lru(x) \notin E[s]
    <3>1. \A s \in Zone \X Order : <<x, s[2]>> \notin G
      BY <2>1
    <3>2. QED
      BY <2>1, <3>1, ListedMember
  <2>3. Lru(x) # v
    <3>1. v = Null \/ \E a \in ToSet(live) : a[2] = 0 /\ v = Lru(a[1])
      BY DEF IInv, SpareEntry
    <3>2. QED
      BY <2>1, <3>1 DEF Lru, Null
  <2>4. QED
    BY <2>1, <2>2, <2>3 DEF LruPages, x
<1>8. /\ Family(Expand(L, p, n, o), Grown(E, n - 1, o, p))
      /\ Expand(L, p, n, o).prev[Spare] = IF n = 0 THEN Lru(p) ELSE L.prev[Spare]
  <2> HIDE DEF L, E, v
  <2>1. QED
    BY <1>2, <1>3, <1>5, <1>6, <1>7, ExpandFamily
<1>9. Grown(E, n - 1, o, p) = Listed(G \cup Halves(n, o, p))
  BY <1>7, ListedGrown
<1>10. G \cup Halves(n, o, p) \in SUBSET (Page \X Order)
  BY <1>7, FreeType DEF Halves
<1>11. QED
  BY <1>3, <1>8, <1>9, <1>10 DEF LinksAfter

(* __rmqueue and expand count what they move.                                *)
LEMMA AllocCounts ==
  ASSUME IInv, NEW n \in Order, NEW o \in Order, NEW p \in Page, n <= o,
         <<p, o>> \in FreeBlocks, ZoneOf[p] = AllocZone, Rmqueue(n, o, p),
         FreeBlocks' = (FreeBlocks \ {<<p, o>>}) \cup Halves(n, o, p)
  PROVE  Counts'
<1> DEFINE b == <<p, o>>
           F == FreeBlocks
           G == F \ {b}
           d(k) == (IF k \in n - 1 .. o - 1 THEN 1 ELSE 0) - (IF k = o THEN 1 ELSE 0)
<1>1. nrFree \in [Zone -> [List -> Int]] /\ AllocZone \in Zone
  BY SizeStep DEF IInv, Counts
<1>2. nrFree' = [nrFree EXCEPT ![AllocZone] = [k \in List |->
         @[k] + (IF k \in n - 1 .. o - 1 THEN 1 ELSE 0) - (IF k = o THEN 1 ELSE 0)]]
  BY DEF Rmqueue
<1>3. \A z \in Zone, k \in List : nrFree'[z][k] = nrFree[z][k] + (IF z = AllocZone THEN d(k) ELSE 0)
  <2>1. \A k \in List : nrFree'[AllocZone][k] = nrFree[AllocZone][k]
          + (IF k \in n - 1 .. o - 1 THEN 1 ELSE 0) - (IF k = o THEN 1 ELSE 0)
    BY <1>1, <1>2
  <2>2. \A k \in List : nrFree[AllocZone][k] \in Int
    BY <1>1
  <2>3. \A k \in List : nrFree'[AllocZone][k] = nrFree[AllocZone][k] + d(k)
    BY <2>1, <2>2
  <2>4. \A z \in Zone, k \in List : nrFree[z][k] \in Int
    BY <1>1
  <2>5. \A z \in Zone : z # AllocZone => nrFree'[z] = nrFree[z]
    BY <1>1, <1>2
  <2>6. QED
    BY <2>3, <2>4, <2>5
<1>4. nrFree' \in [Zone -> [List -> Int]]
  <2>1. [k \in List |-> nrFree[AllocZone][k] + (IF k \in n - 1 .. o - 1 THEN 1 ELSE 0)
           - (IF k = o THEN 1 ELSE 0)] \in [List -> Int]
    BY <1>1
  <2>2. QED
    BY <1>1, <1>2, <2>1
<1>5. \A k \in Order : k < o => /\ p + Size[k] \in Page /\ ZoneOf[p + Size[k]] = AllocZone
                                /\ \A c \in F : c[1] # p + Size[k]
  BY Interior
<1>6. ASSUME NEW z \in Zone, NEW k \in Order
      PROVE  nrFree'[z][k] = Cardinality(Listed(FreeBlocks')[<<z, k>>])
  <2> DEFINE s == <<z, k>>
             S == Listed(G)[s]
  <2>1. /\ s \in Zone \X Order /\ s[1] = z /\ s[2] = k /\ k \in List /\ k \in Nat
        /\ n \in Nat /\ o \in Nat
        /\ nrFree[z][k] = Cardinality(Listed(F)[s]) /\ Cardinality(Listed(F)[s]) \in Nat
    BY SizeStep, ListedFinite DEF IInv, Counts, Order, List
  <2>2. Cardinality(S) = Cardinality(Listed(F)[s]) - (IF s = <<AllocZone, o>> THEN 1 ELSE 0)
    BY <2>1, CountDel
  <2>3. Listed(FreeBlocks')[s] = S \cup Given(n - 1, o, p, s)
    <3>1. Grown(Listed(G), n - 1, o, p) = Listed(G \cup Halves(n, o, p))
      BY <1>5, ListedGrown
    <3>2. Grown(Listed(G), n - 1, o, p)[s] = Listed(G)[s] \cup Given(n - 1, o, p, s)
      BY <2>1 DEF Grown
    <3>3. FreeBlocks' = G \cup Halves(n, o, p)
      OBVIOUS
    <3> HIDE DEF G, s
    <3>4. QED
      BY <3>1, <3>2, <3>3
  <2>4. IsFiniteSet(S) /\ Cardinality(S) \in Nat
    BY <2>1, ListedFinite
  <2> DEFINE in == z = AllocZone /\ n - 1 <= k /\ k < o
  <2>5. in => Given(n - 1, o, p, s) = {Lru(p + Size[k])} /\ Lru(p + Size[k]) \notin S
    <3>1. in => Given(n - 1, o, p, s) = {Lru(p + Size[k])}
      BY <2>1 DEF Given
    <3>2. ASSUME in
          PROVE  Lru(p + Size[k]) \notin S
      <4>1. p + Size[k] \in Page /\ <<p + Size[k], k>> \notin G
        BY <1>5, <3>2
      <4>2. QED
        BY <2>1, <4>1, ListedMember
    <3>3. QED
      BY <3>1, <3>2
  <2>6. ~in => Given(n - 1, o, p, s) = {}
    BY <2>1 DEF Given
  <2>7. k \in n - 1 .. o - 1 <=> n - 1 <= k /\ k < o
    BY <2>1
  <2>8. nrFree'[z][k] = nrFree[z][k] + (IF z = AllocZone THEN d(k) ELSE 0)
    BY <1>3, <2>1
  <2>9. Cardinality(Listed(FreeBlocks')[s]) = Cardinality(S) + (IF in THEN 1 ELSE 0)
    <3> HIDE DEF S, s
    <3>1. CASE in
      <4>1. Cardinality(S \cup {Lru(p + Size[k])}) = Cardinality(S) + 1
        BY <2>4, <2>5, <3>1, FS_AddElement
      <4>2. QED
        BY <2>3, <2>5, <3>1, <4>1
    <3>2. CASE ~in
      <4>1. S \cup {} = S
        OBVIOUS
      <4>2. Listed(FreeBlocks')[s] = S
        BY <2>3, <2>6, <3>2, <4>1
      <4>3. QED
        BY <2>4, <3>2, <4>2
    <3>3. QED
      BY <3>1, <3>2
  <2>10. s = <<AllocZone, o>> <=> z = AllocZone /\ k = o
    OBVIOUS
  <2>11. IF z = AllocZone THEN d(k) = (IF in THEN 1 ELSE 0) - (IF k = o THEN 1 ELSE 0) ELSE ~in
    BY <2>7
  <2> HIDE DEF S, s, in, d
  <2>12. nrFree'[z][k] = Cardinality(Listed(FreeBlocks')[s])
    BY <2>1, <2>2, <2>4, <2>8, <2>9, <2>10, <2>11
  <2>13. QED
    BY <2>12 DEF s
<1>7. QED
  BY <1>4, <1>6 DEF Counts

LEMMA AllocPrivate ==
  ASSUME NEW n \in Order, NEW o \in Order, NEW p \in Page, n <= o, Rmqueue(n, o, p)
  PROVE  private' = [q \in 0 .. Described |->
           IF \E c \in P!SecondHalves(<<p, o>>, n) : c[1] = q THEN q - p
           ELSE IF n = 0 /\ q = p THEN 0 ELSE private[q]]
<1>1. n \in Nat /\ o \in Nat /\ p \in Nat
  BY SizeStep DEF Page
<1>2. ASSUME NEW q \in 0 .. Described
      PROVE  (\E j \in n - 1 .. o - 1 : q = p + HalfSize(j)) <=>
               (\E c \in P!SecondHalves(<<p, o>>, n) : c[1] = q) \/ (n = 0 /\ q = p)
  <2>1. \A j : j \in n - 1 .. o - 1 <=> (j \in Order /\ n - 1 <= j /\ j < o) \/ (n = 0 /\ j = -1)
    <3>1. \A j \in Order : j \in Int /\ 0 <= j
      BY SizeStep
    <3>2. \A j \in n - 1 .. o - 1 : j = -1 \/ j \in Order
      BY <1>1, SizeStep
    <3>3. -1 \notin Order
      BY SizeStep
    <3>4. \A j \in Int : j \in n - 1 .. o - 1 <=> n - 1 <= j /\ j < o
      BY <1>1
    <3>5. -1 \in Int /\ (n - 1 <= -1 <=> n = 0) /\ -1 < o
      BY <1>1
    <3>6. n - 1 .. o - 1 \subseteq Int
      BY <1>1
    <3>7. QED
      BY <3>1, <3>2, <3>3, <3>4, <3>5, <3>6
  <2>2. HalfSize(-1) = 0 /\ p + 0 = p
    BY <1>1 DEF HalfSize
  <2>3. \A j \in Order : HalfSize(j) = Size[j]
    BY SizeStep
  <2>4. (\E c \in P!SecondHalves(<<p, o>>, n) : c[1] = q) <=>
          \E j \in Order : n - 1 <= j /\ j < o /\ q = p + Size[j]
    <3>1. P!SecondHalves(<<p, o>>, n) =
            {<<p + Size[j], j>> : j \in {i \in Order : n - 1 <= i /\ i < o}}
      BY SameGuards DEF P!SecondHalves
    <3> DEFINE H == {<<p + Size[j], j>> : j \in {i \in Order : n - 1 <= i /\ i < o}}
    <3>2. (\E c \in H : c[1] = q) <=>
            \E j \in Order : n - 1 <= j /\ j < o /\ q = p + Size[j]
      <4> DEFINE J == {i \in Order : n - 1 <= i /\ i < o}
      <4>1. \A j : <<p + Size[j], j>>[1] = p + Size[j]
        OBVIOUS
      <4>2. \A c \in H : \E j \in J : c = <<p + Size[j], j>>
        OBVIOUS
      <4>3. \A j \in J : <<p + Size[j], j>> \in H
        OBVIOUS
      <4>4. \A j : j \in J <=> j \in Order /\ n - 1 <= j /\ j < o
        OBVIOUS
      <4> HIDE DEF H, J
      <4>5. ASSUME NEW c \in H, c[1] = q
            PROVE  \E j \in Order : n - 1 <= j /\ j < o /\ q = p + Size[j]
        <5>1. PICK j \in J : c = <<p + Size[j], j>>
          BY <4>2
        <5>2. q = p + Size[j]
          BY <4>1, <4>5, <5>1
        <5>3. QED
          BY <4>4, <5>2
      <4>6. ASSUME NEW j \in Order, n - 1 <= j, j < o, q = p + Size[j]
            PROVE  \E c \in H : c[1] = q
        <5>1. <<p + Size[j], j>> \in H
          BY <4>3, <4>4, <4>6
        <5>2. <<p + Size[j], j>>[1] = q
          BY <4>1, <4>6
        <5>3. QED
          BY <5>1, <5>2
      <4>7. QED
        BY <4>5, <4>6
    <3>3. P!SecondHalves(<<p, o>>, n) = H
      BY <3>1
    <3> HIDE DEF H
    <3>4. QED
      BY <3>2, <3>3
  <2>5. QED
    BY <2>1, <2>2, <2>3, <2>4
<1>3. private' = [q \in 0 .. Described |->
         IF \E j \in n - 1 .. o - 1 : q = p + HalfSize(j) THEN q - p ELSE private[q]]
  BY DEF Rmqueue
<1>4. \A q \in 0 .. Described : q = p => q - p = 0
  BY <1>1
<1>5. ASSUME NEW q \in 0 .. Described
      PROVE  (IF \E j \in n - 1 .. o - 1 : q = p + HalfSize(j) THEN q - p ELSE private[q]) =
             (IF \E c \in P!SecondHalves(<<p, o>>, n) : c[1] = q THEN q - p
              ELSE IF n = 0 /\ q = p THEN 0 ELSE private[q])
  BY <1>2, <1>4
<1>6. QED
  BY <1>3, <1>5

LEMMA AllocRefines ==
  ASSUME IInv, NEW n \in Order, AllocPages(n)
  PROVE  P!Alloc(n) /\ IInv'
<1>1. PICK o \in n .. MaxOrder - 1, p \in Page :
        /\ FirstUsed(n, o) /\ links.next[AreaHead(AllocZone, o)] = Lru(p)
        /\ Rmqueue(n, o, p)
        /\ links' = LinksAfter(n, o, p)
        /\ live' = Append(live, <<p, n>>)
  BY DEF AllocPages
<1>2. /\ Ready /\ UNCHANGED <<layout, pfn, reserved, merging>>
  BY DEF AllocPages, boot
<1> DEFINE b == <<p, o>>
           G == (FreeBlocks \ {b}) \cup Halves(n, o, p)
<1>3. o \in Order /\ n <= o /\ b \in P!Candidates(n) /\ \A c \in P!Candidates(n) : o <= c[2]
  BY <1>1, Taken DEF Takes
<1>4. b \in FreeBlocks /\ ZoneOf[p] = AllocZone
  BY <1>3 DEF P!Candidates
<1>5. /\ Family(links', Listed(G)) /\ G \in SUBSET (Page \X Order)
      /\ links'.prev[Spare] = IF n = 0 THEN Lru(p) ELSE links.prev[Spare]
  BY <1>1, <1>3, <1>4, AllocLinks
<1>6. FreeBlocks' = G
  <2> HIDE DEF G
  <2>1. QED
    BY <1>5, FreeIsNext
<1>7. /\ ToSet(live)' = ToSet(live) \cup {<<p, n>>}
      /\ Lives'
  <2>1. live \in Seq(Page \X Order) /\ <<p, n>> \in Page \X Order
    BY DEF IInv, Lives
  <2>2. live' \in Seq(Page \X Order)
    BY <1>1, <2>1, AppendProperties
  <2>3. /\ DOMAIN live = 1 .. Len(live) /\ DOMAIN live' = 1 .. Len(live) + 1
        /\ Len(live) \in Nat
        /\ \A i \in 1 .. Len(live) : live'[i] = live[i]
        /\ live'[Len(live) + 1] = <<p, n>>
    BY <1>1, <2>1, <2>2, AppendProperties, LenProperties
  <2>4. 1 .. Len(live) + 1 = (1 .. Len(live)) \cup {Len(live) + 1}
    BY <2>3
  <2>5. {live'[i] : i \in DOMAIN live'} = {live[i] : i \in DOMAIN live} \cup {<<p, n>>}
    BY <2>3, <2>4, SMTT(30)
  <2>6. QED
    BY <2>2, <2>5 DEF Lives, ToSet
<1>8. Halves(n, o, p) = P!SecondHalves(b, n)
  BY SameGuards DEF Halves, P!SecondHalves
<1>9. private' = [q \in 0 .. Described |->
         IF \E c \in P!SecondHalves(b, n) : c[1] = q THEN q - b[1]
         ELSE IF n = 0 /\ q = b[1] THEN 0 ELSE private[q]]
  BY <1>1, <1>3, AllocPrivate
<1>10. P!Alloc(n)
  <2>1. P!Booted
    BY <1>2 DEF Ready, P!Booted
  <2>2. FreeBlocks' = (FreeBlocks \ {b}) \cup P!SecondHalves(b, n)
    BY <1>6, <1>8
  <2>3. ToSet(live)' = ToSet(live) \cup {<<b[1], n>>} /\ b[2] = o
    BY <1>7
  <2> HIDE DEF b
  <2>4. QED
    BY <1>2, <1>3, <1>9, <2>1, <2>2, <2>3 DEF P!Alloc
<1>11. P!IInv'
  BY <1>10, BuddyAssumed, SameGuards, P!AllocStep DEF IInv
<1>12. Counts'
  BY <1>1, <1>3, <1>4, <1>6, AllocCounts
<1>13. SpareEntry'
  <2>1. CASE n = 0
    BY <1>5, <1>7, <2>1 DEF SpareEntry
  <2>2. CASE n # 0
    BY <1>5, <1>7, <2>2 DEF SpareEntry, IInv
  <2>3. QED
    BY <2>1, <2>2
<1>14. FreeLists'
  BY <1>5, <1>6 DEF FreeLists
<1>15. QED
  BY <1>7, <1>10, <1>11, <1>12, <1>13, <1>14 DEF IInv

LEMMA AllocFailsRefines ==
  ASSUME IInv, NEW n \in Order, AllocFails(n)
  PROVE  P!AllocFails(n)
<1>1. P!Candidates(n) = {}
  <2> SUFFICES ASSUME NEW c \in P!Candidates(n) PROVE FALSE
    OBVIOUS
  <2>1. c \in FreeBlocks /\ c[2] >= n /\ ZoneOf[c[1]] = AllocZone
    BY DEF P!Candidates
  <2> DEFINE k == c[2]
             s == <<AllocZone, k>>
  <2>2. /\ c[1] \in Page /\ k \in Order /\ c = <<c[1], k>> /\ s \in Zone \X Order
        /\ s[1] = AllocZone /\ s[2] = k
    BY <2>1, FreeType, SizeStep
  <2>3. Lru(c[1]) \in Listed(FreeBlocks)[s]
    BY <2>1, <2>2, ListedMember
  <2>4. Ring(links, AreaHead(AllocZone, k), Listed(FreeBlocks)[s])
    BY <2>2 DEF IInv, FreeLists, Family
  <2> HIDE DEF s, k
  <2>5. ~Empty(links, AreaHead(AllocZone, k))
    BY <2>3, <2>4, RingFacts
  <2>6. k \in n .. MaxOrder - 1
    BY <2>1, <2>2, PageSet, SizeStep DEF k
  <2>7. QED
    BY <2>5, <2>6 DEF AllocFails, HasBlock
<1>2. UNCHANGED <<layout, pfn, reserved, private, merging, links, live>>
  BY DEF AllocFails, vars, boot, lists
<1>3. FreeBlocks' = FreeBlocks /\ ToSet(live)' = ToSet(live)
  BY <1>2 DEF FreeBlocks, OnList
<1>4. QED
  BY <1>1, <1>2, <1>3 DEF AllocFails, Ready, P!AllocFails, P!Booted, P!vars

LEMMA StutterRefines == IInv /\ UNCHANGED vars => UNCHANGED P!vars /\ IInv'
<1> SUFFICES ASSUME IInv, UNCHANGED vars PROVE UNCHANGED P!vars /\ IInv'
  OBVIOUS
<1>1. UNCHANGED <<layout, pfn, reserved, private, merging, links, nrFree, live>>
  BY DEF vars, boot, lists
<1>2. /\ FreeBlocks' = FreeBlocks /\ ToSet(live)' = ToSet(live)
      /\ FreeLists' /\ Counts' /\ SpareEntry' /\ Lives'
  BY <1>1, SameLists DEF IInv
<1>3. UNCHANGED P!vars
  BY <1>1, <1>2 DEF P!vars
<1>4. P!IInv'
  BY <1>3, BuddyAssumed, P!StutterStep DEF IInv
<1>5. QED
  BY <1>2, <1>3, <1>4 DEF IInv

LEMMA StepRefines == IInv /\ [Next]_vars => [P!Next]_P!vars /\ IInv'
<1> SUFFICES ASSUME IInv, [Next]_vars PROVE [P!Next]_P!vars /\ IInv'
  OBVIOUS
<1>1. CASE Reserve
  BY <1>1, ReserveRefines DEF P!Next
<1>2. CASE FreePage
  BY <1>2, FreePageRefines DEF P!Next
<1>3. CASE Merge
  BY <1>3, MergeRefines DEF P!Next
<1>4. CASE Settle
  BY <1>4, SettleRefines DEF P!Next
<1>5. ASSUME NEW n \in Order, AllocPages(n)
      PROVE  [P!Next]_P!vars /\ IInv'
  BY <1>5, AllocRefines, SameGuards DEF P!Next
<1>6. ASSUME NEW n \in Order, AllocFails(n)
      PROVE  [P!Next]_P!vars /\ IInv'
  <2>1. P!AllocFails(n)
    BY <1>6, AllocFailsRefines
  <2>2. IInv'
    BY <1>6, StutterRefines DEF AllocFails
  <2>3. QED
    BY <2>1, <2>2, SameGuards DEF P!Next
<1>7. CASE UNCHANGED vars
  BY <1>7, StutterRefines
<1>8. QED
  BY <1>1, <1>2, <1>3, <1>4, <1>5, <1>6, <1>7 DEF Next

-----------------------------------------------------------------------------
(* The invariant holds in every state of every behaviour of the allocator.   *)
THEOREM Inductive == ASSUME P!ZeroedJunk PROVE Spec => []IInv
<1>1. Init => IInv
  BY InitStep
<1>2. IInv /\ [Next]_vars => IInv'
  BY StepRefines
<1>3. QED
  BY <1>1, <1>2, PTL DEF Spec

(* Whatever the boot loop and the clients do, every free list is a ring      *)
(* through its head, no page is on two lists, and nr_free counts the entries *)
(* (list_del and list_add of __free_pages, __rmqueue and expand).            *)
THEOREM ListsStaySound == ASSUME P!ZeroedJunk PROVE Spec => []ListsSound
<1>1. IInv => ListsSound
  <2> SUFFICES ASSUME IInv, NEW z \in Zone, NEW k \in Order
               PROVE  /\ OnList(z, k) \subseteq {Lru(p) : p \in Page}
                      /\ \A n \in OnList(z, k) \cup {AreaHead(z, k)} :
                           links.prev[links.next[n]] = n
                      /\ nrFree[z][k] = Cardinality(OnList(z, k))
                      /\ \A y \in Zone, j \in Order :
                           <<y, j>> # <<z, k>> => OnList(z, k) \cap OnList(y, j) = {}
    BY DEF ListsSound
  <2> DEFINE E == Listed(FreeBlocks)
             r == <<z, k>>
  <2>1. \A y \in Zone, j \in Order : OnList(y, j) = E[<<y, j>>]
    <3>1. Family(links, E)
      BY DEF IInv, FreeLists
    <3>2. \A y \in Zone, j \in Order : Entries(links, AreaHead(y, j)) = E[<<y, j>>]
      BY <3>1, ListedWalk
    <3>3. QED
      BY <3>2 DEF OnList
  <2>2. r \in Zone \X Order /\ r[1] = z /\ r[2] = k
    OBVIOUS
  <2>3. Family(links, E)
    BY DEF IInv, FreeLists
  <2>4. nrFree[z][k] = Cardinality(E[r])
    BY DEF IInv, Counts
  <2> HIDE DEF E
  <2>5. /\ E[r] \subseteq LruPages /\ Ring(links, AreaHead(z, k), E[r])
        /\ \A y \in Zone, j \in Order : <<y, j>> # r => E[r] \cap E[<<y, j>>] = {}
    BY <2>2, <2>3 DEF Family
  <2>6. \A n \in E[r] \cup {AreaHead(z, k)} : links.prev[links.next[n]] = n
    BY <2>5, RingFacts
  <2>7. OnList(z, k) = E[r]
    BY <2>1
  <2> HIDE DEF r
  <2>8. \A y \in Zone, j \in Order : <<y, j>> # r => OnList(z, k) \cap OnList(y, j) = {}
    BY <2>1, <2>5, <2>7
  <2>9. QED
    BY <2>4, <2>5, <2>6, <2>7, <2>8 DEF LruPages, r
<1>2. QED
  BY <1>1, Inductive, PTL

(* The linked lists implement the sets of blocks of module Buddy: every step *)
(* of the boot loop, of __free_pages and of __alloc_pages is one of Buddy's. *)
(* All that BuddyProofs shows of the sets then holds of the lists.           *)
THEOREM ListsImplementSets == ASSUME P!ZeroedJunk PROVE Spec => ImplementsBuddy
<1>1. Init => B!Init
  BY InitStep, SameSpec
<1>2. IInv /\ [Next]_vars => [B!Next]_B!vars
  <2>1. IInv /\ [Next]_vars => (P!Next \/ P!vars' = P!vars)
    BY StepRefines
  <2>2. B!vars = P!vars /\ B!vars' = P!vars'
    BY SameSpec DEF B!vars, P!vars
  <2>3. QED
    BY <2>1, <2>2, SameSpec
<1>3. QED
  BY <1>1, <1>2, Inductive, PTL DEF Spec, ImplementsBuddy, B!Spec
===============================================================================
