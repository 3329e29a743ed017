----------------------------- MODULE SlubProofs -----------------------------
(* The slab allocator, for every number of slabs and of objects in one: the  *)
(* lists it can reach are chains that end, no object on them is in use, and  *)
(* a slab is in one place.  After it kmalloc and kfree, which are of the same *)
(* file, for every size of pages and pointers: blocks share no byte, and     *)
(* kfree gives back what kmalloc took.                                       *)
EXTENDS Slub, Kmalloc, SequenceTheorems, FiniteSetTheorems, TLAPS

-----------------------------------------------------------------------------
(* Chains.  The nodes of T that a list with the links l and the head h has,  *)
(* one after the other.                                                      *)
Path(T, l, h, n, q) ==
  /\ \A i \in 1 .. n : q[i] \in T
  /\ \A i, j \in 1 .. n : q[i] = q[j] => i = j
  /\ h = IF n = 0 THEN Null ELSE q[1]
  /\ \A i \in 1 .. n : l[q[i]] = IF i = n THEN Null ELSE q[i + 1]
Linked(T, l, h, C) ==
  \E n \in Nat : \E q \in [1 .. n -> T] : Path(T, l, h, n, q) /\ C = {q[i] : i \in 1 .. n}

(* The walk from h, of N steps, as Walk and PartialList define it.           *)
WalkOf(N, l, h) ==
  LET w[n \in 0 .. N] ==
        IF n = 0 THEN h ELSE IF w[n - 1] = Null THEN Null ELSE l[w[n - 1]]
  IN  w
Walks(f, N, l, h) ==
  f = [n \in 0 .. N |-> IF n = 0 THEN h ELSE IF f[n - 1] = Null THEN Null ELSE l[f[n - 1]]]

(* A set of numbers has a least one.  (Induction over Nat, for the provers.) *)
LEMMA Least ==
  ASSUME NEW T \in SUBSET Nat, NEW t \in T
  PROVE  \E x \in T : \A y \in T : x <= y
<1> DEFINE R == StrictSubsetOrdering(Nat)
           F == {0 .. x : x \in T}
<1>1. IsWellFoundedOn(R, FiniteSubsetsOf(Nat))
  BY FS_StrictSubsetOrderingWellFounded
<1>2. F \subseteq FiniteSubsetsOf(Nat) /\ F # {}
  <2>1. \A x \in T : IsFiniteSet(0 .. x) /\ 0 .. x \in SUBSET Nat
    BY FS_Interval
  <2>2. QED
    BY <2>1 DEF FiniteSubsetsOf
<1>3. \E f \in F : \A g \in F : <<g, f>> \notin R
  <2> HIDE DEF R, F
  <2>1. QED
    BY <1>1, <1>2, WFMin
<1>4. PICK x \in T : \A y \in T : <<0 .. y, 0 .. x>> \notin R
  BY <1>3
<1>5. ASSUME NEW y \in T, y < x
      PROVE  FALSE
  <2>1. 0 .. y \in SUBSET Nat /\ 0 .. x \in SUBSET Nat /\ 0 .. y \subseteq 0 .. x
    BY <1>5
  <2>2. x \in 0 .. x /\ x \notin 0 .. y
    BY <1>5
  <2>3. <<0 .. y, 0 .. x>> \in R
    BY <2>1, <2>2 DEF StrictSubsetOrdering
  <2>4. QED
    BY <1>4, <2>3
<1>6. QED
  BY <1>4, <1>5

LEMMA OneWalk ==
  ASSUME NEW N \in Nat, NEW l, NEW h, NEW f, NEW g, Walks(f, N, l, h), Walks(g, N, l, h)
  PROVE  f = g
<1> DEFINE T == {i \in 0 .. N : f[i] # g[i]}
<1>0. f = [i \in 0 .. N |-> f[i]] /\ g = [i \in 0 .. N |-> g[i]]
  BY Zenon DEF Walks
<1>1. SUFFICES ASSUME T # {} PROVE FALSE
  <2>1. T = {} => f = g
    BY <1>0
  <2>2. QED
    BY <2>1
<1>2. PICK t \in T : \A y \in T : t <= y
  <2>1. T \in SUBSET Nat
    OBVIOUS
  <2>2. PICK t0 \in T : TRUE
    BY <1>1
  <2> HIDE DEF T
  <2>3. QED
    BY <2>1, <2>2, Least
<1>3. t \in 0 .. N /\ t # 0 /\ f[t] # g[t]
  BY DEF Walks
<1>4. t - 1 \in 0 .. N /\ t - 1 \notin T
  BY <1>2, <1>3
<1>5. f[t - 1] = g[t - 1]
  BY <1>4
<1> HIDE DEF T
<1>6. /\ f[t] = IF f[t - 1] = Null THEN Null ELSE l[f[t - 1]]
      /\ g[t] = IF g[t - 1] = Null THEN Null ELSE l[g[t - 1]]
  BY <1>3 DEF Walks
<1>7. QED
  BY <1>3, <1>5, <1>6

(* There is a walk of every number of steps, of a list that ends or not.     *)
LEMMA SomeWalk ==
  ASSUME NEW N \in Nat, NEW l, NEW h
  PROVE  \E f : Walks(f, N, l, h)
<1> DEFINE T == {n \in Nat : ~\E f : Walks(f, n, l, h)}
<1>1. SUFFICES ASSUME T # {} PROVE FALSE
  OBVIOUS
<1>2. PICK t \in T : \A y \in T : t <= y
  <2>1. T \in SUBSET Nat
    OBVIOUS
  <2>2. PICK t0 \in T : TRUE
    BY <1>1
  <2> HIDE DEF T
  <2>3. QED
    BY <2>1, <2>2, Least
<1>3. t # 0
  <2>1. Walks([n \in 0 .. 0 |-> h], 0, l, h)
    BY DEF Walks
  <2>2. QED
    BY <2>1
<1>4. t - 1 \in Nat /\ t - 1 \notin T
  BY <1>2, <1>3
<1>5. PICK f : Walks(f, t - 1, l, h)
  BY <1>4
<1> DEFINE x == IF f[t - 1] = Null THEN Null ELSE l[f[t - 1]]
           g == [n \in 0 .. t |-> IF n = t THEN x ELSE f[n]]
<1>6. Walks(g, t, l, h)
  <2>1. ASSUME NEW n \in 0 .. t
        PROVE  g[n] = IF n = 0 THEN h ELSE IF g[n - 1] = Null THEN Null ELSE l[g[n - 1]]
    <3>1. CASE n = t
      <4>1. g[n] = x /\ g[n - 1] = f[t - 1]
        BY <1>3, <3>1
      <4>2. QED
        BY <1>3, <3>1, <4>1
    <3>2. CASE n # t
      <4>1. n \in 0 .. t - 1 /\ g[n] = f[n]
        BY <3>2
      <4>2. n # 0 => g[n - 1] = f[n - 1]
        BY <4>1
      <4>3. f[n] = IF n = 0 THEN h ELSE IF f[n - 1] = Null THEN Null ELSE l[f[n - 1]]
        BY <1>5, <4>1 DEF Walks
      <4>4. QED
        BY <4>1, <4>2, <4>3
    <3>3. QED
      BY <3>1, <3>2
  <2>2. g = [n \in 0 .. t |-> g[n]]
    OBVIOUS
  <2> HIDE DEF g
  <2>3. QED
    BY <2>1, <2>2 DEF Walks
<1>7. QED
  BY <1>2, <1>6

LEMMA WalkIs ==
  ASSUME NEW N \in Nat, NEW l, NEW h
  PROVE  Walks(WalkOf(N, l, h), N, l, h)
<1> DEFINE w == CHOOSE f : Walks(f, N, l, h)
<1>1. Walks(w, N, l, h)
  <2>1. PICK f : Walks(f, N, l, h)
    BY SomeWalk
  <2>2. QED
    BY <2>1
<1>2. WalkOf(N, l, h) = w
  BY DEF WalkOf, Walks
<1>3. QED
  BY <1>1, <1>2

-----------------------------------------------------------------------------
(* A chain of nodes of a finite T is walked within as many steps as T has    *)
(* nodes: the walk meets its nodes and then stays at the null pointer.       *)
LEMMA PathLength ==
  ASSUME NEW T, IsFiniteSet(T), NEW n \in Nat, NEW q \in [1 .. n -> T], NEW l, NEW h,
         Path(T, l, h, n, q)
  PROVE  n <= Cardinality(T)
<1>1. q \in Injection(1 .. n, T)
  BY DEF Path, Injection, IsInjective
<1>2. Cardinality(1 .. n) = n
  BY FS_Interval
<1>3. QED
  BY <1>1, <1>2, FS_Injection

LEMMA PathWalk ==
  ASSUME NEW T, IsFiniteSet(T), Null \notin T, NEW N \in Nat, Cardinality(T) <= N,
         NEW n \in Nat, NEW q \in [1 .. n -> T], NEW l, NEW h, Path(T, l, h, n, q)
  PROVE  /\ n <= N
         /\ WalkOf(N, l, h) = [i \in 0 .. N |-> IF i < n THEN q[i + 1] ELSE Null]
<1> DEFINE f == [i \in 0 .. N |-> IF i < n THEN q[i + 1] ELSE Null]
<1>1. n <= N
  BY PathLength, FS_CardinalityType
<1>2. ASSUME NEW i \in 0 .. N
      PROVE  f[i] = IF i = 0 THEN h ELSE IF f[i - 1] = Null THEN Null ELSE l[f[i - 1]]
  <2>1. CASE i = 0
    BY <1>1, <2>1 DEF Path
  <2>2. CASE i # 0 /\ i - 1 < n
    <3>1. i \in 1 .. n /\ f[i - 1] = q[i] /\ q[i] \in T
      BY <2>2
    <3>2. l[q[i]] = IF i = n THEN Null ELSE q[i + 1]
      BY <3>1 DEF Path
    <3>3. f[i] = IF i = n THEN Null ELSE q[i + 1]
      BY <3>1
    <3>4. QED
      BY <2>2, <3>1, <3>2, <3>3
  <2>3. CASE i # 0 /\ ~(i - 1 < n)
    <3>1. f[i] = Null /\ f[i - 1] = Null
      BY <2>3
    <3>2. QED
      BY <2>3, <3>1
  <2>4. QED
    BY <2>1, <2>2, <2>3
<1>3. Walks(f, N, l, h)
  <2>1. f = [i \in 0 .. N |-> f[i]]
    OBVIOUS
  <2> HIDE DEF f
  <2>2. QED
    BY <1>2, <2>1 DEF Walks
<1>4. Walks(WalkOf(N, l, h), N, l, h)
  BY WalkIs
<1>5. WalkOf(N, l, h) = f
  <2> HIDE DEF f
  <2>1. QED
    BY <1>3, <1>4, OneWalk
<1>6. QED
  BY <1>1, <1>5

(* The nodes of the chain are what Chain and PartialList make of the walk.   *)
LEMMA LinkedWalk ==
  ASSUME NEW T, IsFiniteSet(T), Null \notin T, NEW N \in Nat, Cardinality(T) <= N,
         NEW l, NEW h, NEW C, Linked(T, l, h, C)
  PROVE  /\ Range(WalkOf(N, l, h)) \ {Null} = C
         /\ WalkOf(N, l, h)[N] = Null
<1>1. PICK n \in Nat : \E q \in [1 .. n -> T] : Path(T, l, h, n, q) /\ C = {q[i] : i \in 1 .. n}
  BY DEF Linked
<1>2. PICK q \in [1 .. n -> T] : Path(T, l, h, n, q) /\ C = {q[i] : i \in 1 .. n}
  BY <1>1
<1> DEFINE w == WalkOf(N, l, h)
<1>3. n <= N /\ w = [i \in 0 .. N |-> IF i < n THEN q[i + 1] ELSE Null]
  BY <1>2, PathWalk
<1> HIDE DEF w
<1>4. w[N] = Null
  BY <1>3
<1>5. ASSUME NEW x \in C PROVE x \in Range(w) \ {Null}
  <2>1. PICK i \in 1 .. n : x = q[i]
    BY <1>2
  <2>2. i - 1 \in 0 .. N /\ w[i - 1] = x
    BY <1>3, <2>1
  <2>3. x # Null
    BY <2>1
  <2>4. QED
    BY <1>3, <2>2, <2>3 DEF Range
<1>6. ASSUME NEW x \in Range(w) \ {Null} PROVE x \in C
  <2>1. PICK i \in 0 .. N : x = w[i]
    BY <1>3 DEF Range
  <2>2. i < n /\ x = q[i + 1] /\ i + 1 \in 1 .. n
    BY <1>3, <2>1
  <2>3. QED
    BY <1>2, <2>2
<1>7. QED
  BY <1>4, <1>5, <1>6 DEF w

-----------------------------------------------------------------------------
(* What the steps of the allocator make of a chain.                          *)
LEMMA LinkedNodes ==
  ASSUME NEW T, Null \notin T, NEW l, NEW h, NEW C, Linked(T, l, h, C)
  PROVE  /\ C \subseteq T
         /\ h = Null => C = {}
         /\ h # Null => h \in C
<1>1. PICK n \in Nat : \E q \in [1 .. n -> T] : Path(T, l, h, n, q) /\ C = {q[i] : i \in 1 .. n}
  BY DEF Linked
<1>2. PICK q \in [1 .. n -> T] : Path(T, l, h, n, q) /\ C = {q[i] : i \in 1 .. n}
  BY <1>1
<1>3. C \subseteq T
  BY <1>2
<1>4. CASE n = 0
  BY <1>2, <1>3, <1>4 DEF Path
<1>5. CASE n # 0
  <2>1. 1 \in 1 .. n /\ h = q[1] /\ q[1] \in T
    BY <1>2, <1>5 DEF Path
  <2>2. QED
    BY <1>2, <1>3, <2>1
<1>6. QED
  BY <1>4, <1>5

LEMMA LinkedNull ==
  ASSUME NEW T, NEW l
  PROVE  Linked(T, l, Null, {})
<1> DEFINE q == [i \in 1 .. 0 |-> Null]
<1>1. 1 .. 0 = {}
  OBVIOUS
<1>2. q \in [1 .. 0 -> T]
  BY <1>1
<1>3. Path(T, l, Null, 0, q) /\ {} = {q[i] : i \in 1 .. 0}
  BY <1>1 DEF Path
<1> HIDE DEF q
<1>4. QED
  BY <1>2, <1>3 DEF Linked

LEMMA LinkedKept ==
  ASSUME NEW T, NEW l, NEW m, NEW h, NEW C, Linked(T, l, h, C), \A x \in C : m[x] = l[x]
  PROVE  Linked(T, m, h, C)
<1>1. PICK n \in Nat : \E q \in [1 .. n -> T] : Path(T, l, h, n, q) /\ C = {q[i] : i \in 1 .. n}
  BY DEF Linked
<1>2. PICK q \in [1 .. n -> T] : Path(T, l, h, n, q) /\ C = {q[i] : i \in 1 .. n}
  BY <1>1
<1>3. \A i \in 1 .. n : m[q[i]] = l[q[i]]
  BY <1>2
<1>4. Path(T, m, h, n, q)
  BY <1>2, <1>3 DEF Path
<1>5. QED
  BY <1>2, <1>4 DEF Linked

(* The first node is taken off.                                              *)
LEMMA LinkedTail ==
  ASSUME NEW T, Null \notin T, NEW l, NEW h, NEW C, Linked(T, l, h, C), h # Null
  PROVE  Linked(T, l, l[h], C \ {h})
<1>1. PICK n \in Nat : \E q \in [1 .. n -> T] : Path(T, l, h, n, q) /\ C = {q[i] : i \in 1 .. n}
  BY DEF Linked
<1>2. PICK q \in [1 .. n -> T] : Path(T, l, h, n, q) /\ C = {q[i] : i \in 1 .. n}
  BY <1>1
<1>3. n # 0 /\ h = q[1] /\ n - 1 \in Nat
  BY <1>2 DEF Path
<1> DEFINE r == [i \in 1 .. n - 1 |-> q[i + 1]]
<1>4. \A i \in 1 .. n - 1 : i + 1 \in 1 .. n /\ r[i] = q[i + 1]
  BY <1>3
<1>5. r \in [1 .. n - 1 -> T]
  BY <1>3, <1>4
<1> HIDE DEF r
<1>6. Path(T, l, l[h], n - 1, r)
  <2>1. \A i \in 1 .. n - 1 : r[i] \in T
    BY <1>5
  <2>2. ASSUME NEW i \in 1 .. n - 1, NEW j \in 1 .. n - 1, r[i] = r[j]
        PROVE  i = j
    <3>1. i + 1 \in 1 .. n /\ j + 1 \in 1 .. n /\ q[i + 1] = q[j + 1]
      BY <1>4, <2>2
    <3>2. i + 1 = j + 1
      BY <1>2, <3>1 DEF Path
    <3>3. QED
      BY <3>2
  <2>3. l[h] = IF n - 1 = 0 THEN Null ELSE r[1]
    <3>1. l[q[1]] = IF 1 = n THEN Null ELSE q[2]
      <4>1. 1 \in 1 .. n
        BY <1>3
      <4>2. QED
        BY <1>2, <4>1 DEF Path
    <3>2. n - 1 # 0 => r[1] = q[2]
      BY <1>3, <1>4
    <3>3. QED
      BY <1>3, <3>1, <3>2
  <2>4. ASSUME NEW i \in 1 .. n - 1
        PROVE  l[r[i]] = IF i = n - 1 THEN Null ELSE r[i + 1]
    <3>1. i + 1 \in 1 .. n /\ r[i] = q[i + 1]
      BY <1>4
    <3>2. l[q[i + 1]] = IF i + 1 = n THEN Null ELSE q[(i + 1) + 1]
      BY <1>2, <3>1 DEF Path
    <3>3. i # n - 1 => r[i + 1] = q[(i + 1) + 1]
      BY <1>3, <1>4
    <3>4. QED
      BY <1>3, <3>1, <3>2, <3>3
  <2>5. QED
    BY <2>1, <2>2, <2>3, <2>4 DEF Path
<1>7. C \ {h} = {r[i] : i \in 1 .. n - 1}
  <2>1. ASSUME NEW x \in C \ {h} PROVE \E i \in 1 .. n - 1 : x = r[i]
    <3>1. PICK i \in 1 .. n : x = q[i]
      BY <1>2
    <3>2. i # 1
      BY <1>3, <3>1
    <3>3. i - 1 \in 1 .. n - 1 /\ r[i - 1] = q[i]
      BY <1>3, <1>4, <3>2
    <3>4. QED
      BY <3>1, <3>3
  <2>2. ASSUME NEW i \in 1 .. n - 1 PROVE r[i] \in C \ {h}
    <3>1. i + 1 \in 1 .. n /\ 1 \in 1 .. n /\ r[i] = q[i + 1]
      BY <1>3, <1>4
    <3>2. q[i + 1] # q[1]
      BY <1>2, <3>1 DEF Path
    <3>3. QED
      BY <1>2, <1>3, <3>1, <3>2
  <2>3. QED
    BY <2>1, <2>2
<1>8. QED
  BY <1>3, <1>5, <1>6, <1>7 DEF Linked

(* A node is put before the first one.                                       *)
LEMMA LinkedPush ==
  ASSUME NEW T, NEW l, NEW m, NEW h, NEW C, Linked(T, l, h, C),
         NEW x \in T \ C, m[x] = h, \A y \in C : m[y] = l[y]
  PROVE  Linked(T, m, x, C \cup {x})
<1>1. PICK n \in Nat : \E q \in [1 .. n -> T] : Path(T, l, h, n, q) /\ C = {q[i] : i \in 1 .. n}
  BY DEF Linked
<1>2. PICK q \in [1 .. n -> T] : Path(T, l, h, n, q) /\ C = {q[i] : i \in 1 .. n}
  BY <1>1
<1> DEFINE r == [i \in 1 .. n + 1 |-> IF i = 1 THEN x ELSE q[i - 1]]
<1>3. /\ 1 \in 1 .. n + 1 /\ r[1] = x
      /\ \A i \in 1 .. n + 1 : i # 1 => i - 1 \in 1 .. n /\ r[i] = q[i - 1]
  OBVIOUS
<1>4. r \in [1 .. n + 1 -> T]
  OBVIOUS
<1> HIDE DEF r
<1>5. \A i \in 1 .. n + 1 : i # 1 => r[i] \in C /\ r[i] # x
  BY <1>2, <1>3
<1>6. Path(T, m, x, n + 1, r)
  <2>1. \A i \in 1 .. n + 1 : r[i] \in T
    BY <1>4
  <2>2. ASSUME NEW i \in 1 .. n + 1, NEW j \in 1 .. n + 1, r[i] = r[j]
        PROVE  i = j
    <3>1. CASE i = 1 \/ j = 1
      BY <1>3, <1>5, <2>2, <3>1
    <3>2. CASE i # 1 /\ j # 1
      <4>1. i - 1 \in 1 .. n /\ j - 1 \in 1 .. n /\ q[i - 1] = q[j - 1]
        BY <1>3, <2>2, <3>2
      <4>2. i - 1 = j - 1
        BY <1>2, <4>1 DEF Path
      <4>3. QED
        BY <4>2
    <3>3. QED
      BY <3>1, <3>2
  <2>3. x = IF n + 1 = 0 THEN Null ELSE r[1]
    BY <1>3
  <2>4. ASSUME NEW i \in 1 .. n + 1
        PROVE  m[r[i]] = IF i = n + 1 THEN Null ELSE r[i + 1]
    <3>1. CASE i = 1
      <4>1. m[r[i]] = IF n = 0 THEN Null ELSE q[1]
        BY <1>2, <1>3, <3>1 DEF Path
      <4>2. n # 0 => r[2] = q[1]
        BY <1>3
      <4>3. QED
        BY <3>1, <4>1, <4>2
    <3>2. CASE i # 1
      <4>1. i - 1 \in 1 .. n /\ r[i] = q[i - 1] /\ r[i] \in C
        BY <1>3, <1>5, <3>2
      <4>2. m[r[i]] = IF i - 1 = n THEN Null ELSE q[(i - 1) + 1]
        BY <1>2, <4>1 DEF Path
      <4>3. i # n + 1 => r[i + 1] = q[(i - 1) + 1]
        BY <1>3, <3>2
      <4>4. QED
        BY <4>2, <4>3
    <3>3. QED
      BY <3>1, <3>2
  <2>5. QED
    BY <2>1, <2>2, <2>3, <2>4 DEF Path
<1>7. C \cup {x} = {r[i] : i \in 1 .. n + 1}
  <2>1. ASSUME NEW y \in C PROVE \E i \in 1 .. n + 1 : y = r[i]
    <3>1. PICK i \in 1 .. n : y = q[i]
      BY <1>2
    <3>2. i + 1 \in 1 .. n + 1 /\ i + 1 # 1 /\ (i + 1) - 1 = i
      OBVIOUS
    <3>3. r[i + 1] = q[i]
      BY <1>3, <3>2
    <3>4. QED
      BY <3>1, <3>2, <3>3
  <2>2. QED
    BY <1>3, <1>5, <2>1
<1>8. n + 1 \in Nat
  OBVIOUS
<1>9. QED
  BY <1>4, <1>6, <1>7, <1>8 DEF Linked
(* A node is put after the node x.                                           *)
LEMMA LinkedInsert ==
  ASSUME NEW T, NEW l, NEW m, NEW h, NEW C, Linked(T, l, h, C),
         NEW x \in C, NEW o \in T \ C, m[x] = o, m[o] = l[x],
         \A y \in C \ {x} : m[y] = l[y]
  PROVE  Linked(T, m, h, C \cup {o})
<1>1. PICK n \in Nat : \E q \in [1 .. n -> T] : Path(T, l, h, n, q) /\ C = {q[i] : i \in 1 .. n}
  BY DEF Linked
<1>2. PICK q \in [1 .. n -> T] : Path(T, l, h, n, q) /\ C = {q[i] : i \in 1 .. n}
  BY <1>1
<1>3. PICK k \in 1 .. n : x = q[k]
  BY <1>2
<1> DEFINE r == [i \in 1 .. n + 1 |-> IF i <= k THEN q[i] ELSE IF i = k + 1 THEN o ELSE q[i - 1]]
<1>4. /\ \A i \in 1 .. n + 1 : i <= k => i \in 1 .. n /\ r[i] = q[i]
      /\ \A i \in 1 .. n + 1 : i > k + 1 => i - 1 \in 1 .. n /\ r[i] = q[i - 1]
      /\ k + 1 \in 1 .. n + 1 /\ r[k + 1] = o
  OBVIOUS
<1>5. r \in [1 .. n + 1 -> T]
  OBVIOUS
<1> HIDE DEF r
<1>6. \A i \in 1 .. n : q[i] \in C /\ q[i] # o
  BY <1>2
<1>7. \A i, j \in 1 .. n : q[i] = q[j] => i = j
  BY <1>2 DEF Path
<1>8. \A i \in 1 .. n : i # k => m[q[i]] = IF i = n THEN Null ELSE q[i + 1]
  <2>1. ASSUME NEW i \in 1 .. n, i # k
        PROVE  m[q[i]] = IF i = n THEN Null ELSE q[i + 1]
    <3>1. q[i] \in C \ {x}
      BY <1>3, <1>6, <1>7, <2>1
    <3>2. l[q[i]] = IF i = n THEN Null ELSE q[i + 1]
      BY <1>2 DEF Path
    <3>3. QED
      BY <3>1, <3>2
  <2>2. QED
    BY <2>1
<1>9. m[o] = IF k = n THEN Null ELSE q[k + 1]
  BY <1>2, <1>3 DEF Path
<1>10. Path(T, m, h, n + 1, r)
  <2>1. \A i \in 1 .. n + 1 : r[i] \in T
    BY <1>5
  <2>2. ASSUME NEW i \in 1 .. n + 1, NEW j \in 1 .. n + 1, r[i] = r[j], i < j
        PROVE  FALSE
    <3>1. CASE j <= k
      <4>1. i <= k
        BY <2>2, <3>1
      <4>2. q[i] = q[j] /\ i \in 1 .. n /\ j \in 1 .. n
        BY <1>4, <2>2, <3>1, <4>1
      <4>3. QED
        BY <1>7, <2>2, <4>2
    <3>2. CASE j = k + 1
      <4>1. i <= k
        BY <2>2, <3>2
      <4>2. r[i] = q[i] /\ i \in 1 .. n /\ r[j] = o
        BY <1>4, <3>2, <4>1
      <4>3. QED
        BY <1>6, <2>2, <4>2
    <3>3. CASE j > k + 1
      <4>1. r[j] = q[j - 1] /\ j - 1 \in 1 .. n
        BY <1>4, <3>3
      <4>2. CASE i <= k
        <5>1. r[i] = q[i] /\ i \in 1 .. n
          BY <1>4, <4>2
        <5>2. i = j - 1
          BY <1>7, <2>2, <4>1, <5>1
        <5>3. QED
          BY <3>3, <4>2, <5>2
      <4>3. CASE i = k + 1
        BY <1>4, <1>6, <2>2, <4>1, <4>3
      <4>4. CASE i > k + 1
        <5>1. r[i] = q[i - 1] /\ i - 1 \in 1 .. n
          BY <1>4, <4>4
        <5>2. i - 1 = j - 1
          BY <1>7, <2>2, <4>1, <5>1
        <5>3. QED
          BY <2>2, <5>2
      <4>5. QED
        BY <4>2, <4>3, <4>4
    <3>4. QED
      BY <3>1, <3>2, <3>3
  <2>3. \A i, j \in 1 .. n + 1 : r[i] = r[j] => i = j
    <3>1. \A i, j \in 1 .. n + 1 : i = j \/ i < j \/ j < i
      OBVIOUS
    <3>2. QED
      BY <2>2, <3>1
  <2>4. h = IF n + 1 = 0 THEN Null ELSE r[1]
    <3>1. 1 \in 1 .. n + 1 /\ 1 <= k /\ n # 0
      BY <1>3
    <3>2. r[1] = q[1]
      BY <1>4, <3>1
    <3>3. QED
      BY <1>2, <3>1, <3>2 DEF Path
  <2>5. ASSUME NEW i \in 1 .. n + 1
        PROVE  m[r[i]] = IF i = n + 1 THEN Null ELSE r[i + 1]
    <3>1. CASE i < k
      <4>1. r[i] = q[i] /\ i \in 1 .. n /\ i # k /\ i # n /\ i # n + 1
        BY <1>4, <3>1
      <4>2. r[i + 1] = q[i + 1]
        BY <1>4, <3>1
      <4>3. QED
        BY <1>8, <4>1, <4>2
    <3>2. CASE i = k
      <4>1. r[i] = x /\ r[i + 1] = o /\ i # n + 1
        BY <1>3, <1>4, <3>2
      <4>2. QED
        BY <4>1
    <3>3. CASE i = k + 1
      <4>1. m[r[i]] = IF k = n THEN Null ELSE q[k + 1]
        BY <1>4, <1>9, <3>3
      <4>2. k # n => r[i + 1] = q[k + 1]
        <5>1. SUFFICES ASSUME k # n PROVE r[i + 1] = q[k + 1]
          OBVIOUS
        <5>2. i + 1 \in 1 .. n + 1 /\ i + 1 > k + 1 /\ (i + 1) - 1 = k + 1
          BY <3>3, <5>1
        <5>3. QED
          BY <1>4, <5>2
      <4>3. QED
        BY <3>3, <4>1, <4>2
    <3>4. CASE i > k + 1
      <4>1. r[i] = q[i - 1] /\ i - 1 \in 1 .. n /\ i - 1 # k
        BY <1>4, <3>4
      <4>2. m[q[i - 1]] = IF i - 1 = n THEN Null ELSE q[(i - 1) + 1]
        BY <1>8, <4>1
      <4>3. i # n + 1 => r[i + 1] = q[(i - 1) + 1]
        <5>1. SUFFICES ASSUME i # n + 1 PROVE r[i + 1] = q[(i - 1) + 1]
          OBVIOUS
        <5>2. i + 1 \in 1 .. n + 1 /\ i + 1 > k + 1 /\ (i + 1) - 1 = (i - 1) + 1
          BY <3>4, <5>1
        <5>3. QED
          BY <1>4, <5>2
      <4>4. QED
        BY <4>1, <4>2, <4>3
    <3>5. QED
      BY <3>1, <3>2, <3>3, <3>4
  <2>6. QED
    BY <2>1, <2>3, <2>4, <2>5 DEF Path
<1>11. C \cup {o} = {r[i] : i \in 1 .. n + 1}
  <2>1. ASSUME NEW y \in C PROVE \E i \in 1 .. n + 1 : y = r[i]
    <3>1. PICK i \in 1 .. n : y = q[i]
      BY <1>2
    <3>2. CASE i <= k
      <4>1. i \in 1 .. n + 1 /\ r[i] = q[i]
        BY <1>4, <3>2
      <4>2. QED
        BY <3>1, <4>1
    <3>3. CASE i > k
      <4>1. i + 1 \in 1 .. n + 1 /\ i + 1 > k + 1 /\ (i + 1) - 1 = i
        BY <3>3
      <4>2. r[i + 1] = q[i]
        BY <1>4, <4>1
      <4>3. QED
        BY <3>1, <4>1, <4>2
    <3>4. QED
      BY <3>2, <3>3
  <2>2. ASSUME NEW i \in 1 .. n + 1 PROVE r[i] \in C \cup {o}
    <3>1. i <= k \/ i = k + 1 \/ i > k + 1
      OBVIOUS
    <3>2. QED
      BY <1>4, <1>6, <3>1
  <2>3. QED
    BY <1>4, <2>1, <2>2
<1>12. n + 1 \in Nat
  OBVIOUS
<1>13. QED
  BY <1>5, <1>10, <1>11, <1>12 DEF Linked

(* A node other than the first is taken out.                                 *)
LEMMA LinkedRemove ==
  ASSUME NEW T, Null \notin T, NEW l, NEW m, NEW h, NEW C, Linked(T, l, h, C),
         NEW x \in C, x # h, \A y \in C : m[y] = IF l[y] = x THEN l[x] ELSE l[y]
  PROVE  Linked(T, m, h, C \ {x})
<1>1. PICK n \in Nat : \E q \in [1 .. n -> T] : Path(T, l, h, n, q) /\ C = {q[i] : i \in 1 .. n}
  BY DEF Linked
<1>2. PICK q \in [1 .. n -> T] : Path(T, l, h, n, q) /\ C = {q[i] : i \in 1 .. n}
  BY <1>1
<1>3. PICK k \in 1 .. n : x = q[k]
  BY <1>2
<1>4. h = q[1] /\ 1 \in 1 .. n /\ k # 1 /\ n - 1 \in Nat
  BY <1>2, <1>3 DEF Path
<1> DEFINE r == [i \in 1 .. n - 1 |-> IF i < k THEN q[i] ELSE q[i + 1]]
<1>5. /\ \A i \in 1 .. n - 1 : i < k => i \in 1 .. n /\ r[i] = q[i]
      /\ \A i \in 1 .. n - 1 : i >= k => i + 1 \in 1 .. n /\ r[i] = q[i + 1]
  OBVIOUS
<1>6. r \in [1 .. n - 1 -> T]
  OBVIOUS
<1> HIDE DEF r
<1>7. \A i, j \in 1 .. n : q[i] = q[j] => i = j
  BY <1>2 DEF Path
<1>8. \A i \in 1 .. n : q[i] \in C /\ q[i] # Null
  BY <1>2
<1>9. \A i \in 1 .. n : l[q[i]] = IF i = n THEN Null ELSE q[i + 1]
  BY <1>2 DEF Path
<1>10. \A i \in 1 .. n : i # k - 1 => m[q[i]] = IF i = n THEN Null ELSE q[i + 1]
  <2>1. ASSUME NEW i \in 1 .. n, i # k - 1
        PROVE  m[q[i]] = IF i = n THEN Null ELSE q[i + 1]
    <3>1. l[q[i]] # x
      <4>1. CASE i = n
        BY <1>3, <1>8, <1>9, <4>1
      <4>2. CASE i # n
        <5>1. i + 1 \in 1 .. n /\ i + 1 # k
          BY <2>1, <4>2
        <5>2. q[i + 1] # q[k]
          BY <1>7, <5>1
        <5>3. QED
          BY <1>3, <1>9, <4>2, <5>2
      <4>3. QED
        BY <4>1, <4>2
    <3>2. QED
      BY <1>8, <1>9, <3>1
  <2>2. QED
    BY <2>1
<1>11. k - 1 \in 1 .. n /\ m[q[k - 1]] = IF k = n THEN Null ELSE q[k + 1]
  <2>1. k - 1 \in 1 .. n /\ k - 1 # n /\ (k - 1) + 1 = k
    BY <1>4
  <2>2. l[q[k - 1]] = x
    BY <1>3, <1>9, <2>1
  <2>3. QED
    BY <1>3, <1>8, <1>9, <2>1, <2>2
<1>12. Path(T, m, h, n - 1, r)
  <2>1. \A i \in 1 .. n - 1 : r[i] \in T
    BY <1>6
  <2>2. ASSUME NEW i \in 1 .. n - 1, NEW j \in 1 .. n - 1, r[i] = r[j], i < j
        PROVE  FALSE
    <3>1. CASE j < k
      <4>1. i \in 1 .. n /\ j \in 1 .. n /\ q[i] = q[j]
        BY <1>5, <2>2, <3>1
      <4>2. QED
        BY <1>7, <2>2, <4>1
    <3>2. CASE j >= k
      <4>1. j + 1 \in 1 .. n /\ r[j] = q[j + 1]
        BY <1>5, <3>2
      <4>2. CASE i < k
        <5>1. i \in 1 .. n /\ r[i] = q[i]
          BY <1>5, <4>2
        <5>2. i = j + 1
          BY <1>7, <2>2, <4>1, <5>1
        <5>3. QED
          BY <2>2, <5>2
      <4>3. CASE i >= k
        <5>1. i + 1 \in 1 .. n /\ r[i] = q[i + 1]
          BY <1>5, <4>3
        <5>2. i + 1 = j + 1
          BY <1>7, <2>2, <4>1, <5>1
        <5>3. QED
          BY <2>2, <5>2
      <4>4. QED
        BY <4>2, <4>3
    <3>3. QED
      BY <3>1, <3>2
  <2>3. \A i, j \in 1 .. n - 1 : r[i] = r[j] => i = j
    <3>1. \A i, j \in 1 .. n - 1 : i = j \/ i < j \/ j < i
      OBVIOUS
    <3>2. QED
      BY <2>2, <3>1
  <2>4. h = IF n - 1 = 0 THEN Null ELSE r[1]
    <3>1. n - 1 # 0 /\ 1 \in 1 .. n - 1 /\ 1 < k
      BY <1>4
    <3>2. QED
      BY <1>4, <1>5, <3>1
  <2>5. ASSUME NEW i \in 1 .. n - 1
        PROVE  m[r[i]] = IF i = n - 1 THEN Null ELSE r[i + 1]
    <3>1. CASE i < k - 1
      <4>1. r[i] = q[i] /\ i \in 1 .. n /\ i # k - 1 /\ i # n
        BY <1>5, <3>1
      <4>2. i + 1 \in 1 .. n - 1 /\ i + 1 < k
        BY <3>1
      <4>3. r[i + 1] = q[i + 1]
        BY <1>5, <4>2
      <4>4. QED
        BY <1>10, <4>1, <4>2, <4>3
    <3>2. CASE i = k - 1
      <4>1. r[i] = q[k - 1]
        BY <1>5, <3>2
      <4>2. i # n - 1 => r[i + 1] = q[k + 1]
        <5>1. SUFFICES ASSUME i # n - 1 PROVE r[i + 1] = q[k + 1]
          OBVIOUS
        <5>2. i + 1 \in 1 .. n - 1 /\ i + 1 >= k /\ (i + 1) + 1 = k + 1
          BY <3>2, <5>1
        <5>3. QED
          BY <1>5, <5>2
      <4>3. i = n - 1 <=> k = n
        BY <3>2
      <4>4. QED
        BY <1>11, <4>1, <4>2, <4>3
    <3>3. CASE i > k - 1
      <4>1. i + 1 \in 1 .. n /\ i + 1 # k - 1 /\ r[i] = q[i + 1]
        BY <1>5, <3>3
      <4>2. m[q[i + 1]] = IF i + 1 = n THEN Null ELSE q[(i + 1) + 1]
        BY <1>10, <4>1
      <4>3. i # n - 1 => r[i + 1] = q[(i + 1) + 1]
        <5>1. SUFFICES ASSUME i # n - 1 PROVE r[i + 1] = q[(i + 1) + 1]
          OBVIOUS
        <5>2. i + 1 \in 1 .. n - 1 /\ i + 1 >= k
          BY <3>3, <5>1
        <5>3. QED
          BY <1>5, <5>2
      <4>4. i = n - 1 <=> i + 1 = n
        OBVIOUS
      <4>5. QED
        BY <4>1, <4>2, <4>3, <4>4
    <3>4. QED
      BY <3>1, <3>2, <3>3
  <2>6. QED
    BY <2>1, <2>3, <2>4, <2>5 DEF Path
<1>13. C \ {x} = {r[i] : i \in 1 .. n - 1}
  <2>1. ASSUME NEW y \in C \ {x} PROVE \E i \in 1 .. n - 1 : y = r[i]
    <3>1. PICK i \in 1 .. n : y = q[i]
      BY <1>2
    <3>2. i # k
      BY <1>3, <3>1
    <3>3. CASE i < k
      <4>1. i \in 1 .. n - 1 /\ r[i] = q[i]
        BY <1>5, <3>3
      <4>2. QED
        BY <3>1, <4>1
    <3>4. CASE i > k
      <4>1. i - 1 \in 1 .. n - 1 /\ i - 1 >= k /\ (i - 1) + 1 = i
        BY <3>4
      <4>2. r[i - 1] = q[i]
        BY <1>5, <4>1
      <4>3. QED
        BY <3>1, <4>1, <4>2
    <3>5. QED
      BY <3>2, <3>3, <3>4
  <2>2. ASSUME NEW i \in 1 .. n - 1 PROVE r[i] \in C \ {x}
    <3>1. CASE i < k
      <4>1. i \in 1 .. n /\ r[i] = q[i] /\ i # k
        BY <1>5, <3>1
      <4>2. q[i] # q[k]
        BY <1>7, <4>1
      <4>3. QED
        BY <1>3, <1>8, <4>1, <4>2
    <3>2. CASE i >= k
      <4>1. i + 1 \in 1 .. n /\ r[i] = q[i + 1] /\ i + 1 # k
        BY <1>5, <3>2
      <4>2. q[i + 1] # q[k]
        BY <1>7, <4>1
      <4>3. QED
        BY <1>3, <1>8, <4>1, <4>2
    <3>3. QED
      BY <3>1, <3>2
  <2>3. QED
    BY <2>1, <2>2
<1>14. QED
  BY <1>4, <1>6, <1>12, <1>13 DEF Linked

(* new_slab links all objects.                                               *)
LEMMA LinkedFresh ==
  Linked(Obj, Fresh, 1, Obj)
<1> DEFINE q == [i \in 1 .. PerSlab |-> i]
<1>1. q \in [1 .. PerSlab -> Obj] /\ PerSlab \in Nat
  BY SlubAssumption DEF Obj
<1>2. Path(Obj, Fresh, 1, PerSlab, q)
  <2>1. PerSlab \in Nat /\ PerSlab # 0 /\ Obj = 1 .. PerSlab /\ 1 \in 1 .. PerSlab
    BY SlubAssumption DEF Obj
  <2>2. \A i \in 1 .. PerSlab : q[i] = i /\ q[i] \in Obj
    BY <2>1
  <2>3. \A i \in 1 .. PerSlab : Fresh[i] = IF i = PerSlab THEN Null ELSE i + 1
    BY <2>1 DEF Fresh
  <2>4. \A i \in 1 .. PerSlab : i # PerSlab => i + 1 \in 1 .. PerSlab
    BY <2>1
  <2> HIDE DEF q
  <2>5. QED
    BY <2>1, <2>2, <2>3, <2>4 DEF Path
<1>3. Obj = {q[i] : i \in 1 .. PerSlab}
  BY DEF Obj
<1> HIDE DEF q
<1>4. QED
  BY <1>1, <1>2, <1>3 DEF Linked
-----------------------------------------------------------------------------
(* What the model's walks are.                                               *)
Uses == {n \in Nat : n < 32768}
ObjOrNull  == Obj \cup {Null}
SlabOrNull == Slab \cup {Null}
Listed(l, h, C) == Linked(Obj, l, h, C)

LEMMA ObjSet ==
  /\ IsFiniteSet(Obj) /\ Null \notin Obj /\ Cardinality(Obj) <= PerSlab
  /\ PerSlab \in Nat /\ PerSlab # 0 /\ Obj \subseteq Nat
<1>1. Cardinality(Obj) = PerSlab /\ IsFiniteSet(Obj)
  <2>1. PerSlab \in Int /\ 1 \in Int /\ ~(1 > PerSlab) /\ PerSlab - 1 + 1 = PerSlab
    BY SlubAssumption
  <2>2. QED
    BY <2>1, FS_Interval DEF Obj
<1>2. QED
  BY <1>1, SlubAssumption DEF Obj, Null

LEMMA SlabSet ==
  /\ IsFiniteSet(Slab) /\ Null \notin Slab
  /\ Cardinality(Slab) \in Nat /\ Cardinality(Slab) <= Cardinality(Slab)
  BY SlubAssumption, FS_CardinalityType DEF Null

LEMMA ChainIs ==
  ASSUME NEW s, NEW o
  PROVE  /\ Walk(s, o) = WalkOf(PerSlab, link[s], o)
         /\ Walk(s, o)' = WalkOf(PerSlab, link'[s], o)
  BY DEF Walk, WalkOf

(* A chain of free objects is Chain, and it ends.                            *)
LEMMA ListedChain ==
  ASSUME NEW s, NEW h, NEW C
  PROVE  /\ Listed(link[s], h, C) => Chain(s, h) = C /\ Ends(s, h)
         /\ Listed(link'[s], h, C) => Chain(s, h)' = C /\ Ends(s, h)'
<1>1. ASSUME Listed(link[s], h, C) PROVE Chain(s, h) = C /\ Ends(s, h)
  BY <1>1, LinkedWalk, ChainIs, ObjSet DEF Listed, Chain, Ends
<1>2. ASSUME Listed(link'[s], h, C) PROVE Chain(s, h)' = C /\ Ends(s, h)'
  <2>1. /\ Range(WalkOf(PerSlab, link'[s], h)) \ {Null} = C
        /\ WalkOf(PerSlab, link'[s], h)[PerSlab] = Null
    BY <1>2, LinkedWalk, ObjSet DEF Listed
  <2>2. Walk(s, h)' = WalkOf(PerSlab, link'[s], h)
    BY ChainIs
  <2>3. QED
    BY <2>1, <2>2 DEF Chain, Ends
<1>3. QED
  BY <1>1, <1>2

LEMMA PartialIs ==
  ASSUME NEW C
  PROVE  /\ Linked(Slab, next, cpu.partial, C) => PartialList = C
         /\ Linked(Slab, next', cpu'.partial, C) => PartialList' = C
<1>1. /\ PartialList = Range(WalkOf(Cardinality(Slab), next, cpu.partial)) \ {Null}
      /\ PartialList' = Range(WalkOf(Cardinality(Slab), next', cpu'.partial)) \ {Null}
  BY DEF PartialList, WalkOf
<1>2. QED
  BY <1>1, LinkedWalk, SlabSet

(* The search for the place of an object stays within a chain, and finds one *)
(* as the last entry of a chain has no next one.                             *)
LEMMA ListedPlace ==
  ASSUME NEW s, NEW h, NEW o, NEW C, Listed(link[s], h, C), h # Null
  PROVE  StopsSomewhere(s, h, o) /\ Place(s, h, o) \in C
<1>1. PICK n \in Nat : \E q \in [1 .. n -> Obj] :
                         Path(Obj, link[s], h, n, q) /\ C = {q[i] : i \in 1 .. n}
  BY DEF Linked, Listed
<1>2. PICK q \in [1 .. n -> Obj] : Path(Obj, link[s], h, n, q) /\ C = {q[i] : i \in 1 .. n}
  BY <1>1
<1> DEFINE w == Walk(s, h)
<1>3. n <= PerSlab /\ w = [i \in 0 .. PerSlab |-> IF i < n THEN q[i + 1] ELSE Null]
  BY <1>2, PathWalk, ChainIs, ObjSet
<1> HIDE DEF w
<1>4. n # 0
  BY <1>2 DEF Path
<1> DEFINE At(i) == w[i] # Null /\ Stops(s, w[i], o)
<1>5. n - 1 \in 0 .. PerSlab - 1 /\ At(n - 1)
  <2>1. n - 1 \in 0 .. PerSlab /\ n \in 1 .. n
    BY <1>3, <1>4, ObjSet
  <2>2. w[n - 1] = q[n] /\ q[n] \in Obj
    BY <1>3, <2>1
  <2>3. link[s][q[n]] = Null
    BY <1>2, <2>1 DEF Path
  <2>4. QED
    BY <1>3, <1>4, <2>1, <2>2, <2>3, ObjSet DEF Stops
<1>6. StopsSomewhere(s, h, o)
  BY <1>5 DEF StopsSomewhere, w
<1> DEFINE T == {i \in 0 .. PerSlab - 1 : At(i)}
<1>7. PICK t \in T : \A i \in T : t <= i
  <2>1. T \in SUBSET Nat /\ n - 1 \in T
    BY <1>5
  <2> HIDE DEF T
  <2>2. QED
    BY <2>1, Least
<1>8. /\ t \in 0 .. PerSlab - 1 /\ w[t] # Null /\ Stops(s, w[t], o)
      /\ \A i \in 0 .. t - 1 : ~At(i)
  BY <1>7, ObjSet
<1>9. \A i \in 0 .. t - 1 : ~Stops(s, w[i], o)
  <2>1. ASSUME NEW i \in 0 .. t - 1 PROVE w[i] # Null
    <3>1. t < n
      BY <1>3, <1>8, ObjSet
    <3>2. i < n /\ i \in 0 .. PerSlab /\ i + 1 \in 1 .. n
      BY <1>3, <1>8, <3>1, ObjSet
    <3>3. w[i] = q[i + 1] /\ q[i + 1] \in Obj
      BY <1>3, <3>2
    <3>4. QED
      BY <3>3, ObjSet
  <2>2. QED
    BY <1>8, <2>1
<1> DEFINE Good(i) == /\ w[i] # Null /\ Stops(s, w[i], o)
                      /\ \A j \in 0 .. i - 1 : ~Stops(s, w[j], o)
           k == CHOOSE i \in 0 .. PerSlab - 1 : Good(i)
<1>10. k \in 0 .. PerSlab - 1 /\ Good(k)
  <2>1. t \in 0 .. PerSlab - 1 /\ Good(t)
    BY <1>8, <1>9
  <2> HIDE DEF Good
  <2>2. QED
    BY <2>1
<1>11. Place(s, h, o) = w[k]
  BY DEF Place, w
<1> HIDE DEF k
<1>12. k < n /\ k + 1 \in 1 .. n
  BY <1>3, <1>10, ObjSet
<1>13. w[k] = q[k + 1]
  BY <1>3, <1>10, <1>12, ObjSet
<1>14. QED
  BY <1>2, <1>6, <1>11, <1>12, <1>13
(* Wherever a free list leads, its entries are objects: also the stale one   *)
(* of a slab out of sight.                                                   *)
LEMMA WalkTyped ==
  ASSUME NEW s, link[s] \in [Obj -> ObjOrNull], NEW h \in ObjOrNull
  PROVE  /\ \A i \in 0 .. PerSlab : Walk(s, h)[i] \in ObjOrNull
         /\ \A i \in 1 .. PerSlab : Walk(s, h)[i - 1] = Null => Walk(s, h)[i] = Null
<1> DEFINE w == Walk(s, h)
<1>1. \A i \in 0 .. PerSlab :
        w[i] = IF i = 0 THEN h ELSE IF w[i - 1] = Null THEN Null ELSE link[s][w[i - 1]]
  BY WalkIs, ChainIs, ObjSet DEF Walks
<1> HIDE DEF w
<1> DEFINE T == {i \in 0 .. PerSlab : w[i] \notin ObjOrNull}
<1>2. T = {}
  <2>1. SUFFICES ASSUME T # {} PROVE FALSE
    OBVIOUS
  <2>2. PICK t \in T : \A i \in T : t <= i
    <3>1. T \in SUBSET Nat
      OBVIOUS
    <3>2. PICK i \in T : TRUE
      BY <2>1
    <3> HIDE DEF T
    <3>3. QED
      BY <3>1, <3>2, Least
  <2>3. t \in 0 .. PerSlab /\ t # 0
    BY <1>1, ObjSet
  <2>4. t - 1 \in 0 .. PerSlab /\ w[t - 1] \in ObjOrNull
    BY <2>2, <2>3, ObjSet
  <2>5. w[t] \in ObjOrNull
    BY <1>1, <2>3, <2>4 DEF ObjOrNull
  <2>6. QED
    BY <2>5
<1>3. \A i \in 1 .. PerSlab : i \in 0 .. PerSlab /\ i # 0
  BY ObjSet
<1>4. QED
  BY <1>1, <1>2, <1>3 DEF w

LEMMA PlaceTyped ==
  ASSUME NEW s, link[s] \in [Obj -> ObjOrNull], NEW h \in ObjOrNull, NEW o,
         StopsSomewhere(s, h, o)
  PROVE  Place(s, h, o) \in Obj
<1> DEFINE w == Walk(s, h)
<1>1. /\ \A i \in 0 .. PerSlab : w[i] \in ObjOrNull
      /\ \A i \in 1 .. PerSlab : w[i - 1] = Null => w[i] = Null
  BY WalkTyped
<1> HIDE DEF w
<1> DEFINE At(i) == w[i] # Null /\ Stops(s, w[i], o)
           T == {i \in 0 .. PerSlab - 1 : At(i)}
<1>2. PICK t \in T : \A i \in T : t <= i
  <2>1. PICK i \in 0 .. PerSlab - 1 : At(i)
    BY DEF StopsSomewhere, w
  <2>2. i \in T /\ T \in SUBSET Nat
    BY <2>1
  <2> HIDE DEF T
  <2>3. QED
    BY <2>2, Least
<1>3. t \in 0 .. PerSlab - 1 /\ At(t) /\ \A i \in 0 .. t - 1 : ~At(i)
  BY <1>2, ObjSet
<1>4. \A i \in 0 .. t - 1 : w[i] # Null
  <2> DEFINE U == {i \in 0 .. t : \E j \in 0 .. i : w[j] = Null /\ w[i] # Null}
  <2>1. U = {}
    <3>1. SUFFICES ASSUME U # {} PROVE FALSE
      OBVIOUS
    <3>2. PICK u \in U : \A i \in U : u <= i
      <4>1. U \in SUBSET Nat
        BY <1>3
      <4>2. PICK i \in U : TRUE
        BY <3>1
      <4> HIDE DEF U
      <4>3. QED
        BY <4>1, <4>2, Least
    <3>3. PICK j \in 0 .. u : w[j] = Null /\ w[u] # Null
      OBVIOUS
    <3>4. u \in 1 .. PerSlab /\ u - 1 \in 0 .. t /\ j \in 0 .. u - 1
      BY <1>3, <3>3, ObjSet
    <3>5. w[u - 1] = Null
      BY <3>2, <3>3, <3>4
    <3>6. QED
      BY <1>1, <3>3, <3>4, <3>5
  <2>2. ASSUME NEW i \in 0 .. t - 1, w[i] = Null PROVE FALSE
    <3>1. t \in 0 .. t /\ i \in 0 .. t
      BY <1>3
    <3>2. t \in U
      BY <1>3, <2>2, <3>1
    <3>3. QED
      BY <2>1, <3>2
  <2>3. QED
    BY <2>2
<1> DEFINE Good(i) == /\ w[i] # Null /\ Stops(s, w[i], o)
                      /\ \A j \in 0 .. i - 1 : ~Stops(s, w[j], o)
           k == CHOOSE i \in 0 .. PerSlab - 1 : Good(i)
<1>5. k \in 0 .. PerSlab - 1 /\ Good(k)
  <2>1. t \in 0 .. PerSlab - 1 /\ Good(t)
    BY <1>3, <1>4
  <2> HIDE DEF Good
  <2>2. QED
    BY <2>1
<1>6. Place(s, h, o) = w[k]
  BY DEF Place, w
<1>7. k \in 0 .. PerSlab /\ w[k] # Null
  BY <1>5, ObjSet
<1> HIDE DEF k
<1>8. QED
  BY <1>1, <1>6, <1>7 DEF ObjOrNull
-----------------------------------------------------------------------------
(* The objects of a slab that clients hold, and a free list apart from them. *)
LiveOf(L, s) == {o \in Obj : <<s, o>> \in L}
FreeAt(l, h, L) == \E C : Listed(l, h, C) /\ C \cap L = {}

(* A slab that waits has a free list apart from the objects that are held,   *)
(* and counts no fewer of these than there are.                              *)
WaitsAt(l, h, n, L) == h # Null /\ FreeAt(l, h, L) /\ Cardinality(L) <= n

Typed ==
  /\ link \in [Slab -> [Obj -> ObjOrNull]]
  /\ freeList \in [Slab -> ObjOrNull]
  /\ inuse \in [Slab -> Uses]
  /\ pobjects \in [Slab -> Int]
  /\ frozen \in [Slab -> BOOLEAN]
  /\ next \in [Slab -> SlabOrNull]
  /\ cpu \in [page : SlabOrNull, freelist : ObjOrNull, partial : SlabOrNull]
  /\ node \in Seq(Slab)
  /\ pool \subseteq Slab
  /\ live \subseteq Slab \X Obj

Once ==
  /\ cpu.page \notin Waiting \cup pool
  /\ PartialList \cap Range(node) = {}
  /\ Waiting \cap pool = {}
  /\ IsInjective(node)

(* The inductive invariant.  Of a slab out of sight (not at the front, not   *)
(* on a list, not in the pool) it says nothing but that it is frozen and     *)
(* that it counts all its objects as long as none has been freed behind the  *)
(* front.                                                                    *)
Sound ==
  /\ Typed
  /\ Once
  /\ \E C : Linked(Slab, next, cpu.partial, C)
  /\ cpu.page # Null => FreeAt(link[cpu.page], cpu.freelist, LiveOf(live, cpu.page))
  /\ \A s \in Waiting : WaitsAt(link[s], freeList[s], inuse[s], LiveOf(live, s))
  /\ \A s \in pool : LiveOf(live, s) = {}
  /\ \A s \in Slab \ pool : frozen[s] /\ (freeList[s] = Null => inuse[s] = PerSlab)
IInv == Ok => Sound

LEMMA LiveAdd ==
  ASSUME NEW p, NEW o \in Obj, live' = live \cup {<<p, o>>}
  PROVE  /\ LiveOf(live', p) = LiveOf(live, p) \cup {o}
         /\ \A s : s # p => LiveOf(live', s) = LiveOf(live, s)
  BY DEF LiveOf

LEMMA LiveSub ==
  ASSUME NEW p, NEW o, live' = live \ {<<p, o>>}
  PROVE  /\ LiveOf(live', p) = LiveOf(live, p) \ {o}
         /\ \A s : s # p => LiveOf(live', s) = LiveOf(live, s)
  BY DEF LiveOf

LEMMA LiveCount ==
  ASSUME NEW L, NEW s, NEW K \in SUBSET LiveOf(L, s)
  PROVE  /\ IsFiniteSet(LiveOf(L, s)) /\ IsFiniteSet(K)
         /\ Cardinality(K) \in Nat /\ Cardinality(LiveOf(L, s)) \in Nat
         /\ Cardinality(K) <= Cardinality(LiveOf(L, s))
         /\ Cardinality(LiveOf(L, s)) <= PerSlab
<1>1. LiveOf(L, s) \in SUBSET Obj
  BY DEF LiveOf
<1>2. IsFiniteSet(LiveOf(L, s)) /\ Cardinality(LiveOf(L, s)) <= Cardinality(Obj)
  BY <1>1, ObjSet, FS_Subset
<1>3. IsFiniteSet(K) /\ Cardinality(K) <= Cardinality(LiveOf(L, s))
  BY <1>2, FS_Subset
<1>4. Cardinality(K) \in Nat /\ Cardinality(LiveOf(L, s)) \in Nat /\ Cardinality(Obj) \in Nat
  BY <1>2, <1>3, ObjSet, FS_CardinalityType
<1>5. QED
  BY <1>2, <1>3, <1>4, ObjSet

LEMMA FreeTail ==
  ASSUME NEW l, NEW h, NEW L, FreeAt(l, h, L), h # Null
  PROVE  FreeAt(l, l[h], L \cup {h}) /\ h \in Obj
<1>1. PICK C : Listed(l, h, C) /\ C \cap L = {}
  BY DEF FreeAt
<1>2. Listed(l, l[h], C \ {h}) /\ h \in Obj
  BY <1>1, LinkedTail, LinkedNodes, ObjSet DEF Listed
<1>3. (C \ {h}) \cap (L \cup {h}) = {}
  BY <1>1
<1>4. QED
  BY <1>2, <1>3 DEF FreeAt

LEMMA FreeLess ==
  ASSUME NEW l, NEW h, NEW L, NEW K \in SUBSET L, FreeAt(l, h, L)
  PROVE  FreeAt(l, h, K)
<1>1. PICK C : Listed(l, h, C) /\ C \cap L = {}
  BY DEF FreeAt
<1>2. C \cap K = {}
  BY <1>1
<1>3. QED
  BY <1>1, <1>2 DEF FreeAt

LEMMA FreeFresh == FreeAt(Fresh, 1, {})
<1>1. Obj \cap {} = {}
  OBVIOUS
<1>2. Listed(Fresh, 1, Obj)
  BY LinkedFresh DEF Listed
<1>3. QED
  BY <1>1, <1>2 DEF FreeAt

LEMMA FreeAlone ==
  ASSUME NEW l, NEW o \in Obj, NEW L, o \notin L, l[o] = Null
  PROVE  FreeAt(l, o, L)
<1>1. Linked(Obj, l, Null, {})
  BY LinkedNull
<1>2. Linked(Obj, l, o, {} \cup {o})
  BY <1>1, LinkedPush
<1>3. ({} \cup {o}) \cap L = {}
  OBVIOUS
<1>4. QED
  BY <1>2, <1>3 DEF FreeAt, Listed

(* What the front becomes when its first object is taken.                    *)
LEMMA TakeStep ==
  ASSUME NEW s \in Slab, NEW h \in ObjOrNull, NEW lk, NEW p \in SlabOrNull,
         lk[s] \in [Obj -> ObjOrNull], Take(s, h, lk, p), fate = "ok", fate' = "ok"
  PROVE  /\ h \in Obj
         /\ live' = live \cup {<<s, h>>}
         /\ cpu' \in [page : SlabOrNull, freelist : ObjOrNull, partial : SlabOrNull]
         /\ cpu'.partial = p
         /\ cpu'.page = Null \/ (cpu'.page = s /\ cpu'.freelist = lk[s][h])
<1>1. h # Null
  BY DEF Take
<1>2. h \in Obj /\ lk[s][h] \in ObjOrNull
  BY <1>1 DEF ObjOrNull
<1> DEFINE retire == GivesUp(lk[s], lk[s][h])
<1>3. /\ live' = live \cup {<<s, h>>}
      /\ cpu' = [page |-> IF retire THEN Null ELSE s,
                 freelist |-> IF retire THEN Null ELSE lk[s][h], partial |-> p]
  BY <1>1 DEF Take
<1> HIDE DEF retire
<1>4. CASE retire
  BY <1>2, <1>3, <1>4 DEF ObjOrNull, SlabOrNull
<1>5. CASE ~retire
  BY <1>2, <1>3, <1>5 DEF ObjOrNull, SlabOrNull
<1>6. QED
  BY <1>4, <1>5
-----------------------------------------------------------------------------
(* The places of slabs, from the state.                                      *)
LEMMA Places ==
  ASSUME Sound
  PROVE  /\ Linked(Slab, next, cpu.partial, PartialList)
         /\ PartialList \subseteq Slab
         /\ Range(node) \subseteq Slab
         /\ Waiting \subseteq Slab
         /\ cpu.partial # Null => cpu.partial \in PartialList
         /\ cpu.page \in SlabOrNull /\ cpu.partial \in SlabOrNull
         /\ cpu.freelist \in ObjOrNull
<1>1. PICK C : Linked(Slab, next, cpu.partial, C)
  BY DEF Sound
<1>2. PartialList = C
  BY <1>1, PartialIs
<1>3. Linked(Slab, next, cpu.partial, PartialList)
  BY <1>1, <1>2
<1>4. PartialList \subseteq Slab /\ (cpu.partial # Null => cpu.partial \in PartialList)
  BY <1>3, LinkedNodes, SlabSet
<1>5. node \in Seq(Slab)
  BY DEF Sound, Typed
<1>6. Range(node) \subseteq Slab
  BY <1>5 DEF Range
<1>7. cpu \in [page : SlabOrNull, freelist : ObjOrNull, partial : SlabOrNull]
  BY DEF Sound, Typed
<1>8. QED
  BY <1>3, <1>4, <1>6, <1>7 DEF Waiting

(* As long as the lists of slabs are, the slabs that wait are.               *)
LEMMA SameLists ==
  ASSUME Sound, next' = next, cpu'.partial = cpu.partial
  PROVE  Linked(Slab, next', cpu'.partial, PartialList) /\ PartialList' = PartialList
<1>1. Linked(Slab, next', cpu'.partial, PartialList)
  BY Places
<1>2. QED
  BY <1>1, PartialIs

(* A slab that waits and is left alone, but for objects that are given up.   *)
LEMMA WaitsKept ==
  ASSUME Sound, NEW s \in Waiting, link'[s] = link[s], freeList'[s] = freeList[s],
         inuse'[s] = inuse[s], LiveOf(live', s) \subseteq LiveOf(live, s)
  PROVE  WaitsAt(link'[s], freeList'[s], inuse'[s], LiveOf(live', s))
<1>1. WaitsAt(link[s], freeList[s], inuse[s], LiveOf(live, s))
  BY DEF Sound
<1>2. FreeAt(link[s], freeList[s], LiveOf(live', s))
  BY <1>1, FreeLess DEF WaitsAt
<1>3. inuse[s] \in Int
  <2>1. s \in Slab
    BY Places
  <2>2. inuse \in [Slab -> Uses]
    BY DEF Sound, Typed
  <2>3. QED
    BY <2>1, <2>2 DEF Uses
<1>4. Cardinality(LiveOf(live', s)) <= inuse[s]
  BY <1>1, <1>3, LiveCount DEF WaitsAt
<1>5. QED
  BY <1>1, <1>2, <1>4 DEF WaitsAt

LEMMA AllocFrontStep ==
  ASSUME Sound, AllocFront, fate' = "ok"
  PROVE  Sound'
<1>0. PICK p, h : p = cpu.page /\ h = cpu.freelist
  OBVIOUS
<1>1. /\ fate = "ok" /\ p # Null
      /\ UNCHANGED <<link, freeList, inuse, pobjects, frozen, next, pool, node>>
      /\ Take(p, h, link, cpu.partial)
  BY <1>0 DEF AllocFront, slabs
<1>2. p \in Slab /\ h \in ObjOrNull /\ cpu.partial \in SlabOrNull
  BY <1>0, <1>1, Places DEF SlabOrNull
<1>3. link[p] \in [Obj -> ObjOrNull]
  BY <1>2 DEF Sound, Typed
<1>4. /\ h \in Obj /\ live' = live \cup {<<p, h>>}
      /\ cpu' \in [page : SlabOrNull, freelist : ObjOrNull, partial : SlabOrNull]
      /\ cpu'.partial = cpu.partial
      /\ cpu'.page = Null \/ (cpu'.page = p /\ cpu'.freelist = link[p][h])
  BY <1>1, <1>2, <1>3, TakeStep
<1>5. Linked(Slab, next', cpu'.partial, PartialList) /\ PartialList' = PartialList
  BY <1>1, <1>4, SameLists
<1>6. Waiting' = Waiting
  BY <1>1, <1>5 DEF Waiting
<1>7. p \notin Waiting \cup pool /\ Null \notin Waiting \cup pool
  <2>1. Once /\ pool \subseteq Slab
    BY DEF Sound, Typed
  <2>2. QED
    BY <1>0, <2>1, Places, SlabSet DEF Once
<1>8. /\ LiveOf(live', p) = LiveOf(live, p) \cup {h}
      /\ \A s : s # p => LiveOf(live', s) = LiveOf(live, s)
  BY <1>4, LiveAdd
<1>10. Typed'
  <2>1. Typed
    BY DEF Sound
  <2>2. live' \subseteq Slab \X Obj
    BY <1>2, <1>4, <2>1 DEF Typed
  <2>3. QED
    BY <1>1, <1>4, <2>1, <2>2 DEF Typed
<1>11. Once'
  <2>1. Once
    BY DEF Sound
  <2>2. cpu'.page \notin Waiting \cup pool
    BY <1>4, <1>7
  <2>3. QED
    BY <1>1, <1>5, <1>6, <2>1, <2>2 DEF Once
<1>12. ASSUME cpu'.page # Null
       PROVE  FreeAt(link'[cpu'.page], cpu'.freelist, LiveOf(live', cpu'.page))
  <2>1. FreeAt(link[p], h, LiveOf(live, p)) /\ h # Null
    BY <1>0, <1>1, <1>4, ObjSet DEF Sound
  <2>2. FreeAt(link[p], link[p][h], LiveOf(live, p) \cup {h})
    BY <2>1, FreeTail
  <2>3. cpu'.page = p /\ cpu'.freelist = link[p][h] /\ link'[p] = link[p]
    BY <1>1, <1>4, <1>12
  <2>4. QED
    BY <1>8, <2>2, <2>3
<1>13. ASSUME NEW s \in Waiting
       PROVE  WaitsAt(link'[s], freeList'[s], inuse'[s], LiveOf(live', s))
  <2>1. LiveOf(live', s) \subseteq LiveOf(live, s)
    BY <1>7, <1>8
  <2>2. QED
    BY <1>1, <2>1, WaitsKept
<1>14. ASSUME NEW s \in pool PROVE LiveOf(live', s) = {}
  BY <1>7, <1>8 DEF Sound
<1>15. \A s \in Slab \ pool : frozen[s] /\ (freeList[s] = Null => inuse[s] = PerSlab)
  BY DEF Sound
<1>16. QED
  BY <1>1, <1>5, <1>6, <1>10, <1>11, <1>12, <1>13, <1>14, <1>15 DEF Sound
LEMMA AllocPartialStep ==
  ASSUME Sound, AllocPartial, fate' = "ok"
  PROVE  Sound'
<1>0. PICK p, h, n : p = cpu.partial /\ h = freeList[p] /\ n = next[p]
  OBVIOUS
<1>1. /\ fate = "ok" /\ cpu.page = Null /\ p # Null
      /\ UNCHANGED <<link, freeList, inuse, pobjects, frozen, next, pool, node>>
      /\ Take(p, h, link, n)
  BY <1>0 DEF AllocPartial, slabs
<1>2. Typed /\ Once
  BY DEF Sound
<1>3. p \in Slab /\ p \in PartialList /\ p \in Waiting
  BY <1>0, <1>1, Places DEF SlabOrNull, Waiting
<1>4. h \in ObjOrNull /\ n \in SlabOrNull /\ link[p] \in [Obj -> ObjOrNull]
  BY <1>0, <1>2, <1>3 DEF Typed
<1>5. /\ h \in Obj /\ live' = live \cup {<<p, h>>}
      /\ cpu' \in [page : SlabOrNull, freelist : ObjOrNull, partial : SlabOrNull]
      /\ cpu'.partial = n
      /\ cpu'.page = Null \/ (cpu'.page = p /\ cpu'.freelist = link[p][h])
  BY <1>1, <1>3, <1>4, TakeStep
<1>6. Linked(Slab, next', cpu'.partial, PartialList \ {p}) /\ PartialList' = PartialList \ {p}
  <2>1. Linked(Slab, next, next[p], PartialList \ {p})
    BY <1>0, <1>1, Places, LinkedTail, SlabSet
  <2>2. Linked(Slab, next', cpu'.partial, PartialList \ {p})
    BY <1>0, <1>1, <1>5, <2>1
  <2>3. QED
    BY <2>2, PartialIs
<1>7. Waiting' = Waiting \ {p}
  <2>1. p \notin Range(node)
    BY <1>2, <1>3 DEF Once
  <2>2. QED
    BY <1>1, <1>6, <2>1 DEF Waiting
<1>8. /\ LiveOf(live', p) = LiveOf(live, p) \cup {h}
      /\ \A s : s # p => LiveOf(live', s) = LiveOf(live, s)
  BY <1>5, LiveAdd
<1>9. Typed'
  <2>1. live' \subseteq Slab \X Obj
    BY <1>2, <1>3, <1>5 DEF Typed
  <2>2. QED
    BY <1>1, <1>2, <1>5, <2>1 DEF Typed
<1>10. Once'
  <2>1. cpu'.page \notin (Waiting \ {p}) \cup pool
    <3>1. p \notin pool /\ Null \notin Waiting \cup pool
      BY <1>2, <1>3, Places, SlabSet DEF Once, Typed
    <3>2. QED
      BY <1>5, <3>1
  <2>2. QED
    BY <1>1, <1>2, <1>6, <1>7, <2>1 DEF Once
<1>11. ASSUME cpu'.page # Null
       PROVE  FreeAt(link'[cpu'.page], cpu'.freelist, LiveOf(live', cpu'.page))
  <2>1. FreeAt(link[p], h, LiveOf(live, p)) /\ h # Null
    BY <1>0, <1>3 DEF Sound, WaitsAt
  <2>2. FreeAt(link[p], link[p][h], LiveOf(live, p) \cup {h})
    BY <2>1, FreeTail
  <2>3. cpu'.page = p /\ cpu'.freelist = link[p][h] /\ link'[p] = link[p]
    BY <1>1, <1>5, <1>11
  <2>4. QED
    BY <1>8, <2>2, <2>3
<1>12. ASSUME NEW s \in Waiting \ {p}
       PROVE  WaitsAt(link'[s], freeList'[s], inuse'[s], LiveOf(live', s))
  <2>1. LiveOf(live', s) \subseteq LiveOf(live, s)
    BY <1>8
  <2>2. QED
    BY <1>1, <2>1, WaitsKept
<1>13. ASSUME NEW s \in pool PROVE LiveOf(live', s) = {}
  <2>1. s # p
    BY <1>2, <1>3 DEF Once
  <2>2. QED
    BY <1>8, <2>1 DEF Sound
<1>14. \A s \in Slab \ pool : frozen[s] /\ (freeList[s] = Null => inuse[s] = PerSlab)
  BY DEF Sound
<1>15. QED
  BY <1>1, <1>6, <1>7, <1>9, <1>10, <1>11, <1>12, <1>13, <1>14 DEF Sound

LEMMA AllocNewStep ==
  ASSUME Sound, AllocNew, fate' = "ok"
  PROVE  Sound'
<1>1. PICK p \in pool :
        /\ pool' = pool \ {p}
        /\ link' = [link EXCEPT ![p] = Fresh]
        /\ inuse' = [inuse EXCEPT ![p] = PerSlab]
        /\ frozen' = [frozen EXCEPT ![p] = TRUE]
        /\ Take(p, 1, link', Null)
  BY DEF AllocNew
<1>2. /\ fate = "ok" /\ cpu.page = Null /\ cpu.partial = Null
      /\ UNCHANGED <<freeList, pobjects, next, node>>
  BY DEF AllocNew
<1>3. Typed /\ Once
  BY DEF Sound
<1>4. p \in Slab /\ p \notin Waiting /\ Null \notin Waiting \cup pool
  BY <1>3, Places, SlabSet DEF Once, Typed
<1>5. 1 \in Obj /\ 1 \in ObjOrNull /\ Null \in SlabOrNull
  <2>1. 1 \in Obj
    BY SlubAssumption DEF Obj
  <2>2. QED
    BY <2>1 DEF ObjOrNull, SlabOrNull
<1>6. Fresh \in [Obj -> ObjOrNull]
  BY SlubAssumption DEF Fresh, Obj, ObjOrNull, Null
<1>7. link' \in [Slab -> [Obj -> ObjOrNull]] /\ link'[p] = Fresh
  BY <1>1, <1>3, <1>4, <1>6 DEF Typed
<1>8. /\ live' = live \cup {<<p, 1>>}
      /\ cpu' \in [page : SlabOrNull, freelist : ObjOrNull, partial : SlabOrNull]
      /\ cpu'.partial = Null
      /\ cpu'.page = Null \/ (cpu'.page = p /\ cpu'.freelist = Fresh[1])
  <2>1. link'[p] \in [Obj -> ObjOrNull]
    BY <1>6, <1>7
  <2> DEFINE lk == link'
  <2>2. lk[p] \in [Obj -> ObjOrNull] /\ Take(p, 1, lk, Null)
    BY <1>1, <2>1
  <2> HIDE DEF lk
  <2>3. /\ live' = live \cup {<<p, 1>>}
        /\ cpu' \in [page : SlabOrNull, freelist : ObjOrNull, partial : SlabOrNull]
        /\ cpu'.partial = Null
        /\ cpu'.page = Null \/ (cpu'.page = p /\ cpu'.freelist = lk[p][1])
    BY <1>2, <1>4, <1>5, <2>2, TakeStep
  <2>4. lk[p] = Fresh
    BY <1>7 DEF lk
  <2>5. QED
    BY <2>3, <2>4
<1>9. Linked(Slab, next', cpu'.partial, PartialList) /\ PartialList' = PartialList
  BY <1>2, <1>8, SameLists
<1>10. Waiting' = Waiting
  BY <1>2, <1>9 DEF Waiting
<1>11. /\ LiveOf(live', p) = {1}
       /\ \A s : s # p => LiveOf(live', s) = LiveOf(live, s)
  <2>1. LiveOf(live, p) = {}
    BY DEF Sound
  <2>2. QED
    BY <1>5, <1>8, <2>1, LiveAdd
<1>12. Typed'
  <2>1. live' \subseteq Slab \X Obj
    BY <1>3, <1>4, <1>5, <1>8 DEF Typed
  <2>2. PerSlab \in Uses
    BY SlubAssumption DEF Uses
  <2>3. inuse' \in [Slab -> Uses] /\ frozen' \in [Slab -> BOOLEAN]
    BY <1>1, <1>3, <2>2 DEF Typed
  <2>4. pool' \subseteq Slab
    BY <1>1, <1>3 DEF Typed
  <2>5. QED
    BY <1>2, <1>3, <1>7, <1>8, <2>1, <2>3, <2>4 DEF Typed
<1>13. Once'
  <2>1. cpu'.page \notin Waiting \cup (pool \ {p})
    BY <1>4, <1>8
  <2>2. QED
    BY <1>1, <1>2, <1>3, <1>9, <1>10, <2>1 DEF Once
<1>14. ASSUME cpu'.page # Null
       PROVE  FreeAt(link'[cpu'.page], cpu'.freelist, LiveOf(live', cpu'.page))
  <2>1. FreeAt(Fresh, Fresh[1], {} \cup {1})
    <3>1. 1 # Null
      BY DEF Null
    <3>2. QED
      BY <3>1, FreeFresh, FreeTail
  <2>2. {} \cup {1} = {1}
    OBVIOUS
  <2>3. cpu'.page = p /\ cpu'.freelist = Fresh[1] /\ link'[p] = Fresh
    BY <1>7, <1>8, <1>14
  <2>4. QED
    BY <1>11, <2>1, <2>2, <2>3
<1>15. ASSUME NEW s \in Waiting
       PROVE  WaitsAt(link'[s], freeList'[s], inuse'[s], LiveOf(live', s))
  <2>1. s # p /\ s \in Slab
    BY <1>4, Places
  <2>2. link'[s] = link[s] /\ inuse'[s] = inuse[s] /\ freeList'[s] = freeList[s]
    BY <1>1, <1>2, <1>3, <2>1 DEF Typed
  <2>3. LiveOf(live', s) \subseteq LiveOf(live, s)
    BY <1>11, <2>1
  <2>4. QED
    BY <2>2, <2>3, WaitsKept
<1>16. ASSUME NEW s \in pool \ {p} PROVE LiveOf(live', s) = {}
  BY <1>11 DEF Sound
<1>17. ASSUME NEW s \in Slab \ (pool \ {p})
       PROVE  frozen'[s] /\ (freeList'[s] = Null => inuse'[s] = PerSlab)
  <2>1. CASE s = p
    BY <1>1, <1>3, <1>4, <2>1 DEF Typed
  <2>2. CASE s # p
    <3>1. frozen'[s] = frozen[s] /\ inuse'[s] = inuse[s] /\ freeList'[s] = freeList[s]
      BY <1>1, <1>2, <1>3, <2>2 DEF Typed
    <3>2. frozen[s] /\ (freeList[s] = Null => inuse[s] = PerSlab)
      BY <2>2 DEF Sound
    <3>3. QED
      BY <3>1, <3>2
  <2>3. QED
    BY <2>1, <2>2
<1>18. QED
  BY <1>1, <1>9, <1>10, <1>12, <1>13, <1>14, <1>15, <1>16, <1>17 DEF Sound
-----------------------------------------------------------------------------
(* Frees.                                                                    *)
LEMMA LessOne ==
  ASSUME NEW n \in Uses
  PROVE  Less1(n) \in Uses /\ (n # 0 => Less1(n) = n - 1)
<1>1. n \in Nat /\ n < 32768
  BY DEF Uses
<1>2. (n - 1) % 32768 \in Nat /\ (n - 1) % 32768 < 32768 /\ (n # 0 => (n - 1) % 32768 = n - 1)
  BY <1>1
<1>3. QED
  BY <1>2 DEF Less1, Uses

(* One object fewer is held.                                                 *)
LEMMA OneFewer ==
  ASSUME NEW s, NEW o \in LiveOf(live, s), NEW n \in Uses, Cardinality(LiveOf(live, s)) <= n
  PROVE  Cardinality(LiveOf(live, s) \ {o}) <= Less1(n)
<1>1. IsFiniteSet(LiveOf(live, s)) /\ Cardinality(LiveOf(live, s)) \in Nat
  BY LiveCount
<1>2. Cardinality(LiveOf(live, s) \ {o}) = Cardinality(LiveOf(live, s)) - 1
  BY <1>1, FS_RemoveElement
<1>3. Cardinality(LiveOf(live, s) \ {o}) \in Nat
  BY <1>1, FS_RemoveElement, FS_CardinalityType
<1>4. n \in Nat
  BY DEF Uses
<1>5. Less1(n) = n - 1
  BY <1>1, <1>2, <1>3, <1>4, LessOne
<1>6. QED
  BY <1>1, <1>2, <1>4, <1>5

(* Insert, in a slab whose free list may be anything.                        *)
LEMMA InsertTyped ==
  ASSUME Typed, NEW s \in Slab, NEW g \in ObjOrNull, NEW o \in Obj,
         StopsSomewhere(s, g, o), link' = Insert(s, g, o)
  PROVE  /\ link' \in [Slab -> [Obj -> ObjOrNull]]
         /\ \A t \in Slab : t # s => link'[t] = link[t]
         /\ \E x \in Obj : /\ x = Place(s, g, o)
                           /\ link'[s] = [[link[s] EXCEPT ![x] = o] EXCEPT ![o] = link[s][x]]
<1>1. link \in [Slab -> [Obj -> ObjOrNull]] /\ link[s] \in [Obj -> ObjOrNull]
  BY DEF Typed
<1>2. PICK x \in Obj : x = Place(s, g, o)
  BY <1>1, PlaceTyped
<1>3. link' = [link EXCEPT ![s][x] = o, ![s][o] = link[s][x]]
  BY <1>2 DEF Insert
<1> DEFINE a == [link[s] EXCEPT ![x] = o]
           b == [a EXCEPT ![o] = link[s][x]]
<1>4. a \in [Obj -> ObjOrNull]
  BY <1>1, <1>2 DEF ObjOrNull
<1>5. link[s][x] \in ObjOrNull
  BY <1>1, <1>2
<1>6. b \in [Obj -> ObjOrNull]
  <2> HIDE DEF a
  <2>1. QED
    BY <1>4, <1>5
<1>7. link' = [link EXCEPT ![s] = b]
  BY <1>1, <1>3
<1>8. link'[s] = b
  <2> HIDE DEF b
  <2>1. QED
    BY <1>1, <1>7
<1>9. link' \in [Slab -> [Obj -> ObjOrNull]] /\ \A t \in Slab : t # s => link'[t] = link[t]
  <2> HIDE DEF b
  <2>1. QED
    BY <1>1, <1>6, <1>7
<1>10. QED
  BY <1>2, <1>8, <1>9

(* In a free list that the cache can reach it makes the object an entry.     *)
LEMMA FreeInsert ==
  ASSUME Typed, NEW s \in Slab, NEW h, NEW C, Listed(link[s], h, C),
         NEW g, NEW D \in SUBSET C, Listed(link[s], g, D), g # Null,
         NEW o \in Obj \ C, link' = Insert(s, g, o)
  PROVE  Listed(link'[s], h, C \cup {o})
<1>1. StopsSomewhere(s, g, o) /\ Place(s, g, o) \in D
  BY ListedPlace
<1>2. g \in ObjOrNull
  BY LinkedNodes, ObjSet DEF Listed, ObjOrNull
<1>3. PICK x \in Obj : /\ x = Place(s, g, o)
                       /\ link'[s] = [[link[s] EXCEPT ![x] = o] EXCEPT ![o] = link[s][x]]
  BY <1>1, <1>2, InsertTyped
<1>4. link[s] \in [Obj -> ObjOrNull]
  BY DEF Typed
<1>5. C \subseteq Obj /\ x \in C /\ x # o
  BY <1>1, <1>3, LinkedNodes, ObjSet DEF Listed
<1>6. link'[s][x] = o /\ link'[s][o] = link[s][x]
  BY <1>3, <1>4, <1>5
<1>7. \A y \in C \ {x} : link'[s][y] = link[s][y]
  BY <1>3, <1>4, <1>5
<1>8. Linked(Obj, link'[s], h, C \cup {o})
  BY <1>5, <1>6, <1>7, LinkedInsert DEF Listed
<1>9. QED
  BY <1>8 DEF Listed

(* Whoever frees an object holds it, so that it is on no free list.          *)
LEMMA Holder ==
  ASSUME Sound, NEW s, NEW o, <<s, o>> \in live
  PROVE  /\ s \in Slab /\ o \in Obj /\ s \notin pool /\ frozen[s]
         /\ o \in LiveOf(live, s)
<1>1. <<s, o>> \in Slab \X Obj
  BY DEF Sound, Typed
<1>2. s \in Slab /\ o \in Obj
  BY <1>1
<1>3. o \in LiveOf(live, s)
  BY <1>2 DEF LiveOf
<1>4. s \notin pool
  BY <1>3 DEF Sound
<1>5. QED
  BY <1>2, <1>3, <1>4 DEF Sound

LEMMA FreeFrontStep ==
  ASSUME Sound, NEW s, NEW o, <<s, o>> \in live, FreeFront(s, o), fate' = "ok"
  PROVE  Sound'
<1>1. /\ fate = "ok" /\ cpu.page = s /\ live' = live \ {<<s, o>>}
      /\ UNCHANGED <<freeList, inuse, pobjects, frozen, next, pool, cpu, node>>
  BY DEF FreeFront, lists
<1>2. Typed /\ Once
  BY DEF Sound
<1>3. s \in Slab /\ o \in Obj /\ s \notin Waiting /\ s # Null /\ o \in LiveOf(live, s)
  BY <1>1, <1>2, Holder, SlabSet DEF Once
<1>4. /\ LiveOf(live', s) = LiveOf(live, s) \ {o}
      /\ \A t : t # s => LiveOf(live', t) = LiveOf(live, t)
  BY <1>1, LiveSub
<1>5. PICK C : Listed(link[s], cpu.freelist, C) /\ C \cap LiveOf(live, s) = {}
  BY <1>1, <1>3 DEF Sound, FreeAt
<1>6. /\ link' \in [Slab -> [Obj -> ObjOrNull]]
      /\ \A t \in Slab : t # s => link'[t] = link[t]
      /\ FreeAt(link'[s], cpu.freelist, LiveOf(live', s))
  <2> DEFINE h == cpu.freelist
             g == IF h = Null THEN Null ELSE link[s][h]
  <2>1. \/ link' = link
        \/ g # Null /\ link' = Insert(s, g, o)
    BY <1>1 DEF FreeFront
  <2>2. CASE link' = link
    <3>1. FreeAt(link[s], cpu.freelist, LiveOf(live', s))
      BY <1>1, <1>3, <1>4, FreeLess DEF Sound
    <3>2. QED
      BY <1>2, <2>2, <3>1 DEF Typed
  <2>3. CASE g # Null /\ link' = Insert(s, g, o)
    <3>1. h # Null /\ g = link[s][h]
      BY <2>3
    <3>2. Listed(link[s], g, C \ {h})
      BY <1>5, <3>1, LinkedTail, ObjSet DEF Listed
    <3>3. C \ {h} \in SUBSET C /\ o \in Obj \ C
      BY <1>3, <1>5
    <3>4. Listed(link'[s], h, C \cup {o})
      <4> HIDE DEF g, h
      <4>1. PICK f, d : f = h /\ d = g
        OBVIOUS
      <4>2. Listed(link[s], f, C) /\ Listed(link[s], d, C \ {f}) /\ d # Null
            /\ C \ {f} \in SUBSET C /\ link' = Insert(s, d, o)
        BY <1>5, <2>3, <3>2, <3>3, <4>1 DEF h
      <4>3. Listed(link'[s], f, C \cup {o})
        BY <1>2, <1>3, <3>3, <4>2, FreeInsert
      <4>4. QED
        BY <4>1, <4>3
    <3>5. (C \cup {o}) \cap LiveOf(live', s) = {}
      BY <1>4, <1>5
    <3>6. g \in ObjOrNull /\ StopsSomewhere(s, g, o)
      <4>1. cpu.freelist \in ObjOrNull /\ Null \in ObjOrNull
        BY Places DEF ObjOrNull
      <4>2. h \in Obj
        BY <3>1, <4>1 DEF ObjOrNull
      <4>3. g \in ObjOrNull
        BY <1>2, <1>3, <3>1, <4>2 DEF Typed
      <4>4. StopsSomewhere(s, g, o)
        BY <2>3, <3>2, ListedPlace
      <4>5. QED
        BY <4>3, <4>4
    <3>7. /\ link' \in [Slab -> [Obj -> ObjOrNull]]
          /\ \A t \in Slab : t # s => link'[t] = link[t]
      <4> HIDE DEF g, h
      <4>1. PICK d : d = g
        OBVIOUS
      <4>2. d \in ObjOrNull /\ StopsSomewhere(s, d, o) /\ link' = Insert(s, d, o)
        BY <2>3, <3>6, <4>1
      <4>3. QED
        BY <1>2, <1>3, <4>2, InsertTyped
    <3>8. QED
      BY <3>4, <3>5, <3>7 DEF FreeAt
  <2>4. QED
    BY <2>1, <2>2, <2>3
<1>7. Linked(Slab, next', cpu'.partial, PartialList) /\ PartialList' = PartialList
  BY <1>1, SameLists
<1>8. Waiting' = Waiting
  BY <1>1, <1>7 DEF Waiting
<1>9. Typed'
  <2>1. live' \subseteq Slab \X Obj
    BY <1>1, <1>2 DEF Typed
  <2>2. QED
    BY <1>1, <1>2, <1>6, <2>1 DEF Typed
<1>10. Once'
  BY <1>1, <1>2, <1>7, <1>8 DEF Once
<1>11. FreeAt(link'[cpu'.page], cpu'.freelist, LiveOf(live', cpu'.page))
  BY <1>1, <1>6
<1>12. ASSUME NEW t \in Waiting
       PROVE  WaitsAt(link'[t], freeList'[t], inuse'[t], LiveOf(live', t))
  <2>1. t # s /\ t \in Slab
    BY <1>3, Places
  <2>2. link'[t] = link[t] /\ inuse'[t] = inuse[t] /\ freeList'[t] = freeList[t]
    BY <1>1, <1>6, <2>1
  <2>3. LiveOf(live', t) \subseteq LiveOf(live, t)
    BY <1>4, <2>1
  <2>4. QED
    BY <2>2, <2>3, WaitsKept
<1>13. ASSUME NEW t \in pool PROVE LiveOf(live', t) = {}
  <2>1. t # s
    BY Holder
  <2>2. QED
    BY <1>4, <2>1 DEF Sound
<1>14. \A t \in Slab \ pool : frozen[t] /\ (freeList[t] = Null => inuse[t] = PerSlab)
  BY DEF Sound
<1>15. QED
  BY <1>1, <1>7, <1>8, <1>9, <1>10, <1>11, <1>12, <1>13, <1>14 DEF Sound
LEMMA RevivesStep ==
  ASSUME Sound, NEW s, NEW o, <<s, o>> \in live, FreeRevives(s, o), fate' = "ok"
  PROVE  Sound'
<1>1. /\ fate = "ok" /\ cpu.page # s /\ freeList[s] = Null
      /\ live' = live \ {<<s, o>>}
      /\ freeList' = [freeList EXCEPT ![s] = o]
      /\ link' = [link EXCEPT ![s][o] = Null]
      /\ inuse' = [inuse EXCEPT ![s] = Less1(@)]
      /\ UNCHANGED <<frozen, pool>>
  BY DEF FreeRevives, Alone
<1>2. Typed /\ Once
  BY DEF Sound
<1>3. s \in Slab /\ o \in Obj /\ s \notin pool /\ o \in LiveOf(live, s) /\ o # Null
  BY Holder, ObjSet
<1>4. s \notin Waiting
  BY <1>1 DEF Sound, WaitsAt
<1>5. /\ LiveOf(live', s) = LiveOf(live, s) \ {o}
      /\ \A t : t # s => LiveOf(live', t) = LiveOf(live, t)
  BY <1>1, LiveSub
<1>6. /\ link' \in [Slab -> [Obj -> ObjOrNull]] /\ link'[s][o] = Null
      /\ \A t \in Slab : t # s => link'[t] = link[t]
  BY <1>1, <1>2, <1>3 DEF Typed, ObjOrNull
<1>7. /\ freeList' \in [Slab -> ObjOrNull] /\ freeList'[s] = o
      /\ \A t \in Slab : t # s => freeList'[t] = freeList[t]
  BY <1>1, <1>2, <1>3 DEF Typed, ObjOrNull
<1>8. /\ inuse' \in [Slab -> Uses] /\ inuse'[s] = Less1(inuse[s])
      /\ \A t \in Slab : t # s => inuse'[t] = inuse[t]
  <2>1. inuse \in [Slab -> Uses] /\ inuse[s] \in Uses
    BY <1>2, <1>3 DEF Typed
  <2>2. Less1(inuse[s]) \in Uses
    BY <2>1, LessOne
  <2>3. QED
    BY <1>1, <1>3, <2>1, <2>2
<1>9. pobjects' \in [Slab -> Int]
  <2> DEFINE total == (pobjects[s] + 1 +
                       (IF cpu.partial = Null THEN 0 ELSE pobjects[cpu.partial])) % Word
  <2>1. pobjects' = [pobjects EXCEPT ![s] = total]
    BY DEF FreeRevives
  <2>2. pobjects \in [Slab -> Int]
    BY <1>2 DEF Typed
  <2>3. cpu.partial \in SlabOrNull
    BY Places
  <2>4. total \in Int
    <3>1. pobjects[s] \in Int
      BY <1>3, <2>2
    <3>2. cpu.partial # Null => pobjects[cpu.partial] \in Int
      BY <2>2, <2>3 DEF SlabOrNull
    <3>3. Word \in Nat \ {0}
      BY SlubAssumption
    <3>4. QED
      BY <3>1, <3>2, <3>3
  <2> HIDE DEF total
  <2>5. QED
    BY <2>1, <2>2, <2>4
<1>10. \/ /\ next' = [next EXCEPT ![s] = cpu.partial]
          /\ cpu' = [cpu EXCEPT !.partial = s]
          /\ node' = node
       \/ node' = <<s>> \o node /\ next' = next /\ cpu' = cpu
  BY DEF FreeRevives
<1>11. /\ Typed' /\ Once' /\ Waiting' = Waiting \cup {s}
       /\ \E D : Linked(Slab, next', cpu'.partial, D)
       /\ cpu'.page = cpu.page /\ cpu'.freelist = cpu.freelist
  <2>1. live' \subseteq Slab \X Obj
    BY <1>1, <1>2 DEF Typed
  <2>2. Null \notin Waiting \cup pool \cup {s}
    BY <1>2, <1>3, Places, SlabSet DEF Typed
  <2>3. CASE /\ next' = [next EXCEPT ![s] = cpu.partial]
             /\ cpu' = [cpu EXCEPT !.partial = s]
             /\ node' = node
    <3>1. next' \in [Slab -> SlabOrNull] /\ next'[s] = cpu.partial
          /\ \A t \in Slab : t # s => next'[t] = next[t]
      BY <1>2, <1>3, <2>3, Places DEF Typed
    <3>2. /\ cpu' \in [page : SlabOrNull, freelist : ObjOrNull, partial : SlabOrNull]
          /\ cpu'.page = cpu.page /\ cpu'.freelist = cpu.freelist /\ cpu'.partial = s
      BY <1>2, <1>3, <2>3 DEF Typed, SlabOrNull
    <3>3. Linked(Slab, next', cpu'.partial, PartialList \cup {s})
      <4>1. s \in Slab \ PartialList /\ \A t \in PartialList : next'[t] = next[t]
        BY <1>3, <1>4, <3>1, Places DEF Waiting
      <4>2. Linked(Slab, next', s, PartialList \cup {s})
        BY <3>1, <4>1, Places, LinkedPush
      <4>3. QED
        BY <3>2, <4>2
    <3>4. PartialList' = PartialList \cup {s}
      BY <3>3, PartialIs
    <3>5. Waiting' = Waiting \cup {s}
      BY <2>3, <3>4 DEF Waiting
    <3>6. Typed'
      BY <1>1, <1>2, <1>6, <1>7, <1>8, <1>9, <2>1, <2>3, <3>1, <3>2 DEF Typed
    <3>7. Once'
      <4>1. cpu.page \notin (Waiting \cup {s}) \cup pool
        BY <1>1, <1>2 DEF Once
      <4>2. (PartialList \cup {s}) \cap Range(node) = {}
        BY <1>2, <1>4 DEF Once, Waiting
      <4>3. (Waiting \cup {s}) \cap pool = {}
        BY <1>2, <1>3 DEF Once
      <4>4. QED
        BY <1>1, <1>2, <2>3, <3>2, <3>4, <3>5, <4>1, <4>2, <4>3 DEF Once
    <3>8. QED
      BY <3>2, <3>3, <3>5, <3>6, <3>7
  <2>4. CASE node' = <<s>> \o node /\ next' = next /\ cpu' = cpu
    <3>1. Linked(Slab, next', cpu'.partial, PartialList) /\ PartialList' = PartialList
      BY <2>4, SameLists
    <3>2. /\ node' \in Seq(Slab) /\ node \in Seq(Slab) /\ DOMAIN node = 1 .. Len(node)
          /\ DOMAIN node' = 1 .. Len(node) + 1 /\ Len(node) \in Nat /\ node'[1] = s
          /\ \A i \in 1 .. Len(node) : node'[i + 1] = node[i]
      BY <1>2, <1>3, <2>4 DEF Typed
    <3>3. Range(node') = Range(node) \cup {s}
      <4>1. ASSUME NEW x \in Range(node') PROVE x \in Range(node) \cup {s}
        <5>1. PICK i \in 1 .. Len(node) + 1 : x = node'[i]
          BY <3>2 DEF Range
        <5>2. CASE i = 1
          BY <3>2, <5>1, <5>2
        <5>3. CASE i # 1
          <6>1. i - 1 \in 1 .. Len(node) /\ (i - 1) + 1 = i
            BY <3>2, <5>3
          <6>2. x = node[i - 1]
            BY <3>2, <5>1, <6>1
          <6>3. QED
            BY <3>2, <6>1, <6>2 DEF Range
        <5>4. QED
          BY <5>2, <5>3
      <4>2. ASSUME NEW x \in Range(node) PROVE x \in Range(node')
        <5>1. PICK i \in 1 .. Len(node) : x = node[i]
          BY <3>2 DEF Range
        <5>2. i + 1 \in 1 .. Len(node) + 1 /\ node'[i + 1] = x
          BY <3>2, <5>1
        <5>3. QED
          BY <3>2, <5>2 DEF Range
      <4>3. s \in Range(node')
        BY <3>2 DEF Range
      <4>4. QED
        BY <4>1, <4>2, <4>3
    <3>4. IsInjective(node')
      <4>1. \A i, j \in 1 .. Len(node) : node[i] = node[j] => i = j
        BY <1>2, <3>2 DEF Once, IsInjective
      <4>2. \A i \in 1 .. Len(node) : node[i] # s
        BY <1>4, <3>2 DEF Waiting, Range
      <4>3. ASSUME NEW i \in 1 .. Len(node) + 1, NEW j \in 1 .. Len(node) + 1,
                   node'[i] = node'[j]
            PROVE  i = j
        <5>1. ASSUME NEW k \in 1 .. Len(node) + 1, k # 1
              PROVE  k - 1 \in 1 .. Len(node) /\ node'[k] = node[k - 1]
          <6>1. k - 1 \in 1 .. Len(node) /\ (k - 1) + 1 = k
            BY <3>2, <5>1
          <6>2. QED
            BY <3>2, <6>1
        <5>2. CASE i = 1 \/ j = 1
          BY <3>2, <4>2, <4>3, <5>1, <5>2
        <5>3. CASE i # 1 /\ j # 1
          <6>1. /\ i - 1 \in 1 .. Len(node) /\ j - 1 \in 1 .. Len(node)
                /\ node[i - 1] = node[j - 1]
            BY <4>3, <5>1, <5>3
          <6>2. i - 1 = j - 1
            BY <4>1, <6>1
          <6>3. QED
            BY <3>2, <6>2
        <5>4. QED
          BY <5>2, <5>3
      <4>4. QED
        BY <3>2, <4>3 DEF IsInjective
    <3>5. Waiting' = Waiting \cup {s}
      BY <3>1, <3>3 DEF Waiting
    <3>6. Typed'
      BY <1>1, <1>2, <1>6, <1>7, <1>8, <1>9, <2>1, <2>4, <3>2 DEF Typed
    <3>7. Once'
      <4>1. cpu.page \notin (Waiting \cup {s}) \cup pool
        BY <1>1, <1>2 DEF Once
      <4>2. PartialList \cap (Range(node) \cup {s}) = {}
        BY <1>2, <1>4 DEF Once, Waiting
      <4>3. (Waiting \cup {s}) \cap pool = {}
        BY <1>2, <1>3 DEF Once
      <4>4. QED
        BY <1>1, <2>4, <3>1, <3>3, <3>4, <3>5, <4>1, <4>2, <4>3 DEF Once
    <3>8. QED
      BY <2>4, <3>1, <3>5, <3>6, <3>7
  <2>5. QED
    BY <1>10, <2>3, <2>4
<1>12. ASSUME cpu'.page # Null
       PROVE  FreeAt(link'[cpu'.page], cpu'.freelist, LiveOf(live', cpu'.page))
  <2>1. PICK p : p = cpu.page
    OBVIOUS
  <2>2. p # s /\ p \in Slab /\ p # Null
    BY <1>1, <1>11, <1>12, <2>1, Places DEF SlabOrNull
  <2>3. FreeAt(link[p], cpu.freelist, LiveOf(live, p))
    BY <2>1, <2>2 DEF Sound
  <2>4. link'[p] = link[p] /\ LiveOf(live', p) = LiveOf(live, p)
    BY <1>5, <1>6, <2>2
  <2>5. QED
    BY <1>11, <2>1, <2>3, <2>4
<1>13. ASSUME NEW t \in Waiting'
       PROVE  WaitsAt(link'[t], freeList'[t], inuse'[t], LiveOf(live', t))
  <2>1. CASE t = s
    <3>1. FreeAt(link'[s], o, LiveOf(live', s))
      BY <1>3, <1>5, <1>6, FreeAlone
    <3>2. Cardinality(LiveOf(live', s)) <= inuse'[s]
      <4>1. inuse[s] = PerSlab
        BY <1>1, <1>3 DEF Sound
      <4>2. Cardinality(LiveOf(live, s)) <= PerSlab
        BY LiveCount
      <4>3. PerSlab \in Uses
        BY SlubAssumption DEF Uses
      <4>4. inuse[s] \in Uses /\ Cardinality(LiveOf(live, s)) <= inuse[s]
        BY <4>1, <4>2, <4>3
      <4>5. Cardinality(LiveOf(live, s) \ {o}) <= Less1(inuse[s])
        BY <1>3, <4>4, OneFewer
      <4>6. QED
        BY <1>5, <1>8, <4>5
    <3>3. QED
      BY <1>3, <1>7, <2>1, <3>1, <3>2 DEF WaitsAt
  <2>2. CASE t # s
    <3>1. t \in Waiting /\ t \in Slab
      BY <1>11, <2>2, Places
    <3>2. link'[t] = link[t] /\ inuse'[t] = inuse[t] /\ freeList'[t] = freeList[t]
      BY <1>6, <1>7, <1>8, <2>2, <3>1
    <3>3. LiveOf(live', t) \subseteq LiveOf(live, t)
      BY <1>5, <2>2
    <3>4. QED
      BY <3>1, <3>2, <3>3, WaitsKept
  <2>3. QED
    BY <2>1, <2>2
<1>14. ASSUME NEW t \in pool PROVE LiveOf(live', t) = {}
  BY <1>3, <1>5 DEF Sound
<1>15. ASSUME NEW t \in Slab \ pool
       PROVE  frozen[t] /\ (freeList'[t] = Null => inuse'[t] = PerSlab)
  <2>1. frozen[t] /\ (freeList[t] = Null => inuse[t] = PerSlab)
    BY DEF Sound
  <2>2. CASE t = s
    BY <1>3, <1>7, <2>1, <2>2
  <2>3. CASE t # s
    BY <1>7, <1>8, <2>1, <2>3
  <2>4. QED
    BY <2>2, <2>3
<1>16. QED
  BY <1>1, <1>11, <1>12, <1>13, <1>14, <1>15 DEF Sound
(* A slab that is given back leaves the CPU's partial list, where it was.    *)
LEMMA DiscardStep ==
  ASSUME Sound, NEW s \in Slab, frozen[s], Discard(s), fate = "ok", fate' = "ok"
  PROVE  /\ s \in PartialList
         /\ pool' = pool \cup {s}
         /\ node' = node
         /\ next' \in [Slab -> SlabOrNull]
         /\ cpu' \in [page : SlabOrNull, freelist : ObjOrNull, partial : SlabOrNull]
         /\ cpu'.page = cpu.page /\ cpu'.freelist = cpu.freelist
         /\ pobjects' \in [Slab -> Int]
         /\ Linked(Slab, next', cpu'.partial, PartialList \ {s})
<1>1. s \in PartialList
  BY DEF Discard
<1>2. /\ pool' = pool \cup {s}
      /\ node' = node
      /\ pobjects' = IF cpu.page = Null THEN pobjects
                     ELSE [pobjects EXCEPT ![cpu.page] = (@ + 1 - PerSlab) % Word]
      /\ IF cpu.partial = s
         THEN cpu' = [cpu EXCEPT !.partial = next[s]] /\ next' = next
         ELSE /\ next' = [t \in Slab |-> IF t \in PartialList /\ next[t] = s
                                         THEN next[s] ELSE next[t]]
              /\ cpu' = cpu
  BY <1>1 DEF Discard
<1>3. /\ next \in [Slab -> SlabOrNull] /\ pobjects \in [Slab -> Int]
      /\ cpu \in [page : SlabOrNull, freelist : ObjOrNull, partial : SlabOrNull]
  BY DEF Sound, Typed
<1>4. pobjects' \in [Slab -> Int]
  <2>1. PICK p : p = cpu.page
    OBVIOUS
  <2>2. pobjects' = pobjects \/ pobjects' = [pobjects EXCEPT ![p] = (pobjects[p] + 1 - PerSlab) % Word]
    BY <1>2, <2>1
  <2>3. p \in Slab => ((pobjects[p] + 1 - PerSlab) % Word) \in Int
    BY <1>3, ObjSet, SlubAssumption
  <2>4. QED
    BY <1>3, <2>2, <2>3
<1>5. Linked(Slab, next, cpu.partial, PartialList) /\ PartialList \subseteq Slab
  BY Places
<1>6. CASE cpu.partial = s
  <2>1. cpu' = [cpu EXCEPT !.partial = next[s]] /\ next' = next /\ next[s] \in SlabOrNull
    BY <1>2, <1>3, <1>6
  <2>2. /\ cpu' \in [page : SlabOrNull, freelist : ObjOrNull, partial : SlabOrNull]
        /\ cpu'.page = cpu.page /\ cpu'.freelist = cpu.freelist /\ cpu'.partial = next[s]
    BY <1>3, <2>1
  <2>3. Linked(Slab, next, next[s], PartialList \ {s})
    BY <1>5, <1>6, LinkedTail, SlabSet
  <2>4. QED
    BY <1>1, <1>2, <1>3, <1>4, <2>1, <2>2, <2>3
<1>7. CASE cpu.partial # s
  <2>1. /\ next' = [t \in Slab |-> IF t \in PartialList /\ next[t] = s
                                   THEN next[s] ELSE next[t]]
        /\ cpu' = cpu
    BY <1>2, <1>7
  <2>2. next' \in [Slab -> SlabOrNull]
    BY <1>3, <2>1
  <2>3. \A t \in PartialList : next'[t] = IF next[t] = s THEN next[s] ELSE next[t]
    BY <1>5, <2>1
  <2>4. Linked(Slab, next', cpu.partial, PartialList \ {s})
    BY <1>1, <1>5, <1>7, <2>3, LinkedRemove, SlabSet
  <2>5. QED
    BY <1>1, <1>2, <1>3, <1>4, <2>1, <2>2, <2>4
<1>8. QED
  BY <1>6, <1>7

LEMMA JoinsStep ==
  ASSUME Sound, NEW s, NEW o, <<s, o>> \in live, FreeJoins(s, o), fate' = "ok"
  PROVE  Sound'
<1>1. PICK h : h = freeList[s]
  OBVIOUS
<1>2. /\ fate = "ok" /\ cpu.page # s /\ h # Null
      /\ live' = live \ {<<s, o>>}
      /\ StopsSomewhere(s, h, o) /\ link' = Insert(s, h, o)
      /\ inuse' = [inuse EXCEPT ![s] = Less1(@)]
      /\ UNCHANGED <<freeList, frozen>>
  BY <1>1 DEF FreeJoins
<1>3. Typed /\ Once
  BY DEF Sound
<1>4. s \in Slab /\ o \in Obj /\ s \notin pool /\ o \in LiveOf(live, s) /\ frozen[s]
  BY Holder
<1>5. /\ LiveOf(live', s) = LiveOf(live, s) \ {o}
      /\ \A t : t # s => LiveOf(live', t) = LiveOf(live, t)
  BY <1>2, LiveSub
<1>6. h \in ObjOrNull
  BY <1>1, <1>3, <1>4 DEF Typed
<1>7. /\ link' \in [Slab -> [Obj -> ObjOrNull]]
      /\ \A t \in Slab : t # s => link'[t] = link[t]
  BY <1>2, <1>3, <1>4, <1>6, InsertTyped
<1>8. /\ inuse' \in [Slab -> Uses] /\ inuse'[s] = Less1(inuse[s]) /\ inuse[s] \in Uses
      /\ \A t \in Slab : t # s => inuse'[t] = inuse[t]
  <2>1. inuse \in [Slab -> Uses] /\ inuse[s] \in Uses
    BY <1>3, <1>4 DEF Typed
  <2>2. Less1(inuse[s]) \in Uses
    BY <2>1, LessOne
  <2>3. QED
    BY <1>2, <1>4, <2>1, <2>2
<1>9. live' \subseteq Slab \X Obj
  BY <1>2, <1>3 DEF Typed
<1>10. ASSUME s \in Waiting
       PROVE  WaitsAt(link'[s], h, inuse'[s], LiveOf(live', s))
  <2>1. WaitsAt(link[s], h, inuse[s], LiveOf(live, s))
    BY <1>1, <1>10 DEF Sound
  <2>2. PICK C : Listed(link[s], h, C) /\ C \cap LiveOf(live, s) = {}
    BY <2>1 DEF WaitsAt, FreeAt
  <2>3. o \in Obj \ C /\ C \in SUBSET C
    BY <1>4, <2>2
  <2>4. Listed(link'[s], h, C \cup {o})
    BY <1>2, <1>3, <1>4, <2>2, <2>3, FreeInsert
  <2>5. (C \cup {o}) \cap LiveOf(live', s) = {}
    BY <1>5, <2>2
  <2>6. Cardinality(LiveOf(live', s)) <= inuse'[s]
    BY <1>4, <1>5, <1>8, <2>1, OneFewer DEF WaitsAt
  <2>7. QED
    BY <1>2, <2>4, <2>5, <2>6 DEF WaitsAt, FreeAt
<1>11. \/ /\ next' = next /\ cpu' = cpu /\ node' = node /\ pool' = pool
          /\ pobjects' \in [Slab -> Int]
       \/ inuse'[s] = 0 /\ Discard(s)
  <2>1. CASE inuse'[s] = 0 /\ MinPartial < nrPartial
    BY <1>1, <1>2, <2>1 DEF FreeJoins
  <2>2. CASE ~(inuse'[s] = 0 /\ MinPartial < nrPartial)
    <3>1. /\ next' = next /\ cpu' = cpu /\ node' = node /\ pool' = pool
          /\ pobjects' = IF frozen[s] /\ cpu.partial # Null
                         THEN [pobjects EXCEPT ![cpu.partial] = (@ + 1) % Word]
                         ELSE pobjects
      BY <1>1, <1>2, <2>2 DEF FreeJoins
    <3>2. pobjects \in [Slab -> Int]
      BY <1>3 DEF Typed
    <3>3. pobjects' \in [Slab -> Int]
      <4>1. PICK p : p = cpu.partial
        OBVIOUS
      <4>2. pobjects' = pobjects \/ pobjects' = [pobjects EXCEPT ![p] = (pobjects[p] + 1) % Word]
        BY <3>1, <4>1
      <4>3. p \in Slab => ((pobjects[p] + 1) % Word) \in Int
        BY <3>2, SlubAssumption
      <4>4. QED
        BY <3>2, <4>2, <4>3
    <3>4. QED
      BY <3>1, <3>3
  <2>3. QED
    BY <2>1, <2>2
<1>12. /\ Typed' /\ Once' /\ Waiting' \subseteq Waiting
       /\ \E D : Linked(Slab, next', cpu'.partial, D)
       /\ cpu'.page = cpu.page /\ cpu'.freelist = cpu.freelist
       /\ pool' = pool \/ (pool' = pool \cup {s} /\ LiveOf(live', s) = {})
  <2>1. CASE /\ next' = next /\ cpu' = cpu /\ node' = node /\ pool' = pool
             /\ pobjects' \in [Slab -> Int]
    <3>1. Linked(Slab, next', cpu'.partial, PartialList) /\ PartialList' = PartialList
      BY <2>1, SameLists
    <3>2. Waiting' = Waiting
      BY <2>1, <3>1 DEF Waiting
    <3>3. Typed'
      BY <1>2, <1>3, <1>7, <1>8, <1>9, <2>1 DEF Typed
    <3>4. Once'
      BY <1>3, <2>1, <3>1, <3>2 DEF Once
    <3>5. QED
      BY <2>1, <3>1, <3>2, <3>3, <3>4
  <2>2. CASE inuse'[s] = 0 /\ Discard(s)
    <3>1. /\ s \in PartialList
          /\ pool' = pool \cup {s}
          /\ node' = node
          /\ next' \in [Slab -> SlabOrNull]
          /\ cpu' \in [page : SlabOrNull, freelist : ObjOrNull, partial : SlabOrNull]
          /\ cpu'.page = cpu.page /\ cpu'.freelist = cpu.freelist
          /\ pobjects' \in [Slab -> Int]
          /\ Linked(Slab, next', cpu'.partial, PartialList \ {s})
      BY <1>2, <1>4, <2>2, DiscardStep
    <3>2. PartialList' = PartialList \ {s}
      BY <3>1, PartialIs
    <3>3. s \in Waiting /\ s \notin Range(node) /\ Waiting' = Waiting \ {s}
      <4>1. s \in Waiting /\ s \notin Range(node)
        BY <1>3, <3>1 DEF Once, Waiting
      <4>2. Waiting' = Waiting \ {s}
        BY <3>1, <3>2, <4>1 DEF Waiting
      <4>3. QED
        BY <4>1, <4>2
    <3>4. LiveOf(live', s) = {}
      <4>1. Cardinality(LiveOf(live', s)) <= 0
        BY <1>10, <2>2, <3>3 DEF WaitsAt
      <4>2. IsFiniteSet(LiveOf(live', s)) /\ Cardinality(LiveOf(live', s)) \in Nat
        <5>1. LiveOf(live', s) \in SUBSET LiveOf(live, s)
          BY <1>5
        <5>2. QED
          BY <5>1, LiveCount
      <4>3. QED
        BY <4>1, <4>2, FS_EmptySet
    <3>5. Typed'
      <4>1. pool' \subseteq Slab
        BY <1>3, <1>4, <3>1 DEF Typed
      <4>2. QED
        BY <1>2, <1>3, <1>7, <1>8, <1>9, <3>1, <4>1 DEF Typed
    <3>6. Once'
      <4>1. cpu.page \notin (Waiting \ {s}) \cup (pool \cup {s})
        BY <1>2, <1>3 DEF Once
      <4>2. (PartialList \ {s}) \cap Range(node) = {}
        BY <1>3 DEF Once
      <4>3. (Waiting \ {s}) \cap (pool \cup {s}) = {}
        BY <1>3 DEF Once
      <4>4. QED
        BY <1>3, <3>1, <3>2, <3>3, <4>1, <4>2, <4>3 DEF Once
    <3>7. QED
      BY <3>1, <3>3, <3>4, <3>5, <3>6
  <2>3. QED
    BY <1>11, <2>1, <2>2
<1>13. ASSUME cpu'.page # Null
       PROVE  FreeAt(link'[cpu'.page], cpu'.freelist, LiveOf(live', cpu'.page))
  <2>1. PICK p : p = cpu.page
    OBVIOUS
  <2>2. p # s /\ p \in Slab /\ p # Null
    BY <1>2, <1>12, <1>13, <2>1, Places DEF SlabOrNull
  <2>3. FreeAt(link[p], cpu.freelist, LiveOf(live, p))
    BY <2>1, <2>2 DEF Sound
  <2>4. link'[p] = link[p] /\ LiveOf(live', p) = LiveOf(live, p)
    BY <1>5, <1>7, <2>2
  <2>5. QED
    BY <1>12, <2>1, <2>3, <2>4
<1>14. ASSUME NEW t \in Waiting'
       PROVE  WaitsAt(link'[t], freeList'[t], inuse'[t], LiveOf(live', t))
  <2>1. t \in Waiting /\ t \in Slab
    BY <1>12, Places
  <2>2. CASE t = s
    BY <1>1, <1>2, <1>10, <2>1, <2>2
  <2>3. CASE t # s
    <3>1. link'[t] = link[t] /\ inuse'[t] = inuse[t] /\ freeList'[t] = freeList[t]
      BY <1>2, <1>7, <1>8, <2>1, <2>3
    <3>2. LiveOf(live', t) \subseteq LiveOf(live, t)
      BY <1>5, <2>3
    <3>3. QED
      BY <2>1, <3>1, <3>2, WaitsKept
  <2>4. QED
    BY <2>2, <2>3
<1>15. ASSUME NEW t \in pool' PROVE LiveOf(live', t) = {}
  <2>1. CASE t = s
    BY <1>4, <1>12, <2>1
  <2>2. CASE t # s
    BY <1>5, <1>12, <2>2 DEF Sound
  <2>3. QED
    BY <2>1, <2>2
<1>16. ASSUME NEW t \in Slab \ pool'
       PROVE  frozen'[t] /\ (freeList'[t] = Null => inuse'[t] = PerSlab)
  <2>1. t \notin pool
    BY <1>12
  <2>2. frozen[t] /\ (freeList[t] = Null => inuse[t] = PerSlab)
    BY <2>1 DEF Sound
  <2>3. CASE t = s
    BY <1>1, <1>2, <2>2, <2>3
  <2>4. CASE t # s
    BY <1>2, <1>8, <2>2, <2>4
  <2>5. QED
    BY <2>3, <2>4
<1>17. QED
  BY <1>12, <1>13, <1>14, <1>15, <1>16 DEF Sound
-----------------------------------------------------------------------------
LEMMA InitSound ==
  Init => IInv
<1> SUFFICES ASSUME Init PROVE Sound
  BY DEF IInv
<1>1. /\ link = [s \in Slab |-> [o \in Obj |-> Null]]
      /\ freeList = [s \in Slab |-> Null]
      /\ inuse = [s \in Slab |-> 0]
      /\ pobjects = [s \in Slab |-> 0]
      /\ frozen = [s \in Slab |-> FALSE]
      /\ next = [s \in Slab |-> Null]
      /\ cpu = [page |-> Null, freelist |-> Null, partial |-> Null]
      /\ node = <<>> /\ pool = Slab /\ live = {}
  BY DEF Init
<1>2. Null \in ObjOrNull /\ Null \in SlabOrNull /\ 0 \in Uses
  BY DEF ObjOrNull, SlabOrNull, Uses
<1>3. Typed
  BY <1>1, <1>2 DEF Typed
<1>4. Linked(Slab, next, cpu.partial, {})
  BY <1>1, LinkedNull
<1>5. PartialList = {}
  BY <1>4, PartialIs
<1>6. Range(node) = {} /\ IsInjective(node)
  BY <1>1 DEF Range, IsInjective
<1>7. Waiting = {}
  BY <1>5, <1>6 DEF Waiting
<1>8. Once
  BY <1>1, <1>5, <1>6, <1>7, SlabSet DEF Once
<1>9. \A s \in pool : LiveOf(live, s) = {}
  BY <1>1 DEF LiveOf
<1>10. cpu.page = Null
  BY <1>1
<1>11. QED
  BY <1>1, <1>3, <1>4, <1>7, <1>8, <1>9, <1>10 DEF Sound

LEMMA NextSound ==
  IInv /\ [Next]_vars => IInv'
<1> SUFFICES ASSUME IInv, [Next]_vars, Ok' PROVE Sound'
  BY DEF IInv
<1>0. fate' = "ok"
  BY DEF Ok
<1>1. CASE UNCHANGED vars
  <2>1. Ok
    BY <1>0, <1>1 DEF Ok, vars
  <2>2. Sound
    BY <2>1 DEF IInv
  <2>3. PartialList' = PartialList
    BY <1>1, <2>2, SameLists DEF vars, slabs, lists
  <2>4. Waiting' = Waiting
    BY <1>1, <2>3 DEF Waiting, vars, lists
  <2>5. Typed' /\ Once'
    BY <1>1, <2>2, <2>3, <2>4 DEF Sound, Typed, Once, vars, slabs, lists
  <2>6. QED
    BY <1>1, <2>2, <2>4, <2>5 DEF Sound, vars, slabs, lists
<1>2. CASE Next
  <2>1. fate = "ok" => Sound
    BY DEF IInv, Ok
  <2>2. CASE AllocFront
    <3>1. Sound
      BY <2>1, <2>2 DEF AllocFront
    <3>2. QED
      BY <1>0, <2>2, <3>1, AllocFrontStep
  <2>3. CASE AllocPartial
    <3>1. Sound
      BY <2>1, <2>3 DEF AllocPartial
    <3>2. QED
      BY <1>0, <2>3, <3>1, AllocPartialStep
  <2>4. CASE AllocNew
    <3>1. Sound
      BY <2>1, <2>4 DEF AllocNew
    <3>2. QED
      BY <1>0, <2>4, <3>1, AllocNewStep
  <2>5. CASE AllocStarves
    BY <1>0, <2>5 DEF AllocStarves
  <2>6. CASE AllocNode
    BY <1>0, <2>6 DEF AllocNode
  <2>7. CASE Free
    <3>1. PICK h \in live : FreeFront(h[1], h[2]) \/ FreeRevives(h[1], h[2])
                            \/ FreeJoins(h[1], h[2])
      BY <2>7 DEF Free
    <3>2. Sound
      BY <2>1, <3>1 DEF FreeFront, FreeRevives, FreeJoins
    <3>3. <<h[1], h[2]>> \in live
      <4>1. h \in Slab \X Obj
        BY <3>2 DEF Sound, Typed
      <4>2. QED
        BY <4>1
    <3>4. QED
      BY <1>0, <3>1, <3>2, <3>3, FreeFrontStep, RevivesStep, JoinsStep
  <2>8. QED
    BY <1>2, <2>2, <2>3, <2>4, <2>5, <2>6, <2>7 DEF Next, Alloc
<1>3. QED
  BY <1>1, <1>2

(* The invariant holds in every state of every behaviour of the cache.       *)
THEOREM SlubInductive == Spec => []IInv
<1>1. QED
  BY InitSound, NextSound, PTL DEF Spec

(* The lists an allocation can reach are what the invariant says of them.    *)
LEMMA Reached ==
  ASSUME Sound
  PROVE  /\ cpu.page # Null =>
              /\ Ends(cpu.page, cpu.freelist)
              /\ Chain(cpu.page, cpu.freelist) \cap LiveOf(live, cpu.page) = {}
         /\ \A s \in Waiting : /\ Ends(s, freeList[s])
                               /\ Chain(s, freeList[s]) \cap LiveOf(live, s) = {}
<1>1. ASSUME NEW s, NEW h, FreeAt(link[s], h, LiveOf(live, s))
      PROVE  Ends(s, h) /\ Chain(s, h) \cap LiveOf(live, s) = {}
  <2>1. PICK C : Listed(link[s], h, C) /\ C \cap LiveOf(live, s) = {}
    BY <1>1 DEF FreeAt
  <2>2. Chain(s, h) = C /\ Ends(s, h)
    BY <2>1, ListedChain
  <2>3. QED
    BY <2>1, <2>2
<1>2. ASSUME cpu.page # Null
      PROVE  /\ Ends(cpu.page, cpu.freelist)
             /\ Chain(cpu.page, cpu.freelist) \cap LiveOf(live, cpu.page) = {}
  <2>1. FreeAt(link[cpu.page], cpu.freelist, LiveOf(live, cpu.page))
    BY <1>2 DEF Sound
  <2>2. QED
    BY <1>1, <2>1
<1>3. ASSUME NEW s \in Waiting
      PROVE  Ends(s, freeList[s]) /\ Chain(s, freeList[s]) \cap LiveOf(live, s) = {}
  <2>1. FreeAt(link[s], freeList[s], LiveOf(live, s))
    BY DEF Sound, WaitsAt
  <2>2. QED
    BY <1>1, <2>1
<1>4. QED
  BY <1>2, <1>3

(* No object that a client holds is on a free list an allocation can reach:  *)
(* kmem_cache_alloc hands nothing out twice, as long as the cache is intact. *)
THEOREM NoObjectTwice == Spec => []FreeNotLive
<1>1. IInv => FreeNotLive
  <2> SUFFICES ASSUME IInv, Ok, NEW h \in live PROVE h[2] \notin FreeIn(h[1])
    BY DEF FreeNotLive
  <2>1. Sound
    BY DEF IInv
  <2>2. PICK s, o : h = <<s, o>> /\ s \in Slab /\ o \in Obj
    <3>1. h \in Slab \X Obj
      BY <2>1 DEF Sound, Typed
    <3>2. QED
      BY <3>1
  <2>3. o \in LiveOf(live, s)
    BY <2>2 DEF LiveOf
  <2>4. s # Null
    BY <2>2, SlabSet
  <2>5. s = cpu.page => o \notin Chain(s, cpu.freelist)
    BY <2>1, <2>3, <2>4, Reached
  <2>6. s \in Waiting => o \notin Chain(s, freeList[s])
    BY <2>1, <2>3, Reached
  <2>7. o \notin FreeIn(s)
    BY <2>5, <2>6 DEF FreeIn
  <2>8. QED
    BY <2>2, <2>7
<1>2. QED
  BY <1>1, SlubInductive, PTL

(* A slab is at the front, on one of the two lists, with the page allocator  *)
(* or out of sight, and in one of these places once.                         *)
THEOREM OnePlace == Spec => []SlabOnce
<1>1. IInv => SlabOnce
  BY DEF IInv, Sound, Once, SlabOnce
<1>2. QED
  BY <1>1, SlubInductive, PTL

(* The lists an allocation can reach end, and so does every insertion into   *)
(* one of them; only a free into a slab out of sight may go round for ever.  *)
THEOREM ListsEnd == Spec => ChainsEnd
<1>1. IInv => ReachableEnd
  BY Reached DEF IInv, ReachableEnd
<1> DEFINE Lost == \E h \in live : /\ live' = live \ {h} /\ freeList[h[1]] # Null
                                   /\ h[1] \notin Waiting \cup {cpu.page}
<1>2. IInv /\ Next /\ Ok /\ fate' = "loop" => Lost
  <2> SUFFICES ASSUME IInv, Next, Ok, fate' = "loop" PROVE Lost
    OBVIOUS
  <2>1. Sound /\ fate = "ok"
    BY DEF IInv, Ok
  <2>2. ~(AllocFront \/ AllocPartial \/ AllocNew \/ AllocStarves \/ AllocNode)
    BY <2>1 DEF AllocFront, AllocPartial, AllocNew, AllocStarves, AllocNode, Take
  <2>3. PICK h \in live : FreeFront(h[1], h[2]) \/ FreeRevives(h[1], h[2])
                          \/ FreeJoins(h[1], h[2])
    BY <2>2 DEF Next, Alloc, Free
  <2>4. PICK s, o : h = <<s, o>> /\ s \in Slab /\ o \in Obj
    <3>1. h \in Slab \X Obj
      BY <2>1 DEF Sound, Typed
    <3>2. QED
      BY <3>1
  <2>5. ~FreeRevives(s, o)
    BY <2>1 DEF FreeRevives
  <2>6. ~FreeFront(s, o)
    <3>1. SUFFICES ASSUME FreeFront(s, o) PROVE FALSE
      OBVIOUS
    <3>2. PICK f : f = cpu.freelist
      OBVIOUS
    <3>3. PICK g : g = IF f = Null THEN Null ELSE link[s][f]
      OBVIOUS
    <3>4. cpu.page = s /\ s # Null /\ g # Null /\ f # Null /\ ~StopsSomewhere(s, g, o)
      BY <2>1, <2>4, <3>1, <3>2, <3>3, SlabSet DEF FreeFront
    <3>5. PICK C : Listed(link[s], f, C)
      BY <2>1, <3>2, <3>4 DEF Sound, FreeAt
    <3>6. Listed(link[s], g, C \ {f})
      BY <3>3, <3>4, <3>5, LinkedTail, ObjSet DEF Listed
    <3>7. QED
      BY <3>4, <3>6, ListedPlace
  <2>7. FreeJoins(s, o)
    BY <2>3, <2>4, <2>5, <2>6
  <2>8. /\ cpu.page # s /\ freeList[s] # Null /\ live' = live \ {<<s, o>>}
    BY <2>7 DEF FreeJoins
  <2>9. s \notin Waiting
    <3>1. SUFFICES ASSUME s \in Waiting PROVE FALSE
      OBVIOUS
    <3>2. PICK f : f = freeList[s]
      OBVIOUS
    <3>3. PICK C : Listed(link[s], f, C)
      BY <2>1, <3>1, <3>2 DEF Sound, WaitsAt, FreeAt
    <3>4. StopsSomewhere(s, f, o)
      BY <2>8, <3>2, <3>3, ListedPlace
    <3>5. frozen[s]
      BY <2>1, <2>4, Holder
    <3>6. fate' = fate \/ fate' = "astray"
      BY <2>7, <3>2, <3>4 DEF FreeJoins, Discard
    <3>7. QED
      BY <2>1, <3>6
  <2>10. QED
    BY <2>4, <2>8, <2>9
<1>3. IInv /\ IInv' /\ [Next]_vars =>
        [ReachableEnd' /\ (Ok /\ fate' = "loop" => Lost)]_vars
  <2>1. IInv' => ReachableEnd'
    BY <1>1, PTL
  <2>2. QED
    BY <1>2, <2>1
<1>4. QED
  BY <1>3, SlubInductive, PTL DEF Spec, ChainsEnd

-----------------------------------------------------------------------------
(* kmalloc and kfree.                                                        *)
(* The frames of a block, and half of what is between two objects of class   *)
(* c: the object's bytes, or the place of its link.                          *)
Taken(b) ==
  IF b.class = NoClass THEN b.page .. b.page + PageCount(b.size) - 1 ELSE {b.page}
Unit(c) == IF Pow2[c] >= Ptr THEN Pow2[c] ELSE Ptr

(* What a cache may be.                                                     *)
AnyCache == {Cache(x[1], x[2], x[3]) : x \in Nat \X Nat \X Nat}

(* The caches that have been made; nothing is handed out before the last.    *)
CachesMade ==
  /\ caches \in Seq(AnyCache)
  /\ caches # <<>> => Len(caches) \in Len(Descriptors) .. Len(Descriptors) + PageShift
  /\ \A c \in Class : Len(Descriptors) + c + 1 <= Len(caches) =>
       Small(c).offset = Unit(c) /\ Small(c).object = 2 * Unit(c)
  /\ blocks # {} \/ slab # {} => Len(caches) = Len(Descriptors) + PageShift

(* A slab is no free frame, and its word points to its cache.                *)
SlabsKept ==
  /\ free \subseteq Frame /\ slab \subseteq Frame /\ word \in [Frame -> Int]
  /\ \A f \in slab : f \notin free /\ \E c \in Class : word[f] = CachePtr(c)

ObjectKept(b) ==
  /\ b.class \in Class /\ b.page \in slab /\ word[b.page] = CachePtr(b.class)
  /\ b.slot \in Slots(b.class) /\ <<b.page, b.slot>> \in used
  /\ b.size \in Nat /\ b.size <= Pow2[b.class]
PagesKept(b) ==
  /\ b.class = NoClass /\ b.page \in kmem /\ b.page \in Frame /\ b.slot = 0
  /\ b.size \in Nat /\ PageCount(b.size) \in 1 .. 4
  /\ b.size <= PageCount(b.size) * PageSize
  /\ word[b.page] = PageCount(b.size)
  /\ Taken(b) \subseteq Frame /\ Taken(b) \cap (free \cup slab) = {}
Apart(b, d) ==
  \/ Taken(b) \cap Taken(d) = {}
  \/ b.class # NoClass /\ d.class # NoClass /\ b.slot # d.slot

KmallocInv ==
  /\ CachesMade /\ SlabsKept
  /\ \A b \in blocks : ObjectKept(b) \/ PagesKept(b)
  /\ \A b, d \in blocks : b # d => Apart(b, d)

-----------------------------------------------------------------------------
(* Functions that are defined by recursion: each value from an earlier one,  *)
(* with a at 0 and s[<<n, the value at p[n]>>] at n.                         *)
Steps(V, a, p, s) ==
  /\ a \in V /\ s \in [Nat \X V -> V]
  /\ p \in [Nat -> Nat] /\ \A n \in Nat \ {0} : p[n] < n
Follows(g, V, a, p, s) ==
  /\ g \in [Nat -> V] /\ g[0] = a
  /\ \A n \in Nat \ {0} : g[n] = s[<<n, g[p[n]]>>]

LEMMA Recursion ==
  ASSUME NEW V, NEW a, NEW p, NEW s, Steps(V, a, p, s)
  PROVE  \E g : Follows(g, V, a, p, s)
<1> USE DEF Steps
<1> DEFINE Fits(g, n) == /\ g \in [0 .. n -> V] /\ g[0] = a
                         /\ \A i \in 1 .. n : g[i] = s[<<i, g[p[i]]>>]
<1>1. ASSUME NEW g, NEW h, NEW m \in Nat, NEW n \in Nat, m <= n, Fits(g, m), Fits(h, n),
             NEW i \in 0 .. m
      PROVE  g[i] = h[i]
  <2> DEFINE T == {j \in Nat : j <= m /\ g[j] # h[j]}
  <2>1. SUFFICES ASSUME i \in T PROVE FALSE
    OBVIOUS
  <2>2. PICK x \in T : \A y \in T : x <= y
    <3>1. T \in SUBSET Nat
      OBVIOUS
    <3> HIDE DEF T
    <3>2. QED
      BY <2>1, <3>1, Least
  <2>3. x # 0 /\ x \in 1 .. m /\ x \in 1 .. n /\ x \in Nat
    BY <1>1, <2>2
  <2>4. p[x] \in Nat /\ p[x] < x
    BY <2>3
  <2>5. g[p[x]] = h[p[x]]
    BY <2>2, <2>3, <2>4
  <2>6. QED
    BY <1>1, <2>2, <2>3, <2>5
<1>2. ASSUME NEW n \in Nat
      PROVE  \E g : Fits(g, n)
  <2> DEFINE T == {j \in Nat : ~ \E g : Fits(g, j)}
  <2>1. SUFFICES ASSUME n \in T PROVE FALSE
    OBVIOUS
  <2>2. PICK x \in T : \A y \in T : x <= y
    <3>1. T \in SUBSET Nat
      OBVIOUS
    <3> HIDE DEF T
    <3>2. QED
      BY <2>1, <3>1, Least
  <2>3. CASE x = 0
    <3>1. Fits([i \in 0 .. x |-> a], x)
      BY <2>3
    <3>2. QED
      BY <2>2, <3>1
  <2>4. CASE x # 0
    <3>1. x \in Nat /\ x - 1 \in Nat /\ x - 1 \notin T
      <4>1. x \in Nat /\ x - 1 \in Nat /\ ~ x <= x - 1
        BY <2>4
      <4> HIDE DEF T
      <4>2. QED
        BY <4>1, <2>2
    <3>2. PICK g : Fits(g, x - 1)
      BY <3>1
    <3> DEFINE h == [i \in 0 .. x |-> IF i = x THEN s[<<x, g[p[x]]>>] ELSE g[i]]
    <3>3. p[x] \in 0 .. x - 1 /\ g[p[x]] \in V
      <4>1. p[x] \in Nat /\ p[x] < x
        BY <3>1, <2>4
      <4>2. QED
        BY <3>1, <3>2, <4>1
    <3>4. h \in [0 .. x -> V] /\ h[0] = a
      <4>1. \A i \in 0 .. x : i # x => i \in 0 .. x - 1
        BY <3>1
      <4>2. \A i \in 0 .. x : i # x => g[i] \in V
        BY <3>2, <4>1
      <4>3. <<x, g[p[x]]>> \in Nat \X V /\ s[<<x, g[p[x]]>>] \in V
        BY <3>1, <3>3
      <4>4. 0 \in 0 .. x /\ 0 # x /\ g[0] = a
        BY <3>1, <3>2, <2>4
      <4>5. QED
        BY <4>2, <4>3, <4>4
    <3>5. ASSUME NEW i \in 1 .. x
          PROVE  h[i] = s[<<i, h[p[i]]>>]
      <4>1. i \in Nat /\ p[i] \in Nat /\ p[i] < i
        OBVIOUS
      <4>2. i \in 0 .. x /\ p[i] \in 0 .. x /\ p[i] # x
        BY <4>1, <3>1
      <4>3. h[p[i]] = g[p[i]]
        BY <4>2
      <4>4. CASE i = x
        BY <4>2, <4>3, <4>4
      <4>5. CASE i # x
        <5>1. i \in 1 .. x - 1 /\ h[i] = g[i]
          BY <3>1, <4>2, <4>5
        <5>2. g[i] = s[<<i, g[p[i]]>>]
          BY <5>1, <3>2
        <5> HIDE DEF h
        <5>3. QED
          BY <5>1, <5>2, <4>3
      <4>6. QED
        BY <4>4, <4>5
    <3> HIDE DEF h
    <3>6. Fits(h, x)
      BY <3>4, <3>5
    <3>7. QED
      BY <2>2, <3>6
  <2>5. QED
    BY <2>3, <2>4
<1> DEFINE c(n) == CHOOSE g : Fits(g, n)
<1>3. \A n \in Nat : Fits(c(n), n)
  BY <1>2
<1> HIDE DEF c
<1> DEFINE G == [n \in Nat |-> c(n)[n]]
<1>4. ASSUME NEW n \in Nat, NEW i \in 0 .. n
      PROVE  G[i] = c(n)[i]
  <2>1. i \in Nat /\ i <= n /\ i \in 0 .. i
    OBVIOUS
  <2>2. Fits(c(i), i) /\ Fits(c(n), n)
    BY <1>3, <2>1
  <2> HIDE DEF Fits
  <2>3. QED
    BY <2>1, <2>2, <1>1
<1>5. G \in [Nat -> V]
  <2>1. \A n \in Nat : c(n)[n] \in V
    BY <1>3
  <2>2. QED
    BY <2>1
<1>6. ASSUME NEW n \in Nat
      PROVE  G[n] = IF n = 0 THEN a ELSE s[<<n, G[p[n]]>>]
  <2>1. CASE n = 0
    BY <2>1, <1>3
  <2>2. CASE n # 0
    <3>1. n \in 1 .. n /\ p[n] \in 0 .. n /\ n \in 0 .. n
      <4>1. p[n] \in Nat /\ p[n] < n
        BY <2>2
      <4>2. QED
        BY <2>2, <4>1
    <3>2. G[n] = c(n)[n] /\ G[p[n]] = c(n)[p[n]]
      BY <3>1, <1>4
    <3>3. c(n)[n] = s[<<n, c(n)[p[n]]>>]
      BY <1>3, <3>1
    <3>4. QED
      BY <2>2, <3>2, <3>3
  <2>3. QED
    BY <2>1, <2>2
<1> HIDE DEF G
<1>7. QED
  BY <1>5, <1>6 DEF Follows

(* 1 << n, and the number of bits of n.                                      *)
LEMMA PowersDefined ==
  \E g \in [Nat -> Nat] : g = [n \in Nat |-> IF n = 0 THEN 1 ELSE 2 * g[n - 1]]
<1>1. PICK p : p = [n \in Nat |-> IF n = 0 THEN 0 ELSE n - 1]
  OBVIOUS
<1>2. PICK s : s = [x \in Nat \X Nat |-> 2 * x[2]]
  OBVIOUS
<1>3. PICK V : V = Nat
  OBVIOUS
<1>4. PICK a : a = 1
  OBVIOUS
<1>5. p \in [Nat -> Nat] /\ \A n \in Nat \ {0} : p[n] < n
  BY <1>1
<1>6. s \in [Nat \X V -> V] /\ a \in V
  BY <1>2, <1>3, <1>4
<1>7. PICK g : Follows(g, V, a, p, s)
  <2>1. Steps(V, a, p, s)
    BY <1>5, <1>6 DEF Steps
  <2>2. QED
    BY <2>1, Recursion
<1>8. ASSUME NEW n \in Nat
      PROVE  g[n] = IF n = 0 THEN 1 ELSE 2 * g[n - 1]
  <2>1. CASE n = 0
    BY <2>1, <1>4, <1>7 DEF Follows
  <2>2. CASE n # 0
    <3>1. n - 1 \in Nat /\ g[n - 1] \in Nat /\ p[n] = n - 1
      BY <2>2, <1>1, <1>3, <1>7 DEF Follows
    <3>2. s[<<n, g[n - 1]>>] = 2 * g[n - 1]
      BY <3>1, <1>2
    <3>3. g[n] = s[<<n, g[p[n]]>>]
      BY <1>7, <2>2 DEF Follows
    <3>4. QED
      BY <2>2, <3>1, <3>2, <3>3
  <2>3. QED
    BY <2>1, <2>2
<1>9. g = [n \in Nat |-> g[n]] /\ g \in [Nat -> Nat]
  BY <1>3, <1>7 DEF Follows
<1>10. QED
  BY <1>8, <1>9

LEMMA BitsDefined ==
  \E g \in [Nat -> Nat] : g = [n \in Nat |-> IF n = 0 THEN 0 ELSE 1 + g[n \div 2]]
<1>1. PICK p : p = [n \in Nat |-> n \div 2]
  OBVIOUS
<1>2. PICK s : s = [x \in Nat \X Nat |-> 1 + x[2]]
  OBVIOUS
<1>3. PICK V : V = Nat
  OBVIOUS
<1>4. PICK a : a = 0
  OBVIOUS
<1>5. p \in [Nat -> Nat] /\ \A n \in Nat \ {0} : p[n] < n
  BY <1>1
<1>6. s \in [Nat \X V -> V] /\ a \in V
  BY <1>2, <1>3, <1>4
<1>7. PICK g : Follows(g, V, a, p, s)
  <2>1. Steps(V, a, p, s)
    BY <1>5, <1>6 DEF Steps
  <2>2. QED
    BY <2>1, Recursion
<1>8. ASSUME NEW n \in Nat
      PROVE  g[n] = IF n = 0 THEN 0 ELSE 1 + g[n \div 2]
  <2>1. CASE n = 0
    BY <2>1, <1>4, <1>7 DEF Follows
  <2>2. CASE n # 0
    <3>1. n \div 2 \in Nat /\ g[n \div 2] \in Nat /\ p[n] = n \div 2
      BY <2>2, <1>1, <1>3, <1>7 DEF Follows
    <3>2. s[<<n, g[n \div 2]>>] = 1 + g[n \div 2]
      BY <3>1, <1>2
    <3>3. g[n] = s[<<n, g[p[n]]>>]
      BY <1>7, <2>2 DEF Follows
    <3>4. QED
      BY <2>2, <3>1, <3>2, <3>3
  <2>3. QED
    BY <2>1, <2>2
<1>9. g = [n \in Nat |-> g[n]] /\ g \in [Nat -> Nat]
  BY <1>3, <1>7 DEF Follows
<1>10. QED
  BY <1>8, <1>9

(* What a recursive definition gives is the function it describes.           *)
LEMMA PowersStep ==
  /\ Pow2[0] = 1
  /\ \A n \in Nat : Pow2[n + 1] = 2 * Pow2[n]
<1>1. Pow2 = [n \in Nat |-> IF n = 0 THEN 1 ELSE 2 * Pow2[n - 1]]
  BY PowersDefined DEF Pow2
<1>2. PICK g : g = Pow2
  OBVIOUS
<1>3. g = [n \in Nat |-> IF n = 0 THEN 1 ELSE 2 * g[n - 1]]
  BY <1>1, <1>2
<1>4. ASSUME NEW n \in Nat
      PROVE  g[n + 1] = 2 * g[n]
  <2>1. n + 1 \in Nat /\ n + 1 # 0 /\ (n + 1) - 1 = n
    OBVIOUS
  <2>2. g[n + 1] = 2 * g[(n + 1) - 1]
    BY <1>3, <2>1
  <2>3. QED
    BY <2>1, <2>2
<1>5. g[0] = 1
  BY <1>3
<1>6. QED
  BY <1>2, <1>4, <1>5

LEMMA BitsStep ==
  /\ Bits[0] = 0
  /\ \A n \in Nat \ {0} : Bits[n] = 1 + Bits[n \div 2]
<1>1. Bits = [n \in Nat |-> IF n = 0 THEN 0 ELSE 1 + Bits[n \div 2]]
  BY BitsDefined DEF Bits
<1>2. PICK g : g = Bits
  OBVIOUS
<1>3. g = [n \in Nat |-> IF n = 0 THEN 0 ELSE 1 + g[n \div 2]]
  BY <1>1, <1>2
<1>4. QED
  BY <1>2, <1>3

LEMMA PowersPositive ==
  \A n \in Nat : Pow2[n] \in Nat \ {0}
<1> DEFINE T == {n \in Nat : Pow2[n] \notin Nat \ {0}}
<1>1. SUFFICES ASSUME NEW t \in T PROVE FALSE
  OBVIOUS
<1>2. T \in SUBSET Nat
  OBVIOUS
<1>3. PICK x \in T : \A y \in T : x <= y
  <2> HIDE DEF T
  <2>1. QED
    BY <1>2, Least
<1>4. x \in Nat /\ x # 0
  BY PowersStep
<1>5. PICK y \in Nat : x = y + 1
  BY <1>4
<1>6. y \notin T
  BY <1>3, <1>5
<1>7. QED
  BY <1>5, <1>6, PowersStep

(* 1 << j is a multiple of 1 << i for i <= j.                                *)
LEMMA PowersDivide ==
  ASSUME NEW i \in Nat, NEW d \in Nat
  PROVE  \E q \in Nat \ {0} : Pow2[i + d] = q * Pow2[i] /\ (d > 0 => q > 1)
<1> DEFINE Good(n) == \E q \in Nat \ {0} : Pow2[i + n] = q * Pow2[i] /\ (n > 0 => q > 1)
           T == {n \in Nat : ~Good(n)}
<1>1. SUFFICES ASSUME d \in T PROVE FALSE
  OBVIOUS
<1>2. T \in SUBSET Nat
  OBVIOUS
<1>3. PICK x \in T : \A y \in T : x <= y
  <2> HIDE DEF T
  <2>1. QED
    BY <1>1, <1>2, Least
<1>4. Pow2[i] \in Nat
  BY PowersPositive
<1>5. Good(0)
  <2>1. i + 0 = i /\ Pow2[i] = 1 * Pow2[i]
    BY <1>4
  <2>2. QED
    BY <2>1
<1>6. x \in Nat /\ x # 0
  BY <1>5
<1>7. PICK y \in Nat : x = y + 1
  BY <1>6
<1>8. Good(y)
  BY <1>3, <1>7
<1>9. PICK q \in Nat \ {0} : Pow2[i + y] = q * Pow2[i] /\ (y > 0 => q > 1)
  BY <1>8
<1>10. Pow2[i + x] = 2 * Pow2[i + y]
  <2>1. i + x = (i + y) + 1 /\ i + y \in Nat
    BY <1>7
  <2>2. QED
    BY <2>1, PowersStep
<1>11. Pow2[i + x] = (2 * q) * Pow2[i]
  BY <1>4, <1>9, <1>10
<1>12. Good(x)
  <2>1. 2 * q \in Nat \ {0} /\ 2 * q > 1
    OBVIOUS
  <2>2. QED
    BY <1>11, <2>1
<1>13. QED
  BY <1>12

(* A number of n bits is below 1 << n.                                       *)
LEMMA BitsHold ==
  \A n \in Nat : Bits[n] \in Nat /\ n < Pow2[Bits[n]]
<1> DEFINE Good(n) == Bits[n] \in Nat /\ n < Pow2[Bits[n]]
           T == {n \in Nat : ~Good(n)}
<1>1. SUFFICES ASSUME NEW t \in T PROVE FALSE
  OBVIOUS
<1>2. T \in SUBSET Nat
  OBVIOUS
<1>3. PICK x \in T : \A y \in T : x <= y
  <2> HIDE DEF T
  <2>1. QED
    BY <1>1, <1>2, Least
<1>4. x \in Nat /\ x # 0
  BY PowersStep, BitsStep
<1>5. PICK h : h = x \div 2
  OBVIOUS
<1>6. h \in Nat /\ h < x /\ x <= 2 * h + 1
  BY <1>4, <1>5
<1>7. Good(h)
  BY <1>3, <1>6
<1>8. Bits[x] = 1 + Bits[h]
  BY <1>4, <1>5, BitsStep
<1>9. PICK b \in Nat : b = Bits[h]
  BY <1>7
<1>10. Bits[x] = b + 1 /\ Pow2[b + 1] = 2 * Pow2[b] /\ h < Pow2[b] /\ Pow2[b] \in Nat
  BY <1>7, <1>8, <1>9, PowersStep, PowersPositive
<1>11. Good(x)
  <2>1. b + 1 \in Nat /\ x < 2 * Pow2[b]
    BY <1>6, <1>10
  <2>2. QED
    BY <2>1, <1>10
<1>12. QED
  BY <1>11

(* get_order of n: n bytes fit in 1 << get_order(n).                         *)
LEMMA OrderHolds ==
  ASSUME NEW n \in Nat
  PROVE  GetOrder(n) \in Nat /\ n <= Pow2[GetOrder(n)]
<1>1. CASE n = 1
  BY <1>1, PowersStep DEF GetOrder
<1>2. CASE n # 1
  <2>1. GetOrder(n) = Bits[n]
    BY <1>2 DEF GetOrder
  <2>2. Bits[n] \in Nat /\ n < Pow2[Bits[n]] /\ Pow2[Bits[n]] \in Nat
    BY BitsHold, PowersPositive
  <2>3. QED
    BY <2>1, <2>2
<1>3. QED
  BY <1>1, <1>2

LEMMA DivIs ==
  ASSUME NEW n \in Nat, NEW a \in Nat \ {0}, NEW e \in Nat, e * a <= n, n < (e + 1) * a
  PROVE  n \div a = e
<1>1. PICK d : d = n \div a
  OBVIOUS
<1>2. PICK r : r = (n % a)
  OBVIOUS
<1>3. d \in Int /\ r \in Nat /\ r < a /\ n = a * d + r
  BY <1>1, <1>2
<1>4. CASE d < e
  <2>1. d + 1 <= e /\ d + 1 \in Int
    BY <1>3, <1>4
  <2>2. a * (d + 1) <= a * e
    BY <2>1
  <2>3. QED
    BY <2>2, <1>3
<1>5. CASE d > e
  <2>1. e + 1 <= d
    BY <1>3, <1>5
  <2>2. a * (e + 1) <= a * d
    BY <2>1, <1>3
  <2>3. QED
    BY <2>2, <1>3
<1>6. QED
  BY <1>1, <1>3, <1>4, <1>5

(* ((n) + (a) - 1) / (a) * (a).                                              *)
LEMMA RoundUpIs ==
  ASSUME NEW n \in Nat, NEW a \in Nat \ {0}, NEW e \in Nat \ {0}, (e - 1) * a < n, n <= e * a
  PROVE  RoundUp(n, a) = e * a
<1>1. PICK m : m = n + a - 1
  OBVIOUS
<1>2. m \in Nat /\ e * a <= m /\ m < (e + 1) * a
  <2>1. (e - 1) * a = e * a - a /\ (e + 1) * a = e * a + a /\ e * a \in Nat
    OBVIOUS
  <2>2. QED
    BY <1>1, <2>1
<1>3. m \div a = e
  BY <1>2, DivIs
<1>4. QED
  BY <1>1, <1>3 DEF RoundUp

LEMMA PowersDown ==
  ASSUME NEW i \in Nat, NEW j \in Nat, i <= j
  PROVE  \E q \in Nat \ {0} : Pow2[j] = q * Pow2[i] /\ (i < j => q > 1)
<1>1. PICK d \in Nat : j = i + d
  <2>1. j - i \in Nat /\ j = i + (j - i)
    OBVIOUS
  <2>2. QED
    BY <2>1
<1>2. PICK q \in Nat \ {0} : Pow2[i + d] = q * Pow2[i] /\ (d > 0 => q > 1)
  BY PowersDivide
<1>3. (i < j => d > 0) /\ Pow2[j] = Pow2[i + d]
  BY <1>1
<1>4. QED
  BY <1>2, <1>3

(* Objects of a class, their links, and pages.                               *)
LEMMA UnitFits ==
  ASSUME NEW c \in Class
  PROVE  /\ Unit(c) \in Nat \ {0} /\ Ptr \in Nat \ {0} /\ Unit(c) >= Ptr
         /\ Pow2[c] \in Nat \ {0} /\ Unit(c) >= Pow2[c] /\ PageSize \in Nat \ {0}
         /\ \E q \in Nat \ {0} : q > 1 /\ PageSize = q * Unit(c)
<1>1. PICK p \in Nat : p < PageShift /\ Ptr = Pow2[p]
  BY KmallocAssumption
<1>2. c \in Nat /\ c < PageShift /\ PageShift \in Nat
  BY KmallocAssumption DEF Class
<1>3. Pow2[c] \in Nat \ {0} /\ Pow2[p] \in Nat \ {0} /\ Pow2[PageShift] \in Nat \ {0}
  BY <1>2, PowersPositive
<1>4. \E q \in Nat \ {0} : Pow2[PageShift] = q * Pow2[c] /\ q > 1
  <2>1. c <= PageShift
    BY <1>2
  <2>2. \E q \in Nat \ {0} : Pow2[PageShift] = q * Pow2[c] /\ (c < PageShift => q > 1)
    BY <1>2, <2>1, PowersDown
  <2>3. QED
    BY <1>2, <2>2
<1>5. \E q \in Nat \ {0} : Pow2[PageShift] = q * Pow2[p] /\ q > 1
  <2>1. p <= PageShift
    BY <1>1, <1>2
  <2>2. \E q \in Nat \ {0} : Pow2[PageShift] = q * Pow2[p] /\ (p < PageShift => q > 1)
    BY <1>2, <2>1, PowersDown
  <2>3. QED
    BY <1>1, <2>2
<1>6. Unit(c) = Pow2[c] \/ Unit(c) = Pow2[p]
  BY <1>1 DEF Unit
<1>7. Unit(c) >= Pow2[c] /\ Unit(c) >= Ptr
  BY <1>1, <1>3 DEF Unit
<1>8. \E q \in Nat \ {0} : q > 1 /\ PageSize = q * Unit(c)
  BY <1>4, <1>5, <1>6 DEF PageSize
<1>9. QED
  BY <1>1, <1>3, <1>6, <1>7, <1>8 DEF PageSize

LEMMA CacheIs ==
  ASSUME NEW c \in Class
  PROVE  /\ Cache(Pow2[c], Pow2[c], 0).offset = Unit(c)
         /\ Cache(Pow2[c], Pow2[c], 0).object = 2 * Unit(c)
<1>1. PICK p \in Nat : p < PageShift /\ Ptr = Pow2[p]
  BY KmallocAssumption
<1>2. c \in Nat
  BY DEF Class
<1>3. PICK s : s = Pow2[c]
  OBVIOUS
<1>4. s \in Nat \ {0} /\ Ptr \in Nat \ {0}
  BY <1>1, <1>2, <1>3, PowersPositive
<1>5. RoundUp(s, Ptr) = Unit(c) /\ RoundUp(Unit(c) + Ptr, s) = 2 * Unit(c)
  <2>1. CASE p <= c
    <3>1. PICK q \in Nat \ {0} : s = q * Ptr
      BY <1>1, <1>2, <1>3, <2>1, PowersDown
    <3>2. q * Ptr >= Ptr /\ (q - 1) * Ptr < s /\ s <= q * Ptr
      BY <1>4, <3>1
    <3>3. Unit(c) = s
      BY <1>3, <3>1, <3>2 DEF Unit
    <3>4. RoundUp(s, Ptr) = q * Ptr
      BY <1>4, <3>2, RoundUpIs
    <3>5. PICK n, e : n = s + Ptr /\ e = 2
      OBVIOUS
    <3>6. n \in Nat /\ e \in Nat \ {0} /\ (e - 1) * s < n /\ n <= e * s
      <4>1. s >= Ptr
        BY <3>1, <3>2
      <4>2. QED
        BY <1>4, <4>1, <3>5
    <3>7. RoundUp(n, s) = e * s
      BY <1>4, <3>6, RoundUpIs
    <3>8. QED
      BY <3>1, <3>3, <3>4, <3>5, <3>7
  <2>2. CASE c < p
    <3>1. PICK q \in Nat \ {0} : Ptr = q * s
      BY <1>1, <1>2, <1>3, <2>2, PowersDown
    <3>2. Ptr >= s
      BY <1>4, <3>1
    <3>3. Unit(c) = Ptr
      BY <1>3, <1>4, <3>2 DEF Unit
    <3>4. PICK e : e = 1
      OBVIOUS
    <3>5. e \in Nat \ {0} /\ (e - 1) * Ptr < s /\ s <= e * Ptr
      BY <1>4, <3>2, <3>4
    <3>6. RoundUp(s, Ptr) = e * Ptr
      BY <1>4, <3>5, RoundUpIs
    <3>7. PICK n, t : n = Ptr + Ptr /\ t = 2 * q
      OBVIOUS
    <3>8. n = t * s /\ n \in Nat /\ t \in Nat \ {0}
      BY <1>4, <3>1, <3>7
    <3>9. (t - 1) * s < n /\ n <= t * s
      <4>1. (t - 1) * s = t * s - s
        BY <1>4, <3>8
      <4>2. QED
        BY <1>4, <3>8, <4>1
    <3>10. RoundUp(n, s) = t * s
      BY <1>4, <3>8, <3>9, RoundUpIs
    <3>11. QED
      BY <1>4, <3>3, <3>4, <3>6, <3>7, <3>8, <3>10
  <2>3. QED
    BY <1>1, <1>2, <2>1, <2>2
<1>6. Object(s, s) = 2 * Unit(c) /\ LinkOffset(s) = Unit(c)
  BY <1>5 DEF Object, LinkOffset
<1>7. Cache(s, s, 0).offset = LinkOffset(s) /\ Cache(s, s, 0).object = Object(s, s)
  BY DEF Cache
<1>8. QED
  BY <1>3, <1>6, <1>7

(* What a block of pages holds.                                              *)
LEMMA CountHolds ==
  ASSUME NEW size \in Nat, size >= PageSize, size <= 4 * PageSize
  PROVE  /\ PageCount(size) \in 1 .. 4 /\ size <= PageCount(size) * PageSize
         /\ GetOrder(PageCount(size)) \in Nat
         /\ PageCount(size) <= Pow2[GetOrder(PageCount(size))]
         /\ Pow2[GetOrder(PageCount(size))] \in Nat
<1>1. PICK P : P = PageSize
  OBVIOUS
<1>2. P \in Nat \ {0}
  BY <1>1, PowersPositive, KmallocAssumption DEF PageSize
<1>3. PICK n : n = PageCount(size)
  OBVIOUS
<1>4. n = (size + P - 1) \div P
  BY <1>1, <1>3 DEF PageCount
<1>5. PICK m, r : m = size + P - 1 /\ r = (m % P)
  OBVIOUS
<1>6. m \in Nat /\ n \in Int /\ r \in Nat /\ r < P /\ m = P * n + r
  BY <1>2, <1>4, <1>5
<1>7. size <= n * P
  BY <1>2, <1>5, <1>6
<1>8. n \in 1 .. 4
  <2>1. n > 0
    <3>1. SUFFICES ASSUME n <= 0 PROVE FALSE
      BY <1>6
    <3>2. P * n <= 0
      BY <1>2, <1>6, <3>1
    <3>3. QED
      BY <3>2, <1>1, <1>2, <1>5, <1>6
  <2>2. n < 5
    <3>1. SUFFICES ASSUME n >= 5 PROVE FALSE
      BY <1>6
    <3>2. P * n >= P * 5
      BY <1>2, <1>6, <3>1
    <3>3. PICK t : t = P * n
      OBVIOUS
    <3>4. t \in Int /\ t >= 5 * P /\ m = t + r /\ size <= 4 * P
      BY <3>2, <3>3, <1>1, <1>2, <1>6
    <3>5. QED
      BY <3>4, <1>2, <1>5, <1>6
  <2>3. QED
    BY <2>1, <2>2, <1>6
<1>9. n \in Nat
  BY <1>8
<1>10. GetOrder(n) \in Nat /\ n <= Pow2[GetOrder(n)]
  BY <1>9, OrderHolds
<1>11. Pow2[GetOrder(n)] \in Nat
  BY <1>10, PowersPositive
<1>12. QED
  BY <1>1, <1>3, <1>7, <1>8, <1>10, <1>11

LEMMA CacheAny ==
  ASSUME NEW size \in Nat, NEW align \in Nat, NEW order \in Nat
  PROVE  Cache(size, align, order) \in AnyCache
<1>1. PICK x : x = <<size, align, order>>
  OBVIOUS
<1>2. x \in Nat \X Nat \X Nat /\ Cache(size, align, order) = Cache(x[1], x[2], x[3])
  BY <1>1
<1>3. QED
  BY <1>2 DEF AnyCache

LEMMA KmallocInitInv ==
  ASSUME HeapInit
  PROVE  KmallocInv
<1> USE DEF HeapInit
<1>1. CachesMade
  <2>1. Len(caches) = 0 /\ \A c \in Class : c \in Nat
    BY DEF Class
  <2>2. Len(Descriptors) \in Nat
    BY KmallocAssumption
  <2>3. \A c \in Class : ~ Len(Descriptors) + c + 1 <= Len(caches)
    BY <2>1, <2>2
  <2>4. caches \in Seq(AnyCache)
    <3>1. PICK S : S = AnyCache
      OBVIOUS
    <3>2. caches \in Seq(S)
      OBVIOUS
    <3>3. QED
      BY <3>1, <3>2
  <2>5. QED
    BY <2>3, <2>4 DEF CachesMade
<1>2. SlabsKept
  BY DEF SlabsKept
<1>3. QED
  BY <1>1, <1>2 DEF KmallocInv

(* While caches are being made nothing is in use.                            *)
LEMMA NothingYet ==
  ASSUME CachesMade, Len(caches) # Len(Descriptors) + PageShift
  PROVE  blocks = {} /\ slab = {}
BY DEF CachesMade

LEMMA MakingInv ==
  ASSUME KmallocInv, CachesMade', UNCHANGED <<pages, used, blocks>>,
         blocks = {}, slab = {}
  PROVE  KmallocInv'
<1>1. SlabsKept'
  BY DEF KmallocInv, SlabsKept, pages, Class, CachePtr
<1>2. QED
  BY <1>1 DEF KmallocInv

LEMMA InitKmemCacheInv ==
  ASSUME KmallocInv, InitKmemCache
  PROVE  KmallocInv'
<1> USE DEF InitKmemCache
<1>1. Len(Descriptors) \in Nat /\ DOMAIN Descriptors = 1 .. Len(Descriptors)
      /\ PageShift \in Nat \ {0} /\ DescAlign \in Nat
      /\ \A i \in DOMAIN Descriptors : Descriptors[i] \in Nat
  BY KmallocAssumption
<1>2. blocks = {} /\ slab = {}
  <2>1. Len(caches) = 0
    OBVIOUS
  <2>2. QED
    BY <1>1, <2>1, NothingYet DEF KmallocInv
<1>3. PICK n : n = Len(Descriptors)
  OBVIOUS
<1>4. PICK S : S = AnyCache
  OBVIOUS
<1>5. caches' \in [1 .. n -> S]
  <2>1. \A i \in 1 .. n : Cache(Descriptors[i], DescAlign, 1) \in S
    BY <1>1, <1>3, <1>4, CacheAny
  <2>2. QED
    BY <1>1, <1>3, <2>1
<1>6. caches' \in Seq(S) /\ Len(caches') = n
  BY <1>1, <1>3, <1>5, SeqDef
<1>7. CachesMade'
  <2>1. \A c \in Class : ~ n + c + 1 <= Len(caches')
    BY <1>1, <1>3, <1>6 DEF Class
  <2>2. Len(caches') \in Len(Descriptors) .. Len(Descriptors) + PageShift
    BY <1>1, <1>3, <1>6
  <2>3. blocks' = {} /\ slab' = {}
    BY <1>2 DEF pages
  <2>4. QED
    BY <1>3, <1>4, <1>6, <2>1, <2>2, <2>3 DEF CachesMade
<1>8. QED
  BY <1>2, <1>7, MakingInv

LEMMA KmallocInitTurnInv ==
  ASSUME KmallocInv, KmallocInit
  PROVE  KmallocInv'
<1>1. PICK D, L : D = Len(Descriptors) /\ L = Len(caches)
  OBVIOUS
<1>2. D \in Nat /\ PageShift \in Nat \ {0}
  BY <1>1, KmallocAssumption
<1>3. PICK S : S = AnyCache
  OBVIOUS
<1>4. caches \in Seq(S) /\ L \in D .. D + PageShift /\ L < D + PageShift
  BY <1>1, <1>3 DEF KmallocInv, CachesMade, KmallocInit
<1>5. PICK c : c = L - D
  OBVIOUS
<1>6. c \in Class /\ c \in Nat
  BY <1>2, <1>4, <1>5 DEF Class
<1>7. PICK e : e = Cache(Pow2[c], Pow2[c], 0)
  OBVIOUS
<1>8. caches' = Append(caches, e)
  BY <1>1, <1>5, <1>7 DEF KmallocInit
<1>9. e \in S
  <2>1. Pow2[c] \in Nat
    BY <1>6, PowersPositive
  <2>2. QED
    BY <1>3, <1>7, <2>1, CacheAny
<1>10. /\ caches' \in Seq(S) /\ Len(caches') = L + 1 /\ caches'[L + 1] = e
       /\ \A i \in 1 .. L : caches'[i] = caches[i]
  BY <1>1, <1>4, <1>8, <1>9
<1>11. blocks = {} /\ slab = {}
  BY <1>1, <1>4, NothingYet DEF KmallocInv
<1>12. ASSUME NEW d \in Class, D + d + 1 <= Len(caches')
       PROVE  Small(d)'.offset = Unit(d) /\ Small(d)'.object = 2 * Unit(d)
  <2>1. d \in Nat /\ Small(d)' = caches'[D + d + 1]
    BY <1>1 DEF Class, Small
  <2>2. CASE D + d + 1 <= L
    <3>1. Small(d).offset = Unit(d) /\ Small(d).object = 2 * Unit(d)
      BY <1>1, <2>2 DEF KmallocInv, CachesMade
    <3>2. caches'[D + d + 1] = caches[D + d + 1]
      BY <1>2, <1>4, <1>10, <2>1, <2>2
    <3>3. QED
      BY <1>1, <2>1, <3>1, <3>2 DEF Small
  <2>3. CASE ~ D + d + 1 <= L
    <3>1. d = c /\ D + d + 1 = L + 1
      BY <1>2, <1>4, <1>5, <1>10, <1>12, <2>1, <2>3
    <3>2. Small(d)' = Cache(Pow2[d], Pow2[d], 0)
      BY <1>7, <1>10, <2>1, <3>1
    <3>3. QED
      BY <3>2, CacheIs
  <2>4. QED
    BY <2>2, <2>3
<1>13. CachesMade'
  <2>1. Len(caches') \in Len(Descriptors) .. Len(Descriptors) + PageShift
    BY <1>1, <1>2, <1>4, <1>10
  <2>2. blocks' = {} /\ slab' = {}
    BY <1>11 DEF pages, KmallocInit
  <2>3. QED
    BY <1>1, <1>3, <1>10, <1>12, <2>1, <2>2 DEF CachesMade
<1>14. UNCHANGED <<pages, used, blocks>>
  BY DEF KmallocInit
<1>15. QED
  BY <1>11, <1>13, <1>14, MakingInv

(* The first free objects of a class, and that calls leave the caches alone. *)
LEMMA SlotZero ==
  ASSUME CachesMade, Ready, NEW c \in Class
  PROVE  0 \in Slots(c)
<1>1. PICK q \in Nat \ {0} : q > 1 /\ PageSize = q * Unit(c)
  BY UnitFits
<1>2. Unit(c) \in Nat \ {0} /\ PageSize \in Nat \ {0}
  BY UnitFits
<1>3. Small(c).offset = Unit(c) /\ Small(c).object = 2 * Unit(c)
  <2>1. Len(Descriptors) \in Nat /\ PageShift \in Nat /\ c \in Nat /\ c <= PageShift - 1
    BY KmallocAssumption DEF Class
  <2>2. Len(Descriptors) + c + 1 <= Len(caches)
    BY <2>1 DEF Ready
  <2>3. QED
    BY <2>2 DEF CachesMade
<1>4. Unit(c) < PageSize
  <2>1. q * Unit(c) >= 2 * Unit(c)
    BY <1>1, <1>2
  <2>2. QED
    BY <1>1, <1>2, <2>1
<1>5. PICK u, P : u = Unit(c) /\ P = PageSize
  OBVIOUS
<1>6. 0 \in 0 .. P - 1 /\ u + 0 * (2 * u) < P
  BY <1>2, <1>4, <1>5
<1>7. QED
  BY <1>3, <1>5, <1>6 DEF Slots

LEMMA CachesKept ==
  ASSUME CachesMade, Ready, caches' = caches
  PROVE  CachesMade' /\ \A c : Slots(c)' = Slots(c)
BY DEF CachesMade, Ready, Small, Slots

(* What a block was made of.                                                 *)
LEMMA BlockIs ==
  ASSUME NEW f, NEW k, NEW c, NEW size, NEW n, n = Block(f, k, c, size)
  PROVE  n.page = f /\ n.slot = k /\ n.class = c /\ n.size = size
BY DEF Block

LEMMA PagesTaken ==
  ASSUME NEW b, PagesKept(b)
  PROVE  /\ b.page \in Taken(b) /\ Taken(b) \cap (free \cup slab) = {} /\ b.page \in Frame
         /\ Taken(b) = b.page .. b.page + PageCount(b.size) - 1
<1>1. /\ b.class = NoClass /\ PageCount(b.size) \in 1 .. 4 /\ Taken(b) \subseteq Frame
      /\ Taken(b) \cap (free \cup slab) = {}
  BY DEF PagesKept
<1>2. Taken(b) = b.page .. b.page + PageCount(b.size) - 1
  BY <1>1 DEF Taken
<1>3. b.page \in Frame /\ b.page \in Int
  BY DEF PagesKept, Frame
<1>4. QED
  BY <1>1, <1>2, <1>3 DEF Frame

LEMMA ObjectTaken ==
  ASSUME NEW b, ObjectKept(b), SlabsKept
  PROVE  /\ Taken(b) = {b.page} /\ b.page \in slab /\ b.page \notin free /\ b.page \in Frame
         /\ b.class # NoClass /\ ClassOf(b.page) = b.class
<1>1. b.class \in Int /\ b.class # NoClass
  BY DEF ObjectKept, Class, NoClass
<1>2. ClassOf(b.page) = b.class
  BY <1>1 DEF ObjectKept, ClassOf, CachePtr
<1>3. QED
  BY <1>1, <1>2 DEF Taken, ObjectKept, SlabsKept

(* A call that gives out a block, or takes one.                              *)
LEMMA Gives ==
  ASSUME NEW n, blocks' = blocks \cup {n}, CachesMade', SlabsKept',
         \A b \in blocks : (ObjectKept(b) \/ PagesKept(b))', (ObjectKept(n) \/ PagesKept(n))',
         \A b, d \in blocks : b # d => Apart(b, d), \A b \in blocks : Apart(b, n)
  PROVE  KmallocInv'
<1>1. \A b, d : Apart(b, d) => Apart(d, b)
  BY DEF Apart
<1>2. \A b, d : Apart(b, d)' = Apart(b, d)
  BY DEF Apart, Taken
<1>3. QED
  BY <1>1, <1>2 DEF KmallocInv

LEMMA FromSlabInv ==
  ASSUME KmallocInv, Ready, NEW size \in Nat, NEW c \in Class,
         size <= Pow2[c], FromSlab(c, size), UNCHANGED <<caches, outcome>>
  PROVE  KmallocInv'
<1>1. PICK f \in slab : \E k \in FreeSlots(f) :
        /\ ClassOf(f) = c /\ used' = used \cup {<<f, k>>}
        /\ blocks' = blocks \cup {Block(f, k, c, size)} /\ UNCHANGED pages
  BY DEF FromSlab
<1>0. PICK k \in FreeSlots(f) :
        /\ ClassOf(f) = c /\ used' = used \cup {<<f, k>>}
        /\ blocks' = blocks \cup {Block(f, k, c, size)} /\ UNCHANGED pages
  BY <1>1
<1>2. free' = free /\ kmem' = kmem /\ slab' = slab /\ word' = word /\ caches' = caches
  BY <1>0 DEF pages
<1>3. CachesMade /\ SlabsKept /\ CachesMade' /\ \A d : Slots(d)' = Slots(d)
  BY CachesKept DEF KmallocInv
<1>4. PICK n : n = Block(f, k, c, size)
  OBVIOUS
<1>5. n.page = f /\ n.slot = k /\ n.class = c /\ n.size = size
  BY <1>4, BlockIs
<1>6. k \in Slots(c) /\ <<f, k>> \notin used
  BY <1>0 DEF FreeSlots
<1>7. word[f] = CachePtr(c)
  <2>1. f \in Frame /\ word \in [Frame -> Int]
    BY <1>3 DEF SlabsKept
  <2>2. word[f] \in Int
    BY <2>1
  <2>3. QED
    BY <1>0, <2>2 DEF ClassOf, CachePtr
<1>8. SlabsKept'
  BY <1>2, <1>3 DEF SlabsKept, Frame, Class, CachePtr
<1>9. ObjectKept(n)'
  BY <1>0, <1>2, <1>3, <1>5, <1>6, <1>7 DEF ObjectKept, CachePtr, Class
<1>10. ASSUME NEW b \in blocks
       PROVE  (ObjectKept(b) \/ PagesKept(b))' /\ Apart(b, n)
  <2>1. CASE ObjectKept(b)
    <3>1. ObjectKept(b)'
      BY <1>0, <1>2, <1>3, <2>1 DEF ObjectKept, CachePtr, Class
    <3>2. Taken(b) = {b.page} /\ b.class # NoClass
      BY <1>3, <2>1, ObjectTaken
    <3>3. <<b.page, b.slot>> \in used
      BY <2>1 DEF ObjectKept
    <3>4. Taken(n) = {f} /\ n.class # NoClass
      BY <1>5 DEF Taken, Class, NoClass
    <3>5. b.page # f \/ b.slot # k
      BY <1>6, <3>3
    <3>6. QED
      BY <1>5, <3>1, <3>2, <3>4, <3>5 DEF Apart
  <2>2. CASE PagesKept(b)
    <3>1. PagesKept(b)'
      BY <1>2, <2>2 DEF PagesKept, Taken, Frame, NoClass, PageCount, PageSize
    <3>2. Taken(n) = {f}
      BY <1>5 DEF Taken, Class, NoClass
    <3>3. f \notin Taken(b)
      BY <2>2 DEF PagesKept
    <3>4. QED
      BY <3>1, <3>2, <3>3 DEF Apart
  <2>3. QED
    BY <2>1, <2>2 DEF KmallocInv
<1>11. \A b, d \in blocks : b # d => Apart(b, d)
  BY DEF KmallocInv
<1>12. QED
  BY <1>0, <1>3, <1>4, <1>8, <1>9, <1>10, <1>11, Gives

LEMMA FromNewSlabInv ==
  ASSUME KmallocInv, Ready, NEW size \in Nat, NEW c \in Class,
         size <= Pow2[c], FromNewSlab(c, size), UNCHANGED <<caches, outcome>>
  PROVE  KmallocInv'
<1>1. PICK f \in FreeBlocks(0) :
        /\ free' = free \ {f} /\ slab' = slab \cup {f} /\ kmem' = kmem
        /\ word' = [word EXCEPT ![f] = CachePtr(c)]
        /\ used' = used \cup {<<f, 0>>} /\ blocks' = blocks \cup {Block(f, 0, c, size)}
  BY DEF FromNewSlab
<1>2. CachesMade /\ SlabsKept /\ CachesMade' /\ \A d : Slots(d)' = Slots(d)
  BY CachesKept DEF KmallocInv
<1>3. f \in free /\ f \in Frame /\ word \in [Frame -> Int]
  <2>1. f \in Frame /\ f .. f + Pow2[0] - 1 \subseteq free
    BY DEF FreeBlocks
  <2>2. Pow2[0] = 1 /\ f \in Int
    BY <2>1, PowersStep DEF Frame
  <2>3. QED
    BY <1>2, <2>1, <2>2 DEF SlabsKept
<1>4. CachePtr(c) \in Int /\ c # NoClass
  BY DEF Class, CachePtr, NoClass
<1>5. word'[f] = CachePtr(c) /\ word' \in [Frame -> Int] /\ \A g \in Frame : g # f => word'[g] = word[g]
  BY <1>1, <1>3, <1>4
<1>6. PICK n : n = Block(f, 0, c, size)
  OBVIOUS
<1>7. n.page = f /\ n.slot = 0 /\ n.class = c /\ n.size = size
  BY <1>6, BlockIs
<1>8. SlabsKept'
  BY <1>1, <1>2, <1>3, <1>5 DEF SlabsKept, Frame, Class, CachePtr
<1>9. ObjectKept(n)'
  <2>1. 0 \in Slots(c)
    BY <1>2, SlotZero
  <2>2. QED
    BY <1>1, <1>2, <1>5, <1>7, <2>1 DEF ObjectKept, CachePtr, Class
<1>10. ASSUME NEW b \in blocks
       PROVE  (ObjectKept(b) \/ PagesKept(b))' /\ Apart(b, n)
  <2>0. Taken(n) = {f}
    BY <1>4, <1>7 DEF Taken
  <2>1. CASE ObjectKept(b)
    <3>1. Taken(b) = {b.page} /\ b.page # f /\ b.page \in Frame
      BY <1>2, <1>3, <2>1, ObjectTaken
    <3>2. word'[b.page] = word[b.page]
      BY <1>5, <3>1
    <3>3. ObjectKept(b)'
      BY <1>1, <1>2, <2>1, <3>2 DEF ObjectKept, CachePtr, Class
    <3>4. QED
      BY <2>0, <3>1, <3>3 DEF Apart
  <2>2. CASE PagesKept(b)
    <3>1. b.page \in Taken(b) /\ f \notin Taken(b) /\ b.page \in Frame
      BY <1>3, <2>2, PagesTaken
    <3>2. word'[b.page] = word[b.page]
      BY <1>5, <3>1
    <3>3. Taken(b)' = Taken(b)
      BY DEF Taken
    <3>4. Taken(b) \cap (free' \cup slab') = {}
      BY <1>1, <2>2, <3>1 DEF PagesKept
    <3>5. PagesKept(b)'
      BY <1>1, <2>2, <3>2, <3>3, <3>4 DEF PagesKept, Frame, NoClass, PageCount, PageSize
    <3>6. QED
      BY <2>0, <3>1, <3>5 DEF Apart
  <2>3. QED
    BY <2>1, <2>2 DEF KmallocInv
<1>11. \A b, d \in blocks : b # d => Apart(b, d)
  BY DEF KmallocInv
<1>12. QED
  BY <1>1, <1>2, <1>6, <1>8, <1>9, <1>10, <1>11, Gives

LEMMA PagesGivenInv ==
  ASSUME KmallocInv, Ready, NEW size \in Nat, KmallocPages(size)
  PROVE  KmallocInv'
<1>1. PICK m, w : m = PageCount(size) /\ w = Pow2[GetOrder(PageCount(size))]
  OBVIOUS
<1>2. m \in 1 .. 4 /\ size <= m * PageSize /\ m <= w /\ w \in Nat
  BY <1>1, CountHolds DEF KmallocPages
<1>3. PICK f \in FreeBlocks(GetOrder(PageCount(size))) :
        /\ free' = free \ (f .. f + w - 1) /\ kmem' = kmem \cup (f .. f + m - 1)
        /\ word' = SizeWords(f, m) /\ blocks' = blocks \cup {Block(f, 0, NoClass, size)}
  BY <1>1 DEF KmallocPages
<1>4. caches' = caches /\ slab' = slab /\ used' = used
  BY DEF KmallocPages
<1>5. CachesMade /\ SlabsKept /\ CachesMade' /\ \A d : Slots(d)' = Slots(d)
  BY <1>4, CachesKept DEF KmallocInv
<1>6. f \in Frame /\ f \in Int /\ f .. f + w - 1 \subseteq free
  BY <1>1 DEF FreeBlocks, Frame
<1>7. f .. f + m - 1 \subseteq f .. f + w - 1 /\ f \in f .. f + m - 1
  BY <1>2, <1>6
<1>8. /\ word' \in [Frame -> Int] /\ word'[f] = m
      /\ \A g \in Frame : g \notin f .. f + m - 1 => word'[g] = word[g]
  <2>1. word \in [Frame -> Int] /\ m \in Int
    BY <1>2, <1>5 DEF SlabsKept
  <2>2. PICK I : I = Frame
    OBVIOUS
  <2>3. I \subseteq Int /\ f \in I
    BY <1>6, <2>2 DEF Frame
  <2>4. word' = [g \in I |-> IF g = f THEN m
                             ELSE IF g \in f + 1 .. f + m - 1 THEN -1 ELSE word[g]]
    BY <1>3, <2>2 DEF SizeWords
  <2>5. word' \in [I -> Int]
    BY <2>1, <2>2, <2>4
  <2>6. ASSUME NEW g \in I, g \notin f .. f + m - 1
        PROVE  word'[g] = word[g]
    <3>1. g # f /\ g \notin f + 1 .. f + m - 1
      BY <1>2, <1>6, <2>3, <2>6
    <3>2. QED
      BY <2>4, <3>1
  <2>7. QED
    BY <2>2, <2>3, <2>4, <2>5, <2>6
<1>9. PICK n : n = Block(f, 0, NoClass, size)
  OBVIOUS
<1>10. n.page = f /\ n.slot = 0 /\ n.class = NoClass /\ n.size = size
  BY <1>9, BlockIs
<1>11. Taken(n) = f .. f + m - 1 /\ Taken(n) \subseteq free
  BY <1>1, <1>6, <1>7, <1>10 DEF Taken
<1>12. free \subseteq Frame /\ slab \subseteq Frame /\ free \cap slab = {}
  BY <1>5 DEF SlabsKept
<1>13. SlabsKept'
  <2>1. \A g \in slab : g \in Frame /\ g \notin f .. f + m - 1
    BY <1>11, <1>12
  <2>2. \A g \in slab : word'[g] = word[g]
    BY <1>8, <2>1
  <2>3. \A g \in slab : \E c \in Class : word'[g] = CachePtr(c)
    BY <2>2, <1>5 DEF SlabsKept
  <2>4. word' \in [Frame -> Int] /\ free' \subseteq Frame /\ \A g \in slab : g \notin free'
    BY <1>3, <1>8, <1>12
  <2>5. QED
    BY <1>4, <1>12, <2>3, <2>4 DEF SlabsKept, Frame, Class, CachePtr
<1>14. PagesKept(n)'
  <2>1. Taken(n) \cap (free' \cup slab') = {} /\ Taken(n)' = Taken(n)
    <3>1. Taken(n) \cap free' = {}
      BY <1>3, <1>7, <1>11
    <3>2. Taken(n) \cap slab = {}
      BY <1>11, <1>12
    <3>3. QED
      BY <1>4, <3>1, <3>2 DEF Taken
  <2>2. f \in kmem'
    BY <1>3, <1>7
  <2>3. Taken(n) \subseteq Frame
    BY <1>11, <1>12
  <2>4. QED
    BY <1>1, <1>2, <1>6, <1>8, <1>10, <2>1, <2>2, <2>3
       DEF PagesKept, Frame, NoClass, PageCount, PageSize
<1>15. ASSUME NEW b \in blocks
       PROVE  (ObjectKept(b) \/ PagesKept(b))' /\ Apart(b, n)
  <2>1. CASE ObjectKept(b)
    <3>1. Taken(b) = {b.page} /\ b.page \in Frame /\ b.page \notin free
      BY <1>5, <2>1, ObjectTaken
    <3>2. b.page \notin f .. f + m - 1
      BY <3>1, <1>11
    <3>3. word'[b.page] = word[b.page]
      BY <1>8, <3>1, <3>2
    <3>4. ObjectKept(b)'
      BY <1>4, <1>5, <2>1, <3>3 DEF ObjectKept, CachePtr, Class
    <3>5. Taken(b) \cap Taken(n) = {}
      BY <1>11, <3>1
    <3>6. QED
      BY <3>4, <3>5 DEF Apart
  <2>2. CASE PagesKept(b)
    <3>1. b.page \in Taken(b) /\ b.page \in Frame /\ Taken(b) \cap free = {}
      BY <2>2, PagesTaken
    <3>2. b.page \notin f .. f + m - 1
      BY <3>1, <1>11
    <3>3. word'[b.page] = word[b.page]
      BY <1>8, <3>1, <3>2
    <3>4. Taken(b)' = Taken(b) /\ Taken(b) \cap (free' \cup slab') = {} /\ b.page \in kmem'
      BY <1>3, <1>4, <2>2 DEF PagesKept, Taken
    <3>5. PagesKept(b)'
      BY <2>2, <3>3, <3>4 DEF PagesKept, Frame, NoClass, PageCount, PageSize
    <3>6. Taken(b) \cap Taken(n) = {}
      BY <1>11, <3>1
    <3>7. QED
      BY <3>5, <3>6 DEF Apart
  <2>3. QED
    BY <2>1, <2>2 DEF KmallocInv
<1>16. \A b, d \in blocks : b # d => Apart(b, d)
  BY DEF KmallocInv
<1>17. QED
  BY <1>3, <1>5, <1>9, <1>13, <1>14, <1>15, <1>16, Gives

LEMMA Takes ==
  ASSUME NEW b \in blocks, blocks' = blocks \ {b}, CachesMade', SlabsKept', KmallocInv,
         \A d \in blocks : d # b => (ObjectKept(d) \/ PagesKept(d))'
  PROVE  KmallocInv'
BY DEF KmallocInv, Apart, Taken

LEMMA KfreePagesInv ==
  ASSUME KmallocInv, Ready, NEW b \in blocks, blocks' = blocks \ {b},
         KfreePages(b)
  PROVE  KmallocInv'
<1>1. /\ caches' = caches /\ slab' = slab /\ used' = used /\ word' = word /\ kmem' = kmem
      /\ free' = free \cup (b.page .. b.page + word[b.page] - 1)
  BY DEF KfreePages
<1>2. CachesMade /\ SlabsKept /\ CachesMade' /\ \A d : Slots(d)' = Slots(d)
  BY <1>1, CachesKept DEF KmallocInv
<1>3. PICK G : G = b.page .. b.page + word[b.page] - 1
  OBVIOUS
<1>4. /\ G \subseteq Frame /\ G \cap slab = {}
      /\ \A d \in blocks : d # b /\ PagesKept(d) => Taken(d) \cap G = {}
  <2>1. CASE PagesKept(b)
    <3>1. Taken(b) = G /\ b.class = NoClass
      BY <1>3, <2>1, PagesTaken DEF PagesKept
    <3>2. Taken(b) \subseteq Frame /\ Taken(b) \cap slab = {}
      BY <2>1 DEF PagesKept
    <3>3. \A d \in blocks : d # b => Apart(d, b)
      BY DEF KmallocInv
    <3>4. \A d \in blocks : d # b => Taken(d) \cap Taken(b) = {}
      BY <3>1, <3>3 DEF Apart
    <3>5. QED
      BY <3>1, <3>2, <3>4
  <2>2. CASE ObjectKept(b)
    <3>1. b.class \in Nat /\ word[b.page] = -2 - b.class
      BY <2>2 DEF ObjectKept, Class, CachePtr
    <3>2. b.page \in Int
      BY <1>2, <2>2, ObjectTaken DEF Frame
    <3>3. G = {}
      BY <1>3, <3>1, <3>2
    <3>4. QED
      BY <3>3
  <2>3. QED
    BY <2>1, <2>2 DEF KmallocInv
<1>5. SlabsKept'
  BY <1>1, <1>2, <1>3, <1>4 DEF SlabsKept, Frame, Class, CachePtr
<1>6. ASSUME NEW d \in blocks, d # b
      PROVE  (ObjectKept(d) \/ PagesKept(d))'
  <2>1. CASE ObjectKept(d)
    BY <1>1, <1>2, <2>1 DEF ObjectKept, CachePtr, Class
  <2>2. CASE PagesKept(d)
    <3>1. Taken(d)' = Taken(d) /\ Taken(d) \cap (free' \cup slab') = {}
      BY <1>1, <1>3, <1>4, <1>6, <2>2 DEF PagesKept, Taken
    <3>2. QED
      BY <1>1, <2>2, <3>1 DEF PagesKept, Frame, NoClass, PageCount, PageSize
  <2>3. QED
    BY <2>1, <2>2 DEF KmallocInv
<1>7. QED
  BY <1>2, <1>5, <1>6, Takes

LEMMA KfreeObjectInv ==
  ASSUME KmallocInv, Ready, NEW b \in blocks, blocks' = blocks \ {b},
         KfreeObject(b)
  PROVE  KmallocInv'
<1>1. /\ caches' = caches /\ kmem' = kmem /\ word' = word
      /\ used' = used \ {<<b.page, b.slot>>} /\ b.page \in slab /\ b.page \notin kmem
      /\ \/ free' = free /\ slab' = slab
         \/ /\ \A u \in used' : u[1] # b.page
            /\ slab' = slab \ {b.page} /\ free' = free \cup {b.page}
  BY DEF KfreeObject, pages
<1>2. CachesMade /\ SlabsKept /\ \A d : Slots(d)' = Slots(d)
  BY <1>1, CachesKept DEF KmallocInv
<1>3. CachesMade'
  BY <1>1, <1>2, CachesKept
<1>4. SlabsKept'
  <2>1. b.page \in Frame
    BY <1>1, <1>2 DEF SlabsKept
  <2>2. free' \subseteq Frame /\ slab' \subseteq slab /\ \A f \in slab' : f \notin free'
    BY <1>1, <1>2, <2>1 DEF SlabsKept
  <2>3. QED
    BY <1>1, <1>2, <2>2 DEF SlabsKept, Frame, Class, CachePtr
<1>5. ObjectKept(b)
  BY <1>1 DEF KmallocInv, PagesKept
<1>6. ASSUME NEW d \in blocks, d # b
      PROVE  (ObjectKept(d) \/ PagesKept(d))'
  <2>1. CASE ObjectKept(d)
    <3>1. d.page # b.page \/ d.slot # b.slot
      <4>1. Taken(d) = {d.page} /\ Taken(b) = {b.page}
        BY <1>2, <1>5, <2>1, ObjectTaken
      <4>2. Apart(d, b)
        BY <1>6 DEF KmallocInv
      <4>3. QED
        BY <4>1, <4>2 DEF Apart
    <3>2. <<d.page, d.slot>> \in used'
      BY <1>1, <2>1, <3>1 DEF ObjectKept
    <3>3. d.page \in slab'
      <4>1. d.page \in slab
        BY <2>1 DEF ObjectKept
      <4>2. PICK u : u = <<d.page, d.slot>>
        OBVIOUS
      <4>3. u \in used' /\ u[1] = d.page
        BY <3>2, <4>2
      <4>4. QED
        BY <1>1, <4>1, <4>3
    <3>4. QED
      BY <1>1, <1>2, <2>1, <3>2, <3>3 DEF ObjectKept, CachePtr, Class
  <2>2. CASE PagesKept(d)
    <3>1. Taken(d)' = Taken(d) /\ Taken(d) \cap (free' \cup slab') = {}
      BY <1>1, <2>2 DEF PagesKept, Taken
    <3>2. QED
      BY <1>1, <2>2, <3>1 DEF PagesKept, Frame, NoClass, PageCount, PageSize
  <2>3. QED
    BY <2>1, <2>2 DEF KmallocInv
<1>7. QED
  BY <1>3, <1>4, <1>6, Takes

LEMMA KmallocStutters ==
  ASSUME KmallocInv, UNCHANGED <<caches, pages, used, blocks>>
  PROVE  KmallocInv'
<1>1. /\ caches' = caches /\ free' = free /\ kmem' = kmem /\ slab' = slab /\ word' = word
      /\ used' = used /\ blocks' = blocks
  BY DEF pages
<1>2. \A d : Slots(d)' = Slots(d) /\ Small(d)' = Small(d)
  BY <1>1 DEF Slots, Small
<1>3. CachesMade'
  BY <1>1, <1>2 DEF KmallocInv, CachesMade
<1>4. SlabsKept'
  BY <1>1 DEF KmallocInv, SlabsKept, Frame, Class, CachePtr
<1>5. \A b, d : Apart(b, d)' = Apart(b, d)
  BY DEF Apart, Taken
<1>6. \A b : ObjectKept(b) => ObjectKept(b)'
  BY <1>1, <1>2 DEF ObjectKept, CachePtr, Class
<1>7. \A b : PagesKept(b) => PagesKept(b)'
  BY <1>1 DEF PagesKept, Taken, Frame, NoClass, PageCount, PageSize
<1>8. QED
  BY <1>1, <1>3, <1>4, <1>5, <1>6, <1>7 DEF KmallocInv

LEMMA KmallocNextInv ==
  ASSUME KmallocInv, [HeapNext]_heapVars
  PROVE  KmallocInv'
<1>1. CASE InitKmemCache
  BY <1>1, InitKmemCacheInv
<1>2. CASE KmallocInit
  BY <1>2, KmallocInitTurnInv
<1>3. ASSUME Ready, NEW size \in Request, Kmalloc(size)
      PROVE  KmallocInv'
  <2>1. size \in Nat
    BY KmallocAssumption
  <2>2. CASE KmallocSmall(size)
    <3>1. size <= Pow2[GetOrder(size)]
      BY <2>1, OrderHolds
    <3>2. GetOrder(size) \in Class /\ UNCHANGED <<caches, outcome>>
      BY <2>2 DEF KmallocSmall
    <3>3. FromSlab(GetOrder(size), size) \/ FromNewSlab(GetOrder(size), size)
      BY <2>2 DEF KmallocSmall
    <3>4. PICK c \in Class : c = GetOrder(size)
      BY <3>2
    <3>5. size <= Pow2[c] /\ (FromSlab(c, size) \/ FromNewSlab(c, size))
      BY <3>1, <3>3, <3>4
    <3>6. QED
      BY <1>3, <2>1, <3>2, <3>5, FromSlabInv, FromNewSlabInv
  <2>3. CASE KmallocPages(size)
    BY <1>3, <2>1, <2>3, PagesGivenInv
  <2>4. CASE KmallocBeyond(size) \/ KmallocStarves(size)
    <3>1. UNCHANGED <<caches, pages, used, blocks>>
      BY <2>4 DEF KmallocBeyond, KmallocStarves
    <3>2. QED
      BY <3>1, KmallocStutters
  <2>5. QED
    BY <1>3, <2>2, <2>3, <2>4 DEF Kmalloc
<1>4. ASSUME Ready, NEW b \in blocks, Kfree(b)
      PROVE  KmallocInv'
  BY <1>4, KfreePagesInv, KfreeObjectInv DEF Kfree
<1>5. CASE UNCHANGED heapVars
  <2>1. UNCHANGED <<caches, pages, used, blocks>>
    BY <1>5 DEF heapVars, pages
  <2>2. QED
    BY <2>1, KmallocStutters
<1>6. QED
  BY <1>1, <1>2, <1>3, <1>4, <1>5 DEF HeapNext

-----------------------------------------------------------------------------
(* The page of a byte.                                                       *)
LEMMA PageOf ==
  ASSUME NEW P \in Nat \ {0}, NEW f \in Nat, NEW x \in Int, f * P <= x, x < (f + 1) * P
  PROVE  x \div P = f
<1>1. x \in Nat
  <2>1. f * P \in Nat
    OBVIOUS
  <2>2. QED
    BY <2>1
<1>2. QED
  BY <1>1, DivIs

(* The bytes of an object are the first half of its place, and the link is   *)
(* in the second half.  Both are in its page.                                *)
LEMMA SlotBytes ==
  ASSUME CachesMade, slab # {}, NEW c \in Class,
         NEW f \in Frame, NEW k \in Slots(c), NEW y \in Int,
         k * (2 * Unit(c)) <= y, y < (k + 1) * (2 * Unit(c))
  PROVE  (f * PageSize + y) \div PageSize = f
<1>1. PICK u, P : u = Unit(c) /\ P = PageSize
  OBVIOUS
<1>2. u \in Nat \ {0} /\ P \in Nat \ {0} /\ \E q \in Nat \ {0} : q > 1 /\ P = q * u
  BY <1>1, UnitFits
<1>3. PICK q \in Nat : P = q * u
  BY <1>2
<1>4. Small(c).offset = u /\ Small(c).object = 2 * u
  <2>1. Len(Descriptors) \in Nat /\ PageShift \in Nat /\ c \in Nat /\ c <= PageShift - 1
    BY KmallocAssumption DEF Class
  <2>2. Len(Descriptors) + c + 1 <= Len(caches)
    BY <2>1 DEF CachesMade
  <2>3. QED
    BY <1>1, <2>2 DEF CachesMade
<1>5. k \in Nat /\ u + k * (2 * u) < P
  BY <1>1, <1>4 DEF Slots
<1>6. 2 * k + 2 <= q
  <2>1. SUFFICES ASSUME q <= 2 * k + 1 PROVE FALSE
    BY <1>5
  <2>2. q * u <= (2 * k + 1) * u
    BY <1>2, <1>5, <2>1
  <2>3. (2 * k + 1) * u = u + k * (2 * u)
    BY <1>2, <1>5
  <2>4. QED
    BY <1>2, <1>3, <1>5, <2>2, <2>3
<1>7. (2 * k + 2) * u <= P
  BY <1>2, <1>3, <1>5, <1>6
<1>8. (k + 1) * (2 * u) = (2 * k + 2) * u /\ k * (2 * u) \in Nat
  BY <1>2, <1>5
<1>9. 0 <= y /\ y < P
  <2>1. PICK g, h : g = k * (2 * u) /\ h = (k + 1) * (2 * u)
    OBVIOUS
  <2>2. g <= y /\ y < h
    BY <1>1, <2>1
  <2>3. g \in Nat /\ h \in Int /\ h <= P
    BY <1>2, <1>5, <1>7, <1>8, <2>1
  <2>4. QED
    BY <1>2, <2>2, <2>3
<1>10. f \in Nat
  BY DEF Frame
<1>11. PICK x : x = f * P + y
  OBVIOUS
<1>12. x \in Int /\ f * P <= x /\ x < (f + 1) * P
  <2>1. f * P \in Nat /\ (f + 1) * P = f * P + P
    BY <1>2, <1>10
  <2>2. QED
    BY <1>2, <1>9, <1>11, <2>1
<1>13. x \div P = f
  BY <1>2, <1>10, <1>12, PageOf
<1>14. QED
  BY <1>1, <1>11, <1>13

LEMMA SmallIs ==
  ASSUME CachesMade, blocks # {} \/ slab # {}, NEW c \in Class
  PROVE  Small(c).offset = Unit(c) /\ Small(c).object = 2 * Unit(c)
<1>1. Len(Descriptors) \in Nat /\ PageShift \in Nat /\ c \in Nat /\ c <= PageShift - 1
  BY KmallocAssumption DEF Class
<1>2. Len(Descriptors) + c + 1 <= Len(caches)
  BY <1>1 DEF CachesMade
<1>3. QED
  BY <1>2 DEF CachesMade

LEMMA ObjectBytes ==
  ASSUME KmallocInv, NEW b \in blocks, ObjectKept(b), NEW x \in Bytes(b)
  PROVE  /\ x \in Int /\ x \div PageSize = b.page
         /\ b.page * PageSize + b.slot * (2 * Unit(b.class)) <= x
         /\ x < b.page * PageSize + b.slot * (2 * Unit(b.class)) + Unit(b.class)
<1>1. PICK c \in Class : c = b.class
  BY DEF ObjectKept
<1>2. PICK f \in Frame : f = b.page
  BY ObjectTaken DEF KmallocInv
<1>3. PICK k \in Slots(c) : k = b.slot
  BY <1>1 DEF ObjectKept
<1>4. PICK u, P : u = Unit(c) /\ P = PageSize
  OBVIOUS
<1>5. u \in Nat \ {0} /\ P \in Nat \ {0} /\ Pow2[c] \in Nat /\ Pow2[c] <= u
  BY <1>4, UnitFits
<1>6. slab # {} /\ CachesMade
  BY DEF ObjectKept, KmallocInv
<1>7. Small(c).object = 2 * u
  BY <1>4, <1>6, SmallIs
<1>8. f \in Nat /\ k \in Nat /\ c # NoClass
  BY DEF Frame, Slots, Class, NoClass
<1>9. PICK g : g = k * (2 * u)
  OBVIOUS
<1>10. PICK e : e = f * P
  OBVIOUS
<1>11. g \in Nat /\ e \in Nat
  BY <1>5, <1>8, <1>9, <1>10
<1>12. Bytes(b) = e + g .. e + g + b.size - 1
  BY <1>1, <1>2, <1>3, <1>4, <1>7, <1>8, <1>9, <1>10 DEF Bytes
<1>13. b.size \in Nat /\ b.size <= u
  BY <1>1, <1>5 DEF ObjectKept
<1>14. x \in Int /\ e + g <= x /\ x < e + g + u
  BY <1>5, <1>11, <1>12, <1>13
<1>15. PICK y \in Int : x = e + y
  <2>1. x - e \in Int /\ x = e + (x - e)
    BY <1>11, <1>14
  <2>2. QED
    BY <2>1
<1>16. g <= y /\ y < (k + 1) * (2 * u)
  <2>1. (k + 1) * (2 * u) = g + 2 * u
    BY <1>5, <1>8, <1>9
  <2>2. QED
    BY <1>5, <1>11, <1>14, <1>15, <2>1
<1>17. (f * P + y) \div P = f
  BY <1>4, <1>6, <1>9, <1>16, SlotBytes
<1>18. QED
  BY <1>1, <1>2, <1>3, <1>4, <1>9, <1>10, <1>14, <1>15, <1>17

LEMMA LinkBytes ==
  ASSUME KmallocInv, NEW f \in slab, NEW c \in Class, ClassOf(f) = c,
         NEW k \in Slots(c), NEW x \in Link(f, k)
  PROVE  /\ x \in Int /\ x \div PageSize = f
         /\ f * PageSize + k * (2 * Unit(c)) + Unit(c) <= x
         /\ x < f * PageSize + k * (2 * Unit(c)) + 2 * Unit(c)
<1>1. f \in Frame /\ f \in Nat /\ k \in Nat
  BY DEF KmallocInv, SlabsKept, Frame, Slots
<1>2. PICK u, P : u = Unit(c) /\ P = PageSize
  OBVIOUS
<1>3. u \in Nat \ {0} /\ P \in Nat \ {0} /\ Ptr \in Nat \ {0} /\ Ptr <= u
  BY <1>2, UnitFits
<1>4. slab # {} /\ CachesMade
  BY DEF KmallocInv
<1>5. Small(c).offset = u /\ Small(c).object = 2 * u
  BY <1>2, <1>4, SmallIs
<1>6. PICK g : g = k * (2 * u)
  OBVIOUS
<1>7. PICK e : e = f * P
  OBVIOUS
<1>8. g \in Nat /\ e \in Nat
  BY <1>1, <1>3, <1>6, <1>7
<1>9. Link(f, k) = e + u + g .. e + u + g + Ptr - 1
  BY <1>2, <1>5, <1>6, <1>7 DEF Link
<1>10. x \in Int /\ e + g + u <= x /\ x < e + g + 2 * u
  BY <1>3, <1>8, <1>9
<1>11. PICK y \in Int : x = e + y
  <2>1. x - e \in Int /\ x = e + (x - e)
    BY <1>8, <1>10
  <2>2. QED
    BY <2>1
<1>12. g <= y /\ y < (k + 1) * (2 * u)
  <2>1. (k + 1) * (2 * u) = g + 2 * u
    BY <1>1, <1>3, <1>6
  <2>2. QED
    BY <1>3, <1>8, <1>10, <1>11, <2>1
<1>13. (f * P + y) \div P = f
  BY <1>1, <1>2, <1>4, <1>6, <1>12, SlotBytes
<1>14. QED
  BY <1>2, <1>6, <1>7, <1>10, <1>11, <1>13

LEMMA FrameBytesAre ==
  ASSUME NEW f \in Frame, NEW x \in Int
  PROVE  x \in FrameBytes(f) <=> x \div PageSize = f
<1>1. PICK P : P = PageSize
  OBVIOUS
<1>2. P \in Nat \ {0} /\ f \in Nat
  BY <1>1, PowersPositive, KmallocAssumption DEF PageSize, Frame
<1>3. PICK e : e = f * P
  OBVIOUS
<1>4. e \in Nat /\ (f + 1) * P = e + P
  BY <1>2, <1>3
<1>5. FrameBytes(f) = e .. e + P - 1
  <2>1. FrameBytes(f) = f * P .. (f + 1) * P - 1
    BY <1>1 DEF FrameBytes
  <2>2. PICK t : t = (f + 1) * P
    OBVIOUS
  <2>3. FrameBytes(f) = e .. t - 1
    BY <1>3, <2>1, <2>2
  <2>4. t = e + P /\ t - 1 = e + P - 1
    BY <1>2, <1>4, <2>2
  <2>5. QED
    BY <2>3, <2>4
<1>6. ASSUME x \in FrameBytes(f)
      PROVE  x \div P = f
  <2>1. f * P <= x /\ x < (f + 1) * P
    BY <1>2, <1>3, <1>4, <1>5, <1>6
  <2>2. QED
    BY <1>2, <2>1, PageOf
<1>7. ASSUME x \div P = f
      PROVE  x \in FrameBytes(f)
  <2>1. PICK r : r = (x % P)
    OBVIOUS
  <2>2. r \in Nat /\ r < P /\ x = P * f + r
    BY <1>2, <1>7, <2>1
  <2>3. x = e + r
    BY <1>2, <1>3, <2>2
  <2>4. QED
    BY <1>2, <1>4, <1>5, <2>2, <2>3
<1>8. QED
  BY <1>1, <1>6, <1>7

LEMMA PagesBytes ==
  ASSUME KmallocInv, NEW b \in blocks, PagesKept(b), NEW x \in Bytes(b)
  PROVE  x \in Int /\ x \div PageSize \in Taken(b)
<1>1. PICK f, n : f = b.page /\ n = PageCount(b.size)
  OBVIOUS
<1>2. /\ f \in Nat /\ n \in Nat /\ b.class = NoClass /\ b.size \in Nat
      /\ Taken(b) = f .. f + n - 1
  BY <1>1, PagesTaken DEF PagesKept, Frame
<1>3. PICK P : P = PageSize
  OBVIOUS
<1>4. P \in Nat \ {0}
  BY <1>3, PowersPositive, KmallocAssumption DEF PageSize
<1>5. b.size <= n * P
  BY <1>1, <1>3 DEF PagesKept
<1>6. PICK e, m : e = f * P /\ m = n * P
  OBVIOUS
<1>7. e \in Nat /\ m \in Nat /\ (f + n) * P = e + m
  BY <1>2, <1>4, <1>6
<1>8. Bytes(b) = e .. e + b.size - 1
  BY <1>1, <1>2, <1>3, <1>6, <1>7 DEF Bytes
<1>9. x \in Nat /\ e <= x /\ x < e + m
  BY <1>2, <1>5, <1>6, <1>7, <1>8
<1>10. PICK d, r : d = x \div P /\ r = (x % P)
  OBVIOUS
<1>11. d \in Int /\ r \in Nat /\ r < P /\ x = P * d + r
  BY <1>4, <1>9, <1>10
<1>12. f <= d
  <2>1. SUFFICES ASSUME d + 1 <= f PROVE FALSE
    BY <1>2, <1>11
  <2>2. P * (d + 1) <= P * f
    BY <1>2, <1>4, <1>11, <2>1
  <2>3. P * (d + 1) = P * d + P /\ P * f = e
    BY <1>2, <1>4, <1>6, <1>11
  <2>4. PICK t : t = P * d
    OBVIOUS
  <2>5. t \in Int /\ t + P <= e /\ x = t + r
    BY <1>4, <1>11, <2>2, <2>3, <2>4
  <2>6. QED
    BY <1>4, <1>7, <1>9, <1>11, <2>5
<1>13. d < f + n
  <2>1. SUFFICES ASSUME f + n <= d PROVE FALSE
    BY <1>2, <1>11
  <2>2. P * (f + n) <= P * d
    BY <1>2, <1>4, <1>11, <2>1
  <2>3. P * (f + n) = e + m
    BY <1>2, <1>4, <1>7
  <2>4. PICK t : t = P * d
    OBVIOUS
  <2>5. t \in Int /\ e + m <= t /\ x = t + r
    BY <1>4, <1>11, <2>2, <2>3, <2>4
  <2>6. QED
    BY <1>4, <1>7, <1>9, <1>11, <2>5
<1>14. QED
  BY <1>2, <1>3, <1>9, <1>10, <1>11, <1>12, <1>13

(* A byte of a block is in a frame of the block.                             *)
LEMMA ByteTaken ==
  ASSUME KmallocInv, NEW b \in blocks, NEW x \in Bytes(b)
  PROVE  x \in Int /\ x \div PageSize \in Taken(b)
<1>1. CASE ObjectKept(b)
  <2>1. Taken(b) = {b.page}
    BY <1>1, ObjectTaken DEF KmallocInv
  <2>2. QED
    BY <1>1, <2>1, ObjectBytes
<1>2. CASE PagesKept(b)
  BY <1>2, PagesBytes
<1>3. QED
  BY <1>1, <1>2 DEF KmallocInv

(* What is between a multiple of a number and the next is between no others. *)
LEMMA Strides ==
  ASSUME NEW k \in Nat, NEW m \in Nat, NEW u \in Nat, NEW y \in Int,
         k * (2 * u) <= y, y < k * (2 * u) + 2 * u, m * (2 * u) <= y, y < m * (2 * u) + 2 * u
  PROVE  k = m
<1>1. ASSUME NEW i \in Nat, NEW j \in Nat, i < j, y < i * (2 * u) + 2 * u, j * (2 * u) <= y
      PROVE  FALSE
  <2>1. (i + 1) * (2 * u) <= j * (2 * u)
    BY <1>1
  <2>2. (i + 1) * (2 * u) = i * (2 * u) + 2 * u
    OBVIOUS
  <2>3. PICK g, h : g = i * (2 * u) /\ h = j * (2 * u)
    OBVIOUS
  <2>4. g \in Int /\ h \in Int /\ g + 2 * u <= h /\ y < g + 2 * u /\ h <= y
    BY <1>1, <2>1, <2>2, <2>3
  <2>5. QED
    BY <2>4
<1>2. QED
  BY <1>1

LEMMA BlocksApart ==
  ASSUME KmallocInv, NEW b \in blocks, NEW d \in blocks, b # d
  PROVE  Bytes(b) \cap Bytes(d) = {}
<1>1. SUFFICES ASSUME NEW x \in Bytes(b), x \in Bytes(d) PROVE FALSE
  OBVIOUS
<1>2. x \div PageSize \in Taken(b) /\ x \div PageSize \in Taken(d)
  BY <1>1, ByteTaken
<1>3. b.class # NoClass /\ d.class # NoClass /\ b.slot # d.slot
  BY <1>2 DEF KmallocInv, Apart
<1>4. ObjectKept(b) /\ ObjectKept(d)
  BY <1>3 DEF KmallocInv, PagesKept
<1>5. x \div PageSize = b.page /\ x \div PageSize = d.page
  BY <1>1, <1>4, ObjectBytes
<1>6. PICK f : f = b.page /\ f = d.page
  BY <1>5
<1>7. ClassOf(f) = b.class /\ ClassOf(f) = d.class
  BY <1>4, <1>6, ObjectTaken DEF KmallocInv
<1>8. PICK c \in Class : c = b.class /\ c = d.class
  BY <1>4, <1>7 DEF ObjectKept
<1>9. PICK u, P : u = Unit(c) /\ P = PageSize
  OBVIOUS
<1>10. u \in Nat \ {0} /\ P \in Nat
  BY <1>9, UnitFits
<1>11. PICK k, m : k = b.slot /\ m = d.slot
  OBVIOUS
<1>12. k \in Nat /\ m \in Nat /\ k # m /\ f \in Nat
  <2>1. k \in Slots(c) /\ m \in Slots(c) /\ f \in Frame
    BY <1>4, <1>6, <1>8, <1>11, ObjectTaken DEF ObjectKept, KmallocInv
  <2>2. QED
    BY <1>3, <1>11, <2>1 DEF Slots, Frame
<1>13. /\ x \in Int /\ f * P + k * (2 * u) <= x /\ x < f * P + k * (2 * u) + u
       /\ f * P + m * (2 * u) <= x /\ x < f * P + m * (2 * u) + u
  BY <1>1, <1>4, <1>6, <1>8, <1>9, <1>11, ObjectBytes
<1>14. PICK e, g, h : e = f * P /\ g = k * (2 * u) /\ h = m * (2 * u)
  OBVIOUS
<1>15. e \in Int /\ g \in Int /\ h \in Int
  BY <1>10, <1>12, <1>14
<1>16. PICK y \in Int : x = e + y
  <2>1. x - e \in Int /\ x = e + (x - e)
    BY <1>13, <1>15
  <2>2. QED
    BY <2>1
<1>17. g <= y /\ y < g + 2 * u /\ h <= y /\ y < h + 2 * u
  <2>1. e + g <= x /\ x < e + g + u /\ e + h <= x /\ x < e + h + u
    BY <1>13, <1>14
  <2>2. QED
    BY <1>10, <1>15, <1>16, <2>1
<1>18. k = m
  BY <1>10, <1>12, <1>14, <1>17, Strides
<1>19. QED
  BY <1>12, <1>18

LEMMA LinksApart ==
  ASSUME KmallocInv, NEW f \in slab, NEW k \in Slots(ClassOf(f)),
         NEW b \in blocks
  PROVE  Link(f, k) \subseteq FrameBytes(f) /\ Bytes(b) \cap Link(f, k) = {}
<1>1. SlabsKept /\ f \in Frame /\ f \in Int /\ word[f] \in Int
  BY DEF KmallocInv, SlabsKept, Frame
<1>2. PICK c \in Class : word[f] = CachePtr(c)
  BY <1>1 DEF SlabsKept
<1>3. ClassOf(f) = c /\ k \in Slots(c)
  <2>1. c \in Int
    BY DEF Class
  <2>2. ClassOf(f) = c
    BY <1>2, <2>1 DEF ClassOf, CachePtr
  <2>3. QED
    BY <2>2
<1>4. Link(f, k) \subseteq FrameBytes(f)
  BY <1>1, <1>3, LinkBytes, FrameBytesAre
<1>5. ASSUME NEW x \in Bytes(b), x \in Link(f, k)
      PROVE  FALSE
  <2>1. x \div PageSize = f
    BY <1>3, <1>5, LinkBytes
  <2>2. f \in Taken(b)
    BY <2>1, ByteTaken
  <2>3. ObjectKept(b)
    BY <2>2 DEF KmallocInv, PagesKept
  <2>4. b.page = f /\ b.class = c
    BY <1>1, <1>3, <2>2, <2>3, ObjectTaken
  <2>5. PICK u, P : u = Unit(c) /\ P = PageSize
    OBVIOUS
  <2>6. u \in Nat \ {0} /\ P \in Nat
    BY <2>5, UnitFits
  <2>7. PICK m : m = b.slot
    OBVIOUS
  <2>8. k \in Nat /\ m \in Nat
    BY <1>3, <2>3, <2>4, <2>7 DEF ObjectKept, Slots
  <2>9. /\ x \in Int /\ f * P + k * (2 * u) + u <= x /\ x < f * P + k * (2 * u) + 2 * u
    BY <1>3, <1>5, <2>5, LinkBytes
  <2>10. f * P + m * (2 * u) <= x /\ x < f * P + m * (2 * u) + u
    BY <2>3, <2>4, <2>5, <2>7, ObjectBytes
  <2>11. PICK e, g, h : e = f * P /\ g = k * (2 * u) /\ h = m * (2 * u)
    OBVIOUS
  <2>12. e \in Int /\ g \in Int /\ h \in Int
    BY <1>1, <2>6, <2>8, <2>11
  <2>13. PICK y \in Int : x = e + y
    <3>1. x - e \in Int /\ x = e + (x - e)
      BY <2>9, <2>12
    <3>2. QED
      BY <3>1
  <2>14. g + u <= y /\ y < g + 2 * u /\ h <= y /\ y < h + u
    <3>1. e + g + u <= x /\ x < e + g + 2 * u /\ e + h <= x /\ x < e + h + u
      BY <2>9, <2>10, <2>11
    <3>2. QED
      BY <2>6, <2>12, <2>13, <3>1
  <2>15. g <= y /\ y < h + 2 * u
    BY <2>6, <2>12, <2>14
  <2>16. k = m
    BY <2>6, <2>8, <2>11, <2>14, <2>15, Strides
  <2>17. QED
    BY <2>6, <2>11, <2>12, <2>14, <2>16
<1>6. QED
  BY <1>4, <1>5

LEMMA KmallocGivesExclusive ==
  ASSUME KmallocInv
  PROVE  Exclusive
<1>1. ASSUME NEW b \in blocks, NEW d \in blocks, b # d
      PROVE  Bytes(b) \cap Bytes(d) = {}
  BY <1>1, BlocksApart
<1>2. ASSUME NEW b \in blocks, NEW f \in free
      PROVE  Bytes(b) \cap FrameBytes(f) = {}
  <2>1. SUFFICES ASSUME NEW x \in Bytes(b), x \in FrameBytes(f) PROVE FALSE
    OBVIOUS
  <2>2. SlabsKept /\ f \in Frame
    BY DEF KmallocInv, SlabsKept
  <2>3. x \in Int /\ x \div PageSize \in Taken(b)
    BY <2>1, ByteTaken
  <2>4. f \in Taken(b)
    BY <2>1, <2>2, <2>3, FrameBytesAre
  <2>5. CASE ObjectKept(b)
    BY <2>2, <2>4, <2>5, ObjectTaken
  <2>6. CASE PagesKept(b)
    BY <2>4, <2>6 DEF PagesKept
  <2>7. QED
    BY <2>5, <2>6 DEF KmallocInv
<1>3. ASSUME NEW f \in slab, NEW k \in Slots(ClassOf(f))
      PROVE  Link(f, k) \subseteq FrameBytes(f)
  <2>1. SlabsKept /\ f \in Frame /\ word[f] \in Int
    BY DEF KmallocInv, SlabsKept
  <2>2. PICK c \in Class : word[f] = CachePtr(c)
    BY <2>1 DEF SlabsKept
  <2>3. ClassOf(f) = c /\ k \in Slots(c)
    <3>1. c \in Int
      BY DEF Class
    <3>2. ClassOf(f) = c
      BY <2>2, <3>1 DEF ClassOf, CachePtr
    <3>3. QED
      BY <1>3, <3>2
  <2>4. QED
    BY <2>1, <2>3, LinkBytes, FrameBytesAre
<1>4. ASSUME NEW f \in slab, NEW k \in Slots(ClassOf(f)), NEW b \in blocks
      PROVE  Bytes(b) \cap Link(f, k) = {}
  BY <1>4, LinksApart
<1>5. QED
  BY <1>1, <1>2, <1>3, <1>4 DEF Exclusive

LEMMA KmallocGivesOwn ==
  ASSUME KmallocInv
  PROVE  KfreeOwn
<1>1. ASSUME NEW b \in blocks, ObjectKept(b)
      PROVE  b.class # NoClass /\ word[b.page] <= 0
  BY <1>1 DEF ObjectKept, Class, CachePtr, NoClass
<1>2. ASSUME NEW b \in blocks, PagesKept(b)
      PROVE  b.class = NoClass /\ word[b.page] = PageCount(b.size)
  BY <1>2 DEF PagesKept
<1>3. QED
  BY <1>1, <1>2 DEF KfreeOwn, KmallocInv

LEMMA KmallocInductive == HeapSpec => []KmallocInv
<1>1. HeapInit => KmallocInv
  BY KmallocInitInv
<1>2. KmallocInv /\ [HeapNext]_heapVars => KmallocInv'
  BY KmallocNextInv
<1>3. QED
  BY <1>1, <1>2, PTL DEF HeapSpec

(* Exclusive: what kmalloc hands out, of a cache or of whole pages, shares   *)
(* no byte with another block in use, with a free page, or with the links    *)
(* that the caches keep between the objects of their slabs, for any number   *)
(* of pages and classes and any sizes of a page and a pointer.               *)
THEOREM BlocksExclusive == HeapSpec => []Exclusive
<1>1. KmallocInv => Exclusive
  BY KmallocGivesExclusive
<1>2. QED
  BY <1>1, KmallocInductive, PTL

(* KfreeOwn: kfree never gives back pages it was not asked to, though        *)
(* cache_p and kmem_size share their place and PG_KMEM is never cleared.     *)
THEOREM KfreeGivesBackOwn == HeapSpec => []KfreeOwn
<1>1. KmallocInv => KfreeOwn
  BY KmallocGivesOwn
<1>2. QED
  BY <1>1, KmallocInductive, PTL
=============================================================================
