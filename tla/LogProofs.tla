----------------------------- MODULE LogProofs ------------------------------
(* The kernel log keeps its last BufLen characters, and every line of it     *)
(* starts with a level, for every length of the ring, every width of the two *)
(* counters and all messages.                                                *)
(* The console: whatever is formatted, by printf, sprintf or the keyboard's  *)
(* handler, the buffer, the terminal and its ring hold what they should, for *)
(* every set of directives, every buffer, and a screen and ring of any size. *)
EXTENDS Log, Console, SequenceTheorems, FiniteSetTheorems, TLAPS

-----------------------------------------------------------------------------
(* What % does, first by the quotient it leaves unsaid.  The provers see it   *)
(* under a name of its own.                                                  *)
Mod(a, n) == a % n

LEMMA ModIs ==
  ASSUME NEW a \in Int, NEW n \in Nat \ {0}
  PROVE  /\ Mod(a, n) \in 0 .. n - 1
         /\ \E q \in Int : a = q * n + Mod(a, n)
<1>1. Mod(a, n) \in 0 .. n - 1
  BY DEF Mod
<1>2. a = (a \div n) * n + Mod(a, n) /\ a \div n \in Int
  BY DEF Mod
<1> QED
  BY <1>1, <1>2

LEMMA ModUnique ==
  ASSUME NEW a \in Int, NEW n \in Nat \ {0}, NEW q \in Int, NEW r \in 0 .. n - 1,
         a = q * n + r
  PROVE  Mod(a, n) = r
<1>1. PICK p \in Int : a = p * n + Mod(a, n)
  BY ModIs
<1> DEFINE s == Mod(a, n)
<1>2. s \in 0 .. n - 1 /\ q * n + r = p * n + s
  BY <1>1, ModIs
<1> HIDE DEF s
<1>3. (q - p) * n = s - r /\ q - p \in Int
  BY <1>2
<1>4. q - p >= 1 => (q - p) * n >= n
  BY <1>3
<1>5. q - p <= -1 => (q - p) * n <= -n
  BY <1>3
<1>6. q = p
  BY <1>2, <1>3, <1>4, <1>5
<1>7. r = s
  BY <1>6, <1>2
<1> QED
  BY <1>7 DEF s

LEMMA ModFits ==
  ASSUME NEW n \in Nat \ {0}, NEW a \in Int
  PROVE  /\ a \in 0 .. n - 1 => Mod(a, n) = a
         /\ a \in n .. 2 * n - 1 => Mod(a, n) = a - n
         /\ a \in -n .. -1 => Mod(a, n) = a + n
<1>1. ASSUME a \in 0 .. n - 1  PROVE Mod(a, n) = a
  <2>1. a = 0 * n + a
    OBVIOUS
  <2> QED
    BY <1>1, <2>1, ModUnique
<1>2. ASSUME a \in n .. 2 * n - 1  PROVE Mod(a, n) = a - n
  <2>1. a = 1 * n + (a - n) /\ a - n \in 0 .. n - 1
    BY <1>2
  <2> QED
    BY <2>1, ModUnique
<1>3. ASSUME a \in -n .. -1  PROVE Mod(a, n) = a + n
  <2>1. a = (-1) * n + (a + n) /\ a + n \in 0 .. n - 1
    BY <1>3
  <2> QED
    BY <2>1, ModUnique
<1> QED
  BY <1>1, <1>2, <1>3

LEMMA ModSum ==
  ASSUME NEW a \in Int, NEW b \in Int, NEW n \in Nat \ {0}
  PROVE  Mod(Mod(a, n) + b, n) = Mod(a + b, n)
<1>1. PICK q \in Int : a = q * n + Mod(a, n)
  BY ModIs
<1> DEFINE r == Mod(a, n)
           c == r + b
<1>2. r \in Int /\ c \in Int /\ a = q * n + r
  BY <1>1, ModIs
<1>3. PICK p \in Int : c = p * n + Mod(c, n)
  BY <1>2, ModIs
<1> DEFINE s == Mod(c, n)
<1>4. s \in 0 .. n - 1 /\ c = p * n + s
  BY <1>2, <1>3, ModIs
<1>5. c = r + b
  OBVIOUS
<1> HIDE DEF r, c, s
<1>6. a + b = (q + p) * n + s /\ q + p \in Int /\ a + b \in Int
  BY <1>2, <1>4, <1>5
<1>7. Mod(a + b, n) = s
  BY <1>4, <1>6, ModUnique
<1> QED
  BY <1>7 DEF r, c, s

LEMMA ModOfMod ==
  ASSUME NEW a \in Int, NEW n \in Nat \ {0}, NEW m \in Nat \ {0}, Mod(m, n) = 0
  PROVE  Mod(Mod(a, m), n) = Mod(a, n)
<1>0. m \in Int
  OBVIOUS
<1>1. PICK k \in Int : m = k * n + Mod(m, n)
  BY <1>0, ModIs
<1>2. PICK q \in Int : a = q * m + Mod(a, m)
  BY ModIs
<1> DEFINE r == Mod(a, m)
<1>3. r \in Int /\ a = q * m + r
  BY <1>2, ModIs
<1>4. PICK p \in Int : r = p * n + Mod(r, n)
  BY <1>3, ModIs
<1> DEFINE s == Mod(r, n)
<1>5. s \in 0 .. n - 1 /\ r = p * n + s
  BY <1>3, <1>4, ModIs
<1> HIDE DEF r, s
<1>6. m = k * n
  BY <1>1
<1>7. a = (q * k + p) * n + s /\ q * k + p \in Int
  BY <1>3, <1>5, <1>6
<1>8. Mod(a, n) = s
  BY <1>5, <1>7, ModUnique
<1> QED
  BY <1>8 DEF r, s

LEMMA ModApart ==
  ASSUME NEW a \in Int, NEW b \in Int, NEW n \in Nat \ {0}, a < b, b - a < n
  PROVE  Mod(a, n) # Mod(b, n)
<1> SUFFICES ASSUME Mod(a, n) = Mod(b, n)  PROVE FALSE
  OBVIOUS
<1>1. PICK q \in Int : a = q * n + Mod(a, n)
  BY ModIs
<1>2. PICK p \in Int : b = p * n + Mod(b, n)
  BY ModIs
<1> DEFINE r == Mod(a, n)
<1>3. r \in Int /\ a = q * n + r /\ b = p * n + r
  BY <1>1, <1>2, ModIs
<1> HIDE DEF r
<1>4. (p - q) * n = b - a /\ p - q \in Int
  BY <1>3
<1>5. p - q >= 1 => (p - q) * n >= n
  BY <1>4
<1>6. p - q <= 0 => (p - q) * n <= 0
  BY <1>4
<1> QED
  BY <1>4, <1>5, <1>6

LEMMA ModDiff ==
  ASSUME NEW a \in Int, NEW b \in Int, NEW n \in Nat \ {0}
  PROVE  Mod(a - Mod(b, n), n) = Mod(a - b, n)
<1>1. PICK q \in Int : b = q * n + Mod(b, n)
  BY ModIs
<1> DEFINE r == Mod(b, n)
           c == a - r
<1>2. r \in Int /\ c \in Int /\ b = q * n + r
  BY <1>1, ModIs
<1>3. PICK p \in Int : c = p * n + Mod(c, n)
  BY <1>2, ModIs
<1> DEFINE s == Mod(c, n)
<1>4. s \in 0 .. n - 1 /\ c = p * n + s
  BY <1>2, <1>3, ModIs
<1>5. c = a - r
  OBVIOUS
<1> HIDE DEF r, c, s
<1>6. a - b = (p - q) * n + s /\ p - q \in Int /\ a - b \in Int
  BY <1>2, <1>4, <1>5
<1>7. Mod(a - b, n) = s
  BY <1>4, <1>6, ModUnique
<1> QED
  BY <1>7 DEF r, c, s

(* An index of the ring is that of the character, also across a wrap of the  *)
(* counter.                                                                  *)
LEMMA ModIndex ==
  ASSUME NEW a \in Int, NEW b \in Int, NEW n \in Nat \ {0}, NEW m \in Nat \ {0}, Mod(m, n) = 0
  PROVE  Mod(Mod(a, m) + b, n) = Mod(a + b, n)
<1>1. m \in Int /\ Mod(a, m) \in Int
  BY ModIs
<1>2. Mod(Mod(a, m) + b, n) = Mod(Mod(Mod(a, m), n) + b, n)
  BY <1>1, ModSum
<1>3. Mod(Mod(a, m), n) = Mod(a, n)
  BY ModOfMod
<1>4. Mod(Mod(a, n) + b, n) = Mod(a + b, n)
  BY ModSum
<1> QED
  BY <1>2, <1>3, <1>4

-----------------------------------------------------------------------------
(* How much of the ring is in use.                                           *)
Held == (end - start) % Word

Kind == {"unused", "level", "text", "added"}

TypeOK ==
  /\ buf \in [0 .. BufLen - 1 -> Char]
  /\ start \in 0 .. Word - 1 /\ end \in 0 .. Word - 1
  /\ unknown \in BOOLEAN
  /\ rest \in Seq(Char)
  /\ mark \in [0 .. BufLen - 1 -> Kind]

LEMMA LogSizes ==
  /\ BufLen \in Nat \ {0} /\ BufLen >= 4
  /\ Word \in Nat \ {0} /\ Word > BufLen + 4
  /\ Mod(Word, BufLen) = 0
BY LogAssumption DEF Mod

(* What emit_log_char does to the counters, in a ring that holds d           *)
(* characters.                                                               *)
LEMMA CountersMove ==
  ASSUME NEW k \in 1 .. 4, TypeOK, Held <= BufLen,
         end' = (end + k) % Word, start' = StartAfter(end')
  PROVE  /\ start' \in 0 .. Word - 1 /\ end' \in 0 .. Word - 1
         /\ Held' = IF Held + k <= BufLen THEN Held + k ELSE BufLen
<1> DEFINE e == end'  t == start'
<1>1. e = Mod(end + k, Word)
  BY DEF Mod
<1>2. t = IF Mod(e - start, Word) > BufLen THEN Mod(e - BufLen, Word) ELSE start
  BY DEF Mod, StartAfter
<1>3. Held = Mod(end - start, Word) /\ Held' = Mod(e - t, Word)
  BY DEF Mod, Held
<1>4. start \in 0 .. Word - 1 /\ end \in 0 .. Word - 1 /\ Held <= BufLen
  BY DEF TypeOK
<1> DEFINE d == Held  d2 == Held'
<1>5. d = Mod(end - start, Word) /\ d2 = Mod(e - t, Word) /\ d <= BufLen
  BY <1>3, <1>4
<1> SUFFICES /\ t \in 0 .. Word - 1 /\ e \in 0 .. Word - 1
             /\ d2 = IF d + k <= BufLen THEN d + k ELSE BufLen
  OBVIOUS
<1> HIDE DEF e, t, d, d2
<1> USE LogSizes
<1>6. d \in 0 .. Word - 1 /\ e \in 0 .. Word - 1
  BY <1>1, <1>4, <1>5, ModIs
<1>7. Mod(e - start, Word) = d + k
  <2>1. Mod(Mod(end + k, Word) + (-start), Word) = Mod((end + k) + (-start), Word)
    BY <1>4, ModSum
  <2>2. Mod(Mod(end - start, Word) + k, Word) = Mod((end - start) + k, Word)
    BY <1>4, ModSum
  <2>3. e + (-start) = e - start /\ (end + k) + (-start) = (end - start) + k
    BY <1>4, <1>6
  <2>4. Mod(d + k, Word) = d + k
    <3>1. d + k \in 0 .. Word - 1 /\ d + k \in Int
      BY <1>5, <1>6
    <3> QED
      BY <3>1, ModFits
  <2> QED
    BY <1>1, <1>5, <2>1, <2>2, <2>3, <2>4
<1>8. CASE d + k <= BufLen
  <2>1. t = start
    BY <1>2, <1>6, <1>7, <1>8
  <2> QED
    BY <1>4, <1>5, <1>6, <1>7, <1>8, <2>1
<1>9. CASE ~(d + k <= BufLen)
  <2>1. t = Mod(e - BufLen, Word)
    BY <1>2, <1>6, <1>7, <1>9
  <2>2. t \in 0 .. Word - 1
    BY <1>6, <2>1, ModIs
  <2>3. Mod(e - Mod(e - BufLen, Word), Word) = Mod(e - (e - BufLen), Word)
    BY <1>6, ModDiff
  <2>4. e - (e - BufLen) = BufLen
    BY <1>6
  <2>5. Mod(BufLen, Word) = BufLen
    BY ModFits
  <2> QED
    BY <1>5, <1>6, <1>9, <2>1, <2>2, <2>3, <2>4, <2>5
<1> QED
  BY <1>8, <1>9

(* Where the n-th character of the log is, counted from log_end.             *)
LEMMA IndexFromEnd ==
  ASSUME NEW st \in 0 .. Word - 1, NEW en \in Int, NEW n \in Int
  PROVE  Mod(st + n - 1, BufLen) = Mod(en - Mod(en - st, Word) + n - 1, BufLen)
<1> USE LogSizes
<1> DEFINE d == Mod(en - st, Word)
<1>1. d \in Int
  BY ModIs
<1>2. Mod(en - d, Word) = st
  <2>1. Mod(en - d, Word) = Mod(en - (en - st), Word)
    BY ModDiff
  <2>2. en - (en - st) = st
    OBVIOUS
  <2>3. Mod(st, Word) = st
    BY ModFits
  <2> QED
    BY <2>1, <2>2, <2>3
<1> HIDE DEF d
<1>3. Mod(Mod(en - d, Word) + (n - 1), BufLen) = Mod((en - d) + (n - 1), BufLen)
  BY <1>1, ModIndex
<1>4. st + (n - 1) = st + n - 1 /\ (en - d) + (n - 1) = en - d + n - 1
  BY <1>1
<1> QED
  BY <1>2, <1>3, <1>4 DEF d

-----------------------------------------------------------------------------
(* The log, as a sequence: of its characters and of where they come from.    *)
TextOf(b, st, en) ==
  [n \in 1 .. Mod(en - st, Word) |-> b[Mod(st + n - 1, BufLen)]]

LEMMA TextIs ==
  /\ Text = TextOf(buf, start, end) /\ Marks = TextOf(mark, start, end)
  /\ Text' = TextOf(buf', start', end') /\ Marks' = TextOf(mark', start', end')
BY DEF Text, Marks, TextOf, Mod

(* t is what the ring b holds of d characters before the index en.           *)
Holds(t, b, en, d, S) ==
  /\ t \in Seq(S) /\ d \in Nat /\ Len(t) = d
  /\ \A n \in 1 .. d : t[n] = b[Mod(en - d + n - 1, BufLen)]

LEMMA TextAt ==
  ASSUME NEW S, NEW b \in [0 .. BufLen - 1 -> S], NEW st \in 0 .. Word - 1, NEW en \in Int
  PROVE  Holds(TextOf(b, st, en), b, en, Mod(en - st, Word), S)
<1> USE LogSizes
<1> DEFINE d == Mod(en - st, Word)
           t == TextOf(b, st, en)
<1>1. d \in 0 .. Word - 1
  <2>1. en - st \in Int
    OBVIOUS
  <2> QED
    BY <2>1, ModIs
<1>2. t = [n \in 1 .. d |-> b[Mod(st + n - 1, BufLen)]]
  BY DEF TextOf
<1>3. \A n \in 1 .. d : Mod(st + n - 1, BufLen) = Mod(en - d + n - 1, BufLen)
  <2>1. \A n \in 1 .. d : n \in Int
    BY <1>1
  <2> QED
    BY <2>1, IndexFromEnd
<1> HIDE DEF d, t
<1>4. \A n \in 1 .. d : b[Mod(st + n - 1, BufLen)] \in S
  <2> SUFFICES ASSUME NEW n \in 1 .. d  PROVE b[Mod(st + n - 1, BufLen)] \in S
    OBVIOUS
  <2>1. st + n - 1 \in Int
    BY <1>1
  <2>2. Mod(st + n - 1, BufLen) \in 0 .. BufLen - 1
    BY <2>1, ModIs
  <2> QED
    BY <2>2
<1>5. t \in Seq(S) /\ Len(t) = d
  BY <1>1, <1>2, <1>4
<1>6. \A n \in 1 .. d : t[n] = b[Mod(en - d + n - 1, BufLen)]
  BY <1>2, <1>3
<1>7. Holds(t, b, en, d, S)
  BY <1>1, <1>5, <1>6 DEF Holds
<1> QED
  BY <1>7 DEF d, t

(* emit_log_char of up to four characters writes them where the ring ends,   *)
(* and keeps what else it holds.                                             *)
Written(b2, b, s, S) ==
  LET k == Len(s) IN
    /\ b2 \in [0 .. BufLen - 1 -> S]
    /\ \A j \in 1 .. k : b2[Mod(end + j - 1, BufLen)] = s[j]
    /\ \A c \in Int : k - BufLen <= c /\ c < 0 =>
         b2[Mod(end + c, BufLen)] = b[Mod(end + c, BufLen)]
    /\ \A x \in 0 .. BufLen - 1 :
         (\A j \in 1 .. k : Mod(end + j - 1, BufLen) # x) => b2[x] = b[x]

LEMMA RingAfter ==
  ASSUME end \in 0 .. Word - 1, NEW S, NEW b \in [0 .. BufLen - 1 -> S],
         NEW s \in Seq(S), Len(s) \in 1 .. 4, NEW b2, b2 = Stored(b, s)
  PROVE  Written(b2, b, s, S)
<1> USE LogSizes
<1> DEFINE k == Len(s)
<1>0. k \in 1 .. 4
  OBVIOUS
<1>1. end \in Int
  OBVIOUS
<1>2. DOMAIN s = 1 .. k /\ \A j \in 1 .. k : s[j] \in S
  OBVIOUS
<1> HIDE DEF k
<1> DEFINE here(x) == {n \in 1 .. k : Mod(end + n - 1, BufLen) = x}
           last(x) == CHOOSE n \in here(x) : \A m \in here(x) : m <= n
<1>3. b2 = [x \in 0 .. BufLen - 1 |-> IF here(x) = {} THEN b[x] ELSE s[last(x)]]
  BY <1>2 DEF Stored, Mod
<1>4. ASSUME NEW j \in 1 .. k
      PROVE  /\ Mod(end + j - 1, BufLen) \in 0 .. BufLen - 1
             /\ here(Mod(end + j - 1, BufLen)) = {j}
             /\ last(Mod(end + j - 1, BufLen)) = j
  <2>1. end + j - 1 \in Int
    BY <1>1
  <2>2. Mod(end + j - 1, BufLen) \in 0 .. BufLen - 1
    BY <2>1, ModIs
  <2>3. ASSUME NEW n \in 1 .. k, n < j  PROVE Mod(end + n - 1, BufLen) # Mod(end + j - 1, BufLen)
    <3>1. end + n - 1 \in Int /\ end + n - 1 < end + j - 1
          /\ (end + j - 1) - (end + n - 1) < BufLen
      BY <1>0, <1>1, <2>3
    <3> QED
      BY <2>1, <3>1, ModApart
  <2>4. ASSUME NEW n \in 1 .. k, n > j  PROVE Mod(end + n - 1, BufLen) # Mod(end + j - 1, BufLen)
    <3>1. end + n - 1 \in Int /\ end + j - 1 < end + n - 1
          /\ (end + n - 1) - (end + j - 1) < BufLen
      BY <1>0, <1>1, <2>4
    <3> QED
      BY <2>1, <3>1, ModApart
  <2>5. here(Mod(end + j - 1, BufLen)) = {j}
    <3>1. \A n \in 1 .. k : n = j \/ n < j \/ n > j
      OBVIOUS
    <3> QED
      BY <2>3, <2>4, <3>1
  <2>6. last(Mod(end + j - 1, BufLen)) = j
    <3>1. last(Mod(end + j - 1, BufLen)) = CHOOSE n \in {j} : \A m \in {j} : m <= n
      BY <2>5
    <3>2. j \in Int /\ j <= j
      OBVIOUS
    <3> HIDE DEF last
    <3> QED
      BY <3>1, <3>2
  <2> QED
    BY <2>2, <2>5, <2>6
<1>5. ASSUME NEW c \in Int, k - BufLen <= c, c < 0
      PROVE  Mod(end + c, BufLen) \in 0 .. BufLen - 1 /\ here(Mod(end + c, BufLen)) = {}
  <2>1. end + c \in Int
    BY <1>1
  <2>2. Mod(end + c, BufLen) \in 0 .. BufLen - 1
    BY <2>1, ModIs
  <2>3. ASSUME NEW n \in 1 .. k  PROVE Mod(end + c, BufLen) # Mod(end + n - 1, BufLen)
    <3>1. end + n - 1 \in Int /\ end + c < end + n - 1
          /\ (end + n - 1) - (end + c) < BufLen
      BY <1>1, <1>5
    <3> QED
      BY <2>1, <3>1, ModApart
  <2> QED
    BY <2>2, <2>3
<1>11. \A x \in 0 .. BufLen - 1 :
         (\A j \in 1 .. k : Mod(end + j - 1, BufLen) # x) => here(x) = {}
  OBVIOUS
<1> HIDE DEF here, last
<1>6. \A x \in 0 .. BufLen - 1 :
        b2[x] = IF here(x) = {} THEN b[x] ELSE s[last(x)]
  BY <1>3
<1>7. \A x \in 0 .. BufLen - 1 : here(x) # {} => last(x) \in 1 .. k
  <2> SUFFICES ASSUME NEW x \in 0 .. BufLen - 1, here(x) # {}  PROVE last(x) \in 1 .. k
    OBVIOUS
  <2>1. PICK j \in 1 .. k : x = Mod(end + j - 1, BufLen)
    BY DEF here
  <2> QED
    BY <2>1, <1>4
<1>8. b2 \in [0 .. BufLen - 1 -> S]
  <2>1. \A x \in 0 .. BufLen - 1 : (IF here(x) = {} THEN b[x] ELSE s[last(x)]) \in S
    BY <1>2, <1>7
  <2> QED
    BY <1>3, <2>1
<1>9. \A j \in 1 .. k : b2[Mod(end + j - 1, BufLen)] = s[j]
  BY <1>4, <1>6
<1>10. \A c \in Int : k - BufLen <= c /\ c < 0 =>
         b2[Mod(end + c, BufLen)] = b[Mod(end + c, BufLen)]
  BY <1>5, <1>6
<1>12. \A x \in 0 .. BufLen - 1 :
         (\A j \in 1 .. k : Mod(end + j - 1, BufLen) # x) => b2[x] = b[x]
  BY <1>6, <1>11
<1> QED
  BY <1>8, <1>9, <1>10, <1>12 DEF Written, k

(* t2 is the last characters of t with s behind them.                        *)
Follows(t2, t, s, S) ==
  LET D == Len(t)
      k == Len(s)
      M == Len(t2)
  IN  /\ t \in Seq(S) /\ t2 \in Seq(S)
      /\ D \in 0 .. BufLen
      /\ M = IF D + k <= BufLen THEN D + k ELSE BufLen
      /\ \A n \in 1 .. M :
           t2[n] = IF n + D + k - M <= D THEN t[n + D + k - M] ELSE s[n + k - M]

(* What the log is after a step that emits s.                                *)
LEMMA TextAfter ==
  ASSUME TypeOK, Held <= BufLen, NEW S, NEW b \in [0 .. BufLen - 1 -> S],
         NEW s \in Seq(S), NEW k \in 1 .. 4, Len(s) = k, NEW b2, b2 = Stored(b, s),
         end' = (end + k) % Word, start' = StartAfter(end')
  PROVE  Follows(TextOf(b2, start', end'), TextOf(b, start, end), s, S)
<1> USE LogSizes
<1>1. start \in 0 .. Word - 1 /\ end \in 0 .. Word - 1
  BY DEF TypeOK
<1>2. /\ end' = Mod(end + k, Word)
      /\ start' \in 0 .. Word - 1 /\ end' \in 0 .. Word - 1
      /\ Held' = IF Held + k <= BufLen THEN Held + k ELSE BufLen
  BY CountersMove DEF Mod
<1>3. Held = Mod(end - start, Word) /\ Held' = Mod(end' - start', Word)
  BY DEF Held, Mod
<1>4. /\ b2 \in [0 .. BufLen - 1 -> S]
      /\ \A j \in 1 .. k : b2[Mod(end + j - 1, BufLen)] = s[j]
      /\ \A c \in Int : k - BufLen <= c /\ c < 0 =>
           b2[Mod(end + c, BufLen)] = b[Mod(end + c, BufLen)]
  <2>1. Written(b2, b, s, S)
    BY <1>1, RingAfter
  <2> QED
    BY <2>1 DEF Written
<1> DEFINE t == TextOf(b, start, end)  e2 == end'  st2 == start'  t2 == TextOf(b2, st2, e2)
           D == Held  M == Held'
<1>6. D \in Nat /\ D <= BufLen /\ M \in Nat /\ D = Mod(end - start, Word) /\ M = Mod(e2 - st2, Word)
  <2>1. end - start \in Int
    BY <1>1
  <2>2. D \in 0 .. Word - 1
    BY <1>3, <2>1, ModIs
  <2> QED
    BY <1>2, <1>3, <2>2
<1>7. /\ t \in Seq(S) /\ Len(t) = D
      /\ \A n \in 1 .. D : t[n] = b[Mod(end - D + n - 1, BufLen)]
  <2>1. end \in Int
    BY <1>1
  <2>2. Holds(t, b, end, Mod(end - start, Word), S)
    BY <1>1, <2>1, TextAt
  <2>3. Holds(t, b, end, D, S)
    BY <1>6, <2>2
  <2> HIDE DEF t, D
  <2> QED
    BY <2>3 DEF Holds
<1>8. /\ t2 \in Seq(S) /\ Len(t2) = M
      /\ \A n \in 1 .. M : t2[n] = b2[Mod(e2 - M + n - 1, BufLen)]
  <2>1. e2 \in Int /\ st2 \in 0 .. Word - 1
    BY <1>2
  <2> HIDE DEF e2, st2
  <2>2. Holds(t2, b2, e2, Mod(e2 - st2, Word), S)
    BY <1>4, <2>1, TextAt
  <2>3. Holds(t2, b2, e2, M, S)
    BY <1>6, <2>2
  <2> HIDE DEF t2, M
  <2> QED
    BY <2>3 DEF Holds
<1>0. e2 = Mod(end + k, Word) /\ e2 \in Int
  BY <1>2
<1>9. /\ M = IF D + k <= BufLen THEN D + k ELSE BufLen
      /\ \A j \in 1 .. k : b2[Mod(end + j - 1, BufLen)] = s[j]
      /\ \A c \in Int : k - BufLen <= c /\ c < 0 =>
           b2[Mod(end + c, BufLen)] = b[Mod(end + c, BufLen)]
  BY <1>2, <1>4
<1> HIDE DEF t, t2, e2, st2, D, M
<1>14. end \in Int /\ e2 \in Int /\ D \in Int /\ M \in Int /\ k \in Int
  BY <1>0, <1>1, <1>6
<1>10. ASSUME NEW n \in 1 .. M
       PROVE  t2[n] = IF n + D + k - M <= D THEN t[n + D + k - M] ELSE s[n + k - M]
  <2> DEFINE c == k + n - 1 - M
  <2>1. c \in Int /\ end \in Int
    BY <1>1, <1>6
  <2>2. t2[n] = b2[Mod(end + c, BufLen)]
    <3> DEFINE x == n - 1 - M
    <3>1. x \in Int /\ end + k \in Int
      BY <1>1, <1>6
    <3>2. Mod(Mod(end + k, Word) + x, BufLen) = Mod((end + k) + x, BufLen)
      BY <3>1, ModIndex
    <3>3. (end + k) + x = end + c /\ e2 + x = e2 - M + n - 1
      BY <1>14
    <3> QED
      BY <1>0, <1>8, <3>2, <3>3
  <2>3. CASE c >= 0
    <3>1. c + 1 \in 1 .. k /\ end + (c + 1) - 1 = end + c
      BY <1>1, <1>6, <2>3
    <3>2. t2[n] = s[c + 1]
      BY <1>9, <2>2, <3>1
    <3>3. c + 1 = n + k - M /\ ~(n + D + k - M <= D)
      BY <1>6, <2>3
    <3> QED
      BY <3>2, <3>3
  <2>4. CASE c < 0
    <3>1. k - BufLen <= c
      BY <1>6, <1>9
    <3>2. t2[n] = b[Mod(end + c, BufLen)]
      BY <1>9, <2>1, <2>2, <2>4, <3>1
    <3> DEFINE m == n + D + k - M
    <3>3. m \in 1 .. D /\ end - D + m - 1 = end + c
      <4>1. M <= D + k
        BY <1>6, <1>9
      <4> QED
        BY <1>14, <2>4, <4>1
    <3>4. t[m] = b[Mod(end + c, BufLen)]
      BY <1>7, <3>3
    <3> QED
      BY <3>2, <3>3, <3>4
  <2> QED
    BY <2>1, <2>3, <2>4
<1>11. D \in 0 .. BufLen
  BY <1>6
<1>12. Follows(t2, t, s, S)
  BY <1>7, <1>8, <1>9, <1>10, <1>11 DEF Follows
<1> QED
  BY <1>12 DEF t, t2, e2, st2

LEMMA LastFollows ==
  ASSUME NEW S, NEW t, NEW t2, NEW s \in Seq(S), Len(s) \in 1 .. 4, Follows(t2, t, s, S)
  PROVE  t2 = L!Last(t \o s)
<1> USE LogSizes
<1> DEFINE D == Len(t)  M == Len(t2)  k == Len(s)  w == t \o s
           f == IF Len(w) > BufLen THEN Len(w) - BufLen + 1 ELSE 1
<1>1. /\ t \in Seq(S) /\ t2 \in Seq(S) /\ D \in 0 .. BufLen /\ k \in 1 .. 4
      /\ M = IF D + k <= BufLen THEN D + k ELSE BufLen
      /\ \A n \in 1 .. M :
           t2[n] = IF n + D + k - M <= D THEN t[n + D + k - M] ELSE s[n + k - M]
  BY DEF Follows
<1>2. /\ w \in Seq(S) /\ Len(w) = D + k
      /\ \A n \in 1 .. D + k : w[n] = IF n <= D THEN t[n] ELSE s[n - D]
  BY <1>1, ConcatProperties
<1>3. L!Last(w) = SubSeq(w, f, Len(w))
  BY DEF L!Last
<1> HIDE DEF D, M, k, w
<1>4. D \in 0 .. BufLen /\ k \in 1 .. 4 /\ M = (IF D + k <= BufLen THEN D + k ELSE BufLen)
  BY <1>1
<1>5. f = D + k - M + 1 /\ f \in 1 .. D + k /\ D + k - f + 1 = M
  <2>1. PICK n : n = Len(w)
    OBVIOUS
  <2>2. n = D + k
    BY <1>2, <2>1
  <2>3. f = IF n > BufLen THEN n - BufLen + 1 ELSE 1
    BY <2>1
  <2> HIDE DEF f
  <2> QED
    BY <1>4, <2>2, <2>3
<1> HIDE DEF f
<1>6. /\ SubSeq(w, f, Len(w)) \in Seq(S)
      /\ Len(SubSeq(w, f, Len(w))) = M
      /\ \A n \in 1 .. M : SubSeq(w, f, Len(w))[n] = w[f + n - 1]
  BY <1>1, <1>2, <1>5, SubSeqProperties
<1>7. ASSUME NEW n \in 1 .. M  PROVE t2[n] = w[f + n - 1]
  <2>1. f + n - 1 = n + D + k - M /\ f + n - 1 \in 1 .. D + k
    BY <1>4, <1>5
  <2>2. (n + D + k - M) - D = n + k - M
    BY <1>4
  <2>3. t2[n] = IF n + D + k - M <= D THEN t[n + D + k - M] ELSE s[n + k - M]
    BY <1>1
  <2> QED
    BY <1>2, <2>1, <2>2, <2>3
<1>8. t2 = SubSeq(w, f, Len(w))
  <2>1. Len(t2) = M
    BY DEF M
  <2> QED
    BY <1>1, <1>6, <1>7, <2>1, SeqEqual
<1> QED
  BY <1>3, <1>8 DEF w

-----------------------------------------------------------------------------
(* What EmitChar gives to emit_log_char, and where it comes from.            *)
Adds == unknown /\ ~HasTag(rest)
Emitted == IF Adds THEN <<"<", "4", ">", rest[1]>> ELSE <<rest[1]>>
Sources == IF Adds THEN <<"added", "added", "added", Mark>> ELSE <<Mark>>

LEMMA EmittedIs ==
  ASSUME TypeOK, rest # <<>>
  PROVE  /\ rest[1] \in Char
         /\ Emitted \in Seq(Char) /\ Len(Emitted) = IF Adds THEN 4 ELSE 1
         /\ Sources \in Seq(Kind \ {"unused"}) /\ Len(Sources) = Len(Emitted)
         /\ Tail(rest) \in Seq(Char)
<1>1. rest \in Seq(Char) /\ Len(rest) >= 1
  BY EmptySeq DEF TypeOK
<1>2. rest[1] \in Char /\ Tail(rest) \in Seq(Char)
  BY <1>1
<1>3. "<" \in Char /\ "4" \in Char /\ ">" \in Char
  BY DEF Char, Digit
<1>4. <<"<", "4", ">", rest[1]>> \in Seq(Char) /\ Len(<<"<", "4", ">", rest[1]>>) = 4
  BY <1>2, <1>3
<1>5. <<rest[1]>> \in Seq(Char) /\ Len(<<rest[1]>>) = 1
  BY <1>2
<1>6. Mark \in Kind \ {"unused"} /\ "added" \in Kind \ {"unused"}
  BY DEF Mark, Kind
<1>7. /\ <<"added", "added", "added", Mark>> \in Seq(Kind \ {"unused"})
      /\ Len(<<"added", "added", "added", Mark>>) = 4
      /\ <<Mark>> \in Seq(Kind \ {"unused"}) /\ Len(<<Mark>>) = 1
  BY <1>6
<1> QED
  BY <1>2, <1>4, <1>5, <1>7 DEF Emitted, Sources

LEMMA EmitCharIs ==
  ASSUME EmitChar
  PROVE  rest # <<>> /\ Emit(Emitted, Sources) /\ unknown' = (rest[1] = "nl") /\ rest' = Tail(rest)
BY DEF EmitChar, Emitted, Sources, Adds, Plain, Tagged

-----------------------------------------------------------------------------
(* The lines of a log of the characters t, which come from m; in a fresh one *)
(* nothing has been overwritten.                                             *)
Added(k) == IF k = 1 THEN "<" ELSE IF k = 2 THEN "4" ELSE ">"
Part(k) == IF k = 1 THEN {"<"} ELSE IF k = 2 THEN Digit \ {"9"} ELSE {">"}
First(t, fresh, n) == IF n = 1 THEN fresh ELSE t[n - 1] = "nl"

HasLevel(t, m, n) ==
  /\ m[n] \in {"level", "added"}
  /\ \A k \in 1 .. 3 : n + k - 1 <= Len(t) => t[n + k - 1] \in Part(k)
InTag(t, m, fresh, n) ==
  \E k \in 1 .. 3 :
    /\ t[n] = Added(k)
    /\ n > k => First(t, fresh, n - k + 1)
    /\ n - k + 4 <= Len(t) /\ m[n - k + 4] = "text"
Lines(t, m, fresh) ==
  \A n \in 1 .. Len(t) :
    /\ First(t, fresh, n) => HasLevel(t, m, n)
    /\ m[n] = "added" => InTag(t, m, fresh, n)

(* What printk still has to write of the level of the last line.             *)
Due(t, fresh, u, r) ==
  LET N == Len(t) IN
    /\ N = 0 => u
    /\ N >= 1 => (u <=> t[N] = "nl")
    /\ N >= 1 /\ First(t, fresh, N) => Len(r) >= 2 /\ r[1] \in Part(2) /\ r[2] = ">"
    /\ N >= 2 /\ First(t, fresh, N - 1) => Len(r) >= 1 /\ r[1] = ">"

Fresh == \E x \in DOMAIN mark : mark[x] = "unused"
Unused == \A x \in 0 .. BufLen - 1 : mark[x] = "unused" => start = 0 /\ end <= x

IInv == TypeOK /\ Held <= BufLen /\ LinesTagged /\ Unused /\ Due(Text, Fresh, unknown, rest)

(* LinesTagged says this, in this step and in the next.                      *)
TaggedLog(t, m, fresh) ==
  \A n \in DOMAIN t :
    /\ First(t, fresh, n) =>
         /\ m[n] \in {"level", "added"}
         /\ \A k \in 1 .. 3 : n + k - 1 \in DOMAIN t =>
              t[n + k - 1] \in <<{"<"}, Digit \ {"9"}, {">"}>>[k]
    /\ m[n] = "added" =>
         \E k \in 1 .. 3 :
           /\ t[n] = <<"<", "4", ">">>[k]
           /\ n > k => First(t, fresh, n - k + 1)
           /\ n - k + 4 \in DOMAIN t /\ m[n - k + 4] = "text"

LEMMA TaggedLogIs ==
  /\ LinesTagged <=> TaggedLog(Text, Marks, Fresh)
  /\ LinesTagged' <=> TaggedLog(Text', Marks', Fresh')
BY DEF LinesTagged, Begins, TaggedLog, Fresh, First

LEMMA LinesTaggedIs ==
  ASSUME NEW t \in Seq(Char), NEW m, NEW fresh \in BOOLEAN
  PROVE  TaggedLog(t, m, fresh) <=> Lines(t, m, fresh)
<1> DEFINE part(k) == <<{"<"}, Digit \ {"9"}, {">"}>>[k]
           tag == <<"<", "4", ">">>
<1>1. \A k \in 1 .. 3 : part(k) = Part(k) /\ tag[k] = Added(k)
  <2> TAKE k \in 1 .. 3
  <2>1. k = 1 \/ k = 2 \/ k = 3
    OBVIOUS
  <2>2. CASE k = 1
    BY <2>2 DEF Part, Added
  <2>3. CASE k = 2
    BY <2>3 DEF Part, Added
  <2>4. CASE k = 3
    BY <2>4 DEF Part, Added
  <2> QED
    BY <2>1, <2>2, <2>3, <2>4
<1> HIDE DEF part, tag
<1>2. DOMAIN t = 1 .. Len(t) /\ Len(t) \in Nat
  OBVIOUS
<1>5. ASSUME NEW n \in 1 .. Len(t)
      PROVE  (/\ m[n] \in {"level", "added"}
              /\ \A k \in 1 .. 3 : n + k - 1 \in DOMAIN t => t[n + k - 1] \in part(k))
             <=> HasLevel(t, m, n)
  <2>1. \A k \in 1 .. 3 : n + k - 1 \in DOMAIN t <=> n + k - 1 <= Len(t)
    BY <1>2
  <2> QED
    BY <1>1, <2>1 DEF HasLevel
<1>6. ASSUME NEW n \in 1 .. Len(t)
      PROVE  (\E k \in 1 .. 3 :
               /\ t[n] = tag[k]
               /\ n > k => First(t, fresh, n - k + 1)
               /\ n - k + 4 \in DOMAIN t /\ m[n - k + 4] = "text")
             <=> InTag(t, m, fresh, n)
  <2>1. \A k \in 1 .. 3 : n - k + 4 \in DOMAIN t <=> n - k + 4 <= Len(t)
    BY <1>2
  <2> QED
    BY <1>1, <2>1 DEF InTag
<1> QED
  BY <1>2, <1>5, <1>6, Zenon DEF TaggedLog, Lines, part, tag

(* A turn of printk's loop writes s, from ms, behind a log whose next line   *)
(* is due to start, or whose last one still lacks some of its level.         *)
Turned(s, ms, u, r, u2, r2) ==
  LET tag == /\ Len(r) >= 3 /\ r[1] = "<" /\ r[2] \in Part(2) /\ r[3] = ">"
      k == Len(s)
  IN  /\ r \in Seq(Char) /\ Len(r) >= 1 /\ u \in BOOLEAN
      /\ s \in Seq(Char) /\ ms \in Seq(Kind) /\ Len(ms) = k
      /\ \/ /\ u /\ ~tag /\ k = 4
            /\ s[1] = "<" /\ s[2] = "4" /\ s[3] = ">" /\ s[4] = r[1]
            /\ ms[1] = "added" /\ ms[2] = "added" /\ ms[3] = "added" /\ ms[4] = "text"
         \/ /\ (u => tag) /\ k = 1 /\ s[1] = r[1]
            /\ ms[1] = IF tag THEN "level" ELSE "text"
      /\ u2 = (r[1] = "nl") /\ r2 = Tail(r)

LEMMA TurnIs ==
  ASSUME TypeOK, EmitChar
  PROVE  Turned(Emitted, Sources, unknown, rest, unknown', rest')
<1>1. /\ rest # <<>> /\ rest \in Seq(Char) /\ unknown \in BOOLEAN
      /\ unknown' = (rest[1] = "nl") /\ rest' = Tail(rest)
  BY EmitCharIs DEF TypeOK
<1>2. /\ Emitted \in Seq(Char) /\ Len(Emitted) = IF Adds THEN 4 ELSE 1
      /\ Sources \in Seq(Kind \ {"unused"}) /\ Len(Sources) = Len(Emitted)
  BY <1>1, EmittedIs
<1>3. Sources \in Seq(Kind)
  BY <1>2
<1>4. Len(rest) >= 1
  BY <1>1, EmptySeq
<1>5. HasTag(rest) <=> Len(rest) >= 3 /\ rest[1] = "<" /\ rest[2] \in Part(2) /\ rest[3] = ">"
  BY DEF HasTag, Part
<1>6. CASE Adds
  <2>1. Emitted = <<"<", "4", ">", rest[1]>> /\ Sources = <<"added", "added", "added", "text">>
    BY <1>6 DEF Emitted, Sources, Adds, Mark
  <2> QED
    BY <1>1, <1>2, <1>3, <1>4, <1>5, <1>6, <2>1 DEF Turned, Adds
<1>7. CASE ~Adds
  <2>1. Emitted = <<rest[1]>> /\ Sources = <<IF HasTag(rest) THEN "level" ELSE "text">>
    BY <1>7 DEF Emitted, Sources, Adds, Mark
  <2> QED
    BY <1>1, <1>2, <1>3, <1>4, <1>5, <1>7, <2>1 DEF Turned, Adds
<1> QED
  BY <1>6, <1>7

(* Behind whatever the log holds, the lines keep their levels.               *)
LEMMA LinesAppend ==
  ASSUME NEW t \in Seq(Char), NEW m \in Seq(Kind), Len(m) = Len(t), NEW f \in BOOLEAN,
         NEW s, NEW ms, NEW u, NEW r, NEW u2, NEW r2, Turned(s, ms, u, r, u2, r2),
         Lines(t, m, f), Due(t, f, u, r)
  PROVE  Lines(t \o s, m \o ms, f) /\ Due(t \o s, f, u2, r2)
<1> DEFINE D == Len(t)  k == Len(s)  w == t \o s  wm == m \o ms
           tag == Len(r) >= 3 /\ r[1] = "<" /\ r[2] \in Part(2) /\ r[3] = ">"
<1>1. /\ r \in Seq(Char) /\ Len(r) >= 1 /\ u \in BOOLEAN
      /\ s \in Seq(Char) /\ ms \in Seq(Kind) /\ Len(ms) = k
      /\ u2 = (r[1] = "nl") /\ r2 = Tail(r)
  BY DEF Turned
<1>2. \/ /\ u /\ ~tag /\ k = 4
         /\ s[1] = "<" /\ s[2] = "4" /\ s[3] = ">" /\ s[4] = r[1]
         /\ ms[1] = "added" /\ ms[2] = "added" /\ ms[3] = "added" /\ ms[4] = "text"
      \/ /\ (u => tag) /\ k = 1 /\ s[1] = r[1]
         /\ ms[1] = IF tag THEN "level" ELSE "text"
  BY DEF Turned
<1>3. D \in Nat /\ k \in 1 .. 4
  BY <1>2
<1>4. /\ w \in Seq(Char) /\ Len(w) = D + k
      /\ \A n \in 1 .. D + k : w[n] = IF n <= D THEN t[n] ELSE s[n - D]
  BY <1>1, <1>3, ConcatProperties
<1>5. \A n \in 1 .. D + k : wm[n] = IF n <= D THEN m[n] ELSE ms[n - D]
  BY <1>1, <1>3, ConcatProperties
<1>6. /\ D = 0 => u
      /\ D >= 1 => (u <=> t[D] = "nl")
      /\ D >= 1 /\ First(t, f, D) => Len(r) >= 2 /\ r[1] \in Part(2) /\ r[2] = ">"
      /\ D >= 2 /\ First(t, f, D - 1) => Len(r) >= 1 /\ r[1] = ">"
  BY DEF Due
<1>7. \A n \in 1 .. D : /\ First(t, f, n) => HasLevel(t, m, n)
                        /\ m[n] = "added" => InTag(t, m, f, n)
  BY DEF Lines
<1>8. r2 \in Seq(Char) /\ Len(r2) = Len(r) - 1 /\ \A n \in 1 .. Len(r) - 1 : r2[n] = r[n + 1]
  BY <1>1, HeadTailProperties, EmptySeq
<1> HIDE DEF D, k, w, wm
(* Where a line begins, before and behind the end of what there was.         *)
<1>9. ASSUME NEW n \in 1 .. D  PROVE First(w, f, n) <=> First(t, f, n)
  <2>1. CASE n = 1
    BY <2>1 DEF First
  <2>2. CASE n # 1
    <3>1. n - 1 \in 1 .. D + k /\ n - 1 <= D
      BY <1>3, <2>2
    <3> QED
      BY <1>4, <2>2, <3>1 DEF First
  <2> QED
    BY <2>1, <2>2
<1>10. (u => D = 0 \/ First(w, f, D + 1)) /\ (First(w, f, D + 1) => u)
  <2>1. CASE D = 0
    BY <1>6, <2>1
  <2>2. CASE D # 0
    <3>1. D >= 1 /\ D \in 1 .. D + k /\ D + 1 # 1 /\ (D + 1) - 1 = D
      BY <1>3, <2>2
    <3>2. w[D] = t[D]
      BY <1>4, <3>1
    <3> QED
      BY <1>6, <3>1, <3>2 DEF First
  <2> QED
    BY <2>1, <2>2
<1>11. ASSUME NEW n \in D + 2 .. D + k  PROVE ~First(w, f, n) /\ k = 4
  <2>1. n - 1 \in 1 .. D + k /\ ~(n - 1 <= D) /\ n # 1 /\ n - 1 - D \in 1 .. k - 1 /\ k = 4
    BY <1>2, <1>3
  <2>2. w[n - 1] = s[n - 1 - D]
    BY <1>4, <2>1
  <2>3. n - 1 - D = 1 \/ n - 1 - D = 2 \/ n - 1 - D = 3
    BY <2>1
  <2>4. s[n - 1 - D] # "nl"
    BY <1>2, <2>1, <2>3
  <2> QED
    BY <2>1, <2>2, <2>4 DEF First
<1>12. D >= 1 /\ First(t, f, D) => k = 1 /\ t[D] \in Part(1)
  <2> SUFFICES ASSUME D >= 1, First(t, f, D)  PROVE k = 1 /\ t[D] \in Part(1)
    OBVIOUS
  <2>1. HasLevel(t, m, D)
    BY <1>3, <1>7
  <2>2. t[D] \in Part(1)
    <3>1. D + 1 - 1 <= D /\ 1 \in 1 .. 3 /\ D + 1 - 1 = D
      BY <1>3
    <3> QED
      BY <2>1, <3>1 DEF HasLevel, D
  <2>3. t[D] # "nl"
    BY <2>2 DEF Part
  <2> QED
    BY <1>2, <1>6, <2>2, <2>3
<1>13. D >= 2 /\ First(t, f, D - 1) => k = 1
  <2> SUFFICES ASSUME D >= 2, First(t, f, D - 1)  PROVE k = 1
    OBVIOUS
  <2>1. HasLevel(t, m, D - 1)
    <3>1. D - 1 \in 1 .. D
      BY <1>3
    <3> QED
      BY <1>7, <3>1
  <2>2. t[D] \in Part(2)
    <3>1. (D - 1) + 2 - 1 <= D /\ 2 \in 1 .. 3 /\ (D - 1) + 2 - 1 = D
      BY <1>3
    <3> QED
      BY <2>1, <3>1 DEF HasLevel, D
  <2>3. t[D] # "nl"
    BY <2>2 DEF Part, Digit
  <2> QED
    BY <1>2, <1>3, <1>6, <2>3
(* (a): each line starts with a level.                                       *)
<1>14. ASSUME NEW n \in 1 .. D + k, First(w, f, n)  PROVE HasLevel(w, wm, n)
  <2>1. CASE n <= D
    <3>0. n \in 1 .. D
      BY <2>1
    <3>1. First(t, f, n) /\ HasLevel(t, m, n)
      BY <1>7, <1>9, <1>14, <3>0
    <3>2. wm[n] = m[n] /\ m[n] \in {"level", "added"}
      BY <1>5, <2>1, <3>1 DEF HasLevel
    <3>3. ASSUME NEW j \in 1 .. 3, n + j - 1 <= D + k  PROVE w[n + j - 1] \in Part(j)
      <4>1. n + j - 1 \in 1 .. D + k
        BY <3>3
      <4>2. CASE n + j - 1 <= D
        BY <1>4, <3>1, <4>1, <4>2 DEF HasLevel, D
      <4>3. CASE ~(n + j - 1 <= D)
        <5>1. (n = D /\ j >= 2) \/ (n = D - 1 /\ D >= 2 /\ j = 3)
          BY <1>3, <3>0, <4>3
        <5>2. k = 1
          BY <1>12, <1>13, <3>0, <3>1, <5>1
        <5>3. (n = D /\ j = 2) \/ (n = D - 1 /\ D >= 2 /\ j = 3)
          BY <1>3, <3>3, <5>1, <5>2
        <5>4. n + j - 1 = D + 1 /\ (D + 1) - D = 1 /\ ~(D + 1 <= D)
          BY <1>3, <5>3
        <5>5. w[n + j - 1] = r[1]
          BY <1>2, <1>4, <4>1, <5>2, <5>4
        <5>6. r[1] \in Part(j)
          BY <1>3, <1>6, <3>0, <3>1, <5>3 DEF Part
        <5> QED
          BY <5>5, <5>6
      <4> QED
        BY <4>2, <4>3
    <3> QED
      BY <1>4, <3>2, <3>3 DEF HasLevel
  <2>2. CASE ~(n <= D)
    <3>1. n = D + 1 /\ (D + 1) - D = 1
      BY <1>3, <1>11, <1>14, <2>2
    <3>2. u
      BY <1>10, <1>14, <3>1
    <3>3. wm[n] = ms[1]
      BY <1>5, <2>2, <3>1
    <3>4. ms[1] \in {"level", "added"} /\ \A j \in 1 .. 3 : j <= k => s[j] \in Part(j)
      <4>1. CASE k = 4
        BY <1>2, <3>2, <4>1 DEF Part, Digit
      <4>2. CASE k # 4
        BY <1>2, <3>2, <4>2 DEF Part
      <4> QED
        BY <4>1, <4>2
    <3>5. ASSUME NEW j \in 1 .. 3, n + j - 1 <= D + k  PROVE w[n + j - 1] \in Part(j)
      <4>1. n + j - 1 \in 1 .. D + k /\ ~(n + j - 1 <= D) /\ (n + j - 1) - D = j /\ j <= k
        BY <1>3, <3>1, <3>5
      <4> QED
        BY <1>4, <3>4, <4>1
    <3> QED
      BY <1>4, <3>3, <3>4, <3>5 DEF HasLevel
  <2> QED
    BY <2>1, <2>2
(* (b): nothing else is added.                                               *)
<1>15. ASSUME NEW n \in 1 .. D + k, wm[n] = "added"  PROVE InTag(w, wm, f, n)
  <2>1. CASE n <= D
    <3>0. n \in 1 .. D /\ m[n] = "added"
      BY <1>5, <1>15, <2>1
    <3>1. PICK j \in 1 .. 3 : /\ t[n] = Added(j) /\ (n > j => First(t, f, n - j + 1))
                              /\ n - j + 4 <= D /\ m[n - j + 4] = "text"
      BY <1>7, <3>0 DEF InTag, D
    <3>2. w[n] = Added(j)
      BY <1>4, <2>1, <3>1
    <3>3. n > j => First(w, f, n - j + 1)
      <4> SUFFICES ASSUME n > j  PROVE First(w, f, n - j + 1)
        OBVIOUS
      <4>1. n - j + 1 \in 1 .. D
        BY <1>3, <3>0
      <4> QED
        BY <1>9, <3>1, <4>1
    <3>4. n - j + 4 \in 1 .. D + k /\ n - j + 4 <= D
      BY <1>3, <3>0, <3>1
    <3>5. wm[n - j + 4] = "text"
      BY <1>5, <3>1, <3>4
    <3> QED
      BY <1>4, <3>2, <3>3, <3>4, <3>5 DEF InTag
  <2>2. CASE ~(n <= D)
    <3> DEFINE j == n - D
    <3>1. j \in 1 .. k /\ wm[n] = ms[j] /\ w[n] = s[j]
      BY <1>3, <1>4, <1>5, <2>2
    <3>2. k = 4 /\ u /\ j \in 1 .. 3
      <4>1. k # 4 => j = 1 /\ ms[1] # "added"
        BY <1>2, <3>1
      <4>2. k = 4 /\ (j = 1 \/ j = 2 \/ j = 3 \/ j = 4)
        BY <1>15, <3>1, <4>1
      <4> QED
        BY <1>2, <1>15, <3>1, <4>2
    <3>3. s[j] = Added(j) /\ ms[4] = "text"
      BY <1>2, <3>2 DEF Added
    <3>4. n > j => First(w, f, n - j + 1)
      <4>1. n > j => D # 0 /\ n - j + 1 = D + 1
        BY <1>3, <3>2
      <4> QED
        BY <1>10, <3>2, <4>1
    <3>5. n - j + 4 = D + 4 /\ D + 4 \in 1 .. D + k /\ ~(D + 4 <= D) /\ (D + 4) - D = 4
      BY <1>3, <3>2
    <3>6. wm[n - j + 4] = "text" /\ n - j + 4 <= D + k
      BY <1>5, <3>3, <3>5
    <3> HIDE DEF j
    <3> QED
      BY <1>4, <3>1, <3>2, <3>3, <3>4, <3>6 DEF InTag
  <2> QED
    BY <2>1, <2>2
<1>16. Lines(w, wm, f)
  BY <1>4, <1>14, <1>15 DEF Lines
(* What is due.                                                              *)
<1>17. D + k >= 1 /\ w[D + k] = r[1]
  <2>1. D + k \in 1 .. D + k /\ ~(D + k <= D) /\ (D + k) - D = k
    BY <1>3
  <2>2. s[k] = r[1]
    BY <1>2
  <2> QED
    BY <1>4, <2>1, <2>2
<1>18. ASSUME First(w, f, D + k)  PROVE Len(r2) >= 2 /\ r2[1] \in Part(2) /\ r2[2] = ">"
  <2>1. k = 1
    <3>1. k # 1 => D + k \in D + 2 .. D + k /\ k = 4
      BY <1>2, <1>3
    <3>2. k # 1 => (D + k) - 1 = D + 3 /\ D + 3 \in 1 .. D + k /\ ~(D + 3 <= D) /\ (D + 3) - D = 3
      BY <1>3, <3>1
    <3> QED
      BY <1>11, <1>18, <3>1
  <2>2. u /\ tag
    BY <1>2, <1>10, <1>18, <2>1
  <2> QED
    BY <1>8, <2>2
<1>19. ASSUME D + k >= 2, First(w, f, D + k - 1)  PROVE Len(r2) >= 1 /\ r2[1] = ">"
  <2>1. k = 1
    <3>1. k # 1 => D + k - 1 \in D + 2 .. D + k
      BY <1>2, <1>3
    <3> QED
      BY <1>11, <1>19, <1>2, <3>1
  <2>2. D >= 1 /\ D \in 1 .. D /\ D + k - 1 = D
    BY <1>3, <1>19, <2>1
  <2>3. First(t, f, D)
    BY <1>9, <1>19, <2>2
  <2>4. Len(r) >= 2 /\ r[2] = ">"
    BY <1>6, <2>2, <2>3
  <2> QED
    BY <1>8, <2>4
<1>20. Due(w, f, u2, r2)
  <2>1. D + k # 0 /\ D + k = Len(w)
    BY <1>3, <1>4
  <2>2. u2 <=> w[D + k] = "nl"
    BY <1>1, <1>17, Zenon
  <2> DEFINE N == Len(w)
  <2>3. N = 0 => u2
    BY <2>1
  <2>4. N >= 1 => (u2 <=> w[N] = "nl")
    BY <2>1, <2>2, Zenon
  <2>5. N >= 1 /\ First(w, f, N) => Len(r2) >= 2 /\ r2[1] \in Part(2) /\ r2[2] = ">"
    BY <1>18, <2>1, Zenon
  <2>6. N >= 2 /\ First(w, f, N - 1) => Len(r2) >= 1 /\ r2[1] = ">"
    <3> SUFFICES ASSUME N >= 2, First(w, f, N - 1)  PROVE Len(r2) >= 1 /\ r2[1] = ">"
      OBVIOUS
    <3>1. D + k = N
      BY <2>1
    <3> HIDE DEF N
    <3>2. D + k >= 2 /\ First(w, f, D + k - 1)
      BY <1>3, <3>1
    <3> QED
      BY <1>19, <3>2
  <2> QED
    BY <2>3, <2>4, <2>5, <2>6, Zenon DEF Due
<1> QED
  BY <1>16, <1>20 DEF w, wm

(* What is left of the lines when the first characters are overwritten.      *)
Remains(t2, m2, f2, w, wm, f, l) ==
  /\ w \in Seq(Char) /\ t2 \in Seq(Char) /\ l \in Nat
  /\ Len(w) = Len(t2) + l /\ Len(t2) >= 1
  /\ \A n \in 1 .. Len(t2) : t2[n] = w[n + l] /\ m2[n] = wm[n + l]
  /\ f2 => f /\ l = 0

LEMMA LinesTrim ==
  ASSUME NEW w, NEW wm, NEW t2, NEW m2, NEW f, NEW f2, NEW l, Remains(t2, m2, f2, w, wm, f, l),
         NEW u, NEW r, Lines(w, wm, f), Due(w, f, u, r)
  PROVE  Lines(t2, m2, f2) /\ Due(t2, f2, u, r)
<1> DEFINE M == Len(t2)
<1>1. M \in Nat /\ Len(w) = M + l /\ l \in Nat
  BY DEF Remains
<1>2. \A n \in 1 .. M + l : /\ First(w, f, n) => HasLevel(w, wm, n)
                            /\ wm[n] = "added" => InTag(w, wm, f, n)
  BY <1>1 DEF Lines
<1>3. \A n \in 1 .. M : t2[n] = w[n + l] /\ m2[n] = wm[n + l] /\ n + l \in 1 .. M + l
  BY <1>1 DEF Remains
<1>0. (f2 => f /\ l = 0) /\ M >= 1
  BY DEF Remains
<1>4. ASSUME NEW n \in 1 .. M, First(t2, f2, n)  PROVE First(w, f, n + l)
  <2>1. CASE n = 1
    BY <1>0, <1>4, <2>1 DEF First
  <2>2. CASE n # 1
    <3>1. n - 1 \in 1 .. M /\ (n - 1) + l = (n + l) - 1 /\ n + l # 1
      BY <1>1, <2>2
    <3> QED
      BY <1>3, <1>4, <2>2, <3>1 DEF First
  <2> QED
    BY <2>1, <2>2
<1>5. ASSUME NEW n \in 2 .. M, First(w, f, n + l)  PROVE First(t2, f2, n)
  <2>1. n - 1 \in 1 .. M /\ (n - 1) + l = (n + l) - 1 /\ n + l # 1 /\ n # 1
    BY <1>1
  <2> QED
    BY <1>3, <1>5, <2>1 DEF First
<1> HIDE DEF M
<1>6. ASSUME NEW n \in 1 .. M, First(t2, f2, n)  PROVE HasLevel(t2, m2, n)
  <2>1. HasLevel(w, wm, n + l) /\ m2[n] = wm[n + l]
    BY <1>2, <1>3, <1>4, <1>6
  <2>2. ASSUME NEW j \in 1 .. 3, n + j - 1 <= M  PROVE t2[n + j - 1] \in Part(j)
    <3>1. n + j - 1 \in 1 .. M /\ (n + j - 1) + l = (n + l) + j - 1 /\ (n + l) + j - 1 <= M + l
      <4>1. n \in Nat /\ n >= 1 /\ j \in Nat /\ j >= 1
        OBVIOUS
      <4> QED
        BY <1>1, <2>2, <4>1
    <3>2. w[(n + l) + j - 1] \in Part(j)
      BY <1>1, <2>1, <3>1 DEF HasLevel
    <3> QED
      BY <1>3, <3>1, <3>2
  <2> QED
    BY <2>1, <2>2 DEF HasLevel, M
<1>7. ASSUME NEW n \in 1 .. M, m2[n] = "added"  PROVE InTag(t2, m2, f2, n)
  <2>1. InTag(w, wm, f, n + l)
    BY <1>2, <1>3, <1>7
  <2>2. PICK j \in 1 .. 3 : /\ w[n + l] = Added(j) /\ (n + l > j => First(w, f, (n + l) - j + 1))
                            /\ (n + l) - j + 4 <= M + l /\ wm[(n + l) - j + 4] = "text"
    BY <1>1, <2>1 DEF InTag
  <2>3. t2[n] = Added(j)
    BY <1>3, <2>2
  <2>4. n > j => First(t2, f2, n - j + 1)
    <3> SUFFICES ASSUME n > j  PROVE First(t2, f2, n - j + 1)
      OBVIOUS
    <3>1. n + l > j /\ n - j + 1 \in 2 .. M /\ (n - j + 1) + l = (n + l) - j + 1
      BY <1>1
    <3> QED
      BY <1>5, <2>2, <3>1
  <2>5. n - j + 4 \in 1 .. M /\ n - j + 4 <= M /\ (n - j + 4) + l = (n + l) - j + 4
    <3>1. n \in Nat /\ n >= 1 /\ n <= M /\ j \in Nat /\ j <= 3 /\ M \in Nat /\ l \in Nat
      BY <1>1
    <3>2. (n + l) - j + 4 <= M + l
      BY <2>2
    <3> QED
      BY <3>1, <3>2
  <2>6. m2[n - j + 4] = "text"
    BY <1>3, <2>2, <2>5
  <2> QED
    BY <2>3, <2>4, <2>5, <2>6 DEF InTag, M
<1>8. Lines(t2, m2, f2)
  BY <1>6, <1>7 DEF Lines, M
<1>9. /\ M + l >= 1 => (u <=> w[M + l] = "nl")
      /\ M + l >= 1 /\ First(w, f, M + l) => Len(r) >= 2 /\ r[1] \in Part(2) /\ r[2] = ">"
      /\ M + l >= 2 /\ First(w, f, M + l - 1) => Len(r) >= 1 /\ r[1] = ">"
  BY <1>1 DEF Due
<1>10. M >= 1 /\ M \in 1 .. M /\ M + l >= 1 /\ t2[M] = w[M + l]
  BY <1>0, <1>1, <1>3
<1>11. M >= 2 => M - 1 \in 1 .. M /\ (M - 1) + l = M + l - 1 /\ M + l >= 2
  BY <1>1
<1>12. M # 0 /\ (u <=> t2[M] = "nl")
  BY <1>1, <1>9, <1>10
<1>13. First(t2, f2, M) => Len(r) >= 2 /\ r[1] \in Part(2) /\ r[2] = ">"
  BY <1>4, <1>9, <1>10
<1>14. M >= 2 /\ First(t2, f2, M - 1) => Len(r) >= 1 /\ r[1] = ">"
  BY <1>4, <1>9, <1>11
<1> QED
  BY <1>8, <1>12, <1>13, <1>14 DEF Due, M

-----------------------------------------------------------------------------
LEMMA Start ==
  ASSUME Init  PROVE IInv /\ L!Init
<1> USE LogSizes
<1>1. end - start = 0 /\ Mod(0, Word) = 0
  BY ModFits DEF Init
<1>2. Held = 0
  BY <1>1 DEF Held, Mod
<1>3. TypeOK
  BY DEF Init, TypeOK, Char, Digit, Kind
<1>4. Holds(Text, buf, end, 0, Char)
  <2>1. end \in Int /\ start \in 0 .. Word - 1 /\ buf \in [0 .. BufLen - 1 -> Char]
    BY <1>3 DEF TypeOK
  <2>2. Holds(TextOf(buf, start, end), buf, end, Mod(end - start, Word), Char)
    BY <2>1, TextAt
  <2> QED
    BY <1>1, <2>2, TextIs
<1>5. Text \in Seq(Char) /\ Len(Text) = 0 /\ Text = <<>>
  BY <1>4, EmptySeq DEF Holds
<1>6. LinesTagged
  <2>1. Lines(Text, Marks, Fresh)
    BY <1>5 DEF Lines
  <2> QED
    BY <1>5, <2>1, LinesTaggedIs, TaggedLogIs DEF Fresh
<1>7. Due(Text, Fresh, unknown, rest)
  BY <1>5 DEF Due, Init
<1>8. Unused
  BY DEF Unused, Init
<1> QED
  BY <1>2, <1>3, <1>5, <1>6, <1>7, <1>8 DEF IInv, L!Init

LEMMA Stays ==
  ASSUME IInv, UNCHANGED <<buf, start, end, unknown, mark>>,
         rest' \in Seq(Char), rest' = rest \/ rest = <<>>
  PROVE  IInv' /\ Text' = Text
<1>1. Text' = Text /\ Marks' = Marks /\ Fresh' = Fresh
  BY DEF Text, Marks, Fresh
<1>2. TypeOK' /\ Held' <= BufLen /\ Unused'
  BY DEF IInv, TypeOK, Held, Unused
<1>3. LinesTagged'
  BY <1>1, TaggedLogIs DEF IInv
<1>4. Due(Text', Fresh', unknown', rest')
  <2>1. rest = <<>> => Len(rest) = 0
    BY EmptySeq
  <2> QED
    BY <1>1, <2>1 DEF IInv, Due
<1> QED
  BY <1>1, <1>2, <1>3, <1>4 DEF IInv

(* A ring with unused cells has lost nothing.                                *)
LEMMA UnusedKept ==
  ASSUME TypeOK, Held <= BufLen, Unused, NEW s \in Seq(Kind \ {"unused"}), NEW k \in 1 .. 4,
         Len(s) = k, mark' = Stored(mark, s), end' = (end + k) % Word, start' = StartAfter(end')
  PROVE  Unused' /\ (Fresh' => Fresh /\ Held + k <= BufLen)
<1> USE LogSizes
<1>1. ASSUME NEW x \in 0 .. BufLen - 1, mark'[x] = "unused"
      PROVE  mark[x] = "unused" /\ start' = 0 /\ end' <= x /\ Held + k <= BufLen
  <2>1. start \in 0 .. Word - 1 /\ end \in 0 .. Word - 1 /\ mark \in [0 .. BufLen - 1 -> Kind]
    BY DEF TypeOK
  <2>2. s \in Seq(Kind) /\ \A j \in 1 .. k : s[j] # "unused"
    OBVIOUS
  <2>3. /\ \A j \in 1 .. k : mark'[Mod(end + j - 1, BufLen)] = s[j]
        /\ (\A j \in 1 .. k : Mod(end + j - 1, BufLen) # x) => mark'[x] = mark[x]
    <3> DEFINE b2 == mark'
    <3>1. b2 = Stored(mark, s)
      OBVIOUS
    <3> HIDE DEF b2
    <3>2. /\ \A j \in 1 .. k : b2[Mod(end + j - 1, BufLen)] = s[j]
          /\ \A y \in 0 .. BufLen - 1 :
               (\A j \in 1 .. k : Mod(end + j - 1, BufLen) # y) => b2[y] = mark[y]
      <4>1. end \in 0 .. Word - 1 /\ mark \in [0 .. BufLen - 1 -> Kind]
        BY <2>1
      <4>2. s \in Seq(Kind) /\ Len(s) \in 1 .. 4
        BY <2>2
      <4>3. Written(b2, mark, s, Kind)
        BY <3>1, <4>1, <4>2, RingAfter
      <4> QED
        BY <4>3 DEF Written
    <3> QED
      BY <3>2 DEF b2
  <2>4. \A j \in 1 .. k : Mod(end + j - 1, BufLen) # x
    BY <1>1, <2>2, <2>3
  <2>5. mark[x] = "unused" /\ start = 0 /\ end <= x
    BY <1>1, <2>3, <2>4 DEF Unused
  <2>6. end + k <= x
    <3> SUFFICES ASSUME x < end + k  PROVE FALSE
      BY <2>1
    <3>1. x - end + 1 \in 1 .. k /\ end + (x - end + 1) - 1 = x
      BY <2>1, <2>5
    <3>2. Mod(x, BufLen) = x
      BY ModFits
    <3> QED
      BY <2>4, <3>1, <3>2
  <2>7. end' = end + k
    <3>1. end + k \in 0 .. Word - 1
      BY <2>1, <2>6
    <3>2. Mod(end + k, Word) = end + k
      BY <3>1, ModFits
    <3> QED
      BY <3>2 DEF Mod
  <2>8. Mod(end' - start, Word) = end + k /\ Mod(end - start, Word) = end
    <3>1. end + k \in 0 .. Word - 1 /\ end' - start = end + k /\ end - start = end
      BY <2>1, <2>5, <2>6, <2>7
    <3> QED
      BY <2>1, <3>1, ModFits
  <2>9. start' = 0
    <3>1. ~((end' - start) % Word > BufLen)
      BY <2>1, <2>6, <2>8 DEF Mod
    <3> QED
      BY <2>5, <3>1 DEF StartAfter
  <2>10. Held + k <= BufLen
    BY <2>1, <2>6, <2>8 DEF Held, Mod
  <2> QED
    BY <2>5, <2>6, <2>7, <2>9, <2>10
<1>2. Unused'
  BY <1>1 DEF Unused
<1>3. Fresh' => Fresh /\ Held + k <= BufLen
  <2>1. DOMAIN mark = 0 .. BufLen - 1 /\ DOMAIN mark' = 0 .. BufLen - 1
    BY DEF TypeOK, Stored
  <2> QED
    BY <1>1, <2>1 DEF Fresh
<1> QED
  BY <1>2, <1>3

(* printk's turn writes into the log what an abstract one writes, and leaves *)
(* each line its level.                                                      *)
LEMMA TurnWrites ==
  ASSUME IInv, EmitChar
  PROVE  IInv' /\ L!Next
<1> USE LogSizes
<1>1. /\ TypeOK /\ Held <= BufLen /\ LinesTagged /\ Unused /\ Due(Text, Fresh, unknown, rest)
      /\ rest # <<>> /\ Emit(Emitted, Sources)
      /\ unknown' = (rest[1] = "nl") /\ rest' = Tail(rest)
  BY EmitCharIs DEF IInv
<1> DEFINE s == Emitted  ms == Sources  k == Len(s)  t == Text  m == Marks  t2 == Text'  m2 == Marks'
           f == Fresh  f2 == Fresh'
<1>2. /\ s \in Seq(Char) /\ k \in 1 .. 4 /\ rest[1] \in Char /\ Tail(rest) \in Seq(Char)
      /\ ms \in Seq(Kind \ {"unused"}) /\ ms \in Seq(Kind) /\ Len(ms) = k
  BY <1>1, EmittedIs
<1>3. /\ buf' = Stored(buf, s) /\ mark' = Stored(mark, ms)
      /\ end' = (end + k) % Word /\ start' = StartAfter(end')
      /\ end \in 0 .. Word - 1
      /\ buf \in [0 .. BufLen - 1 -> Char] /\ mark \in [0 .. BufLen - 1 -> Kind]
  BY <1>1 DEF Emit, TypeOK
<1>4. Turned(s, ms, unknown, rest, unknown', rest')
  BY <1>1, TurnIs
<1> HIDE DEF s, ms, k
<1>5. Len(s) = k
  BY DEF k
<1>6. /\ start' \in 0 .. Word - 1 /\ end' \in 0 .. Word - 1 /\ Held' <= BufLen
      /\ Held' = IF Held + k <= BufLen THEN Held + k ELSE BufLen
  <2>1. Held' = IF Held + k <= BufLen THEN Held + k ELSE BufLen
    BY <1>1, <1>2, <1>3, CountersMove
  <2> QED
    BY <1>1, <1>2, <1>3, <2>1, CountersMove
<1>7. TypeOK'
  <2>1. buf' \in [0 .. BufLen - 1 -> Char]
    <3> DEFINE b2 == buf'
    <3>1. b2 = Stored(buf, s)
      BY <1>3
    <3> HIDE DEF b2
    <3>2. end \in 0 .. Word - 1 /\ buf \in [0 .. BufLen - 1 -> Char]
      BY <1>3
    <3>3. s \in Seq(Char) /\ k \in 1 .. 4 /\ Len(s) = k
      BY <1>2, <1>5
    <3>4. Written(b2, buf, s, Char)
      BY <3>1, <3>2, <3>3, RingAfter
    <3> QED
      BY <3>4 DEF Written, b2
  <2>2. mark' \in [0 .. BufLen - 1 -> Kind]
    <3> DEFINE b2 == mark'
    <3>1. b2 = Stored(mark, ms)
      BY <1>3
    <3> HIDE DEF b2
    <3>2. end \in 0 .. Word - 1 /\ mark \in [0 .. BufLen - 1 -> Kind]
      BY <1>3
    <3>3. ms \in Seq(Kind) /\ Len(ms) \in 1 .. 4
      BY <1>2
    <3>4. Written(b2, mark, ms, Kind)
      BY <3>1, <3>2, <3>3, RingAfter
    <3> QED
      BY <3>4 DEF Written, b2
  <2>3. unknown' \in BOOLEAN /\ rest' \in Seq(Char)
    BY <1>1, <1>2
  <2> QED
    BY <1>6, <2>1, <2>2, <2>3 DEF TypeOK
<1>8. Follows(t2, t, s, Char)
  <2>1. Follows(TextOf(buf', start', end'), TextOf(buf, start, end), s, Char)
    BY <1>1, <1>2, <1>3, <1>5, TextAfter
  <2> QED
    BY <2>1, TextIs
<1>9. Follows(m2, m, ms, Kind)
  <2>1. Follows(TextOf(mark', start', end'), TextOf(mark, start, end), ms, Kind)
    BY <1>1, <1>2, <1>3, TextAfter
  <2> QED
    BY <2>1, TextIs
<1>10. Unused' /\ (f2 => f /\ Held + k <= BufLen)
  BY <1>1, <1>2, <1>3, UnusedKept
<1>11. Len(t) = Held /\ Len(m) = Held /\ Held \in Nat
  <2>1. Held = Mod(end - start, Word) /\ end - start \in Int /\ start \in 0 .. Word - 1 /\ end \in Int
    BY <1>1 DEF Held, Mod, TypeOK
  <2>2. Held \in Nat
    BY <2>1, ModIs
  <2>3. Holds(TextOf(buf, start, end), buf, end, Mod(end - start, Word), Char)
    BY <1>3, <2>1, TextAt
  <2>4. Holds(TextOf(mark, start, end), mark, end, Mod(end - start, Word), Kind)
    BY <1>3, <2>1, TextAt
  <2> QED
    BY <2>1, <2>2, <2>3, <2>4, TextIs DEF Holds
<1>12. t \in Seq(Char) /\ t2 \in Seq(Char) /\ m \in Seq(Kind) /\ m2 \in Seq(Kind)
  BY <1>8, <1>9 DEF Follows
<1>14. f \in BOOLEAN /\ f2 \in BOOLEAN
  BY DEF Fresh
<1>13. Lines(t, m, f)
  <2>1. TaggedLog(t, m, f)
    BY <1>1, TaggedLogIs
  <2> QED
    BY <1>12, <1>14, <2>1, LinesTaggedIs
<1>15. Lines(t \o s, m \o ms, f) /\ Due(t \o s, f, unknown', rest')
  <2> HIDE DEF t, m, f
  <2>1. Due(t, f, unknown, rest)
    BY <1>1 DEF t, f
  <2> QED
    BY <1>4, <1>11, <1>12, <1>13, <1>14, <2>1, LinesAppend
<1> DEFINE D == Held  M == Len(t2)  l == D + k - M  w == t \o s  wm == m \o ms
<1>16. /\ M = (IF D + k <= BufLen THEN D + k ELSE BufLen) /\ Len(m2) = M
       /\ \A n \in 1 .. M : /\ t2[n] = IF n + D + k - M <= D THEN t[n + D + k - M] ELSE s[n + k - M]
                            /\ m2[n] = IF n + D + k - M <= D THEN m[n + D + k - M] ELSE ms[n + k - M]
  <2> HIDE DEF t, m, t2, m2, D
  <2>1. Len(t) = D /\ Len(m) = D
    BY <1>11 DEF D
  <2> QED
    BY <1>2, <1>5, <1>8, <1>9, <2>1 DEF Follows
<1>17. /\ w \in Seq(Char) /\ Len(w) = D + k
       /\ wm \in Seq(Kind) /\ Len(wm) = D + k
       /\ \A n \in 1 .. D + k : /\ w[n] = IF n <= D THEN t[n] ELSE s[n - D]
                                /\ wm[n] = IF n <= D THEN m[n] ELSE ms[n - D]
  <2> HIDE DEF t, m, D
  <2>1. Len(t) = D /\ Len(m) = D
    BY <1>11 DEF D
  <2> QED
    BY <1>2, <1>5, <1>12, <2>1, ConcatProperties
<1>18. Lines(w, wm, f) /\ Due(w, f, unknown', rest') /\ D \in Nat /\ D <= BufLen /\ (f2 => f /\ D + k <= BufLen)
  BY <1>1, <1>10, <1>11, <1>15
<1>19. Text' = L!Last(Text \o s)
  <2> HIDE DEF t, t2
  <2>1. t2 = L!Last(t \o s)
    BY <1>2, <1>5, <1>8, LastFollows
  <2> QED
    BY <2>1 DEF t, t2
<1> HIDE DEF t, m, t2, m2, f, f2, w, wm, D
<1>20. Lines(t2, m2, f2) /\ Due(t2, f2, unknown', rest')
  <2>1. M \in Nat /\ M <= D + k /\ M >= 1 /\ l \in Nat /\ D + k = M + l /\ (D + k <= BufLen => l = 0)
    <3>1. D \in Nat /\ k \in 1 .. 4 /\ M = IF D + k <= BufLen THEN D + k ELSE BufLen
      BY <1>2, <1>16, <1>18
    <3> HIDE DEF M
    <3>2. M \in Nat /\ M <= D + k /\ M >= 1
      BY <3>1
    <3> QED
      BY <3>1, <3>2
  <2>2. ASSUME NEW n \in 1 .. M  PROVE t2[n] = w[n + l] /\ m2[n] = wm[n + l]
    <3>1. n + l = n + D + k - M /\ n + l \in 1 .. D + k /\ (n + l) - D = n + k - M
      BY <1>2, <1>18, <2>1
    <3>2. /\ w[n + l] = IF n + D + k - M <= D THEN t[n + D + k - M] ELSE s[n + k - M]
          /\ wm[n + l] = IF n + D + k - M <= D THEN m[n + D + k - M] ELSE ms[n + k - M]
      BY <1>17, <3>1
    <3> QED
      BY <1>16, <3>2
  <2>3. f2 => f /\ l = 0
    BY <1>18, <2>1
  <2>4. /\ w \in Seq(Char) /\ t2 \in Seq(Char) /\ l \in Nat
        /\ Len(w) = Len(t2) + l /\ Len(t2) >= 1
    BY <1>12, <1>17, <2>1
  <2>5. Remains(t2, m2, f2, w, wm, f, l)
    BY <2>2, <2>3, <2>4 DEF Remains
  <2>6. Lines(w, wm, f) /\ Due(w, f, unknown', rest')
    BY <1>18
  <2> HIDE DEF l, M
  <2> QED
    BY <2>5, <2>6, LinesTrim
<1>21. LinesTagged'
  <2>1. TaggedLog(t2, m2, f2)
    BY <1>12, <1>14, <1>20, LinesTaggedIs
  <2> QED
    BY <2>1, TaggedLogIs DEF t2, m2, f2
<1>22. IInv'
  BY <1>6, <1>7, <1>10, <1>20, <1>21 DEF IInv, t2, f2
<1>23. L!Next
  <2>1. s = <<rest[1]>> \/ s = <<"<", "4", ">", rest[1]>>
    BY DEF s, Emitted
  <2>2. "4" \in Char
    BY DEF Char, Digit
  <2> QED
    BY <1>2, <1>19, <2>1, <2>2 DEF L!Next, L!Write
<1> QED
  BY <1>22, <1>23

-----------------------------------------------------------------------------
LEMMA StepStays ==
  ASSUME IInv, [Next]_vars
  PROVE  IInv' /\ [L!Next]_Text
<1>1. TypeOK /\ rest \in Seq(Char)
  BY DEF IInv, TypeOK
<1>2. CASE Printk
  <2>1. rest' \in Seq(Char) /\ rest = <<>> /\ UNCHANGED <<buf, start, end, unknown, mark>>
    BY <1>2, LogAssumption DEF Printk
  <2> QED
    BY <2>1, Stays
<1>3. CASE EmitChar
  BY <1>3, TurnWrites
<1>4. CASE UNCHANGED vars
  <2>1. rest' = rest /\ UNCHANGED <<buf, start, end, unknown, mark>>
    BY <1>4 DEF vars
  <2> QED
    BY <1>1, <2>1, Stays
<1> QED
  BY <1>2, <1>3, <1>4 DEF Next

(* The invariant holds in every state of every sequence of printk calls.     *)
THEOREM Inductive == Spec => []IInv
<1>1. Init => IInv
  BY Start
<1>2. IInv /\ [Next]_vars => IInv'
  BY StepStays
<1> QED
  BY <1>1, <1>2, PTL DEF Spec

(* Every line of the log starts with a level, and printk adds one tag to a   *)
(* line that has none and nothing else, wherever the messages break the      *)
(* lines and however often the ring and the counters have wrapped: printk's  *)
(* unknown_log_level is right about what the log ends with.                  *)
THEOREM EveryLineTagged == Spec => []LinesTagged
<1>1. IInv => LinesTagged
  BY DEF IInv
<1> QED
  BY <1>1, Inductive, PTL

(* printk's ring with its two running counters implements a log that keeps   *)
(* the last LOG_BUF_LEN characters: every turn of printk writes to it what   *)
(* it emits, in order, and nothing else changes it.                          *)
THEOREM RingKeepsLast == Spec => KeepsLast
<1>1. Init => L!Init
  BY Start
<1>2. IInv /\ [Next]_vars => [L!Next]_Text
  BY StepStays
<1> QED
  BY <1>1, <1>2, Inductive, PTL DEF Spec, KeepsLast, L!Spec
-----------------------------------------------------------------------------
(* A set of numbers has a least one, which is what an induction over the     *)
(* length of a format starts from when it is turned round.                   *)
LEMMA Least ==
  ASSUME NEW U \in SUBSET Nat, NEW t \in U
  PROVE  \E x \in U : \A y \in U : x <= y
<1> DEFINE R == StrictSubsetOrdering(Nat)
           F == {0 .. x : x \in U}
<1>1. IsWellFoundedOn(R, FiniteSubsetsOf(Nat))
  BY FS_StrictSubsetOrderingWellFounded
<1>2. F \subseteq FiniteSubsetsOf(Nat) /\ F # {}
  <2>1. \A x \in U : IsFiniteSet(0 .. x) /\ 0 .. x \in SUBSET Nat
    BY FS_Interval
  <2>2. QED
    BY <2>1 DEF FiniteSubsetsOf
<1>3. \E f \in F : \A g \in F : <<g, f>> \notin R
  <2> HIDE DEF R, F
  <2>1. QED
    BY <1>1, <1>2, WFMin
<1>4. PICK x \in U : \A y \in U : <<0 .. y, 0 .. x>> \notin R
  BY <1>3
<1>5. ASSUME NEW y \in U, y < x
      PROVE  FALSE
  <2>1. 0 .. y \in SUBSET Nat /\ 0 .. x \in SUBSET Nat /\ 0 .. y \subseteq 0 .. x
    BY <1>5
  <2>2. x \in 0 .. x /\ x \notin 0 .. y
    BY <1>5
  <2>3. <<0 .. y, 0 .. x>> \in R
    BY <2>1, <2>2 DEF StrictSubsetOrdering
  <2>4. QED
    BY <1>4, <2>3
<1>6. QED
  BY <1>4, <1>5

-----------------------------------------------------------------------------
(* The first n members of a sequence of sequences, one behind the other.     *)
Flat(f, s, n, S) ==
  /\ f \in [1 .. n -> Seq(S)]
  /\ \A j \in 1 .. n : f[j] = IF j = 1 THEN s[j] ELSE f[j - 1] \o s[j]

LEMMA FlatUnique ==
  ASSUME NEW S, NEW s, NEW m \in Nat, NEW n \in Nat, m <= n, NEW f, NEW g,
         Flat(f, s, m, S), Flat(g, s, n, S), NEW j \in 1 .. m
  PROVE  f[j] = g[j]
<1> DEFINE U == {x \in Nat : x \in 1 .. m /\ f[x] # g[x]}
<1>1. SUFFICES ASSUME j \in U PROVE FALSE
  OBVIOUS
<1>2. U \in SUBSET Nat
  OBVIOUS
<1>3. PICK x \in U : \A y \in U : x <= y
  <2> HIDE DEF U
  <2>1. QED
    BY <1>1, <1>2, Least
<1>4. x \in 1 .. m /\ x \in 1 .. n /\ x \in Nat /\ f[x] # g[x]
  OBVIOUS
<1>5. CASE x = 1
  BY <1>4, <1>5 DEF Flat
<1>6. CASE x # 1
  <2>1. x - 1 \in 1 .. m /\ x - 1 \in Nat /\ ~ x <= x - 1
    BY <1>4, <1>6
  <2>2. f[x - 1] = g[x - 1]
    BY <1>3, <2>1
  <2>3. QED
    BY <1>4, <1>6, <2>2 DEF Flat
<1>7. QED
  BY <1>5, <1>6

Goes(g, f, n, x) == (n = 0 => g[n + 1] = x) /\ (n # 0 => g[n + 1] = f[n] \o x)
Continues(t, s, n, x) == t[n + 1] = x /\ \A j \in 1 .. n : t[j] = s[j]
LEMMA FlatMore ==
  ASSUME NEW S, NEW s, NEW n \in Nat, NEW f, Flat(f, s, n, S), NEW x \in Seq(S), NEW t,
         Continues(t, s, n, x)
  PROVE  \E g : Flat(g, t, n + 1, S) /\ Goes(g, f, n, x)
<1> USE DEF Continues
<1> DEFINE v == IF n = 0 THEN x ELSE f[n] \o x
           g == [j \in 1 .. n + 1 |-> IF j = n + 1 THEN v ELSE f[j]]
<1>1. v \in Seq(S)
  <2>1. CASE n = 0
    BY <2>1
  <2>2. CASE n # 0
    <3>1. n \in 1 .. n
      BY <2>2
    <3>2. f[n] \in Seq(S)
      BY <3>1 DEF Flat
    <3>3. f[n] \o x \in Seq(S)
      BY <3>2
    <3>4. QED
      BY <2>2, <3>3
  <2>3. QED
    BY <2>1, <2>2
<1>2. \A j \in 1 .. n + 1 : j # n + 1 => j \in 1 .. n
  OBVIOUS
<1>3. g \in [1 .. n + 1 -> Seq(S)]
  <2>1. \A j \in 1 .. n : f[j] \in Seq(S)
    BY DEF Flat
  <2> HIDE DEF v
  <2>2. QED
    BY <1>1, <1>2, <2>1
<1>4. ASSUME NEW j \in 1 .. n + 1
      PROVE  g[j] = IF j = 1 THEN t[j] ELSE g[j - 1] \o t[j]
  <2>1. CASE j = n + 1
    <3>1. CASE n = 0
      BY <2>1, <3>1
    <3>2. CASE n # 0
      <4>1. n \in 1 .. n + 1 /\ n # n + 1 /\ j - 1 = n /\ j # 1
        BY <2>1, <3>2
      <4>2. g[n] = f[n]
        BY <4>1
      <4>3. g[j] = f[n] \o x
        BY <2>1, <3>2
      <4>4. t[j] = x
        BY <2>1
      <4> HIDE DEF g, v
      <4>5. QED
        BY <4>1, <4>2, <4>3, <4>4
    <3>3. QED
      BY <3>1, <3>2
  <2>2. CASE j # n + 1
    <3>1. j \in 1 .. n /\ g[j] = f[j] /\ t[j] = s[j]
      BY <1>2, <2>2
    <3>2. f[j] = IF j = 1 THEN s[j] ELSE f[j - 1] \o s[j]
      BY <3>1 DEF Flat
    <3>3. CASE j # 1
      <4>1. j - 1 \in 1 .. n + 1 /\ j - 1 # n + 1
        BY <3>1, <3>3
      <4>2. g[j - 1] = f[j - 1]
        BY <4>1
      <4> HIDE DEF g, v
      <4>3. QED
        BY <3>1, <3>2, <3>3, <4>2
    <3>4. QED
      BY <3>1, <3>2, <3>3
  <2>3. QED
    BY <2>1, <2>2
<1>5. g[n + 1] = v
  OBVIOUS
<1> HIDE DEF g
<1>6. QED
  BY <1>3, <1>4, <1>5 DEF Flat, Goes

LEMMA FlatExists ==
  ASSUME NEW S, NEW s \in Seq(Seq(S))
  PROVE  \E f : Flat(f, s, Len(s), S)
<1>1. PICK l \in Nat : l = Len(s)
  OBVIOUS
<1>2. PICK Z : Z = Seq(S)
  OBVIOUS
<1>3. \A j \in 1 .. l : s[j] \in Seq(S)
  BY <1>1, <1>2
<1> DEFINE U == {n \in Nat : n <= l /\ ~ \E f : Flat(f, s, n, S)}
<1>4. SUFFICES ASSUME l \in U PROVE FALSE
  BY <1>1
<1>5. U \in SUBSET Nat
  OBVIOUS
<1>6. PICK x \in U : \A y \in U : x <= y
  <2> HIDE DEF U
  <2>1. QED
    BY <1>4, <1>5, Least
<1>7. x \in Nat /\ x <= l /\ ~ \E f : Flat(f, s, x, S)
  OBVIOUS
<1>8. CASE x = 0
  <2>1. PICK f : f = [j \in 1 .. x |-> <<>>]
    OBVIOUS
  <2>2. f \in [1 .. x -> Seq(S)] /\ \A j \in 1 .. x : FALSE
    BY <1>8, <2>1
  <2>3. Flat(f, s, x, S)
    BY <2>2 DEF Flat
  <2>4. QED
    BY <1>7, <2>3
<1>9. CASE x # 0
  <2>1. PICK y \in Nat : x = y + 1
    BY <1>7, <1>9
  <2>2. y <= l /\ ~ x <= y /\ x \in 1 .. l
    BY <1>7, <1>9, <2>1
  <2>3. PICK f : Flat(f, s, y, S)
    BY <1>6, <2>2
  <2>4. \E g : Flat(g, s, y + 1, S)
    <3>1. PICK e : e = s[y + 1]
      OBVIOUS
    <3>2. e \in Seq(S)
      BY <1>3, <2>1, <2>2, <3>1
    <3>3. Continues(s, s, y, e)
      BY <3>1 DEF Continues
    <3>4. QED
      BY <2>3, <3>2, <3>3, FlatMore
  <2>5. QED
    BY <1>7, <2>1, <2>4
<1>10. QED
  BY <1>8, <1>9

LEMMA FlattenIs ==
  ASSUME NEW S, NEW s \in Seq(Seq(S)), NEW f, Flat(f, s, Len(s), S)
  PROVE  FlattenSeq(s) = IF Len(s) = 0 THEN <<>> ELSE f[Len(s)]
<1>1. PICK l \in Nat : l = Len(s)
  OBVIOUS
<1>2. CASE l = 0
  <2>1. s = <<>>
    <3>1. PICK Z : Z = Seq(S)
      OBVIOUS
    <3>2. s \in Seq(Z)
      BY <3>1
    <3>3. QED
      BY <1>1, <1>2, <3>2, EmptySeq
  <2>2. QED
    BY <1>1, <1>2, <2>1 DEF FlattenSeq
<1>3. CASE l # 0
  <2> DEFINE Eq(g) == g = [j \in 1 .. l |-> IF j = 1 THEN s[j] ELSE g[j - 1] \o s[j]]
             G == CHOOSE g : Eq(g)
  <2>1. Eq(f)
    <3>1. f = [j \in 1 .. l |-> f[j]] /\ \A j \in 1 .. l : f[j] = IF j = 1 THEN s[j] ELSE f[j - 1] \o s[j]
      BY <1>1 DEF Flat
    <3>2. QED
      BY <3>1
  <2>2. Eq(G)
    <3> HIDE DEF Eq
    <3>1. QED
      BY <2>1
  <2>3. FlattenSeq(s) = G[l]
    BY <1>1, <1>3 DEF FlattenSeq
  <2> HIDE DEF G
  <2>4. PICK g : g = G
    OBVIOUS
  <2>5. \A j \in 1 .. l : g[j] = IF j = 1 THEN s[j] ELSE g[j - 1] \o s[j]
    BY <2>2, <2>4
  <2>6. ASSUME NEW j \in 1 .. l
        PROVE  g[j] = f[j]
    <3> DEFINE U == {x \in Nat : x \in 1 .. l /\ g[x] # f[x]}
    <3>1. SUFFICES ASSUME j \in U PROVE FALSE
      OBVIOUS
    <3>2. U \in SUBSET Nat
      OBVIOUS
    <3>3. PICK x \in U : \A y \in U : x <= y
      <4> HIDE DEF U
      <4>1. QED
        BY <3>1, <3>2, Least
    <3>4. x \in 1 .. l /\ x \in Nat /\ f[x] # g[x]
      OBVIOUS
    <3>5. f[x] = IF x = 1 THEN s[x] ELSE f[x - 1] \o s[x]
      BY <1>1, <3>4 DEF Flat
    <3>6. CASE x = 1
      BY <2>5, <3>4, <3>5, <3>6
    <3>7. CASE x # 1
      <4>1. x - 1 \in 1 .. l /\ x - 1 \in Nat /\ ~ x <= x - 1
        BY <3>4, <3>7
      <4>2. f[x - 1] = g[x - 1]
        BY <3>3, <4>1
      <4>3. g[x] = g[x - 1] \o s[x]
        BY <2>5, <3>4, <3>7
      <4>4. QED
        BY <3>4, <3>5, <3>7, <4>2, <4>3
    <3>8. QED
      BY <3>6, <3>7
  <2>7. l \in 1 .. l
    BY <1>3
  <2>8. QED
    BY <1>1, <1>3, <2>3, <2>4, <2>6, <2>7
<1>4. QED
  BY <1>2, <1>3

(* One more sequence.                                                        *)
LEMMA FlattenAppend ==
  ASSUME NEW S, NEW s \in Seq(Seq(S)), NEW x \in Seq(S)
  PROVE  /\ FlattenSeq(s) \in Seq(S)
         /\ FlattenSeq(Append(s, x)) = FlattenSeq(s) \o x
<1>1. PICK l \in Nat : l = Len(s)
  OBVIOUS
<1>2. PICK Z : Z = Seq(S)
  OBVIOUS
<1>3. PICK t : t = Append(s, x)
  OBVIOUS
<1>4. t \in Seq(Z) /\ Len(t) = l + 1 /\ t[l + 1] = x /\ \A j \in 1 .. l : t[j] = s[j]
  <2>1. s \in Seq(Z) /\ x \in Z
    BY <1>2
  <2>2. QED
    BY <1>1, <1>3, <2>1
<1>5. PICK f : Flat(f, s, l, S)
  BY <1>1, FlatExists
<1>6. PICK g : Flat(g, t, l + 1, S) /\ Goes(g, f, l, x)
  <2>1. Continues(t, s, l, x)
    BY <1>4 DEF Continues
  <2>2. QED
    BY <2>1, <1>5, FlatMore
<1>7. FlattenSeq(t) = g[l + 1]
  <2>1. t \in Seq(Seq(S)) /\ Len(t) # 0 /\ Flat(g, t, Len(t), S)
    BY <1>2, <1>4, <1>6
  <2>2. FlattenSeq(t) = g[Len(t)]
    BY <2>1, FlattenIs
  <2>3. QED
    BY <1>4, <2>2
<1>8. FlattenSeq(s) = IF l = 0 THEN <<>> ELSE f[l]
  BY <1>1, <1>5, FlattenIs
<1>9. CASE l = 0
  BY <1>3, <1>6, <1>7, <1>8, <1>9 DEF Goes
<1>10. CASE l # 0
  <2>1. f[l] \in Seq(S)
    BY <1>5, <1>10 DEF Flat
  <2>2. QED
    BY <1>3, <1>6, <1>7, <1>8, <1>10, <2>1 DEF Goes
<1>11. QED
  BY <1>9, <1>10

-----------------------------------------------------------------------------
(* What a directive puts out.                                                *)
Chars == {" ", "0", "d", "s", "%", "x", "-", "+", "newline"}

LEMMA RepIs ==
  ASSUME NEW S, NEW c \in S, NEW n \in Nat
  PROVE  Rep(c, n) \in Seq(S) /\ Len(Rep(c, n)) = n
<1>1. PICK r : r = Rep(c, n)
  OBVIOUS
<1>2. r \in [1 .. n -> S]
  BY <1>1 DEF Rep
<1>3. r \in Seq(S) /\ Len(r) = n
  BY <1>2, SeqDef
<1>4. QED
  BY <1>1, <1>3

LEMMA RepNone ==
  ASSUME NEW c
  PROVE  Rep(c, 0) = <<>>
<1>1. PICK S : S = {c}
  OBVIOUS
<1>2. PICK r, z : r = Rep(c, z) /\ z = 0
  OBVIOUS
<1>3. r \in Seq(S) /\ Len(r) = 0
  BY <1>1, <1>2, RepIs
<1>4. r = <<>>
  BY <1>3, EmptySeq
<1>5. QED
  BY <1>2, <1>4

LEMMA RepMore ==
  ASSUME NEW c, NEW m \in Nat, NEW n \in Nat
  PROVE  Rep(c, m) \o Rep(c, n) = Rep(c, m + n)
<1>1. PICK S : S = {c}
  OBVIOUS
<1>2. PICK a, b, r : a = Rep(c, m) /\ b = Rep(c, n) /\ r = Rep(c, m + n)
  OBVIOUS
<1>3. /\ a \in Seq(S) /\ b \in Seq(S) /\ r \in Seq(S)
      /\ Len(a) = m /\ Len(b) = n /\ Len(r) = m + n
  BY <1>1, <1>2, RepIs
<1>4. PICK t : t = a \o b
  OBVIOUS
<1>5. t \in Seq(S) /\ Len(t) = Len(r)
  BY <1>3, <1>4, ConcatProperties
<1>6. \A j \in 1 .. Len(t) : t[j] = r[j]
  <2>1. \A j \in 1 .. Len(t) : t[j] \in S /\ r[j] \in S
    BY <1>3, <1>5, ElementOfSeq
  <2>2. QED
    BY <1>1, <2>1
<1>7. t = r
  BY <1>3, <1>5, <1>6, SeqEqual
<1>8. QED
  BY <1>2, <1>4, <1>7

LEMMA ShortSeq ==
  ASSUME NEW S, NEW c \in S, NEW e \in S
  PROVE  <<>> \in Seq(S) /\ <<c>> \in Seq(S) /\ <<c, e>> \in Seq(S)
OBVIOUS

LEMMA SignIs ==
  ASSUME NEW d
  PROVE  /\ Sign(d) \in Seq(Chars) /\ Len(Sign(d)) \in Nat
         /\ Prefix(d) \in Seq(Chars) /\ Len(Prefix(d)) \in Nat
<1>1. PICK S : S = Chars
  OBVIOUS
<1>2. "-" \in S /\ "+" \in S /\ " " \in S /\ "0" \in S /\ "x" \in S
  BY <1>1 DEF Chars
<1>3. Sign(d) \in Seq(S)
  <2>1. <<"-">> \in Seq(S) /\ <<"+">> \in Seq(S) /\ <<" ">> \in Seq(S) /\ <<>> \in Seq(S)
    BY <1>2, ShortSeq
  <2>2. Sign(d) \in {<<>>, <<"-">>, <<"+">>, <<" ">>}
    BY DEF Sign
  <2>3. QED
    BY <2>1, <2>2
<1>4. Prefix(d) \in Seq(S)
  <2>1. <<"0">> \in Seq(S) /\ <<"0", "x">> \in Seq(S) /\ <<>> \in Seq(S)
    BY <1>2, ShortSeq
  <2>2. Prefix(d) \in {<<>>, <<"0">>, <<"0", "x">>}
    BY DEF Prefix
  <2>3. QED
    BY <2>1, <2>2
<1>5. QED
  BY <1>1, <1>3, <1>4, LenProperties

(* A number: the sign and the prefix, then zeros, then the digits.           *)
Body(d, zeros) == Sign(d) \o Prefix(d) \o Rep("0", zeros) \o Rep("d", d.digits)

LEMMA BodyIs ==
  ASSUME NEW d \in AnyDirective, NEW z \in Nat
  PROVE  /\ Body(d, z) \in Seq(Chars)
         /\ Len(Body(d, z)) = Len(Sign(d)) + Len(Prefix(d)) + z + d.digits
<1>1. PICK S : S = Chars
  OBVIOUS
<1>2. PICK n \in Nat : n = d.digits
  BY DEF AnyDirective
<1>3. PICK a, b, e, f : a = Sign(d) /\ b = Prefix(d) /\ e = Rep("0", z) /\ f = Rep("d", n)
  OBVIOUS
<1>4. a \in Seq(S) /\ b \in Seq(S) /\ Len(a) \in Nat /\ Len(b) \in Nat
  BY <1>1, <1>3, SignIs
<1>5. e \in Seq(S) /\ Len(e) = z /\ f \in Seq(S) /\ Len(f) = n
  <2>1. "0" \in S /\ "d" \in S
    BY <1>1 DEF Chars
  <2>2. QED
    BY <1>3, <2>1, RepIs
<1>6. a \o b \o e \o f \in Seq(S) /\ Len(a \o b \o e \o f) = Len(a) + Len(b) + z + n
  BY <1>4, <1>5
<1>7. Body(d, z) = a \o b \o e \o f
  BY <1>2, <1>3 DEF Body
<1>8. QED
  BY <1>1, <1>2, <1>3, <1>6, <1>7

(* What NumberField says of a number.                                        *)
NumberIs(d, out, blanks, zeros) ==
  /\ blanks \in Nat /\ zeros \in Nat
  /\ out = IF Left(d) THEN Body(d, zeros) \o Rep(" ", blanks)
           ELSE Rep(" ", blanks) \o Body(d, zeros)
  /\ Len(out) = blanks + Len(Body(d, zeros))
  /\ blanks + Len(Body(d, zeros)) >= Field(d)
  /\ zeros + d.digits >= d.prec
  /\ blanks > 0 => Len(out) = Field(d) /\ ("ZEROPAD" \in d.flags => Left(d))
  /\ zeros > AtLeast0(d.prec - d.digits) => Len(out) = Field(d) /\ ~Left(d)

LEMMA NumberFits ==
  ASSUME NEW d \in AnyDirective
  PROVE  /\ Number(d) \in Seq(Chars)
         /\ \E blanks, zeros \in Nat : NumberIs(d, Number(d), blanks, zeros)
<1>1. PICK S : S = Chars
  OBVIOUS
<1>2. PICK n \in Nat : n = d.digits
  BY DEF AnyDirective
<1>3. PICK p \in Int : p = d.prec
  BY DEF AnyDirective, NoWidth
<1>4. PICK w \in Int : w = Field(d)
  BY DEF AnyDirective, Field, NoWidth
<1>5. PICK a, b : a = Sign(d) /\ b = Prefix(d)
  OBVIOUS
<1>6. PICK la, lb : la = Len(a) /\ lb = Len(b)
  OBVIOUS
<1>7. a \in Seq(S) /\ b \in Seq(S) /\ la \in Nat /\ lb \in Nat
  BY <1>1, <1>5, <1>6, SignIs
<1>8. PICK m : m = IF n > p THEN n ELSE p
  OBVIOUS
<1>9. PICK e : e = m - n
  OBVIOUS
<1>10. m \in Nat /\ m >= n /\ m >= p /\ e \in Nat /\ e + n = m /\ e = AtLeast0(p - n)
  BY <1>8, <1>9 DEF AtLeast0
<1>11. PICK q : q = AtLeast0(w - la - lb - m)
  OBVIOUS
<1>12. q \in Nat /\ q + la + lb + m >= w /\ (q > 0 => q + la + lb + m = w)
  BY <1>7, <1>10, <1>11 DEF AtLeast0
<1>13. " " \in S /\ "0" \in S /\ "d" \in S
  BY <1>1 DEF Chars
<1>14. PICK x, y, z : x = Rep(" ", q) /\ y = Rep("0", e) /\ z = Rep("d", n)
  OBVIOUS
<1>15. x \in Seq(S) /\ Len(x) = q /\ y \in Seq(S) /\ Len(y) = e /\ z \in Seq(S) /\ Len(z) = n
  BY <1>10, <1>12, <1>13, <1>14, RepIs
<1>16. Pad(d, m) = q
  BY <1>4, <1>5, <1>6, <1>11 DEF Pad
<1>17. Rep(" ", 0) = <<>> /\ Rep("0", 0) = <<>>
  BY RepNone
<1>18. \A c : Rep(" ", c) = IF c = 0 THEN <<>> ELSE Rep(" ", c)
  BY <1>17
<1>19. q - 0 = q /\ q - q = 0 /\ 0 - 0 = 0 /\ q - 0 - 0 = q /\ q - 0 - q = 0 /\ q - q - 0 = 0
  BY <1>12
<1>20. \A t : (t \in Seq(S) => t \o <<>> = t /\ <<>> \o t = t)
  BY ConcatEmptySeq
<1>21. Body(d, e) = a \o b \o y \o z
  BY <1>2, <1>5, <1>14 DEF Body
<1>22. Len(Body(d, e)) = la + lb + e + n /\ Body(d, e) \in Seq(S)
  BY <1>1, <1>2, <1>5, <1>6, <1>10, BodyIs
<1>23. CASE Left(d)
  <2>1. ~ZeroPad(d)
    BY <1>23 DEF ZeroPad
  <2>2. Number(d) = <<>> \o a \o b \o <<>> \o y \o z \o x
    BY <1>2, <1>3, <1>5, <1>8, <1>9, <1>14, <1>16, <1>17, <1>19, <1>23, <2>1 DEF Number
  <2>3. <<>> \o a = a /\ a \o b \in Seq(S) /\ (a \o b) \o <<>> = a \o b
    BY <1>7, <1>20
  <2>4. Number(d) = Body(d, e) \o x
    BY <1>21, <2>2, <2>3
  <2>5. Body(d, e) \o x \in Seq(S) /\ Len(Body(d, e) \o x) = Len(Body(d, e)) + q
    BY <1>15, <1>22, ConcatProperties
  <2>6. NumberIs(d, Number(d), q, e)
    <3>1. q + Len(Body(d, e)) >= w /\ (q > 0 => q + Len(Body(d, e)) = w) /\ e + n >= p
      BY <1>7, <1>10, <1>12, <1>22
    <3>2. ~ e > AtLeast0(p - n)
      BY <1>10
    <3>3. Len(Number(d)) = q + Len(Body(d, e))
      BY <1>7, <1>10, <1>12, <1>22, <2>4, <2>5
    <3>4. QED
      BY <1>2, <1>3, <1>4, <1>10, <1>12, <1>14, <1>23, <2>4, <3>1, <3>2, <3>3 DEF NumberIs
  <2>7. QED
    BY <1>1, <1>10, <1>12, <2>4, <2>5, <2>6
<1>24. CASE ~Left(d) /\ ZeroPad(d)
  <2>1. PICK u, v : u = Rep("0", q) /\ v = q + e
    OBVIOUS
  <2>2. v \in Nat /\ u \in Seq(S) /\ u \o y = Rep("0", v)
    <3>1. v \in Nat /\ q \in Nat /\ e \in Nat
      BY <1>10, <1>12, <2>1
    <3>2. u \in Seq(S)
      BY <1>13, <2>1, <3>1, RepIs
    <3>3. Rep("0", q) \o Rep("0", e) = Rep("0", q + e)
      BY <3>1, RepMore
    <3>4. QED
      BY <1>14, <2>1, <3>1, <3>2, <3>3
  <2>3. Number(d) = <<>> \o a \o b \o u \o y \o z \o <<>>
    BY <1>2, <1>3, <1>5, <1>8, <1>9, <1>14, <1>16, <1>17, <1>19, <1>24, <2>1 DEF Number
  <2>4. PICK c : c = a \o b
    OBVIOUS
  <2>5. <<>> \o a = a /\ c \in Seq(S)
    BY <1>7, <1>20, <2>4
  <2>6. (c \o u) \o y = c \o (u \o y)
    <3>1. c \in Seq(S) /\ u \in Seq(S) /\ y \in Seq(S)
      BY <1>15, <2>2, <2>5
    <3>2. QED
      BY <3>1, ConcatAssociative
  <2>7. Body(d, v) = c \o (u \o y) \o z
    BY <1>2, <1>5, <1>14, <2>2, <2>4 DEF Body
  <2>8. Len(Body(d, v)) = la + lb + v + n /\ Body(d, v) \in Seq(S)
    BY <1>1, <1>2, <1>5, <1>6, <2>2, BodyIs
  <2>9. Number(d) = Body(d, v)
    <3>1. Number(d) = Body(d, v) \o <<>>
      BY <2>3, <2>4, <2>5, <2>6, <2>7
    <3>2. QED
      BY <1>20, <2>8, <3>1
  <2>10. PICK o \in Nat : o = 0
    OBVIOUS
  <2>11. NumberIs(d, Number(d), o, v)
    <3>0. PICK k : k = Len(Body(d, v))
      OBVIOUS
    <3>7. k = la + lb + v + n /\ v = q + e
      BY <2>1, <2>8, <3>0
    <3>8. k \in Nat /\ k >= w /\ v + n >= p /\ (v > e => k = w)
      <4>1. la \in Nat /\ lb \in Nat /\ e \in Nat /\ m \in Nat /\ m >= p /\ e + n = m
        BY <1>7, <1>10
      <4>2. k = q + la + lb + m /\ v + n = q + m
        BY <1>12, <3>7, <4>1
      <4>3. v > e => q > 0
        BY <1>12, <3>7, <4>1
      <4>4. QED
        BY <1>12, <4>1, <4>2, <4>3
    <3>1. o + Len(Body(d, v)) >= w /\ v + n >= p
      BY <2>10, <3>0, <3>8
    <3>2. v > AtLeast0(p - n) => Len(Number(d)) = w
      BY <1>10, <2>9, <3>0, <3>8
    <3>3. Len(Number(d)) = o + Len(Body(d, v))
      BY <1>7, <2>2, <2>8, <2>9, <2>10
    <3>4. Number(d) = Rep(" ", o) \o Body(d, v)
      BY <1>17, <1>20, <2>8, <2>9, <2>10
    <3>5. ~ o > 0
      BY <2>10
    <3>6. QED
      BY <1>2, <1>3, <1>4, <1>24, <2>2, <3>1, <3>2, <3>3, <3>4, <3>5 DEF NumberIs
  <2>12. QED
    BY <1>1, <2>2, <2>8, <2>9, <2>10, <2>11
<1>25. CASE ~Left(d) /\ ~ZeroPad(d)
  <2>1. Number(d) = x \o a \o b \o <<>> \o y \o z \o <<>>
    BY <1>2, <1>3, <1>5, <1>8, <1>9, <1>14, <1>16, <1>17, <1>19, <1>25 DEF Number
  <2>2. Number(d) = x \o Body(d, e)
    <3>1. x \o a \in Seq(S) /\ x \o a \o b \in Seq(S) /\ a \o b \in Seq(S) /\ a \o b \o y \in Seq(S)
      BY <1>7, <1>15
    <3>2. (x \o a \o b) \o <<>> = x \o a \o b
      BY <1>20, <3>1
    <3>3. (x \o a) \o b = x \o (a \o b)
      <4>1. x \in Seq(S) /\ a \in Seq(S) /\ b \in Seq(S)
        BY <1>7, <1>15
      <4>2. QED
        BY <4>1, ConcatAssociative
    <3>4. PICK g, h : g = a \o b /\ h = a \o b \o y
      OBVIOUS
    <3>5. (x \o g) \o y = x \o (g \o y) /\ (x \o h) \o z = x \o (h \o z)
      <4>1. g \in Seq(S) /\ h \in Seq(S) /\ x \in Seq(S) /\ y \in Seq(S) /\ z \in Seq(S)
        BY <1>15, <3>1, <3>4
      <4>2. (x \o g) \o y = x \o (g \o y)
        <5>1. x \in Seq(S) /\ g \in Seq(S) /\ y \in Seq(S)
          BY <4>1
        <5>2. QED
          BY <5>1, ConcatAssociative
      <4>3. (x \o h) \o z = x \o (h \o z)
        <5>1. x \in Seq(S) /\ h \in Seq(S) /\ z \in Seq(S)
          BY <4>1
        <5>2. QED
          BY <5>1, ConcatAssociative
      <4>4. QED
        BY <4>2, <4>3
    <3>6. Number(d) = (x \o Body(d, e)) \o <<>>
      BY <1>21, <2>1, <3>2, <3>3, <3>4, <3>5
    <3>7. x \o Body(d, e) \in Seq(S)
      BY <1>15, <1>22
    <3>8. QED
      BY <1>20, <3>6, <3>7
  <2>3. x \o Body(d, e) \in Seq(S) /\ Len(x \o Body(d, e)) = q + Len(Body(d, e))
    BY <1>15, <1>22, ConcatProperties
  <2>4. "ZEROPAD" \notin d.flags
    BY <1>25 DEF ZeroPad
  <2>5. NumberIs(d, Number(d), q, e)
    <3>1. q + Len(Body(d, e)) >= w /\ (q > 0 => q + Len(Body(d, e)) = w) /\ e + n >= p
      BY <1>7, <1>10, <1>12, <1>22
    <3>2. ~ e > AtLeast0(p - n)
      BY <1>10
    <3>3. QED
      BY <1>2, <1>3, <1>4, <1>10, <1>12, <1>14, <1>25, <2>2, <2>3, <2>4, <3>1, <3>2 DEF NumberIs
  <2>6. QED
    BY <1>1, <1>10, <1>12, <2>2, <2>3, <2>5
<1>26. QED
  BY <1>23, <1>24, <1>25

LEMMA TextIs1 ==
  ASSUME NEW d, NEW len \in Nat, Field(d) \in Int
  PROVE  String(d, len) \in Seq(Chars)
<1>1. PICK S : S = Chars
  OBVIOUS
<1>2. PICK q : q = AtLeast0(Field(d) - len)
  OBVIOUS
<1>3. q \in Nat
  BY <1>2 DEF AtLeast0
<1>4. " " \in S /\ "s" \in S
  BY <1>1 DEF Chars
<1>5. PICK a, b : a = Rep("s", len) /\ b = Rep(" ", q)
  OBVIOUS
<1>6. a \in Seq(S) /\ b \in Seq(S)
  BY <1>3, <1>4, <1>5, RepIs
<1>7. a \o b \in Seq(S) /\ b \o a \in Seq(S)
  BY <1>6
<1>8. String(d, len) = IF Left(d) THEN a \o b ELSE b \o a
  BY <1>2, <1>5 DEF String
<1>9. QED
  BY <1>1, <1>7, <1>8

LEMMA OutputIs ==
  ASSUME NEW d \in AnyDirective
  PROVE  Output(d) \in Seq(Chars)
<1>1. PICK S : S = Chars
  OBVIOUS
<1>2. /\ "s" \in S /\ "newline" \in S /\ "%" \in S
      /\ <<>> \in Seq(S) /\ <<"s">> \in Seq(S) /\ <<"newline">> \in Seq(S)
      /\ <<"%">> \in Seq(S) /\ <<"%", "s">> \in Seq(S)
  <2>1. "s" \in S /\ "newline" \in S /\ "%" \in S
    BY <1>1 DEF Chars
  <2>2. QED
    BY <2>1, ShortSeq
<1>3. Number(d) \in Seq(S)
  BY <1>1, NumberFits
<1>4. Pointer(d) \in Seq(S)
  <2>1. PICK e : e = [d EXCEPT !.conv = "x", !.width = IF @ = NoWidth THEN 8 ELSE @,
                        !.flags = IF d.width = NoWidth THEN @ \cup {"ZEROPAD"} ELSE @]
    OBVIOUS
  <2>2. e \in AnyDirective
    <3>1. PICK w : w = IF d.width = NoWidth THEN 8 ELSE d.width
      OBVIOUS
    <3>2. PICK g : g = IF d.width = NoWidth THEN d.flags \cup {"ZEROPAD"} ELSE d.flags
      OBVIOUS
    <3>3. PICK F : F = {"LEFT", "ZEROPAD", "PLUS", "SPACE", "SPECIAL"}
      OBVIOUS
    <3>4. PICK V : V = {"d", "u", "o", "x", "p", "s", "c", "n", "lit", "newline", "%", "end", "other"}
      OBVIOUS
    <3>5. PICK P : P = Nat \cup {NoWidth}
      OBVIOUS
    <3>6. AnyDirective
            = [conv : V, flags : SUBSET F, width : Int, prec : P, digits : Nat, neg : BOOLEAN]
      BY <3>3, <3>4, <3>5 DEF AnyDirective
    <3>7. "x" \in V /\ "ZEROPAD" \in F
      BY <3>3, <3>4
    <3>8. w \in Int /\ g \in SUBSET F
      BY <3>1, <3>2, <3>6, <3>7
    <3>9. e = [d EXCEPT !.conv = "x", !.width = w, !.flags = g]
      BY <2>1, <3>1, <3>2, <3>6
    <3>10. QED
      BY <3>6, <3>7, <3>8, <3>9
  <2>3. Pointer(d) = Number(e)
    BY <2>1 DEF Pointer
  <2>4. QED
    BY <1>1, <2>2, <2>3, NumberFits
<1>5. Field(d) \in Int /\ StrnLen(d) \in Nat /\ 1 \in Nat
  BY DEF AnyDirective, Field, NoWidth, StrnLen
<1>6. String(d, StrnLen(d)) \in Seq(S) /\ String(d, 1) \in Seq(S)
  <2>1. PICK l \in Nat, o \in Nat : l = StrnLen(d) /\ o = 1
    BY <1>5
  <2>2. String(d, l) \in Seq(S) /\ String(d, o) \in Seq(S)
    BY <1>1, <1>5, TextIs1
  <2>3. QED
    BY <2>1, <2>2
<1>7. d.conv \in {"d", "u", "o", "x", "p", "s", "c", "n", "lit", "newline", "%", "end", "other"}
  BY DEF AnyDirective
<1>8. Output(d) \in {Number(d), Pointer(d), String(d, StrnLen(d)), String(d, 1), <<>>,
                       <<"s">>, <<"newline">>, <<"%">>, <<"%", "s">>}
  BY <1>7 DEF Output
<1>9. QED
  BY <1>1, <1>2, <1>3, <1>4, <1>6, <1>8

(* What the directives of a format put out.                                  *)
Outs(f) == [k \in DOMAIN f |-> Output(f[k])]
All(f) == FlattenSeq(Outs(f))

LEMMA AllEmpty == All(<<>>) = <<>>
<1>1. PICK s : s = Outs(<<>>)
  OBVIOUS
<1>2. s = <<>>
  BY <1>1 DEF Outs
<1>3. FlattenSeq(<<>>) = <<>>
  BY DEF FlattenSeq
<1>4. QED
  BY <1>1, <1>2, <1>3 DEF All

LEMMA AllMore ==
  ASSUME NEW f \in Seq(AnyDirective), NEW d \in AnyDirective
  PROVE  All(f) \in Seq(Chars) /\ All(Append(f, d)) = All(f) \o Output(d)
<1>1. PICK S : S = Chars
  OBVIOUS
<1>2. PICK l \in Nat : l = Len(f)
  OBVIOUS
<1>3. PICK D : D = AnyDirective
  OBVIOUS
<1>4. PICK g : g = Append(f, d)
  OBVIOUS
<1>5. /\ DOMAIN f = 1 .. l /\ DOMAIN g = 1 .. l + 1 /\ g[l + 1] = d
      /\ \A k \in 1 .. l : g[k] = f[k] /\ f[k] \in D
  BY <1>2, <1>3, <1>4
<1>6. PICK s, t, x : s = Outs(f) /\ t = Outs(g) /\ x = Output(d)
  OBVIOUS
<1>7. PICK Z : Z = Seq(S)
  OBVIOUS
<1>8. x \in Z /\ \A k \in 1 .. l : Output(f[k]) \in Z
  BY <1>1, <1>3, <1>5, <1>6, <1>7, OutputIs
<1>9. s \in [1 .. l -> Z] /\ \A k \in 1 .. l : s[k] = Output(f[k])
  BY <1>5, <1>6, <1>8 DEF Outs
<1>10. s \in Seq(Z) /\ Len(s) = l
  BY <1>9, SeqDef
<1>11. t = Append(s, x)
  <2>1. t = [k \in 1 .. l + 1 |-> Output(g[k])]
    BY <1>5, <1>6 DEF Outs
  <2>2. \A k \in 1 .. l + 1 : Output(g[k]) = IF k = l + 1 THEN x ELSE s[k]
    <3>1. \A k \in 1 .. l + 1 : k # l + 1 => k \in 1 .. l
      OBVIOUS
    <3>2. QED
      BY <1>5, <1>6, <1>9, <3>1
  <2>3. t = [k \in 1 .. l + 1 |-> IF k = l + 1 THEN x ELSE s[k]]
    BY <2>1, <2>2
  <2>4. PICK u : u = Append(s, x)
    OBVIOUS
  <2>5. u \in Seq(Z) /\ Len(u) = l + 1 /\ u[l + 1] = x /\ \A k \in 1 .. l : u[k] = s[k]
    BY <1>8, <1>10, <2>4
  <2>6. t \in Seq(Z) /\ Len(t) = l + 1
    <3>1. t \in [1 .. l + 1 -> Z]
      <4>1. \A k \in 1 .. l + 1 : (IF k = l + 1 THEN x ELSE s[k]) \in Z
        BY <1>8, <1>9
      <4>2. QED
        BY <2>3, <4>1
    <3>2. QED
      BY <3>1, SeqDef
  <2>7. \A k \in 1 .. Len(t) : t[k] = u[k]
    <3>1. \A k \in 1 .. l + 1 : k # l + 1 => k \in 1 .. l
      OBVIOUS
    <3>2. \A k \in 1 .. l + 1 : t[k] = IF k = l + 1 THEN x ELSE s[k]
      BY <2>3
    <3>3. QED
      BY <2>5, <2>6, <3>1, <3>2
  <2>8. t = u
    <3>1. Len(t) = Len(u)
      BY <2>5, <2>6
    <3>2. QED
      BY <2>5, <2>6, <2>7, <3>1, SeqEqual
  <2>9. QED
    BY <2>4, <2>8
<1>12. s \in Seq(Seq(S)) /\ x \in Seq(S)
  BY <1>7, <1>8, <1>10
<1>13. FlattenSeq(s) \in Seq(S) /\ FlattenSeq(Append(s, x)) = FlattenSeq(s) \o x
  BY <1>12, FlattenAppend
<1>14. QED
  BY <1>1, <1>4, <1>6, <1>11, <1>13 DEF All

LEMMA AllIs ==
  ASSUME NEW f \in Seq(AnyDirective)
  PROVE  All(f) \in Seq(Chars)
<1>1. PICK d : d = [conv |-> "n", flags |-> {}, width |-> 0, prec |-> 0, digits |-> 0, neg |-> FALSE]
  OBVIOUS
<1>2. d \in AnyDirective
  BY <1>1 DEF AnyDirective
<1>3. QED
  BY <1>2, AllMore

-----------------------------------------------------------------------------
(* The screen: the flush stores into its first cell only.                    *)
OnlyFirst(v) ==
  v \in [0 .. T!Screen - 1 -> {"blank", "other"}] /\ \A c \in DOMAIN v \ {0} : v[c] = "blank"

(* The terminal: the flush's index is never the end of the ring, so that     *)
(* nothing is put where a newline has put the position there.                *)
ScreenKept ==
  /\ OnlyFirst(vga)
  /\ pos \in 0 .. Ring /\ base \in Int /\ base < Ring /\ turn \in Int /\ turn < Ring
  /\ lap \in Nat /\ ring \in [0 .. Ring - 1 -> Int]
  /\ at = "idle" => pos < Ring
  /\ RingInOrder

(* vsnprintf: what it has stored, while it runs and after it has returned.   *)
StoredRunning ==
  \A a \in Buf .. Top :
    memory[a] = IF a < str /\ a <= End(size) THEN All(format)[a - Buf + 1] ELSE "free"
StoredAtEnd ==
  \A a \in Buf .. Top :
    LET n == IF ret < size THEN ret ELSE size - 1
    IN  memory[a] = IF a < Buf + n THEN All(format)[a - Buf + 1]
                    ELSE IF a = Buf + n THEN "NUL" ELSE "free"
BufferKept ==
  /\ size \in Nat /\ ret \in Int /\ format \in Seq(AnyDirective)
  /\ memory = [a \in Buf .. Top |-> memory[a]]
  /\ str = Buf + Len(All(format)) /\ str <= Top
  /\ IF ret = -1 THEN StoredRunning ELSE ret = Len(All(format)) /\ StoredAtEnd

(* What has been shown, each character in the cell its predecessor left.     *)
AnyShown == [byte : Chars \cup {"free", "NUL"}, cell : Int]
Leaves(x, c) ==
  x.byte # "free" => c = IF x.byte = "newline" THEN T!RowEnd(x.cell) ELSE (x.cell + 1) % Ring
ShownKept ==
  /\ shown \in Seq(AnyShown)
  /\ IF Prints THEN Len(shown) <= ret ELSE shown = <<>>
  /\ \A k \in 1 .. Len(shown) : shown[k].byte = Byte(k)
  /\ \A k \in 2 .. Len(shown) : Leaves(shown[k - 1], shown[k].cell)
  /\ shown # <<>> => Leaves(shown[Len(shown)], pos)

KeyKept ==
  caller = "kbd" =>
    \E code \in ScanCode : codeToChar(code) # NUL /\ key = <<code, codeToChar(code)>>

ConsoleInv == ScreenKept /\ BufferKept /\ ShownKept /\ KeyKept

LEMMA ScreenNumbers ==
  /\ Width \in Nat \ {0} /\ Ring \in Nat /\ Ring > 1 /\ T!Screen \in Nat \ {0}
         /\ \E q \in Nat : Ring = q * Width
<1>1. /\ Width \in Nat \ {0} /\ Height \in Nat \ {0} /\ Ring \in Nat
      /\ (Ring % Width) = 0 /\ Ring > Width * Height
  BY ConsoleAssumption
<1>2. Width * Height \in Nat \ {0}
  BY <1>1
<1>3. PICK q, r : q = Ring \div Width /\ r = (Ring % Width)
  OBVIOUS
<1>4. Ring = Width * q + r /\ q \in Int /\ r = 0
  BY <1>1, <1>3
<1>5. q \in Nat
  <2>1. SUFFICES ASSUME q < 0 PROVE FALSE
    BY <1>4
  <2>2. Width * q < 0
    BY <1>1, <1>4, <2>1
  <2>3. QED
    BY <1>1, <1>4, <2>2
<1>6. Ring = q * Width
  BY <1>1, <1>4, <1>5
<1>7. QED
  BY <1>1, <1>2, <1>5, <1>6 DEF T!Screen

LEMMA RowEndIs ==
  ASSUME NEW p \in 0 .. Ring
  PROVE  T!RowEnd(p) \in p .. Ring
<1>1. PICK w \in Nat \ {0}, n \in Nat : w = Width /\ n = Ring
  BY ScreenNumbers
<1>2. PICK q \in Nat : n = q * w
  BY <1>1, ScreenNumbers
<1>3. p \in Nat /\ p <= n
  BY <1>1
<1>4. PICK m : m = p + w - 1
  OBVIOUS
<1>5. PICK d, r : d = m \div w /\ r = (m % w)
  OBVIOUS
<1>6. m \in Nat /\ d \in Int /\ r \in Nat /\ r < w /\ m = w * d + r
  BY <1>3, <1>4, <1>5
<1>7. PICK t : t = w * d
  OBVIOUS
<1>8. t \in Int /\ p <= t /\ t <= m
  BY <1>3, <1>4, <1>6, <1>7
<1>9. d <= q
  <2>1. SUFFICES ASSUME q + 1 <= d PROVE FALSE
    BY <1>6
  <2>2. w * (q + 1) <= w * d
    BY <1>6, <2>1
  <2>3. w * (q + 1) = n + w
    BY <1>2
  <2>4. n + w <= t
    BY <1>7, <2>2, <2>3
  <2>5. QED
    BY <1>3, <1>4, <1>8, <2>4
<1>10. t <= n
  <2>1. w * d <= w * q
    BY <1>6, <1>9
  <2>2. w * q = n
    BY <1>2
  <2>3. QED
    BY <1>7, <2>1, <2>2
<1>11. T!RowEnd(p) = t
  <2>1. T!RowEnd(p) = d * w
    BY <1>1, <1>4, <1>5 DEF T!RowEnd
  <2>2. d * w = w * d
    BY <1>6
  <2>3. QED
    BY <1>7, <2>1, <2>2
<1>12. QED
  BY <1>1, <1>3, <1>8, <1>10, <1>11

LEMMA FollowIs ==
  ASSUME NEW p \in 0 .. Ring, base \in Int, base < Ring, T!Follow(p)
  PROVE  base' \in Int /\ base' < Ring /\ turn' = base' /\ at' = "flush"
<1>1. PICK s \in Nat \ {0} : s = T!Screen
  BY ScreenNumbers
<1>2. Ring \in Nat
  BY ScreenNumbers
<1>3. (base' = base \/ base' = p - s) /\ turn' = base' /\ at' = "flush"
  BY <1>1 DEF T!Follow
<1>4. QED
  BY <1>2, <1>3

LEMMA PutScreen ==
  ASSUME ScreenKept, T!Put
  PROVE  ScreenKept'
<1>1. Ring \in Nat /\ Ring > 1
  BY ScreenNumbers
<1>2. /\ pos \in 0 .. Ring - 1 /\ lap \in Nat /\ ring \in [0 .. Ring - 1 -> Int]
      /\ base \in Int /\ base < Ring
      /\ \A c \in 0 .. Ring - 1 : ring[c] = IF c < pos THEN lap ELSE lap - 1
  BY <1>1 DEF ScreenKept, T!Put, RingInOrder, T!RingInOrder
<1>3. /\ ring' = [ring EXCEPT ![pos] = lap] /\ pos' = (pos + 1) % Ring
      /\ lap' = IF pos' = 0 THEN lap + 1 ELSE lap
      /\ T!Follow(pos')
  BY DEF T!Put
<1>4. pos' = IF pos = Ring - 1 THEN 0 ELSE pos + 1
  BY <1>1, <1>2, <1>3
<1>5. pos' \in 0 .. Ring
  BY <1>1, <1>2, <1>4
<1>6. base' \in Int /\ base' < Ring /\ turn' = base' /\ at' = "flush"
  <2>1. PICK p \in 0 .. Ring : p = pos'
    BY <1>5
  <2>2. QED
    BY <1>2, <1>3, <2>1, FollowIs
<1>7. \A c \in 0 .. Ring - 1 : ring'[c] = IF c = pos THEN lap ELSE ring[c]
  BY <1>2, <1>3
<1>8. \A c \in 0 .. Ring - 1 : ring'[c] = IF c < pos' THEN lap' ELSE lap' - 1
  <2>1. CASE pos = Ring - 1
    BY <1>1, <1>2, <1>3, <1>4, <1>7, <2>1
  <2>2. CASE pos # Ring - 1
    BY <1>1, <1>2, <1>3, <1>4, <1>7, <2>2
  <2>3. QED
    BY <2>1, <2>2
<1>9. ring' \in [0 .. Ring - 1 -> Int] /\ lap' \in Nat
  BY <1>2, <1>3
<1>10. OnlyFirst(vga)'
  BY DEF ScreenKept, OnlyFirst, T!Screen, T!Put
<1>11. QED
  BY <1>5, <1>6, <1>8, <1>9, <1>10 DEF ScreenKept, RingInOrder, T!RingInOrder

LEMMA NewlineScreen ==
  ASSUME ScreenKept, T!Newline
  PROVE  ScreenKept'
<1>1. Ring \in Nat /\ Ring > 1
  BY ScreenNumbers
<1>2. /\ pos \in 0 .. Ring - 1 /\ lap \in Nat /\ ring \in [0 .. Ring - 1 -> Int]
      /\ base \in Int /\ base < Ring
      /\ \A c \in 0 .. Ring - 1 : ring[c] = IF c < pos THEN lap ELSE lap - 1
  BY <1>1 DEF ScreenKept, T!Newline, RingInOrder, T!RingInOrder
<1>3. PICK e : e = T!RowEnd(pos)
  OBVIOUS
<1>4. e \in 0 .. Ring /\ e >= pos
  BY <1>1, <1>2, <1>3, RowEndIs
<1>5. /\ ring' = [c \in 0 .. Ring - 1 |-> IF pos <= c /\ c < e THEN lap ELSE ring[c]]
      /\ pos' = e /\ lap' = lap /\ T!Follow(e)
  <2>1. pos' = e /\ T!Follow(pos')
    BY <1>3 DEF T!Newline
  <2>2. T!Follow(e)
    BY <2>1
  <2>3. QED
    BY <1>3, <2>1, <2>2 DEF T!Newline
<1>6. base' \in Int /\ base' < Ring /\ turn' = base' /\ at' = "flush"
  BY <1>2, <1>4, <1>5, FollowIs
<1>7. \A c \in 0 .. Ring - 1 : ring'[c] = IF c < pos' THEN lap' ELSE lap' - 1
  BY <1>1, <1>2, <1>4, <1>5
<1>8. ring' \in [0 .. Ring - 1 -> Int]
  BY <1>2, <1>5
<1>9. OnlyFirst(vga)'
  BY DEF ScreenKept, OnlyFirst, T!Screen, T!Newline
<1>10. QED
  BY <1>2, <1>4, <1>5, <1>6, <1>7, <1>8, <1>9 DEF ScreenKept, RingInOrder, T!RingInOrder

LEMMA FlushScreen ==
  ASSUME ScreenKept, T!Flush
  PROVE  ScreenKept' /\ pos' = pos
<1>1. Ring \in Nat /\ Ring > 1
  BY ScreenNumbers
<1>2. pos' = pos /\ base' = base /\ ring' = ring /\ lap' = lap
  BY DEF T!Flush, T!Turn, T!Done
<1>3. RingInOrder'
  BY <1>2 DEF ScreenKept, RingInOrder, T!RingInOrder
<1>4. turn' \in Int /\ turn' < Ring /\ (at' = "idle" => pos < Ring)
  <2>1. CASE T!Turn
    <3>1. PICK n : n = turn + 1
      OBVIOUS
    <3>2. n \in Int /\ turn' = (IF n < 0 THEN n ELSE (n % Ring)) /\ at' = "flush"
      BY <2>1, <3>1 DEF T!Turn, ScreenKept
    <3>3. (n % Ring) \in Int /\ (n % Ring) < Ring
      BY <1>1, <3>2
    <3>4. QED
      BY <1>1, <3>2, <3>3
  <2>2. CASE T!Done
    BY <1>1, <2>2 DEF T!Done, ScreenKept
  <2>3. QED
    BY <2>1, <2>2 DEF T!Flush
<1>5. OnlyFirst(vga)'
  <2>1. OnlyFirst(vga) /\ T!Screen \in Nat \ {0}
    BY ScreenNumbers DEF ScreenKept
  <2>2. CASE T!Turn
    BY <2>1, <2>2 DEF OnlyFirst, T!Turn, T!Store, T!Screen
  <2>3. CASE T!Done
    BY <2>1, <2>3 DEF OnlyFirst, T!Done, T!Screen
  <2>4. QED
    BY <2>2, <2>3 DEF T!Flush
<1>6. QED
  BY <1>2, <1>3, <1>4, <1>5 DEF ScreenKept

LEMMA ScreenStarts ==
  ASSUME T!Init
  PROVE  ScreenKept
<1>1. Ring \in Nat /\ Ring > 1
  BY ScreenNumbers
<1>2. QED
  BY <1>1 DEF T!Init, ScreenKept, RingInOrder, T!RingInOrder, OnlyFirst

LEMMA ScreenStartsAgain ==
  ASSUME ScreenKept, T!Initialize
  PROVE  ScreenKept'
<1>1. Ring \in Nat /\ Ring > 1
  BY ScreenNumbers
<1>2. /\ pos' = 0 /\ base' = 0 /\ lap' = 1 /\ turn' = turn
      /\ ring' = [c \in 0 .. Ring - 1 |-> 0]
  BY DEF T!Initialize
<1>3. RingInOrder'
  BY <1>2 DEF RingInOrder, T!RingInOrder
<1>4. ring' \in [0 .. Ring - 1 -> Int]
  BY <1>2
<1>5. OnlyFirst(vga)'
  BY DEF T!Initialize, OnlyFirst, T!Screen
<1>6. QED
  BY <1>1, <1>2, <1>3, <1>4, <1>5 DEF ScreenKept

LEMMA ScreenSame ==
  ASSUME ScreenKept, UNCHANGED screen
  PROVE  ScreenKept'
BY DEF screen, ScreenKept, OnlyFirst, T!Screen, RingInOrder, T!RingInOrder

-----------------------------------------------------------------------------
LEMMA CallBuffer ==
  ASSUME NEW s \in Nat, Call(s)
  PROVE  BufferKept' /\ ret' = -1 /\ shown' = <<>> /\ UNCHANGED screen
<1>1. Buf \in Nat /\ Top \in Nat /\ Buf >= 1 /\ Buf <= Top
  BY FormatAssumption
<1>2. /\ size' = Room(s) /\ format' = <<>> /\ memory' = [a \in Buf .. Top |-> "free"]
      /\ str' = Buf /\ ret' = -1
  BY DEF Call
<1>3. size' \in Nat
  BY <1>1, <1>2 DEF Room
<1>4. All(format') = <<>> /\ Len(All(format')) = 0
  BY <1>2, AllEmpty
<1>5. format' \in Seq(AnyDirective)
  <2>1. PICK D : D = AnyDirective
    OBVIOUS
  <2>2. format' \in Seq(D)
    BY <1>2
  <2>3. QED
    BY <2>1, <2>2
<1>6. StoredRunning'
  BY <1>1, <1>2 DEF StoredRunning
<1>7. memory' = [a \in Buf .. Top |-> memory'[a]]
  BY <1>2
<1>8. str' = Buf + Len(All(format')) /\ str' <= Top
  BY <1>1, <1>2, <1>4
<1>9. All(format)' = All(format')
  BY DEF All, Outs
<1>10. BufferKept'
  BY <1>2, <1>3, <1>5, <1>6, <1>7, <1>8, <1>9 DEF BufferKept
<1>11. QED
  BY <1>2, <1>10 DEF Call

LEMMA ConvertBuffer ==
  ASSUME BufferKept, NEW d \in AnyDirective, Convert(d)
  PROVE  BufferKept' /\ ret' = ret /\ ret = -1
<1>1. Buf \in Nat /\ Top \in Nat /\ Buf >= 1 /\ Buf <= Top
  BY FormatAssumption
<1>2. PICK o : o = Output(d)
  OBVIOUS
<1>3. /\ ret = -1 /\ str + Len(o) <= Top /\ format' = Append(format, d)
      /\ str' = str + Len(o) /\ size' = size /\ ret' = ret
      /\ memory' = [a \in Buf .. Top |->
           IF str <= a /\ a < str + Len(o) /\ a <= End(size) THEN o[a - str + 1] ELSE memory[a]]
  BY <1>2 DEF Convert, Store
<1>4. PICK S : S = Chars
  OBVIOUS
<1>5. PICK t, u : t = All(format) /\ u = All(format')
  OBVIOUS
<1>6. format \in Seq(AnyDirective) /\ size \in Nat /\ ret \in Int
  BY DEF BufferKept
<1>7. t \in Seq(S) /\ o \in Seq(S) /\ u = t \o o
  BY <1>2, <1>3, <1>4, <1>5, <1>6, AllMore, OutputIs
<1>8. PICK m \in Nat, n \in Nat : m = Len(t) /\ n = Len(o)
  BY <1>7
<1>9. Len(u) = m + n /\ \A k \in 1 .. m + n : u[k] = IF k <= m THEN t[k] ELSE o[k - m]
  BY <1>7, <1>8, ConcatProperties
<1>10. str = Buf + m /\ StoredRunning
  BY <1>3, <1>5, <1>8 DEF BufferKept
<1>11. format' \in Seq(AnyDirective)
  <2>1. PICK D : D = AnyDirective
    OBVIOUS
  <2>2. format' \in Seq(D)
    BY <1>3, <1>6, <2>1
  <2>3. QED
    BY <2>1, <2>2
<1>12. ASSUME NEW a \in Buf .. Top
       PROVE  memory'[a] = IF a < str' /\ a <= End(size) THEN u[a - Buf + 1] ELSE "free"
  <2>1. memory[a] = IF a < str /\ a <= End(size) THEN t[a - Buf + 1] ELSE "free"
    BY <1>5, <1>10 DEF StoredRunning
  <2>2. PICK k : k = a - Buf + 1
    OBVIOUS
  <2>3. a \in Int /\ k \in Int /\ k >= 1 /\ a - str + 1 = k - m
    BY <1>1, <1>10, <2>2
  <2>4. memory'[a] = IF str <= a /\ a < str + n /\ a <= End(size) THEN o[k - m] ELSE memory[a]
    BY <1>3, <1>8, <2>3
  <2>5. str \in Int /\ str' = str + n /\ End(size) \in Int
    BY <1>1, <1>3, <1>6, <1>8, <1>10 DEF End
  <2>6. CASE a < str
    <3>1. k \in 1 .. m + n /\ k <= m
      BY <1>1, <1>10, <2>2, <2>3, <2>6
    <3>2. u[k] = t[k]
      BY <1>9, <3>1
    <3>3. QED
      BY <2>1, <2>2, <2>3, <2>4, <2>5, <2>6, <3>2
  <2>7. CASE str <= a /\ a < str + n
    <3>1. k \in 1 .. m + n /\ ~ k <= m
      BY <1>1, <1>10, <2>2, <2>3, <2>7
    <3>2. u[k] = o[k - m]
      BY <1>9, <3>1
    <3>3. QED
      BY <2>1, <2>2, <2>3, <2>4, <2>5, <2>7, <3>2
  <2>8. CASE str + n <= a
    BY <2>1, <2>3, <2>4, <2>5, <2>8
  <2>9. QED
    BY <2>3, <2>5, <2>6, <2>7, <2>8
<1>13. StoredRunning'
  BY <1>3, <1>5, <1>12 DEF StoredRunning, All, Outs, End
<1>14. memory' = [a \in Buf .. Top |-> memory'[a]]
  BY <1>3
<1>15. str' = Buf + Len(All(format')) /\ str' <= Top
  BY <1>1, <1>3, <1>5, <1>8, <1>9, <1>10
<1>16. All(format)' = All(format')
  BY DEF All, Outs
<1>17. QED
  BY <1>3, <1>6, <1>11, <1>13, <1>14, <1>15, <1>16 DEF BufferKept

LEMMA FinishBuffer ==
  ASSUME BufferKept, Finish
  PROVE  BufferKept' /\ ret = -1 /\ ret' >= 0
<1>1. Buf \in Nat /\ Top \in Nat /\ Buf >= 1 /\ Buf <= Top
  BY FormatAssumption
<1>2. /\ ret = -1 /\ ret' = str - Buf /\ size' = size /\ format' = format /\ str' = str
      /\ memory' = IF str <= End(size) THEN [memory EXCEPT ![str] = "NUL"]
                   ELSE IF size > 0 THEN [memory EXCEPT ![End(size)] = "NUL"] ELSE memory
  BY DEF Finish
<1>3. PICK S : S = Chars
  OBVIOUS
<1>4. PICK t : t = All(format)
  OBVIOUS
<1>5. /\ format \in Seq(AnyDirective) /\ size \in Nat /\ str = Buf + Len(t) /\ str <= Top
      /\ StoredRunning
  BY <1>2, <1>4 DEF BufferKept
<1>6. Len(t) \in Nat
  <2>1. t \in Seq(S)
    BY <1>3, <1>4, <1>5, AllIs
  <2>2. QED
    BY <2>1
<1>7. PICK m \in Nat : m = Len(t)
  BY <1>6
<1>8. PICK e \in Int : e = End(size) /\ e = Buf + size - 1
  BY <1>1, <1>5 DEF End
<1>9. ret' = m /\ str = Buf + m
  BY <1>1, <1>2, <1>5, <1>7
<1>10. PICK I : I = Buf .. Top
  OBVIOUS
<1>11. memory = [a \in I |-> memory[a]]
  BY <1>10 DEF BufferKept
<1>12. memory' = [a \in I |-> memory'[a]]
  BY <1>2, <1>11
<1>13. PICK n : n = IF m < size THEN m ELSE size - 1
  OBVIOUS
<1>14. ASSUME NEW a \in I
       PROVE  memory'[a] = IF a < Buf + n THEN t[a - Buf + 1]
                           ELSE IF a = Buf + n THEN "NUL" ELSE "free"
  <2>1. a \in Int /\ a >= Buf /\ a <= Top
    BY <1>1, <1>10
  <2>2. memory[a] = IF a < str /\ a <= e THEN t[a - Buf + 1] ELSE "free"
    BY <1>4, <1>5, <1>8, <1>10 DEF StoredRunning
  <2>3. CASE str <= e
    <3>1. n = m /\ Buf + n = str
      BY <1>1, <1>5, <1>8, <1>9, <1>13, <2>3
    <3>2. memory'[a] = IF a = str THEN "NUL" ELSE memory[a]
      BY <1>2, <1>8, <1>11, <2>3
    <3>3. QED
      BY <1>1, <1>5, <1>8, <1>9, <2>1, <2>2, <2>3, <3>1, <3>2
  <2>4. CASE ~ str <= e /\ size > 0
    <3>1. n = size - 1 /\ Buf + n = e
      BY <1>1, <1>5, <1>8, <1>9, <1>13, <2>4
    <3>2. memory'[a] = IF a = e THEN "NUL" ELSE memory[a]
      BY <1>2, <1>8, <1>11, <2>4
    <3>3. QED
      BY <1>1, <1>5, <1>8, <1>9, <2>1, <2>2, <2>4, <3>1, <3>2
  <2>5. CASE ~ str <= e /\ ~ size > 0
    <3>1. size = 0 /\ n = -1 /\ e = Buf - 1
      BY <1>1, <1>5, <1>8, <1>13, <2>5
    <3>2. memory'[a] = memory[a] /\ ~ a < Buf + n /\ a # Buf + n /\ ~ a <= e
      BY <1>1, <1>2, <1>8, <2>1, <2>5, <3>1
    <3>3. QED
      BY <2>2, <3>2
  <2>6. QED
    BY <2>3, <2>4, <2>5
<1>15. All(format)' = t
  BY <1>2, <1>4 DEF All, Outs
<1>16. StoredAtEnd'
  <2>1. n = IF ret' < size' THEN ret' ELSE size' - 1
    BY <1>2, <1>9, <1>13
  <2>2. QED
    BY <1>10, <1>14, <1>15, <2>1 DEF StoredAtEnd
<1>17. ret' # -1 /\ ret' \in Int /\ ret' >= 0
  BY <1>9
<1>18. QED
  BY <1>2, <1>5, <1>7, <1>9, <1>10, <1>12, <1>15, <1>16, <1>17 DEF BufferKept

LEMMA BufferSame ==
  ASSUME BufferKept, UNCHANGED vsn
  PROVE  BufferKept'
<1>1. size' = size /\ format' = format /\ memory' = memory /\ str' = str /\ ret' = ret
  BY DEF vsn
<1>2. All(format)' = All(format)
  BY <1>1 DEF All, Outs
<1>3. End(size)' = End(size)
  BY <1>1 DEF End
<1>4. QED
  BY <1>1, <1>2, <1>3 DEF BufferKept, StoredRunning, StoredAtEnd, AnyDirective, NoWidth

LEMMA ShownNothing ==
  ASSUME shown' = <<>>, Prints' => ret' >= 0
  PROVE  ShownKept'
<1>1. PICK S : S = AnyShown
  OBVIOUS
<1>2. shown' \in Seq(S) /\ Len(shown') = 0
  OBVIOUS
<1>3. \A k \in 1 .. Len(shown') : FALSE
  BY <1>2
<1>4. \A k \in 2 .. Len(shown') : FALSE
  BY <1>2
<1>5. shown' \in Seq(AnyShown)
  BY <1>1, <1>2
<1>6. IF Prints' THEN Len(shown') <= ret' ELSE shown' = <<>>
  BY <1>2
<1>7. QED
  BY <1>3, <1>4, <1>5, <1>6 DEF ShownKept, AnyShown, Chars

(* Nothing more is known of a byte than where it is.                         *)
LEMMA ByteIs ==
  ASSUME BufferKept, ret # -1, NEW n \in Nat, n < ret
  PROVE  Byte(n + 1) \in Chars \cup {"free", "NUL"}
<1>1. Buf \in Nat /\ Top \in Nat /\ Buf >= 1 /\ Buf <= Top
  BY FormatAssumption
<1>2. PICK t : t = All(format)
  OBVIOUS
<1>3. /\ format \in Seq(AnyDirective) /\ size \in Nat /\ str = Buf + Len(t) /\ str <= Top
      /\ ret = Len(t) /\ ret \in Int /\ StoredAtEnd
  BY <1>2 DEF BufferKept
<1>4. PICK a : a = Buf + n
  OBVIOUS
<1>5. a \in Buf .. Top /\ Byte(n + 1) = memory[a]
  BY <1>1, <1>3, <1>4 DEF Byte
<1>6. PICK S : S = Chars
  OBVIOUS
<1>7. t \in Seq(S)
  BY <1>2, <1>3, <1>6, AllIs
<1>8. t[n + 1] \in S
  BY <1>3, <1>7
<1>9. a - Buf + 1 = n + 1
  BY <1>1, <1>4
<1>10. memory[a] = t[n + 1] \/ memory[a] = "NUL" \/ memory[a] = "free"
  BY <1>2, <1>3, <1>5, <1>9 DEF StoredAtEnd
<1>11. QED
  BY <1>5, <1>6, <1>8, <1>10

LEMMA PutcharShown ==
  ASSUME ScreenKept, BufferKept, ShownKept, Putchar
  PROVE  ShownKept' /\ ScreenKept'
<1>1. PICK b : b = Byte(Len(shown) + 1)
  OBVIOUS
<1>2. /\ Prints /\ Len(shown) < ret /\ shown' = Append(shown, [byte |-> b, cell |-> pos])
      /\ (b # "newline" /\ T!Put) \/ (b \in {"newline", "free"} /\ T!Newline)
      /\ ret' = ret /\ caller' = caller /\ memory' = memory
  BY <1>1 DEF Putchar, vsn
<1>3. PICK S : S = AnyShown
  OBVIOUS
<1>4. PICK n \in Nat : n = Len(shown)
  <2>1. shown \in Seq(S)
    BY <1>3 DEF ShownKept
  <2>2. QED
    BY <2>1
<1>5. PICK x : x = [byte |-> b, cell |-> pos]
  OBVIOUS
<1>6. ret # -1 /\ ret \in Int /\ Prints' = Prints
  BY <1>2 DEF Prints, BufferKept
<1>7. x.byte = b /\ x.cell = pos /\ x \in S
  <2>1. b \in Chars \cup {"free", "NUL"}
    BY <1>1, <1>2, <1>4, <1>6, ByteIs
  <2>2. pos \in Int
    BY DEF ScreenKept
  <2>3. QED
    BY <1>3, <1>5, <2>1, <2>2 DEF AnyShown
<1>8. /\ shown' \in Seq(S) /\ Len(shown') = n + 1 /\ shown'[n + 1] = x
      /\ \A k \in 1 .. n : shown'[k] = shown[k]
  <2>1. shown \in Seq(S) /\ shown' = Append(shown, x)
    BY <1>2, <1>3, <1>5 DEF ShownKept
  <2>2. QED
    BY <1>4, <1>7, <2>1
<1>9. Leaves(x, pos')
  <2>1. CASE T!Put /\ b # "newline"
    BY <1>7, <2>1 DEF Leaves, T!Put
  <2>2. CASE T!Newline /\ b \in {"newline", "free"}
    BY <1>7, <2>2 DEF Leaves, T!Newline
  <2>3. QED
    BY <1>2, <2>1, <2>2
<1>10. \A k \in 1 .. n + 1 : shown'[k].byte = Byte(k)'
  <2>1. \A k : Byte(k)' = Byte(k)
    BY <1>2 DEF Byte
  <2>2. \A k \in 1 .. n : shown[k].byte = Byte(k)
    BY <1>4 DEF ShownKept
  <2>3. \A k \in 1 .. n + 1 : k # n + 1 => k \in 1 .. n
    OBVIOUS
  <2>4. shown'[n + 1].byte = Byte(n + 1)
    BY <1>1, <1>4, <1>7, <1>8
  <2>5. QED
    BY <1>8, <2>1, <2>2, <2>3, <2>4
<1>11. ASSUME NEW k \in 2 .. n + 1
       PROVE  Leaves(shown'[k - 1], shown'[k].cell)
  <2>1. k - 1 \in 1 .. n
    OBVIOUS
  <2>2. shown'[k - 1] = shown[k - 1]
    BY <1>8, <2>1
  <2>3. CASE k = n + 1
    <3>1. n # 0 /\ k - 1 = n
      BY <2>1, <2>3
    <3>2. shown # <<>>
      BY <1>4, <3>1
    <3>3. Leaves(shown[n], pos)
      BY <1>4, <3>2 DEF ShownKept
    <3>4. shown'[k].cell = pos
      BY <1>7, <1>8, <2>3
    <3>5. QED
      BY <2>2, <3>1, <3>3, <3>4
  <2>4. CASE k # n + 1
    <3>1. k \in 2 .. n /\ k \in 1 .. n
      BY <2>4
    <3>2. shown'[k] = shown[k]
      BY <1>8, <3>1
    <3>3. QED
      BY <1>4, <2>2, <3>1, <3>2 DEF ShownKept
  <2>5. QED
    BY <2>3, <2>4
<1>12. shown'[Len(shown')] = x /\ Len(shown') <= ret'
  BY <1>2, <1>4, <1>6, <1>8
<1>13. ShownKept'
  <2>1. shown' \in Seq(AnyShown)
    BY <1>3, <1>8
  <2>2. IF Prints' THEN Len(shown') <= ret' ELSE shown' = <<>>
    BY <1>2, <1>6, <1>12
  <2>3. Leaves(shown'[Len(shown')], pos')
    BY <1>9, <1>12
  <2>4. \A k \in 1 .. Len(shown') : shown'[k].byte = Byte(k)'
    BY <1>8, <1>10
  <2>5. \A k \in 2 .. Len(shown') : Leaves(shown'[k - 1], shown'[k].cell)
    BY <1>8, <1>11
  <2>6. QED
    BY <2>1, <2>2, <2>3, <2>4, <2>5 DEF ShownKept, Leaves, T!RowEnd, AnyShown, Chars
<1>14. ScreenKept'
  BY <1>2, PutScreen, NewlineScreen
<1>15. QED
  BY <1>13, <1>14

LEMMA ShownSame ==
  ASSUME ShownKept, shown' = shown, pos' = pos, ret' = ret, memory' = memory, Prints' = Prints
  PROVE  ShownKept'
<1>1. \A k : Byte(k)' = Byte(k)
  BY DEF Byte
<1>2. QED
  BY <1>1 DEF ShownKept, Leaves, T!RowEnd, AnyShown, Chars

LEMMA KeySame ==
  ASSUME KeyKept, caller' = caller, key' = key
  PROVE  KeyKept'
BY DEF KeyKept, ScanCode, NUL

LEMMA KeyNone ==
  ASSUME caller' # "kbd"
  PROVE  KeyKept'
BY DEF KeyKept

-----------------------------------------------------------------------------
LEMMA ConsoleInitInv ==
  ASSUME ConsoleInit
  PROVE  ConsoleInv
<1>1. ScreenKept
  BY ScreenStarts DEF ConsoleInit
<1>2. Buf \in Nat /\ Top \in Nat /\ Buf >= 1 /\ Buf <= Top /\ TmpBuf \in Nat
  BY FormatAssumption, ConsoleAssumption
<1>3. /\ size = Room(TmpBuf) /\ format = <<>> /\ str = Buf /\ ret = -1
      /\ memory = [a \in Buf .. Top |-> "free"] /\ shown = <<>> /\ caller = "main"
  BY DEF ConsoleInit
<1>4. size \in Nat
  BY <1>2, <1>3 DEF Room
<1>5. All(format) = <<>> /\ Len(All(format)) = 0
  BY <1>3, AllEmpty
<1>6. format \in Seq(AnyDirective)
  <2>1. PICK D : D = AnyDirective
    OBVIOUS
  <2>2. format \in Seq(D)
    BY <1>3
  <2>3. QED
    BY <2>1, <2>2
<1>7. StoredRunning
  BY <1>2, <1>3 DEF StoredRunning
<1>8. memory = [a \in Buf .. Top |-> memory[a]]
  BY <1>3
<1>9. str = Buf + Len(All(format)) /\ str <= Top
  BY <1>2, <1>3, <1>5
<1>10. BufferKept
  BY <1>3, <1>4, <1>6, <1>7, <1>8, <1>9 DEF BufferKept
<1>11. ShownKept
  <2>1. PICK S : S = AnyShown
    OBVIOUS
  <2>2. shown \in Seq(S) /\ Len(shown) = 0
    BY <1>3
  <2>3. ~Prints
    BY <1>3 DEF Prints
  <2>4. \A k \in 1 .. Len(shown) : FALSE
    BY <2>2
  <2>5. \A k \in 2 .. Len(shown) : FALSE
    BY <2>2
  <2>6. QED
    BY <1>3, <2>1, <2>2, <2>3, <2>4, <2>5 DEF ShownKept
<1>12. KeyKept
  BY <1>3 DEF KeyKept
<1>13. QED
  BY <1>1, <1>10, <1>11, <1>12 DEF ConsoleInv

LEMMA PercentCIs == PercentC \in AnyDirective
BY DEF PercentC, AnyDirective, NoWidth

LEMMA ConsoleNextInv ==
  ASSUME ConsoleInv, [ConsoleNext]_allVars
  PROVE  ConsoleInv'
<1>1. ScreenKept /\ BufferKept /\ ShownKept /\ KeyKept
  BY DEF ConsoleInv
<1>2. ASSUME NEW s \in Nat, Call(s), KeyKept'
      PROVE  ConsoleInv'
  <2>1. BufferKept' /\ ret' = -1 /\ shown' = <<>> /\ UNCHANGED screen
    BY <1>2, CallBuffer
  <2>2. ~Prints'
    BY <2>1 DEF Prints
  <2>3. QED
    BY <1>1, <1>2, <2>1, <2>2, ScreenSame, ShownNothing DEF ConsoleInv
<1>3. TmpBuf \in Nat /\ \A s \in Sizes : s \in Nat
  BY ConsoleAssumption, FormatAssumption
<1>4. CASE Printf
  <2>1. Call(TmpBuf) /\ caller' # "kbd"
    BY <1>4 DEF Printf
  <2>2. QED
    BY <1>2, <1>3, <2>1, KeyNone
<1>5. CASE Sprintf
  <2>1. (\E s \in Sizes : Call(s)) /\ caller' # "kbd"
    BY <1>5 DEF Sprintf
  <2>2. QED
    BY <1>2, <1>3, <2>1, KeyNone
<1>6. CASE Initialize
  <2>1. T!Initialize /\ UNCHANGED vsn /\ caller' = caller /\ key' = key /\ shown' = shown
        /\ caller = "main"
    BY <1>6 DEF Initialize
  <2>2. shown = <<>> /\ ~Prints'
    BY <1>1, <2>1 DEF ShownKept, Prints
  <2>3. QED
    BY <1>1, <2>1, <2>2, ScreenStartsAgain, BufferSame, ShownNothing, KeySame DEF ConsoleInv
<1>7. CASE local_irq_enable
  <2>1. /\ UNCHANGED vsn /\ UNCHANGED screen /\ shown' = shown
        /\ caller = "main" /\ caller' = "loop"
    BY <1>7 DEF local_irq_enable
  <2>2. shown = <<>> /\ ~Prints'
    BY <1>1, <2>1 DEF ShownKept, Prints
  <2>3. QED
    BY <1>1, <2>1, <2>2, ScreenSame, BufferSame, ShownNothing, KeyNone DEF ConsoleInv
<1>8. CASE kbd_interrupt
  <2>1. /\ \E code \in ScanCode :
             codeToChar(code) # NUL /\ key' = <<code, codeToChar(code)>>
        /\ Call(TmpBuf)
    BY <1>8 DEF kbd_interrupt
  <2>2. KeyKept'
    BY <2>1 DEF KeyKept, ScanCode, NUL
  <2>3. QED
    BY <1>2, <1>3, <2>1, <2>2
<1>9. CASE Formatting
  <2>1. /\ (\E d \in Formats : Convert(d)) \/ Finish
        /\ UNCHANGED screen /\ caller' = caller /\ key' = key /\ shown' = shown
    BY <1>9 DEF Formatting
  <2>2. \A d \in Formats : d \in AnyDirective
    <3>1. Printed \subseteq Directive /\ Directive \subseteq AnyDirective
      BY FormatAssumption, ConsoleAssumption
    <3>2. Formats \subseteq Directive \cup Printed \cup {PercentC}
      BY DEF Formats
    <3>3. QED
      BY <3>1, <3>2, PercentCIs
  <2>3. ret = -1 /\ BufferKept' /\ (ret' = -1 \/ ret' >= 0)
    BY <1>1, <2>1, <2>2, ConvertBuffer, FinishBuffer
  <2>4. shown = <<>> /\ (Prints' => ret' >= 0)
    BY <1>1, <2>3 DEF ShownKept, Prints
  <2>5. QED
    BY <1>1, <2>1, <2>3, <2>4, ScreenSame, ShownNothing, KeySame DEF ConsoleInv
<1>10. CASE Putchar
  <2>1. UNCHANGED vsn /\ caller' = caller /\ key' = key
    BY <1>10 DEF Putchar
  <2>2. QED
    BY <1>1, <1>10, <2>1, PutcharShown, BufferSame, KeySame DEF ConsoleInv
<1>11. CASE Flushing
  <2>1. T!Flush /\ UNCHANGED vsn /\ caller' = caller /\ key' = key /\ shown' = shown
    BY <1>11 DEF Flushing
  <2>2. ScreenKept' /\ pos' = pos
    BY <1>1, <2>1, FlushScreen
  <2>3. ret' = ret /\ memory' = memory /\ Prints' = Prints
    BY <2>1 DEF vsn, Prints
  <2>4. QED
    BY <1>1, <2>1, <2>2, <2>3, BufferSame, ShownSame, KeySame DEF ConsoleInv
<1>12. CASE Return
  <2>1. Call(TmpBuf) /\ caller' # "kbd"
    BY <1>12 DEF Return
  <2>2. QED
    BY <1>2, <1>3, <2>1, KeyNone
<1>13. CASE UNCHANGED allVars
  <2>1. UNCHANGED vsn /\ UNCHANGED screen /\ caller' = caller /\ key' = key /\ shown' = shown
    BY <1>13 DEF allVars
  <2>2. pos' = pos /\ ret' = ret /\ memory' = memory /\ Prints' = Prints
    BY <2>1 DEF vsn, screen, Prints
  <2>3. QED
    BY <1>1, <2>1, <2>2, ScreenSame, BufferSame, ShownSame, KeySame DEF ConsoleInv
<1>14. QED
  BY <1>4, <1>5, <1>6, <1>7, <1>8, <1>9, <1>10, <1>11, <1>12, <1>13 DEF ConsoleNext

(* The invariant holds whatever printf, sprintf and the keyboard print.      *)
THEOREM ConsoleInductive == ConsoleSpec => []ConsoleInv
<1>1. ConsoleInit => ConsoleInv
  BY ConsoleInitInv
<1>2. ConsoleInv /\ [ConsoleNext]_allVars => ConsoleInv'
  BY ConsoleNextInv
<1>3. QED
  BY <1>1, <1>2, PTL DEF ConsoleSpec

-----------------------------------------------------------------------------
LEMMA BufferHolds ==
  ASSUME BufferKept
  PROVE  Terminated
<1>1. SUFFICES ASSUME ret # -1 PROVE Terminated
  BY DEF Terminated
<1>2. PICK t : t = All(format)
  OBVIOUS
<1>3. ret = Len(t) /\ StoredAtEnd
  BY <1>1, <1>2 DEF BufferKept
<1>4. t = FlattenSeq([k \in DOMAIN format |-> Output(format[k])])
  BY <1>2 DEF All, Outs
<1>5. PICK n : n = IF ret < size THEN ret ELSE size - 1
  OBVIOUS
<1>6. \A a \in Buf .. Top : memory[a] = IF a < Buf + n THEN t[a - Buf + 1]
                                        ELSE IF a = Buf + n THEN "NUL" ELSE "free"
  BY <1>2, <1>3, <1>5 DEF StoredAtEnd
<1>7. QED
  BY <1>3, <1>4, <1>5, <1>6 DEF Terminated

LEMMA TextHolds ==
  ASSUME ScreenKept, BufferKept, ShownKept
  PROVE  TextInRing
<1>1. SUFFICES ASSUME Prints PROVE TextInRing
  BY DEF TextInRing
<1>2. PICK t : t = All(format)
  OBVIOUS
<1>3. /\ format \in Seq(AnyDirective) /\ size \in Nat /\ str = Buf + Len(t) /\ str <= Top
      /\ ret = Len(t) /\ ret \in Int /\ StoredAtEnd
  BY <1>1, <1>2 DEF BufferKept, Prints
<1>4. PICK n \in Nat : n = Len(shown) /\ n <= ret /\ DOMAIN shown = 1 .. n
  <2>1. PICK A : A = AnyShown
    OBVIOUS
  <2>2. shown \in Seq(A) /\ Len(shown) <= ret
    BY <1>1, <2>1 DEF ShownKept
  <2>3. QED
    BY <2>2
<1>5. PICK kept \in Int : kept = IF ret < size THEN ret ELSE size - 1
  BY <1>3
<1>6. Buf \in Nat /\ Top \in Nat /\ Buf >= 1 /\ Buf <= Top
  BY FormatAssumption
<1>7. ASSUME NEW k \in 1 .. n
      PROVE  shown[k].byte = IF k <= kept THEN t[k] ELSE IF k = kept + 1 THEN "NUL" ELSE "free"
  <2>1. PICK a : a = Buf + k - 1
    OBVIOUS
  <2>2. a \in Buf .. Top /\ a - Buf + 1 = k
    BY <1>3, <1>4, <1>6, <2>1
  <2>3. memory[a] = IF a < Buf + kept THEN t[k] ELSE IF a = Buf + kept THEN "NUL" ELSE "free"
    BY <1>2, <1>3, <1>5, <2>2 DEF StoredAtEnd
  <2>4. (a < Buf + kept <=> k <= kept) /\ (a = Buf + kept <=> k = kept + 1)
    BY <1>6, <2>1
  <2>5. shown[k].byte = memory[a]
    BY <1>4, <2>1 DEF ShownKept, Byte
  <2>6. QED
    BY <2>3, <2>4, <2>5
<1>8. ASSUME NEW k \in 2 .. n
      PROVE  shown[k - 1].byte # "free" =>
               shown[k].cell = IF shown[k - 1].byte = "newline" THEN T!RowEnd(shown[k - 1].cell)
                               ELSE (shown[k - 1].cell + 1) % Ring
  BY <1>4 DEF ShownKept, Leaves
<1>9. \A k \in DOMAIN shown \ {1} : k \in 2 .. n
  BY <1>4
<1>10. \A c \in DOMAIN vga \ {0} : vga[c] = "blank"
  BY DEF ScreenKept, OnlyFirst
<1>11. t = FlattenSeq([k \in DOMAIN format |-> Output(format[k])])
  BY <1>2 DEF All, Outs
<1>12. QED
  BY <1>3, <1>4, <1>5, <1>7, <1>8, <1>9, <1>10, <1>11 DEF TextInRing

LEMMA FieldHolds ==
  ASSUME BufferKept
  PROVE  NumberField
<1>1. SUFFICES ASSUME format # <<>> PROVE NumberField
  BY DEF NumberField
<1>2. PICK d : d = format[Len(format)]
  OBVIOUS
<1>3. d \in AnyDirective
  <2>1. PICK D : D = AnyDirective
    OBVIOUS
  <2>2. format \in Seq(D)
    BY <2>1 DEF BufferKept
  <2>3. Len(format) \in 1 .. Len(format)
    BY <1>1, <2>2, EmptySeq
  <2>4. QED
    BY <1>2, <2>1, <2>2, <2>3
<1>4. SUFFICES ASSUME d.conv \in {"d", "u", "o", "x"} PROVE NumberField
  BY <1>2 DEF NumberField
<1>5. PICK out : out = Output(d)
  OBVIOUS
<1>6. out = Number(d)
  BY <1>4, <1>5 DEF Output
<1>7. PICK blanks \in Nat, zeros \in Nat : NumberIs(d, out, blanks, zeros)
  BY <1>3, <1>6, NumberFits
<1>8. PICK body : body = Body(d, zeros)
  OBVIOUS
<1>9. Len(body) \in Nat /\ zeros <= Len(body)
  <2>1. d.digits \in Nat
    BY <1>3 DEF AnyDirective
  <2>2. Len(Sign(d)) \in Nat /\ Len(Prefix(d)) \in Nat
    BY SignIs
  <2>3. Len(body) = Len(Sign(d)) + Len(Prefix(d)) + zeros + d.digits
    BY <1>3, <1>8, BodyIs
  <2>4. QED
    BY <2>1, <2>2, <2>3
<1>10. blanks \in 0 .. Len(out) /\ zeros \in 0 .. Len(out)
  <2>1. PICK l, b : l = Len(out) /\ b = Len(body)
    OBVIOUS
  <2>2. l = blanks + b /\ b \in Nat /\ zeros <= b
    BY <1>7, <1>8, <1>9, <2>1 DEF NumberIs
  <2>3. blanks \in 0 .. l /\ zeros \in 0 .. l
    BY <2>2
  <2>4. QED
    BY <2>1, <2>3
<1>11. body = Sign(d) \o Prefix(d) \o Rep("0", zeros) \o Rep("d", d.digits)
  BY <1>8 DEF Body
<1>12. /\ out = IF Left(d) THEN body \o Rep(" ", blanks) ELSE Rep(" ", blanks) \o body
       /\ blanks + Len(body) >= Field(d)
       /\ zeros + d.digits >= d.prec
       /\ blanks > 0 => Len(out) = Field(d) /\ ("ZEROPAD" \in d.flags => Left(d))
       /\ zeros > AtLeast0(d.prec - d.digits) => Len(out) = Field(d) /\ ~Left(d)
  BY <1>7, <1>8 DEF NumberIs
<1>13. QED
  BY <1>2, <1>5, <1>10, <1>11, <1>12 DEF NumberField

LEMMA LetterIs ==
  ASSUME NEW code \in ScanCode, codeToChar(code) # NUL
  PROVE  LET row(first, letters) ==
               code \in first .. first + Len(letters) - 1
               /\ codeToChar(code) = letters[code - first + 1]
         IN \/ row(KEY_Q, <<"q", "w", "e", "r", "t", "y", "u", "i", "o", "p">>)
            \/ row(KEY_A, <<"a", "s", "d", "f", "g", "h", "j", "k", "l">>)
            \/ row(KEY_Z, <<"z", "x", "c", "v", "b", "n", "m">>)
<1> USE DEF KEY_Q, KEY_P, KEY_A, KEY_L, KEY_Z, KEY_M, QP_GAP, AL_GAP, ZM_GAP
<1>1. code \in Int
  BY DEF ScanCode
<1>2. CASE code \in 16 .. 25
  BY <1>1, <1>2 DEF codeToChar, keymap
<1>3. CASE code \in 30 .. 38
  BY <1>1, <1>3 DEF codeToChar, keymap
<1>4. CASE code \in 44 .. 50
  BY <1>1, <1>4 DEF codeToChar, keymap
<1>5. CASE ~ (code \in 16 .. 25 \/ code \in 30 .. 38 \/ code \in 44 .. 50)
  BY <1>1, <1>5 DEF codeToChar
<1>6. QED
  BY <1>2, <1>3, <1>4, <1>5

LEMMA KeyHolds ==
  ASSUME KeyKept
  PROVE  KeyPrintsItsLetter
<1>1. SUFFICES ASSUME caller = "kbd" PROVE KeyPrintsItsLetter
  BY DEF KeyPrintsItsLetter
<1>2. PICK code \in ScanCode : codeToChar(code) # NUL /\ key = <<code, codeToChar(code)>>
  BY <1>1 DEF KeyKept
<1>3. key[1] = code /\ key[2] = codeToChar(code)
  BY <1>2
<1>4. QED
  BY <1>2, <1>3, LetterIs DEF KeyPrintsItsLetter

(* What is in the ring before the position is the text of this lap and the   *)
(* rest the text of the last, for every width and height of the screen and   *)
(* every ring of whole rows: terminal_putchar blanks each row it leaves, and *)
(* neither the newline that puts the position at the end of the ring nor the *)
(* flush that then never ends disturbs it.                                   *)
THEOREM RingStaysInOrder == ConsoleSpec => []RingInOrder
<1>1. ConsoleInv => RingInOrder
  BY DEF ConsoleInv, ScreenKept
<1>2. QED
  BY <1>1, ConsoleInductive, PTL

(* vsnprintf leaves in every buffer of every size, none and one that would   *)
(* wrap included, the text of any format cut off to size - 1 characters and  *)
(* a NUL, stores nothing else, and returns the length before the cut.        *)
THEOREM BufferTerminated == ConsoleSpec => []Terminated
<1>1. ConsoleInv => Terminated
  BY BufferHolds DEF ConsoleInv
<1>2. QED
  BY <1>1, ConsoleInductive, PTL

(* print puts the text of any format into the terminal's ring as far as the *)
(* buffer goes, in order, each character one cell behind the last and a      *)
(* newline's successor at the start of a row, then the NUL and what follows  *)
(* the buffer, for main and for the keyboard's handler; and the screen stays *)
(* as blank as terminal_initialize has left it, but for its first cell.      *)
THEOREM TextReachesRing == ConsoleSpec => []TextInRing
<1>1. ConsoleInv => TextInRing
  BY TextHolds DEF ConsoleInv
<1>2. QED
  BY <1>1, ConsoleInductive, PTL

(* number() fills the field of any directive of a number: every set of       *)
(* flags, every width and precision and every count of digits.               *)
THEOREM NumberFieldsFit == ConsoleSpec => []NumberField
<1>1. ConsoleInv => NumberField
  BY FieldHolds DEF ConsoleInv
<1>2. QED
  BY <1>1, ConsoleInductive, PTL

(* The three rows of codeToChar, each behind a gap in the codes of its own *)
(* (input-event-codes.h), give every key with a letter on it this letter.    *)
THEOREM KeysPrintLetters == ConsoleSpec => []KeyPrintsItsLetter
<1>1. ConsoleInv => KeyPrintsItsLetter
  BY KeyHolds DEF ConsoleInv
<1>2. QED
  BY <1>1, ConsoleInductive, PTL
=============================================================================
