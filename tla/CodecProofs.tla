----------------------------- MODULE CodecProofs -----------------------------
(***************************************************************************)
(* What the operators of Crc and Codec do, for frames of any length: the   *)
(* check of a frame, and what becomes of it when a byte is damaged.        *)
(***************************************************************************)
EXTENDS Codec, SequenceTheorems, WellFoundedInduction, TLAPS

-----------------------------------------------------------------------------
(* Induction and recursion.                                                *)

\* A set of naturals that is not empty has a least element.
LEMMA LeastElement ==
  ASSUME NEW T, T \subseteq Nat, T # {}
  PROVE  \E n \in T : \A m \in T : n <= m
<1>1. PICK n \in T : \A m \in T : <<m, n>> \notin OpToRel(<, Nat)
  BY WFMin, NatLessThanWellFounded, Zenon
<1>2. ASSUME NEW m \in T, m < n PROVE FALSE
  BY <1>1, <1>2, Zenon DEF OpToRel
<1>. QED  BY <1>2

\* Induction, for a set of numbers in the place of a predicate.
LEMMA Induction ==
  ASSUME NEW P, 0 \in P, \A n \in Nat : n \in P => n + 1 \in P
  PROVE  Nat \subseteq P
<1> DEFINE T == Nat \ P
<1> SUFFICES ASSUME T # {} PROVE FALSE
  OBVIOUS
<1>1. PICK n \in T : \A m \in T : n <= m
  <2>1. T \subseteq Nat
    OBVIOUS
  <2> HIDE DEF T
  <2> QED
    BY Zenon, <2>1, LeastElement
<1>2. n # 0 /\ n - 1 \in Nat /\ (n - 1) + 1 = n
  OBVIOUS
<1>3. n - 1 \in P
  BY <1>1, <1>2
<1> QED
  BY <1>2, <1>3

\* f goes from c through the steps g of a list of n, over the values S.
Runs(f, S, c, n, g) ==
  f \in [0..n -> S] /\ f[0] = c /\ \A i \in 1..n : f[i] = g[i][f[i - 1]]

TheRun(S, c, n, g) == CHOOSE f : Runs(f, S, c, n, g)

\* A run of functions from a start exists: by induction over its length, with the library's
\* least element of a set of numbers in place of an induction scheme.
LEMMA RunExists ==
  ASSUME NEW S, NEW c \in S, NEW n \in Nat, NEW g, \A i \in 1..n : g[i] \in [S -> S]
  PROVE  Runs(TheRun(S, c, n, g), S, c, n, g)
<1> DEFINE P == {k \in Nat : k <= n => \E f : Runs(f, S, c, k, g)}
<1>1. 0 \in P
  <2> DEFINE f == [i \in 0..0 |-> c]
  <2>1. Runs(f, S, c, 0, g)
    BY DEF Runs
  <2> QED
    BY <2>1
<1>2. ASSUME NEW k \in Nat, k \in P PROVE k + 1 \in P
  <2> SUFFICES ASSUME k + 1 <= n PROVE \E f : Runs(f, S, c, k + 1, g)
    OBVIOUS
  <2>1. PICK f : Runs(f, S, c, k, g)
    BY <1>2
  <2> DEFINE h == [i \in 0..k + 1 |-> IF i = k + 1 THEN g[k + 1][f[k]] ELSE f[i]]
  <2>2. f[k] \in S /\ g[k + 1] \in [S -> S] /\ f \in [0..k -> S] /\ f[0] = c
    BY <2>1 DEF Runs
  <2>3. h \in [0..k + 1 -> S] /\ h[0] = c
    BY <2>2
  <2>4. ASSUME NEW i \in 1..k + 1 PROVE h[i] = g[i][h[i - 1]]
    <3>1. CASE i = k + 1
      BY <3>1
    <3>2. CASE i # k + 1
      <4>1. i \in 1..k /\ h[i] = f[i] /\ h[i - 1] = f[i - 1]
        BY <3>2
      <4> QED
        BY <4>1, <2>1 DEF Runs
    <3> QED
      BY <3>1, <3>2
  <2> HIDE DEF h
  <2>5. Runs(h, S, c, k + 1, g)
    BY <2>3, <2>4 DEF Runs
  <2> QED
    BY <2>5
<1> HIDE DEF P
<1>3. Nat \subseteq P
  BY <1>1, <1>2, Induction
<1>4. \E f : Runs(f, S, c, n, g)
  BY <1>3 DEF P
<1> QED
  BY <1>4 DEF TheRun

\* A recursive definition of this form has a run for its meaning.
LEMMA RunIs ==
  ASSUME NEW S, NEW c \in S, NEW n \in Nat, NEW g, \A i \in 1..n : g[i] \in [S -> S], NEW f
  PROVE  Runs(f, S, c, n, g) <=> f = [i \in 0..n |-> IF i = 0 THEN c ELSE g[i][f[i - 1]]]
<1>1. ASSUME Runs(f, S, c, n, g)
      PROVE  f = [i \in 0..n |-> IF i = 0 THEN c ELSE g[i][f[i - 1]]]
  <2>1. f = [i \in 0..n |-> f[i]]
    BY <1>1 DEF Runs
  <2>2. \A i \in 0..n : f[i] = IF i = 0 THEN c ELSE g[i][f[i - 1]]
    BY <1>1 DEF Runs
  <2>3. [i \in 0..n |-> f[i]] = [i \in 0..n |-> IF i = 0 THEN c ELSE g[i][f[i - 1]]]
    BY <2>2
  <2> QED
    BY <2>1, <2>3
<1>2. ASSUME f = [i \in 0..n |-> IF i = 0 THEN c ELSE g[i][f[i - 1]]]
      PROVE  Runs(f, S, c, n, g)
  <2>1. f[0] = c /\ \A i \in 1..n : f[i] = g[i][f[i - 1]]
    <3> DEFINE F == [i \in 0..n |-> IF i = 0 THEN c ELSE g[i][f[i - 1]]]
    <3>1. F[0] = c /\ \A i \in 1..n : F[i] = g[i][f[i - 1]]
      OBVIOUS
    <3>2. f = F
      BY <1>2
    <3> HIDE DEF F
    <3> QED
      BY <3>1, <3>2
  <2> DEFINE P == {k \in Nat : k <= n => f[k] \in S}
  <2>2. 0 \in P
    BY <2>1
  <2>3. ASSUME NEW k \in Nat, k \in P PROVE k + 1 \in P
    <3> SUFFICES ASSUME k + 1 <= n PROVE f[k + 1] \in S
      OBVIOUS
    <3>1. f[k] \in S /\ f[k + 1] = g[k + 1][f[k]] /\ g[k + 1] \in [S -> S]
      BY <2>1, <2>3
    <3> QED
      BY <3>1
  <2> HIDE DEF P
  <2>4. Nat \subseteq P
    BY <2>2, <2>3, Induction
  <2>5. \A i \in 0..n : f[i] \in S
    BY <2>4 DEF P
  <2>6. f \in [0..n -> S]
    BY <1>2, <2>5
  <2> QED
    BY <2>1, <2>6 DEF Runs
<1> QED
  BY <1>1, <1>2

\* f chains the sequences e[1], e[2], ... of members of S.
Chain(f, S, e, n) ==
  f \in [0..n -> Seq(S)] /\ f[0] = <<>> /\ \A i \in 1..n : f[i] = f[i - 1] \o e[i]

Links(S, e, n) == [i \in 1..n |-> [s \in Seq(S) |-> s \o e[i]]]

TheChain(S, e, n) == TheRun(Seq(S), <<>>, n, Links(S, e, n))

\* A chain of pieces, each appended to those before it, exists.
LEMMA ChainExists ==
  ASSUME NEW S, NEW n \in Nat, NEW e, \A i \in 1..n : e[i] \in Seq(S)
  PROVE  Chain(TheChain(S, e, n), S, e, n)
<1> DEFINE g == Links(S, e, n)
           f == TheChain(S, e, n)
<1>1. \A i \in 1..n : g[i] \in [Seq(S) -> Seq(S)]
  <2>1. ASSUME NEW i \in 1..n PROVE g[i] \in [Seq(S) -> Seq(S)]
    <3>1. g[i] = [s \in Seq(S) |-> s \o e[i]]
      BY DEF Links
    <3>2. \A s \in Seq(S) : s \o e[i] \in Seq(S)
      OBVIOUS
    <3> QED
      BY <3>1, <3>2
  <2> QED
    BY <2>1
<1>2. \A i \in 1..n : \A s \in Seq(S) : g[i][s] = s \o e[i]
  BY DEF Links
<1>3. <<>> \in Seq(S) /\ f = TheRun(Seq(S), <<>>, n, g)
  BY DEF TheChain
<1> HIDE DEF g, f
<1>4. Runs(f, Seq(S), <<>>, n, g)
  BY <1>1, <1>3, RunExists
<1>5. f \in [0..n -> Seq(S)] /\ f[0] = <<>> /\ \A i \in 1..n : f[i] = g[i][f[i - 1]]
  BY <1>4 DEF Runs
<1>6. \A i \in 1..n : f[i - 1] \in Seq(S)
  BY <1>5
<1>7. Chain(f, S, e, n)
  BY <1>2, <1>5, <1>6, Zenon DEF Chain
<1> QED
  BY <1>7 DEF f

\* It is enough to know the steps from sequences of members of S.
LEMMA ChainValues ==
  ASSUME NEW S, NEW n \in Nat, NEW e, \A i \in 1..n : e[i] \in Seq(S),
         NEW f, f[0] = <<>>,
         \A i \in 1..n : f[i - 1] \in Seq(S) => f[i] = f[i - 1] \o e[i]
  PROVE  \A i \in 0..n : f[i] \in Seq(S)
<1> DEFINE P == {k \in Nat : k <= n => f[k] \in Seq(S)}
<1>0. <<>> \in Seq(S)
  OBVIOUS
<1>1. 0 \in P
  BY <1>0, Zenon
<1>2. ASSUME NEW k \in Nat, k \in P PROVE k + 1 \in P
  <2> SUFFICES ASSUME k + 1 <= n PROVE f[k + 1] \in Seq(S)
    OBVIOUS
  <2>1. f[k] \in Seq(S)
    BY <1>2
  <2>2. k + 1 \in 1..n /\ (k + 1) - 1 = k
    OBVIOUS
  <2>3. f[k + 1] = f[k] \o e[k + 1] /\ e[k + 1] \in Seq(S)
    BY <2>1, <2>2, Zenon
  <2> QED
    BY <2>1, <2>3
<1> HIDE DEF P
<1>3. Nat \subseteq P
  BY <1>1, <1>2, Induction
<1> QED
  BY <1>3 DEF P

\* A function that appends the pieces is their chain.
LEMMA ChainIs ==
  ASSUME NEW S, NEW n \in Nat, NEW e, \A i \in 1..n : e[i] \in Seq(S),
         NEW f, f = [i \in 0..n |-> f[i]], f[0] = <<>>,
         \A i \in 1..n : f[i - 1] \in Seq(S) => f[i] = f[i - 1] \o e[i]
  PROVE  Chain(f, S, e, n)
<1>1. \A i \in 0..n : f[i] \in Seq(S)
  BY ChainValues, Zenon
<1>2. f \in [0..n -> Seq(S)]
  BY <1>1, Zenon
<1>3. \A i \in 1..n : i - 1 \in 0..n
  OBVIOUS
<1>4. \A i \in 1..n : f[i] = f[i - 1] \o e[i]
  BY <1>1, <1>3, Zenon
<1> QED
  BY <1>2, <1>4, Zenon DEF Chain

\* What is chained is determined by its links.
LEMMA ChainsAgree ==
  ASSUME NEW S, NEW e, NEW n \in Nat, NEW f, Chain(f, S, e, n),
         NEW d, NEW m \in Nat, NEW h, Chain(h, S, d, m),
         NEW k \in Nat, k <= n, k <= m, \A i \in 1..k : e[i] = d[i]
  PROVE  f[k] = h[k]
<1> DEFINE P == {i \in Nat : i <= k => f[i] = h[i]}
<1>1. 0 \in P
  BY DEF Chain
<1>2. ASSUME NEW i \in Nat, i \in P PROVE i + 1 \in P
  <2> SUFFICES ASSUME i + 1 <= k PROVE f[i + 1] = h[i + 1]
    OBVIOUS
  <2>1. f[i] = h[i] /\ i + 1 \in 1..n /\ i + 1 \in 1..m /\ i + 1 \in 1..k /\ (i + 1) - 1 = i
    BY <1>2
  <2>2. f[i + 1] = f[i] \o e[i + 1] /\ h[i + 1] = h[i] \o d[i + 1]
    BY <2>1 DEF Chain
  <2> QED
    BY <2>1, <2>2
<1> HIDE DEF P
<1>3. Nat \subseteq P
  BY <1>1, <1>2, Induction
<1> QED
  BY <1>3 DEF P

\* A longer chain begins with a shorter one.
LEMMA ChainGrows ==
  ASSUME NEW S, NEW e, NEW n \in Nat, NEW f, Chain(f, S, e, n), \A i \in 1..n : e[i] \in Seq(S),
         NEW k \in Nat, NEW m \in Nat, k <= m, m <= n
  PROVE  Len(f[k]) <= Len(f[m]) /\ \A i \in 1..Len(f[k]) : f[m][i] = f[k][i]
<1> DEFINE P == {j \in Nat : k + j <= n =>
                   /\ Len(f[k]) <= Len(f[k + j])
                   /\ \A i \in 1..Len(f[k]) : f[k + j][i] = f[k][i]}
<1>0. \A j \in 0..n : f[j] \in Seq(S)
  BY DEF Chain
<1>1. 0 \in P
  BY <1>0
<1>2. ASSUME NEW j \in Nat, j \in P PROVE j + 1 \in P
  <2> SUFFICES ASSUME k + (j + 1) <= n
               PROVE  /\ Len(f[k]) <= Len(f[k + (j + 1)])
                      /\ \A i \in 1..Len(f[k]) : f[k + (j + 1)][i] = f[k][i]
    OBVIOUS
  <2> DEFINE a == f[k + j]
             b == f[k + (j + 1)]
             s == e[k + (j + 1)]
             c == f[k]
  <2>1. Len(c) <= Len(a) /\ \A i \in 1..Len(c) : a[i] = c[i]
    BY <1>2
  <2>2. b = a \o s
    <3>1. k + (j + 1) \in 1..n /\ (k + (j + 1)) - 1 = k + j
      OBVIOUS
    <3> QED
      BY <3>1 DEF Chain
  <2>3. a \in Seq(S) /\ s \in Seq(S) /\ c \in Seq(S)
    BY <1>0
  <2> HIDE DEF a, b, s, c
  <2>4. Len(c) <= Len(b) /\ \A i \in 1..Len(c) : b[i] = c[i]
    BY <2>1, <2>2, <2>3
  <2> QED
    BY <2>4 DEF b, c
<1> HIDE DEF P
<1>3. Nat \subseteq P
  BY <1>1, <1>2, Induction
<1>4. m - k \in Nat /\ k + (m - k) = m
  OBVIOUS
<1>5. m - k \in P
  BY <1>3, <1>4
<1> QED
  BY <1>4, <1>5 DEF P

-----------------------------------------------------------------------------
(* The check.                                                              *)

\* Bytes and words by their bounds: the provers write a range of numbers out.
LEMMA ByteIs ==
  ASSUME NEW n
  PROVE  n \in Byte <=> n \in Nat /\ n < 256
<1>1. n \in Byte => n \in Nat /\ n < 256
  BY SMT DEF Byte
<1>2. ASSUME n \in Nat, n < 256 PROVE n \in Byte
  <2> DEFINE k == 255
  <2>1. Byte = 0..k
    BY DEF Byte
  <2>2. k \in Int /\ n <= k
    BY <1>2, SMT
  <2> HIDE DEF k
  <2>3. n \in 0..k
    BY <1>2, <2>2, SMT
  <2> QED
    BY <2>1, <2>3, SMT
<1> QED
  BY <1>1, <1>2

\* A word by its bounds; its range is never written out.
LEMMA WordIs ==
  ASSUME NEW n
  PROVE  n \in Word <=> n \in Nat /\ n < 65536
<1>1. ASSUME n \in Word PROVE n \in Nat /\ n < 65536
  <2> DEFINE k == 65535
  <2>1. Word = 0..k
    BY DEF Word
  <2>2. k \in Nat /\ k < 65536
    OBVIOUS
  <2> HIDE DEF k
  <2> QED
    BY <1>1, <2>1, <2>2, SMT
<1>2. ASSUME n \in Nat, n < 65536 PROVE n \in Word
  <2> DEFINE k == 65535
  <2>1. Word = 0..k
    BY DEF Word
  <2>2. k \in Int /\ n <= k
    BY <1>2, SMT
  <2> HIDE DEF k
  <2>3. n \in 0..k
    BY <1>2, <2>2, SMT
  <2> QED
    BY <2>1, <2>3, SMT
<1> QED
  BY <1>1, <1>2, SMT

\* The xor of two nibbles is one, and gives either back for the other.
LEMMA NibbleXorIs ==
  ASSUME NEW a \in 0..15, NEW b \in 0..15
  PROVE  /\ NibbleXor[a][b] = Differ(a, b, 1) + Differ(a, b, 2) + Differ(a, b, 4) + Differ(a, b, 8)
         /\ NibbleXor[a][b] \in 0..15
BY DEF NibbleXor, Differ

\* The xor with a nibble maps no two nibbles to one.
LEMMA NibbleXorInjective ==
  ASSUME NEW a \in 0..15, NEW b \in 0..15, NEW c \in 0..15
  PROVE  /\ NibbleXor[a][b] = NibbleXor[a][c] => b = c
         /\ NibbleXor[b][a] = NibbleXor[c][a] => b = c
<1>1. \A n \in 0..15 : n = Bit(n, 1) + 2 * Bit(n, 2) + 4 * Bit(n, 4) + 8 * Bit(n, 8)
  BY DEF Bit
<1>2. \A n \in 0..15, w \in {1, 2, 4, 8} : Bit(n, w) \in {0, 1}
  BY DEF Bit
<1>3. ASSUME Differ(a, b, 1) + Differ(a, b, 2) + Differ(a, b, 4) + Differ(a, b, 8)
             = Differ(a, c, 1) + Differ(a, c, 2) + Differ(a, c, 4) + Differ(a, c, 8)
      PROVE  \A w \in {1, 2, 4, 8} : Differ(a, b, w) = Differ(a, c, w)
  BY <1>3 DEF Differ
<1>4. ASSUME \A w \in {1, 2, 4, 8} : Differ(a, b, w) = Differ(a, c, w)
      PROVE  \A w \in {1, 2, 4, 8} : Bit(b, w) = Bit(c, w)
  BY <1>2, <1>4 DEF Differ
<1>5. \A m, n \in 0..15, w \in {1, 2, 4, 8} : Differ(m, n, w) = Differ(n, m, w)
  BY DEF Differ
<1>6. NibbleXor[a][b] = NibbleXor[a][c] => b = c
  BY <1>1, <1>3, <1>4, NibbleXorIs, ZenonT(60)
<1>7. ASSUME NEW m \in 0..15, NEW n \in 0..15 PROVE NibbleXor[m][n] = NibbleXor[n][m]
  <2>1. /\ Differ(m, n, 1) = Differ(n, m, 1) /\ Differ(m, n, 2) = Differ(n, m, 2)
        /\ Differ(m, n, 4) = Differ(n, m, 4) /\ Differ(m, n, 8) = Differ(n, m, 8)
    BY <1>5
  <2>2. NibbleXor[m][n] = Differ(m, n, 1) + Differ(m, n, 2) + Differ(m, n, 4) + Differ(m, n, 8)
    BY NibbleXorIs, Zenon
  <2>3. NibbleXor[n][m] = Differ(n, m, 1) + Differ(n, m, 2) + Differ(n, m, 4) + Differ(n, m, 8)
    BY NibbleXorIs, Zenon
  <2> QED
    BY <2>1, <2>2, <2>3, SMT
<1> QED
  BY <1>6, <1>7

\* A byte is two nibbles.
LEMMA ByteHalves ==
  ASSUME NEW n \in Byte
  PROVE  n \div 16 \in 0..15 /\ n % 16 \in 0..15 /\ n = 16 * (n \div 16) + (n % 16)
<1>1. n \in Int /\ 0 <= n /\ n < 256
  BY DEF Byte
<1>2. n = 16 * (n \div 16) + (n % 16)
  BY <1>1
<1>3. n % 16 \in 0..15
  BY <1>1
<1>4. n \div 16 \in Int
  BY <1>1
<1> QED
  BY <1>1, <1>2, <1>3, <1>4

\* A word is two bytes.
LEMMA WordHalves ==
  ASSUME NEW n \in Word
  PROVE  n \div 256 \in Byte /\ n % 256 \in Byte /\ n = 256 * (n \div 256) + (n % 256)
<1>1. n \in Int /\ 0 <= n /\ n < 65536
  BY WordIs, SMT
<1>2. n = 256 * (n \div 256) + (n % 256)
  BY <1>1
<1>3. n % 256 \in 0..255
  BY <1>1
<1>4. n \div 256 \in Int
  BY <1>1
<1> QED
  BY <1>1, <1>2, <1>3, <1>4 DEF Byte

\* Two halves make a byte or a word, and no two pairs the same one.
LEMMA Digits ==
  /\ \A k, l \in 0..15 : 16 * k + l \in Byte
  /\ \A k, l, m, n \in 0..15 : 16 * k + l = 16 * m + n => k = m /\ l = n
  /\ \A k, l \in Byte : 256 * k + l \in Word
  /\ \A k, l, m, n \in Byte : 256 * k + l = 256 * m + n => k = m /\ l = n
  /\ \A k, l \in Byte : k + 1 \in 1..256 /\ (k + 1 = l + 1 => k = l)
<1>1. ASSUME NEW k \in 0..15, NEW l \in 0..15 PROVE 16 * k + l \in Byte
  BY DEF Byte
<1>2. ASSUME NEW k \in 0..15, NEW l \in 0..15, NEW m \in 0..15, NEW n \in 0..15,
             16 * k + l = 16 * m + n
      PROVE  k = m /\ l = n
  BY <1>2
<1>3. ASSUME NEW k \in Byte, NEW l \in Byte PROVE 256 * k + l \in Word
  BY ByteIs, WordIs, SMT
<1>4. ASSUME NEW k \in Byte, NEW l \in Byte, NEW m \in Byte, NEW n \in Byte,
             256 * k + l = 256 * m + n
      PROVE  k = m /\ l = n
  BY <1>4 DEF Byte
<1>5. ASSUME NEW k \in Byte, NEW l \in Byte PROVE k + 1 \in 1..256 /\ (k + 1 = l + 1 => k = l)
  BY DEF Byte
<1> QED
  BY <1>1, <1>2, <1>3, <1>4, <1>5, Zenon

\* The xor with a byte maps no two bytes to one.
LEMMA XorInjective ==
  ASSUME NEW a \in Byte, NEW b \in Byte, NEW c \in Byte
  PROVE  /\ Xor(a, b) \in Byte
         /\ Xor(a, b) = Xor(a, c) => b = c
         /\ Xor(b, a) = Xor(c, a) => b = c
<1>1. \A n \in Byte : n \div 16 \in 0..15 /\ n % 16 \in 0..15 /\ n = 16 * (n \div 16) + (n % 16)
  BY ByteHalves
<1>2. \A m, n \in 0..15 : NibbleXor[m][n] \in 0..15
  BY NibbleXorIs
<1>4. Xor(a, b) \in Byte
  <2>1. /\ a \div 16 \in 0..15 /\ b \div 16 \in 0..15
        /\ a % 16 \in 0..15 /\ b % 16 \in 0..15
    BY <1>1
  <2>2. NibbleXor[a \div 16][b \div 16] \in 0..15 /\ NibbleXor[a % 16][b % 16] \in 0..15
    BY <1>2, <2>1
  <2> QED
    BY <2>2, Digits, Zenon DEF Xor
<1>5. ASSUME Xor(a, b) = Xor(a, c) PROVE b = c
  <2>0. /\ a \div 16 \in 0..15 /\ b \div 16 \in 0..15 /\ c \div 16 \in 0..15
        /\ a % 16 \in 0..15 /\ b % 16 \in 0..15 /\ c % 16 \in 0..15
    BY <1>1
  <2>1. /\ NibbleXor[a \div 16][b \div 16] = NibbleXor[a \div 16][c \div 16]
        /\ NibbleXor[a % 16][b % 16] = NibbleXor[a % 16][c % 16]
    <3>1. /\ NibbleXor[a \div 16][b \div 16] \in 0..15 /\ NibbleXor[a % 16][b % 16] \in 0..15
          /\ NibbleXor[a \div 16][c \div 16] \in 0..15 /\ NibbleXor[a % 16][c % 16] \in 0..15
      BY <1>2, <2>0
    <3> QED
      <4> DEFINE x == NibbleXor[a \div 16][b \div 16]
                 y == NibbleXor[a % 16][b % 16]
                 z == NibbleXor[a \div 16][c \div 16]
                 w == NibbleXor[a % 16][c % 16]
      <4>1. 16 * x + y = 16 * z + w
        BY <1>5, Zenon DEF Xor
      <4>2. x \in 0..15 /\ y \in 0..15 /\ z \in 0..15 /\ w \in 0..15
        BY <3>1
      <4> HIDE DEF x, y, z, w
      <4>3. x = z /\ y = w
        BY <4>1, <4>2
      <4> QED
        BY <4>3 DEF x, y, z, w
  <2>2. b \div 16 = c \div 16 /\ b % 16 = c % 16
    BY <2>0, <2>1, NibbleXorInjective
  <2>3. b = 16 * (b \div 16) + (b % 16) /\ c = 16 * (c \div 16) + (c % 16)
    BY <1>1
  <2> QED
    BY <2>2, <2>3
<1>6. ASSUME Xor(b, a) = Xor(c, a) PROVE b = c
  <2>0. /\ a \div 16 \in 0..15 /\ b \div 16 \in 0..15 /\ c \div 16 \in 0..15
        /\ a % 16 \in 0..15 /\ b % 16 \in 0..15 /\ c % 16 \in 0..15
    BY <1>1
  <2>1. /\ NibbleXor[b \div 16][a \div 16] = NibbleXor[c \div 16][a \div 16]
        /\ NibbleXor[b % 16][a % 16] = NibbleXor[c % 16][a % 16]
    <3>1. /\ NibbleXor[b \div 16][a \div 16] \in 0..15 /\ NibbleXor[b % 16][a % 16] \in 0..15
          /\ NibbleXor[c \div 16][a \div 16] \in 0..15 /\ NibbleXor[c % 16][a % 16] \in 0..15
      BY <1>2, <2>0
    <3> QED
      <4> DEFINE x == NibbleXor[b \div 16][a \div 16]
                 y == NibbleXor[b % 16][a % 16]
                 z == NibbleXor[c \div 16][a \div 16]
                 w == NibbleXor[c % 16][a % 16]
      <4>1. 16 * x + y = 16 * z + w
        BY <1>6, Zenon DEF Xor
      <4>2. x \in 0..15 /\ y \in 0..15 /\ z \in 0..15 /\ w \in 0..15
        BY <3>1
      <4> HIDE DEF x, y, z, w
      <4>3. x = z /\ y = w
        BY <4>1, <4>2
      <4> QED
        BY <4>3 DEF x, y, z, w
  <2>2. b \div 16 = c \div 16 /\ b % 16 = c % 16
    BY <2>0, <2>1, NibbleXorInjective
  <2>3. b = 16 * (b \div 16) + (b % 16) /\ c = 16 * (c \div 16) + (c % 16)
    BY <1>1
  <2> QED
    BY <2>2, <2>3
<1> QED
  BY <1>4, <1>5, <1>6

\* The tables: bytes, and no two entries of the one for the high byte are the same.
LEMMA Tables ==
  /\ \A i \in 1..256 : auchCRCLo[i] \in Byte /\ auchCRCHi[i] \in Byte
  /\ \A i, j \in 1..256 : auchCRCLo[i] = auchCRCLo[j] => i = j
<1>1. \A i \in 1..256 : auchCRCLo[i] \in Byte
  BY DEF auchCRCLo, Byte
<1>2. \A i \in 1..256 : auchCRCHi[i] \in Byte
  BY DEF auchCRCHi, Byte
<1>3. \A i, j \in 1..256 : auchCRCLo[i] = auchCRCLo[j] => i = j
  BY SMTT(60) DEF auchCRCLo
<1> QED
  BY <1>1, <1>2, <1>3

\* A step loses nothing: what went in differs, what comes out does.
LEMMA StepInjective ==
  ASSUME NEW c \in Word, NEW b \in Byte, NEW d \in Word, NEW e \in Byte
  PROVE  /\ Step(c, b) \in Word
         /\ Step(c, b) = Step(d, e) => (c = d <=> b = e)
<1> DEFINE i == Xor(c % 256, b) + 1
           j == Xor(d % 256, e) + 1
<1>1. \A n \in Word : n % 256 \in Byte /\ n \div 256 \in Byte /\ n = 256 * (n \div 256) + (n % 256)
  BY WordHalves
<1>2. i \in 1..256 /\ j \in 1..256
  <2>1. Xor(c % 256, b) \in Byte /\ Xor(d % 256, e) \in Byte
    BY <1>1, XorInjective
  <2> QED
    BY <2>1, Digits
<1>3. /\ \A k, l \in Byte : 256 * k + l \in Word
      /\ \A k, l, m, n \in Byte : 256 * k + l = 256 * m + n => k = m /\ l = n
  BY Digits
<1>4. auchCRCLo[i] \in Byte /\ auchCRCHi[i] \in Byte /\ auchCRCLo[j] \in Byte /\ auchCRCHi[j] \in Byte
  <2> DEFINE Index == 1..256
  <2>1. \A k \in Index : auchCRCLo[k] \in Byte /\ auchCRCHi[k] \in Byte
    BY Tables
  <2>2. i \in Index /\ j \in Index
    BY <1>2
  <2> HIDE DEF Index, i, j
  <2> QED
    BY <2>1, <2>2
<1>5. Xor(c \div 256, auchCRCHi[i]) \in Byte /\ Xor(d \div 256, auchCRCHi[j]) \in Byte
  BY <1>1, <1>4, XorInjective
<1>6. /\ Step(c, b) = 256 * auchCRCLo[i] + Xor(c \div 256, auchCRCHi[i])
      /\ Step(d, e) = 256 * auchCRCLo[j] + Xor(d \div 256, auchCRCHi[j])
  BY DEF Step
<1> HIDE DEF i, j
<1>7. ASSUME Step(c, b) = Step(d, e) PROVE c = d <=> b = e
  <2>1. auchCRCLo[i] = auchCRCLo[j] /\ Xor(c \div 256, auchCRCHi[i]) = Xor(d \div 256, auchCRCHi[j])
    BY <1>3, <1>4, <1>5, <1>6, <1>7
  <2>2. i = j
    BY <1>2, <2>1, Tables
  <2>3. c \div 256 = d \div 256
    BY <1>1, <1>4, <2>1, <2>2, XorInjective
  <2>4. Xor(c % 256, b) = Xor(d % 256, e)
    <3>1. Xor(c % 256, b) \in Byte /\ Xor(d % 256, e) \in Byte
      BY <1>1, XorInjective
    <3> QED
      <4>1. Xor(c % 256, b) + 1 = Xor(d % 256, e) + 1
        BY <2>2 DEF i, j
      <4> QED
        <5>1. \A k, l \in Byte : k + 1 = l + 1 => k = l
          BY Digits
        <5> QED
          BY <3>1, <4>1, <5>1, Zenon
  <2>4a. c % 256 \in Byte /\ d % 256 \in Byte
    BY <1>1
  <2>4b. c = 256 * (c \div 256) + (c % 256) /\ d = 256 * (d \div 256) + (d % 256)
    BY <1>1
  <2>5. b = e => c % 256 = d % 256
    BY <2>4, <2>4a, XorInjective
  <2>6. c = d => b = e
    BY <2>4, <2>4a, XorInjective
  <2>7. b = e => c = d
    BY <2>3, <2>4b, <2>5
  <2> QED
    BY <2>6, <2>7
<1> QED
  BY <1>3, <1>4, <1>5, <1>6, <1>7

\* The steps that CRC16 takes over a list of bytes.
Steps(data) == [i \in 1..Len(data) |-> [c \in Word |-> Step(c, data[i])]]

\* Each step of the CRC maps words to words, and no two words to one.
LEMMA StepsAre ==
  ASSUME NEW data \in Seq(Byte)
  PROVE  /\ Len(data) \in Nat
         /\ \A i \in 1..Len(data) : Steps(data)[i] \in [Word -> Word]
         /\ \A i \in 1..Len(data) : \A a, b \in Word : Steps(data)[i][a] = Steps(data)[i][b] => a = b
<1>1. Len(data) \in Nat /\ \A i \in 1..Len(data) : data[i] \in Byte
  OBVIOUS
<1>2. ASSUME NEW i \in 1..Len(data)
      PROVE  /\ Steps(data)[i] \in [Word -> Word]
             /\ \A a, b \in Word : Steps(data)[i][a] = Steps(data)[i][b] => a = b
  <2>1. Steps(data)[i] = [c \in Word |-> Step(c, data[i])]
    BY DEF Steps
  <2>2. data[i] \in Byte
    BY <1>1
  <2>3. \A a, b \in Word : Step(a, data[i]) \in Word /\ (Step(a, data[i]) = Step(b, data[i]) => a = b)
    BY <2>2, StepInjective
  <2> QED
    BY <2>1, <2>3
<1> QED
  BY <1>1, <1>2

\* The run of CRC16 over them, as its definition has it.
CrcRun(data) ==
  CHOOSE crc : crc = [n \in 0..Len(data) |->
                        IF n = 0 THEN 65535
                        ELSE [c \in Word |-> Step(c, data[n])][crc[n - 1]]]

\* The CRC is what its loop has at the end.
LEMMA CrcOfRun ==
  ASSUME NEW data
  PROVE  CRC16(data) = CrcRun(data)[Len(data)]
BY DEF CRC16, CrcRun

\* The loop of CRC16 (crc.go) runs through the bytes.
LEMMA CrcRuns ==
  ASSUME NEW data \in Seq(Byte)
  PROVE  Runs(CrcRun(data), Word, 65535, Len(data), Steps(data))
<1> DEFINE n == Len(data)
           g == Steps(data)
           A(h) == [i \in 0..n |-> IF i = 0 THEN 65535
                                   ELSE [c \in Word |-> Step(c, data[i])][h[i - 1]]]
           B(h) == [i \in 0..n |-> IF i = 0 THEN 65535 ELSE g[i][h[i - 1]]]
<1>1. n \in Nat /\ \A i \in 1..n : g[i] \in [Word -> Word]
  BY StepsAre
<1>2. 65535 \in Word
  BY DEF Word
<1>3. ASSUME NEW h PROVE A(h) = B(h)
  <2>1. \A i \in 0..n : i # 0 => g[i] = [c \in Word |-> Step(c, data[i])]
    BY <1>1 DEF Steps
  <2> HIDE DEF g
  <2> QED
    BY <2>1
<1>4. CrcRun(data) = CHOOSE h : h = A(h)
  BY DEF CrcRun
<1>5. ASSUME NEW h PROVE Runs(h, Word, 65535, n, g) <=> h = B(h)
  <2> HIDE DEF n, g
  <2> QED
    BY <1>1, <1>2, RunIs, SMTT(60)
<1> DEFINE h == TheRun(Word, 65535, n, g)
<1>6. Runs(h, Word, 65535, n, g)
  <2> HIDE DEF n, g
  <2> QED
    BY <1>1, <1>2, RunExists
<1> HIDE DEF n, g, h, A, B
<1>7. h = A(h)
  BY <1>3, <1>5, <1>6
<1>8. CrcRun(data) = A(CrcRun(data))
  BY <1>4, <1>7
<1> QED
  BY <1>3, <1>5, <1>8 DEF n, g

\* The CRC is a word.
LEMMA CrcIsWord ==
  ASSUME NEW data \in Seq(Byte)
  PROVE  CRC16(data) \in Word
<1>1. Len(data) \in Nat
  OBVIOUS
<1>2. CrcRun(data) \in [0..Len(data) -> Word]
  BY CrcRuns DEF Runs
<1> QED
  BY <1>1, <1>2, CrcOfRun

\* What CRC16 goes through: a step for every byte.
LEMMA CrcSteps ==
  ASSUME NEW data \in Seq(Byte), NEW i \in 1..Len(data)
  PROVE  /\ data[i] \in Byte
         /\ CrcRun(data)[i - 1] \in Word
         /\ CrcRun(data)[i] = Step(CrcRun(data)[i - 1], data[i])
<1>1. i - 1 \in 0..Len(data) /\ data[i] \in Byte
  OBVIOUS
<1>2. CrcRun(data) \in [0..Len(data) -> Word] /\ CrcRun(data)[i] = Steps(data)[i][CrcRun(data)[i - 1]]
  BY CrcRuns DEF Runs
<1>3. CrcRun(data)[i - 1] \in Word
  BY <1>1, <1>2
<1>4. Steps(data)[i] = [c \in Word |-> Step(c, data[i])]
  BY DEF Steps
<1> QED
  BY <1>1, <1>2, <1>3, <1>4

\* As long as the bytes are the same, so is what it has got.
LEMMA CrcAgrees ==
  ASSUME NEW data \in Seq(Byte), NEW other \in Seq(Byte),
         NEW q \in Nat, q <= Len(data), q <= Len(other),
         \A i \in 1..q : data[i] = other[i]
  PROVE  CrcRun(data)[q] = CrcRun(other)[q]
<1> DEFINE f == CrcRun(data)
           h == CrcRun(other)
           P == {j \in Nat : j <= q => f[j] = h[j]}
<1>1. 0 \in P
  BY CrcRuns DEF Runs
<1>2. ASSUME NEW j \in Nat, j \in P PROVE j + 1 \in P
  <2> SUFFICES ASSUME j + 1 <= q PROVE f[j + 1] = h[j + 1]
    OBVIOUS
  <2>1. f[j] = h[j]
    BY <1>2
  <2> DEFINE m == j + 1
  <2>2. m \in 1..q /\ m \in 1..Len(data) /\ m \in 1..Len(other) /\ m - 1 = j
    OBVIOUS
  <2> HIDE DEF m, f, h
  <2>3. f[m] = Step(f[m - 1], data[m]) /\ h[m] = Step(h[m - 1], other[m])
    BY <2>2, CrcSteps DEF f, h
  <2>4. f[m] = h[m]
    BY <2>1, <2>2, <2>3
  <2> QED
    BY <2>4 DEF m
<1> HIDE DEF P
<1>3. Nat \subseteq P
  BY <1>1, <1>2, Induction
<1> QED
  BY <1>3 DEF P

\* What it has got for two lists that go on alike stays different.
LEMMA CrcStaysApart ==
  ASSUME NEW data \in Seq(Byte), NEW other \in Seq(Byte), Len(data) = Len(other),
         NEW q \in 0..Len(data), CrcRun(data)[q] # CrcRun(other)[q],
         \A i \in q + 1..Len(data) : data[i] = other[i]
  PROVE  CRC16(data) # CRC16(other)
<1> DEFINE n == Len(data)
           f == CrcRun(data)
           h == CrcRun(other)
           P == {j \in Nat : q + j <= n => f[q + j] # h[q + j]}
<1>1. 0 \in P
  OBVIOUS
<1>2. ASSUME NEW j \in Nat, j \in P PROVE j + 1 \in P
  <2> SUFFICES ASSUME q + j + 1 <= n PROVE f[q + j + 1] # h[q + j + 1]
    OBVIOUS
  <2>1. f[q + j] # h[q + j]
    BY <1>2
  <2> DEFINE m == q + j + 1
  <2>2. m \in q + 1..n /\ m \in 1..Len(data) /\ m \in 1..Len(other) /\ m - 1 = q + j
    OBVIOUS
  <2>3. data[m] = other[m]
    BY <2>2
  <2> HIDE DEF m, f, h
  <2>4. /\ f[m] = Step(f[m - 1], data[m]) /\ h[m] = Step(h[m - 1], other[m])
        /\ f[m - 1] \in Word /\ h[m - 1] \in Word /\ data[m] \in Byte
    BY <2>2, CrcSteps DEF f, h
  <2>5. f[m] # h[m]
    BY <2>1, <2>2, <2>3, <2>4, StepInjective
  <2> QED
    BY <2>5 DEF m
<1> HIDE DEF P
<1>3. Nat \subseteq P
  BY <1>1, <1>2, Induction
<1>4. n - q \in Nat /\ q + (n - q) = n
  OBVIOUS
<1>5. f[n] # h[n]
  BY <1>3, <1>4 DEF P
<1> QED
  BY <1>5, CrcOfRun

\* One byte that is another, wherever it is, changes the check.
LEMMA OneByteChangesCrc ==
  ASSUME NEW data \in Seq(Byte), NEW other \in Seq(Byte), Len(data) = Len(other),
         NEW p \in 1..Len(data), data[p] # other[p],
         \A i \in 1..Len(data) : i # p => data[i] = other[i]
  PROVE  CRC16(data) # CRC16(other)
<1> DEFINE q == p - 1
<1>1. /\ q \in Nat /\ q <= Len(data) /\ q <= Len(other)
      /\ \A i \in 1..q : i \in 1..Len(data) /\ i # p
      /\ \A i \in p + 1..Len(data) : i \in 1..Len(data) /\ i # p
  OBVIOUS
<1>2. (\A i \in 1..q : data[i] = other[i]) /\ \A i \in p + 1..Len(data) : data[i] = other[i]
  BY <1>1
<1>3. CrcRun(data)[q] = CrcRun(other)[q]
  <2> HIDE DEF q
  <2> QED
    BY <1>1, <1>2, CrcAgrees
<1>4. /\ CrcRun(data)[p] = Step(CrcRun(data)[q], data[p]) /\ data[p] \in Byte
      /\ CrcRun(other)[p] = Step(CrcRun(other)[q], other[p]) /\ other[p] \in Byte
      /\ CrcRun(data)[q] \in Word
  BY CrcSteps
<1>5. CrcRun(data)[p] # CrcRun(other)[p]
  <2> HIDE DEF q
  <2> QED
    BY <1>3, <1>4, StepInjective
<1>6. p \in 0..Len(data)
  OBVIOUS
<1> QED
  BY <1>2, <1>5, <1>6, CrcStaysApart

-----------------------------------------------------------------------------
(* Frames.                                                                 *)

\* The last two bytes, as one number.
LEMMA Halves ==
  ASSUME NEW w \in Word
  PROVE  /\ BE16(w) \in Seq(Byte) /\ Len(BE16(w)) = 2
         /\ 256 * BE16(w)[1] + BE16(w)[2] = w
<1>1. w \div 256 \in Byte /\ w % 256 \in Byte /\ w = 256 * (w \div 256) + (w % 256)
  BY WordHalves
<1>2. (w \div 256) % 256 = w \div 256
  <2> DEFINE q == w \div 256
  <2>1. q \in Byte
    BY <1>1
  <2> HIDE DEF q
  <2>2. q % 256 = q
    BY <2>1 DEF Byte
  <2> QED
    BY <2>2 DEF q
<1>3. BE16(w) = <<w \div 256, w % 256>>
  BY <1>2 DEF BE16
<1> QED
  BY <1>1, <1>3

\* What is sealed passes the check, and is otherwise what it was.
LEMMA SealIsSound ==
  ASSUME NEW buf \in Seq(Byte)
  PROVE  /\ Seal(buf) \in Seq(Byte) /\ Len(Seal(buf)) = Len(buf) + 2
         /\ \A i \in 1..Len(buf) : Seal(buf)[i] = buf[i]
         /\ Sound(Seal(buf))
<1> DEFINE w == CRC16(buf)
           b == BE16(w)
           s == Seal(buf)
           n == Len(buf)
<1>1. w \in Word
  BY CrcIsWord
<1>2. b \in Seq(Byte) /\ Len(b) = 2 /\ 256 * b[1] + b[2] = w
  BY <1>1, Halves
<1>3. s = buf \o b
  BY DEF Seal
<1> HIDE DEF b, s, w
<1>3a. /\ s \in Seq(Byte) /\ Len(s) = Len(buf) + Len(b)
       /\ \A i \in 1..Len(buf) + Len(b) :
            s[i] = IF i <= Len(buf) THEN buf[i] ELSE b[i - Len(buf)]
  BY <1>2, <1>3, ConcatProperties
<1>4. n \in Nat /\ s \in Seq(Byte) /\ Len(s) = n + 2
  BY <1>2, <1>3a
<1>5. \A i \in 1..n : s[i] = buf[i]
  BY <1>2, <1>3
<1>6. s[n + 1] = b[1] /\ s[n + 2] = b[2]
  <2>1. \A i \in 1..n + 2 : s[i] = IF i <= n THEN buf[i] ELSE b[i - n]
    BY <1>2, <1>3a
  <2> HIDE DEF n
  <2>2. /\ n + 1 \in 1..n + 2 /\ ~(n + 1 <= n) /\ n + 1 - n = 1
        /\ n + 2 \in 1..n + 2 /\ ~(n + 2 <= n) /\ n + 2 - n = 2
    BY <1>4
  <2>3. s[n + 1] = b[n + 1 - n]
    BY <1>4, <2>1, <2>2
  <2>4. s[n + 2] = b[n + 2 - n]
    BY <1>4, <2>1, <2>2
  <2> QED
    BY <2>2, <2>3, <2>4
<1>7. SubSeq(s, 1, n) = buf
  <2>1. SubSeq(s, 1, n) = [i \in 1..n |-> s[i]]
    BY <1>4
  <2>2. buf = [i \in 1..n |-> buf[i]]
    OBVIOUS
  <2> QED
    BY <1>5, <2>1, <2>2
<1>8. Sound(s)
  <2>1. Len(s) - 2 = n /\ Len(s) - 1 = n + 1 /\ Len(s) = n + 2
    BY <1>4
  <2> HIDE DEF n
  <2>2. CRC16(SubSeq(s, 1, Len(s) - 2)) = w
    BY <1>7, <2>1 DEF w
  <2>3. 256 * s[Len(s) - 1] + s[Len(s)] = w
    BY <1>2, <1>6, <2>1
  <2> QED
    BY <2>2, <2>3 DEF Sound
<1> QED
  BY <1>4, <1>5, <1>8 DEF s

\* A frame that passes the check does not pass it with another byte in any one place.
LEMMA OneByteSpoils ==
  ASSUME NEW frame \in Seq(Byte), Len(frame) >= 2, Sound(frame),
         NEW p \in 1..Len(frame), NEW v \in Byte, v # frame[p]
  PROVE  /\ [frame EXCEPT ![p] = v] \in Seq(Byte)
         /\ Len([frame EXCEPT ![p] = v]) = Len(frame)
         /\ ~Sound([frame EXCEPT ![p] = v])
<1> DEFINE other == [frame EXCEPT ![p] = v]
           n == Len(frame)
           m == n - 2
           a == SubSeq(frame, 1, m)
           b == SubSeq(other, 1, m)
<1>1. n \in Nat /\ m \in 0..n /\ m \in Nat /\ m < n - 1 /\ n - 1 \in 1..n /\ n \in 1..n /\ p \in 1..n
  OBVIOUS
<1>2. other \in Seq(Byte) /\ Len(other) = n
  OBVIOUS
<1>3. other[p] = v /\ \A i \in 1..n : i # p => other[i] = frame[i]
  OBVIOUS
<1> HIDE DEF other
<1>4. CRC16(a) = 256 * frame[n - 1] + frame[n]
  BY DEF Sound
<1>5. Sound(other) <=> CRC16(b) = 256 * other[n - 1] + other[n]
  BY <1>2 DEF Sound
<1>6. /\ a \in Seq(Byte) /\ Len(a) = m /\ \A i \in 1..m : a[i] = frame[i]
      /\ b \in Seq(Byte) /\ Len(b) = m /\ \A i \in 1..m : b[i] = other[i]
  BY <1>1, <1>2
<1>7. frame[n - 1] \in Byte /\ frame[n] \in Byte /\ other[n - 1] \in Byte /\ other[n] \in Byte
  BY <1>1, <1>2
<1>8. v # frame[p] /\ v \in Byte /\ n - 1 # n /\ \A i \in 1..m : i \in 1..n /\ i # n /\ i # n - 1
  BY <1>1
<1> HIDE DEF n, m, a, b
<1>9. CASE p \in 1..m
  <2>1. other[n - 1] = frame[n - 1] /\ other[n] = frame[n]
    BY <1>1, <1>3, <1>8, <1>9
  <2>2. a[p] # b[p]
    BY <1>3, <1>6, <1>8, <1>9
  <2>3. \A i \in 1..m : i # p => a[i] = b[i]
    BY <1>3, <1>6, <1>8
  <2>4. CRC16(a) # CRC16(b)
    BY <1>6, <1>9, <2>2, <2>3, OneByteChangesCrc
  <2> QED
    BY <1>2, <1>4, <1>5, <2>1, <2>4 DEF other, n
<1>10. CASE p \notin 1..m
  <2>1. p = n - 1 \/ p = n
    BY <1>1, <1>10 DEF m
  <2>2. \A i \in 1..m : a[i] = b[i]
    BY <1>3, <1>6, <1>8, <1>10
  <2>3. a = b
    <3>1. a = [i \in 1..m |-> a[i]] /\ b = [i \in 1..m |-> b[i]]
      BY <1>6
    <3> QED
      BY <2>2, <3>1
  <2>4. ~(other[n - 1] = frame[n - 1] /\ other[n] = frame[n])
    BY <1>3, <1>8, <2>1
  <2>5. 256 * other[n - 1] + other[n] # 256 * frame[n - 1] + frame[n]
    <3> DEFINE x == other[n - 1]
               y == other[n]
               z == frame[n - 1]
               t == frame[n]
    <3>1. x \in Byte /\ y \in Byte /\ z \in Byte /\ t \in Byte /\ ~(x = z /\ y = t)
      BY <1>7, <2>4
    <3> HIDE DEF x, y, z, t
    <3>2. 256 * x + y # 256 * z + t
      BY <3>1 DEF Byte
    <3> QED
      BY <3>2 DEF x, y, z, t
  <2> QED
    BY <1>2, <1>4, <1>5, <2>3, <2>5 DEF other, n
<1> QED
  BY <1>9, <1>10

-----------------------------------------------------------------------------
(* The topology.                                                           *)

\* f[i] follows from what f is above i: from the end down, there is such an f.
Descent(S, n, G) == \E f \in [0..n -> S] : \A i \in 0..n : f[i] = G[i][f]

\* A recursion from the end of a range down to its start exists, if each value depends on later
\* ones only.
LEMMA Descends ==
  ASSUME NEW S, NEW c \in S, NEW n \in Nat, NEW G,
         \A i \in 0..n : G[i] \in [[0..n -> S] -> S],
         \A i \in 0..n : \A h, k \in [0..n -> S] :
           (\A j \in i + 1..n : h[j] = k[j]) => G[i][h] = G[i][k]
  PROVE  Descent(S, n, G)
<1> DEFINE D == [0..n -> S]
           Right(m, f) == \A i \in 0..n : n < i + m => f[i] = G[i][f]
           P == {m \in Nat : m <= n + 1 => \E f \in D : Right(m, f)}
<1>1. 0 \in P
  <2>1. [i \in 0..n |-> c] \in D /\ Right(0, [i \in 0..n |-> c])
    OBVIOUS
  <2> QED
    BY <2>1
<1>2. ASSUME NEW m \in Nat, m \in P PROVE m + 1 \in P
  <2> SUFFICES ASSUME m + 1 <= n + 1 PROVE \E f \in D : Right(m + 1, f)
    OBVIOUS
  <2>1. PICK f \in D : Right(m, f)
    BY <1>2
  <2> DEFINE p == n - m
             v == G[p][f]
             h == [f EXCEPT ![p] = v]
  <2>2. p \in 0..n
    OBVIOUS
  <2>3. v \in S
    BY <2>1, <2>2
  <2>4. h \in D /\ h[p] = v /\ \A i \in 0..n : i # p => h[i] = f[i]
    BY <2>1, <2>2, <2>3
  <2>5. ASSUME NEW i \in 0..n, n < i + (m + 1) PROVE h[i] = G[i][h]
    <3>1. i >= p
      BY <2>5
    <3>2. \A j \in i + 1..n : j \in 0..n /\ j # p
      BY <3>1
    <3>3. \A j \in i + 1..n : h[j] = f[j]
      BY <2>4, <3>2
    <3>4. G[i][h] = G[i][f]
      BY <2>1, <2>4, <3>3, ZenonT(60)
    <3>5. CASE i = p
      BY <2>4, <3>4, <3>5
    <3>6. CASE i # p
      <4>1. n < i + m
        <5> HIDE DEF P, D, h, v
        <5> QED
          BY <3>1, <3>6, SMT
      <4>2. f[i] = G[i][f] /\ h[i] = f[i]
        BY <2>1, <2>4, <3>6, <4>1
      <4> QED
        BY <3>4, <4>2
    <3> QED
      BY <3>5, <3>6
  <2> HIDE DEF h
  <2> QED
    BY <2>4, <2>5
<1> HIDE DEF P
<1>3. Nat \subseteq P
  BY <1>1, <1>2, Induction
<1>4. PICK f \in D : Right(n + 1, f)
  <2>1. n + 1 \in Nat /\ n + 1 <= n + 1
    OBVIOUS
  <2>2. n + 1 \in P
    BY <1>3, <2>1
  <2> HIDE DEF Right
  <2> QED
    BY <2>1, <2>2 DEF P
<1>5. \A i \in 0..n : n < i + (n + 1)
  OBVIOUS
<1> QED
  BY <1>4, <1>5 DEF Descent

NextNode(b, i) == IF i + 17 < Len(b) /\ b[i + 18] = 36 THEN i + 18 ELSE i + 17

TopoStep(b, h, i) ==
  IF ~looksLikeNode(b, i) THEN {<<>>}
  ELSE IF i + 17 > Len(b) THEN {}
  ELSE {Node(b, i) \o rest : rest \in h[NextNode(b, i)]}

TopoRun(b) ==
  CHOOSE nodes : nodes =
    [i \in 0..Len(b) |->
        IF ~looksLikeNode(b, i) THEN {<<>>}
        ELSE IF i + 17 > Len(b) THEN {}
        ELSE LET j == i + 17
                 next == IF j < Len(b) /\ b[j + 1] = 36 THEN j + 1 ELSE j
             IN  {Node(b, i) \o rest : rest \in nodes[next]}]

\* parseTopo is its recursion at the first place that looks like a node.
LEMMA TopoOfRun ==
  ASSUME NEW b
  PROVE  parseTopo(b) =
           UNION {TopoRun(b)[i] : i \in {k \in {i \in 0..Len(b) : looksLikeNode(b, i)} :
                                           \A m \in {i \in 0..Len(b) : looksLikeNode(b, i)} : k <= m}}
BY DEF parseTopo, TopoRun

\* The next place that looks like a node is further on.
LEMMA NextNodeIs ==
  ASSUME NEW b, Len(b) \in Nat, NEW i \in Nat, i + 17 <= Len(b)
  PROVE  NextNode(b, i) \in i + 1..Len(b)
BY DEF NextNode

\* So the recursion of parseTopo is one: it has a value at every place.
LEMMA TopoRunIs ==
  ASSUME NEW b \in Seq(Byte)
  PROVE  \A i \in 0..Len(b) : TopoRun(b)[i] = TopoStep(b, TopoRun(b), i)
<1> DEFINE n == Len(b)
           S == SUBSET Seq(Byte)
           D == [0..n -> S]
           G == [i \in 0..n |-> [h \in D |-> TopoStep(b, h, i)]]
           A(h) == [i \in 0..n |->
                      IF ~looksLikeNode(b, i) THEN {<<>>}
                      ELSE IF i + 17 > Len(b) THEN {}
                      ELSE LET j == i + 17
                               next == IF j < Len(b) /\ b[j + 1] = 36 THEN j + 1 ELSE j
                           IN  {Node(b, i) \o rest : rest \in h[next]}]
           x == TopoRun(b)
<1>1. n \in Nat /\ {} \in S
  OBVIOUS
<1>2. ASSUME NEW i \in 0..n, i + 17 <= n PROVE Node(b, i) \in Seq(Byte)
  <2>1. /\ SubSeq(b, i + 1, i + 6) \in Seq(Byte) /\ b[i + 8] \in Byte /\ b[i + 10] \in Byte
        /\ SubSeq(b, i + 12, i + 17) \in Seq(Byte)
    BY <1>1, <1>2
  <2> QED
    BY <2>1 DEF Node
<1>3. ASSUME NEW i \in 0..n, NEW h \in D PROVE TopoStep(b, h, i) \in S
  <2>1. <<>> \in Seq(Byte)
    OBVIOUS
  <2>2. CASE looksLikeNode(b, i) /\ ~(i + 17 > Len(b))
    <3>1. NextNode(b, i) \in 0..n /\ Node(b, i) \in Seq(Byte)
      <4>1. i \in Nat /\ i + 17 <= Len(b)
        BY <1>1, <2>2
      <4>2. NextNode(b, i) \in i + 1..n
        BY <1>1, <4>1, NextNodeIs
      <4> QED
        BY <1>1, <1>2, <4>1, <4>2
    <3>2. h[NextNode(b, i)] \in S
      BY <3>1
    <3>3. \A rest \in h[NextNode(b, i)] : Node(b, i) \o rest \in Seq(Byte)
      BY <3>1, <3>2
    <3> QED
      BY <2>2, <3>3, Zenon DEF TopoStep
  <2> QED
    BY <2>1, <2>2, Zenon DEF TopoStep
<1>4. ASSUME NEW i \in 0..n, NEW h \in D, NEW k \in D, \A j \in i + 1..n : h[j] = k[j]
      PROVE  TopoStep(b, h, i) = TopoStep(b, k, i)
  <2>1. CASE looksLikeNode(b, i) /\ ~(i + 17 > Len(b))
    <3>1. i \in Nat /\ i + 17 <= Len(b)
      BY <1>1, <2>1
    <3>2. NextNode(b, i) \in i + 1..n
      BY <1>1, <3>1, NextNodeIs
    <3>3. h[NextNode(b, i)] = k[NextNode(b, i)]
      BY <1>4, <3>2
    <3> QED
      BY <3>3, Zenon DEF TopoStep
  <2> QED
    BY <2>1, Zenon DEF TopoStep
<1>5. ASSUME NEW h PROVE A(h) = [i \in 0..n |-> TopoStep(b, h, i)]
  <2>1. ASSUME NEW i \in 0..n
        PROVE  NextNode(b, i) = LET j == i + 17 IN IF j < Len(b) /\ b[j + 1] = 36 THEN j + 1 ELSE j
    <3>1. i + 17 + 1 = i + 18
      OBVIOUS
    <3> QED
      BY <3>1 DEF NextNode
  <2>2. ASSUME NEW i \in 0..n PROVE A(h)[i] = TopoStep(b, h, i)
    BY <2>1 DEF TopoStep
  <2>3. A(h) = [i \in 0..n |-> A(h)[i]]
    OBVIOUS
  <2> HIDE DEF A
  <2> QED
    BY <2>2, <2>3
<1>6. x = CHOOSE h : h = A(h)
  BY DEF TopoRun
<1>7. \A i \in 0..n : G[i] \in [D -> S]
  BY <1>3
<1>8. \A i \in 0..n : \A h \in D : G[i][h] = TopoStep(b, h, i)
  OBVIOUS
<1>9. \A i \in 0..n : \A h, k \in D : (\A j \in i + 1..n : h[j] = k[j]) => G[i][h] = G[i][k]
  <2> HIDE DEF G, D
  <2> QED
    BY <1>4, <1>8
<1> HIDE DEF G, A, x, n
<1>10. \E f \in D : \A i \in 0..n : f[i] = G[i][f]
  <2> HIDE DEF S
  <2>1. Descent(S, n, G)
    BY <1>1, <1>7, <1>9, Descends
  <2> QED
    BY <2>1, Zenon DEF Descent
<1>11. PICK f \in D : \A i \in 0..n : f[i] = TopoStep(b, f, i)
  BY <1>8, <1>10
<1>12. f = A(f)
  <2>1. f = [i \in 0..n |-> f[i]]
    OBVIOUS
  <2> QED
    BY <1>5, <1>11, <2>1
<1>13. x = A(x)
  BY <1>6, <1>12
<1> DEFINE y == [i \in 0..n |-> TopoStep(b, x, i)]
<1>14. \A i \in 0..n : y[i] = TopoStep(b, x, i)
  OBVIOUS
<1>15. x = y
  BY <1>5, <1>13
<1> HIDE DEF y
<1> QED
  BY <1>14, <1>15 DEF x, n
-----------------------------------------------------------------------------
(* The tables of the CRC and its polynomial.                               *)

Weights == {1, 2, 4, 8}
Nibble == 0..15

\* A nibble is the sum of its bits.
LEMMA NibbleOfBits ==
  ASSUME NEW n \in Nibble
  PROVE  /\ n = Bit(n, 1) + 2 * Bit(n, 2) + 4 * Bit(n, 4) + 8 * Bit(n, 8)
         /\ \A w \in Weights : Bit(n, w) \in {0, 1}
BY DEF Bit, Weights, Nibble

\* Nibbles with the same bits are the same.
LEMMA SameBits ==
  ASSUME NEW m \in Nibble, NEW n \in Nibble, \A w \in Weights : Bit(m, w) = Bit(n, w)
  PROVE  m = n
<1>1. /\ m = Bit(m, 1) + 2 * Bit(m, 2) + 4 * Bit(m, 4) + 8 * Bit(m, 8)
      /\ n = Bit(n, 1) + 2 * Bit(n, 2) + 4 * Bit(n, 4) + 8 * Bit(n, 8)
  BY NibbleOfBits
<1>2. Bit(m, 1) = Bit(n, 1) /\ Bit(m, 2) = Bit(n, 2) /\ Bit(m, 4) = Bit(n, 4) /\ Bit(m, 8) = Bit(n, 8)
  BY DEF Weights
<1> QED
  BY <1>1, <1>2, Zenon

\* The bits of a xor.
LEMMA XorBits ==
  ASSUME NEW a \in Nibble, NEW b \in Nibble
  PROVE  /\ NibbleXor[a][b] \in Nibble
         /\ \A w \in Weights : Bit(NibbleXor[a][b], w) = IF Bit(a, w) = Bit(b, w) THEN 0 ELSE 1
<1> DEFINE d1 == Differ(a, b, 1)
           d2 == Differ(a, b, 2)
           d4 == Differ(a, b, 4)
           d8 == Differ(a, b, 8)
<1>1. NibbleXor[a][b] = d1 + d2 + d4 + d8 /\ NibbleXor[a][b] \in Nibble
  BY NibbleXorIs DEF Nibble
<1>2. d1 \in {0, 1} /\ d2 \in {0, 2} /\ d4 \in {0, 4} /\ d8 \in {0, 8}
  BY DEF Differ
<1>3. /\ d1 = (IF Bit(a, 1) = Bit(b, 1) THEN 0 ELSE 1) /\ d2 = (IF Bit(a, 2) = Bit(b, 2) THEN 0 ELSE 2)
      /\ d4 = (IF Bit(a, 4) = Bit(b, 4) THEN 0 ELSE 4) /\ d8 = (IF Bit(a, 8) = Bit(b, 8) THEN 0 ELSE 8)
  BY Zenon DEF Differ
<1> HIDE DEF d1, d2, d4, d8
<1> DEFINE n == d1 + d2 + d4 + d8
<1>4. Bit(n, 1) = d1 /\ 2 * Bit(n, 2) = d2 /\ 4 * Bit(n, 4) = d4 /\ 8 * Bit(n, 8) = d8
  BY <1>2 DEF Bit
<1>5. n = NibbleXor[a][b]
  BY <1>1
<1> HIDE DEF n
<1>6. /\ Bit(n, 1) \in {0, 1} /\ Bit(n, 2) \in {0, 1} /\ Bit(n, 4) \in {0, 1} /\ Bit(n, 8) \in {0, 1}
  BY <1>1, <1>5, NibbleOfBits DEF Weights
<1>7. /\ Bit(n, 1) = (IF Bit(a, 1) = Bit(b, 1) THEN 0 ELSE 1)
      /\ Bit(n, 2) = (IF Bit(a, 2) = Bit(b, 2) THEN 0 ELSE 1)
      /\ Bit(n, 4) = (IF Bit(a, 4) = Bit(b, 4) THEN 0 ELSE 1)
      /\ Bit(n, 8) = (IF Bit(a, 8) = Bit(b, 8) THEN 0 ELSE 1)
  BY <1>3, <1>4, <1>6
<1> QED
  BY <1>1, <1>5, <1>7, Zenon DEF Weights

\* Xor is commutative and associative, 0 changes nothing, and each undoes itself.
LEMMA NibbleAlgebra ==
  ASSUME NEW a \in Nibble, NEW b \in Nibble, NEW c \in Nibble
  PROVE  /\ NibbleXor[a][b] = NibbleXor[b][a]
         /\ NibbleXor[NibbleXor[a][b]][c] = NibbleXor[a][NibbleXor[b][c]]
         /\ NibbleXor[a][a] = 0
         /\ NibbleXor[a][0] = a
<1> DEFINE N(m, n) == NibbleXor[m][n]
           X(p, q) == IF p = q THEN 0 ELSE 1
<1>1. /\ \A m, n \in Nibble : N(m, n) \in Nibble
      /\ \A m, n \in Nibble, w \in Weights : Bit(N(m, n), w) = X(Bit(m, w), Bit(n, w))
  BY XorBits
<1>2. /\ \A p, q : X(p, q) = X(q, p)
      /\ \A p : X(p, p) = 0
      /\ \A p \in {0, 1} : X(p, 0) = p
      /\ \A p, q, r \in {0, 1} : X(X(p, q), r) = X(p, X(q, r))
  OBVIOUS
<1> HIDE DEF N, X
<1>3. \A n \in Nibble, w \in Weights : Bit(n, w) \in {0, 1}
  BY NibbleOfBits
<1>4. 0 \in Nibble /\ \A w \in Weights : Bit(0, w) = 0
  BY DEF Bit, Weights, Nibble
<1>5. ASSUME NEW w \in Weights, NEW m \in Nibble, NEW n \in Nibble
      PROVE  Bit(N(m, n), w) = X(Bit(m, w), Bit(n, w))
  BY <1>1, Zenon
<1>6. N(a, b) = N(b, a)
  <2>1. ASSUME NEW w \in Weights PROVE Bit(N(a, b), w) = Bit(N(b, a), w)
    BY <1>2, <1>5, SMT
  <2>2. N(a, b) \in Nibble /\ N(b, a) \in Nibble
    BY <1>1, Zenon
  <2> QED
    BY <2>1, <2>2, SameBits, Zenon
<1>7. N(N(a, b), c) = N(a, N(b, c))
  <2>1. N(a, b) \in Nibble /\ N(b, c) \in Nibble
    BY <1>1, Zenon
  <2>2. N(N(a, b), c) \in Nibble /\ N(a, N(b, c)) \in Nibble
    BY <1>1, <2>1, Zenon
  <2>3. ASSUME NEW w \in Weights PROVE Bit(N(N(a, b), c), w) = Bit(N(a, N(b, c)), w)
    <3>1. /\ Bit(N(N(a, b), c), w) = X(X(Bit(a, w), Bit(b, w)), Bit(c, w))
          /\ Bit(N(a, N(b, c)), w) = X(Bit(a, w), X(Bit(b, w), Bit(c, w)))
      BY <1>5, <2>1, SMT
    <3>2. Bit(a, w) \in {0, 1} /\ Bit(b, w) \in {0, 1} /\ Bit(c, w) \in {0, 1}
      BY <1>3, Zenon
    <3> QED
      BY <1>2, <3>1, <3>2, SMT
  <2> QED
    BY <2>2, <2>3, SameBits, Zenon
<1>8. N(a, a) = 0 /\ N(a, 0) = a
  <2>1. ASSUME NEW w \in Weights PROVE Bit(N(a, a), w) = Bit(0, w) /\ Bit(N(a, 0), w) = Bit(a, w)
    <3>1. Bit(N(a, a), w) = X(Bit(a, w), Bit(a, w)) /\ Bit(N(a, 0), w) = X(Bit(a, w), Bit(0, w))
      BY <1>4, <1>5, Zenon
    <3>2. Bit(a, w) \in {0, 1} /\ Bit(0, w) = 0
      BY <1>3, <1>4, Zenon
    <3> QED
      BY <1>2, <3>1, <3>2, SMT
  <2>2. N(a, a) \in Nibble /\ N(a, 0) \in Nibble
    BY <1>1, <1>4, Zenon
  <2> QED
    BY <1>4, <2>1, <2>2, SameBits, Zenon
<1> QED
  BY <1>6, <1>7, <1>8, Zenon DEF N

\* A nibble shifted to the right, with the lowest bit of the one above it.
Half(h, n) == (n \div 2) + 8 * (h % 2)

\* The bits of a nibble shifted to the right are those of its neighbours.
LEMMA HalfBits ==
  ASSUME NEW h \in Nibble, NEW n \in Nibble
  PROVE  /\ Half(h, n) \in Nibble
         /\ Bit(Half(h, n), 8) = Bit(h, 1) /\ Bit(Half(h, n), 4) = Bit(n, 8)
         /\ Bit(Half(h, n), 2) = Bit(n, 4) /\ Bit(Half(h, n), 1) = Bit(n, 2)
BY DEF Half, Bit, Nibble

\* Shifting is linear.
LEMMA NibbleShift ==
  ASSUME NEW h \in Nibble, NEW n \in Nibble, NEW k \in Nibble, NEW m \in Nibble
  PROVE  Half(NibbleXor[h][k], NibbleXor[n][m]) = NibbleXor[Half(h, n)][Half(k, m)]
<1> DEFINE a == NibbleXor[h][k]
           b == NibbleXor[n][m]
           s == Half(h, n)
           t == Half(k, m)
           u == Half(a, b)
           v == NibbleXor[s][t]
           X(p, q) == IF p = q THEN 0 ELSE 1
<1>1. a \in Nibble /\ b \in Nibble
  BY XorBits
<1>2. s \in Nibble /\ t \in Nibble /\ u \in Nibble
  BY <1>1, HalfBits
<1>3. /\ Bit(s, 8) = Bit(h, 1) /\ Bit(s, 4) = Bit(n, 8) /\ Bit(s, 2) = Bit(n, 4) /\ Bit(s, 1) = Bit(n, 2)
      /\ Bit(t, 8) = Bit(k, 1) /\ Bit(t, 4) = Bit(m, 8) /\ Bit(t, 2) = Bit(m, 4) /\ Bit(t, 1) = Bit(m, 2)
      /\ Bit(u, 8) = Bit(a, 1) /\ Bit(u, 4) = Bit(b, 8) /\ Bit(u, 2) = Bit(b, 4) /\ Bit(u, 1) = Bit(b, 2)
  <2> HIDE DEF a, b
  <2> QED
    BY <1>1, HalfBits, SMT
<1>4. v \in Nibble /\ \A w \in Weights : Bit(v, w) = X(Bit(s, w), Bit(t, w))
  <2> HIDE DEF s, t
  <2> QED
    BY <1>2, XorBits, SMT
<1>5. /\ \A w \in Weights : Bit(a, w) = X(Bit(h, w), Bit(k, w))
      /\ \A w \in Weights : Bit(b, w) = X(Bit(n, w), Bit(m, w))
  BY XorBits
<1> HIDE DEF a, b, s, t, u, v
<1>7. \A w \in Weights : Bit(u, w) = Bit(v, w)
  <2> HIDE DEF X
  <2> QED
    BY <1>3, <1>4, <1>5, Zenon DEF Weights
<1>8. u = v
  BY <1>2, <1>4, <1>7, SameBits, Zenon
<1> QED
  BY <1>8, Zenon DEF a, b, s, t, u, v

\* The lowest bit of a xor of nibbles, as the remainder.
LEMMA NibbleParity ==
  ASSUME NEW n \in Nibble, NEW m \in Nibble
  PROVE  NibbleXor[n][m] % 2 = IF n % 2 = m % 2 THEN 0 ELSE 1
<1>1. NibbleXor[n][m] \in Nibble /\ Bit(NibbleXor[n][m], 1) = IF Bit(n, 1) = Bit(m, 1) THEN 0 ELSE 1
  BY XorBits, Zenon DEF Weights
<1>2. \A k \in Nibble : Bit(k, 1) = k % 2
  BY DEF Bit, Nibble
<1> QED
  BY <1>1, <1>2, Zenon

\* The halves of a xor of bytes.
LEMMA XorHalves ==
  ASSUME NEW a \in Byte, NEW b \in Byte
  PROVE  /\ Xor(a, b) \in Byte
         /\ Xor(a, b) \div 16 = NibbleXor[a \div 16][b \div 16]
         /\ Xor(a, b) % 16 = NibbleXor[a % 16][b % 16]
<1> DEFINE m == NibbleXor[a \div 16][b \div 16]
           n == NibbleXor[a % 16][b % 16]
<1>1. a \div 16 \in Nibble /\ a % 16 \in Nibble /\ b \div 16 \in Nibble /\ b % 16 \in Nibble
  BY ByteHalves DEF Nibble
<1>2. m \in Nibble /\ n \in Nibble
  BY <1>1, XorBits, Zenon
<1>3. Xor(a, b) = 16 * m + n
  BY Zenon DEF Xor
<1> HIDE DEF m, n
<1>4. (16 * m + n) \div 16 = m /\ (16 * m + n) % 16 = n /\ 16 * m + n \in Nat /\ 16 * m + n < 256
  BY <1>2 DEF Nibble
<1> QED
  BY <1>3, <1>4, ByteIs, Zenon DEF m, n

\* Bytes with the same halves are the same.
LEMMA SameHalves ==
  ASSUME NEW a \in Byte, NEW b \in Byte, a \div 16 = b \div 16, a % 16 = b % 16
  PROVE  a = b
<1>1. a = 16 * (a \div 16) + (a % 16) /\ b = 16 * (b \div 16) + (b % 16)
  BY ByteHalves, Zenon
<1> QED
  BY <1>1, Zenon

\* The same laws for bytes, half by half.
LEMMA ByteAlgebra ==
  ASSUME NEW a \in Byte, NEW b \in Byte, NEW c \in Byte
  PROVE  /\ Xor(a, b) = Xor(b, a)
         /\ Xor(Xor(a, b), c) = Xor(a, Xor(b, c))
         /\ Xor(a, a) = 0
         /\ Xor(a, 0) = a
<1> DEFINE N(p, q) == NibbleXor[p][q]
           D(n) == n \div 16
           M(n) == n % 16
<1>1. \A n \in Byte : D(n) \in Nibble /\ M(n) \in Nibble
  BY ByteHalves DEF Nibble
<1>2. 0 \in Byte /\ D(0) = 0 /\ M(0) = 0 /\ 0 \in Nibble
  BY DEF Byte, Nibble
<1>3. Xor(a, b) \in Byte /\ Xor(b, a) \in Byte /\ Xor(b, c) \in Byte /\ Xor(a, a) \in Byte /\ Xor(a, 0) \in Byte
  BY <1>2, XorHalves, Zenon
<1>4. Xor(Xor(a, b), c) \in Byte /\ Xor(a, Xor(b, c)) \in Byte
  BY <1>3, XorHalves, Zenon
<1>5. \A p, q, r \in Nibble : N(N(p, q), r) = N(p, N(q, r))
  BY NibbleAlgebra, SMT
<1>6. \A p, q \in Nibble : N(p, q) = N(q, p)
  BY NibbleAlgebra, Zenon
<1>7. \A p \in Nibble : N(p, p) = 0 /\ N(p, 0) = p
  BY NibbleAlgebra, Zenon
<1>8. ASSUME NEW p \in Byte, NEW q \in Byte
       PROVE  D(Xor(p, q)) = N(D(p), D(q)) /\ M(Xor(p, q)) = N(M(p), M(q))
  BY XorHalves, Zenon
<1>9. ASSUME NEW p \in Byte, NEW q \in Byte, D(p) = D(q), M(p) = M(q) PROVE p = q
  BY <1>9, SameHalves, Zenon
<1> HIDE DEF N, D, M
<1>10. Xor(a, b) = Xor(b, a)
  <2>1. D(Xor(a, b)) = D(Xor(b, a)) /\ M(Xor(a, b)) = M(Xor(b, a))
    BY <1>1, <1>6, <1>8, SMT
  <2> QED
    BY <1>3, <2>1, <1>9, Zenon
<1>11. Xor(Xor(a, b), c) = Xor(a, Xor(b, c))
  <2> DEFINE d == Xor(a, b)
             e == Xor(b, c)
  <2>1. /\ D(d) = N(D(a), D(b)) /\ M(d) = N(M(a), M(b))
        /\ D(e) = N(D(b), D(c)) /\ M(e) = N(M(b), M(c))
    BY <1>8, Zenon
  <2>2. d \in Byte /\ e \in Byte
    BY <1>3
  <2> HIDE DEF d, e
  <2>3. /\ D(Xor(d, c)) = N(D(d), D(c)) /\ M(Xor(d, c)) = N(M(d), M(c))
        /\ D(Xor(a, e)) = N(D(a), D(e)) /\ M(Xor(a, e)) = N(M(a), M(e))
    BY <1>8, <2>2, Zenon
  <2>4. D(Xor(d, c)) = D(Xor(a, e)) /\ M(Xor(d, c)) = M(Xor(a, e))
    BY <1>1, <1>5, <2>1, <2>3, SMT
  <2>5. Xor(d, c) \in Byte /\ Xor(a, e) \in Byte
    BY <2>2, XorHalves, Zenon
  <2>6. Xor(d, c) = Xor(a, e)
    BY <2>4, <2>5, <1>9, Zenon
  <2> QED
    BY <2>6, Zenon DEF d, e
<1>12. Xor(a, a) = 0
  <2>1. D(Xor(a, a)) = 0 /\ M(Xor(a, a)) = 0
    BY <1>1, <1>7, <1>8, SMT
  <2> QED
    BY <1>2, <1>3, <2>1, <1>9, Zenon
<1>13. Xor(a, 0) = a
  <2>1. D(Xor(a, 0)) = D(a) /\ M(Xor(a, 0)) = M(a)
    BY <1>1, <1>2, <1>7, <1>8, SMT
  <2> QED
    BY <1>2, <1>3, <2>1, <1>9, Zenon
<1> QED
  BY <1>10, <1>11, <1>12, <1>13, Zenon

\* The bytes of a xor of words.
LEMMA XorBytes ==
  ASSUME NEW a \in Word, NEW b \in Word
  PROVE  /\ Xor16(a, b) \in Word
         /\ Xor16(a, b) \div 256 = Xor(a \div 256, b \div 256)
         /\ Xor16(a, b) % 256 = Xor(a % 256, b % 256)
<1> DEFINE m == Xor(a \div 256, b \div 256)
           n == Xor(a % 256, b % 256)
<1>1. a \div 256 \in Byte /\ a % 256 \in Byte /\ b \div 256 \in Byte /\ b % 256 \in Byte
  BY WordHalves
<1>2. m \in Byte /\ n \in Byte
  BY <1>1, XorHalves, SMT
<1>3. Xor16(a, b) = 256 * m + n
  BY SMT DEF Xor16
<1> HIDE DEF m, n
<1>4. m \in Nat /\ m < 256 /\ n \in Nat /\ n < 256
  BY <1>2, ByteIs
<1>5. (256 * m + n) \div 256 = m /\ (256 * m + n) % 256 = n /\ 256 * m + n \in Nat /\ 256 * m + n < 65536
  BY <1>4
<1>6. 256 * m + n \in Word
  BY <1>5, WordIs, SMT
<1> QED
  BY <1>3, <1>5, <1>6 DEF m, n

\* Words with the same bytes are the same.
LEMMA SameBytes ==
  ASSUME NEW a \in Word, NEW b \in Word, a \div 256 = b \div 256, a % 256 = b % 256
  PROVE  a = b
<1>1. a = 256 * (a \div 256) + (a % 256) /\ b = 256 * (b \div 256) + (b % 256)
  BY WordHalves
<1> QED
  BY <1>1

\* And for words, byte by byte.
LEMMA WordAlgebra ==
  ASSUME NEW a \in Word, NEW b \in Word, NEW c \in Word
  PROVE  /\ Xor16(a, b) = Xor16(b, a)
         /\ Xor16(Xor16(a, b), c) = Xor16(a, Xor16(b, c))
         /\ Xor16(a, a) = 0
         /\ Xor16(a, 0) = a
<1> DEFINE N(p, q) == Xor(p, q)
           D(n) == n \div 256
           M(n) == n % 256
<1>1. \A n \in Word : D(n) \in Byte /\ M(n) \in Byte
  BY WordHalves
<1>2. 0 \in Word /\ D(0) = 0 /\ M(0) = 0 /\ 0 \in Byte
  BY ByteIs, WordIs
<1>3. Xor16(a, b) \in Word /\ Xor16(b, a) \in Word /\ Xor16(b, c) \in Word /\ Xor16(a, a) \in Word /\ Xor16(a, 0) \in Word
  BY <1>2, XorBytes, SMT
<1>4. Xor16(Xor16(a, b), c) \in Word /\ Xor16(a, Xor16(b, c)) \in Word
  BY <1>3, XorBytes, SMT
<1>5. \A p, q, r \in Byte : N(N(p, q), r) = N(p, N(q, r))
  BY ByteAlgebra, SMT
<1>6. \A p, q \in Byte : N(p, q) = N(q, p)
  BY ByteAlgebra, Zenon
<1>7. \A p \in Byte : N(p, p) = 0 /\ N(p, 0) = p
  BY ByteAlgebra, Zenon
<1>8. ASSUME NEW p \in Word, NEW q \in Word
       PROVE  D(Xor16(p, q)) = N(D(p), D(q)) /\ M(Xor16(p, q)) = N(M(p), M(q))
  BY XorBytes, SMT
<1>9. ASSUME NEW p \in Word, NEW q \in Word, D(p) = D(q), M(p) = M(q) PROVE p = q
  BY <1>9, SameBytes, Zenon
<1> HIDE DEF N, D, M
<1>10. Xor16(a, b) = Xor16(b, a)
  <2>1. D(Xor16(a, b)) = D(Xor16(b, a)) /\ M(Xor16(a, b)) = M(Xor16(b, a))
    BY <1>1, <1>6, <1>8, SMT
  <2> QED
    BY <1>3, <2>1, <1>9, Zenon
<1>11. Xor16(Xor16(a, b), c) = Xor16(a, Xor16(b, c))
  <2> DEFINE d == Xor16(a, b)
             e == Xor16(b, c)
  <2>1. /\ D(d) = N(D(a), D(b)) /\ M(d) = N(M(a), M(b))
        /\ D(e) = N(D(b), D(c)) /\ M(e) = N(M(b), M(c))
    BY <1>8, Zenon
  <2>2. d \in Word /\ e \in Word
    BY <1>3
  <2> HIDE DEF d, e
  <2>3. /\ D(Xor16(d, c)) = N(D(d), D(c)) /\ M(Xor16(d, c)) = N(M(d), M(c))
        /\ D(Xor16(a, e)) = N(D(a), D(e)) /\ M(Xor16(a, e)) = N(M(a), M(e))
    BY <1>8, <2>2, Zenon
  <2>4. D(Xor16(d, c)) = D(Xor16(a, e)) /\ M(Xor16(d, c)) = M(Xor16(a, e))
    BY <1>1, <1>5, <2>1, <2>3, SMT
  <2>5. Xor16(d, c) \in Word /\ Xor16(a, e) \in Word
    BY <2>2, XorBytes, SMT
  <2>6. Xor16(d, c) = Xor16(a, e)
    BY <2>4, <2>5, <1>9, Zenon
  <2> QED
    BY <2>6, Zenon DEF d, e
<1>12. Xor16(a, a) = 0
  <2>1. D(Xor16(a, a)) = 0 /\ M(Xor16(a, a)) = 0
    BY <1>1, <1>7, <1>8, SMT
  <2> QED
    BY <1>2, <1>3, <2>1, <1>9, Zenon
<1>13. Xor16(a, 0) = a
  <2>1. D(Xor16(a, 0)) = D(a) /\ M(Xor16(a, 0)) = M(a)
    BY <1>1, <1>2, <1>7, <1>8, SMT
  <2> QED
    BY <1>2, <1>3, <2>1, <1>9, Zenon
<1> QED
  BY <1>10, <1>11, <1>12, <1>13, Zenon

\* A byte shifted to the right, with the lowest bit of the one above it.
HalfByte(h, n) == (n \div 2) + 128 * (h % 2)

\* The halves of a byte that is shifted so.
LEMMA HalfByteHalves ==
  ASSUME NEW h \in Byte, NEW n \in Byte
  PROVE  /\ HalfByte(h, n) \in Byte
         /\ HalfByte(h, n) \div 16 = Half(h % 16, n \div 16)
         /\ HalfByte(h, n) % 16 = Half(n \div 16, n % 16)
         /\ n % 2 = (n % 16) % 2
<1>1. h \in Nat /\ h < 256 /\ n \in Nat /\ n < 256
  BY ByteIs
<1>2. HalfByte(h, n) \in Nat /\ HalfByte(h, n) < 256
  BY <1>1 DEF HalfByte
<1>3. /\ HalfByte(h, n) \div 16 = Half(h % 16, n \div 16)
      /\ HalfByte(h, n) % 16 = Half(n \div 16, n % 16)
      /\ n % 2 = (n % 16) % 2
  BY <1>1 DEF HalfByte, Half
<1> QED
  BY <1>2, <1>3, ByteIs

\* Shifting bytes is linear, and so is the bit that falls out.
LEMMA ByteShift ==
  ASSUME NEW h \in Byte, NEW n \in Byte, NEW k \in Byte, NEW m \in Byte
  PROVE  /\ HalfByte(Xor(h, k), Xor(n, m)) = Xor(HalfByte(h, n), HalfByte(k, m))
         /\ Xor(n, m) % 2 = IF n % 2 = m % 2 THEN 0 ELSE 1
<1> DEFINE a == Xor(h, k)
           b == Xor(n, m)
           s == HalfByte(h, n)
           t == HalfByte(k, m)
           u == HalfByte(a, b)
           v == Xor(s, t)
           N(p, q) == NibbleXor[p][q]
<1>1. /\ a \in Byte /\ a \div 16 = N(h \div 16, k \div 16) /\ a % 16 = N(h % 16, k % 16)
      /\ b \in Byte /\ b \div 16 = N(n \div 16, m \div 16) /\ b % 16 = N(n % 16, m % 16)
  BY XorHalves, Zenon
<1>2. /\ s \in Byte /\ s \div 16 = Half(h % 16, n \div 16) /\ s % 16 = Half(n \div 16, n % 16)
      /\ t \in Byte /\ t \div 16 = Half(k % 16, m \div 16) /\ t % 16 = Half(m \div 16, m % 16)
  BY HalfByteHalves, Zenon
<1>3. u \in Byte /\ u \div 16 = Half(a % 16, b \div 16) /\ u % 16 = Half(b \div 16, b % 16)
  <2> HIDE DEF a, b
  <2> QED
    BY <1>1, HalfByteHalves, Zenon
<1>4. v \in Byte /\ v \div 16 = N(s \div 16, t \div 16) /\ v % 16 = N(s % 16, t % 16)
  <2> HIDE DEF s, t
  <2> QED
    BY <1>2, XorHalves, Zenon
<1>5. /\ h % 16 \in Nibble /\ n \div 16 \in Nibble /\ n % 16 \in Nibble
      /\ k % 16 \in Nibble /\ m \div 16 \in Nibble /\ m % 16 \in Nibble
  BY ByteHalves DEF Nibble
<1>7. /\ Half(N(h % 16, k % 16), N(n \div 16, m \div 16)) = N(Half(h % 16, n \div 16), Half(k % 16, m \div 16))
      /\ Half(N(n \div 16, m \div 16), N(n % 16, m % 16)) = N(Half(n \div 16, n % 16), Half(m \div 16, m % 16))
  <2> DEFINE x == h % 16
             y == k % 16
             i == n \div 16
             j == m \div 16
             z == n % 16
             w == m % 16
  <2>1. x \in Nibble /\ y \in Nibble /\ i \in Nibble /\ j \in Nibble /\ z \in Nibble /\ w \in Nibble
    BY <1>5
  <2> HIDE DEF x, y, i, j, z, w
  <2>2. Half(N(x, y), N(i, j)) = N(Half(x, i), Half(y, j))
    BY <2>1, NibbleShift, SMT
  <2>3. Half(N(i, j), N(z, w)) = N(Half(i, z), Half(j, w))
    BY <2>1, NibbleShift, SMT
  <2> QED
    BY <2>2, <2>3, Zenon DEF x, y, i, j, z, w
<1>8. b % 2 = (b % 16) % 2 /\ n % 2 = (n % 16) % 2 /\ m % 2 = (m % 16) % 2
  <2> HIDE DEF b
  <2> QED
    BY <1>1, HalfByteHalves, Zenon
<1>9. N(n % 16, m % 16) % 2 = IF (n % 16) % 2 = (m % 16) % 2 THEN 0 ELSE 1
  BY <1>5, NibbleParity, Zenon
<1>10. b % 2 = IF n % 2 = m % 2 THEN 0 ELSE 1
  BY <1>1, <1>8, <1>9, Zenon
<1> HIDE DEF N, a, b, s, t, u, v
<1>11. u \div 16 = v \div 16 /\ u % 16 = v % 16
  BY <1>1, <1>2, <1>3, <1>4, <1>7, Zenon
<1>12. u = v
  BY <1>3, <1>4, <1>11, SameHalves, Zenon
<1> QED
  BY <1>10, <1>12, Zenon DEF a, b, s, t, u, v

\* And for words.
LEMMA WordShift ==
  ASSUME NEW a \in Word, NEW b \in Word
  PROVE  /\ a \div 2 \in Word
         /\ Xor16(a, b) \div 2 = Xor16(a \div 2, b \div 2)
         /\ Xor16(a, b) % 2 = IF a % 2 = b % 2 THEN 0 ELSE 1
<1> DEFINE D(n) == n \div 256
           M(n) == n % 256
           c == Xor16(a, b)
<1>1. \A n \in Word : D(n) \in Byte /\ M(n) \in Byte
  BY WordHalves
<1>2. ASSUME NEW n \in Word
      PROVE  /\ n \div 2 \in Word
             /\ D(n \div 2) = HalfByte(0, D(n)) /\ M(n \div 2) = HalfByte(D(n), M(n))
             /\ n % 2 = M(n) % 2
  <2>1. n \in Nat /\ n < 65536
    BY WordIs, SMT
  <2>2. n \div 2 \in Nat /\ n \div 2 < 65536
    BY <2>1
  <2>3. /\ D(n \div 2) = HalfByte(0, D(n)) /\ M(n \div 2) = HalfByte(D(n), M(n))
        /\ n % 2 = M(n) % 2
    BY <2>1 DEF HalfByte
  <2> QED
    BY <2>2, <2>3, WordIs, SMT
<1>3. c \in Word /\ D(c) = Xor(D(a), D(b)) /\ M(c) = Xor(M(a), M(b))
  BY XorBytes, SMT
<1> DEFINE d == a \div 2
           e == b \div 2
           f == c \div 2
           g == Xor16(d, e)
<1>4. d \in Word /\ e \in Word /\ f \in Word
  BY <1>2, <1>3
<1>5. g \in Word /\ D(g) = Xor(D(d), D(e)) /\ M(g) = Xor(M(d), M(e))
  <2> HIDE DEF d, e
  <2> QED
    BY <1>4, XorBytes, SMT
<1>6. /\ D(d) = HalfByte(0, D(a)) /\ M(d) = HalfByte(D(a), M(a))
      /\ D(e) = HalfByte(0, D(b)) /\ M(e) = HalfByte(D(b), M(b))
      /\ D(f) = HalfByte(0, D(c)) /\ M(f) = HalfByte(D(c), M(c))
  <2> HIDE DEF c, D, M
  <2> QED
    BY <1>2, <1>3, Zenon
<1>7. a % 2 = M(a) % 2 /\ b % 2 = M(b) % 2 /\ c % 2 = M(c) % 2
  <2> HIDE DEF c, D, M
  <2> QED
    BY <1>2, <1>3, Zenon
<1>8. 0 \in Byte /\ Xor(0, 0) = 0
  <2>1. 0 \in Byte
    BY ByteIs
  <2> QED
    BY <2>1, ByteAlgebra, Zenon
<1>9. D(a) \in Byte /\ M(a) \in Byte /\ D(b) \in Byte /\ M(b) \in Byte
  BY <1>1, Zenon
<1> HIDE DEF D, M, c, d, e, f, g
<1>10. HalfByte(Xor(0, 0), Xor(D(a), D(b))) = Xor(HalfByte(0, D(a)), HalfByte(0, D(b)))
  BY <1>8, <1>9, ByteShift, SMT
<1>11. HalfByte(Xor(D(a), D(b)), Xor(M(a), M(b))) = Xor(HalfByte(D(a), M(a)), HalfByte(D(b), M(b)))
  BY <1>9, ByteShift, SMT
<1>12. Xor(M(a), M(b)) % 2 = IF M(a) % 2 = M(b) % 2 THEN 0 ELSE 1
  BY <1>9, ByteShift, Zenon
<1>13. D(f) = D(g) /\ M(f) = M(g)
  BY <1>3, <1>5, <1>6, <1>8, <1>10, <1>11, Zenon
<1>14. f = g
  BY <1>4, <1>5, <1>13, SameBytes, SMT DEF D, M
<1>15. c % 2 = IF a % 2 = b % 2 THEN 0 ELSE 1
  BY <1>3, <1>7, <1>12, Zenon
<1> QED
  BY <1>4, <1>14, <1>15, Zenon DEF c, d, e, f, g

\* The xor of two bytes, bit by bit.
XorSum(a, b) ==
  Differ(a, b, 1) + Differ(a, b, 2) + Differ(a, b, 4) + Differ(a, b, 8)
    + Differ(a, b, 16) + Differ(a, b, 32) + Differ(a, b, 64) + Differ(a, b, 128)

\* Xor, which goes by halves, is the sum of the bits that differ.
LEMMA XorIsSum ==
  ASSUME NEW a \in Byte, NEW b \in Byte
  PROVE  Xor(a, b) = XorSum(a, b)
<1>1. a \div 16 \in 0..15 /\ a % 16 \in 0..15 /\ b \div 16 \in 0..15 /\ b % 16 \in 0..15
  BY ByteHalves
<1>2. /\ NibbleXor[a \div 16][b \div 16]
           = Differ(a \div 16, b \div 16, 1) + Differ(a \div 16, b \div 16, 2)
             + Differ(a \div 16, b \div 16, 4) + Differ(a \div 16, b \div 16, 8)
      /\ NibbleXor[a % 16][b % 16]
           = Differ(a % 16, b % 16, 1) + Differ(a % 16, b % 16, 2)
             + Differ(a % 16, b % 16, 4) + Differ(a % 16, b % 16, 8)
  BY <1>1, NibbleXorIs, Zenon
<1>3. ASSUME NEW n \in Byte
      PROVE  /\ Bit(n \div 16, 1) = Bit(n, 16) /\ Bit(n \div 16, 2) = Bit(n, 32)
             /\ Bit(n \div 16, 4) = Bit(n, 64) /\ Bit(n \div 16, 8) = Bit(n, 128)
             /\ Bit(n % 16, 1) = Bit(n, 1) /\ Bit(n % 16, 2) = Bit(n, 2)
             /\ Bit(n % 16, 4) = Bit(n, 4) /\ Bit(n % 16, 8) = Bit(n, 8)
  <2>1. n \in Nat /\ n < 256
    BY ByteIs
  <2> QED
    BY <2>1 DEF Bit
<1>4. /\ 16 * Differ(a \div 16, b \div 16, 1) = Differ(a, b, 16)
      /\ 16 * Differ(a \div 16, b \div 16, 2) = Differ(a, b, 32)
      /\ 16 * Differ(a \div 16, b \div 16, 4) = Differ(a, b, 64)
      /\ 16 * Differ(a \div 16, b \div 16, 8) = Differ(a, b, 128)
      /\ Differ(a % 16, b % 16, 1) = Differ(a, b, 1) /\ Differ(a % 16, b % 16, 2) = Differ(a, b, 2)
      /\ Differ(a % 16, b % 16, 4) = Differ(a, b, 4) /\ Differ(a % 16, b % 16, 8) = Differ(a, b, 8)
  BY <1>3 DEF Differ
<1>5. \A w \in {1, 2, 4, 8, 16, 32, 64, 128} : Differ(a, b, w) \in Int
  BY DEF Differ
<1>6. \A w \in {1, 2, 4, 8} : Differ(a \div 16, b \div 16, w) \in Int
  BY DEF Differ
<1> QED
  BY <1>2, <1>4, <1>5, <1>6 DEF Xor, XorSum

\* What the tables hold of a byte.
TableWord(n) == 256 * auchCRCLo[n + 1] + auchCRCHi[n + 1]

\* The tables are linear: what they hold of a byte is the xor of what they hold of its highest bit
\* and of the rest.
LEMMA TablesLinear ==
  ASSUME NEW w \in {1, 2, 4, 8, 16, 32, 64, 128}, NEW m \in Nat, m < w
  PROVE  /\ auchCRCLo[w + m + 1] = XorSum(auchCRCLo[w + 1], auchCRCLo[m + 1])
         /\ auchCRCHi[w + m + 1] = XorSum(auchCRCHi[w + 1], auchCRCHi[m + 1])
         /\ w + m = XorSum(w, m)
<1>1. auchCRCLo[w + m + 1] = XorSum(auchCRCLo[w + 1], auchCRCLo[m + 1])
  BY SMTT(100) DEF auchCRCLo, XorSum, Differ, Bit
<1>2. auchCRCHi[w + m + 1] = XorSum(auchCRCHi[w + 1], auchCRCHi[m + 1])
  BY SMTT(100) DEF auchCRCHi, XorSum, Differ, Bit
<1>3. w + m = XorSum(w, m)
  BY SMTT(100) DEF XorSum, Differ, Bit
<1> QED
  BY <1>1, <1>2, <1>3

\* A shift of the CRC register: a word, and linear.
LEMMA ShiftIs ==
  ASSUME NEW n \in Word
  PROVE  /\ Polynomial \in Word /\ n \div 2 \in Word /\ Shift(n) \in Word
         /\ Shift(n) = IF n % 2 = 1 THEN Xor16(n \div 2, Polynomial) ELSE n \div 2
<1>1. Polynomial \in Word
  BY WordIs, SMT DEF Polynomial
<1>2. n \div 2 \in Word
  BY WordShift, Zenon
<1>3. Xor16(n \div 2, Polynomial) \in Word
  BY <1>1, <1>2, XorBytes, SMT
<1> QED
  BY <1>1, <1>2, <1>3, Zenon DEF Shift

\* A shift of a xor is the xor of the shifts: the polynomial comes in for one of the two
\* words, for neither, or twice.
LEMMA ShiftLinear ==
  ASSUME NEW a \in Word, NEW b \in Word
  PROVE  Shift(Xor16(a, b)) = Xor16(Shift(a), Shift(b))
<1> DEFINE c == Xor16(a, b)
           p == Polynomial
           d == a \div 2
           e == b \div 2
           f == c \div 2
           X(m, n) == Xor16(m, n)
<1>1. c \in Word
  BY XorBytes, SMT
<1>2. p \in Word /\ d \in Word /\ e \in Word
  BY ShiftIs, Zenon
<1>3. f = X(d, e) /\ c % 2 = IF a % 2 = b % 2 THEN 0 ELSE 1
  BY WordShift, Zenon
<1>4. /\ Shift(a) = IF a % 2 = 1 THEN X(d, p) ELSE d
      /\ Shift(b) = IF b % 2 = 1 THEN X(e, p) ELSE e
  BY ShiftIs, Zenon
<1>5. Shift(c) = IF c % 2 = 1 THEN X(f, p) ELSE f
  <2> HIDE DEF c
  <2> QED
    BY <1>1, ShiftIs, Zenon
<1>6. (a % 2 = 0 \/ a % 2 = 1) /\ (b % 2 = 0 \/ b % 2 = 1)
  <2>1. a \in Nat /\ b \in Nat
    BY WordIs, SMT
  <2> QED
    BY <2>1
<1>7. /\ X(X(d, e), p) = X(d, X(e, p)) /\ X(X(d, p), e) = X(d, X(p, e)) /\ X(e, p) = X(p, e)
      /\ X(X(d, p), X(e, p)) = X(d, e)
  <2> HIDE DEF p, d, e
  <2>1. /\ Xor16(Xor16(d, e), p) = Xor16(d, Xor16(e, p)) /\ Xor16(Xor16(d, p), e) = Xor16(d, Xor16(p, e))
        /\ Xor16(e, p) = Xor16(p, e)
    BY <1>2, WordAlgebra, SMT
  <2> DEFINE q == Xor16(p, e)
  <2>2. q \in Word
    BY <1>2, XorBytes, SMT
  <2>3. Xor16(Xor16(d, p), q) = Xor16(d, Xor16(p, q))
    <3> HIDE DEF q
    <3> QED
      BY <1>2, <2>2, WordAlgebra, SMT
  <2>4. Xor16(p, q) = Xor16(Xor16(p, p), e) /\ Xor16(p, p) = 0
    BY <1>2, WordAlgebra, SMT
  <2>5. 0 \in Word /\ Xor16(0, e) = Xor16(e, 0) /\ Xor16(e, 0) = e
    <3>1. 0 \in Word
      BY WordIs, SMT
    <3> QED
      BY <1>2, <3>1, WordAlgebra, Zenon
  <2> QED
    BY <2>1, <2>3, <2>4, <2>5, Zenon
<1> HIDE DEF c, d, e, f, p, X
<1>8. CASE a % 2 = 0 /\ b % 2 = 0
  BY <1>3, <1>4, <1>5, <1>8, SMT DEF X, c
<1>9. CASE a % 2 = 0 /\ b % 2 = 1
  BY <1>3, <1>4, <1>5, <1>7, <1>9, SMT DEF X, c
<1>10. CASE a % 2 = 1 /\ b % 2 = 0
  BY <1>3, <1>4, <1>5, <1>7, <1>10, SMT DEF X, c
<1>11. CASE a % 2 = 1 /\ b % 2 = 1
  BY <1>3, <1>4, <1>5, <1>7, <1>11, SMT DEF X, c
<1> QED
  BY <1>6, <1>8, <1>9, <1>10, <1>11, Zenon

\* Eight shifts, one after the other.
LEMMA Shift8Is ==
  ASSUME NEW n \in Word
  PROVE  /\ Shift8(n) = Shift(Shift(Shift(Shift(Shift(Shift(Shift(Shift(n))))))))
         /\ Shift8(n) \in Word
<1> DEFINE s == [d \in Word |-> Shift(d)]
<1>1. ASSUME NEW d \in Word PROVE s[d] = Shift(d) /\ Shift(d) \in Word
  BY ShiftIs, Zenon
<1>2. Shift8(n) = s[s[s[s[s[s[s[s[n]]]]]]]]
  BY Zenon DEF Shift8
<1> HIDE DEF s
<1>3. s[n] = Shift(n) /\ Shift(n) \in Word
  BY <1>1, Zenon
<1>4. s[s[n]] = Shift(Shift(n)) /\ s[s[n]] \in Word
  BY <1>1, <1>3, Zenon
<1>5. s[s[s[n]]] = Shift(Shift(Shift(n))) /\ s[s[s[n]]] \in Word
  BY <1>1, <1>4, Zenon
<1>6. s[s[s[s[n]]]] = Shift(Shift(Shift(Shift(n)))) /\ s[s[s[s[n]]]] \in Word
  BY <1>1, <1>5, Zenon
<1>7. s[s[s[s[s[n]]]]] = Shift(Shift(Shift(Shift(Shift(n))))) /\ s[s[s[s[s[n]]]]] \in Word
  BY <1>1, <1>6, Zenon
<1>8. s[s[s[s[s[s[n]]]]]] = Shift(Shift(Shift(Shift(Shift(Shift(n)))))) /\ s[s[s[s[s[s[n]]]]]] \in Word
  BY <1>1, <1>7, Zenon
<1>9. /\ s[s[s[s[s[s[s[n]]]]]]] = Shift(Shift(Shift(Shift(Shift(Shift(Shift(n)))))))
      /\ s[s[s[s[s[s[s[n]]]]]]] \in Word
  BY <1>1, <1>8, Zenon
<1>10. /\ s[s[s[s[s[s[s[s[n]]]]]]]] = Shift(Shift(Shift(Shift(Shift(Shift(Shift(Shift(n))))))))
       /\ s[s[s[s[s[s[s[s[n]]]]]]]] \in Word
  BY <1>1, <1>9, Zenon
<1> QED
  BY <1>2, <1>10, Zenon

\* So are eight shifts.
LEMMA Shift8Linear ==
  ASSUME NEW a \in Word, NEW b \in Word
  PROVE  Shift8(Xor16(a, b)) = Xor16(Shift8(a), Shift8(b))
<1> DEFINE S(n) == Shift(n)
           P(m, n, r) == m \in Word /\ n \in Word /\ r = Xor16(m, n)
           c == Xor16(a, b)
<1>1. ASSUME NEW m, NEW n, NEW r, P(m, n, r) PROVE P(S(m), S(n), S(r))
  BY <1>1, ShiftLinear, ShiftIs, SMT
<1>2. P(a, b, c)
  OBVIOUS
<1>3. c \in Word
  BY XorBytes, SMT
<1> HIDE DEF c
<1>4. /\ Shift8(a) = S(S(S(S(S(S(S(S(a)))))))) /\ Shift8(b) = S(S(S(S(S(S(S(S(b))))))))
      /\ Shift8(c) = S(S(S(S(S(S(S(S(c))))))))
  BY <1>3, Shift8Is, Zenon
<1> HIDE DEF S, P
<1>5. P(S(S(S(a))), S(S(S(b))), S(S(S(c))))
  BY <1>1, <1>2, Zenon
<1>6. P(S(S(S(S(S(S(a)))))), S(S(S(S(S(S(b)))))), S(S(S(S(S(S(c)))))))
  BY <1>1, <1>5, SMT
<1>7. P(Shift8(a), Shift8(b), Shift8(c))
  BY <1>1, <1>4, <1>6, SMT
<1> QED
  BY <1>7, Zenon DEF P, c

\* Of the high byte nothing is left but the byte, eight places further down.
LEMMA Shift8OfHigh ==
  ASSUME NEW h \in Byte
  PROVE  256 * h \in Word /\ h \in Word /\ Shift8(256 * h) = h
<1>1. h \in Nat /\ h < 256
  BY ByteIs
<1>2. ASSUME NEW k \in Nat, k < 32768 PROVE Shift(2 * k) = k
  <2>1. 2 * k \in Nat /\ 2 * k < 65536 /\ (2 * k) % 2 # 1 /\ (2 * k) \div 2 = k
    BY <1>2
  <2>2. 2 * k \in Word
    BY <2>1, WordIs, SMT
  <2> QED
    BY <2>1, <2>2, ShiftIs, SMT
<1>3. /\ Shift(256 * h) = 128 * h /\ Shift(128 * h) = 64 * h /\ Shift(64 * h) = 32 * h
      /\ Shift(32 * h) = 16 * h /\ Shift(16 * h) = 8 * h /\ Shift(8 * h) = 4 * h
      /\ Shift(4 * h) = 2 * h /\ Shift(2 * h) = h
  <2>1. /\ 256 * h = 2 * (128 * h) /\ 128 * h = 2 * (64 * h) /\ 64 * h = 2 * (32 * h)
        /\ 32 * h = 2 * (16 * h) /\ 16 * h = 2 * (8 * h) /\ 8 * h = 2 * (4 * h) /\ 4 * h = 2 * (2 * h)
    BY <1>1
  <2>2. /\ 128 * h \in Nat /\ 128 * h < 32768 /\ 64 * h \in Nat /\ 64 * h < 32768
        /\ 32 * h \in Nat /\ 32 * h < 32768 /\ 16 * h \in Nat /\ 16 * h < 32768
        /\ 8 * h \in Nat /\ 8 * h < 32768 /\ 4 * h \in Nat /\ 4 * h < 32768
        /\ 2 * h \in Nat /\ 2 * h < 32768 /\ h < 32768
    BY <1>1
  <2> QED
    BY <1>1, <1>2, <2>1, <2>2, SMT
<1>4. 256 * h \in Nat /\ 256 * h < 65536 /\ h < 65536
  BY <1>1
<1>5. 256 * h \in Word /\ h \in Word
  BY <1>1, <1>4, WordIs, SMT
<1>6. Shift8(256 * h) = Shift(Shift(Shift(Shift(Shift(Shift(Shift(Shift(256 * h))))))))
  BY <1>5, Shift8Is, SMT
<1> QED
  BY <1>3, <1>5, <1>6, SMT

\* The shifts of the polynomial.
LEMMA ShiftOfOdd ==
  ASSUME NEW n \in Word, n % 2 = 1
  PROVE  Shift(n) = 256 * XorSum((n \div 2) \div 256, 160) + XorSum((n \div 2) % 256, 1)
<1>1. Shift(n) = Xor16(n \div 2, Polynomial) /\ n \div 2 \in Word
  BY ShiftIs, SMT
<1>2. Polynomial \div 256 = 160 /\ Polynomial % 256 = 1
  BY SMT DEF Polynomial
<1>3. Xor16(n \div 2, Polynomial) = 256 * Xor((n \div 2) \div 256, 160) + Xor((n \div 2) % 256, 1)
  BY <1>2, SMT DEF Xor16
<1>4. (n \div 2) \div 256 \in Byte /\ (n \div 2) % 256 \in Byte
  BY <1>1, WordHalves, SMT
<1>5. 160 \in Byte /\ 1 \in Byte
  BY ByteIs
<1>6. /\ Xor((n \div 2) \div 256, 160) = XorSum((n \div 2) \div 256, 160)
      /\ Xor((n \div 2) % 256, 1) = XorSum((n \div 2) % 256, 1)
  BY <1>4, <1>5, XorIsSum, SMT
<1> QED
  BY <1>1, <1>3, <1>6, SMT

\* What eight shifts make of a single bit is what the tables hold of it.
LEMMA Shift8OfBits ==
  ASSUME NEW w \in {1, 2, 4, 8, 16, 32, 64, 128}
  PROVE  Shift8(w) = TableWord(w)
<1>1. ASSUME NEW k \in Nat, k < 32768 PROVE Shift(2 * k) = k
  <2>1. 2 * k \in Nat /\ 2 * k < 65536 /\ (2 * k) % 2 # 1 /\ (2 * k) \div 2 = k
    BY <1>1
  <2>2. 2 * k \in Word
    BY <2>1, WordIs, SMT
  <2> QED
    BY <2>1, <2>2, ShiftIs, SMT
<1>2. ASSUME NEW n \in Nat, n < 65536, n % 2 = 1
      PROVE  Shift(n) = 256 * XorSum((n \div 2) \div 256, 160) + XorSum((n \div 2) % 256, 1)
  BY <1>2, WordIs, ShiftOfOdd, SMT
<1>3. /\ Shift(128) = 64 /\ Shift(64) = 32 /\ Shift(32) = 16 /\ Shift(16) = 8
      /\ Shift(8) = 4 /\ Shift(4) = 2 /\ Shift(2) = 1
  BY <1>1, SMT
<1>4. Shift(1) = 40961 /\ Shift(40961) = 61441 /\ Shift(61441) = 55297
  BY <1>2, SMT DEF XorSum, Differ, Bit
<1>5. Shift(55297) = 52225 /\ Shift(52225) = 50689 /\ Shift(50689) = 49921
  BY <1>2, SMT DEF XorSum, Differ, Bit
<1>6. Shift(49921) = 49537 /\ Shift(49537) = 49345
  BY <1>2, SMT DEF XorSum, Differ, Bit
<1>7. w \in Word
  BY WordIs, SMT
<1>8. Shift8(w) = Shift(Shift(Shift(Shift(Shift(Shift(Shift(Shift(w))))))))
  BY <1>7, Shift8Is, SMT
<1>9. /\ TableWord(1) = 49345 /\ TableWord(2) = 49537 /\ TableWord(4) = 49921 /\ TableWord(8) = 50689
      /\ TableWord(16) = 52225 /\ TableWord(32) = 55297 /\ TableWord(64) = 61441 /\ TableWord(128) = 40961
  BY SMT DEF TableWord, auchCRCLo, auchCRCHi
<1> QED
  BY <1>3, <1>4, <1>5, <1>6, <1>8, <1>9, SMT

\* If the tables hold the shifts of all bytes below one with a single bit, they hold those of that byte
\* with any of these.
LEMMA TablesGrow ==
  ASSUME NEW w \in {1, 2, 4, 8, 16, 32, 64, 128}, NEW m \in Nat, m < w,
         Shift8(m) = TableWord(m)
  PROVE  Shift8(w + m) = TableWord(w + m)
<1>1. w \in Byte /\ m \in Byte /\ w + m \in Byte
  BY ByteIs
<1>2. /\ w \in Word /\ m \in Word /\ w \div 256 = 0 /\ w % 256 = w /\ m \div 256 = 0 /\ m % 256 = m
  BY <1>1, ByteIs, WordIs, SMT
<1>3. w + m = Xor(w, m) /\ Xor(0, 0) = 0
  <2>1. Xor(w, m) = XorSum(w, m)
    BY <1>1, XorIsSum
  <2>2. 0 \in Byte
    BY ByteIs
  <2> QED
    BY <2>1, <2>2, TablesLinear, ByteAlgebra, SMT
<1>4. Xor16(w, m) = 256 * Xor(0, 0) + Xor(w, m)
  BY <1>2, SMT DEF Xor16
<1>5. Xor16(w, m) = w + m
  BY <1>3, <1>4
<1>6. Shift8(w + m) = Xor16(TableWord(w), TableWord(m))
  BY <1>2, <1>5, Shift8Linear, Shift8OfBits, SMT
<1> DEFINE a == auchCRCLo[w + 1]
           b == auchCRCHi[w + 1]
           c == auchCRCLo[m + 1]
           d == auchCRCHi[m + 1]
           e == auchCRCLo[w + m + 1]
           f == auchCRCHi[w + m + 1]
<1>7. a \in Byte /\ b \in Byte /\ c \in Byte /\ d \in Byte
  <2> DEFINE Index == 1..256
  <2>1. w + 1 \in Index /\ m + 1 \in Index
    OBVIOUS
  <2>2. \A i \in Index : auchCRCLo[i] \in Byte /\ auchCRCHi[i] \in Byte
    BY Tables
  <2> HIDE DEF Index
  <2> QED
    BY <2>1, <2>2
<1>8. TableWord(w) = 256 * a + b /\ TableWord(m) = 256 * c + d /\ TableWord(w + m) = 256 * e + f
  BY SMT DEF TableWord
<1>9. e = XorSum(a, c) /\ f = XorSum(b, d)
  BY TablesLinear, SMTT(60)
<1>10. XorSum(a, c) = Xor(a, c) /\ XorSum(b, d) = Xor(b, d)
  <2> HIDE DEF a, b, c, d
  <2> QED
    BY <1>7, XorIsSum
<1> HIDE DEF a, b, c, d, e, f
<1>11. (256 * a + b) \div 256 = a /\ (256 * a + b) % 256 = b /\ (256 * c + d) \div 256 = c /\ (256 * c + d) % 256 = d
  <2>1. /\ a \in Nat /\ a < 256 /\ b \in Nat /\ b < 256
        /\ c \in Nat /\ c < 256 /\ d \in Nat /\ d < 256
    BY <1>7, ByteIs
  <2> QED
    BY <2>1
<1>12. Xor16(TableWord(w), TableWord(m)) = 256 * Xor(a, c) + Xor(b, d)
  BY <1>8, <1>11, SMT DEF Xor16
<1> QED
  BY <1>6, <1>8, <1>9, <1>10, <1>12, SMT

\* The tables hold what eight shifts make of each byte (crc.go): bit by bit, the highest last.
LEMMA TablesAreShifts ==
  ASSUME NEW n \in Byte
  PROVE  Shift8(n) = TableWord(n)
<1> DEFINE Good(k) == \A m \in Nat : m < k => Shift8(m) = TableWord(m)
<1>1. ASSUME NEW w \in {1, 2, 4, 8, 16, 32, 64, 128}, Good(w) PROVE Good(2 * w)
  <2> SUFFICES ASSUME NEW m \in Nat, m < 2 * w PROVE Shift8(m) = TableWord(m)
    OBVIOUS
  <2>1. CASE m < w
    BY <1>1, <2>1
  <2>2. CASE ~(m < w)
    <3> DEFINE k == m - w
    <3>1. k \in Nat /\ k < w /\ w + k = m
      BY <2>2
    <3> HIDE DEF k
    <3>2. Shift8(k) = TableWord(k)
      BY <1>1, <3>1
    <3>3. Shift8(w + k) = TableWord(w + k)
      BY <3>1, <3>2, TablesGrow
    <3> QED
      BY <3>1, <3>3
  <2> QED
    BY <2>1, <2>2
<1>2. Good(1)
  <2>1. 0 \in Byte /\ 0 = 256 * 0
    BY ByteIs
  <2>2. Shift8(0) = 0
    BY <2>1, Shift8OfHigh
  <2>3. TableWord(0) = 0
    BY SMT DEF TableWord, auchCRCLo, auchCRCHi
  <2>4. \A m \in Nat : m < 1 => m = 0
    OBVIOUS
  <2> QED
    BY <2>2, <2>3, <2>4
<1>3. Good(256)
  <2> HIDE DEF Good
  <2>1. Good(2 * 1) /\ 2 * 1 = 2
    BY <1>1, <1>2
  <2>2. Good(2 * 2) /\ 2 * 2 = 4
    BY <1>1, <2>1
  <2>3. Good(2 * 4) /\ 2 * 4 = 8
    BY <1>1, <2>2
  <2>4. Good(2 * 8) /\ 2 * 8 = 16
    BY <1>1, <2>3
  <2>5. Good(2 * 16) /\ 2 * 16 = 32
    BY <1>1, <2>4
  <2>6. Good(2 * 32) /\ 2 * 32 = 64
    BY <1>1, <2>5
  <2>7. Good(2 * 64) /\ 2 * 64 = 128
    BY <1>1, <2>6
  <2>8. Good(2 * 128) /\ 2 * 128 = 256
    BY <1>1, <2>7
  <2> QED
    BY <2>8
<1> QED
  BY <1>3, ByteIs

-----------------------------------------------------------------------------
(* The table-driven loop computes the bitwise definition.                  *)

\* A step by the tables is the eight shifts of the word with the byte xored into its low half.
LEMMA StepIsShift ==
  ASSUME NEW c \in Word, NEW b \in Byte
  PROVE  Xor16(c, b) \in Word /\ Step(c, b) = Shift8(Xor16(c, b))
<1> DEFINE h == c \div 256
           l == c % 256
           i == Xor(l, b)
           lo == auchCRCLo[i + 1]
           hi == auchCRCHi[i + 1]
<1>1. h \in Byte /\ l \in Byte
  BY WordHalves
<1>2. b \in Word /\ b \div 256 = 0 /\ b % 256 = b /\ 0 \in Byte
  <2>1. b \in Nat /\ b < 256
    BY ByteIs
  <2> QED
    BY <2>1, ByteIs, WordIs, SMT
<1>3. i \in Byte
  BY <1>1, XorHalves
<1>4. lo \in Byte /\ hi \in Byte
  <2>1. i + 1 \in 1..256
    <3> HIDE DEF i
    <3>1. i \in Nat /\ i < 256
      BY <1>3, ByteIs
    <3> QED
      BY <3>1
  <2> QED
    BY <2>1, Tables
<1>5. Step(c, b) = 256 * lo + Xor(h, hi)
  BY SMT DEF Step
<1>6. Xor16(c, b) = 256 * Xor(h, 0) + i
  BY <1>2, SMT DEF Xor16
<1>7. TableWord(i) = 256 * lo + hi
  BY SMT DEF TableWord
<1> HIDE DEF h, l, i, lo, hi
<1>8. Xor(h, 0) = h /\ Xor(0, i) = i /\ Xor(0, lo) = lo
  BY <1>1, <1>2, <1>3, <1>4, ByteAlgebra, SMT
<1>9. 256 * h \in Word /\ h \in Word /\ Shift8(256 * h) = h
  BY <1>1, Shift8OfHigh
<1>10. /\ h \in Nat /\ h < 256 /\ i \in Nat /\ i < 256
       /\ lo \in Nat /\ lo < 256 /\ hi \in Nat /\ hi < 256
  BY <1>1, <1>3, <1>4, ByteIs
<1>11. /\ (256 * h) \div 256 = h /\ (256 * h) % 256 = 0
       /\ h \div 256 = 0 /\ h % 256 = h /\ i \div 256 = 0 /\ i % 256 = i
       /\ (256 * lo + hi) \div 256 = lo /\ (256 * lo + hi) % 256 = hi
  BY <1>10
<1>12. i \in Word
  BY <1>10, WordIs, SMT
<1>13. Xor16(256 * h, i) = 256 * h + i
  <2>1. Xor16(256 * h, i) = 256 * Xor(h, 0) + Xor(0, i)
    BY <1>11, SMT DEF Xor16
  <2> QED
    BY <1>8, <2>1, SMT
<1>14. Xor16(c, b) = Xor16(256 * h, i)
  BY <1>6, <1>8, <1>13, SMT
<1>15. Shift8(Xor16(c, b)) = Xor16(h, TableWord(i))
  <2>1. Shift8(i) = TableWord(i)
    BY <1>3, TablesAreShifts
  <2> QED
    BY <1>9, <1>12, <1>14, <2>1, Shift8Linear, SMT
<1>16. Xor16(h, 256 * lo + hi) = 256 * Xor(0, lo) + Xor(h, hi)
  BY <1>11, SMT DEF Xor16
<1>17. Xor16(c, b) \in Word
  BY <1>2, XorBytes
<1> QED
  BY <1>5, <1>7, <1>8, <1>15, <1>16, <1>17, SMT

\* The run of the bitwise definition, as it is written.
BitRun(data) ==
  CHOOSE crc : crc = [n \in 0..Len(data) |->
                        IF n = 0 THEN 65535
                        ELSE [c \in Word |-> Shift8(Xor16(c, data[n]))][crc[n - 1]]]

\* Over every list of bytes, CRC16 is the bitwise definition: their loops are one.
LEMMA SameCrc ==
  ASSUME NEW data \in Seq(Byte)
  PROVE  CRC16(data) = BitwiseCRC(data)
<1> DEFINE n == Len(data)
           A(h) == [i \in 0..n |-> IF i = 0 THEN 65535
                                   ELSE [c \in Word |-> Step(c, data[i])][h[i - 1]]]
           B(h) == [i \in 0..n |-> IF i = 0 THEN 65535
                                   ELSE [c \in Word |-> Shift8(Xor16(c, data[i]))][h[i - 1]]]
<1>1. BitwiseCRC(data) = BitRun(data)[n]
  BY DEF BitwiseCRC, BitRun
<1>2. CrcRun(data) = (CHOOSE h : h = A(h)) /\ BitRun(data) = (CHOOSE h : h = B(h))
  BY DEF CrcRun, BitRun
<1>3. ASSUME NEW i \in 0..n, i # 0
      PROVE  [c \in Word |-> Step(c, data[i])] = [c \in Word |-> Shift8(Xor16(c, data[i]))]
  <2>1. data[i] \in Byte
    BY <1>3
  <2>2. \A c \in Word : Step(c, data[i]) = Shift8(Xor16(c, data[i]))
    BY <2>1, StepIsShift
  <2> QED
    BY <2>2, Zenon
<1>4. ASSUME NEW h PROVE A(h) = B(h)
  <2> DEFINE S(i) == [c \in Word |-> Step(c, data[i])]
             T(i) == [c \in Word |-> Shift8(Xor16(c, data[i]))]
  <2>1. \A i \in 0..n : i # 0 => S(i) = T(i)
    BY <1>3, Zenon
  <2>2. /\ A(h) = [i \in 0..n |-> IF i = 0 THEN 65535 ELSE S(i)[h[i - 1]]]
        /\ B(h) = [i \in 0..n |-> IF i = 0 THEN 65535 ELSE T(i)[h[i - 1]]]
    OBVIOUS
  <2> HIDE DEF A, B, S, T
  <2> QED
    BY <2>1, <2>2
<1>5. (CHOOSE h : h = A(h)) = (CHOOSE h : h = B(h))
  <2> HIDE DEF A, B
  <2> QED
    BY <1>4
<1>6. CRC16(data) = CrcRun(data)[n]
  BY CrcOfRun, Zenon
<1> HIDE DEF n, A, B
<1> QED
  BY <1>1, <1>2, <1>5, <1>6, Zenon

=============================================================================
