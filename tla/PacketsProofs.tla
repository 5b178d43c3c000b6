---------------------------- MODULE PacketsProofs ----------------------------
(***************************************************************************)
(* Proofs about packets: the numbers they hold as bytes, what Write makes   *)
(* of them and the Verify functions and Read find again, the sockets and    *)
(* addresses they are sent to and come from, the CRC with and without its   *)
(* table and the threads that fill it, and the checksum that makes          *)
(* PROTOCOL_ID.  They are for every base of bytes, all sizes of keys, HMACs *)
(* and game data, any sockets and threads, every width and polynomial of    *)
(* the CRC, and messages of any length.                                     *)
(***************************************************************************)
EXTENDS Wire, Sockets, CRC, Checksums, SequenceTheorems, WellFoundedInduction,
        TLAPS

------------------------------------------------------------------------------
(* Numbers as bytes *)

\* Dividing what a quotient and a remainder make gives them back.
LEMMA Division ==
    ASSUME NEW b \in Nat \ {0}, NEW q \in Nat, NEW r \in 0 .. b - 1
    PROVE  (q * b + r) \div b = q /\ (q * b + r) % b = r
<1>. DEFINE v == q * b + r
            p == v \div b
            s == v % b
<1>1. /\ v \in Nat /\ p \in Int /\ s \in 0 .. b - 1
      /\ v = b * p + s
  BY SMTT(30)
<1>2. b * (q - p) = s - r
  BY <1>1
<1>3. CASE q - p >= 1
  <2>1. b * (q - p) >= b
    BY <1>1, <1>3
  <2>. QED
    BY <1>1, <1>2, <2>1
<1>4. CASE q - p <= -1
  <2>1. b * (q - p) <= -b
    BY <1>1, <1>4
  <2>. QED
    BY <1>1, <1>2, <2>1
<1>5. CASE q - p = 0
  BY <1>1, <1>2, <1>5
<1>. QED
  BY <1>1, <1>3, <1>4, <1>5

\* The powers of the base that Weight lists.
LEMMA ByteBases ==
    /\ ByteBase \in Nat /\ ByteBase >= 2
    /\ Weight[1] = ByteBase * ByteBase * ByteBase /\ Weight[2] = ByteBase * ByteBase
    /\ Weight[3] = ByteBase /\ Weight[4] = 1
    /\ Weight[1] \in Nat \ {0} /\ Weight[2] \in Nat \ {0}
<1>1. ByteBase \in Nat /\ ByteBase >= 2
  BY ByteAssumption
<1>2. ByteBase * ByteBase \in Nat \ {0}
  BY <1>1
<1>3. (ByteBase * ByteBase) * ByteBase \in Nat \ {0}
  BY <1>1, <1>2
<1>. QED
  BY <1>1, <1>2, <1>3 DEF Weight

\* The bytes of a number are those it was made of: a shift and a mask of Address.cpp, or
\* htonl, find each one again.
LEMMA DigitsOfNumber ==
    ASSUME NEW d \in [1 .. 4 -> 0 .. ByteBase - 1]
    PROVE  NumberOf(d) \in Nat /\ \A n \in 1 .. 4 : Digit(NumberOf(d), n) = d[n]
<1>. DEFINE b == ByteBase
            v == NumberOf(d)
<1>1. /\ b \in Nat \ {0} /\ b * b \in Nat \ {0} /\ b * b * b \in Nat \ {0}
      /\ d[1] \in 0 .. b - 1 /\ d[2] \in 0 .. b - 1 /\ d[3] \in 0 .. b - 1 /\ d[4] \in 0 .. b - 1
  BY ByteBases
<1>. DEFINE h2 == d[1] * b + d[2]
            h3 == h2 * b + d[3]
            l2 == d[3] * b + d[4]
            l3 == d[2] * (b * b) + l2
<1>2. h2 \in Nat /\ h3 \in Nat /\ l2 \in Nat /\ l3 \in Nat
  BY <1>1
<1>3. /\ v = h3 * b + d[4]
      /\ v = h2 * (b * b) + l2
      /\ v = d[1] * (b * b * b) + l3
  BY <1>1, ByteBases DEF NumberOf
<1>4. l2 \in 0 .. (b * b) - 1
  <2>1. d[3] * b <= (b - 1) * b
    BY <1>1
  <2>. QED
    BY <1>1, <1>2, <2>1
<1>5. l3 \in 0 .. (b * b * b) - 1
  <2>1. d[2] * (b * b) <= (b - 1) * (b * b)
    BY <1>1
  <2>2. (b - 1) * (b * b) = b * b * b - b * b
    BY <1>1
  <2>. QED
    BY <1>1, <1>2, <1>4, <2>1, <2>2
<1>. HIDE DEF v, h2, h3, l2, l3
<1>6. v \div (b * b * b) = d[1]
  <2>. DEFINE c == b * b * b
  <2>1. c \in Nat \ {0} /\ v = d[1] * c + l3 /\ l3 \in 0 .. c - 1 /\ d[1] \in Nat
    BY <1>1, <1>3, <1>5
  <2>. HIDE DEF c
  <2>2. v \div c = d[1]
    BY <2>1, Division
  <2>. QED
    BY <2>2 DEF c
<1>7. v \div (b * b) = h2 /\ h2 % b = d[2]
  <2>1. v \div (b * b) = h2
    BY <1>1, <1>2, <1>3, <1>4, Division
  <2>. QED
    BY <1>1, <2>1, Division DEF h2
<1>8. v \div b = h3 /\ h3 % b = d[3]
  <2>1. v \div b = h3
    BY <1>1, <1>2, <1>3, Division
  <2>. QED
    BY <1>1, <1>2, <2>1, Division DEF h3
<1>9. v \div 1 = v /\ v % b = d[4]
  <2>1. (h3 * b + d[4]) % b = d[4]
    BY <1>1, <1>2, Division
  <2>. QED
    BY <1>1, <1>2, <1>3, <2>1
<1>10. d[1] % b = d[1]
  BY <1>1, Division
<1>11. v \in Nat
  BY <1>1, <1>2, <1>3
<1>12. \A n \in 1 .. 4 : n = 1 \/ n = 2 \/ n = 3 \/ n = 4
  OBVIOUS
<1>. QED
  BY <1>6, <1>7, <1>8, <1>9, <1>10, <1>11, <1>12, ByteBases DEF Digit, v

\* A number is its quotient and its remainder put together.
LEMMA QuotientAndRemainder ==
    ASSUME NEW b \in Nat \ {0}, NEW v \in Nat
    PROVE  \E q \in Nat, r \in 0 .. b - 1 : v = q * b + r
<1>1. v \div b \in Nat /\ v % b \in 0 .. b - 1 /\ v = b * (v \div b) + (v % b)
  BY SMTT(30)
<1>2. b * (v \div b) = (v \div b) * b
  BY <1>1
<1>. QED
  BY <1>1, <1>2

\* Every number of four bytes is made of its bytes.
LEMMA NumberOfDigits ==
    ASSUME NEW v \in 0 .. ByteBase * Weight[1] - 1
    PROVE  /\ NumberOf([n \in 1 .. 4 |-> Digit(v, n)]) = v
           /\ \A n \in 1 .. 4 : Digit(v, n) \in 0 .. ByteBase - 1
<1>. DEFINE b == ByteBase
<1>1. b \in Nat \ {0} /\ b * b \in Nat /\ v \in Nat /\ v < b * (b * b * b)
  BY ByteBases
<1>2. PICK q1 \in Nat, x \in 0 .. b - 1 : v = q1 * b + x
  BY <1>1, QuotientAndRemainder
<1>3. PICK q2 \in Nat, y \in 0 .. b - 1 : q1 = q2 * b + y
  BY <1>1, QuotientAndRemainder
<1>4. PICK w \in Nat, z \in 0 .. b - 1 : q2 = w * b + z
  BY <1>1, QuotientAndRemainder
<1>5. v = w * (b * b * b) + z * (b * b) + y * b + x
  BY <1>1, <1>2, <1>3, <1>4
<1>6. w < b
  <2>. SUFFICES ASSUME w >= b PROVE FALSE
    BY <1>1
  <2>1. w * (b * b * b) >= b * (b * b * b)
    BY <1>1
  <2>2. z * (b * b) >= 0 /\ y * b >= 0
    BY <1>1
  <2>. QED
    BY <1>1, <1>5, <2>1, <2>2
<1>. DEFINE d == <<w, z, y, x>>
<1>7. d \in [1 .. 4 -> 0 .. b - 1]
  BY <1>1, <1>6
<1>8. NumberOf(d) = v
  <2>1. d[1] = w /\ d[2] = z /\ d[3] = y /\ d[4] = x
    OBVIOUS
  <2>. HIDE DEF d
  <2>. QED
    BY <1>1, <1>5, <2>1, ByteBases DEF NumberOf
<1>. HIDE DEF d
<1>9. \A n \in 1 .. 4 : Digit(v, n) = d[n]
  BY <1>7, <1>8, DigitsOfNumber
<1>10. [n \in 1 .. 4 |-> Digit(v, n)] = d
  BY <1>7, <1>9
<1>. QED
  BY <1>7, <1>8, <1>9, <1>10

\* htonl and ntohl undo each other; so do htons and ntohs.
LEMMA IntegerAsBytes ==
    ASSUME NEW v \in 0 .. ByteBase * Weight[1] - 1
    PROVE  ntohl(htonl(v)) = v
<1>1. \A n \in 1 .. 4 : htonl(v)[n][2] = Digit(v, n)
  BY DEF htonl, Byte
<1>2. [n \in 1 .. 4 |-> htonl(v)[n][2]] = [n \in 1 .. 4 |-> Digit(v, n)]
  BY <1>1
<1>. QED
  BY <1>2, NumberOfDigits DEF ntohl

\* ntohl, htonl and the four octets of an address agree.
LEMMA BytesAsInteger ==
    ASSUME NEW d \in [1 .. 4 -> 0 .. ByteBase - 1]
    PROVE  ntohl(Parsed(d)) = NumberOf(d) /\ htonl(NumberOf(d)) = Parsed(d)
<1>1. \A n \in 1 .. 4 : Parsed(d)[n][2] = d[n]
  BY DEF Parsed, Byte
<1>2. [n \in 1 .. 4 |-> Parsed(d)[n][2]] = d
  BY <1>1
<1>3. ntohl(Parsed(d)) = NumberOf(d)
  BY <1>2 DEF ntohl
<1>4. htonl(NumberOf(d)) = Parsed(d)
  BY DigitsOfNumber DEF htonl, Parsed
<1>. QED
  BY <1>3, <1>4

\* ntohs undoes htons.
LEMMA ShortAsBytes ==
    ASSUME NEW v \in 0 .. ByteBase * ByteBase - 1
    PROVE  ntohs(htons(v)) = v
<1>. DEFINE b == ByteBase
<1>1. b \in Nat \ {0} /\ v \in Nat /\ v < b * b
  BY ByteBases
<1>2. PICK q \in Nat, r \in 0 .. b - 1 : v = q * b + r
  BY <1>1, QuotientAndRemainder
<1>3. q \in 0 .. b - 1
  <2>. SUFFICES ASSUME q >= b PROVE FALSE
    BY <1>1
  <2>1. q * b >= b * b
    BY <1>1
  <2>. QED
    BY <1>1, <1>2, <2>1
<1>4. v \div b = q /\ v % b = r
  BY <1>1, <1>2, Division
<1>5. q % b = q
  <2>1. (0 * b + q) % b = q
    BY <1>1, <1>3, Division
  <2>. QED
    BY <1>1, <2>1
<1>6. htons(v)[1][2] = (v \div b) % b /\ htons(v)[2][2] = (v \div 1) % b
  BY ByteBases DEF htons, Byte, Digit
<1>7. v \div 1 = v
  BY <1>1
<1>. QED
  BY <1>2, <1>4, <1>5, <1>6, <1>7 DEF ntohs

------------------------------------------------------------------------------
(* Buffers.  Sequences are named by their cells, one by one: what SubSeq and \o make  *)
(* of them is used through these lemmas only.                                        *)

\* A sequence of n cells.
Cells(d, n) == n \in Nat /\ d = [x \in 1 .. n |-> d[x]]

\* Its length and its domain.
LEMMA CellsAreSequence ==
    ASSUME NEW d, NEW n, Cells(d, n)
    PROVE  /\ d \in Seq({d[x] : x \in 1 .. n}) /\ Len(d) = n /\ DOMAIN d = 1 .. n
           /\ n \in Nat
<1>. DEFINE S == {d[x] : x \in 1 .. n}
<1>1. d \in [1 .. n -> S] /\ n \in Nat
  BY DEF Cells
<1>. QED
  BY <1>1, SMT

\* Sequences with the same cells are the same.
LEMMA CellsEqual ==
    ASSUME NEW d, NEW e, NEW n, Cells(d, n), Cells(e, n), \A x \in 1 .. n : d[x] = e[x]
    PROVE  d = e
BY DEF Cells

\* A part of it.
LEMMA SubSeqIsCells ==
    ASSUME NEW d, NEW n, Cells(d, n), NEW k \in Nat, NEW m \in Nat, k + m <= n
    PROVE  /\ Cells(SubSeq(d, k + 1, k + m), m)
           /\ \A x \in 1 .. m : SubSeq(d, k + 1, k + m)[x] = d[k + x]
<1>. DEFINE S == {d[x] : x \in 1 .. n}
            s == SubSeq(d, k + 1, k + m)
<1>1. d \in Seq(S) /\ n \in Nat
  BY CellsAreSequence
<1>1a. \A x \in k + 1 .. k + m : d[x] \in S
  BY <1>1
<1>2. /\ s \in Seq(S) /\ Len(s) = m
      /\ \A x \in 1 .. m : s[x] = d[k + x]
  <2>. HIDE DEF S
  <2>1. k + 1 \in Int /\ k + m \in Int
    OBVIOUS
  <2>2. /\ s \in Seq(S) /\ Len(s) = IF k + 1 <= k + m THEN (k + m) - (k + 1) + 1 ELSE 0
        /\ \A x \in 1 .. (k + m) - (k + 1) + 1 : s[x] = d[k + 1 + x - 1]
    BY <1>1a, <2>1, SubSeqProperties
  <2>. HIDE DEF s
  <2>3. k + 1 <= k + m <=> m >= 1
    OBVIOUS
  <2>4. (k + m) - (k + 1) + 1 = m
    OBVIOUS
  <2>5. Len(s) = m
    BY <2>2, <2>3, <2>4
  <2>6. \A x \in 1 .. m : k + 1 + x - 1 = k + x
    OBVIOUS
  <2>7. \A x \in 1 .. m : s[x] = d[k + x]
    BY <2>2, <2>4, <2>6
  <2>. QED
    BY <2>2, <2>5, <2>7
<1>3. s = [x \in 1 .. m |-> s[x]]
  <2>. HIDE DEF S, s
  <2>. QED
    BY <1>2
<1>. QED
  BY <1>2, <1>3 DEF Cells

Joined(s, d, e) == s = d \o e

\* Two of them, one behind the other.
LEMMA ConcatIsCells ==
    ASSUME NEW d, NEW n, Cells(d, n), NEW e, NEW m, Cells(e, m), NEW s, Joined(s, d, e)
    PROVE  /\ Cells(s, n + m)
           /\ \A x \in 1 .. n : s[x] = d[x]
           /\ \A x \in 1 .. m : s[n + x] = e[x]
<1>. DEFINE S == {d[x] : x \in 1 .. n} \cup {e[x] : x \in 1 .. m}
<1>1. d \in [1 .. n -> S] /\ e \in [1 .. m -> S] /\ n \in Nat /\ m \in Nat
  BY DEF Cells
<1>2. d \in Seq(S) /\ e \in Seq(S) /\ Len(d) = n /\ Len(e) = m
  <2>. HIDE DEF S
  <2>. QED
    BY <1>1
<1>. HIDE DEF S
<1>3. s = d \o e
  BY DEF Joined
<1>4. /\ s \in Seq(S) /\ Len(s) = n + m
      /\ \A x \in 1 .. n + m : s[x] = IF x <= n THEN d[x] ELSE e[x - n]
  BY <1>2, <1>3, ConcatProperties
<1>5. Cells(s, n + m)
  BY <1>1, <1>4 DEF Cells
<1>6. ASSUME NEW x \in 1 .. n
      PROVE  s[x] = d[x]
  BY <1>1, <1>4
<1>7. ASSUME NEW x \in 1 .. m
      PROVE  s[n + x] = e[x]
  <2>1. n + x \in 1 .. n + m /\ ~ (n + x <= n) /\ (n + x) - n = x
    BY <1>1
  <2>. QED
    BY <1>4, <2>1
<1>. QED
  BY <1>3, <1>5, <1>6, <1>7

\* A buffer that has not thrown.
Buf(d, n, k) == [data |-> d, size |-> n, index |-> k, thrown |-> FALSE]

\* The n cells d with the m cells c in place of those after the first k.
Patch(d, n, k, c, m) == [x \in 1 .. n |-> IF x \in k + 1 .. k + m THEN c[x - k] ELSE d[x]]

\* What Patch leaves and what it puts in.
LEMMA PatchIs ==
    ASSUME NEW d, NEW n \in Nat, NEW k \in Nat, NEW c, NEW m \in Nat, k + m <= n
    PROVE  /\ Cells(Patch(d, n, k, c, m), n)
           /\ \A x \in 1 .. n : x <= k \/ x > k + m => Patch(d, n, k, c, m)[x] = d[x]
           /\ \A x \in 1 .. m : Patch(d, n, k, c, m)[k + x] = c[x]
<1>. DEFINE e == Patch(d, n, k, c, m)
<1>1. Cells(e, n)
  BY DEF Patch, Cells
<1>2. ASSUME NEW x \in 1 .. n, x <= k \/ x > k + m
      PROVE  e[x] = d[x]
  <2>1. x \notin k + 1 .. k + m
    BY <1>2
  <2>. QED
    BY <2>1 DEF Patch
<1>3. ASSUME NEW x \in 1 .. m
      PROVE  e[k + x] = c[x]
  <2>1. k + x \in 1 .. n /\ k + x \in k + 1 .. k + m /\ (k + x) - k = x
    OBVIOUS
  <2>. QED
    BY <2>1 DEF Patch
<1>. QED
  BY <1>1, <1>2, <1>3

\* Buffer::WriteBuffer is a patch at the index.
LEMMA WriteBufferIs ==
    ASSUME NEW d, NEW n, Cells(d, n), NEW k \in Nat, NEW c, NEW m, Cells(c, m), k + m <= n
    PROVE  WriteBuffer(Buf(d, n, k), c) = Buf(Patch(d, n, k, c, m), n, k + m)
<1>. DEFINE l == SubSeq(d, 1, k)
            r == SubSeq(d, k + m + 1, n)
<1>1. n \in Nat /\ m \in Nat /\ Len(c) = m
  BY CellsAreSequence
<1>2. Cells(l, k) /\ \A x \in 1 .. k : l[x] = d[x]
  <2>1. /\ Cells(SubSeq(d, 0 + 1, 0 + k), k)
        /\ \A x \in 1 .. k : SubSeq(d, 0 + 1, 0 + k)[x] = d[0 + x]
    BY <1>1, SubSeqIsCells
  <2>2. 0 + 1 = 1 /\ 0 + k = k
    OBVIOUS
  <2>. QED
    BY <2>1, <2>2
<1>3. Cells(r, n - (k + m)) /\ \A x \in 1 .. n - (k + m) : r[x] = d[k + m + x]
  <2>. DEFINE z == n - (k + m)
              y == k + m
  <2>1. z \in Nat /\ y \in Nat /\ y + z = n
    BY <1>1
  <2>2. /\ Cells(SubSeq(d, y + 1, y + z), z)
        /\ \A x \in 1 .. z : SubSeq(d, y + 1, y + z)[x] = d[y + x]
    <3>. HIDE DEF z, y
    <3>1. /\ y \in Nat /\ z \in Nat /\ y + z <= n
      BY <1>1, <2>1
    <3>. QED
      BY <3>1, SubSeqIsCells
  <2>. QED
    BY <2>1, <2>2
<1>. HIDE DEF l, r
<1>4a. PICK f : Joined(f, l, c)
  BY DEF Joined
<1>4. /\ Cells(f, k + m)
      /\ \A x \in 1 .. k : f[x] = l[x]
      /\ \A x \in 1 .. m : f[k + x] = c[x]
  BY <1>2, <1>4a, ConcatIsCells
<1>5a. PICK e : Joined(e, f, r)
  BY DEF Joined
<1>5. /\ Cells(e, n)
      /\ \A x \in 1 .. k + m : e[x] = f[x]
      /\ \A x \in 1 .. n - (k + m) : e[k + m + x] = r[x]
  <2>. DEFINE z == n - (k + m)
              y == k + m
  <2>1. y + z = n /\ Cells(f, y) /\ Cells(r, z)
    BY <1>1, <1>3, <1>4
  <2>2. /\ Cells(e, y + z)
        /\ \A x \in 1 .. y : e[x] = f[x]
        /\ \A x \in 1 .. z : e[y + x] = r[x]
    <3>. HIDE DEF y, z
    <3>. QED
      BY <1>5a, <2>1, ConcatIsCells
  <2>. QED
    BY <2>1, <2>2
<1>6. WriteBuffer(Buf(d, n, k), c) = Buf(e, n, k + m)
  <2>1. Fits(Buf(d, n, k), Len(c))
    BY <1>1 DEF Fits, Buf
  <2>. QED
    BY <1>1, <1>4a, <1>5a, <2>1 DEF WriteBuffer, Buf, l, r, Joined
<1>7. ASSUME NEW x \in 1 .. n, x <= k
      PROVE  e[x] = d[x]
  BY <1>1, <1>2, <1>4, <1>5, <1>7
<1>8. ASSUME NEW x \in 1 .. m
      PROVE  e[k + x] = c[x]
  <2>1. k + x \in 1 .. n /\ k + x \in 1 .. k + m /\ ~ (k + x <= k) /\ (k + x) - k = x
    BY <1>1
  <2>. QED
    BY <1>4, <1>5, <2>1
<1>9. ASSUME NEW x \in 1 .. n, x > k + m
      PROVE  e[x] = d[x]
  <2>1. x - (k + m) \in 1 .. n - (k + m) /\ k + m + (x - (k + m)) = x /\ ~ (x <= k + m)
    BY <1>1, <1>9
  <2>. QED
    BY <1>3, <1>5, <2>1
<1>10. ASSUME NEW x \in 1 .. n
       PROVE  e[x] = Patch(d, n, k, c, m)[x]
  <2>1. CASE x \in k + 1 .. k + m
    <3>1. x - k \in 1 .. m /\ k + (x - k) = x
      BY <1>1, <2>1
    <3>2. e[k + (x - k)] = c[x - k]
      BY <1>8, <3>1
    <3>. QED
      BY <2>1, <3>1, <3>2 DEF Patch
  <2>2. CASE x \notin k + 1 .. k + m
    <3>1. x <= k \/ x > k + m
      BY <1>1, <2>2
    <3>2. e[x] = d[x]
      BY <1>7, <1>9, <3>1
    <3>. QED
      BY <2>2, <3>2 DEF Patch
  <2>. QED
    BY <2>1, <2>2
<1>11. e = Patch(d, n, k, c, m)
  <2>1. Cells(Patch(d, n, k, c, m), n)
    BY <1>1 DEF Patch, Cells
  <2>. QED
    BY <1>5, <1>10, <2>1, CellsEqual
<1>. QED
  BY <1>6, <1>11

\* What is read from a buffer that holds it, and the buffer afterwards.
LEMMA ReadIs ==
    ASSUME NEW d, NEW n, Cells(d, n), NEW k \in Nat, NEW m \in Nat, k + m <= n
    PROVE  /\ Cells(ReadCells(Buf(d, n, k), m), m)
           /\ \A x \in 1 .. m : ReadCells(Buf(d, n, k), m)[x] = d[k + x]
           /\ AfterRead(Buf(d, n, k), m) = Buf(d, n, k + m)
<1>1. n \in Nat
  BY CellsAreSequence
<1>2. Fits(Buf(d, n, k), m)
  BY <1>1 DEF Fits, Buf
<1>3. ReadCells(Buf(d, n, k), m) = SubSeq(d, k + 1, k + m)
  BY DEF ReadCells, Buf
<1>4. AfterRead(Buf(d, n, k), m) = Buf(d, n, k + m)
  BY <1>2 DEF AfterRead, Buf
<1>. QED
  BY <1>3, <1>4, SubSeqIsCells

------------------------------------------------------------------------------
(* Write.  Everything it writes lies where it is to be read, and nothing is left out. *)

\* The type of a packet as a byte, and where a message has it and its other fields.
TypeByte(p) == CHOOSE x \in DOMAIN PacketTypes : PacketTypes[x] = p.type

HeaderIn(d, p) == (\A x \in 1 .. 4 : d[x] = htonl(ProtocolId)[x]) /\ d[5] = Byte(TypeByte(p))

FieldsIn(d, p) ==
    /\ p.type \in CrcTypes => \A x \in 1 .. KeyBytes : d[5 + x] = p.data[x]
    /\ p.type = "CONNECTION_ACCEPTED" => \A x \in 1 .. 4 : d[5 + x] = htonl(p.id)[x]
    /\ p.type = "CONNECTION_DATA" =>
          /\ \A x \in 1 .. 2 : d[5 + x] = htons(p.sequence)[x]
          /\ \A x \in 1 .. 4 : d[7 + x] = htonl(Len(p.data))[x]
          /\ \A x \in 1 .. Len(p.data) : d[11 + x] = p.data[x]

\* The message of a packet: what is sealed.
IsMessage(m, p) == Cells(m, PacketSize(p)) /\ HeaderIn(m, p) /\ FieldsIn(m, p)

\* A datagram of n cells that Write makes of a packet.
IsDatagram(d, n, p) ==
    \E m : /\ IsMessage(m, p) /\ Cells(d, n)
           /\ p.type \in CrcTypes =>
                 /\ n = PacketSize(p)
                 /\ \A x \in 1 .. 4 : d[x] = Crc(m)[x]
                 /\ \A x \in 1 .. n : x > 4 => d[x] = m[x]
           /\ p.type \notin CrcTypes =>
                 /\ n = PacketSize(p) + HmacBytes
                 /\ \A x \in 1 .. PacketSize(p) : d[x] = m[x]
                 /\ \A x \in 1 .. HmacBytes : d[PacketSize(p) + x] = Hmac(p.key, m)[x]

\* What the packets to be written have.
LEMMA PacketsAre ==
    ASSUME NEW p \in Packets
    PROVE  /\ p.type \in {PacketTypes[x] : x \in 1 .. 6}
           /\ TypeByte(p) \in 1 .. 6 /\ PacketTypes[TypeByte(p)] = p.type
           /\ 6 < ByteBase /\ ByteBase \in Nat
           /\ KeyBytes \in Nat \ {0} /\ HmacBytes \in Nat \ {0}
           /\ p.data \in Seq(ByteCells)
           /\ p.type \in CrcTypes => Len(p.data) = KeyBytes
           /\ p.type = "CONNECTION_ACCEPTED" => p.id \in Integers4
           /\ p.type = "CONNECTION_DATA" =>
                 p.sequence \in 0 .. ByteBase * ByteBase - 1 /\ Len(p.data) \in Integers4
<1>1. IsPacket(p) /\ KeyBytes \in Nat \ {0} /\ HmacBytes \in Nat \ {0}
  BY WireAssumption
<1>2. /\ p.type \in {"CONNECTION_REQUEST", "CHALLENGE", "CHALLENGE_RESPONSE",
                     "CONNECTION_ACCEPTED", "CONNECTION_DATA", "DISCONNECT"}
      /\ DOMAIN PacketTypes = 1 .. 6 /\ Len(PacketTypes) = 6
  BY <1>1 DEF IsPacket, CrcTypes, PacketTypes
<1>3. /\ PacketTypes[1] = "CONNECTION_REQUEST" /\ PacketTypes[2] = "CHALLENGE"
      /\ PacketTypes[3] = "CHALLENGE_RESPONSE" /\ PacketTypes[4] = "CONNECTION_ACCEPTED"
      /\ PacketTypes[5] = "CONNECTION_DATA" /\ PacketTypes[6] = "DISCONNECT"
  BY DEF PacketTypes
<1>4. \E x \in 1 .. 6 : PacketTypes[x] = p.type
  BY <1>2, <1>3
<1>5. TypeByte(p) \in 1 .. 6 /\ PacketTypes[TypeByte(p)] = p.type
  BY <1>2, <1>4 DEF TypeByte
<1>6. 6 < ByteBase /\ ByteBase \in Nat
  BY <1>2, WireAssumption, ByteAssumption
<1>7. p.data \in Seq(ByteCells) /\ (p.type \in CrcTypes => Len(p.data) = KeyBytes)
  <2>1. CASE p.type \in CrcTypes
    <3>1. p.data \in [1 .. KeyBytes -> ByteCells]
      BY <1>1, <2>1 DEF IsPacket, CrcTypes
    <3>. QED
      BY <1>1, <3>1
  <2>2. CASE p.type \in {"CHALLENGE_RESPONSE", "DISCONNECT", "CONNECTION_ACCEPTED"}
    <3>1. p.data = <<>>
      BY <1>1, <2>2 DEF IsPacket, CrcTypes, Packet
    <3>. QED
      BY <2>2, <3>1 DEF CrcTypes
  <2>3. CASE p.type = "CONNECTION_DATA"
    BY <1>1, <2>3 DEF IsPacket, CrcTypes
  <2>. QED
    BY <1>2, <2>1, <2>2, <2>3 DEF CrcTypes
<1>8. p.type = "CONNECTION_ACCEPTED" => p.id \in Integers4
  BY <1>1 DEF IsPacket, CrcTypes
<1>9. ASSUME p.type = "CONNECTION_DATA"
      PROVE  p.sequence \in 0 .. ByteBase * ByteBase - 1 /\ Len(p.data) \in Integers4
  <2>1. p.sequence \in SeqNumbers /\ PacketSize(p) + HmacBytes \in Integers4
    BY <1>1, <1>9 DEF IsPacket, CrcTypes
  <2>2. PacketSize(p) = 11 + Len(p.data)
    BY <1>9, <1>7 DEF PacketSize, MINIMUM_HEADER_SIZE, CrcTypes
  <2>3. Len(p.data) \in Nat
    BY <1>7
  <2>. DEFINE top == ByteBase * Weight[1] - 1
  <2>4. top \in Int
    BY ByteBases
  <2>5. Len(p.data) \in 0 .. top
    <3>. HIDE DEF top
    <3>1. PacketSize(p) + HmacBytes \in 0 .. top
      BY <2>1 DEF Integers4, top
    <3>. QED
      BY <1>1, <2>2, <2>3, <2>4, <3>1
  <2>. QED
    BY <2>1, <2>5, WireAssumption DEF SeqNumbers, Integers4
<1>. QED
  BY <1>1, <1>4, <1>5, <1>6, <1>7, <1>8, <1>9

\* How many cells each Write allocates.
LEMMA SizeOfPacket ==
    ASSUME NEW p \in Packets
    PROVE  /\ PacketSize(p) \in Nat /\ PacketSize(p) >= 5
           /\ p.type \in CrcTypes => PacketSize(p) = 5 + KeyBytes
           /\ p.type = "CONNECTION_ACCEPTED" => PacketSize(p) = 9
           /\ p.type = "CONNECTION_DATA" => PacketSize(p) = 11 + Len(p.data)
           /\ p.type \in {"CHALLENGE_RESPONSE", "DISCONNECT"} => PacketSize(p) = 5
<1>1. KeyBytes \in Nat \ {0} /\ p.data \in Seq(ByteCells)
  BY PacketsAre
<1>2. Len(p.data) \in Nat
  BY <1>1
<1>. QED
  BY <1>1, <1>2, PacketsAre DEF PacketSize, MINIMUM_HEADER_SIZE, CrcTypes

\* What htonl, htons and a sequence of bytes are as cells.
LEMMA IntegerCells ==
    ASSUME NEW v
    PROVE  Cells(htonl(v), 4)
BY DEF Cells, htonl

LEMMA ShortCells ==
    ASSUME NEW v
    PROVE  Cells(htons(v), 2)
BY DEF Cells, htons

LEMMA SequenceIsCells ==
    ASSUME NEW S, NEW s \in Seq(S)
    PROVE  Cells(s, Len(s))
<1>1. Len(s) \in Nat /\ s \in [1 .. Len(s) -> S]
  OBVIOUS
<1>. QED
  BY <1>1 DEF Cells

\* The header of every packet, in a buffer of n cells.
LEMMA HeaderWritten ==
    ASSUME NEW p \in Packets, NEW n \in Nat, n >= 5
    PROVE  \E e : /\ WriteByte(WriteInteger(NewBuffer(n), ProtocolId), TypeByte(p)) = Buf(e, n, 5)
                  /\ Cells(e, n) /\ HeaderIn(e, p)
<1>. DEFINE junk == [x \in 1 .. n |-> Junk]
            c    == htonl(ProtocolId)
            t    == <<Byte(TypeByte(p) % ByteBase)>>
            d    == Patch(junk, n, 0, c, 4)
            e    == Patch(d, n, 4, t, 1)
<1>1. NewBuffer(n) = Buf(junk, n, 0) /\ Cells(junk, n)
  BY DEF NewBuffer, Buf, Cells
<1>2. Cells(c, 4)
  BY IntegerCells
<1>3. /\ WriteBuffer(Buf(junk, n, 0), c) = Buf(d, n, 4)
      /\ Cells(d, n)
      /\ \A x \in 1 .. 4 : d[0 + x] = c[x]
  <2>1. 0 \in Nat /\ 4 \in Nat /\ 0 + 4 <= n
    OBVIOUS
  <2>2. WriteBuffer(Buf(junk, n, 0), c) = Buf(d, n, 0 + 4)
    <3>. HIDE DEF junk, c
    <3>. QED
      BY <1>1, <1>2, <2>1, WriteBufferIs
  <2>3. /\ Cells(d, n)
        /\ \A x \in 1 .. 4 : d[0 + x] = c[x]
    <3>. HIDE DEF junk, c
    <3>. QED
      BY DEF Patch, Cells
  <2>. HIDE DEF d
  <2>. QED
    BY <2>2, <2>3
<1>4. TypeByte(p) % ByteBase = TypeByte(p)
  <2>1. TypeByte(p) \in 1 .. 6 /\ 6 < ByteBase /\ ByteBase \in Nat
    BY PacketsAre
  <2>. QED
    BY <2>1, SMTT(30)
<1>5. Cells(t, 1) /\ t[1] = Byte(TypeByte(p))
  BY <1>4 DEF Cells
<1>6. /\ WriteBuffer(Buf(d, n, 4), t) = Buf(e, n, 5)
      /\ Cells(e, n)
      /\ \A x \in 1 .. n : x <= 4 => e[x] = d[x]
      /\ \A x \in 1 .. 1 : e[4 + x] = t[x]
  <2>1. 4 \in Nat /\ 1 \in Nat /\ 4 + 1 <= n
    OBVIOUS
  <2>. HIDE DEF d, t
  <2>2. WriteBuffer(Buf(d, n, 4), t) = Buf(e, n, 4 + 1)
    BY <1>3, <1>5, <2>1, WriteBufferIs
  <2>3. /\ Cells(e, n)
        /\ \A x \in 1 .. n : x <= 4 \/ x > 4 + 1 => e[x] = d[x]
        /\ \A x \in 1 .. 1 : e[4 + x] = t[x]
    BY DEF Patch, Cells
  <2>. HIDE DEF e
  <2>. QED
    BY <2>2, <2>3
<1>. HIDE DEF d, e, c
<1>7. HeaderIn(e, p)
  <2>1. ASSUME NEW x \in 1 .. 4
        PROVE  e[x] = c[x]
    <3>1. x \in 1 .. n /\ x <= 4 /\ 0 + x = x
      OBVIOUS
    <3>. QED
      BY <1>3, <1>6, <3>1
  <2>2. e[5] = Byte(TypeByte(p))
    <3>1. 4 + 1 = 5 /\ 1 \in 1 .. 1
      OBVIOUS
    <3>. QED
      BY <1>5, <1>6, <3>1
  <2>. QED
    BY <2>1, <2>2 DEF HeaderIn, c
<1>8. WriteByte(WriteInteger(NewBuffer(n), ProtocolId), TypeByte(p)) = Buf(e, n, 5)
  <2>1. WriteInteger(NewBuffer(n), ProtocolId) = Buf(d, n, 4)
    BY <1>1, <1>3 DEF WriteInteger, c
  <2>2. WriteByte(Buf(d, n, 4), TypeByte(p)) = Buf(e, n, 5)
    BY <1>6 DEF WriteByte
  <2>. QED
    BY <2>1, <2>2
<1>. QED
  BY <1>6, <1>7, <1>8

\* The header depends on the first five cells only.
LEMMA HeaderKept ==
    ASSUME NEW d, NEW e, NEW p, HeaderIn(d, p), \A x \in 1 .. 5 : e[x] = d[x]
    PROVE  HeaderIn(e, p)
<1>1. \A x \in 1 .. 4 : x \in 1 .. 5
  OBVIOUS
<1>. QED
  BY <1>1 DEF HeaderIn

\* The fields behind the header fill what is allocated for the message.
LEMMA FieldsWritten ==
    ASSUME NEW p \in Packets, NEW d, NEW n, Cells(d, n), PacketSize(p) <= n, HeaderIn(d, p)
    PROVE  \E e : /\ WriteFields(Buf(d, n, 5), p) = Buf(e, n, PacketSize(p))
                  /\ Cells(e, n) /\ HeaderIn(e, p) /\ FieldsIn(e, p)
<1>1. n \in Nat
  BY CellsAreSequence
<1>2. CASE p.type \in CrcTypes
  <2>. DEFINE m == KeyBytes
              e == Patch(d, n, 5, p.data, m)
  <2>1. m \in Nat /\ Cells(p.data, m) /\ PacketSize(p) = 5 + m /\ 5 + m <= n
    <3>1. Len(p.data) = m /\ Cells(p.data, Len(p.data))
      BY <1>2, PacketsAre, SequenceIsCells
    <3>. QED
      BY <1>2, <3>1, PacketsAre, SizeOfPacket
  <2>2. WriteBuffer(Buf(d, n, 5), p.data) = Buf(e, n, 5 + m)
    <3>. HIDE DEF m
    <3>. QED
      BY <2>1, WriteBufferIs
  <2>3. WriteFields(Buf(d, n, 5), p) = Buf(e, n, PacketSize(p))
    <3>1. WriteFields(Buf(d, n, 5), p) = WriteBuffer(Buf(d, n, 5), p.data)
      BY <1>2 DEF WriteFields, CrcTypes
    <3>. HIDE DEF e, m
    <3>. QED
      BY <2>1, <2>2, <3>1
  <2>4. Cells(e, n) /\ (\A x \in 1 .. 5 : e[x] = d[x]) /\ \A x \in 1 .. m : e[5 + x] = p.data[x]
    <3>. HIDE DEF m
    <3>. QED
      BY <1>1, <2>1 DEF Patch, Cells
  <2>. HIDE DEF e
  <2>5. HeaderIn(e, p)
    BY <2>4, HeaderKept
  <2>6. FieldsIn(e, p)
    BY <1>2, <2>4 DEF FieldsIn, CrcTypes
  <2>. QED
    BY <2>3, <2>4, <2>5, <2>6
<1>3. CASE p.type = "CONNECTION_ACCEPTED"
  <2>. DEFINE c == htonl(p.id)
              e == Patch(d, n, 5, c, 4)
  <2>1. Cells(c, 4) /\ PacketSize(p) = 9 /\ 5 + 4 <= n /\ 4 \in Nat /\ 5 \in Nat
    BY <1>1, <1>3, SizeOfPacket, IntegerCells
  <2>2. WriteBuffer(Buf(d, n, 5), c) = Buf(e, n, 5 + 4)
    <3>. HIDE DEF c
    <3>. QED
      BY <2>1, WriteBufferIs
  <2>3. WriteFields(Buf(d, n, 5), p) = Buf(e, n, PacketSize(p))
    BY <1>3, <2>1, <2>2 DEF WriteFields, WriteInteger, CrcTypes
  <2>4. Cells(e, n) /\ (\A x \in 1 .. 5 : e[x] = d[x]) /\ \A x \in 1 .. 4 : e[5 + x] = c[x]
    <3>. HIDE DEF c
    <3>. QED
      BY <1>1, <2>1 DEF Patch, Cells
  <2>. HIDE DEF e
  <2>5. HeaderIn(e, p)
    BY <2>4, HeaderKept
  <2>6. FieldsIn(e, p)
    BY <1>3, <2>4 DEF FieldsIn, CrcTypes
  <2>. QED
    BY <2>3, <2>4, <2>5, <2>6
<1>4. CASE p.type = "CONNECTION_DATA"
  <2>. DEFINE a == htons(p.sequence)
              c == htonl(Len(p.data))
              m == Len(p.data)
              f == Patch(d, n, 5, a, 2)
              g == Patch(f, n, 7, c, 4)
              e == Patch(g, n, 11, p.data, m)
  <2>1. Cells(a, 2) /\ Cells(c, 4) /\ Cells(p.data, m) /\ m \in Nat
    <3>1. p.data \in Seq(ByteCells)
      BY PacketsAre
    <3>. QED
      BY <3>1, IntegerCells, ShortCells, SequenceIsCells
  <2>2. PacketSize(p) = 11 + m /\ 5 + 2 <= n /\ 7 + 4 <= n /\ 11 + m <= n
    BY <1>1, <1>4, <2>1, SizeOfPacket
  <2>. HIDE DEF a, c, m
  <2>3. WriteBuffer(Buf(d, n, 5), a) = Buf(f, n, 7) /\ Cells(f, n)
    <3>1. WriteBuffer(Buf(d, n, 5), a) = Buf(f, n, 5 + 2)
      BY <2>1, <2>2, WriteBufferIs
    <3>. QED
      BY <1>1, <3>1 DEF Patch, Cells
  <2>4. WriteBuffer(Buf(f, n, 7), c) = Buf(g, n, 11) /\ Cells(g, n)
    <3>1. WriteBuffer(Buf(f, n, 7), c) = Buf(g, n, 7 + 4)
      <4>. HIDE DEF f
      <4>. QED
        BY <2>1, <2>2, <2>3, WriteBufferIs
    <3>2. Cells(g, n)
      <4>. HIDE DEF f
      <4>. QED
        BY <1>1 DEF Patch, Cells
    <3>. HIDE DEF f, g
    <3>. QED
      BY <3>1, <3>2
  <2>5. WriteBuffer(Buf(g, n, 11), p.data) = Buf(e, n, 11 + m) /\ Cells(e, n)
    <3>. HIDE DEF g
    <3>1. WriteBuffer(Buf(g, n, 11), p.data) = Buf(e, n, 11 + m)
      BY <2>1, <2>2, <2>4, WriteBufferIs
    <3>2. Cells(e, n)
      BY <1>1 DEF Patch, Cells
    <3>. QED
      BY <3>1, <3>2
  <2>6. WriteFields(Buf(d, n, 5), p) = Buf(e, n, PacketSize(p))
    <3>1. WriteFields(Buf(d, n, 5), p)
              = WriteBuffer(WriteInteger(WriteShort(Buf(d, n, 5), p.sequence), Len(p.data)), p.data)
      BY <1>4 DEF WriteFields, CrcTypes
    <3>2. WriteShort(Buf(d, n, 5), p.sequence) = Buf(f, n, 7)
      BY <2>3 DEF WriteShort, a
    <3>3. WriteInteger(Buf(f, n, 7), Len(p.data)) = Buf(g, n, 11)
      BY <2>4 DEF WriteInteger, c
    <3>. HIDE DEF f, g, e
    <3>4. WriteFields(Buf(d, n, 5), p) = WriteBuffer(Buf(g, n, 11), p.data)
      BY <3>1, <3>2, <3>3
    <3>5. 11 + m = PacketSize(p)
      BY <2>2
    <3>6. Buf(e, n, 11 + m) = Buf(e, n, PacketSize(p))
      BY <3>5
    <3>. QED
      BY <2>5, <3>4, <3>6
  <2>7. ASSUME NEW x \in 1 .. 5
        PROVE  e[x] = d[x]
    BY <1>1, <2>1, <2>2 DEF Patch
  <2>8. ASSUME NEW x \in 1 .. 2
        PROVE  e[5 + x] = a[x]
    BY <1>1, <2>1, <2>2 DEF Patch
  <2>9. ASSUME NEW x \in 1 .. 4
        PROVE  e[7 + x] = c[x]
    BY <1>1, <2>1, <2>2 DEF Patch
  <2>10. ASSUME NEW x \in 1 .. m
         PROVE  e[11 + x] = p.data[x]
    BY <1>1, <2>1, <2>2 DEF Patch
  <2>. HIDE DEF e
  <2>11. HeaderIn(e, p)
    BY <2>7, HeaderKept
  <2>12. FieldsIn(e, p)
    BY <1>4, <2>8, <2>9, <2>10 DEF FieldsIn, CrcTypes, a, c, m
  <2>. QED
    BY <2>5, <2>6, <2>11, <2>12
<1>5. CASE p.type \in {"CHALLENGE_RESPONSE", "DISCONNECT"}
  <2>1. PacketSize(p) = 5
    BY <1>5, SizeOfPacket
  <2>2. WriteFields(Buf(d, n, 5), p) = Buf(d, n, 5)
    BY <1>5 DEF WriteFields, CrcTypes
  <2>3. FieldsIn(d, p)
    BY <1>5 DEF FieldsIn, CrcTypes
  <2>. QED
    BY <2>1, <2>2, <2>3
<1>6. p.type \in CrcTypes \cup {"CONNECTION_ACCEPTED", "CONNECTION_DATA",
                                "CHALLENGE_RESPONSE", "DISCONNECT"}
  BY WireAssumption DEF IsPacket
<1>. QED
  BY <1>2, <1>3, <1>4, <1>5, <1>6

\* Rewind moves the index only.
LEMMA RewindIs ==
    ASSUME NEW d, NEW n, NEW k
    PROVE  Rewind(Buf(d, n, k)) = Buf(d, n, 0)
<1>1. PICK b : b = Rewind(Buf(d, n, k))
  OBVIOUS
<1>2. b = Buf(d, n, 0)
  BY <1>1 DEF Rewind, Buf
<1>. QED
  BY <1>1, <1>2

\* A checksum and an HMAC are sequences of their sizes.
LEMMA SealCells ==
    ASSUME NEW key, NEW m
    PROVE  Cells(Crc(m), 4) /\ Cells(Hmac(key, m), HmacBytes)
<1>1. HmacBytes \in Nat
  BY WireAssumption
<1>. QED
  BY <1>1 DEF Cells, Crc, Hmac

\* So are the fields behind the header.
LEMMA FieldsKept ==
    ASSUME NEW p \in Packets, NEW d, NEW e, FieldsIn(d, p),
           \A x \in 1 .. PacketSize(p) : x > 4 => e[x] = d[x]
    PROVE  FieldsIn(e, p)
<1>. DEFINE size == PacketSize(p)
<1>1. ASSUME p.type \in CrcTypes, NEW x \in 1 .. KeyBytes
      PROVE  e[5 + x] = p.data[x]
  <2>1. d[5 + x] = p.data[x]
    BY <1>1 DEF FieldsIn
  <2>2. 5 + x \in 1 .. size /\ 5 + x > 4
    BY <1>1, SizeOfPacket, PacketsAre
  <2>3. e[5 + x] = d[5 + x]
    BY <2>2
  <2>. QED
    BY <2>1, <2>3
<1>2. ASSUME p.type = "CONNECTION_ACCEPTED", NEW x \in 1 .. 4
      PROVE  e[5 + x] = htonl(p.id)[x]
  BY <1>2, SizeOfPacket DEF FieldsIn
<1>3. ASSUME p.type = "CONNECTION_DATA"
      PROVE  /\ \A x \in 1 .. 2 : e[5 + x] = htons(p.sequence)[x]
             /\ \A x \in 1 .. 4 : e[7 + x] = htonl(Len(p.data))[x]
             /\ \A x \in 1 .. Len(p.data) : e[11 + x] = p.data[x]
  <2>1. size = 11 + Len(p.data) /\ Len(p.data) \in Nat
    <3>1. p.data \in Seq(ByteCells)
      BY PacketsAre
    <3>. QED
      BY <1>3, <3>1, SizeOfPacket
  <2>2. /\ \A x \in 1 .. 2 : d[5 + x] = htons(p.sequence)[x]
        /\ \A x \in 1 .. 4 : d[7 + x] = htonl(Len(p.data))[x]
        /\ \A x \in 1 .. Len(p.data) : d[11 + x] = p.data[x]
    BY <1>3 DEF FieldsIn
  <2>3. \A x \in 1 .. size : x > 4 => e[x] = d[x]
    OBVIOUS
  <2>. HIDE DEF size
  <2>4. /\ \A x \in 1 .. 2 : 5 + x \in 1 .. size /\ 5 + x > 4
        /\ \A x \in 1 .. 4 : 7 + x \in 1 .. size /\ 7 + x > 4
        /\ \A x \in 1 .. Len(p.data) : 11 + x \in 1 .. size /\ 11 + x > 4
    BY <2>1
  <2>. QED
    BY <2>2, <2>3, <2>4
<1>. QED
  BY <1>1, <1>2, <1>3 DEF FieldsIn

\* What Write allocates is what it fills, and its result is a datagram of the packet.
LEMMA WriteIs ==
    ASSUME NEW p \in Packets
    PROVE  ~Write(p).thrown /\ \E n \in Nat : IsDatagram(Write(p).data, n, p)
<1>. DEFINE size == PacketSize(p)
            n    == size + IF p.type \in CrcTypes THEN 0 ELSE HmacBytes
<1>1. size \in Nat /\ size >= 5 /\ HmacBytes \in Nat \ {0}
  BY SizeOfPacket, PacketsAre
<1>2. n \in Nat /\ n >= 5 /\ size <= n
  BY <1>1
<1>3. PICK d : /\ WriteByte(WriteInteger(NewBuffer(n), ProtocolId), TypeByte(p)) = Buf(d, n, 5)
               /\ Cells(d, n) /\ HeaderIn(d, p)
  <2>. HIDE DEF n
  <2>. QED
    BY <1>2, HeaderWritten
<1>4. PICK e : /\ WriteFields(Buf(d, n, 5), p) = Buf(e, n, size)
               /\ Cells(e, n) /\ HeaderIn(e, p) /\ FieldsIn(e, p)
  <2>. HIDE DEF n
  <2>. QED
    BY <1>2, <1>3, FieldsWritten
<1>. DEFINE m == SubSeq(e, 1, size)
<1>5. Cells(m, size) /\ \A x \in 1 .. size : m[x] = e[x]
  <2>. HIDE DEF n, size
  <2>1. 0 \in Nat /\ 0 + size <= n
    BY <1>1, <1>2
  <2>2. /\ Cells(SubSeq(e, 0 + 1, 0 + size), size)
        /\ \A x \in 1 .. size : SubSeq(e, 0 + 1, 0 + size)[x] = e[0 + x]
    BY <1>1, <1>4, <2>1, SubSeqIsCells
  <2>3. 0 + 1 = 1 /\ 0 + size = size
    BY <1>1
  <2>. QED
    BY <1>1, <2>2, <2>3
<1>6. Write(p) = IF p.type \in CrcTypes THEN WriteBuffer(Rewind(Buf(e, n, size)), Crc(m))
                 ELSE WriteBuffer(Buf(e, n, size), Hmac(p.key, m))
  <2>. DEFINE b == WriteFields(WriteByte(WriteInteger(NewBuffer(n), ProtocolId), TypeByte(p)), p)
  <2>1. Write(p) = IF p.type \in CrcTypes THEN WriteBuffer(Rewind(b), Crc(SubSeq(b.data, 1, size)))
                   ELSE WriteBuffer(b, Hmac(p.key, SubSeq(b.data, 1, size)))
    BY DEF Write, TypeByte
  <2>2. b = Buf(e, n, size)
    BY <1>3, <1>4
  <2>3. Buf(e, n, size).data = e
    BY DEF Buf
  <2>. HIDE DEF b, n, size
  <2>. QED
    BY <2>1, <2>2, <2>3
<1>. HIDE DEF m
<1>7. IsMessage(m, p)
  <2>1. HeaderIn(m, p)
    <3>1. \A x \in 1 .. 5 : m[x] = e[x]
      <4>. HIDE DEF size
      <4>. QED
        BY <1>1, <1>5
    <3>. QED
      BY <1>4, <3>1, HeaderKept
  <2>2. FieldsIn(m, p)
    BY <1>4, <1>5, FieldsKept
  <2>. QED
    BY <1>5, <2>1, <2>2 DEF IsMessage
<1>8. CASE p.type \in CrcTypes
  <2>. DEFINE d1 == Patch(e, n, 0, Crc(m), 4)
  <2>1. n = size
    BY <1>1, <1>8
  <2>2. Rewind(Buf(e, n, size)) = Buf(e, n, 0)
    <3>. HIDE DEF n, size
    <3>. QED
      BY RewindIs
  <2>3. WriteBuffer(Buf(e, n, 0), Crc(m)) = Buf(d1, n, 0 + 4)
    <3>1. 0 \in Nat /\ 0 + 4 <= n /\ Cells(Crc(m), 4)
      BY <1>2, SealCells
    <3>. HIDE DEF n
    <3>. QED
      BY <1>4, <3>1, WriteBufferIs
  <2>4. /\ Cells(d1, n) /\ \A x \in 1 .. 4 : d1[x] = Crc(m)[x]
        /\ \A x \in 1 .. n : x > 4 => d1[x] = e[x]
    <3>. HIDE DEF n
    <3>. QED
      BY <1>2 DEF Patch, Cells
  <2>5. Write(p) = Buf(d1, n, 4)
    <3>. HIDE DEF d1, n, size
    <3>. QED
      BY <1>6, <1>8, <2>2, <2>3
  <2>. HIDE DEF d1, n
  <2>6. \A x \in 1 .. n : x > 4 => d1[x] = m[x]
    BY <1>5, <2>1, <2>4
  <2>7. IsDatagram(d1, n, p)
    BY <1>7, <1>8, <2>1, <2>4, <2>6 DEF IsDatagram
  <2>8. Buf(d1, n, 4).data = d1 /\ ~Buf(d1, n, 4).thrown
    BY DEF Buf
  <2>. QED
    BY <1>2, <2>5, <2>7, <2>8
<1>9. CASE p.type \notin CrcTypes
  <2>. DEFINE c == Hmac(p.key, m)
              d1 == Patch(e, n, size, c, HmacBytes)
  <2>1. n = size + HmacBytes
    BY <1>9
  <2>2. WriteBuffer(Buf(e, n, size), c) = Buf(d1, n, size + HmacBytes)
    <3>1. Cells(c, HmacBytes)
      BY SealCells
    <3>. HIDE DEF n, size, c
    <3>. QED
      BY <1>1, <1>2, <1>4, <2>1, <3>1, WriteBufferIs
  <2>3. /\ Cells(d1, n) /\ \A x \in 1 .. HmacBytes : d1[size + x] = c[x]
        /\ \A x \in 1 .. size : d1[x] = e[x]
    <3>. HIDE DEF n, size, c
    <3>. QED
      BY <1>1, <1>2, <2>1 DEF Patch, Cells
  <2>4. Write(p) = Buf(d1, n, n)
    <3>. HIDE DEF d1, n, size
    <3>. QED
      BY <1>6, <1>9, <2>1, <2>2
  <2>5. \A x \in 1 .. size : d1[x] = m[x]
    <3>. HIDE DEF d1, n, size
    <3>. QED
      BY <1>5, <2>3
  <2>6. IsDatagram(d1, n, p)
    <3>. HIDE DEF d1, n
    <3>. QED
      BY <1>7, <1>9, <2>1, <2>3, <2>5 DEF IsDatagram
  <2>. HIDE DEF d1
  <2>7. Buf(d1, n, n).data = d1 /\ ~Buf(d1, n, n).thrown
    BY DEF Buf
  <2>. QED
    BY <1>2, <2>4, <2>6, <2>7
<1>. QED
  BY <1>8, <1>9

\* Every cell of a datagram was written.
LEMMA CellsWritten ==
    ASSUME NEW p \in Packets, NEW d, NEW n, IsDatagram(d, n, p), NEW x \in 1 .. n
    PROVE  d[x] # Junk
<1>1. PICK m : /\ IsMessage(m, p) /\ Cells(d, n)
               /\ p.type \in CrcTypes =>
                     /\ n = PacketSize(p)
                     /\ \A j \in 1 .. 4 : d[j] = Crc(m)[j]
                     /\ \A j \in 1 .. n : j > 4 => d[j] = m[j]
               /\ p.type \notin CrcTypes =>
                     /\ n = PacketSize(p) + HmacBytes
                     /\ \A j \in 1 .. PacketSize(p) : d[j] = m[j]
                     /\ \A j \in 1 .. HmacBytes : d[PacketSize(p) + j] = Hmac(p.key, m)[j]
  BY DEF IsDatagram
<1>2. PacketSize(p) \in Nat /\ PacketSize(p) >= 5 /\ HmacBytes \in Nat \ {0}
  BY SizeOfPacket, PacketsAre
<1>3. \A v : Byte(v) # Junk
  BY DEF Byte, Junk
<1>4. ASSUME NEW j \in 1 .. PacketSize(p)
      PROVE  \E v : m[j] = Byte(v)
  <2>1. p.data \in Seq(ByteCells) /\ \A k \in 1 .. Len(p.data) : \E v : p.data[k] = Byte(v)
    <3>1. p.data \in Seq(ByteCells)
      BY PacketsAre
    <3>2. \A k \in 1 .. Len(p.data) : p.data[k] \in ByteCells
      BY <3>1
    <3>. QED
      BY <3>1, <3>2 DEF ByteCells
  <2>2. Len(p.data) \in Nat
    BY <2>1
  <2>3. /\ \A w : \A k \in 1 .. 4 : \E v : htonl(w)[k] = Byte(v)
        /\ \A w : \A k \in 1 .. 2 : \E v : htons(w)[k] = Byte(v)
    BY DEF htonl, htons
  <2>4. CASE j \in 1 .. 5
    <3>1. j \in 1 .. 4 \/ j = 5
      BY <2>4
    <3>2. m[5] = Byte(TypeByte(p)) /\ \A k \in 1 .. 4 : m[k] = htonl(ProtocolId)[k]
      BY <1>1 DEF IsMessage, HeaderIn
    <3>. QED
      BY <2>3, <3>1, <3>2
  <2>5. CASE j > 5 /\ p.type \in CrcTypes
    <3>1. j - 5 \in 1 .. KeyBytes /\ 5 + (j - 5) = j /\ KeyBytes = Len(p.data)
      BY <2>5, SizeOfPacket, PacketsAre
    <3>2. m[5 + (j - 5)] = p.data[j - 5]
      BY <1>1, <2>5, <3>1 DEF IsMessage, FieldsIn
    <3>. QED
      BY <2>1, <3>1, <3>2
  <2>6. CASE j > 5 /\ p.type = "CONNECTION_ACCEPTED"
    <3>1. j - 5 \in 1 .. 4 /\ 5 + (j - 5) = j
      BY <2>6, SizeOfPacket
    <3>2. m[5 + (j - 5)] = htonl(p.id)[j - 5]
      BY <1>1, <2>6, <3>1 DEF IsMessage, FieldsIn
    <3>. QED
      BY <2>3, <3>1, <3>2
  <2>7. CASE j > 5 /\ p.type = "CONNECTION_DATA"
    <3>1. /\ \A k \in 1 .. 2 : m[5 + k] = htons(p.sequence)[k]
          /\ \A k \in 1 .. 4 : m[7 + k] = htonl(Len(p.data))[k]
          /\ \A k \in 1 .. Len(p.data) : m[11 + k] = p.data[k]
      BY <1>1, <2>7 DEF IsMessage, FieldsIn
    <3>2. j \in 1 .. 11 + Len(p.data)
      BY <2>7, SizeOfPacket
    <3>3. CASE j \in 6 .. 7
      <4>1. j - 5 \in 1 .. 2 /\ 5 + (j - 5) = j
        BY <3>3
      <4>2. m[5 + (j - 5)] = htons(p.sequence)[j - 5]
        BY <3>1, <4>1
      <4>. QED
        BY <2>3, <4>1, <4>2
    <3>4. CASE j \in 8 .. 11
      <4>1. j - 7 \in 1 .. 4 /\ 7 + (j - 7) = j
        BY <3>4
      <4>2. m[7 + (j - 7)] = htonl(Len(p.data))[j - 7]
        BY <3>1, <4>1
      <4>. QED
        BY <2>3, <4>1, <4>2
    <3>5. CASE j > 11
      <4>1. j - 11 \in 1 .. Len(p.data) /\ 11 + (j - 11) = j
        BY <2>2, <3>2, <3>5
      <4>2. m[11 + (j - 11)] = p.data[j - 11]
        BY <3>1, <4>1
      <4>. QED
        BY <2>1, <4>1, <4>2
    <3>. QED
      BY <2>7, <3>3, <3>4, <3>5
  <2>8. CASE j > 5 /\ p.type \in {"CHALLENGE_RESPONSE", "DISCONNECT"}
    BY <2>8, SizeOfPacket
  <2>9. p.type \in CrcTypes \cup {"CONNECTION_ACCEPTED", "CONNECTION_DATA",
                                  "CHALLENGE_RESPONSE", "DISCONNECT"}
    BY WireAssumption DEF IsPacket
  <2>. QED
    BY <1>2, <2>4, <2>5, <2>6, <2>7, <2>8, <2>9
<1>5. CASE p.type \in CrcTypes
  <2>1. CASE x \in 1 .. 4
    <3>1. d[x] = <<"crc", m, x>>
      BY <1>1, <1>5, <2>1 DEF Crc
    <3>. QED
      BY <3>1 DEF Junk
  <2>2. CASE x > 4
    <3>1. d[x] = m[x] /\ x \in 1 .. PacketSize(p)
      BY <1>1, <1>5, <2>2
    <3>. QED
      BY <1>3, <1>4, <3>1
  <2>. QED
    BY <2>1, <2>2
<1>6. CASE p.type \notin CrcTypes
  <2>1. CASE x \in 1 .. PacketSize(p)
    BY <1>1, <1>3, <1>4, <1>6, <2>1
  <2>2. CASE x > PacketSize(p)
    <3>1. /\ x - PacketSize(p) \in 1 .. HmacBytes
          /\ PacketSize(p) + (x - PacketSize(p)) = x
      BY <1>1, <1>2, <1>6, <2>2
    <3>2. d[PacketSize(p) + (x - PacketSize(p))] = Hmac(p.key, m)[x - PacketSize(p)]
      BY <1>1, <1>6, <3>1
    <3>3. d[x] = <<"hmac", p.key, m, x - PacketSize(p)>>
      BY <3>1, <3>2 DEF Hmac
    <3>. QED
      BY <3>3 DEF Junk
  <2>. QED
    BY <1>2, <2>1, <2>2
<1>. QED
  BY <1>5, <1>6

------------------------------------------------------------------------------
(* Verify and Read.  Each Verify function finds the packet in a datagram of its kind,  *)
(* and nothing in one of the other kind, or of another key.                            *)

\* A number is read as it was written, from wherever the index is.
LEMMA ReadsInteger ==
    ASSUME NEW d, NEW n, Cells(d, n), NEW k \in Nat, k + 4 <= n, NEW v \in Integers4,
           \A x \in 1 .. 4 : d[k + x] = htonl(v)[x]
    PROVE  ReadInteger(Buf(d, n, k)) = v
<1>. DEFINE c == ReadCells(Buf(d, n, k), 4)
<1>1. Cells(c, 4) /\ \A x \in 1 .. 4 : c[x] = d[k + x]
  BY ReadIs
<1>2. c = htonl(v)
  <2>. HIDE DEF c
  <2>. QED
    BY <1>1, IntegerCells, CellsEqual
<1>3. ntohl(htonl(v)) = v
  BY IntegerAsBytes DEF Integers4
<1>. QED
  BY <1>2, <1>3 DEF ReadInteger

\* So is a number of two bytes.
LEMMA ReadsShort ==
    ASSUME NEW d, NEW n, Cells(d, n), NEW k \in Nat, k + 2 <= n,
           NEW v \in 0 .. ByteBase * ByteBase - 1,
           \A x \in 1 .. 2 : d[k + x] = htons(v)[x]
    PROVE  ReadShort(Buf(d, n, k)) = v
<1>. DEFINE c == ReadCells(Buf(d, n, k), 2)
<1>1. Cells(c, 2) /\ \A x \in 1 .. 2 : c[x] = d[k + x]
  BY ReadIs
<1>2. c = htons(v)
  <2>. HIDE DEF c
  <2>. QED
    BY <1>1, ShortCells, CellsEqual
<1>3. ntohs(htons(v)) = v
  BY ShortAsBytes
<1>. QED
  BY <1>2, <1>3 DEF ReadShort

\* The type of a packet is found behind its first four cells.
LEMMA ReadsType ==
    ASSUME NEW p \in Packets, NEW d, NEW n, Cells(d, n), 5 <= n, d[5] = Byte(TypeByte(p))
    PROVE  TypeRead(Buf(d, n, 4)) = Verified(p.type, Buf(d, n, 5))
<1>. DEFINE b == Buf(d, n, 4)
            t == TypeByte(p)
<1>1. 4 \in Nat /\ 1 \in Nat /\ 4 + 1 <= n
  OBVIOUS
<1>2. /\ \A x \in 1 .. 1 : ReadCells(b, 1)[x] = d[4 + x]
      /\ AfterRead(b, 1) = Buf(d, n, 4 + 1)
  BY <1>1, ReadIs
<1>3. ReadCells(b, 1)[1] = Byte(t)
  <2>1. 1 \in 1 .. 1 /\ 4 + 1 = 5
    OBVIOUS
  <2>. HIDE DEF b, t
  <2>2. ReadCells(b, 1)[1] = d[4 + 1]
    BY <1>2, <2>1
  <2>. QED
    BY <2>1, <2>2 DEF t
<1>4. ReadByte(b) = t
  <2>. HIDE DEF b, t
  <2>. QED
    BY <1>3 DEF ReadByte, Byte
<1>5. t \in DOMAIN PacketTypes /\ PacketTypes[t] = p.type
  <2>1. DOMAIN PacketTypes = 1 .. 6
    BY DEF PacketTypes
  <2>. QED
    BY <2>1, PacketsAre
<1>6. AfterRead(b, 1) = Buf(d, n, 5)
  <2>1. 4 + 1 = 5
    OBVIOUS
  <2>. HIDE DEF b
  <2>. QED
    BY <1>2, <2>1
<1>. HIDE DEF b, t
<1>. QED
  BY <1>4, <1>5, <1>6 DEF TypeRead, b

\* Read finds every field of the packet that was written, given the key it was sealed with.
LEMMA ReadsPacket ==
    ASSUME NEW p \in Packets, NEW d, NEW n, Cells(d, n), PacketSize(p) <= n, FieldsIn(d, p),
           NEW key, p.type \notin CrcTypes => key = p.key
    PROVE  Read(Verified(p.type, Buf(d, n, 5)), key) = p
<1>. DEFINE b == Buf(d, n, 5)
            v == Verified(p.type, b)
<1>1. n \in Nat /\ v.type = p.type /\ v.buffer = b
  BY CellsAreSequence DEF Verified
<1>2. IsPacket(p)
  BY WireAssumption
<1>3. ASSUME p.type \in CrcTypes
      PROVE  Read(v, key) = p
  <2>1. KeyBytes \in Nat /\ 5 \in Nat /\ 5 + KeyBytes <= n /\ Cells(p.data, KeyBytes)
    <3>1. Len(p.data) = KeyBytes /\ Cells(p.data, Len(p.data))
      BY <1>3, PacketsAre, SequenceIsCells
    <3>. QED
      BY <1>3, <3>1, PacketsAre, SizeOfPacket
  <2>2. /\ Cells(ReadCells(b, KeyBytes), KeyBytes)
        /\ \A x \in 1 .. KeyBytes : ReadCells(b, KeyBytes)[x] = d[5 + x]
    BY <2>1, ReadIs
  <2>3. \A x \in 1 .. KeyBytes : d[5 + x] = p.data[x]
    BY <1>3 DEF FieldsIn
  <2>4. ReadCells(b, KeyBytes) = p.data
    <3>. HIDE DEF b
    <3>. QED
      BY <2>1, <2>2, <2>3, CellsEqual
  <2>5. p = Packet(p.type, "none", 0, 0, p.data)
    BY <1>2, <1>3 DEF IsPacket, CrcTypes
  <2>6. Read(v, key) = Packet(v.type, "none", 0, 0, ReadCells(v.buffer, KeyBytes))
    <3>. HIDE DEF v
    <3>. QED
      BY <1>1, <1>3 DEF Read, CrcTypes
  <2>. HIDE DEF v, b
  <2>. QED
    BY <1>1, <2>4, <2>5, <2>6
<1>4. ASSUME p.type = "CONNECTION_ACCEPTED"
      PROVE  Read(v, key) = p
  <2>1. p.id \in Integers4 /\ 5 \in Nat /\ 5 + 4 <= n
    BY <1>1, <1>4, PacketsAre, SizeOfPacket
  <2>2. \A x \in 1 .. 4 : d[5 + x] = htonl(p.id)[x]
    BY <1>4 DEF FieldsIn
  <2>3. ReadInteger(b) = p.id
    BY <2>1, <2>2, ReadsInteger
  <2>4. p = Packet(p.type, p.key, p.id, 0, <<>>)
    BY <1>2, <1>4 DEF IsPacket, CrcTypes
  <2>5. Read(v, key) = Packet(v.type, key, ReadInteger(v.buffer), 0, <<>>)
    <3>. HIDE DEF v
    <3>. QED
      BY <1>1, <1>4 DEF Read, CrcTypes
  <2>6. key = p.key
    BY <1>4 DEF CrcTypes
  <2>. HIDE DEF v, b
  <2>. QED
    BY <1>1, <2>3, <2>4, <2>5, <2>6
<1>5. ASSUME p.type = "CONNECTION_DATA"
      PROVE  Read(v, key) = p
  <2>. DEFINE m == Len(p.data)
  <2>1. /\ p.sequence \in 0 .. ByteBase * ByteBase - 1 /\ m \in Integers4
        /\ Cells(p.data, m)
        /\ PacketSize(p) = 11 + m
    <3>1. p.data \in Seq(ByteCells)
      BY PacketsAre
    <3>. QED
      BY <1>5, <3>1, PacketsAre, SizeOfPacket, SequenceIsCells
  <2>2. m \in Nat /\ 5 + 2 <= n /\ 7 + 4 <= n /\ 11 + m <= n
    BY <1>1, <2>1, CellsAreSequence
  <2>3. /\ \A x \in 1 .. 2 : d[5 + x] = htons(p.sequence)[x]
        /\ \A x \in 1 .. 4 : d[7 + x] = htonl(m)[x]
        /\ \A x \in 1 .. m : d[11 + x] = p.data[x]
    BY <1>5 DEF FieldsIn
  <2>. HIDE DEF m
  <2>4. ReadShort(b) = p.sequence
    BY <2>1, <2>2, <2>3, ReadsShort
  <2>5. AfterRead(b, 2) = Buf(d, n, 7) /\ AfterRead(Buf(d, n, 7), 4) = Buf(d, n, 11)
    <3>1. AfterRead(b, 2) = Buf(d, n, 5 + 2) /\ AfterRead(Buf(d, n, 7), 4) = Buf(d, n, 7 + 4)
      BY <2>2, ReadIs
    <3>2. 5 + 2 = 7 /\ 7 + 4 = 11
      OBVIOUS
    <3>. HIDE DEF b
    <3>. QED
      BY <3>1, <3>2
  <2>6. ReadInteger(Buf(d, n, 7)) = m
    BY <2>1, <2>2, <2>3, ReadsInteger
  <2>7. ReadCells(Buf(d, n, 11), m) = p.data
    <3>1. /\ Cells(ReadCells(Buf(d, n, 11), m), m)
          /\ \A x \in 1 .. m : ReadCells(Buf(d, n, 11), m)[x] = d[11 + x]
      BY <2>2, ReadIs
    <3>. QED
      BY <2>1, <2>3, <3>1, CellsEqual
  <2>8. p = Packet(p.type, p.key, 0, p.sequence, p.data)
    BY <1>2, <1>5 DEF IsPacket, CrcTypes
  <2>9. Read(v, key)
          = Packet(v.type, key, 0, ReadShort(v.buffer),
                   ReadCells(AfterRead(AfterRead(v.buffer, 2), 4),
                             ReadInteger(AfterRead(v.buffer, 2))))
    <3>. HIDE DEF v
    <3>. QED
      BY <1>1, <1>5 DEF Read, CrcTypes
  <2>10. key = p.key
    BY <1>5 DEF CrcTypes
  <2>. HIDE DEF v, b
  <2>. QED
    BY <1>1, <2>4, <2>5, <2>6, <2>7, <2>8, <2>9, <2>10
<1>6. ASSUME p.type \in {"CHALLENGE_RESPONSE", "DISCONNECT"}
      PROVE  Read(v, key) = p
  <2>1. p = Packet(p.type, p.key, 0, 0, <<>>)
    BY <1>2, <1>6 DEF IsPacket, CrcTypes
  <2>2. Read(v, key) = Packet(v.type, key, 0, 0, <<>>)
    <3>. HIDE DEF v
    <3>. QED
      BY <1>1, <1>6 DEF Read, CrcTypes
  <2>3. key = p.key
    BY <1>6 DEF CrcTypes
  <2>. HIDE DEF v, b
  <2>. QED
    BY <1>1, <2>1, <2>2, <2>3
<1>7. p.type \in CrcTypes \cup {"CONNECTION_ACCEPTED", "CONNECTION_DATA",
                                "CHALLENGE_RESPONSE", "DISCONNECT"}
  BY <1>2 DEF IsPacket
<1>. QED
  BY <1>3, <1>4, <1>5, <1>6, <1>7

\* The two Verify functions on n cells, as a whole.
LEMMA VerifyHMACIs ==
    ASSUME NEW d, NEW n, Cells(d, n), n > HmacBytes, NEW key
    PROVE  \E m, c :
              /\ Cells(m, n - HmacBytes) /\ \A x \in 1 .. n - HmacBytes : m[x] = d[x]
              /\ Cells(c, HmacBytes) /\ \A x \in 1 .. HmacBytes : c[x] = d[n - HmacBytes + x]
              /\ VerifyPacketHMAC(key, Buf(d, n, 0))
                     = IF c # Hmac(key, m) \/ ReadInteger(Buf(d, n, 0)) # ProtocolId
                       THEN Invalid(Buf(d, n, 0))
                       ELSE TypeRead(AfterRead(Buf(d, n, 0), 4))
<1>. DEFINE b    == Buf(d, n, 0)
            size == n - HmacBytes
            m    == ReadCells(b, size)
            c    == ReadCells(AfterRead(b, size), HmacBytes)
<1>1. n \in Nat /\ HmacBytes \in Nat
  BY CellsAreSequence, WireAssumption
<1>2. size \in Nat /\ 0 + size <= n /\ size + HmacBytes <= n /\ 0 \in Nat
  BY <1>1
<1>3. /\ Cells(m, size) /\ \A x \in 1 .. size : m[x] = d[0 + x]
      /\ AfterRead(b, size) = Buf(d, n, 0 + size)
  <2>. HIDE DEF size
  <2>. QED
    BY <1>2, ReadIs
<1>4. AfterRead(b, size) = Buf(d, n, size)
  <2>1. 0 + size = size
    BY <1>2
  <2>. HIDE DEF size, b
  <2>. QED
    BY <1>3, <2>1
<1>5. Cells(c, HmacBytes) /\ \A x \in 1 .. HmacBytes : c[x] = d[size + x]
  <2>1. /\ Cells(ReadCells(Buf(d, n, size), HmacBytes), HmacBytes)
        /\ \A x \in 1 .. HmacBytes : ReadCells(Buf(d, n, size), HmacBytes)[x] = d[size + x]
    <3>. HIDE DEF size
    <3>. QED
      BY <1>1, <1>2, ReadIs
  <2>. HIDE DEF size, b
  <2>. QED
    BY <1>4, <2>1
<1>6. Rewind(b) = b
  BY RewindIs
<1>7. b.size = n
  BY DEF Buf
<1>8. VerifyPacketHMAC(key, b)
          = IF c # Hmac(key, m) \/ ReadInteger(b) # ProtocolId
            THEN Invalid(b) ELSE TypeRead(AfterRead(b, 4))
  <2>1. VerifyPacketHMAC(key, b)
          = IF b.size <= HmacBytes THEN Invalid(b)
            ELSE IF ReadCells(AfterRead(b, b.size - HmacBytes), HmacBytes)
                        # Hmac(key, ReadCells(b, b.size - HmacBytes))
                    \/ ReadInteger(Rewind(b)) # ProtocolId
                 THEN Invalid(Rewind(b)) ELSE TypeRead(AfterRead(Rewind(b), 4))
    <3>. HIDE DEF b
    <3>. QED
      BY DEF VerifyPacketHMAC
  <2>2. ~(n <= HmacBytes)
    BY <1>1
  <2>. HIDE DEF b
  <2>. QED
    BY <1>6, <1>7, <2>1, <2>2
<1>9. \A x \in 1 .. size : m[x] = d[x]
  <2>1. \A x \in 1 .. size : 0 + x = x
    OBVIOUS
  <2>. HIDE DEF m, size
  <2>. QED
    BY <1>3, <2>1
<1>. HIDE DEF m, c
<1>. QED
  BY <1>3, <1>5, <1>8, <1>9

\* What VerifyPacketCRC compares: the first four cells, and all with the protocol id in them.
LEMMA VerifyCRCIs ==
    ASSUME NEW d, NEW n, Cells(d, n), n > 0
    PROVE  /\ n < 4 => VerifyPacketCRC(Buf(d, n, 0)) = Invalid(Throw(Buf(d, n, 0)))
           /\ n >= 4 => \E e, c :
                 /\ Cells(e, n) /\ Cells(c, 4) /\ \A x \in 1 .. 4 : c[x] = d[x]
                 /\ \A x \in 1 .. 4 : e[x] = htonl(ProtocolId)[x]
                 /\ \A x \in 1 .. n : x > 4 => e[x] = d[x]
                 /\ VerifyPacketCRC(Buf(d, n, 0))
                        = IF c # Crc(e) THEN Invalid(Buf(e, n, 4)) ELSE TypeRead(Buf(e, n, 4))
<1>. DEFINE b == Buf(d, n, 0)
            h == htonl(ProtocolId)
            e == Patch(d, n, 0, h, 4)
            c == ReadCells(b, 4)
<1>1. n \in Nat /\ Rewind(b) = b
  BY CellsAreSequence, RewindIs
<1>2. b.size = n /\ b.index = 0 /\ b.thrown = FALSE
  BY DEF Buf
<1>3. VerifyPacketCRC(b)
        = IF b.size <= 0 THEN Invalid(b)
          ELSE IF ~Fits(b, 4) THEN Invalid(Throw(b))
          ELSE IF ReadCells(b, 4) # Crc(WriteInteger(Rewind(b), ProtocolId).data)
               THEN Invalid(WriteInteger(Rewind(b), ProtocolId))
               ELSE TypeRead(WriteInteger(Rewind(b), ProtocolId))
  <2>. HIDE DEF b
  <2>. QED
    BY DEF VerifyPacketCRC
<1>4. Fits(b, 4) <=> n >= 4
  <2>. HIDE DEF b
  <2>. QED
    BY <1>1, <1>2 DEF Fits
<1>5. ~(n <= 0)
  BY <1>1
<1>6. ASSUME n < 4
      PROVE  VerifyPacketCRC(b) = Invalid(Throw(b))
  <2>1. ~(n >= 4)
    BY <1>1, <1>6
  <2>. HIDE DEF b
  <2>. QED
    BY <1>2, <1>3, <1>4, <1>5, <2>1
<1>7. ASSUME n >= 4
      PROVE  /\ Cells(e, n) /\ Cells(c, 4) /\ \A x \in 1 .. 4 : c[x] = d[x]
             /\ \A x \in 1 .. 4 : e[x] = h[x]
             /\ \A x \in 1 .. n : x > 4 => e[x] = d[x]
             /\ VerifyPacketCRC(b)
                    = IF c # Crc(e) THEN Invalid(Buf(e, n, 4)) ELSE TypeRead(Buf(e, n, 4))
  <2>1. 0 \in Nat /\ 4 \in Nat /\ 0 + 4 <= n /\ Cells(h, 4)
    BY <1>7, IntegerCells
  <2>2. WriteBuffer(b, h) = Buf(e, n, 0 + 4)
    <3>. HIDE DEF h
    <3>. QED
      BY <2>1, WriteBufferIs
  <2>3. /\ Cells(e, n) /\ \A x \in 1 .. 4 : e[x] = h[x]
        /\ \A x \in 1 .. n : x > 4 => e[x] = d[x]
    <3>. HIDE DEF h
    <3>. QED
      BY <1>1, <1>7 DEF Patch, Cells
  <2>4. Cells(c, 4) /\ \A x \in 1 .. 4 : c[x] = d[0 + x]
    BY <2>1, ReadIs
  <2>5. \A x \in 1 .. 4 : c[x] = d[x]
    <3>1. \A x \in 1 .. 4 : 0 + x = x
      OBVIOUS
    <3>. HIDE DEF c
    <3>. QED
      BY <2>4, <3>1
  <2>6. WriteInteger(Rewind(b), ProtocolId) = Buf(e, n, 4)
    <3>1. WriteInteger(b, ProtocolId) = WriteBuffer(b, h)
      BY DEF WriteInteger
    <3>2. 0 + 4 = 4
      OBVIOUS
    <3>. HIDE DEF e, h, b
    <3>. QED
      BY <1>1, <2>2, <3>1, <3>2
  <2>7. Buf(e, n, 4).data = e
    BY DEF Buf
  <2>8. VerifyPacketCRC(b)
            = IF c # Crc(e) THEN Invalid(Buf(e, n, 4)) ELSE TypeRead(Buf(e, n, 4))
    <3>. HIDE DEF b, e, h
    <3>. QED
      BY <1>2, <1>3, <1>4, <1>5, <1>7, <2>6, <2>7
  <2>. QED
    BY <2>3, <2>4, <2>5, <2>8
<1>8. n >= 4 => \E e1, c1 :
          /\ Cells(e1, n) /\ Cells(c1, 4) /\ \A x \in 1 .. 4 : c1[x] = d[x]
          /\ \A x \in 1 .. 4 : e1[x] = h[x]
          /\ \A x \in 1 .. n : x > 4 => e1[x] = d[x]
          /\ VerifyPacketCRC(b)
                 = IF c1 # Crc(e1) THEN Invalid(Buf(e1, n, 4)) ELSE TypeRead(Buf(e1, n, 4))
  <2>. HIDE DEF e, c, b, h
  <2>. QED
    BY <1>7
<1>. QED
  BY <1>6, <1>8

\* What a Verify function may find in a datagram: the packet, or an invalid one; and its
\* buffer has thrown or not.
Finds(v, key, p)  == ~v.buffer.thrown /\ v.type = p.type /\ Read(v, key) = p
FindsNothing(v)   == ~v.buffer.thrown /\ v.type = "INVALID_PACKET"

\* An invalid packet, wherever the index is left.
LEMMA InvalidFindsNothing ==
    ASSUME NEW d, NEW n, NEW k
    PROVE  FindsNothing(Invalid(Buf(d, n, k)))
<1>1. Buf(d, n, k).thrown = FALSE
  BY DEF Buf
<1>. HIDE DEF Buf
<1>. QED
  BY <1>1 DEF FindsNothing, Invalid, Verified

\* A buffer that got past the checks, its index behind the header, gives the packet.
LEMMA VerifiedIsFound ==
    ASSUME NEW p \in Packets, NEW d, NEW n, Cells(d, n), PacketSize(p) <= n, FieldsIn(d, p),
           NEW key, p.type \notin CrcTypes => key = p.key
    PROVE  Finds(Verified(p.type, Buf(d, n, 5)), key, p)
<1>1. Buf(d, n, 5).thrown = FALSE
  BY DEF Buf
<1>2. Read(Verified(p.type, Buf(d, n, 5)), key) = p
  BY ReadsPacket
<1>. HIDE DEF Buf
<1>. QED
  BY <1>1, <1>2 DEF Finds, Verified

\* The header of a message, and of what has the same first five cells.
LEMMA HeaderReads ==
    ASSUME NEW p \in Packets, NEW d, NEW n, Cells(d, n), 5 <= n, HeaderIn(d, p)
    PROVE  /\ ReadInteger(Buf(d, n, 0)) = ProtocolId
           /\ AfterRead(Buf(d, n, 0), 4) = Buf(d, n, 4)
           /\ TypeRead(Buf(d, n, 4)) = Verified(p.type, Buf(d, n, 5))
<1>1. /\ \A x \in 1 .. 4 : d[x] = htonl(ProtocolId)[x]
      /\ d[5] = Byte(TypeByte(p)) /\ ProtocolId \in Integers4
  BY WireAssumption DEF HeaderIn
<1>2. n \in Nat /\ 0 \in Nat /\ 4 \in Nat /\ 0 + 4 <= n
  <2>1. n \in Nat
    BY CellsAreSequence
  <2>. QED
    BY <2>1
<1>3. ReadInteger(Buf(d, n, 0)) = ProtocolId
  <2>. DEFINE z == 0
  <2>1. z \in Nat /\ z + 4 <= n
    BY <1>2
  <2>2. \A x \in 1 .. 4 : d[z + x] = htonl(ProtocolId)[x]
    BY <1>1
  <2>. HIDE DEF z
  <2>3. ReadInteger(Buf(d, n, z)) = ProtocolId
    BY <1>1, <2>1, <2>2, ReadsInteger
  <2>. QED
    BY <2>3 DEF z
<1>4. AfterRead(Buf(d, n, 0), 4) = Buf(d, n, 4)
  <2>1. AfterRead(Buf(d, n, 0), 4) = Buf(d, n, 0 + 4) /\ 0 + 4 = 4
    BY <1>2, ReadIs
  <2>. QED
    BY <2>1
<1>5. TypeRead(Buf(d, n, 4)) = Verified(p.type, Buf(d, n, 5))
  BY <1>1, ReadsType
<1>. QED
  BY <1>3, <1>4, <1>5

\* Under the key that a packet was sealed with, an HMAC is found right and the packet whole;
\* under any other key, or in place of a CRC, nothing is.
LEMMA HmacOfPacket ==
    ASSUME NEW p \in Packets, NEW d, NEW n, IsDatagram(d, n, p), NEW key
    PROVE  LET v == VerifyPacketHMAC(key, Buf(d, n, 0))
           IN  IF p.type \notin CrcTypes /\ p.key = key THEN Finds(v, key, p) ELSE FindsNothing(v)
<1>. DEFINE v == VerifyPacketHMAC(key, Buf(d, n, 0))
<1>1. PICK m : /\ IsMessage(m, p) /\ Cells(d, n)
               /\ p.type \in CrcTypes =>
                     /\ n = PacketSize(p)
                     /\ \A j \in 1 .. 4 : d[j] = Crc(m)[j]
                     /\ \A j \in 1 .. n : j > 4 => d[j] = m[j]
               /\ p.type \notin CrcTypes =>
                     /\ n = PacketSize(p) + HmacBytes
                     /\ \A j \in 1 .. PacketSize(p) : d[j] = m[j]
                     /\ \A j \in 1 .. HmacBytes : d[PacketSize(p) + j] = Hmac(p.key, m)[j]
  BY DEF IsDatagram
<1>2. /\ PacketSize(p) \in Nat /\ PacketSize(p) >= 5 /\ HmacBytes \in Nat \ {0} /\ n \in Nat
      /\ Cells(m, PacketSize(p)) /\ HeaderIn(m, p) /\ FieldsIn(m, p)
  BY <1>1, SizeOfPacket, PacketsAre, CellsAreSequence DEF IsMessage
<1>3. ASSUME n <= HmacBytes
      PROVE  v = Invalid(Buf(d, n, 0))
  <2>1. Buf(d, n, 0).size = n
    BY DEF Buf
  <2>. HIDE DEF Buf
  <2>. QED
    BY <1>3, <2>1 DEF VerifyPacketHMAC
<1>4. ASSUME p.type \notin CrcTypes
      PROVE  IF p.key = key THEN Finds(v, key, p) ELSE FindsNothing(v)
  <2>1. n > HmacBytes /\ n - HmacBytes = PacketSize(p) /\ 5 <= n /\ PacketSize(p) <= n
    BY <1>1, <1>2, <1>4
  <2>2. PICK w, c : /\ Cells(w, n - HmacBytes) /\ \A x \in 1 .. n - HmacBytes : w[x] = d[x]
                    /\ Cells(c, HmacBytes)
                    /\ \A x \in 1 .. HmacBytes : c[x] = d[n - HmacBytes + x]
                    /\ v = IF c # Hmac(key, w) \/ ReadInteger(Buf(d, n, 0)) # ProtocolId
                           THEN Invalid(Buf(d, n, 0))
                           ELSE TypeRead(AfterRead(Buf(d, n, 0), 4))
    <3>. HIDE DEF Buf
    <3>. QED
      BY <1>1, <2>1, VerifyHMACIs
  <2>3. w = m
    BY <1>1, <1>2, <1>4, <2>1, <2>2, CellsEqual
  <2>4. c = Hmac(p.key, m)
    <3>1. \A x \in 1 .. HmacBytes : c[x] = Hmac(p.key, m)[x]
      BY <1>1, <1>4, <2>1, <2>2
    <3>. QED
      BY <2>2, <3>1, SealCells, CellsEqual
  <2>5. HeaderIn(d, p) /\ FieldsIn(d, p)
    <3>1. \A x \in 1 .. PacketSize(p) : d[x] = m[x]
      BY <1>1, <1>4
    <3>2. \A x \in 1 .. 5 : d[x] = m[x]
      BY <1>2, <3>1
    <3>. QED
      BY <1>2, <1>4, <3>1, <3>2, HeaderKept, FieldsKept
  <2>6. CASE p.key = key
    <3>1. v = Verified(p.type, Buf(d, n, 5))
      BY <1>1, <2>1, <2>2, <2>3, <2>4, <2>5, <2>6, HeaderReads
    <3>2. Finds(Verified(p.type, Buf(d, n, 5)), key, p)
      BY <1>1, <2>1, <2>5, <2>6, VerifiedIsFound
    <3>. HIDE DEF v
    <3>. QED
      BY <2>6, <3>1, <3>2
  <2>7. CASE p.key # key
    <3>1. Hmac(p.key, m) # Hmac(key, m)
      <4>1. 1 \in 1 .. HmacBytes
        BY <1>2
      <4>2. Hmac(p.key, m)[1] = <<"hmac", p.key, m, 1>> /\ Hmac(key, m)[1] = <<"hmac", key, m, 1>>
        BY <4>1 DEF Hmac
      <4>3. <<"hmac", p.key, m, 1>> # <<"hmac", key, m, 1>>
        BY <2>7
      <4>. HIDE DEF Hmac
      <4>. QED
        BY <4>2, <4>3
    <3>2. v = Invalid(Buf(d, n, 0))
      BY <2>2, <2>3, <2>4, <3>1
    <3>. HIDE DEF v
    <3>. QED
      BY <2>7, <3>2, InvalidFindsNothing
  <2>. QED
    BY <2>6, <2>7
<1>5. ASSUME p.type \in CrcTypes
      PROVE  FindsNothing(v)
  <2>1. CASE n <= HmacBytes
    <3>. HIDE DEF v
    <3>. QED
      BY <1>3, <2>1, InvalidFindsNothing
  <2>2. CASE n > HmacBytes
    <3>1. PICK w, c : /\ Cells(c, HmacBytes)
                      /\ \A x \in 1 .. HmacBytes : c[x] = d[n - HmacBytes + x]
                      /\ v = IF c # Hmac(key, w) \/ ReadInteger(Buf(d, n, 0)) # ProtocolId
                             THEN Invalid(Buf(d, n, 0))
                             ELSE TypeRead(AfterRead(Buf(d, n, 0), 4))
      BY <1>1, <2>2, VerifyHMACIs
    <3>2. /\ n = 5 + KeyBytes /\ KeyBytes \in Nat \ {0}
          /\ p.data \in Seq(ByteCells) /\ Len(p.data) = KeyBytes
      BY <1>1, <1>5, SizeOfPacket, PacketsAre
    <3>3. \E b : d[n] = Byte(b)
      <4>1. d[n] = m[5 + KeyBytes] /\ KeyBytes \in 1 .. KeyBytes
        BY <1>1, <1>2, <1>5, <3>2
      <4>2. m[5 + KeyBytes] = p.data[KeyBytes]
        BY <1>2, <1>5, <4>1 DEF FieldsIn
      <4>3. p.data[KeyBytes] \in ByteCells
        BY <3>2
      <4>. QED
        BY <4>1, <4>2, <4>3 DEF ByteCells
    <3>4. HmacBytes \in 1 .. HmacBytes /\ n - HmacBytes + HmacBytes = n
      BY <1>2
    <3>5. c[HmacBytes] = d[n]
      BY <3>1, <3>4
    <3>6. Hmac(key, w)[HmacBytes] = <<"hmac", key, w, HmacBytes>>
      BY <3>4 DEF Hmac
    <3>7. c # Hmac(key, w)
      <4>. HIDE DEF Hmac
      <4>. QED
        BY <3>3, <3>5, <3>6 DEF Byte
    <3>. HIDE DEF v
    <3>. QED
      BY <3>1, <3>7, InvalidFindsNothing
  <2>. QED
    BY <1>2, <2>1, <2>2
<1>. HIDE DEF v
<1>6. IF p.type \notin CrcTypes /\ p.key = key THEN Finds(v, key, p) ELSE FindsNothing(v)
  BY <1>4, <1>5
<1>. QED
  BY <1>6 DEF v

\* A CRC is found right, once the protocol id is back in its place, and the packet whole;
\* where there is none, nothing is, and nothing throws.
LEMMA CrcOfPacket ==
    ASSUME NEW p \in Packets, NEW d, NEW n, IsDatagram(d, n, p), NEW key
    PROVE  LET v == VerifyPacketCRC(Buf(d, n, 0))
           IN  IF p.type \in CrcTypes THEN Finds(v, key, p) ELSE FindsNothing(v)
<1>. DEFINE v == VerifyPacketCRC(Buf(d, n, 0))
<1>1. PICK m : /\ IsMessage(m, p) /\ Cells(d, n)
               /\ p.type \in CrcTypes =>
                     /\ n = PacketSize(p)
                     /\ \A j \in 1 .. 4 : d[j] = Crc(m)[j]
                     /\ \A j \in 1 .. n : j > 4 => d[j] = m[j]
               /\ p.type \notin CrcTypes =>
                     /\ n = PacketSize(p) + HmacBytes
                     /\ \A j \in 1 .. PacketSize(p) : d[j] = m[j]
                     /\ \A j \in 1 .. HmacBytes : d[PacketSize(p) + j] = Hmac(p.key, m)[j]
  BY DEF IsDatagram
<1>2. /\ PacketSize(p) \in Nat /\ PacketSize(p) >= 5 /\ HmacBytes \in Nat \ {0}
      /\ Cells(m, PacketSize(p)) /\ HeaderIn(m, p) /\ FieldsIn(m, p)
  BY <1>1, SizeOfPacket, PacketsAre DEF IsMessage
<1>3. n \in Nat /\ n >= 5
  BY <1>1, <1>2, CellsAreSequence
<1>4. n > 0 /\ n >= 4 /\ 5 <= n
  BY <1>3
<1>5. PICK e, c : /\ Cells(e, n) /\ Cells(c, 4) /\ \A x \in 1 .. 4 : c[x] = d[x]
                  /\ \A x \in 1 .. 4 : e[x] = htonl(ProtocolId)[x]
                  /\ \A x \in 1 .. n : x > 4 => e[x] = d[x]
                  /\ v = IF c # Crc(e) THEN Invalid(Buf(e, n, 4)) ELSE TypeRead(Buf(e, n, 4))
  BY <1>1, <1>4, VerifyCRCIs
<1>. HIDE DEF v
<1>6. ASSUME p.type \in CrcTypes
      PROVE  Finds(v, key, p)
  <2>1. e = m
    <3>1. ASSUME NEW x \in 1 .. n
          PROVE  e[x] = m[x]
      <4>1. CASE x \in 1 .. 4
        BY <1>2, <1>5, <4>1 DEF HeaderIn
      <4>2. CASE x > 4
        BY <1>1, <1>5, <1>6, <4>2
      <4>. QED
        BY <4>1, <4>2
    <3>2. n = PacketSize(p)
      BY <1>1, <1>6
    <3>. QED
      BY <1>2, <1>5, <3>1, <3>2, CellsEqual
  <2>2. c = Crc(e)
    <3>1. \A x \in 1 .. 4 : c[x] = Crc(m)[x]
      BY <1>1, <1>5, <1>6
    <3>. QED
      BY <1>5, <2>1, <3>1, SealCells, CellsEqual
  <2>3. v = TypeRead(Buf(m, n, 4)) /\ n = PacketSize(p)
    BY <1>1, <1>5, <1>6, <2>1, <2>2
  <2>4. TypeRead(Buf(m, n, 4)) = Verified(p.type, Buf(m, n, 5))
    BY <1>2, <1>4, <2>3, HeaderReads
  <2>5. Finds(Verified(p.type, Buf(m, n, 5)), key, p)
    BY <1>2, <1>6, <2>3, VerifiedIsFound
  <2>. QED
    BY <2>3, <2>4, <2>5
<1>7. ASSUME p.type \notin CrcTypes
      PROVE  FindsNothing(v)
  <2>1. c[1] = htonl(ProtocolId)[1]
    <3>1. 1 \in 1 .. 4 /\ 1 \in 1 .. PacketSize(p)
      BY <1>2
    <3>. QED
      BY <1>1, <1>2, <1>5, <1>7, <3>1 DEF HeaderIn
  <2>2. c # Crc(e)
    <3>1. Crc(e)[1] = <<"crc", e, 1>>
      BY DEF Crc
    <3>2. \E b : htonl(ProtocolId)[1] = Byte(b)
      BY DEF htonl
    <3>. HIDE DEF Crc
    <3>. QED
      BY <2>1, <3>1, <3>2 DEF Byte
  <2>. QED
    BY <1>5, <2>2, InvalidFindsNothing
<1>8. IF p.type \in CrcTypes THEN Finds(v, key, p) ELSE FindsNothing(v)
  BY <1>6, <1>7
<1>. QED
  BY <1>8 DEF v

\* In zeros that no packet was written to, nothing is found: fewer than four of them make
\* VerifyPacketCRC throw, and only it.
LEMMA NothingInZeros ==
    ASSUME NEW n \in Nat \ {0}, NEW key
    PROVE  LET b == Buf([x \in 1 .. n |-> Byte(0)], n, 0)
           IN  /\ FindsNothing(VerifyPacketHMAC(key, b))
               /\ VerifyPacketCRC(b).type = "INVALID_PACKET"
               /\ VerifyPacketCRC(b).buffer.thrown => n < 4
<1>. DEFINE d == [x \in 1 .. n |-> Byte(0)]
            b == Buf(d, n, 0)
            v == VerifyPacketHMAC(key, b)
            w == VerifyPacketCRC(b)
<1>1. Cells(d, n) /\ \A x \in 1 .. n : d[x] = Byte(0)
  BY DEF Cells
<1>2. HmacBytes \in Nat \ {0} /\ n > 0
  BY WireAssumption
<1>. HIDE DEF d
<1>3. FindsNothing(v)
  <2>1. CASE n <= HmacBytes
    <3>1. b.size = n
      BY DEF Buf
    <3>2. v = Invalid(b)
      <4>. HIDE DEF b
      <4>. QED
        BY <2>1, <3>1 DEF VerifyPacketHMAC
    <3>. HIDE DEF v
    <3>. QED
      BY <3>2, InvalidFindsNothing
  <2>2. CASE n > HmacBytes
    <3>1. PICK m, c : /\ Cells(c, HmacBytes)
                      /\ \A x \in 1 .. HmacBytes : c[x] = d[n - HmacBytes + x]
                      /\ v = IF c # Hmac(key, m) \/ ReadInteger(b) # ProtocolId
                             THEN Invalid(b) ELSE TypeRead(AfterRead(b, 4))
      BY <1>1, <2>2, VerifyHMACIs
    <3>2. HmacBytes \in 1 .. HmacBytes /\ n - HmacBytes + HmacBytes = n /\ n \in 1 .. n
      BY <1>2
    <3>3. c[HmacBytes] = Byte(0)
      BY <1>1, <3>1, <3>2
    <3>4. Hmac(key, m)[HmacBytes] = <<"hmac", key, m, HmacBytes>>
      BY <3>2 DEF Hmac
    <3>5. c # Hmac(key, m)
      <4>. HIDE DEF Hmac
      <4>. QED
        BY <3>3, <3>4 DEF Byte
    <3>. HIDE DEF v
    <3>. QED
      BY <3>1, <3>5, InvalidFindsNothing
  <2>. QED
    BY <1>2, <2>1, <2>2
<1>4. CASE n < 4
  <2>1. w = Invalid(Throw(b))
    BY <1>1, <1>2, <1>4, VerifyCRCIs
  <2>2. w.type = "INVALID_PACKET"
    <3>. HIDE DEF w, b
    <3>. QED
      BY <2>1 DEF Invalid, Verified
  <2>. HIDE DEF v, w, b
  <2>3. FindsNothing(v) /\ w.type = "INVALID_PACKET" /\ (w.buffer.thrown => n < 4)
    BY <1>3, <1>4, <2>2
  <2>. QED
    BY <2>3 DEF v, w, b, d
<1>5. CASE n >= 4
  <2>1. PICK e, c : /\ Cells(c, 4) /\ \A x \in 1 .. 4 : c[x] = d[x]
                    /\ w = IF c # Crc(e) THEN Invalid(Buf(e, n, 4)) ELSE TypeRead(Buf(e, n, 4))
    BY <1>1, <1>2, <1>5, VerifyCRCIs
  <2>2. 1 \in 1 .. 4 /\ 1 \in 1 .. n
    BY <1>5
  <2>3. c[1] = Byte(0)
    BY <1>1, <2>1, <2>2
  <2>4. Crc(e)[1] = <<"crc", e, 1>>
    BY DEF Crc
  <2>5. c # Crc(e)
    <3>. HIDE DEF Crc
    <3>. QED
      BY <2>3, <2>4 DEF Byte
  <2>. HIDE DEF v, w, b
  <2>6. FindsNothing(w)
    BY <2>1, <2>5, InvalidFindsNothing
  <2>7. FindsNothing(v) /\ w.type = "INVALID_PACKET" /\ (w.buffer.thrown => n < 4)
    BY <1>3, <2>6 DEF FindsNothing
  <2>. QED
    BY <2>7 DEF v, w, b, d
<1>. QED
  BY <1>4, <1>5

\* Nor is anything in the buffer when nothing was received.
LEMMA NothingInNothing ==
    ASSUME NEW key
    PROVE  /\ FindsNothing(VerifyPacketHMAC(key, ReceivedBuffer(<<>>, -1)))
           /\ FindsNothing(VerifyPacketCRC(ReceivedBuffer(<<>>, -1)))
<1>. DEFINE b == ReceivedBuffer(<<>>, -1)
<1>1. b.size = -1 /\ b.thrown = FALSE
  BY DEF ReceivedBuffer
<1>2. HmacBytes \in Nat
  BY WireAssumption
<1>. HIDE DEF b
<1>3. VerifyPacketHMAC(key, b) = Invalid(b)
  <2>1. -1 <= HmacBytes
    BY <1>2
  <2>. QED
    BY <1>1, <2>1 DEF VerifyPacketHMAC
<1>4. VerifyPacketCRC(b) = Invalid(b)
  <2>1. -1 <= 0
    OBVIOUS
  <2>. QED
    BY <1>1, <2>1 DEF VerifyPacketCRC
<1>5. FindsNothing(Invalid(b))
  BY <1>1 DEF FindsNothing, Invalid, Verified
<1>. QED
  BY <1>3, <1>4, <1>5 DEF b

------------------------------------------------------------------------------
(* The two ends *)

\* Nothing is in flight, a packet as Write made it, or a stray datagram.
IsWritten(to, p) == inFlight = [to |-> to, cells |-> Write(p).data, packet |-> p]
IsStray(to, n) ==
    inFlight = [to |-> to, cells |-> [x \in 1 .. n |-> Byte(0)], packet |-> NoPacket]

InFlightOK ==
    \/ inFlight = NoDatagram
    \/ \E to \in {"client", "server"}, p \in Packets : IsWritten(to, p)
    \/ \E to \in {"client", "server"}, n \in Nat \ {0} : IsStray(to, n)

\* What stands for no packet cannot be written.
LEMMA NoPacketIsNone == NoPacket \notin Packets /\ NoPacket.type = "INVALID_PACKET"
<1>1. NoPacket.type = "INVALID_PACKET"
  BY DEF NoPacket, Packet
<1>. HIDE DEF NoPacket
<1>2. ASSUME NoPacket \in Packets
      PROVE  FALSE
  <2>1. IsPacket(NoPacket)
    BY <1>2, WireAssumption
  <2>. QED
    BY <1>1, <2>1 DEF IsPacket, CrcTypes
<1>. QED
  BY <1>1, <1>2

\* The types that a Verify function may have found in what is in flight.
FoundIn(v, q) ==
    v.type # "INVALID_PACKET" =>
        /\ q \in Packets /\ Finds(v, SessionKey, q)
        /\ Received.size \in Nat /\ Received.size >= Len(q.data)

FitsReceiver(p) ==
    PacketSize(p) + (IF p.type \in CrcTypes THEN 0 ELSE HmacBytes) <= ReceiveBytes

\* What is in flight is found by the Verify function of its kind, if it fits the receiver's
\* buffer and has the session's key, and by no other; stray datagrams are not found.
LEMMA WhatArrives ==
    ASSUME InFlightOK, inFlight # NoDatagram
    PROVE  LET q == inFlight.packet
               h == VerifyPacketHMAC(SessionKey, Received)
               c == VerifyPacketCRC(Received)
           IN  /\ FoundIn(h, q) /\ FoundIn(c, q)
               /\ ~h.buffer.thrown
               /\ c.buffer.thrown => q = NoPacket /\ Len(inFlight.cells) < 4
               /\ c.buffer.thrown => c.type = "INVALID_PACKET"
               /\ q \in Packets \/ q = NoPacket
               /\ q \in Packets /\ FitsReceiver(q) /\ q.type \in CrcTypes
                      => Finds(c, SessionKey, q)
               /\ q \in Packets /\ FitsReceiver(q) /\ q.type \notin CrcTypes /\ q.key = SessionKey
                      => Finds(h, SessionKey, q)
<1>. DEFINE q == inFlight.packet
            h == VerifyPacketHMAC(SessionKey, Received)
            c == VerifyPacketCRC(Received)
            Goal == /\ FoundIn(h, q) /\ FoundIn(c, q)
                    /\ ~h.buffer.thrown
                    /\ c.buffer.thrown => q = NoPacket /\ Len(inFlight.cells) < 4
                    /\ c.buffer.thrown => c.type = "INVALID_PACKET"
                    /\ q \in Packets \/ q = NoPacket
                    /\ q \in Packets /\ FitsReceiver(q) /\ q.type \in CrcTypes
                           => Finds(c, SessionKey, q)
                    /\ q \in Packets /\ FitsReceiver(q) /\ q.type \notin CrcTypes
                       /\ q.key = SessionKey => Finds(h, SessionKey, q)
<1>1. ASSUME Len(inFlight.cells) > ReceiveBytes
      PROVE  FindsNothing(h) /\ FindsNothing(c)
  <2>1. Received = ReceivedBuffer(<<>>, -1)
    BY <1>1 DEF Received
  <2>. QED
    BY <2>1, NothingInNothing
<1>2. ASSUME NEW d, NEW n, Cells(d, n), inFlight.cells = d, ~(n > ReceiveBytes)
      PROVE  Received = Buf(d, n, 0) /\ Received.size = n
  <2>1. Len(d) = n
    BY <1>2, CellsAreSequence
  <2>2. Received = ReceivedBuffer(d, n)
    BY <1>2, <2>1 DEF Received
  <2>. QED
    BY <2>2 DEF ReceivedBuffer, Buf
<1>3. ASSUME NEW to, NEW p \in Packets, IsWritten(to, p)
      PROVE  Goal
  <2>. DEFINE d == Write(p).data
  <2>1. q = p /\ inFlight.cells = d
    BY <1>3 DEF IsWritten
  <2>2. PICK n \in Nat : IsDatagram(d, n, p)
    BY WriteIs
  <2>3. /\ Cells(d, n) /\ Len(d) = n
        /\ n = PacketSize(p) + (IF p.type \in CrcTypes THEN 0 ELSE HmacBytes)
    <3>1. PacketSize(p) \in Nat
      BY SizeOfPacket
    <3>2. Cells(d, n) /\ n = PacketSize(p) + (IF p.type \in CrcTypes THEN 0 ELSE HmacBytes)
      <4>. HIDE DEF d
      <4>. QED
        BY <2>2, <3>1 DEF IsDatagram
    <3>3. Len(d) = n
      <4>1. Cells(d, n)
        BY <3>2
      <4>. HIDE DEF d
      <4>. QED
        BY <4>1, CellsAreSequence
    <3>. QED
      BY <3>2, <3>3
  <2>4. p # NoPacket /\ p.type # "INVALID_PACKET"
    BY NoPacketIsNone, PacketsAre, WireAssumption DEF IsPacket, CrcTypes
  <2>5. CASE n > ReceiveBytes
    <3>1. FindsNothing(h) /\ FindsNothing(c)
      BY <1>1, <2>1, <2>3, <2>5
    <3>2. ~FitsReceiver(p)
      <4>1. n \in Nat /\ ReceiveBytes \in Nat
        BY WireAssumption
      <4>. QED
        BY <2>3, <2>5, <4>1 DEF FitsReceiver
    <3>. HIDE DEF q, h, c, d
    <3>. QED
      BY <2>1, <3>1, <3>2 DEF FindsNothing, FoundIn
  <2>6. CASE ~(n > ReceiveBytes)
    <3>1. Received = Buf(d, n, 0) /\ Received.size = n
      <4>. HIDE DEF d
      <4>. QED
        BY <1>2, <2>1, <2>3, <2>6
    <3>2. IF p.type \notin CrcTypes /\ p.key = SessionKey THEN Finds(h, SessionKey, p)
          ELSE FindsNothing(h)
      BY <2>2, <3>1, HmacOfPacket
    <3>3. IF p.type \in CrcTypes THEN Finds(c, SessionKey, p) ELSE FindsNothing(c)
      BY <2>2, <3>1, CrcOfPacket
    <3>4. n >= Len(p.data)
      <4>1. Len(p.data) \in Nat /\ HmacBytes \in Nat
        <5>1. p.data \in Seq(ByteCells)
          BY PacketsAre
        <5>. QED
          BY <5>1, PacketsAre
      <4>2. PacketSize(p) >= Len(p.data)
        <5>1. p.type \in {"CHALLENGE_RESPONSE", "DISCONNECT", "CONNECTION_ACCEPTED"}
                  => p.data = <<>>
          BY WireAssumption DEF IsPacket, CrcTypes, Packet
        <5>2. p.type \in CrcTypes \cup {"CONNECTION_ACCEPTED", "CONNECTION_DATA",
                                        "CHALLENGE_RESPONSE", "DISCONNECT"}
          BY WireAssumption DEF IsPacket
        <5>. QED
          BY <4>1, <5>1, <5>2, SizeOfPacket, PacketsAre
      <4>. QED
        BY <2>3, <4>1, <4>2, SizeOfPacket
    <3>5. FoundIn(h, p) /\ FoundIn(c, p)
      <4>. HIDE DEF h, c
      <4>. QED
        BY <3>1, <3>2, <3>3, <3>4 DEF FoundIn, FindsNothing
    <3>. HIDE DEF q, h, c, d
    <3>. QED
      BY <2>1, <3>2, <3>3, <3>5 DEF FindsNothing, Finds
  <2>. QED
    BY <2>5, <2>6
<1>4. ASSUME NEW to, NEW n \in Nat \ {0}, IsStray(to, n)
      PROVE  Goal
  <2>. DEFINE d == [x \in 1 .. n |-> Byte(0)]
  <2>1. q = NoPacket /\ inFlight.cells = d /\ Cells(d, n)
    BY <1>4 DEF IsStray, Cells
  <2>2. Len(d) = n
    <3>. HIDE DEF d
    <3>. QED
      BY <2>1, CellsAreSequence
  <2>3. CASE n > ReceiveBytes
    <3>1. FindsNothing(h) /\ FindsNothing(c)
      <4>. HIDE DEF d, h, c
      <4>. QED
        BY <1>1, <2>1, <2>2, <2>3
    <3>. HIDE DEF q, h, c, d
    <3>. QED
      BY <2>1, <3>1, NoPacketIsNone DEF FindsNothing, FoundIn
  <2>4. CASE ~(n > ReceiveBytes)
    <3>1. Received = Buf(d, n, 0)
      <4>. HIDE DEF d
      <4>. QED
        BY <1>2, <2>1, <2>4
    <3>2. FindsNothing(h) /\ c.type = "INVALID_PACKET" /\ (c.buffer.thrown => n < 4)
      BY <3>1, NothingInZeros
    <3>. HIDE DEF q, h, c, d
    <3>. QED
      BY <2>1, <2>2, <3>2, NoPacketIsNone DEF FindsNothing, FoundIn
  <2>. QED
    BY <2>3, <2>4
<1>. HIDE DEF Goal
<1>5. Goal
  BY <1>3, <1>4 DEF InFlightOK
<1>. QED
  BY <1>5 DEF Goal

\* The inductive invariant: what Listen made of a datagram is right, whichever it was.
WireInv ==
    /\ InFlightOK
    /\ ReadsWhatWasWritten /\ ValidPacketsArrive /\ GivesTheWholeMessage

\* An outcome of Listen that agrees with the packet q it was sent: what a handler or the
\* application gets is q, and there is room for it.
Agrees(o, q, room) ==
    /\ o.sent = q
    /\ o.result \in {"handler", "data", "too small"} => o.packet = q
    /\ o.result = "data" =>
           o.given = q.data /\ o.returned = Len(q.data) /\ Len(q.data) + room <= o.size

\* What that says of the properties.
LEMMA AgreeingIsRight ==
    ASSUME NEW q, NEW room, Agrees(heard', q, room),
           room = IF (heard').end = "server" THEN 4 ELSE 0
    PROVE  ReadsWhatWasWritten' /\ GivesTheWholeMessage'
BY DEF Agrees, ReadsWhatWasWritten, GivesTheWholeMessage

\* What the server makes of what arrives.
LEMMA ServerHears ==
    ASSUME InFlightOK, NEW size \in BufferSizes, ServerReceives(size)
    PROVE  WireInv'
<1>. DEFINE q == inFlight.packet
            h == VerifyPacketHMAC(SessionKey, Received)
            c == VerifyPacketCRC(Received)
            v == IF phase.seated THEN h ELSE c
            p == Read(v, SessionKey)
            handles == \/ v.type = "CONNECTION_REQUEST" /\ phase.server = "LOBBY"
                       \/ phase.seated /\ v.type = "CHALLENGE_RESPONSE"
                          /\ phase.server = "LOBBY"
                       \/ phase.seated /\ v.type = "DISCONNECT"
            hasData == phase.seated /\ v.type = "CONNECTION_DATA" /\ phase.server = "GAME"
<1>1. inFlight # NoDatagram /\ inFlight' = NoDatagram /\ phase' = phase
  <2>1. NoDatagram.to = "nobody"
    BY DEF NoDatagram
  <2>2. inFlight.to = "server" /\ inFlight' = NoDatagram /\ phase' = phase
    BY DEF ServerReceives
  <2>. HIDE DEF NoDatagram
  <2>. QED
    BY <2>1, <2>2
<1>2. InFlightOK'
  BY <1>1 DEF InFlightOK
<1>3. /\ FoundIn(h, q) /\ FoundIn(c, q)
      /\ q \in Packets \/ q = NoPacket
      /\ q \in Packets /\ FitsReceiver(q) /\ q.type \in CrcTypes => Finds(c, SessionKey, q)
      /\ q \in Packets /\ FitsReceiver(q) /\ q.type \notin CrcTypes /\ q.key = SessionKey
             => Finds(h, SessionKey, q)
  BY <1>1, WhatArrives
<1>4. v.type # "INVALID_PACKET" =>
          /\ q \in Packets /\ v.type = q.type /\ p = q
          /\ Received.size \in Nat /\ Received.size >= Len(q.data)
  <2>. HIDE DEF q, h, c
  <2>. QED
    BY <1>3 DEF FoundIn, Finds
<1>5. \/ handles /\ heard' = Outcome("server", size, "handler", p, <<>>, 0)
      \/ /\ hasData /\ size >= Received.size + 4
         /\ heard' = Outcome("server", size, "data", p, p.data, Len(p.data))
      \/ hasData /\ heard' = Outcome("server", size, "too small", p, <<>>, -1)
      \/ ~handles /\ ~hasData /\ heard' = Outcome("server", size, "nothing", NoPacket, <<>>, 0)
  BY DEF ServerReceives
<1>6. size \in Nat /\ (q \in Packets => Len(q.data) \in Nat)
  BY WireAssumption, PacketsAre
<1>. HIDE DEF q, h, c, p
<1>7. Agrees(heard', q, 4) /\ (heard').end = "server"
  <2>1. ASSUME handles, heard' = Outcome("server", size, "handler", p, <<>>, 0)
        PROVE  Agrees(heard', q, 4) /\ (heard').end = "server"
    <3>1. p = q
      BY <1>4, <2>1
    <3>. HIDE DEF v
    <3>. QED
      BY <2>1, <3>1 DEF Agrees, Outcome, q
  <2>2. ASSUME hasData, size >= Received.size + 4,
               heard' = Outcome("server", size, "data", p, p.data, Len(p.data))
        PROVE  Agrees(heard', q, 4) /\ (heard').end = "server"
    <3>1. p = q /\ Len(q.data) + 4 <= size
      BY <1>4, <1>6, <2>2
    <3>. HIDE DEF v
    <3>. QED
      BY <2>2, <3>1 DEF Agrees, Outcome, q
  <2>3. ASSUME hasData, heard' = Outcome("server", size, "too small", p, <<>>, -1)
        PROVE  Agrees(heard', q, 4) /\ (heard').end = "server"
    <3>1. p = q
      BY <1>4, <2>3
    <3>. HIDE DEF v
    <3>. QED
      BY <2>3, <3>1 DEF Agrees, Outcome, q
  <2>4. ASSUME heard' = Outcome("server", size, "nothing", NoPacket, <<>>, 0)
        PROVE  Agrees(heard', q, 4) /\ (heard').end = "server"
    BY <2>4 DEF Agrees, Outcome, q
  <2>. HIDE DEF handles, hasData
  <2>. QED
    BY <1>5, <2>1, <2>2, <2>3, <2>4
<1>8. ReadsWhatWasWritten' /\ GivesTheWholeMessage'
  BY <1>7, AgreeingIsRight
<1>9. ValidPacketsArrive'
  <2>1. ASSUME ~handles, ~hasData, FitsReceiver(q), q.type \in CrcTypes \/ q.key = SessionKey,
               \/ ~phase.seated /\ phase.server = "LOBBY" /\ q.type = "CONNECTION_REQUEST"
               \/ /\ phase.seated /\ phase.server = "LOBBY"
                  /\ q.type \in {"CHALLENGE_RESPONSE", "DISCONNECT"}
               \/ /\ phase.seated /\ phase.server = "GAME"
                  /\ q.type \in {"CONNECTION_DATA", "DISCONNECT"}
        PROVE  FALSE
    <3>1. q \in Packets
      BY <1>3, <2>1, NoPacketIsNone
    <3>2. CASE phase.seated
      <4>1. q.type \notin CrcTypes
        BY <2>1, <3>2 DEF CrcTypes
      <4>2. v.type = q.type
        BY <1>3, <2>1, <3>1, <3>2, <4>1 DEF Finds
      <4>. QED
        BY <2>1, <3>2, <4>2
    <3>3. CASE ~phase.seated
      <4>1. q.type \in CrcTypes
        BY <2>1, <3>3 DEF CrcTypes
      <4>2. v.type = q.type
        BY <1>3, <2>1, <3>1, <3>3, <4>1 DEF Finds
      <4>. QED
        BY <2>1, <3>3, <4>2
    <3>. QED
      BY <3>2, <3>3
  <2>2. (heard').sent = q /\ (heard').end = "server"
    BY <1>7 DEF Agrees
  <2>3. (heard').result \in {"handler", "data", "too small"} \/ (~handles /\ ~hasData)
    <3>1. \A packet, given, returned :
              /\ Outcome("server", size, "handler", packet, given, returned).result = "handler"
              /\ Outcome("server", size, "data", packet, given, returned).result = "data"
              /\ Outcome("server", size, "too small", packet, given, returned).result
                     = "too small"
      BY DEF Outcome
    <3>. HIDE DEF handles, hasData
    <3>. QED
      BY <1>5, <3>1
  <2>. HIDE DEF handles, hasData
  <2>. QED
    BY <1>1, <2>1, <2>2, <2>3 DEF ValidPacketsArrive, FitsReceiver
<1>. QED
  BY <1>2, <1>8, <1>9 DEF WireInv

\* What m_ack passes over, and what leaves Listen as an exception, in a step.
SkippedIsTold ==
    ack' # ack => \/ (heard').given = inFlight.packet.data
                  \/ (heard').returned = -1 /\ (heard').size < Len(inFlight.packet.data)

ThrownAtStray ==
    (heard').result = "exception" =>
        /\ inFlight.packet = NoPacket /\ Len(inFlight.cells) < 4
        /\ phase.client \in {"DISCONNECTED", "SENDING_REQUEST"}
        /\ ack' = ack

\* What the client makes of what arrives.
LEMMA ClientHears ==
    ASSUME InFlightOK, NEW size \in BufferSizes, ClientReceives(size)
    PROVE  WireInv' /\ SkippedIsTold /\ ThrownAtStray
<1>. DEFINE q == inFlight.packet
            h == VerifyPacketHMAC(SessionKey, Received)
            c == VerifyPacketCRC(Received)
            early == phase.client \in {"DISCONNECTED", "SENDING_REQUEST"}
            v == IF early THEN c ELSE h
            p == Read(v, SessionKey)
            hasData == phase.client = "CONNECTED" /\ v.type = "CONNECTION_DATA"
            isNew   == hasData /\ SequenceGreaterThan(p.sequence, ack)
            handles == \/ v.type = "CHALLENGE" /\ phase.client = "SENDING_REQUEST"
                       \/ /\ v.type = "CONNECTION_ACCEPTED"
                          /\ phase.client = "SENDING_CHALLENGE_RESPONSE"
                       \/ v.type = "DISCONNECT" /\ phase.client # "DISCONNECTED"
            drops   == /\ v.type = "CONNECTION_DATA"
                       /\ phase.client \in {"SENDING_REQUEST", "SENDING_CHALLENGE_RESPONSE"}
            O(result, packet, given, returned) ==
                heard' = Outcome("client", size, result, packet, given, returned)
<1>1. inFlight # NoDatagram /\ inFlight' = NoDatagram /\ phase' = phase
  <2>1. NoDatagram.to = "nobody"
    BY DEF NoDatagram
  <2>2. inFlight.to = "client" /\ inFlight' = NoDatagram /\ phase' = phase
    BY DEF ClientReceives
  <2>. HIDE DEF NoDatagram
  <2>. QED
    BY <2>1, <2>2
<1>2. InFlightOK'
  BY <1>1 DEF InFlightOK
<1>3. /\ FoundIn(h, q) /\ FoundIn(c, q)
      /\ ~h.buffer.thrown
      /\ c.buffer.thrown => q = NoPacket /\ Len(inFlight.cells) < 4
      /\ c.buffer.thrown => c.type = "INVALID_PACKET"
      /\ q \in Packets \/ q = NoPacket
      /\ q \in Packets /\ FitsReceiver(q) /\ q.type \in CrcTypes => Finds(c, SessionKey, q)
      /\ q \in Packets /\ FitsReceiver(q) /\ q.type \notin CrcTypes /\ q.key = SessionKey
             => Finds(h, SessionKey, q)
  BY <1>1, WhatArrives
<1>4. /\ v.type # "INVALID_PACKET" => q \in Packets /\ v.type = q.type /\ p = q
      /\ v.buffer.thrown => /\ v.type = "INVALID_PACKET" /\ early
                            /\ q = NoPacket /\ Len(inFlight.cells) < 4
  <2>. HIDE DEF q, h, c
  <2>. QED
    BY <1>3 DEF FoundIn, Finds
<1>5. \/ handles /\ O("handler", p, <<>>, 0)
      \/ drops /\ O("disconnect", NoPacket, <<>>, 0)
      \/ isNew /\ Gives(size, p) /\ O("data", p, Copied(p), Len(p.data))
      \/ isNew /\ ~Gives(size, p) /\ O("too small", p, <<>>, -1)
      \/ v.buffer.thrown /\ O("exception", NoPacket, <<>>, 0)
      \/ /\ ~handles /\ ~drops /\ ~isNew /\ ~v.buffer.thrown
         /\ O("nothing", NoPacket, <<>>, 0)
  BY DEF ClientReceives
<1>6. ack' # ack => isNew
  BY DEF ClientReceives
<1>7. size \in Nat /\ (q \in Packets => Len(q.data) \in Nat)
  BY WireAssumption, PacketsAre
<1>8. /\ handles => v.type # "INVALID_PACKET" /\ ~isNew
      /\ drops => ~handles /\ ~isNew
      /\ isNew => v.type # "INVALID_PACKET" /\ ~handles
  <2>. HIDE DEF v, p
  <2>. QED
    OBVIOUS
<1>. HIDE DEF q, h, c, v, p, handles, drops, isNew, hasData, early
\* What the step does, and what then holds of the outcome.
<1>. DEFINE Right == /\ Agrees(heard', q, 0) /\ (heard').end = "client"
                     /\ (heard').result \in {"handler", "data", "too small"} \/ ~handles
                     /\ SkippedIsTold /\ ThrownAtStray
<1>9. Right
  <2>1. ASSUME NEW result, NEW packet, NEW given, NEW returned,
               O(result, packet, given, returned)
        PROVE  /\ (heard').end = "client" /\ (heard').size = size
               /\ (heard').result = result /\ (heard').packet = packet
               /\ (heard').given = given /\ (heard').returned = returned /\ (heard').sent = q
    BY <2>1 DEF Outcome, q
  <2>0. ASSUME O("too small", p, <<>>, -1)
        PROVE  /\ (heard').end = "client" /\ (heard').size = size
               /\ (heard').result = "too small" /\ (heard').packet = p
               /\ (heard').returned = -1 /\ (heard').sent = q
    BY <2>0 DEF Outcome, q
  <2>. HIDE DEF O
  <2>2. CASE handles /\ O("handler", p, <<>>, 0)
    <3>1. p = q /\ ack' = ack
      BY <1>4, <1>6, <1>8, <2>2
    <3>. QED
      BY <2>1, <2>2, <3>1 DEF Agrees, SkippedIsTold, ThrownAtStray
  <2>3. CASE drops /\ O("disconnect", NoPacket, <<>>, 0)
    <3>1. ack' = ack /\ ~handles
      BY <1>6, <1>8, <2>3
    <3>. QED
      BY <2>1, <2>3, <3>1 DEF Agrees, SkippedIsTold, ThrownAtStray
  <2>4. CASE isNew /\ Gives(size, p) /\ O("data", p, Copied(p), Len(p.data))
    <3>1. p = q /\ q \in Packets
      BY <1>4, <1>8, <2>4
    <3>2. Copied(p) = q.data /\ Len(q.data) + 0 <= size
      BY <1>7, <2>4, <3>1 DEF Copied, Gives
    <3>3. q.data = inFlight.packet.data
      BY DEF q
    <3>. QED
      BY <2>1, <2>4, <3>1, <3>2, <3>3 DEF Agrees, SkippedIsTold, ThrownAtStray
  <2>5. CASE isNew /\ ~Gives(size, p) /\ O("too small", p, <<>>, -1)
    <3>1. p = q /\ q \in Packets
      BY <1>4, <1>8, <2>5
    <3>2. size < Len(q.data)
      <4>1. ~Gives(size, q)
        BY <2>5, <3>1
      <4>. QED
        BY <1>7, <3>1, <4>1 DEF Gives
    <3>3. q.data = inFlight.packet.data
      BY DEF q
    <3>4. /\ (heard').end = "client" /\ (heard').size = size
          /\ (heard').result = "too small" /\ (heard').packet = p
          /\ (heard').returned = -1 /\ (heard').sent = q
      BY <2>5, <2>0
    <3>. QED
      BY <3>1, <3>2, <3>3, <3>4 DEF Agrees, SkippedIsTold, ThrownAtStray
  <2>6. CASE v.buffer.thrown /\ O("exception", NoPacket, <<>>, 0)
    <3>1. /\ ~handles /\ ack' = ack /\ early
          /\ q = NoPacket /\ Len(inFlight.cells) < 4
      BY <1>4, <1>6, <1>8, <2>6
    <3>. QED
      BY <2>1, <2>6, <3>1 DEF Agrees, SkippedIsTold, ThrownAtStray, early, q
  <2>7. CASE ~handles /\ ~isNew /\ O("nothing", NoPacket, <<>>, 0)
    <3>1. ack' = ack
      BY <1>6, <2>7
    <3>. QED
      BY <2>1, <2>7, <3>1 DEF Agrees, SkippedIsTold, ThrownAtStray
  <2>. HIDE DEF Right
  <2>. QED
    BY <1>5, <2>2, <2>3, <2>4, <2>5, <2>6, <2>7
<1>10. ReadsWhatWasWritten' /\ GivesTheWholeMessage'
  BY <1>9, AgreeingIsRight
<1>11. ValidPacketsArrive'
  <2>1. ASSUME ~handles, FitsReceiver(q), q.type \in CrcTypes \/ q.key = SessionKey,
               \/ phase.client = "SENDING_REQUEST" /\ q.type = "CHALLENGE"
               \/ /\ phase.client = "SENDING_CHALLENGE_RESPONSE"
                  /\ q.type \in {"CONNECTION_ACCEPTED", "DISCONNECT"}
               \/ phase.client = "CONNECTED" /\ q.type = "DISCONNECT"
        PROVE  FALSE
    <3>1. q \in Packets
      BY <1>3, <2>1, NoPacketIsNone
    <3>2. v.type = q.type
      BY <1>3, <2>1, <3>1 DEF Finds, CrcTypes, v, early
    <3>. QED
      BY <2>1, <3>2 DEF handles
  <2>2. /\ (heard').sent = q /\ (heard').end = "client"
        /\ (heard').result \in {"handler", "data", "too small"} \/ ~handles
    BY <1>9 DEF Agrees
  <2>. QED
    BY <1>1, <2>1, <2>2 DEF ValidPacketsArrive, FitsReceiver
<1>. QED
  BY <1>2, <1>9, <1>10, <1>11 DEF WireInv

\* Nothing is heard while something is sent.
LEMMA NothingIsRight ==
    /\ heard = NothingHeard => ReadsWhatWasWritten /\ ValidPacketsArrive /\ GivesTheWholeMessage
    /\ (heard' = NothingHeard) =>
           ReadsWhatWasWritten' /\ ValidPacketsArrive' /\ GivesTheWholeMessage'
<1>1. NothingHeard.end = "nobody" /\ NothingHeard.result = "nothing"
  BY DEF NothingHeard
<1>. HIDE DEF NothingHeard
<1>2. ASSUME heard = NothingHeard
      PROVE  ReadsWhatWasWritten /\ ValidPacketsArrive /\ GivesTheWholeMessage
  <2>1. ValidPacketsArrive
    BY <1>1, <1>2 DEF ValidPacketsArrive
  <2>. QED
    BY <1>1, <1>2, <2>1 DEF ReadsWhatWasWritten, GivesTheWholeMessage
<1>3. ASSUME heard' = NothingHeard
      PROVE  ReadsWhatWasWritten' /\ ValidPacketsArrive' /\ GivesTheWholeMessage'
  <2>1. ValidPacketsArrive'
    BY <1>1, <1>3 DEF ValidPacketsArrive
  <2>. QED
    BY <1>1, <1>3, <2>1 DEF ReadsWhatWasWritten, GivesTheWholeMessage
<1>. QED
  BY <1>2, <1>3

\* What is sent is what Write made, and nothing is heard of it yet.
LEMMA SendKeeps ==
    ASSUME NEW to \in {"client", "server"}, NEW p \in Packets, Send(to, p)
    PROVE  WireInv' /\ SkippedIsTold /\ ThrownAtStray
<1>1. inFlight' = [to |-> to, cells |-> Write(p).data, packet |-> p]
  <2>1. ~Write(p).thrown
    BY WriteIs
  <2>. QED
    BY <2>1 DEF Send
<1>2. InFlightOK'
  BY <1>1 DEF InFlightOK, IsWritten
<1>3. heard' = NothingHeard /\ ack' = ack
  BY DEF Send
<1>4. (heard').result = "nothing"
  BY <1>3 DEF NothingHeard
<1>. QED
  BY <1>2, <1>3, <1>4, NothingIsRight DEF WireInv, SkippedIsTold, ThrownAtStray

\* So is a stray datagram.
LEMMA StrayKeeps ==
    ASSUME NEW to \in {"client", "server"}, NEW n \in StraySizes, Stray(to, n)
    PROVE  WireInv' /\ SkippedIsTold /\ ThrownAtStray
<1>1. n \in Nat \ {0}
  BY WireAssumption
<1>2. InFlightOK'
  BY <1>1 DEF Stray, InFlightOK, IsStray
<1>3. heard' = NothingHeard /\ ack' = ack
  BY DEF Stray
<1>4. (heard').result = "nothing"
  BY <1>3 DEF NothingHeard
<1>. QED
  BY <1>2, <1>3, <1>4, NothingIsRight DEF WireInv, SkippedIsTold, ThrownAtStray

\* The server has no m_ack, and its Listen catches what is thrown.
LEMMA ServerTouchesNoAck ==
    ASSUME NEW size, ServerReceives(size)
    PROVE  SkippedIsTold /\ ThrownAtStray
<1>1. ack' = ack
  BY DEF ServerReceives
<1>2. (heard').result # "exception"
  <2>1. PICK result \in {"handler", "data", "too small", "nothing"} :
            \E packet, given, returned :
                heard' = Outcome("server", size, result, packet, given, returned)
    BY DEF ServerReceives
  <2>2. PICK packet, given, returned :
            heard' = Outcome("server", size, result, packet, given, returned)
    BY <2>1
  <2>3. (heard').result = result
    BY <2>2 DEF Outcome
  <2>. QED
    BY <2>3
<1>. QED
  BY <1>1, <1>2 DEF SkippedIsTold, ThrownAtStray

\* Every step of the two ends keeps the invariant and does what the two action properties say.
LEMMA WireStep ==
    ASSUME WireInv, WireNext
    PROVE  WireInv' /\ SkippedIsTold /\ ThrownAtStray
<1>1. ASSUME NEW p \in Packets, Send(IF p.type \in ServerTypes THEN "client" ELSE "server", p)
      PROVE  WireInv' /\ SkippedIsTold /\ ThrownAtStray
  <2>1. CASE p.type \in ServerTypes
    BY <1>1, <2>1, SendKeeps
  <2>2. CASE p.type \notin ServerTypes
    BY <1>1, <2>2, SendKeeps
  <2>. QED
    BY <2>1, <2>2
<1>2. ASSUME NEW p \in Packets, Send("server", p)
      PROVE  WireInv' /\ SkippedIsTold /\ ThrownAtStray
  BY <1>2, SendKeeps
<1>3. ASSUME NEW to \in {"client", "server"}, NEW n \in StraySizes, Stray(to, n)
      PROVE  WireInv' /\ SkippedIsTold /\ ThrownAtStray
  BY <1>3, StrayKeeps
<1>4. ASSUME NEW size \in BufferSizes, ServerReceives(size)
      PROVE  WireInv' /\ SkippedIsTold /\ ThrownAtStray
  BY <1>4, ServerHears, ServerTouchesNoAck DEF WireInv
<1>5. ASSUME NEW size \in BufferSizes, ClientReceives(size)
      PROVE  WireInv' /\ SkippedIsTold /\ ThrownAtStray
  BY <1>5, ClientHears DEF WireInv
<1>. QED
  BY <1>1, <1>2, <1>3, <1>4, <1>5 DEF WireNext

\* Every step of the specification keeps the invariant: the packets the two ends write, the
\* stray datagrams, and what the Listen functions of Client.cpp and Server.cpp hear of them.
THEOREM WireKeepsInvariant == WireSpec => []WireInv
<1>1. WireInit => WireInv
  BY NothingIsRight DEF WireInit, WireInv, InFlightOK
<1>2. WireInv /\ [WireNext]_wireVars => WireInv'
  <2>1. ASSUME WireInv, WireNext
        PROVE  WireInv'
    BY <2>1, WireStep
  <2>2. ASSUME WireInv, UNCHANGED wireVars
        PROVE  WireInv'
    <3>1. phase' = phase /\ inFlight' = inFlight /\ heard' = heard
      BY <2>2 DEF wireVars
    <3>2. InFlightOK'
      BY <2>2, <3>1 DEF WireInv, InFlightOK, IsWritten, IsStray
    <3>3. ReadsWhatWasWritten'
      BY <2>2, <3>1 DEF WireInv, ReadsWhatWasWritten
    <3>4. GivesTheWholeMessage'
      BY <2>2, <3>1 DEF WireInv, GivesTheWholeMessage
    <3>5. ValidPacketsArrive'
      BY <2>2, <3>1 DEF WireInv, ValidPacketsArrive
    <3>. QED
      BY <3>2, <3>3, <3>4, <3>5 DEF WireInv
  <2>. QED
    BY <2>1, <2>2
<1>. QED
  BY <1>1, <1>2, PTL DEF WireSpec

\* Every byte of a datagram has been written: what each Write of Packet.cpp allocates is the
\* size of what it then writes, whatever the sizes of keys, HMACs and game data.
THEOREM EveryCellIsWritten == WireSpec => []EveryByteWritten
<1>1. WireInv => EveryByteWritten
  <2>1. ASSUME NEW p \in Packets, NEW d, d = Write(p).data
        PROVE  d # <<>> /\ \A x \in DOMAIN d : d[x] # Junk
    <3>1. PICK n \in Nat : IsDatagram(d, n, p)
      BY <2>1, WriteIs
    <3>2. Cells(d, n) /\ n >= 5
      <4>1. HmacBytes \in Nat /\ PacketSize(p) \in Nat /\ PacketSize(p) >= 5
        BY SizeOfPacket, PacketsAre
      <4>. QED
        BY <3>1, <4>1 DEF IsDatagram
    <3>3. DOMAIN d = 1 .. n /\ d # <<>>
      <4>1. DOMAIN d = 1 .. n /\ Len(d) = n
        BY <3>2, CellsAreSequence
      <4>2. Len(<<>>) = 0
        OBVIOUS
      <4>. QED
        BY <3>2, <4>1, <4>2
    <3>. QED
      BY <3>1, <3>3, CellsWritten
  <2>2. ASSUME InFlightOK, inFlight.packet # NoPacket
        PROVE  \E p \in Packets : inFlight.cells = Write(p).data
    <3>1. inFlight # NoDatagram
      BY <2>2 DEF NoDatagram
    <3>2. \A to, n : ~IsStray(to, n)
      BY <2>2 DEF IsStray
    <3>3. \A to, p : IsWritten(to, p) => inFlight.cells = Write(p).data
      BY DEF IsWritten
    <3>. QED
      BY <2>2, <3>1, <3>2, <3>3 DEF InFlightOK
  <2>. QED
    BY <2>1, <2>2 DEF WireInv, EveryByteWritten
<1>. QED
  BY <1>1, WireKeepsInvariant, PTL

\* A handler, or the application, gets the packet that the other end wrote, field by field.
THEOREM ReadAsWritten == WireSpec => []ReadsWhatWasWritten
<1>1. WireInv => ReadsWhatWasWritten
  BY DEF WireInv
<1>. QED
  BY <1>1, WireKeepsInvariant, PTL

\* A packet written for the phase an end is in, with the session's key, that fits its buffer
\* is taken for what it is by the Verify function that Listen calls in that phase.
THEOREM AwaitedOnesArrive == WireSpec => []ValidPacketsArrive
<1>1. WireInv => ValidPacketsArrive
  BY DEF WireInv
<1>. QED
  BY <1>1, WireKeepsInvariant, PTL

\* The application's buffer holds what memcpy writes to it, and that is the whole message.
THEOREM WholeMessageGiven == WireSpec => []GivesTheWholeMessage
<1>1. WireInv => GivesTheWholeMessage
  BY DEF WireInv
<1>. QED
  BY <1>1, WireKeepsInvariant, PTL

\* m_ack passes over no message that the application neither got nor was told of.
THEOREM NoMessageSkippedSilently == WireSpec => SkippedOnlyIfTold
<1>1. WireInv /\ [WireNext]_wireVars =>
          [ack' # ack => \/ (heard').given = inFlight.packet.data
                         \/ (heard').returned = -1
                            /\ (heard').size < Len(inFlight.packet.data)]_wireVars
  BY WireStep DEF SkippedIsTold
<1>. QED
  BY <1>1, WireKeepsInvariant, PTL DEF WireSpec, SkippedOnlyIfTold

\* An exception leaves Listen only at a stray datagram shorter than a checksum.
THEOREM OnlyStraysThrow == WireSpec => ThrowsOnlyAtStrays
<1>1. WireInv /\ [WireNext]_wireVars =>
          [(heard').result = "exception" =>
              /\ inFlight.packet = NoPacket /\ Len(inFlight.cells) < 4
              /\ phase.client \in {"DISCONNECTED", "SENDING_REQUEST"}
              /\ ack' = ack]_wireVars
  BY WireStep DEF ThrownAtStray
<1>. QED
  BY <1>1, WireKeepsInvariant, PTL DEF WireSpec, ThrowsOnlyAtStrays

------------------------------------------------------------------------------
(* Sockets *)

SocketsTypeOK ==
    /\ handle \in [Sockets -> Handles \cup {NotConstructed, INVALID_SOCKET}]
    /\ opened \in [Sockets -> BOOLEAN]
    /\ os \in [Handles -> [port : {-1, NotBound} \cup Ports, blocking : BOOLEAN]]
    /\ sender \in [Sockets -> [address : Nat, port : Nat]]
    /\ DOMAIN cameFrom = Sockets

\* WSACleanup is never reached: nothing sets the flag.
NeverInitialized == isInitialized = FALSE

ReadyOnceOpened ==
    \A s \in Sockets : opened[s] =>
        IsOpen(s) /\ os[handle[s]].port \in Ports /\ os[handle[s]].blocking = FALSE

\* A datagram comes from this machine, and what Receive makes of that is an address that is
\* written like it.
HostOnWire(port) == [address |-> Parsed(Host), port |-> htons(port)]

FromHost == onWire # Nothing => \E port \in Ports : onWire.from = HostOnWire(port)

SendersWritten ==
    \A s \in Sockets : sender[s] # NoAddress =>
        sender[s].address = NumberOf(Host) /\ cameFrom[s] = Wire(sender[s])

SocketsInv ==
    /\ SocketsTypeOK
    /\ NeverInitialized
    /\ HandlesAreOwn
    /\ ReadyOnceOpened
    /\ FromHost
    /\ SentWhereAsked
    /\ SendersWritten

\* A handle in use is one of the system's, with a port and a mode.
LEMMA HandleFacts ==
    ASSUME SocketsTypeOK
    PROVE  \A s \in Sockets :
              /\ IsOpen(s) =>
                     os[handle[s]] \in [port : {-1, NotBound} \cup Ports, blocking : BOOLEAN]
              /\ handle[s] \in Handles => handle[s] \notin {NotConstructed, INVALID_SOCKET}
BY SocketsAssumption DEF SocketsTypeOK, IsOpen

\* Ports are numbers of two bytes and none of the marks.
LEMMA PortFacts ==
    \A port \in Ports : port \in 0 .. ByteBase * ByteBase - 1 /\ port # NotBound /\ port # -1
BY SocketsAssumption, ByteBases DEF NotBound

\* Steps that leave the handles, their sockets and the network alone.
LEMMA StartedNothing ==
    ASSUME NeverInitialized, NEW p \in Started(startups, isInitialized)
    PROVE  p[2] = FALSE
<1>1. PICK m \in Startups(startups) : p = <<m, FALSE>>
  BY DEF NeverInitialized, Started
<1>. QED
  BY <1>1

\* The constructor.
LEMMA CreateKeeps ==
    ASSUME SocketsInv, NEW s \in Sockets, Create(s)
    PROVE  SocketsInv'
<1>1. /\ handle[s] = NotConstructed
      /\ handle' = [handle EXCEPT ![s] = INVALID_SOCKET]
      /\ UNCHANGED <<opened, os, onWire, sender, cameFrom>>
  BY DEF Create, Constructed
<1>2. NeverInitialized'
  BY StartedNothing DEF Create, SocketsInv, NeverInitialized
<1>3. \A t \in Sockets : /\ t # s => handle'[t] = handle[t]
                         /\ ~IsOpen(s) /\ ~IsOpen(s)'
  BY <1>1, SocketsAssumption DEF SocketsInv, SocketsTypeOK, IsOpen
<1>4. SocketsTypeOK'
  BY <1>1 DEF SocketsInv, SocketsTypeOK
<1>5. HandlesAreOwn' /\ ReadyOnceOpened'
  BY <1>1, <1>3 DEF SocketsInv, HandlesAreOwn, ReadyOnceOpened, IsOpen
<1>6. FromHost' /\ SentWhereAsked' /\ SendersWritten'
  BY <1>1 DEF SocketsInv, FromHost, SentWhereAsked, SendersWritten
<1>. QED
  BY <1>2, <1>4, <1>5, <1>6 DEF SocketsInv

\* Open, whichever of its calls fails.
LEMMA OpenKeeps ==
    ASSUME SocketsInv, NEW s \in Sockets, NEW port \in Ports, Open(s, port)
    PROVE  SocketsInv'
<1>1. UNCHANGED <<onWire, sender, cameFrom>>
  BY DEF Open
<1>2. PICK p \in Started(startups, isInitialized), stage \in Stages :
         /\ isInitialized' = p[2]
         /\ opened' = [opened EXCEPT ![s] = Succeeds(stage)]
         /\ \/ /\ stage = "socket"
               /\ handle' = [handle EXCEPT ![s] = INVALID_SOCKET]
               /\ os' = os
            \/ \E h \in Handles \ OsOpen :
                  /\ handle' = [handle EXCEPT ![s] = h]
                  /\ os' = [os EXCEPT ![h] = Opened(stage, port)]
  BY DEF Open
<1>3. NeverInitialized'
  BY <1>2, StartedNothing DEF SocketsInv, NeverInitialized
<1>4. FromHost' /\ SentWhereAsked' /\ SendersWritten'
  BY <1>1 DEF SocketsInv, FromHost, SentWhereAsked, SendersWritten
<1>5. CASE stage = "socket" /\ handle' = [handle EXCEPT ![s] = INVALID_SOCKET] /\ os' = os
  <2>1. opened' = [opened EXCEPT ![s] = FALSE]
    BY <1>2, <1>5 DEF Succeeds
  <2>2. SocketsTypeOK'
    BY <1>1, <1>5, <2>1 DEF SocketsInv, SocketsTypeOK
  <2>3. ~IsOpen(s)' /\ ~opened'[s]
    BY <1>5, <2>1, SocketsAssumption DEF SocketsInv, SocketsTypeOK, IsOpen
  <2>4. \A t \in Sockets : t # s => handle'[t] = handle[t] /\ opened'[t] = opened[t]
    BY <1>5, <2>1 DEF SocketsInv, SocketsTypeOK
  <2>5. HandlesAreOwn' /\ ReadyOnceOpened'
    BY <1>5, <2>3, <2>4 DEF SocketsInv, HandlesAreOwn, ReadyOnceOpened, IsOpen
  <2>. QED
    BY <1>3, <1>4, <2>2, <2>5 DEF SocketsInv
<1>6. ASSUME NEW h \in Handles \ OsOpen, handle' = [handle EXCEPT ![s] = h],
             os' = [os EXCEPT ![h] = Opened(stage, port)]
      PROVE  SocketsInv'
  <2>1. /\ Opened(stage, port) \in [port : {-1, NotBound} \cup Ports, blocking : BOOLEAN]
        /\ Opened(stage, port).port # -1 /\ Opened(stage, port) # Closed
        /\ Succeeds(stage) => /\ Opened(stage, port).port \in Ports
                              /\ Opened(stage, port).blocking = FALSE
    <3>. DEFINE opening == Opened(stage, port)
    <3>1. /\ opening.port = IF stage \in {"ioctlsocket", "done"} THEN port ELSE NotBound
          /\ opening.blocking = (stage # "done")
          /\ opening = [port |-> opening.port, blocking |-> opening.blocking]
      BY DEF Opened
    <3>2. opening.port \in {NotBound} \cup Ports /\ opening.port # -1
      BY <3>1, PortFacts DEF NotBound
    <3>3. opening # Closed
      BY <3>2 DEF Closed
    <3>4. opening.blocking \in BOOLEAN
      BY <3>1
    <3>5. Succeeds(stage) => opening.port \in Ports /\ opening.blocking = FALSE
      BY <3>1 DEF Succeeds
    <3>. HIDE DEF opening
    <3>6. opening \in [port : {-1, NotBound} \cup Ports, blocking : BOOLEAN]
      BY <3>1, <3>2, <3>4
    <3>. QED
      BY <3>2, <3>3, <3>5, <3>6 DEF opening
  <2>2. SocketsTypeOK'
    BY <1>1, <1>2, <1>6, <2>1 DEF SocketsInv, SocketsTypeOK, Succeeds
  <2>3. /\ handle'[s] = h /\ os'[h] = Opened(stage, port) /\ opened'[s] = Succeeds(stage)
        /\ \A t \in Sockets : t # s => handle'[t] = handle[t] /\ opened'[t] = opened[t]
        /\ \A g \in Handles : g # h => os'[g] = os[g]
    BY <1>2, <1>6 DEF SocketsInv, SocketsTypeOK
  <2>4. \A t \in Sockets : handle[t] # h
    BY <1>6 DEF SocketsInv, HandlesAreOwn, IsOpen, OsOpen
  <2>5. HandlesAreOwn'
    BY <2>1, <2>3, <2>4 DEF SocketsInv, HandlesAreOwn, IsOpen
  <2>6. ReadyOnceOpened'
    BY <2>1, <2>3, <2>4 DEF SocketsInv, ReadyOnceOpened, IsOpen
  <2>. QED
    BY <1>3, <1>4, <2>2, <2>5, <2>6 DEF SocketsInv
<1>. QED
  BY <1>2, <1>5, <1>6

\* What Close and the destructor have in common.
LEMMA EndKeeps ==
    ASSUME SocketsInv, NEW s \in Sockets, NEW end, NEW open, NEW closed \in BOOLEAN,
           handle' = [handle EXCEPT ![s] = end],
           opened' = [opened EXCEPT ![s] = open],
           os' = (IF IsOpen(s) THEN CloseOs(handle[s], closed) ELSE os),
           \/ end \in {NotConstructed, INVALID_SOCKET} /\ open = FALSE
           \/ end = handle[s] /\ open = opened[s] /\ ~(IsOpen(s) /\ closed)
    PROVE  /\ HandlesAreOwn' /\ ReadyOnceOpened'
           /\ handle' \in [Sockets -> Handles \cup {NotConstructed, INVALID_SOCKET}]
           /\ opened' \in [Sockets -> BOOLEAN]
           /\ os' \in [Handles -> [port : {-1, NotBound} \cup Ports, blocking : BOOLEAN]]
<1>1. /\ handle \in [Sockets -> Handles \cup {NotConstructed, INVALID_SOCKET}]
      /\ opened \in [Sockets -> BOOLEAN]
      /\ os \in [Handles -> [port : {-1, NotBound} \cup Ports, blocking : BOOLEAN]]
      /\ HandlesAreOwn /\ ReadyOnceOpened
  BY DEF SocketsInv, SocketsTypeOK
<1>2. /\ handle' \in [Sockets -> Handles \cup {NotConstructed, INVALID_SOCKET}]
      /\ opened' \in [Sockets -> BOOLEAN]
  BY <1>1
<1>3. os' \in [Handles -> [port : {-1, NotBound} \cup Ports, blocking : BOOLEAN]]
  <2>1. Closed \in [port : {-1, NotBound} \cup Ports, blocking : BOOLEAN]
    BY DEF Closed
  <2>. QED
    BY <1>1, <2>1 DEF CloseOs
<1>4. /\ handle'[s] = end /\ opened'[s] = open
      /\ \A t \in Sockets : t # s => handle'[t] = handle[t] /\ opened'[t] = opened[t]
      /\ \A g \in Handles : g # handle[s] => os'[g] = os[g]
      /\ ~(IsOpen(s) /\ closed) => os' = os
      /\ ~IsOpen(s) => os' = os
  BY <1>1 DEF CloseOs
<1>5. CASE end \in {NotConstructed, INVALID_SOCKET} /\ open = FALSE
  <2>1. ~IsOpen(s)'
    BY <1>4, <1>5, SocketsAssumption DEF IsOpen
  <2>2. \A t \in Sockets : t # s /\ IsOpen(t) => handle[t] # handle[s] \/ os' = os
    BY <1>1, <1>4 DEF HandlesAreOwn, IsOpen
  <2>3. \A t \in Sockets : t # s /\ IsOpen(t) => os'[handle[t]] = os[handle[t]]
    BY <1>4, <2>2 DEF IsOpen
  <2>4. HandlesAreOwn'
    BY <1>1, <1>4, <2>1, <2>3 DEF HandlesAreOwn, IsOpen
  <2>5. ReadyOnceOpened'
    BY <1>1, <1>4, <1>5, <2>3 DEF ReadyOnceOpened, IsOpen
  <2>. QED
    BY <1>2, <1>3, <2>4, <2>5
<1>6. CASE end = handle[s] /\ open = opened[s] /\ ~(IsOpen(s) /\ closed)
  <2>1. handle' = handle /\ opened' = opened /\ os' = os
    BY <1>1, <1>4, <1>6
  <2>. QED
    BY <1>1, <2>1 DEF HandlesAreOwn, ReadyOnceOpened, IsOpen
<1>. QED
  BY <1>5, <1>6

\* Close.
LEMMA CloseKeeps ==
    ASSUME SocketsInv, NEW s \in Sockets, Close(s)
    PROVE  SocketsInv'
<1>1. /\ IsOpen(s)
      /\ UNCHANGED <<isInitialized, onWire, sender, cameFrom>>
  BY DEF Close
<1>2. PICK closed \in BOOLEAN :
         /\ handle' = [handle EXCEPT ![s] = HandleAfter(@, closed)]
         /\ os' = CloseOs(handle[s], closed)
         /\ opened' = [opened EXCEPT ![s] = @ /\ ~closed]
  BY DEF Close
<1>. DEFINE end  == HandleAfter(handle[s], closed)
            open == opened[s] /\ ~closed
<1>3. /\ handle' = [handle EXCEPT ![s] = end]
      /\ opened' = [opened EXCEPT ![s] = open]
  BY <1>2 DEF SocketsInv, SocketsTypeOK
<1>4. \/ end \in {NotConstructed, INVALID_SOCKET} /\ open = FALSE
      \/ end = handle[s] /\ open = opened[s] /\ ~(IsOpen(s) /\ closed)
  <2>1. CASE closed
    BY <2>1 DEF HandleAfter
  <2>2. CASE ~closed
    <3>1. opened[s] \in BOOLEAN
      BY DEF SocketsInv, SocketsTypeOK
    <3>. QED
      BY <2>2, <3>1 DEF HandleAfter
  <2>. QED
    BY <2>1, <2>2
<1>. HIDE DEF end, open
<1>5. /\ HandlesAreOwn' /\ ReadyOnceOpened'
      /\ handle' \in [Sockets -> Handles \cup {NotConstructed, INVALID_SOCKET}]
      /\ opened' \in [Sockets -> BOOLEAN]
      /\ os' \in [Handles -> [port : {-1, NotBound} \cup Ports, blocking : BOOLEAN]]
  BY <1>1, <1>2, <1>3, <1>4, EndKeeps
<1>6. SocketsTypeOK'
  BY <1>1, <1>5 DEF SocketsInv, SocketsTypeOK
<1>7. NeverInitialized' /\ FromHost' /\ SentWhereAsked' /\ SendersWritten'
  BY <1>1 DEF SocketsInv, NeverInitialized, FromHost, SentWhereAsked, SendersWritten
<1>. QED
  BY <1>5, <1>6, <1>7 DEF SocketsInv

\* The destructor.
LEMMA DestroyKeeps ==
    ASSUME SocketsInv, NEW s \in Sockets, Destroy(s)
    PROVE  SocketsInv'
<1>1. /\ handle' = [handle EXCEPT ![s] = NotConstructed]
      /\ opened' = [opened EXCEPT ![s] = FALSE]
      /\ sender' = [sender EXCEPT ![s] = NoAddress]
      /\ cameFrom' = [cameFrom EXCEPT ![s] = Wire(NoAddress)]
      /\ UNCHANGED <<isInitialized, onWire>>
  BY DEF Destroy
<1>2. PICK closed \in BOOLEAN : os' = IF IsOpen(s) THEN CloseOs(handle[s], closed) ELSE os
  BY DEF Destroy
<1>3. /\ HandlesAreOwn' /\ ReadyOnceOpened'
      /\ handle' \in [Sockets -> Handles \cup {NotConstructed, INVALID_SOCKET}]
      /\ opened' \in [Sockets -> BOOLEAN]
      /\ os' \in [Handles -> [port : {-1, NotBound} \cup Ports, blocking : BOOLEAN]]
  BY <1>1, <1>2, EndKeeps
<1>4. SocketsTypeOK'
  <2>1. NoAddress \in [address : Nat, port : Nat]
    BY DEF NoAddress, Address
  <2>. QED
    BY <1>1, <1>3, <2>1 DEF SocketsInv, SocketsTypeOK
<1>5. NeverInitialized' /\ FromHost' /\ SentWhereAsked'
  BY <1>1 DEF SocketsInv, NeverInitialized, FromHost, SentWhereAsked
<1>6. SendersWritten'
  BY <1>1 DEF SocketsInv, SocketsTypeOK, SendersWritten
<1>. QED
  BY <1>3, <1>4, <1>5, <1>6 DEF SocketsInv

\* What this host's address is on the wire.
LEMMA FromThisHost == \A port \in Ports : Wire(FromOctets(Host, port)) = HostOnWire(port)
BY SocketsAssumption, BytesAsInteger DEF Wire, FromOctets, HostOnWire, GetAddress, GetNPort, Address

\* A Send puts on the wire what it was asked for.
LEMMA SendToKeeps ==
    ASSUME SocketsInv, NEW s \in Sockets, NEW to, NEW asked, SendTo(s, to, asked),
           asked # Nowhere => to = asked
    PROVE  SocketsInv'
<1>1. /\ IsOpen(s) /\ os[handle[s]] # Closed
      /\ UNCHANGED <<handle, opened, isInitialized, sender, cameFrom>>
  BY DEF SendTo
<1>2. PICK port \in Ports :
         /\ os' = [os EXCEPT ![handle[s]].port = port]
         /\ onWire' = [from |-> Wire(FromOctets(Host, port)), to |-> to, asked |-> asked]
  BY DEF SendTo
<1>3. /\ handle[s] \in Handles
      /\ os'[handle[s]].port = port /\ os'[handle[s]].blocking = os[handle[s]].blocking
      /\ os'[handle[s]] # Closed
      /\ \A h \in Handles : h # handle[s] => os'[h] = os[h]
      /\ os' \in [Handles -> [port : {-1, NotBound} \cup Ports, blocking : BOOLEAN]]
  <2>1. /\ handle[s] \in Handles
        /\ os \in [Handles -> [port : {-1, NotBound} \cup Ports, blocking : BOOLEAN]]
    BY <1>1 DEF SocketsInv, SocketsTypeOK, IsOpen
  <2>2. os'[handle[s]].port = port /\ os'[handle[s]].blocking = os[handle[s]].blocking
    BY <1>2, <2>1
  <2>3. os'[handle[s]] # Closed
    BY <2>2, PortFacts DEF Closed
  <2>. QED
    BY <1>2, <2>1, <2>2, <2>3
<1>4. SocketsTypeOK' /\ NeverInitialized' /\ SendersWritten'
  BY <1>1, <1>3 DEF SocketsInv, SocketsTypeOK, NeverInitialized, SendersWritten
<1>5. HandlesAreOwn'
  BY <1>1, <1>3 DEF SocketsInv, HandlesAreOwn, IsOpen
<1>6. ReadyOnceOpened'
  BY <1>1, <1>3 DEF SocketsInv, ReadyOnceOpened, IsOpen
<1>7. FromHost' /\ SentWhereAsked'
  BY <1>2, FromThisHost DEF FromHost, SentWhereAsked
<1>. QED
  BY <1>4, <1>5, <1>6, <1>7 DEF SocketsInv

\* The constructors of Address and the two forms of Send put the same bytes on the wire.
LEMMA AllSendsKeep ==
    ASSUME SocketsInv, NEW s \in Sockets, NEW port \in Ports,
           \/ SendToOctets(s, Host, port)
           \/ \E text \in Texts : SendToAddressOfText(s, text, port) \/ SendToText(s, text, port)
    PROVE  SocketsInv'
<1>1. Host \in [1 .. 4 -> 0 .. ByteBase - 1]
      /\ \A text \in Texts : text # NotAnAddress => text \in [1 .. 4 -> 0 .. ByteBase - 1]
  BY SocketsAssumption
<1>2. CASE SendToOctets(s, Host, port)
  <2>1. Wire(FromOctets(Host, port)) = [address |-> Parsed(Host), port |-> htons(port)]
    BY FromThisHost DEF HostOnWire
  <2>. QED
    BY <1>2, <2>1, SendToKeeps DEF SendToOctets
<1>3. ASSUME NEW text \in Texts, SendToAddressOfText(s, text, port) PROVE SocketsInv'
  <2>1. AskedByText(text, port) # Nowhere => Wire(FromText(text, port)) = AskedByText(text, port)
    BY <1>1, BytesAsInteger
       DEF Wire, FromText, AskedByText, GetAddress, GetNPort, Address
  <2>. QED
    BY <1>3, <2>1, SendToKeeps DEF SendToAddressOfText
<1>4. ASSUME NEW text \in Texts, SendToText(s, text, port) PROVE SocketsInv'
  <2>1. PICK octets \in IF text = NotAnAddress THEN Leftovers ELSE {text} :
           SendTo(s, [address |-> Parsed(octets), port |-> htons(port)], AskedByText(text, port))
    BY <1>4 DEF SendToText
  <2>2. AskedByText(text, port) # Nowhere =>
            [address |-> Parsed(octets), port |-> htons(port)] = AskedByText(text, port)
    BY DEF AskedByText
  <2>. QED
    BY <2>1, <2>2, SendToKeeps
<1>. QED
  BY <1>2, <1>3, <1>4

\* Receive, with what o_sender makes of the sender.
LEMMA ReceiveKeeps ==
    ASSUME SocketsInv, NEW s \in Sockets, Receive(s)
    PROVE  SocketsInv'
<1>1. /\ handle[s] \in Handles /\ os[handle[s]].port # NotBound /\ os[handle[s]] # Closed
      /\ onWire.to = Wire(FromOctets(Host, os[handle[s]].port))
      /\ sender' = [sender EXCEPT ![s] = SenderOf(onWire.from)]
      /\ cameFrom' = [cameFrom EXCEPT ![s] = onWire.from]
      /\ onWire' = Nothing
      /\ UNCHANGED <<handle, opened, os, isInitialized>>
  BY DEF Receive, IsOpen
<1>2. onWire # Nothing
  <2>1. Wire(FromOctets(Host, os[handle[s]].port)).address # <<>>
    <3>1. Wire(FromOctets(Host, os[handle[s]].port)).address = [n \in 1 .. 4 |->
              Byte(Digit(FromOctets(Host, os[handle[s]].port).address, n))]
      BY DEF Wire, GetAddress, htonl
    <3>. QED
      BY <3>1
  <2>2. Nothing.to.address = <<>>
    BY DEF Nothing, Nowhere
  <2>. QED
    BY <1>1, <2>1, <2>2
<1>3. PICK port \in Ports : onWire.from = HostOnWire(port)
  BY <1>2 DEF SocketsInv, FromHost
<1>4. /\ SenderOf(onWire.from) = Address(NumberOf(Host), port)
      /\ Wire(Address(NumberOf(Host), port)) = onWire.from
  <2>1. Host \in [1 .. 4 -> 0 .. ByteBase - 1]
    BY SocketsAssumption
  <2>2. onWire.from.address = Parsed(Host) /\ onWire.from.port = htons(port)
    BY <1>3 DEF HostOnWire
  <2>3. ntohs(htons(port)) = port
    BY PortFacts, ShortAsBytes
  <2>4. ntohl(Parsed(Host)) = NumberOf(Host) /\ htonl(NumberOf(Host)) = Parsed(Host)
    BY <2>1, BytesAsInteger
  <2>5. Wire(Address(NumberOf(Host), port)) = HostOnWire(port)
    BY <2>4 DEF Wire, GetAddress, GetNPort, Address, HostOnWire
  <2>. QED
    BY <1>3, <2>2, <2>3, <2>4, <2>5 DEF SenderOf
<1>5. /\ Address(NumberOf(Host), port) \in [address : Nat, port : Nat]
      /\ Address(NumberOf(Host), port).address = NumberOf(Host)
  BY PortFacts, SocketsAssumption, DigitsOfNumber DEF Address
<1>6. /\ sender'[s] = Address(NumberOf(Host), port) /\ cameFrom'[s] = onWire.from
      /\ \A t \in Sockets : t # s => sender'[t] = sender[t] /\ cameFrom'[t] = cameFrom[t]
  BY <1>1, <1>4 DEF SocketsInv, SocketsTypeOK
<1>7. SocketsTypeOK'
  BY <1>1, <1>4, <1>5 DEF SocketsInv, SocketsTypeOK
<1>8. SendersWritten'
  BY <1>4, <1>5, <1>6 DEF SocketsInv, SendersWritten
<1>9. NeverInitialized' /\ HandlesAreOwn' /\ ReadyOnceOpened' /\ FromHost' /\ SentWhereAsked'
  BY <1>1 DEF SocketsInv, NeverInitialized, HandlesAreOwn, ReadyOnceOpened, IsOpen, FromHost,
              SentWhereAsked
<1>. QED
  BY <1>7, <1>8, <1>9 DEF SocketsInv

\* The start.
LEMMA InitSockets == SocketsInit => SocketsInv
<1>. SUFFICES ASSUME SocketsInit PROVE SocketsInv
  OBVIOUS
<1>1. NoAddress \in [address : Nat, port : Nat]
  BY DEF NoAddress, Address
<1>2. Closed \in [port : {-1, NotBound} \cup Ports, blocking : BOOLEAN]
  BY DEF Closed
<1>3. SocketsTypeOK
  BY <1>1, <1>2 DEF SocketsInit, SocketsTypeOK
<1>4. \A s \in Sockets : ~IsOpen(s) /\ ~opened[s] /\ sender[s] = NoAddress
  BY SocketsAssumption DEF SocketsInit, IsOpen
<1>. QED
  BY <1>3, <1>4 DEF SocketsInit, SocketsInv, NeverInitialized, HandlesAreOwn, ReadyOnceOpened,
                    FromHost, SentWhereAsked, SendersWritten

\* Every step.
LEMMA StepKeepsSockets == SocketsInv /\ [SocketsNext]_socketVars => SocketsInv'
<1>. SUFFICES ASSUME SocketsInv, [SocketsNext]_socketVars PROVE SocketsInv'
  OBVIOUS
<1>1. CASE UNCHANGED socketVars
  BY <1>1 DEF socketVars, SocketsInv, SocketsTypeOK, NeverInitialized, HandlesAreOwn,
     ReadyOnceOpened, IsOpen, FromHost, SentWhereAsked, SendersWritten
<1>2. CASE InitializeSockets \/ ShutdownSockets \/ Lose
  <2>1. UNCHANGED <<handle, opened, sender, cameFrom>> /\ (onWire' = onWire \/ onWire' = Nothing)
    BY <1>2 DEF InitializeSockets, ShutdownSockets, Lose
  <2>2. os' = os /\ isInitialized' = FALSE
    <3>1. CASE InitializeSockets
      BY <3>1, StartedNothing DEF InitializeSockets, SocketsInv
    <3>2. CASE ShutdownSockets \/ Lose
      BY <3>2 DEF ShutdownSockets, Lose, SocketsInv, NeverInitialized
    <3>. QED
      BY <1>2, <3>1, <3>2
  <2>. QED
    BY <2>1, <2>2 DEF SocketsInv, SocketsTypeOK, NeverInitialized, HandlesAreOwn, ReadyOnceOpened,
       IsOpen, FromHost, SentWhereAsked, SendersWritten
<1>3. ASSUME NEW s \in Sockets, Create(s) \/ Close(s) \/ Destroy(s) \/ Receive(s) PROVE SocketsInv'
  BY <1>3, CreateKeeps, CloseKeeps, DestroyKeeps, ReceiveKeeps
<1>4. ASSUME NEW s \in Sockets, Reply(s) PROVE SocketsInv'
  <2>1. cameFrom[s] = Wire(sender[s])
    BY <1>4 DEF Reply, SocketsInv, SendersWritten
  <2>. QED
    BY <1>4, <2>1, SendToKeeps DEF Reply
<1>5. ASSUME NEW s \in Sockets, NEW port \in Ports,
             \/ Open(s, port) \/ SendToOctets(s, Host, port)
             \/ \E text \in Texts : SendToAddressOfText(s, text, port) \/ SendToText(s, text, port)
      PROVE  SocketsInv'
  BY <1>5, OpenKeeps, AllSendsKeep
<1>. QED
  BY <1>1, <1>2, <1>3, <1>4, <1>5 DEF SocketsNext

\* So every state.
LEMMA SocketsKeepInvariant == SocketsSpec => []SocketsInv
<1>. QED
  BY InitSockets, StepKeepsSockets, PTL DEF SocketsSpec

\* Whatever calls fail and in whatever order sockets are opened and closed, an object's handle
\* is open at the operating system and no other object's.
THEOREM HandlesStayOwn == SocketsSpec => []HandlesAreOwn
<1>1. SocketsInv => HandlesAreOwn
  BY DEF SocketsInv
<1>. QED
  BY <1>1, SocketsKeepInvariant, PTL

\* After an Open that returned true, until it is closed, a socket is bound and does not block.
THEOREM OpenedIsReady == SocketsSpec => []OpenIsReady
<1>1. SocketsInv => OpenIsReady
  BY PortFacts DEF SocketsInv, ReadyOnceOpened, OpenIsReady, Blocks
<1>. QED
  BY <1>1, SocketsKeepInvariant, PTL

\* Every constructor of Address, and both forms of Send, have the bytes on the wire that were
\* asked for; so has an answer to o_sender.
THEOREM SentAsAsked == SocketsSpec => []SentWhereAsked
<1>1. SocketsInv => SentWhereAsked
  BY DEF SocketsInv
<1>. QED
  BY <1>1, SocketsKeepInvariant, PTL

\* GetA to GetD of the address that Receive reports are the octets of the sender's machine.
THEOREM SenderSpellsHost == SocketsSpec => []SenderIsHost
<1>1. SocketsInv => SenderIsHost
  <2>1. Host \in [1 .. 4 -> 0 .. ByteBase - 1]
    BY SocketsAssumption
  <2>. SUFFICES ASSUME SocketsInv, NEW s \in Sockets, sender[s] # NoAddress
       PROVE  [n \in 1 .. 4 |-> Octet(sender[s], n)] = Host
    BY DEF SenderIsHost
  <2>2. \A n \in 1 .. 4 : Octet(sender[s], n) = Host[n]
    BY <2>1, DigitsOfNumber DEF Octet, SocketsInv, SendersWritten
  <2>. QED
    BY <2>1, <2>2
<1>. QED
  BY <1>1, SocketsKeepInvariant, PTL

------------------------------------------------------------------------------
(* The loops of CRC.h.  Rounds is what each of them leaves, round by round; induction is  *)
(* by the least number outside of a set.                                                  *)

\* Induction, for the members of a set.
LEMMA Induction ==
    ASSUME NEW N \in Nat, NEW T, 0 \in T, \A n \in 0 .. N - 1 : n \in T => n + 1 \in T
    PROVE  \A n \in 0 .. N : n \in T
<1>. DEFINE F == (0 .. N) \ T
            Less == {p \in Nat \X Nat : p[1] < p[2]}
<1>. SUFFICES ASSUME F # {} PROVE FALSE
  OBVIOUS
<1>1. F \subseteq Nat
  OBVIOUS
<1>2. IsWellFoundedOn(Less, Nat)
  BY NatLessThanWellFounded DEF OpToRel
<1>3. PICK n \in F : \A k \in F : ~ (<<k, n>> \in Less)
  <2>. HIDE DEF F, Less
  <2>. QED
    BY <1>1, <1>2, WFMin
<1>4. n # 0 /\ n \in 1 .. N
  OBVIOUS
<1>5. n - 1 \in 0 .. N - 1 /\ n - 1 \notin F
  <2>1. n - 1 \in 0 .. N - 1 /\ n - 1 \in Nat /\ n \in Nat
    BY <1>4
  <2>2. <<n - 1, n>> \in Less
    BY <2>1
  <2>. QED
    BY <1>3, <2>1, <2>2
<1>6. n - 1 \in T
  BY <1>5
<1>. QED
  BY <1>4, <1>5, <1>6

\* A function that has what the rounds of a loop leave, each out of what the round before left.
Leaves(f, base, step, N) ==
    /\ f[0] = base
    /\ \A n \in 1 .. N : f[n] = step[n][f[n - 1]]

\* There is one, for every step of the loop a function.
LEMMA RoundsExist ==
    ASSUME NEW S, NEW base \in S, NEW N \in Nat, NEW step \in [1 .. N -> [S -> S]]
    PROVE  \E f \in [0 .. N -> S] : Leaves(f, base, step, N)
<1>. DEFINE T == {n \in 0 .. N : \E f \in [0 .. n -> S] : Leaves(f, base, step, n)}
<1>1. 0 \in T
  <2>. DEFINE f == [n \in 0 .. 0 |-> base]
  <2>1. f \in [0 .. 0 -> S] /\ Leaves(f, base, step, 0)
    BY DEF Leaves
  <2>. QED
    BY <2>1
<1>2. ASSUME NEW n \in 0 .. N - 1, n \in T
      PROVE  n + 1 \in T
  <2>1. PICK f \in [0 .. n -> S] : Leaves(f, base, step, n)
    BY <1>2
  <2>. DEFINE g == [k \in 0 .. n + 1 |-> IF k = n + 1 THEN step[n + 1][f[n]] ELSE f[k]]
  <2>2. step[n + 1] \in [S -> S] /\ f[n] \in S
    OBVIOUS
  <2>3. g \in [0 .. n + 1 -> S]
    BY <2>2
  <2>4. g[0] = base
    BY <2>1 DEF Leaves
  <2>5. \A k \in 1 .. n + 1 : g[k] = step[k][g[k - 1]]
    BY <2>1 DEF Leaves
  <2>6. Leaves(g, base, step, n + 1)
    BY <2>4, <2>5 DEF Leaves
  <2>. QED
    BY <2>3, <2>6
<1>3. N \in T
  <2>. HIDE DEF T
  <2>1. \A n \in 0 .. N : n \in T
    BY <1>1, <1>2, Induction
  <2>. QED
    BY <2>1
<1>. QED
  BY <1>3

\* The recursive function of Rounds has it.
LEMMA RoundsAfter ==
    ASSUME NEW S, NEW base \in S, NEW N \in Nat, NEW step \in [1 .. N -> [S -> S]],
           NEW n \in 0 .. N
    PROVE  \E f \in [0 .. n -> S] : Leaves(f, base, step, n) /\ Rounds(base, step, n) = f[n]
<1>. DEFINE IsAfter(f) ==
                f = [k \in 0 .. n |-> IF k = 0 THEN base ELSE step[k][f[k - 1]]]
            after == CHOOSE f : IsAfter(f)
            first == [k \in 1 .. n |-> step[k]]
<1>1. n \in Nat /\ first \in [1 .. n -> [S -> S]]
  OBVIOUS
<1>2. PICK f \in [0 .. n -> S] : Leaves(f, base, first, n)
  <2>. HIDE DEF first
  <2>. QED
    BY <1>1, RoundsExist
<1>3. IsAfter(f)
  <2>1. f = [k \in 0 .. n |-> f[k]]
    OBVIOUS
  <2>2. \A k \in 0 .. n : f[k] = IF k = 0 THEN base ELSE step[k][f[k - 1]]
    BY <1>2 DEF Leaves
  <2>. QED
    BY <2>1, <2>2
<1>4. IsAfter(after)
  <2>. HIDE DEF IsAfter
  <2>. QED
    BY <1>3
<1>5. Rounds(base, step, n) = after[n]
  BY DEF Rounds
<1>. HIDE DEF after
<1>6. /\ after[0] = base
      /\ after = [k \in 0 .. n |-> after[k]]
      /\ \A k \in 1 .. n : after[k] = step[k][after[k - 1]]
  BY <1>1, <1>4
<1>. DEFINE T == {k \in 0 .. n : after[k] \in S}
<1>7. 0 \in T
  BY <1>6
<1>8. ASSUME NEW k \in 0 .. n - 1, k \in T
      PROVE  k + 1 \in T
  <2>1. step[k + 1] \in [S -> S] /\ after[k] \in S /\ k + 1 \in 1 .. n /\ (k + 1) - 1 = k
    BY <1>8
  <2>2. after[k + 1] = step[k + 1][after[k]]
    BY <1>6, <2>1
  <2>. QED
    BY <2>1, <2>2
<1>9. \A k \in 0 .. n : k \in T
  <2>. HIDE DEF T
  <2>. QED
    BY <1>1, <1>7, <1>8, Induction
<1>10. after \in [0 .. n -> S]
  BY <1>6, <1>9
<1>. QED
  BY <1>5, <1>6, <1>10 DEF Leaves

\* Two functions that have it are equal.
LEMMA LeavesOne ==
    ASSUME NEW f, NEW g, NEW base, NEW step, NEW N \in Nat,
           Leaves(f, base, step, N), Leaves(g, base, step, N)
    PROVE  \A n \in 0 .. N : f[n] = g[n]
<1>. DEFINE T == {n \in 0 .. N : f[n] = g[n]}
<1>1. 0 \in T
  BY DEF Leaves
<1>2. ASSUME NEW n \in 0 .. N - 1, n \in T
      PROVE  n + 1 \in T
  <2>1. n + 1 \in 1 .. N /\ (n + 1) - 1 = n /\ f[n] = g[n]
    BY <1>2
  <2>2. f[n + 1] = step[n + 1][f[n]] /\ g[n + 1] = step[n + 1][g[n]]
    BY <2>1 DEF Leaves
  <2>. QED
    BY <2>1, <2>2
<1>3. \A n \in 0 .. N : n \in T
  <2>. HIDE DEF T
  <2>. QED
    BY <1>1, <1>2, Induction
<1>. QED
  BY <1>3

\* What Rounds is, round by round.
Steps(step, S, N) == step \in [1 .. N -> [S -> S]]

RoundByRound(base, step, S, N) ==
    /\ Rounds(base, step, 0) = base
    /\ \A n \in 0 .. N : Rounds(base, step, n) \in S
    /\ \A n \in 1 .. N : Rounds(base, step, n) = step[n][Rounds(base, step, n - 1)]

\* Rounds has what every round leaves, each out of what the round before left.
LEMMA RoundsAre ==
    ASSUME NEW S, NEW base \in S, NEW N \in Nat, NEW step, Steps(step, S, N)
    PROVE  RoundByRound(base, step, S, N)
<1>. DEFINE Is(n) == \E f \in [0 .. n -> S] :
                         Leaves(f, base, step, n) /\ Rounds(base, step, n) = f[n]
<1>0. \A n \in 0 .. N : Is(n)
  BY RoundsAfter DEF Steps
<1>1. \A n \in 0 .. N : Rounds(base, step, n) \in S
  <2>1. ASSUME NEW n \in 0 .. N, Is(n)
        PROVE  Rounds(base, step, n) \in S
    BY <2>1
  <2>. HIDE DEF Is
  <2>. QED
    BY <1>0, <2>1
<1>2. Rounds(base, step, 0) = base
  BY <1>0 DEF Leaves
<1>3. ASSUME NEW n \in 1 .. N
      PROVE  Rounds(base, step, n) = step[n][Rounds(base, step, n - 1)]
  <2>. DEFINE k == n - 1
  <2>1. k \in 0 .. N /\ k \in Nat /\ n \in 0 .. N
    OBVIOUS
  <2>2. Is(n) /\ Is(k)
    <3>. HIDE DEF k, Is
    <3>. QED
      BY <1>0, <2>1
  <2>3. PICK f \in [0 .. n -> S] : Leaves(f, base, step, n) /\ Rounds(base, step, n) = f[n]
    BY <2>2
  <2>. HIDE DEF k
  <2>4. PICK g \in [0 .. k -> S] : Leaves(g, base, step, k) /\ Rounds(base, step, k) = g[k]
    BY <2>2
  <2>5. Leaves(f, base, step, k)
    BY <2>3 DEF Leaves, k
  <2>6. f[k] = g[k]
    <3>1. \A m \in 0 .. k : f[m] = g[m]
      BY <2>1, <2>4, <2>5, LeavesOne
    <3>. QED
      BY <2>1, <3>1
  <2>7. f[n] = step[n][f[k]]
    BY <2>3 DEF Leaves, k
  <2>. QED
    BY <2>3, <2>4, <2>6, <2>7 DEF k
<1>. QED
  BY <1>1, <1>2, <1>3 DEF RoundByRound

------------------------------------------------------------------------------
(* The division by the polynomial: it goes through exclusive or, so that the bits of a    *)
(* table entry and those that are only shifted may be divided apart.                      *)

\* A byte has a bit, and a register has room for a byte.
LEMMA Widths == Width \in Nat /\ ByteWidth \in Nat /\ 1 <= ByteWidth /\ ByteWidth <= Width
BY CRCAssumption

\* What exclusive or and a shift are, bit by bit.
LEMMA XorIs ==
    ASSUME NEW v, NEW w
    PROVE  \A b : b \in Xor(v, w) <=> ((b \in v) # (b \in w))
BY DEF Xor

\* A bit of a shifted register is the one it was shifted from.
LEMMA ShiftIs ==
    ASSUME NEW w \in Registers, NEW n \in Int
    PROVE  /\ \A b \in Bits : b \in Shift(w, n) <=> b - n \in w
           /\ Shift(w, n) \in Registers
<1>1. ASSUME NEW b \in Bits, b - n \in w
      PROVE  b \in Shift(w, n)
  <2>1. b = (b - n) + n
    BY Widths DEF Bits
  <2>. QED
    BY <1>1, <2>1 DEF Shift
<1>2. ASSUME NEW b \in Bits, b \in Shift(w, n)
      PROVE  b - n \in w
  <2>1. PICK c \in w : b = c + n
    BY <1>2 DEF Shift
  <2>2. c = b - n
    BY <2>1, Widths DEF Registers, Bits
  <2>. QED
    BY <2>1, <2>2
<1>. QED
  BY <1>1, <1>2 DEF Shift, Registers

\* The words CRC.h begins with, and ends with, fit a register.
LEMMA RegistersAre == Polynomial \in Registers /\ {} \in Registers /\ Bits \in Registers
BY CRCAssumption DEF Registers

\* Exclusive or stays in a register.
LEMMA XorFits ==
    ASSUME NEW v \in Registers, NEW w \in Registers
    PROVE  Xor(v, w) \in Registers
BY DEF Xor, Registers

\* Exclusive or goes through a shift,
LEMMA ShiftLinear ==
    ASSUME NEW v \in Registers, NEW w \in Registers, NEW n \in Int
    PROVE  Shift(Xor(v, w), n) = Xor(Shift(v, n), Shift(w, n))
<1>1. Xor(v, w) \in Registers
  BY XorFits
<1>2. \A b \in Bits : b \in Shift(Xor(v, w), n) <=> b \in Xor(Shift(v, n), Shift(w, n))
  BY <1>1, ShiftIs, XorIs
<1>3. Shift(Xor(v, w), n) \subseteq Bits /\ Xor(Shift(v, n), Shift(w, n)) \subseteq Bits
  BY DEF Shift, Xor
<1>. QED
  BY <1>2, <1>3

\* and through the division of a bit,
LEMMA DivideByBitLinear ==
    ASSUME NEW v \in Registers, NEW w \in Registers
    PROVE  /\ DivideByBit(v) \in Registers
           /\ DivideByBit(Xor(v, w)) = Xor(DivideByBit(v), DivideByBit(w))
<1>1. Shift(v, 1) \in Registers /\ Shift(w, 1) \in Registers
  BY ShiftIs, RegistersAre
<1>2. Shift(Xor(v, w), 1) = Xor(Shift(v, 1), Shift(w, 1))
  BY ShiftLinear, RegistersAre
<1>3. DivideByBit(v) \in Registers
  BY <1>1, RegistersAre, XorFits DEF DivideByBit
<1>4. Width - 1 \in Xor(v, w) <=> ((Width - 1 \in v) # (Width - 1 \in w))
  BY XorIs
<1>5. \A p, x, y : /\ Xor(Xor(x, y), p) = Xor(Xor(x, p), y)
                   /\ Xor(Xor(x, y), p) = Xor(x, Xor(y, p))
                   /\ Xor(x, y) = Xor(Xor(x, p), Xor(y, p))
  BY DEF Xor
<1>6. CASE Width - 1 \in v /\ Width - 1 \in w
  BY <1>2, <1>3, <1>4, <1>5, <1>6 DEF DivideByBit
<1>7. CASE Width - 1 \in v /\ Width - 1 \notin w
  BY <1>2, <1>3, <1>4, <1>5, <1>7 DEF DivideByBit
<1>8. CASE Width - 1 \notin v /\ Width - 1 \in w
  BY <1>2, <1>3, <1>4, <1>5, <1>8 DEF DivideByBit
<1>9. CASE Width - 1 \notin v /\ Width - 1 \notin w
  BY <1>2, <1>3, <1>4, <1>5, <1>9 DEF DivideByBit
<1>. QED
  BY <1>3, <1>6, <1>7, <1>8, <1>9

\* What the division of a byte has left after n bits.
Divided(r, n) == Rounds(r, [bit \in 1 .. ByteWidth |-> [w \in Registers |-> DivideByBit(w)]], n)

\* DivideByByte is as many division steps, one after the other.
LEMMA DividedIs ==
    ASSUME NEW r \in Registers
    PROVE  /\ Divided(r, 0) = r
           /\ \A n \in 0 .. ByteWidth : Divided(r, n) \in Registers
           /\ \A n \in 1 .. ByteWidth : Divided(r, n) = DivideByBit(Divided(r, n - 1))
           /\ DivideByByte(r) = Divided(r, ByteWidth)
<1>. DEFINE step == [bit \in 1 .. ByteWidth |-> [w \in Registers |-> DivideByBit(w)]]
<1>1. Steps(step, Registers, ByteWidth)
  BY DivideByBitLinear DEF Steps
<1>2. \A n \in 1 .. ByteWidth, w \in Registers : step[n][w] = DivideByBit(w)
  OBVIOUS
<1>3. \A n : Divided(r, n) = Rounds(r, step, n)
  BY DEF Divided
<1>4. DivideByByte(r) = Rounds(r, step, ByteWidth)
  BY DEF DivideByByte
<1>. HIDE DEF step
<1>5. /\ Rounds(r, step, 0) = r
      /\ \A n \in 0 .. ByteWidth : Rounds(r, step, n) \in Registers
      /\ \A n \in 1 .. ByteWidth : Rounds(r, step, n) = step[n][Rounds(r, step, n - 1)]
  <2>1. RoundByRound(r, step, Registers, ByteWidth)
    BY <1>1, Widths, RoundsAre
  <2>. QED
    BY <2>1 DEF RoundByRound
<1>6. \A n \in 1 .. ByteWidth : n - 1 \in 0 .. ByteWidth
  BY Widths
<1>. QED
  BY <1>2, <1>3, <1>4, <1>5, <1>6

\* hence through that of a byte.
LEMMA DivideByByteLinear ==
    ASSUME NEW v \in Registers, NEW w \in Registers
    PROVE  DivideByByte(Xor(v, w)) = Xor(DivideByByte(v), DivideByByte(w))
<1>. DEFINE T == {n \in 0 .. ByteWidth : Divided(Xor(v, w), n) = Xor(Divided(v, n), Divided(w, n))}
<1>1. Xor(v, w) \in Registers
  BY XorFits
<1>2. 0 \in T
  BY <1>1, DividedIs, Widths
<1>3. ASSUME NEW n \in 0 .. ByteWidth - 1, n \in T
      PROVE  n + 1 \in T
  <2>1. /\ n \in 0 .. ByteWidth /\ n + 1 \in 1 .. ByteWidth /\ (n + 1) - 1 = n
        /\ n + 1 \in 0 .. ByteWidth
    BY Widths
  <2>2. \A r \in Registers : /\ Divided(r, n + 1) = DivideByBit(Divided(r, n))
                         /\ Divided(r, n) \in Registers
    BY <2>1, DividedIs
  <2>3. Divided(Xor(v, w), n) = Xor(Divided(v, n), Divided(w, n))
    BY <1>3
  <2>4. DivideByBit(Xor(Divided(v, n), Divided(w, n)))
            = Xor(DivideByBit(Divided(v, n)), DivideByBit(Divided(w, n)))
    BY <2>2, DivideByBitLinear
  <2>. QED
    BY <1>1, <2>1, <2>2, <2>3, <2>4
<1>4. ByteWidth \in T
  <2>1. \A n \in 0 .. ByteWidth : n \in T
    <3>. HIDE DEF T
    <3>. QED
      BY <1>2, <1>3, Induction, Widths
  <2>. QED
    BY <2>1, Widths
<1>. QED
  BY <1>1, <1>4, DividedIs

\* Bits too low to get to the top meanwhile are shifted, no more.
LEMMA DivideByByteLow ==
    ASSUME NEW w \in SUBSET (0 .. Width - ByteWidth - 1)
    PROVE  DivideByByte(w) = Shift(w, ByteWidth)
<1>. DEFINE T == {n \in 0 .. ByteWidth : Divided(w, n) = Shift(w, n)}
<1>1. w \in Registers
  BY Widths DEF Registers, Bits
<1>2. 0 \in T
  <2>1. \A b \in Bits : b \in Shift(w, 0) <=> b \in w
    BY <1>1, ShiftIs, Widths DEF Bits
  <2>2. Shift(w, 0) \in Registers
    BY <1>1, ShiftIs
  <2>3. Shift(w, 0) = w
    BY <1>1, <2>1, <2>2 DEF Registers
  <2>. QED
    BY <1>1, <2>3, DividedIs, Widths
<1>3. ASSUME NEW n \in 0 .. ByteWidth - 1, n \in T
      PROVE  n + 1 \in T
  <2>1. /\ n \in 0 .. ByteWidth /\ n + 1 \in 1 .. ByteWidth /\ (n + 1) - 1 = n
        /\ n + 1 \in 0 .. ByteWidth
    BY Widths
  <2>2. Divided(w, n + 1) = DivideByBit(Shift(w, n))
    BY <1>1, <1>3, <2>1, DividedIs
  <2>3. Shift(w, n) \in Registers
    BY <1>1, <2>1, ShiftIs
  <2>4. Width - 1 \notin Shift(w, n)
    <3>1. Width - 1 \in Bits /\ (Width - 1) - n \notin w
      BY Widths, <2>1 DEF Bits
    <3>. QED
      BY <1>1, <2>1, <3>1, ShiftIs
  <2>5. Shift(Shift(w, n), 1) = Shift(w, n + 1)
    <3>1. ASSUME NEW b \in Bits
          PROVE  b \in Shift(Shift(w, n), 1) <=> b \in Shift(w, n + 1)
      <4>1. b \in Shift(Shift(w, n), 1) <=> b - 1 \in Shift(w, n)
        BY <2>3, ShiftIs
      <4>2. b \in Shift(w, n + 1) <=> b - (n + 1) \in w
        BY <1>1, <2>1, ShiftIs
      <4>3. CASE b - 1 \in Bits
        <5>1. b - 1 \in Shift(w, n) <=> (b - 1) - n \in w
          BY <1>1, <2>1, <4>3, ShiftIs
        <5>2. (b - 1) - n = b - (n + 1)
          BY <2>1, Widths DEF Bits
        <5>. QED
          BY <4>1, <4>2, <5>1, <5>2
      <4>4. CASE b - 1 \notin Bits
        <5>1. b - (n + 1) \notin w
          BY <2>1, <4>4, Widths DEF Bits
        <5>2. b - 1 \notin Shift(w, n)
          BY <2>3, <4>4 DEF Registers
        <5>. QED
          BY <4>1, <4>2, <5>1, <5>2
      <4>. QED
        BY <4>3, <4>4
    <3>2. Shift(Shift(w, n), 1) \in Registers /\ Shift(w, n + 1) \in Registers
      BY <1>1, <2>1, <2>3, ShiftIs
    <3>. QED
      BY <3>1, <3>2 DEF Registers
  <2>. QED
    BY <2>1, <2>2, <2>4, <2>5 DEF DivideByBit
<1>4. ByteWidth \in T
  <2>1. \A n \in 0 .. ByteWidth : n \in T
    <3>. HIDE DEF T
    <3>. QED
      BY <1>2, <1>3, Induction, Widths
  <2>. QED
    BY <2>1, Widths
<1>. QED
  BY <1>1, <1>4, DividedIs

------------------------------------------------------------------------------
(* The checksum by table: ReverseBits mirrors a byte, and a byte more is an entry of the  *)
(* table and a shift.                                                                     *)

\* A nonempty set of bits has a highest one.
LEMMA HighestBit ==
    ASSUME NEW w \in Registers, w # {}
    PROVE  Max(w) \in w /\ \A b \in w : b <= Max(w)
<1>. DEFINE Highest(x, n) == x < n /\ \A b \in w : b < n => b <= x
            T == {n \in 0 .. Width : (\E b \in w : b < n) => \E x \in w : Highest(x, n)}
<1>1. \A b \in w : b \in 0 .. Width - 1
  BY DEF Registers, Bits
<1>2. 0 \in T
  BY <1>1, Widths
<1>3. ASSUME NEW n \in 0 .. Width - 1, n \in T
      PROVE  n + 1 \in T
  <2>1. CASE n \in w
    <3>1. Highest(n, n + 1)
      BY <1>1, <2>1
    <3>. QED
      BY <2>1, <3>1, Widths
  <2>2. CASE n \notin w
    <3>1. \A b \in w : b < n + 1 <=> b < n
      BY <1>1, <2>2
    <3>. QED
      BY <1>1, <1>3, <3>1, Widths
  <2>. QED
    BY <2>1, <2>2
<1>4. Width \in T
  <2>1. \A n \in 0 .. Width : n \in T
    <3>. HIDE DEF T
    <3>. QED
      BY <1>2, <1>3, Induction, Widths
  <2>. QED
    BY <2>1, Widths
<1>5. \E x \in w : \A b \in w : x >= b
  BY <1>1, <1>4, Widths
<1>6. Max(w) \in w /\ \A b \in w : Max(w) >= b
  BY <1>5 DEF Max
<1>. QED
  BY <1>1, <1>6

\* ReverseBits mirrors the lower n bits; what it leaves above them are the bits it began with.
LEMMA ReverseBitsIs ==
    ASSUME NEW n \in 0 .. Width, NEW w \in SUBSET (0 .. n - 1)
    PROVE  /\ ReverseBits(w, n) \in Registers
           /\ \A b \in Bits : b \in ReverseBits(w, n) <=> n - 1 - b \in w \/ b - n \in w
<1>. DEFINE k == Iterations(w)
            m == {k - 1 - b : b \in w}
<1>1. w \in Registers /\ n \in Nat
  BY Widths DEF Registers, Bits
<1>2. k \in 0 .. n /\ \A b \in w : b \in 0 .. k - 1
  <2>1. CASE w = {}
    BY <1>1, <2>1 DEF Iterations
  <2>2. CASE w # {}
    <3>1. Max(w) \in w /\ \A b \in w : b <= Max(w)
      BY <1>1, <2>2, HighestBit
    <3>. DEFINE x == Max(w)
    <3>2. k = x + 1
      BY <2>2 DEF Iterations
    <3>. HIDE DEF x, k
    <3>3. x \in 0 .. n - 1 /\ \A b \in w : b \in 0 .. n - 1 /\ b <= x
      BY <3>1 DEF x
    <3>. QED
      BY <1>1, <3>2, <3>3
  <2>. QED
    BY <2>1, <2>2
<1>. HIDE DEF k
<1>3. m \in Registers /\ \A c \in Bits : c \in m <=> k - 1 - c \in w
  <2>1. ASSUME NEW b \in w
        PROVE  k - 1 - b \in Bits
    BY <1>1, <1>2, Widths DEF Bits
  <2>2. ASSUME NEW c \in Bits, k - 1 - c \in w
        PROVE  c \in m
    <3>1. c = k - 1 - (k - 1 - c)
      BY <1>2, Widths DEF Bits
    <3>. QED
      BY <2>2, <3>1
  <2>3. ASSUME NEW c \in Bits, c \in m
        PROVE  k - 1 - c \in w
    <3>1. PICK b \in w : c = k - 1 - b
      BY <2>3
    <3>2. b = k - 1 - c
      BY <1>1, <1>2, <3>1
    <3>. QED
      BY <3>1, <3>2
  <2>4. m \in Registers
    BY <2>1 DEF Registers
  <2>. HIDE DEF m
  <2>. QED
    BY <2>2, <2>3, <2>4
<1>4. ReverseBits(w, n) = Shift(Shift(w, k) \cup m, n - k)
  BY DEF ReverseBits, k
<1>. HIDE DEF m
<1>5. k \in Int /\ n - k \in Int /\ n - k >= 0 /\ k >= 0 /\ k <= n /\ n <= Width
  BY <1>1, <1>2
<1>6. Shift(w, k) \in Registers /\ \A c \in Bits : c \in Shift(w, k) <=> c - k \in w
  BY <1>1, <1>5, ShiftIs
<1>. DEFINE u == Shift(w, k) \cup m
<1>7. u \in Registers /\ \A c \in Bits : c \in u <=> c - k \in w \/ k - 1 - c \in w
  BY <1>3, <1>6 DEF Registers
<1>8. ReverseBits(w, n) = Shift(u, n - k)
  BY <1>4
<1>. HIDE DEF u
<1>9. /\ ReverseBits(w, n) \in Registers
      /\ \A b \in Bits : b \in ReverseBits(w, n) <=> b - (n - k) \in u
  BY <1>5, <1>7, <1>8, ShiftIs
<1>10. ASSUME NEW b \in Bits
       PROVE  b \in ReverseBits(w, n) <=> n - 1 - b \in w \/ b - n \in w
  <2>1. CASE b - (n - k) \in Bits
    <3>1. (b - (n - k)) - k = b - n /\ k - 1 - (b - (n - k)) = n - 1 - b
      BY <1>1, <1>5, Widths DEF Bits
    <3>. QED
      BY <1>7, <1>9, <2>1, <3>1
  <2>2. CASE b - (n - k) \notin Bits
    <3>1. b - (n - k) \notin u
      BY <1>7, <2>2 DEF Registers
    <3>2. b < n - k
      BY <1>1, <1>5, <2>2, Widths DEF Bits
    <3>3. b - n \notin w /\ n - 1 - b \notin w
      BY <1>1, <1>2, <1>5, <3>2, Widths DEF Bits
    <3>. QED
      BY <1>9, <3>1, <3>3
  <2>. QED
    BY <2>1, <2>2
<1>. QED
  BY <1>9, <1>10

\* A byte fits a register.
LEMMA BytesFit ==
    Bytes \subseteq Registers /\ \A byte \in Bytes : byte \in SUBSET (0 .. ByteWidth - 1)
BY Widths DEF Bytes, Registers, Bits

\* ReverseBits of a byte fits a register.
LEMMA ReverseFits ==
    ASSUME NEW byte \in Bytes
    PROVE  ReverseBits(byte, ByteWidth) \in Registers
<1>1. ByteWidth \in 0 .. Width /\ byte \in SUBSET (0 .. ByteWidth - 1)
  BY Widths, BytesFit
<1>. QED
  BY <1>1, ReverseBitsIs

\* A table with what InitTable puts into every entry.
TableOf(entries) == \A byte \in Bytes : entries[byte] = DivideByByte(Shift(byte, Width - ByteWidth))

\* The remainder of a byte more is the same by division and by such a table.
LEMMA LookUpDivides ==
    ASSUME NEW entries, TableOf(entries), NEW r \in Registers, NEW byte \in Bytes
    PROVE  LookUp(entries, r, byte) = DivideIn(r, byte) /\ DivideIn(r, byte) \in Registers
<1>. DEFINE d == Width - ByteWidth
            rb == ReverseBits(byte, ByteWidth)
            up == Xor(rb, Shift(r, ByteWidth - Width))
            data == up \cap (0 .. ByteWidth - 1)
            lo == r \cap (0 .. d - 1)
<1>1. d \in Nat /\ d + ByteWidth = Width /\ ByteWidth - Width = 0 - d /\ d \in Int
  BY Widths
<1>2. rb \in Registers
  BY ReverseFits
<1>3. LookUp(entries, r, byte) = Xor(entries[data], Shift(r, ByteWidth))
  BY DEF LookUp
<1>4. DivideIn(r, byte) = DivideByByte(Xor(r, Shift(rb, d)))
  BY DEF DivideIn
<1>5. data \in Bytes /\ data \in Registers
  BY BytesFit DEF Bytes
<1>6. entries[data] = DivideByByte(Shift(data, d))
  BY <1>5 DEF TableOf
<1>7. lo \in Registers /\ lo \in SUBSET (0 .. Width - ByteWidth - 1)
  BY <1>1 DEF Registers
<1>8. \A c \in 0 .. ByteWidth - 1 : c \in data <=> ((c \in rb) # (c + d \in r))
  <2>. TAKE c \in 0 .. ByteWidth - 1
  <2>1. c \in Bits /\ c - (ByteWidth - Width) = c + d /\ ByteWidth - Width \in Int
    BY <1>1, Widths DEF Bits
  <2>2. c \in Shift(r, ByteWidth - Width) <=> c - (ByteWidth - Width) \in r
    BY <2>1, ShiftIs
  <2>3. c \in up <=> ((c \in rb) # (c \in Shift(r, ByteWidth - Width)))
    BY XorIs
  <2>. QED
    BY <2>1, <2>2, <2>3
<1>. HIDE DEF rb, up, data, d
<1>9. \A b \in Bits : b \in Xor(r, Shift(rb, d)) <=> b \in Xor(Shift(data, d), lo)
  <2>. TAKE b \in Bits
  <2>1. /\ b \in Xor(r, Shift(rb, d)) <=> ((b \in r) # (b \in Shift(rb, d)))
        /\ b \in Xor(Shift(data, d), lo) <=> ((b \in Shift(data, d)) # (b \in lo))
    BY XorIs
  <2>2. b \in Shift(rb, d) <=> b - d \in rb
    BY <1>1, <1>2, ShiftIs
  <2>3. b \in Shift(data, d) <=> b - d \in data
    BY <1>1, <1>5, ShiftIs
  <2>4. CASE b < d
    <3>1. b - d < 0 /\ b \in 0 .. d - 1
      BY <1>1, <2>4, Widths DEF Bits
    <3>2. b - d \notin Bits
      BY <3>1 DEF Bits
    <3>3. b - d \notin rb /\ b - d \notin data
      BY <1>2, <1>5, <3>2 DEF Registers
    <3>. QED
      BY <2>1, <2>2, <2>3, <3>1, <3>3
  <2>5. CASE ~ (b < d)
    <3>1. b - d \in 0 .. ByteWidth - 1 /\ (b - d) + d = b /\ b \notin 0 .. d - 1
      BY <1>1, <2>5, Widths DEF Bits
    <3>2. b - d \in data <=> ((b - d \in rb) # (b \in r))
      BY <1>8, <3>1
    <3>. QED
      BY <2>1, <2>2, <2>3, <3>1, <3>2
  <2>. QED
    BY <2>4, <2>5
<1>10. Shift(rb, d) \in Registers /\ Shift(data, d) \in Registers
  BY <1>1, <1>2, <1>5, ShiftIs
<1>11. Xor(r, Shift(rb, d)) = Xor(Shift(data, d), lo)
  <2>1. Xor(r, Shift(rb, d)) \in Registers /\ Xor(Shift(data, d), lo) \in Registers
    BY <1>7, <1>10, XorFits
  <2>. QED
    BY <1>9, <2>1 DEF Registers
<1>12. Shift(lo, ByteWidth) = Shift(r, ByteWidth)
  <2>1. \A b \in Bits : b - ByteWidth \in lo <=> b - ByteWidth \in r
    BY <1>1, Widths DEF Registers, Bits
  <2>2. \A b \in Bits : b \in Shift(lo, ByteWidth) <=> b \in Shift(r, ByteWidth)
    BY <1>7, <2>1, Widths, ShiftIs
  <2>3. Shift(lo, ByteWidth) \in Registers /\ Shift(r, ByteWidth) \in Registers
    BY <1>7, Widths, ShiftIs
  <2>. QED
    BY <2>2, <2>3 DEF Registers
<1>. HIDE DEF lo
<1>13. DivideByByte(Xor(Shift(data, d), lo))
           = Xor(DivideByByte(Shift(data, d)), DivideByByte(lo))
  BY <1>7, <1>10, DivideByByteLinear
<1>14. DivideByByte(lo) = Shift(r, ByteWidth)
  BY <1>7, <1>12, DivideByByteLow
<1>15. DivideByByte(Xor(r, Shift(rb, d))) \in Registers
  <2>1. Xor(r, Shift(rb, d)) \in Registers
    BY <1>10, XorFits
  <2>. QED
    BY <2>1, DividedIs, Widths
<1>. QED
  BY <1>3, <1>4, <1>6, <1>11, <1>13, <1>14, <1>15

\* So is the checksum.
LEMMA TableDivides ==
    ASSUME NEW entries, TableOf(entries), NEW bytes \in Seq(Bytes)
    PROVE  GetCRCTableBased(entries, bytes) = GetCRC(bytes)
<1>1. \A n \in 1 .. Len(bytes), r \in Registers :
          LookUp(entries, r, bytes[n]) = DivideIn(r, bytes[n])
  BY LookUpDivides
<1>2. [n \in 1 .. Len(bytes) |-> [r \in Registers |-> LookUp(entries, r, bytes[n])]]
          = [n \in 1 .. Len(bytes) |-> [r \in Registers |-> DivideIn(r, bytes[n])]]
  BY <1>1
<1>. QED
  BY <1>2 DEF GetCRCTableBased, GetCRC

\* The rounds of a loop over numbers, one for each bit of a byte.
LEMMA RoundsOfNumbers ==
    ASSUME NEW base \in Nat, NEW step, Steps(step, Nat, ByteWidth)
    PROVE  /\ Rounds(base, step, 0) = base
           /\ \A n \in 0 .. ByteWidth : Rounds(base, step, n) \in Nat
           /\ \A n \in 1 .. ByteWidth :
                  /\ Rounds(base, step, n - 1) \in Nat
                  /\ Rounds(base, step, n) = step[n][Rounds(base, step, n - 1)]
<1>1. \A n \in 1 .. ByteWidth : n - 1 \in 0 .. ByteWidth
  BY Widths
<1>2. RoundByRound(base, step, Nat, ByteWidth)
  BY Widths, RoundsAre
<1>. QED
  BY <1>1, <1>2 DEF RoundByRound

\* Every byte is that of a number InitTable counts through: the number made of its bits from
\* the highest down, which the shifts of ByteOf take apart again.
LEMMA EveryByteIsCounted ==
    ASSUME NEW byte \in Bytes
    PROVE  \E n \in Nat : n < Entries /\ ByteOf(n) = byte
<1>. DEFINE bit(k) == IF k \in byte THEN 1 ELSE 0
            twice == [k \in 1 .. ByteWidth |-> [v \in Nat |-> 2 * v]]
            half == [k \in 1 .. ByteWidth |-> [v \in Nat |-> v \div 2]]
            more == [k \in 1 .. ByteWidth |-> [v \in Nat |-> 2 * v + bit(ByteWidth - k)]]
            p(k) == Rounds(1, twice, k)
            h(k) == Rounds(0, more, k)
            n == h(ByteWidth)
            s(k) == Rounds(n, half, k)
<1>0. \A k : bit(k) \in {0, 1} /\ (bit(k) = 1 <=> k \in byte)
  OBVIOUS
<1>. HIDE DEF bit
<1>1. Steps(twice, Nat, ByteWidth)
  BY DEF Steps
<1>2. Steps(more, Nat, ByteWidth)
  <2>1. \A k, v : v \in Nat => 2 * v + bit(ByteWidth - k) \in Nat
    BY <1>0
  <2>. QED
    BY <2>1 DEF Steps
<1>3. Steps(half, Nat, ByteWidth)
  BY DEF Steps
<1>4. /\ p(0) = 1 /\ \A k \in 0 .. ByteWidth : p(k) \in Nat
      /\ \A k \in 1 .. ByteWidth : p(k) = 2 * p(k - 1)
  <2>1. /\ p(0) = 1 /\ \A k \in 0 .. ByteWidth : p(k) \in Nat
        /\ \A k \in 1 .. ByteWidth : p(k - 1) \in Nat /\ p(k) = twice[k][p(k - 1)]
    <3>. HIDE DEF twice
    <3>. QED
      BY <1>1, RoundsOfNumbers
  <2>. HIDE DEF p
  <2>. QED
    BY <2>1
<1>5. /\ h(0) = 0 /\ \A k \in 0 .. ByteWidth : h(k) \in Nat
      /\ \A k \in 1 .. ByteWidth : h(k) = 2 * h(k - 1) + bit(ByteWidth - k)
  <2>1. /\ h(0) = 0 /\ \A k \in 0 .. ByteWidth : h(k) \in Nat
        /\ \A k \in 1 .. ByteWidth : h(k - 1) \in Nat /\ h(k) = more[k][h(k - 1)]
    <3>. HIDE DEF more
    <3>. QED
      BY <1>2, RoundsOfNumbers
  <2>. HIDE DEF h
  <2>. QED
    BY <2>1
<1>. HIDE DEF h
<1>6. n \in Nat
  BY <1>5, Widths
<1>7. /\ s(0) = n /\ \A k \in 0 .. ByteWidth : s(k) \in Nat
      /\ \A k \in 1 .. ByteWidth : s(k) = s(k - 1) \div 2
  <2>1. /\ s(0) = n /\ \A k \in 0 .. ByteWidth : s(k) \in Nat
        /\ \A k \in 1 .. ByteWidth : s(k - 1) \in Nat /\ s(k) = half[k][s(k - 1)]
    <3>. HIDE DEF half, n
    <3>. QED
      BY <1>3, <1>6, RoundsOfNumbers
  <2>. HIDE DEF s, n
  <2>. QED
    BY <2>1
<1>8. Entries = p(ByteWidth)
  BY DEF Entries
<1>9. ByteOf(n) = {b \in 0 .. ByteWidth - 1 : s(b) % 2 = 1}
  BY DEF ByteOf
<1>. HIDE DEF p, s, n
<1>10. n < Entries
  <2>. DEFINE T == {k \in 0 .. ByteWidth : h(k) < p(k)}
  <2>1. 0 \in T
    BY <1>4, <1>5, Widths
  <2>2. ASSUME NEW k \in 0 .. ByteWidth - 1, k \in T
        PROVE  k + 1 \in T
    <3>1. /\ k \in 0 .. ByteWidth /\ k + 1 \in 1 .. ByteWidth /\ (k + 1) - 1 = k
          /\ k + 1 \in 0 .. ByteWidth
      BY Widths
    <3>2. h(k + 1) = 2 * h(k) + bit(ByteWidth - (k + 1)) /\ p(k + 1) = 2 * p(k)
      BY <1>4, <1>5, <3>1
    <3>3. h(k) \in Nat /\ p(k) \in Nat /\ h(k) < p(k) /\ bit(ByteWidth - (k + 1)) \in {0, 1}
      BY <1>0, <1>4, <1>5, <2>2, <3>1
    <3>. QED
      BY <3>1, <3>2, <3>3
  <2>3. \A k \in 0 .. ByteWidth : k \in T
    <3>. HIDE DEF T
    <3>. QED
      BY <2>1, <2>2, Induction, Widths
  <2>. QED
    BY <1>8, <2>3, Widths DEF n
<1>11. \A k \in 0 .. ByteWidth : s(k) = h(ByteWidth - k)
  <2>. DEFINE T == {k \in 0 .. ByteWidth : s(k) = h(ByteWidth - k)}
  <2>1. 0 \in T
    BY <1>7, Widths DEF n
  <2>2. ASSUME NEW k \in 0 .. ByteWidth - 1, k \in T
        PROVE  k + 1 \in T
    <3>. DEFINE c == ByteWidth - k
    <3>1. /\ k + 1 \in 1 .. ByteWidth /\ (k + 1) - 1 = k /\ k + 1 \in 0 .. ByteWidth
          /\ c \in 1 .. ByteWidth /\ c - 1 \in 0 .. ByteWidth /\ ByteWidth - (k + 1) = c - 1
      BY Widths
    <3>2. s(k + 1) = s(k) \div 2 /\ s(k) = h(c)
      BY <1>7, <2>2, <3>1
    <3>. HIDE DEF c
    <3>3. h(c) = 2 * h(c - 1) + bit(ByteWidth - c) /\ h(c - 1) \in Nat
      BY <1>5, <3>1
    <3>4. bit(ByteWidth - c) \in {0, 1}
      BY <1>0
    <3>5. h(c) \div 2 = h(c - 1)
      BY <3>3, <3>4
    <3>. QED
      BY <3>1, <3>2, <3>5
  <2>3. \A k \in 0 .. ByteWidth : k \in T
    <3>. HIDE DEF T
    <3>. QED
      BY <2>1, <2>2, Induction, Widths
  <2>. QED
    BY <2>3
<1>12. ASSUME NEW b \in 0 .. ByteWidth - 1
       PROVE  s(b) % 2 = bit(b)
  <2>. DEFINE c == ByteWidth - b
  <2>1. c \in 1 .. ByteWidth /\ c - 1 \in 0 .. ByteWidth /\ ByteWidth - c = b /\ b \in 0 .. ByteWidth
    BY Widths
  <2>2. s(b) = h(c)
    BY <1>11, <2>1
  <2>. HIDE DEF c
  <2>3. h(c) = 2 * h(c - 1) + bit(b) /\ h(c - 1) \in Nat /\ bit(b) \in {0, 1}
    BY <1>0, <1>5, <2>1
  <2>. QED
    BY <2>2, <2>3
<1>13. ByteOf(n) = byte
  BY <1>0, <1>9, <1>12, BytesFit
<1>. QED
  BY <1>6, <1>10, <1>13

------------------------------------------------------------------------------
(* The checksum as it is usually given: dividing mirrored words is dividing from the      *)
(* lowest bit on, step by step.                                                           *)

\* A word with its bits in the other order.
Mirror(r) == {Width - 1 - b : b \in r}

\* The mirror of a register is one, and a bit of it is the one as far from the other end.
LEMMA MirrorIs ==
    ASSUME NEW r \in Registers
    PROVE  /\ Mirror(r) \in Registers
           /\ \A b \in Bits : b \in Mirror(r) <=> Width - 1 - b \in r
<1>1. \A b \in r : b \in 0 .. Width - 1
  BY DEF Registers, Bits
<1>2. Mirror(r) \in Registers
  BY <1>1, Widths DEF Mirror, Registers, Bits
<1>3. ASSUME NEW b \in Bits, Width - 1 - b \in r
      PROVE  b \in Mirror(r)
  <2>1. b = Width - 1 - (Width - 1 - b)
    BY Widths DEF Bits
  <2>. QED
    BY <1>3, <2>1 DEF Mirror
<1>4. ASSUME NEW b \in Bits, b \in Mirror(r)
      PROVE  Width - 1 - b \in r
  <2>1. PICK c \in r : b = Width - 1 - c
    BY <1>4 DEF Mirror
  <2>2. c = Width - 1 - b
    BY <1>1, <2>1, Widths
  <2>. QED
    BY <2>1, <2>2
<1>. QED
  BY <1>2, <1>3, <1>4

\* Registers with the same bits are equal.
LEMMA SameBits ==
    ASSUME NEW v \in Registers, NEW w \in Registers, \A b \in Bits : b \in v <=> b \in w
    PROVE  v = w
BY DEF Registers

\* Mirroring goes through exclusive or, and twice is not at all.
LEMMA MirrorXor ==
    ASSUME NEW v \in Registers, NEW w \in Registers
    PROVE  /\ Mirror(Xor(v, w)) = Xor(Mirror(v), Mirror(w))
           /\ Mirror(Mirror(v)) = v
<1>1. /\ Mirror(v) \in Registers /\ Mirror(w) \in Registers /\ Xor(v, w) \in Registers
      /\ Mirror(Xor(v, w)) \in Registers /\ Xor(Mirror(v), Mirror(w)) \in Registers
      /\ Mirror(Mirror(v)) \in Registers
  BY MirrorIs, XorFits
<1>2. \A b \in Bits : Width - 1 - b \in Bits /\ Width - 1 - (Width - 1 - b) = b
  BY Widths DEF Bits
<1>3. \A b \in Bits : b \in Mirror(Xor(v, w)) <=> b \in Xor(Mirror(v), Mirror(w))
  BY <1>1, MirrorIs, XorIs
<1>4. \A b \in Bits : b \in Mirror(Mirror(v)) <=> b \in v
  BY <1>1, <1>2, MirrorIs
<1>. QED
  BY <1>1, <1>3, <1>4, SameBits

\* All ones have no other end.
LEMMA MirrorBits == Mirror(Bits) = Bits
<1>1. \A b \in Bits : Width - 1 - b \in Bits
  BY Widths DEF Bits
<1>2. \A b \in Bits : b \in Mirror(Bits)
  BY <1>1, MirrorIs, RegistersAre
<1>. QED
  BY <1>2, MirrorIs, RegistersAre, SameBits

\* A shift to the lower bits.
LEMMA DownIs ==
    ASSUME NEW w \in Registers
    PROVE  /\ Shift(w, -1) \in Registers
           /\ \A b \in Bits : b \in Shift(w, -1) <=> b + 1 \in w
<1>1. \A b \in Bits : b - (-1) = b + 1
  BY Widths DEF Bits
<1>. QED
  BY <1>1, ShiftIs

\* In the mirror DivideByBit looks at the lowest bit.
LEMMA LowestOutIs ==
    ASSUME NEW r \in Registers
    PROVE  LowestOut(Mirror(r)) = Mirror(DivideByBit(r))
<1>1. 0 \in Mirror(r) <=> Width - 1 \in r
  <2>1. 0 \in Bits /\ Width - 1 - 0 = Width - 1
    BY Widths DEF Bits
  <2>. QED
    BY <2>1, MirrorIs
<1>2. Mirror(r) \in Registers /\ Shift(r, 1) \in Registers
  BY MirrorIs, ShiftIs
<1>3. Shift(Mirror(r), -1) = Mirror(Shift(r, 1))
  <2>1. Shift(Mirror(r), -1) \in Registers /\ Mirror(Shift(r, 1)) \in Registers
    BY <1>2, DownIs, MirrorIs
  <2>2. ASSUME NEW b \in Bits
        PROVE  b \in Shift(Mirror(r), -1) <=> b \in Mirror(Shift(r, 1))
    <3>1. b \in Shift(Mirror(r), -1) <=> b + 1 \in Mirror(r)
      BY <1>2, DownIs
    <3>2. Width - 1 - b \in Bits /\ (Width - 1 - b) - 1 = Width - 1 - (b + 1)
      BY Widths DEF Bits
    <3>3. b \in Mirror(Shift(r, 1)) <=> Width - 1 - (b + 1) \in r
      <4>1. b \in Mirror(Shift(r, 1)) <=> Width - 1 - b \in Shift(r, 1)
        BY <1>2, MirrorIs
      <4>2. Width - 1 - b \in Shift(r, 1) <=> (Width - 1 - b) - 1 \in r
        BY <3>2, ShiftIs
      <4>. QED
        BY <3>2, <4>1, <4>2
    <3>4. b + 1 \in Mirror(r) <=> Width - 1 - (b + 1) \in r
      <4>1. CASE b + 1 \in Bits
        BY <4>1, MirrorIs
      <4>2. CASE b + 1 \notin Bits
        <5>1. b + 1 \notin Mirror(r)
          BY <1>2, <4>2 DEF Registers
        <5>2. Width - 1 - (b + 1) \notin Bits
          BY <4>2, Widths DEF Bits
        <5>3. Width - 1 - (b + 1) \notin r
          BY <5>2 DEF Registers
        <5>. QED
          BY <5>1, <5>3
      <4>. QED
        BY <4>1, <4>2
    <3>. QED
      BY <3>1, <3>3, <3>4
  <2>. QED
    BY <2>1, <2>2, SameBits
<1>4. Mirror(Xor(Shift(r, 1), Polynomial)) = Xor(Mirror(Shift(r, 1)), Mirror(Polynomial))
  BY <1>2, RegistersAre, MirrorXor
<1>5. CASE Width - 1 \in r
  BY <1>1, <1>3, <1>4, <1>5 DEF LowestOut, DivideByBit, Mirror
<1>6. CASE Width - 1 \notin r
  BY <1>1, <1>3, <1>6 DEF LowestOut, DivideByBit
<1>. QED
  BY <1>5, <1>6

\* What the usual division of a byte has left after n bits, and the remainder after it.
LowestOuts == [bit \in 1 .. ByteWidth |-> [w \in Registers |-> LowestOut(w)]]
LowDivided(r, n) == Rounds(r, LowestOuts, n)

\* The usual division step stays in a register,
LEMMA LowestOutFits ==
    ASSUME NEW r \in Registers
    PROVE  LowestOut(r) \in Registers
<1>1. Shift(r, -1) \in Registers /\ Mirror(Polynomial) \in Registers
  BY DownIs, RegistersAre, MirrorIs
<1>2. Xor(Shift(r, -1), Mirror(Polynomial)) \in Registers
  BY <1>1, XorFits
<1>. QED
  BY <1>1, <1>2 DEF LowestOut, Mirror

\* and that of a byte is as many of them.
LEMMA LowDividedIs ==
    ASSUME NEW r \in Registers
    PROVE  /\ LowDivided(r, 0) = r
           /\ \A n \in 0 .. ByteWidth : LowDivided(r, n) \in Registers
           /\ \A n \in 1 .. ByteWidth : LowDivided(r, n) = LowestOut(LowDivided(r, n - 1))
<1>1. Steps(LowestOuts, Registers, ByteWidth)
  BY LowestOutFits DEF LowestOuts, Steps
<1>2. \A n \in 1 .. ByteWidth, w \in Registers : LowestOuts[n][w] = LowestOut(w)
  BY DEF LowestOuts
<1>3. /\ Rounds(r, LowestOuts, 0) = r
      /\ \A n \in 0 .. ByteWidth : Rounds(r, LowestOuts, n) \in Registers
      /\ \A n \in 1 .. ByteWidth :
             Rounds(r, LowestOuts, n) = LowestOuts[n][Rounds(r, LowestOuts, n - 1)]
  <2>1. RoundByRound(r, LowestOuts, Registers, ByteWidth)
    BY <1>1, Widths, RoundsAre
  <2>. QED
    BY <2>1 DEF RoundByRound
<1>4. \A n \in 1 .. ByteWidth : n - 1 \in 0 .. ByteWidth
  BY Widths
<1>5. \A n \in 1 .. ByteWidth :
          Rounds(r, LowestOuts, n) = LowestOut(Rounds(r, LowestOuts, n - 1))
  <2>. TAKE n \in 1 .. ByteWidth
  <2>. DEFINE w == Rounds(r, LowestOuts, n - 1)
  <2>1. w \in Registers /\ Rounds(r, LowestOuts, n) = LowestOuts[n][w]
    BY <1>3, <1>4
  <2>. HIDE DEF w
  <2>2. LowestOuts[n][w] = LowestOut(w)
    BY <1>2, <2>1
  <2>. QED
    BY <2>1, <2>2 DEF w
<1>. QED
  BY <1>3, <1>5 DEF LowDivided

\* In the mirror DivideByByte takes the bits of a byte from the lowest on.
LEMMA LowDividedMirrors ==
    ASSUME NEW r \in Registers
    PROVE  LowDivided(Mirror(r), ByteWidth) = Mirror(DivideByByte(r))
<1>. DEFINE T == {n \in 0 .. ByteWidth : LowDivided(Mirror(r), n) = Mirror(Divided(r, n))}
<1>1. Mirror(r) \in Registers
  BY MirrorIs
<1>2. 0 \in T
  BY <1>1, DividedIs, LowDividedIs, Widths
<1>3. ASSUME NEW n \in 0 .. ByteWidth - 1, n \in T
      PROVE  n + 1 \in T
  <2>1. /\ n \in 0 .. ByteWidth /\ n + 1 \in 1 .. ByteWidth /\ (n + 1) - 1 = n
        /\ n + 1 \in 0 .. ByteWidth
    BY Widths
  <2>2. Divided(r, n + 1) = DivideByBit(Divided(r, n)) /\ Divided(r, n) \in Registers
    BY <2>1, DividedIs
  <2>3. LowDivided(Mirror(r), n + 1) = LowestOut(LowDivided(Mirror(r), n))
    BY <1>1, <2>1, LowDividedIs
  <2>. QED
    BY <1>3, <2>1, <2>2, <2>3, LowestOutIs
<1>4. ByteWidth \in T
  <2>1. \A n \in 0 .. ByteWidth : n \in T
    <3>. HIDE DEF T
    <3>. QED
      BY <1>2, <1>3, Induction, Widths
  <2>. QED
    BY <2>1, Widths
<1>. QED
  BY <1>4, DividedIs

\* In the mirror a reversed byte at the top is the byte.
LEMMA MirrorByte ==
    ASSUME NEW byte \in Bytes
    PROVE  Mirror(Shift(ReverseBits(byte, ByteWidth), Width - ByteWidth)) = byte
<1>. DEFINE d == Width - ByteWidth
            rb == ReverseBits(byte, ByteWidth)
<1>1. /\ ByteWidth \in 0 .. Width /\ byte \in SUBSET (0 .. ByteWidth - 1) /\ byte \in Registers
      /\ d \in Int
  BY Widths, BytesFit
<1>2. rb \in Registers /\ \A b \in Bits : b \in rb <=> ByteWidth - 1 - b \in byte \/ b - ByteWidth \in byte
  BY <1>1, ReverseBitsIs
<1>. HIDE DEF rb, d
<1>3. Shift(rb, d) \in Registers /\ Mirror(Shift(rb, d)) \in Registers
  BY <1>1, <1>2, ShiftIs, MirrorIs
<1>4. ASSUME NEW b \in Bits
      PROVE  b \in Mirror(Shift(rb, d)) <=> b \in byte
  <2>. DEFINE c == ByteWidth - 1 - b
  <2>1. Width - 1 - b \in Bits /\ (Width - 1 - b) - d = c
    BY Widths DEF Bits, d
  <2>2. b \in Mirror(Shift(rb, d)) <=> c \in rb
    <3>1. b \in Mirror(Shift(rb, d)) <=> Width - 1 - b \in Shift(rb, d)
      BY <1>3, MirrorIs
    <3>2. Width - 1 - b \in Shift(rb, d) <=> (Width - 1 - b) - d \in rb
      BY <1>1, <1>2, <2>1, ShiftIs
    <3>. QED
      BY <2>1, <3>1, <3>2
  <2>3. CASE b < ByteWidth
    <3>1. c \in Bits /\ ByteWidth - 1 - c = b /\ c - ByteWidth < 0
      BY <2>3, Widths DEF Bits
    <3>2. c - ByteWidth \notin byte
      <4>1. c - ByteWidth \notin 0 .. ByteWidth - 1
        BY <3>1
      <4>. QED
        BY <1>1, <4>1
    <3>. HIDE DEF c
    <3>. QED
      BY <1>2, <2>2, <3>1, <3>2
  <2>4. CASE ~ (b < ByteWidth)
    <3>1. c \notin Bits /\ b \notin byte
      BY <1>1, <2>4, Widths DEF Bits
    <3>2. c \notin rb
      BY <1>2, <3>1 DEF Registers
    <3>. QED
      BY <2>2, <3>1, <3>2
  <2>. QED
    BY <2>3, <2>4
<1>5. Mirror(Shift(rb, d)) = byte
  BY <1>1, <1>3, <1>4, SameBits
<1>. QED
  BY <1>5 DEF rb, d

\* A byte more, in the mirror: GetCRC takes its highest bit first after reversing it.
LEMMA DivideInMirrors ==
    ASSUME NEW r \in Registers, NEW byte \in Bytes
    PROVE  /\ DivideIn(r, byte) \in Registers
           /\ LowDivided(Xor(Mirror(r), byte), ByteWidth) = Mirror(DivideIn(r, byte))
<1>. DEFINE x == Shift(ReverseBits(byte, ByteWidth), Width - ByteWidth)
<1>1. x \in Registers
  BY ReverseFits, ShiftIs, Widths
<1>2. Mirror(x) = byte
  BY MirrorByte
<1>3. DivideIn(r, byte) = DivideByByte(Xor(r, x))
  BY DEF DivideIn
<1>. HIDE DEF x
<1>4. Xor(r, x) \in Registers /\ Mirror(Xor(r, x)) = Xor(Mirror(r), byte)
  BY <1>1, <1>2, XorFits, MirrorXor
<1>5. DivideByByte(Xor(r, x)) \in Registers
  BY <1>4, DividedIs, Widths
<1>. QED
  BY <1>3, <1>4, <1>5, LowDividedMirrors

\* The remainder after n bytes, and that of the usual CRC.
Remainder(bytes, n) ==
    Rounds(Bits, [k \in 1 .. Len(bytes) |-> [r \in Registers |-> DivideIn(r, bytes[k])]], n)
LowRemainder(bytes, n) ==
    Rounds(Bits,
           [k \in 1 .. Len(bytes) |->
               [r \in Registers |-> LowDivided(Xor(r, bytes[k]), ByteWidth)]],
           n)

\* What GetCRC has after each byte of a message.
LEMMA DivisionsAre ==
    ASSUME NEW bytes \in Seq(Bytes)
    PROVE  /\ Remainder(bytes, 0) = Bits
           /\ \A n \in 0 .. Len(bytes) : Remainder(bytes, n) \in Registers
           /\ \A n \in 1 .. Len(bytes) :
                  Remainder(bytes, n) = DivideIn(Remainder(bytes, n - 1), bytes[n])
           /\ GetCRC(bytes) = Xor(Mirror(Remainder(bytes, Len(bytes))), Bits)
<1>. DEFINE N == Len(bytes)
            step == [k \in 1 .. N |-> [r \in Registers |-> DivideIn(r, bytes[k])]]
<1>1. N \in Nat /\ \A k \in 1 .. N : bytes[k] \in Bytes
  OBVIOUS
<1>2. \A k \in 1 .. N, r \in Registers : step[k][r] = DivideIn(r, bytes[k])
  OBVIOUS
<1>3. Steps(step, Registers, N)
  <2>1. \A k \in 1 .. N, r \in Registers : DivideIn(r, bytes[k]) \in Registers
    BY <1>1, DivideInMirrors
  <2>. QED
    BY <2>1 DEF Steps
<1>4. \A n : Remainder(bytes, n) = Rounds(Bits, step, n)
  BY DEF Remainder
<1>5. GetCRC(bytes) = Xor(ReverseBits(Rounds(Bits, step, N), Width), Bits)
  BY DEF GetCRC, INITIAL_REMAINDER, FINAL_XOR_VALUE
<1>. HIDE DEF N, step
<1>6. /\ Rounds(Bits, step, 0) = Bits
      /\ \A n \in 0 .. N : Rounds(Bits, step, n) \in Registers
      /\ \A n \in 1 .. N : Rounds(Bits, step, n) = step[n][Rounds(Bits, step, n - 1)]
  <2>1. RoundByRound(Bits, step, Registers, N)
    BY <1>1, <1>3, RoundsAre, RegistersAre
  <2>. QED
    BY <2>1 DEF RoundByRound
<1>7. /\ Remainder(bytes, 0) = Bits
      /\ \A n \in 0 .. N : Remainder(bytes, n) \in Registers
      /\ \A n \in 1 .. N : Remainder(bytes, n) = DivideIn(Remainder(bytes, n - 1), bytes[n])
  <2>1. \A n \in 1 .. N : n - 1 \in 0 .. N
    BY <1>1
  <2>. QED
    BY <1>2, <1>4, <1>6, <2>1
<1>8. ASSUME NEW r \in Registers
      PROVE  ReverseBits(r, Width) = Mirror(r)
  <2>1. Width \in 0 .. Width /\ r \in SUBSET (0 .. Width - 1)
    BY Widths DEF Registers, Bits
  <2>2. /\ ReverseBits(r, Width) \in Registers
        /\ \A b \in Bits : b \in ReverseBits(r, Width) <=> Width - 1 - b \in r \/ b - Width \in r
    BY <2>1, ReverseBitsIs
  <2>3. \A b \in Bits : b - Width \notin r
    BY <2>1, Widths DEF Bits
  <2>. QED
    BY <2>2, <2>3, MirrorIs, SameBits
<1>9. N \in 0 .. N
  BY <1>1
<1>10. GetCRC(bytes) = Xor(Mirror(Remainder(bytes, N)), Bits)
  BY <1>4, <1>5, <1>6, <1>8, <1>9
<1>. QED
  BY <1>7, <1>10 DEF N

\* What the usual division has after each.
LEMMA LowDivisionsAre ==
    ASSUME NEW bytes \in Seq(Bytes)
    PROVE  /\ LowRemainder(bytes, 0) = Bits
           /\ \A n \in 0 .. Len(bytes) : LowRemainder(bytes, n) \in Registers
           /\ \A n \in 1 .. Len(bytes) :
                  LowRemainder(bytes, n)
                      = LowDivided(Xor(LowRemainder(bytes, n - 1), bytes[n]), ByteWidth)
           /\ LowestFirst(bytes) = Xor(LowRemainder(bytes, Len(bytes)), Bits)
<1>. DEFINE N == Len(bytes)
            step == [k \in 1 .. N |->
                        [r \in Registers |-> LowDivided(Xor(r, bytes[k]), ByteWidth)]]
<1>1. N \in Nat /\ \A k \in 1 .. N : bytes[k] \in Registers
  BY BytesFit
<1>2. \A k \in 1 .. N, r \in Registers : step[k][r] = LowDivided(Xor(r, bytes[k]), ByteWidth)
  OBVIOUS
<1>3. Steps(step, Registers, N)
  <2>1. \A k \in 1 .. N, r \in Registers : LowDivided(Xor(r, bytes[k]), ByteWidth) \in Registers
    BY <1>1, XorFits, LowDividedIs, Widths
  <2>. QED
    BY <2>1 DEF Steps
<1>4. \A n : LowRemainder(bytes, n) = Rounds(Bits, step, n)
  BY DEF LowRemainder
<1>5. LowestFirst(bytes) = Xor(Rounds(Bits, step, N), Bits)
  BY DEF LowestFirst, LowDivided, LowestOuts
<1>. HIDE DEF N, step
<1>6. /\ Rounds(Bits, step, 0) = Bits
      /\ \A n \in 0 .. N : Rounds(Bits, step, n) \in Registers
      /\ \A n \in 1 .. N : Rounds(Bits, step, n) = step[n][Rounds(Bits, step, n - 1)]
  <2>1. RoundByRound(Bits, step, Registers, N)
    BY <1>1, <1>3, RoundsAre, RegistersAre
  <2>. QED
    BY <2>1 DEF RoundByRound
<1>7. /\ LowRemainder(bytes, 0) = Bits
      /\ \A n \in 0 .. N : LowRemainder(bytes, n) \in Registers
      /\ \A n \in 1 .. N : LowRemainder(bytes, n)
                               = LowDivided(Xor(LowRemainder(bytes, n - 1), bytes[n]), ByteWidth)
  <2>1. \A n \in 1 .. N : n - 1 \in 0 .. N
    BY <1>1
  <2>. QED
    BY <1>2, <1>4, <1>6, <2>1
<1>8. LowestFirst(bytes) = Xor(LowRemainder(bytes, N), Bits)
  BY <1>4, <1>5
<1>. QED
  BY <1>7, <1>8 DEF N

\* GetCRC is the usual CRC of every message.
LEMMA GetCRCIsUsual ==
    ASSUME NEW bytes \in Seq(Bytes)
    PROVE  GetCRC(bytes) = LowestFirst(bytes)
<1>. DEFINE N == Len(bytes)
            T == {n \in 0 .. N : LowRemainder(bytes, n) = Mirror(Remainder(bytes, n))}
<1>1. N \in Nat /\ \A k \in 1 .. N : bytes[k] \in Bytes
  OBVIOUS
<1>2. /\ Remainder(bytes, 0) = Bits
      /\ \A n \in 0 .. N : Remainder(bytes, n) \in Registers
      /\ \A n \in 1 .. N :
             Remainder(bytes, n) = DivideIn(Remainder(bytes, n - 1), bytes[n])
      /\ GetCRC(bytes) = Xor(Mirror(Remainder(bytes, N)), Bits)
  BY DivisionsAre
<1>3. /\ LowRemainder(bytes, 0) = Bits
      /\ \A n \in 1 .. N :
             LowRemainder(bytes, n)
                 = LowDivided(Xor(LowRemainder(bytes, n - 1), bytes[n]), ByteWidth)
      /\ LowestFirst(bytes) = Xor(LowRemainder(bytes, N), Bits)
  BY LowDivisionsAre
<1>. HIDE DEF N
<1>4. 0 \in T
  BY <1>1, <1>2, <1>3, MirrorBits
<1>5. ASSUME NEW n \in 0 .. N - 1, n \in T
      PROVE  n + 1 \in T
  <2>1. n \in 0 .. N /\ n + 1 \in 1 .. N /\ (n + 1) - 1 = n /\ n + 1 \in 0 .. N
    BY <1>1
  <2>2. LowRemainder(bytes, n + 1)
            = LowDivided(Xor(LowRemainder(bytes, n), bytes[n + 1]), ByteWidth)
    BY <1>3, <2>1
  <2>3. Remainder(bytes, n + 1) = DivideIn(Remainder(bytes, n), bytes[n + 1])
    BY <1>2, <2>1
  <2>4. LowDivided(Xor(Mirror(Remainder(bytes, n)), bytes[n + 1]), ByteWidth)
            = Mirror(DivideIn(Remainder(bytes, n), bytes[n + 1]))
    BY <1>1, <1>2, <2>1, DivideInMirrors
  <2>. QED
    BY <1>5, <2>1, <2>2, <2>3, <2>4
<1>6. \A n \in 0 .. N : n \in T
  <2>. HIDE DEF T
  <2>. QED
    BY <1>1, <1>4, <1>5, Induction
<1>7. LowRemainder(bytes, N) = Mirror(Remainder(bytes, N))
  BY <1>1, <1>6
<1>. QED
  BY <1>2, <1>3, <1>7

------------------------------------------------------------------------------
(* Bursts: what a burst leaves cannot be shifted away before it has ended, as no division *)
(* step makes zero of anything else.                                                      *)

\* Exclusive or goes through the usual division, and nothing but zero is divided to zero.
LEMMA LowestOutLinear ==
    ASSUME NEW v \in Registers, NEW w \in Registers
    PROVE  LowestOut(Xor(v, w)) = Xor(LowestOut(v), LowestOut(w))
<1>1. Mirror(v) \in Registers /\ Mirror(w) \in Registers /\ Xor(v, w) \in Registers
  BY MirrorIs, XorFits
<1>2. \A x \in Registers : LowestOut(x) = Mirror(DivideByBit(Mirror(x)))
  <2>. TAKE x \in Registers
  <2>1. Mirror(x) \in Registers /\ Mirror(Mirror(x)) = x
    BY MirrorIs, MirrorXor
  <2>. QED
    BY <2>1, LowestOutIs
<1>3. Mirror(Xor(v, w)) = Xor(Mirror(v), Mirror(w))
  BY MirrorXor
<1>4. /\ DivideByBit(Mirror(v)) \in Registers /\ DivideByBit(Mirror(w)) \in Registers
      /\ DivideByBit(Xor(Mirror(v), Mirror(w)))
             = Xor(DivideByBit(Mirror(v)), DivideByBit(Mirror(w)))
  BY <1>1, DivideByBitLinear
<1>5. Mirror(Xor(DivideByBit(Mirror(v)), DivideByBit(Mirror(w))))
          = Xor(Mirror(DivideByBit(Mirror(v))), Mirror(DivideByBit(Mirror(w))))
  BY <1>4, MirrorXor
<1>. QED
  BY <1>1, <1>2, <1>3, <1>4, <1>5

\* The polynomial has its lowest bit, so that a step which drops a one adds a one at the top.
LEMMA LowestOutNonzero ==
    ASSUME NEW r \in Registers, r # {}
    PROVE  LowestOut(r) # {}
<1>1. Shift(r, -1) \in Registers /\ \A b \in Bits : b \in Shift(r, -1) <=> b + 1 \in r
  BY DownIs
<1>2. CASE 0 \in r
  <2>. DEFINE p == {Width - 1 - b : b \in Polynomial}
  <2>1. Width - 1 \in p
    <3>1. 0 \in Polynomial /\ Width - 1 = Width - 1 - 0
      BY CRCAssumption, Widths
    <3>. QED
      BY <3>1
  <2>2. Width - 1 \notin Shift(r, -1)
    <3>1. Width - 1 \in Bits /\ (Width - 1) + 1 \notin Bits
      BY Widths DEF Bits
    <3>2. (Width - 1) + 1 \notin r
      BY <3>1 DEF Registers
    <3>. QED
      BY <1>1, <3>1, <3>2
  <2>3. LowestOut(r) = Xor(Shift(r, -1), p)
    BY <1>2 DEF LowestOut
  <2>. HIDE DEF p
  <2>. QED
    BY <2>1, <2>2, <2>3, XorIs
<1>3. CASE 0 \notin r
  <2>1. PICK b \in r : TRUE
    OBVIOUS
  <2>2. b - 1 \in Bits /\ (b - 1) + 1 = b
    BY <1>3, Widths DEF Registers, Bits
  <2>3. b - 1 \in Shift(r, -1)
    BY <1>1, <2>2
  <2>4. LowestOut(r) = Shift(r, -1)
    BY <1>3 DEF LowestOut
  <2>. QED
    BY <2>3, <2>4
<1>. QED
  BY <1>2, <1>3

\* Bits of a message that are not further apart than the checksum is wide.
IsBurst(burst, first) ==
    /\ burst \in SUBSET Nat /\ first \in burst
    /\ \A j \in burst : first <= j /\ j < first + Width

\* Of the bits from k on those of the bytes taken in so far, the m first bits, and the rest.
Taken(burst, k, m) == {j - k : j \in {c \in burst : c < m}}
Rest(burst, k, m)  == {j - k : j \in {c \in burst : ~ (c < m)}}

\* What dividing a message of zeros with a burst in it has left at bit k: until the burst
\* only what was taken in of it; then never zero together with the rest of it, so that no rest
\* can bring it back to zero.
LeftOf(burst, first, s, k, m) ==
    /\ s \in Registers
    /\ IF k < first THEN s = Taken(burst, k, m) ELSE Xor(s, Rest(burst, k, m)) # {}

\* The bits of the two parts of a burst.
LEMMA PartsAre ==
    ASSUME NEW burst \in SUBSET Nat, NEW k \in Nat, NEW m \in Nat
    PROVE  /\ \A b \in Int : b \in Taken(burst, k, m) <=> b + k \in burst /\ b + k < m
           /\ \A b \in Int : b \in Rest(burst, k, m) <=> b + k \in burst /\ ~ (b + k < m)
           /\ Taken(burst, k, m) \subseteq Int /\ Rest(burst, k, m) \subseteq Int
<1>1. \A b, j \in Int : b = j - k <=> j = b + k
  OBVIOUS
<1>2. ASSUME NEW b \in Int
      PROVE  b \in Taken(burst, k, m) <=> b + k \in burst /\ b + k < m
  <2>1. ASSUME b + k \in burst, b + k < m
        PROVE  b \in Taken(burst, k, m)
    <3>1. b = (b + k) - k
      OBVIOUS
    <3>. QED
      BY <2>1, <3>1 DEF Taken
  <2>2. ASSUME b \in Taken(burst, k, m)
        PROVE  b + k \in burst /\ b + k < m
    <3>1. PICK j \in burst : j < m /\ b = j - k
      BY <2>2 DEF Taken
    <3>2. j = b + k
      BY <3>1
    <3>. QED
      BY <3>1, <3>2
  <2>. QED
    BY <2>1, <2>2
<1>3. ASSUME NEW b \in Int
      PROVE  b \in Rest(burst, k, m) <=> b + k \in burst /\ ~ (b + k < m)
  <2>1. ASSUME b + k \in burst, ~ (b + k < m)
        PROVE  b \in Rest(burst, k, m)
    <3>1. b = (b + k) - k
      OBVIOUS
    <3>. QED
      BY <2>1, <3>1 DEF Rest
  <2>2. ASSUME b \in Rest(burst, k, m)
        PROVE  b + k \in burst /\ ~ (b + k < m)
    <3>1. PICK j \in burst : ~ (j < m) /\ b = j - k
      BY <2>2 DEF Rest
    <3>2. j = b + k
      BY <3>1
    <3>. QED
      BY <3>1, <3>2
  <2>. QED
    BY <2>1, <2>2
<1>4. Taken(burst, k, m) \subseteq Int /\ Rest(burst, k, m) \subseteq Int
  BY DEF Taken, Rest
<1>. QED
  BY <1>2, <1>3, <1>4

\* A bit of the division keeps it,
LEMMA BitKeepsLeft ==
    ASSUME NEW burst, NEW first, IsBurst(burst, first), NEW s, NEW k \in Nat, NEW m \in Nat,
           k < m, LeftOf(burst, first, s, k, m)
    PROVE  LeftOf(burst, first, LowestOut(s), k + 1, m)
<1>1. /\ burst \in SUBSET Nat /\ first \in burst /\ first \in Nat /\ k + 1 \in Nat
      /\ \A j \in burst : j \in Nat /\ first <= j /\ j < first + Width
  BY DEF IsBurst
<1>2. s \in Registers /\ LowestOut(s) \in Registers
  BY LowestOutFits DEF LeftOf
<1>3. CASE k < first
  <2>1. s = Taken(burst, k, m)
    BY <1>3 DEF LeftOf
  <2>2. 0 \notin s
    <3>1. 0 + k \notin burst
      BY <1>1, <1>3
    <3>. QED
      BY <1>1, <2>1, <3>1, PartsAre
  <2>3. LowestOut(s) = Shift(s, -1)
    BY <2>2 DEF LowestOut
  <2>4. LowestOut(s) = Taken(burst, k + 1, m)
    <3>1. ASSUME NEW b \in Bits
          PROVE  b \in Shift(s, -1) <=> b \in Taken(burst, k + 1, m)
      <4>1. b \in Int /\ b + 1 \in Int /\ (b + 1) + k = b + (k + 1)
        BY Widths DEF Bits
      <4>2. b \in Shift(s, -1) <=> b + 1 \in s
        BY <1>2, DownIs
      <4>3. b + 1 \in s <=> (b + 1) + k \in burst /\ (b + 1) + k < m
        BY <1>1, <2>1, <4>1, PartsAre
      <4>4. b \in Taken(burst, k + 1, m) <=> b + (k + 1) \in burst /\ b + (k + 1) < m
        BY <1>1, <4>1, PartsAre
      <4>. QED
        BY <4>1, <4>2, <4>3, <4>4
    <3>2. Taken(burst, k + 1, m) \in Registers
      <4>1. ASSUME NEW b \in Taken(burst, k + 1, m)
            PROVE  b \in Bits
        <5>1. b \in Int /\ b + (k + 1) \in burst /\ b + (k + 1) < m
          BY <1>1, PartsAre
        <5>2. b + 1 \in Int /\ (b + 1) + k = b + (k + 1)
          BY <5>1
        <5>3. b + 1 \in s
          BY <1>1, <2>1, <5>1, <5>2, PartsAre
        <5>4. b + 1 \in Bits /\ b >= 0
          BY <1>1, <1>2, <1>3, <5>1, <5>3 DEF Registers
        <5>. QED
          BY <5>1, <5>4, Widths DEF Bits
      <4>. QED
        BY <4>1 DEF Registers
    <3>. QED
      BY <1>2, <2>3, <3>1, <3>2, SameBits
  <2>5. CASE k + 1 < first
    BY <1>2, <2>4, <2>5 DEF LeftOf
  <2>6. CASE ~ (k + 1 < first)
    <3>1. k + 1 = first
      BY <1>1, <1>3, <2>6
    <3>2. 0 + (k + 1) \in burst /\ 0 \in Int
      BY <1>1, <3>1
    <3>3. (0 \in Taken(burst, k + 1, m)) # (0 \in Rest(burst, k + 1, m))
      BY <1>1, <3>2, PartsAre
    <3>4. 0 \in Xor(LowestOut(s), Rest(burst, k + 1, m))
      BY <2>4, <3>3, XorIs
    <3>. QED
      BY <1>2, <2>6, <3>4 DEF LeftOf
  <2>. QED
    BY <2>5, <2>6
<1>4. CASE ~ (k < first)
  <2>. DEFINE w == Rest(burst, k, m)
  <2>1. Xor(s, w) # {}
    BY <1>4 DEF LeftOf
  <2>2. w \in Registers /\ 0 \notin w
    <3>1. ASSUME NEW b \in w
          PROVE  b \in Bits /\ b # 0
      <4>1. b \in Int /\ b + k \in burst /\ ~ (b + k < m)
        BY <1>1, PartsAre
      <4>. QED
        BY <1>1, <1>4, <4>1, Widths DEF Bits
    <3>. QED
      BY <3>1 DEF Registers
  <2>3. LowestOut(w) = Rest(burst, k + 1, m)
    <3>1. LowestOut(w) = Shift(w, -1) /\ Shift(w, -1) \in Registers
      BY <2>2, DownIs DEF LowestOut
    <3>2. ASSUME NEW b \in Bits
          PROVE  b \in Shift(w, -1) <=> b \in Rest(burst, k + 1, m)
      <4>1. b \in Int /\ b + 1 \in Int /\ (b + 1) + k = b + (k + 1)
        BY Widths DEF Bits
      <4>2. b \in Shift(w, -1) <=> b + 1 \in w
        BY <2>2, DownIs
      <4>3. b + 1 \in w <=> (b + 1) + k \in burst /\ ~ ((b + 1) + k < m)
        BY <1>1, <4>1, PartsAre
      <4>4. b \in Rest(burst, k + 1, m) <=> b + (k + 1) \in burst /\ ~ (b + (k + 1) < m)
        BY <1>1, <4>1, PartsAre
      <4>. QED
        BY <4>1, <4>2, <4>3, <4>4
    <3>3. Rest(burst, k + 1, m) \in Registers
      <4>1. ASSUME NEW b \in Rest(burst, k + 1, m)
            PROVE  b \in Bits
        <5>1. b \in Int /\ b + (k + 1) \in burst /\ ~ (b + (k + 1) < m)
          BY <1>1, PartsAre
        <5>. QED
          BY <1>1, <1>4, <5>1, Widths DEF Bits
      <4>. QED
        BY <4>1 DEF Registers
    <3>. QED
      BY <3>1, <3>2, <3>3, SameBits
  <2>. HIDE DEF w
  <2>4. LowestOut(Xor(s, w)) # {}
    <3>1. Xor(s, w) \in Registers
      BY <1>2, <2>2, XorFits
    <3>. QED
      BY <2>1, <3>1, LowestOutNonzero
  <2>5. Xor(LowestOut(s), Rest(burst, k + 1, m)) # {}
    BY <1>2, <2>2, <2>3, <2>4, LowestOutLinear
  <2>6. ~ (k + 1 < first)
    BY <1>1, <1>4
  <2>. QED
    BY <1>2, <2>5, <2>6 DEF LeftOf
<1>. QED
  BY <1>3, <1>4

\* and so does taking in another byte, with those of its bits flipped that the burst has in it.
LEMMA ByteKeepsLeft ==
    ASSUME NEW burst, NEW first, IsBurst(burst, first), NEW s, NEW m \in Nat,
           LeftOf(burst, first, s, m, m)
    PROVE  LeftOf(burst, first, Xor(s, {b \in 0 .. ByteWidth - 1 : m + b \in burst}),
                  m, m + ByteWidth)
<1>. DEFINE e == {b \in 0 .. ByteWidth - 1 : m + b \in burst}
            n == m + ByteWidth
<1>1. /\ burst \in SUBSET Nat /\ first \in burst /\ first \in Nat
      /\ \A j \in burst : j \in Nat /\ first <= j /\ j < first + Width
  BY DEF IsBurst
<1>2. n \in Nat /\ m < n /\ m \in Int
  BY Widths
<1>3. s \in Registers /\ e \in Registers
  BY Widths DEF LeftOf, Registers, Bits
<1>4. Xor(s, e) \in Registers
  BY <1>3, XorFits
<1>5. \A b \in Int : b \in e <=> b + m \in burst /\ ~ (b + m < m) /\ b + m < n
  <2>. TAKE b \in Int
  <2>1. m + b = b + m /\ (b \in 0 .. ByteWidth - 1 <=> ~ (b + m < m) /\ b + m < n)
    BY <1>2, Widths
  <2>. QED
    BY <2>1
<1>6. e \subseteq Int
  OBVIOUS
<1>. HIDE DEF e
<1>7. CASE m < first
  <2>1. s = Taken(burst, m, m)
    BY <1>7 DEF LeftOf
  <2>2. \A b \in Int : b \notin s
    <3>. TAKE b \in Int
    <3>1. b \in s <=> b + m \in burst /\ b + m < m
      BY <1>1, <2>1, PartsAre
    <3>. QED
      BY <1>1, <1>7, <3>1
  <2>3. s = {}
    BY <1>1, <2>1, <2>2, PartsAre
  <2>4. \A b \in Int : b \in e <=> b \in Taken(burst, m, n)
    <3>. TAKE b \in Int
    <3>1. b \in Taken(burst, m, n) <=> b + m \in burst /\ b + m < n
      BY <1>1, <1>2, PartsAre
    <3>2. b + m \in burst => ~ (b + m < m)
      BY <1>1, <1>7
    <3>. QED
      BY <1>5, <3>1, <3>2
  <2>5. e = Taken(burst, m, n)
    <3>1. Taken(burst, m, n) \subseteq Int
      BY <1>1, <1>2, PartsAre
    <3>. QED
      BY <1>6, <2>4, <3>1
  <2>6. Xor(s, e) = Taken(burst, m, n)
    BY <2>3, <2>5 DEF Xor
  <2>. QED
    BY <1>4, <1>7, <2>6 DEF LeftOf, e
<1>8. CASE ~ (m < first)
  <2>1. Xor(s, Rest(burst, m, m)) # {}
    BY <1>8 DEF LeftOf
  <2>2. \A b \in Int : (b \in Rest(burst, m, m)) <=> ((b \in e) # (b \in Rest(burst, m, n)))
    <3>. TAKE b \in Int
    <3>1. b \in Rest(burst, m, m) <=> b + m \in burst /\ ~ (b + m < m)
      BY <1>1, PartsAre
    <3>2. b \in Rest(burst, m, n) <=> b + m \in burst /\ ~ (b + m < n)
      BY <1>1, <1>2, PartsAre
    <3>3. ~ (b + m < n) => ~ (b + m < m)
      BY <1>2
    <3>. QED
      BY <1>5, <3>1, <3>2, <3>3
  <2>3. (\A b \in s : b \in Int) /\ \A b \in Rest(burst, m, m) : b \in Int
    <3>1. \A b \in s : b \in Int
      BY <1>3, Widths DEF Registers, Bits
    <3>2. Rest(burst, m, m) \subseteq Int
      BY <1>1, PartsAre
    <3>. QED
      BY <3>1, <3>2
  <2>4. PICK b : b \in Xor(s, Rest(burst, m, m))
    BY <2>1
  <2>5. b \in Int /\ ((b \in s) # (b \in Rest(burst, m, m)))
    <3>1. (b \in s) # (b \in Rest(burst, m, m))
      BY <2>4, XorIs
    <3>. QED
      BY <2>3, <3>1
  <2>6. b \in Xor(Xor(s, e), Rest(burst, m, n))
    <3>1. b \in Xor(s, e) <=> ((b \in s) # (b \in e))
      BY XorIs
    <3>2. b \in Xor(Xor(s, e), Rest(burst, m, n))
              <=> ((b \in Xor(s, e)) # (b \in Rest(burst, m, n)))
      BY XorIs
    <3>. QED
      BY <2>2, <2>5, <3>1, <3>2
  <2>. QED
    BY <1>4, <1>8, <2>6 DEF LeftOf, e
<1>. QED
  BY <1>7, <1>8

\* The same of a byte taken in and divided by.
LEMMA DividingKeepsLeft ==
    ASSUME NEW burst, NEW first, IsBurst(burst, first), NEW s, NEW m \in Nat,
           LeftOf(burst, first, s, m, m)
    PROVE  LeftOf(burst, first,
                  LowDivided(Xor(s, {b \in 0 .. ByteWidth - 1 : m + b \in burst}), ByteWidth),
                  m + ByteWidth, m + ByteWidth)
<1>. DEFINE x == Xor(s, {b \in 0 .. ByteWidth - 1 : m + b \in burst})
            n == m + ByteWidth
            T == {b \in 0 .. ByteWidth : LeftOf(burst, first, LowDivided(x, b), m + b, n)}
<1>1. LeftOf(burst, first, x, m, n)
  BY ByteKeepsLeft
<1>. HIDE DEF x
<1>2. x \in Registers /\ n \in Nat
  BY <1>1, Widths DEF LeftOf
<1>3. 0 \in T
  <2>1. LowDivided(x, 0) = x /\ m + 0 = m
    BY <1>2, LowDividedIs
  <2>. QED
    BY <1>1, <2>1, Widths
<1>4. ASSUME NEW b \in 0 .. ByteWidth - 1, b \in T
      PROVE  b + 1 \in T
  <2>1. /\ b + 1 \in 1 .. ByteWidth /\ (b + 1) - 1 = b /\ b + 1 \in 0 .. ByteWidth
        /\ m + b \in Nat /\ m + b < n /\ (m + b) + 1 = m + (b + 1)
    BY Widths
  <2>2. LowDivided(x, b + 1) = LowestOut(LowDivided(x, b))
    BY <1>2, <2>1, LowDividedIs
  <2>3. LeftOf(burst, first, LowDivided(x, b), m + b, n)
    BY <1>4
  <2>. HIDE DEF n
  <2>4. LeftOf(burst, first, LowestOut(LowDivided(x, b)), (m + b) + 1, n)
    BY <1>2, <2>1, <2>3, BitKeepsLeft
  <2>. QED
    BY <2>1, <2>2, <2>4
<1>5. ByteWidth \in T
  <2>1. \A b \in 0 .. ByteWidth : b \in T
    <3>. HIDE DEF T
    <3>. QED
      BY <1>3, <1>4, Induction, Widths
  <2>. QED
    BY <2>1, Widths
<1>. QED
  BY <1>5 DEF x

\* The usual division of a byte goes through exclusive or.
LEMMA LowDividedLinear ==
    ASSUME NEW v \in Registers, NEW w \in Registers
    PROVE  LowDivided(Xor(v, w), ByteWidth)
               = Xor(LowDivided(v, ByteWidth), LowDivided(w, ByteWidth))
<1>1. Mirror(v) \in Registers /\ Mirror(w) \in Registers /\ Xor(v, w) \in Registers
  BY MirrorIs, XorFits
<1>2. \A x \in Registers : LowDivided(x, ByteWidth) = Mirror(DivideByByte(Mirror(x)))
  <2>. TAKE x \in Registers
  <2>1. Mirror(x) \in Registers /\ Mirror(Mirror(x)) = x
    BY MirrorIs, MirrorXor
  <2>. QED
    BY <2>1, LowDividedMirrors
<1>3. Mirror(Xor(v, w)) = Xor(Mirror(v), Mirror(w))
  BY MirrorXor
<1>4. /\ DivideByByte(Mirror(v)) \in Registers /\ DivideByByte(Mirror(w)) \in Registers
      /\ DivideByByte(Xor(Mirror(v), Mirror(w)))
             = Xor(DivideByByte(Mirror(v)), DivideByByte(Mirror(w)))
  BY <1>1, DividedIs, DivideByByteLinear, Widths
<1>5. Mirror(Xor(DivideByByte(Mirror(v)), DivideByByte(Mirror(w))))
          = Xor(Mirror(DivideByByte(Mirror(v))), Mirror(DivideByByte(Mirror(w))))
  BY <1>4, MirrorXor
<1>. QED
  BY <1>1, <1>2, <1>3, <1>4, <1>5

\* The bursts DetectsBursts speaks of.
LEMMA BurstsAre ==
    ASSUME NEW n \in Nat, NEW burst \in Bursts(n)
    PROVE  \E first \in 0 .. n - 1 : IsBurst(burst, first)
<1>1. \E first \in 0 .. n - 1 :
          \E w \in SUBSET Bits : burst = {first + b : b \in w \cup {0}}
  BY DEF Bursts
<1>2. PICK first \in 0 .. n - 1, w \in SUBSET Bits : burst = {first + b : b \in w \cup {0}}
  BY <1>1
<1>3. first \in Nat /\ \A b \in w \cup {0} : b \in Nat /\ b < Width
  BY Widths DEF Bits
<1>4. first \in burst
  <2>1. first = first + 0
    BY <1>3
  <2>. QED
    BY <1>2, <2>1
<1>5. ASSUME NEW j \in burst
      PROVE  j \in Nat /\ first <= j /\ j < first + Width
  <2>1. PICK b \in w \cup {0} : j = first + b
    BY <1>2
  <2>. QED
    BY <1>3, <2>1, Widths
<1>. QED
  BY <1>4, <1>5 DEF IsBurst

\* A burst in a message of any length changes its CRC.
LEMMA BurstChangesCRC ==
    ASSUME NEW bytes \in Seq(Bytes), NEW burst \in Bursts(Len(bytes) * ByteWidth),
           burst \subseteq 0 .. Len(bytes) * ByteWidth - 1
    PROVE  /\ Flipped(bytes, burst) \in Seq(Bytes)
           /\ LowestFirst(Flipped(bytes, burst)) # LowestFirst(bytes)
<1>. DEFINE N == Len(bytes)
            e(k) == {b \in 0 .. ByteWidth - 1 : (k - 1) * ByteWidth + b \in burst}
            flipped == Flipped(bytes, burst)
            d(k) == Xor(LowRemainder(bytes, k), LowRemainder(flipped, k))
<1>1. N \in Nat /\ \A k \in 1 .. N : bytes[k] \in Bytes /\ bytes[k] \in Registers
  BY BytesFit
<1>2. \A k \in 1 .. N : e(k) \in Bytes /\ e(k) \in Registers
  BY BytesFit DEF Bytes
<1>3. /\ flipped \in Seq(Bytes) /\ Len(flipped) = N
      /\ \A k \in 1 .. N : flipped[k] = Xor(bytes[k], e(k))
  <2>1. flipped = [k \in 1 .. N |-> Xor(bytes[k], e(k))]
    BY DEF Flipped
  <2>2. \A k \in 1 .. N : Xor(bytes[k], e(k)) \in Bytes
    BY <1>1, <1>2 DEF Bytes, Xor
  <2>. HIDE DEF N, e, flipped
  <2>. QED
    BY <1>1, <2>1, <2>2
<1>4. PICK first \in 0 .. N * ByteWidth - 1 : IsBurst(burst, first)
  <2>1. N * ByteWidth \in Nat
    BY <1>1, Widths
  <2>. QED
    BY <2>1, BurstsAre
<1>5. IsBurst(burst, first) /\ first < N * ByteWidth /\ first \in Nat
  BY <1>1, <1>4, Widths
<1>6. /\ LowRemainder(bytes, 0) = Bits /\ LowRemainder(flipped, 0) = Bits
      /\ \A k \in 0 .. N : LowRemainder(bytes, k) \in Registers /\ LowRemainder(flipped, k) \in Registers
      /\ \A k \in 1 .. N :
             /\ LowRemainder(bytes, k)
                    = LowDivided(Xor(LowRemainder(bytes, k - 1), bytes[k]), ByteWidth)
             /\ LowRemainder(flipped, k)
                    = LowDivided(Xor(LowRemainder(flipped, k - 1), flipped[k]), ByteWidth)
      /\ LowestFirst(bytes) = Xor(LowRemainder(bytes, N), Bits)
      /\ LowestFirst(flipped) = Xor(LowRemainder(flipped, N), Bits)
  <2>. HIDE DEF flipped
  <2>. QED
    BY <1>3, LowDivisionsAre
<1>. HIDE DEF N, e, flipped
<1>7. \A k \in 1 .. N : d(k) = LowDivided(Xor(d(k - 1), e(k)), ByteWidth)
  <2>. TAKE k \in 1 .. N
  <2>. DEFINE a == LowRemainder(bytes, k - 1)
              c == LowRemainder(flipped, k - 1)
              x == bytes[k]
              y == e(k)
  <2>1. a \in Registers /\ c \in Registers /\ x \in Registers /\ y \in Registers
    BY <1>1, <1>2, <1>6
  <2>2. d(k) = Xor(LowDivided(Xor(a, x), ByteWidth), LowDivided(Xor(c, Xor(x, y)), ByteWidth))
    BY <1>3, <1>6
  <2>3. d(k - 1) = Xor(a, c)
    OBVIOUS
  <2>. HIDE DEF a, c, x, y, d
  <2>4. Xor(a, x) \in Registers /\ Xor(c, Xor(x, y)) \in Registers
    BY <2>1, XorFits
  <2>5. d(k) = LowDivided(Xor(Xor(a, x), Xor(c, Xor(x, y))), ByteWidth)
    BY <2>2, <2>4, LowDividedLinear
  <2>6. Xor(Xor(a, x), Xor(c, Xor(x, y))) = Xor(Xor(a, c), y)
    BY DEF Xor
  <2>. QED
    BY <2>3, <2>5, <2>6 DEF y
<1>8. d(0) = {}
  BY <1>6 DEF Xor
<1>. HIDE DEF d
<1>. DEFINE T == {k \in 0 .. N : LeftOf(burst, first, d(k), k * ByteWidth, k * ByteWidth)}
<1>9. 0 \in T
  <2>1. burst \in SUBSET Nat /\ first \in burst /\ 0 * ByteWidth = 0 /\ 0 \in Nat
    BY <1>5, Widths DEF IsBurst
  <2>2. LeftOf(burst, first, {}, 0, 0)
    <3>1. CASE 0 < first
      <4>1. \A b \in Int : b \notin Taken(burst, 0, 0)
        <5>. TAKE b \in Int
        <5>1. b \in Taken(burst, 0, 0) <=> b + 0 \in burst /\ b + 0 < 0
          BY <2>1, PartsAre
        <5>. QED
          BY <2>1, <5>1
      <4>2. Taken(burst, 0, 0) = {}
        BY <2>1, <4>1, PartsAre
      <4>. QED
        BY <3>1, <4>2, RegistersAre DEF LeftOf
    <3>2. CASE ~ (0 < first)
      <4>1. 0 \in Rest(burst, 0, 0)
        <5>1. 0 + 0 \in burst /\ ~ (0 + 0 < 0) /\ 0 \in Int
          BY <1>5, <2>1, <3>2
        <5>. QED
          BY <2>1, <5>1, PartsAre
      <4>2. 0 \in Xor({}, Rest(burst, 0, 0))
        BY <4>1, XorIs
      <4>. QED
        BY <3>2, <4>2, RegistersAre DEF LeftOf
    <3>. QED
      BY <3>1, <3>2
  <2>3. LeftOf(burst, first, d(0), 0 * ByteWidth, 0 * ByteWidth)
    BY <1>8, <2>1, <2>2
  <2>4. 0 \in 0 .. N
    BY <1>1
  <2>. QED
    BY <2>3, <2>4
<1>10. ASSUME NEW k \in 0 .. N - 1, k \in T
       PROVE  k + 1 \in T
  <2>. DEFINE m == k * ByteWidth
  <2>1. /\ k + 1 \in 1 .. N /\ (k + 1) - 1 = k /\ k + 1 \in 0 .. N
        /\ m \in Nat /\ (k + 1) * ByteWidth = m + ByteWidth
    BY <1>1, Widths
  <2>2. e(k + 1) = {b \in 0 .. ByteWidth - 1 : m + b \in burst}
    BY <2>1 DEF e
  <2>3. LeftOf(burst, first, d(k), m, m)
    BY <1>10
  <2>. HIDE DEF m
  <2>4. LeftOf(burst, first, LowDivided(Xor(d(k), e(k + 1)), ByteWidth),
               m + ByteWidth, m + ByteWidth)
    BY <1>5, <2>1, <2>2, <2>3, DividingKeepsLeft
  <2>5. d(k + 1) = LowDivided(Xor(d(k), e(k + 1)), ByteWidth)
    BY <1>7, <2>1
  <2>. QED
    BY <2>1, <2>4, <2>5
<1>11. LeftOf(burst, first, d(N), N * ByteWidth, N * ByteWidth)
  <2>1. \A k \in 0 .. N : k \in T
    <3>. HIDE DEF T
    <3>. QED
      BY <1>1, <1>9, <1>10, Induction
  <2>. QED
    BY <1>1, <2>1
<1>12. d(N) # {}
  <2>. DEFINE m == N * ByteWidth
  <2>1. m \in Nat /\ burst \in SUBSET Nat /\ \A j \in burst : j < m
    <3>1. m \in Nat
      BY <1>1, Widths
    <3>2. burst \subseteq 0 .. m - 1
      BY DEF N
    <3>. HIDE DEF m
    <3>. QED
      BY <3>1, <3>2
  <2>2. Xor(d(N), Rest(burst, m, m)) # {}
    BY <1>5, <1>11, <2>1 DEF LeftOf
  <2>3. Rest(burst, m, m) = {}
    BY <2>1 DEF Rest
  <2>. QED
    BY <2>2, <2>3 DEF Xor
<1>13. LowRemainder(bytes, N) # LowRemainder(flipped, N)
  BY <1>12 DEF d, Xor
<1>14. LowestFirst(bytes) # LowestFirst(flipped)
  <2>1. \A x, y : Xor(x, Bits) = Xor(y, Bits) => x = y
    BY DEF Xor
  <2>. QED
    BY <1>6, <1>13, <2>1
<1>. QED
  BY <1>3, <1>14 DEF flipped

------------------------------------------------------------------------------
(* The table of the CRC and the threads that fill it: a thread that has filled it         *)
(* computes by a whole table, whoever fills it meanwhile.                                 *)

Entry(n) == DivideByByte(Shift(ByteOf(n), Width - ByteWidth))

\* The first n entries of a table are filled.
Filled(entries, n) == \A k \in Nat : k < n => entries[ByteOf(k)] = Entry(k)

\* What InitTable stores for a byte.
EntryOf(byte) == DivideByByte(Shift(byte, Width - ByteWidth))

\* Of an entry any thread finds all or nothing.
EntriesZeroOrRight ==
    \A t \in Threads : \A view \in Views(t) : \A byte \in Bytes :
        view[byte] = {} \/ view[byte] = EntryOf(byte)

\* A thread that has filled the table finds it full.
TableIsWhole ==
    \A t \in Threads : HasFilled(t) =>
        \A view \in Views(t) : \A byte \in Bytes : view[byte] = EntryOf(byte)

CRCTypes ==
    /\ table = [byte \in Bytes |-> table[byte]]
    /\ isTableInit \in BOOLEAN
    /\ at \in [Threads -> {"idle", "filling", "ready"}]
    /\ dividend \in [Threads -> Nat]

\* What a thread has filled stays filled, whatever others fill.
FilledOK ==
    /\ \A t \in Threads : Filled(table, dividend[t])
    /\ \A byte \in Bytes : table[byte] = {} \/ table[byte] = EntryOf(byte)

CRCInv == CRCTypes /\ FilledOK

\* Filling an entry again leaves it as it is, and all others.
LEMMA FillAgain ==
    ASSUME CRCTypes, NEW n \in Nat, table' = [table EXCEPT ![ByteOf(n)] = Entry(n)]
    PROVE  /\ table' = [byte \in Bytes |-> table'[byte]]
           /\ \A m : Filled(table, m) => Filled(table', m)
           /\ Filled(table, n) => Filled(table', n + 1)
           /\ \A byte \in Bytes : table'[byte] = table[byte] \/ table'[byte] = EntryOf(byte)
<1>1. ByteOf(n) \in Bytes /\ \A k \in Nat : ByteOf(k) \in Bytes
  BY DEF ByteOf, Bytes
<1>2. \A k \in Nat : ByteOf(k) = ByteOf(n) => Entry(k) = Entry(n)
  BY DEF Entry
<1>3. \A byte \in Bytes : table'[byte] = IF byte = ByteOf(n) THEN Entry(n) ELSE table[byte]
  <2>. HIDE DEF Entry, Bytes
  <2>. QED
    BY <1>1 DEF CRCTypes
<1>4. \A k \in Nat : table'[ByteOf(k)] = IF ByteOf(k) = ByteOf(n) THEN Entry(n)
                                         ELSE table[ByteOf(k)]
  BY <1>1, <1>3
<1>5. ASSUME NEW m, Filled(table, m)
      PROVE  Filled(table', m)
  BY <1>2, <1>4, <1>5 DEF Filled, Entry
<1>6. ASSUME Filled(table, n)
      PROVE  Filled(table', n + 1)
  <2>1. \A k \in Nat : k < n + 1 => k < n \/ k = n
    OBVIOUS
  <2>. QED
    BY <1>2, <1>4, <1>6, <2>1 DEF Filled, Entry
<1>7. table' = [byte \in Bytes |-> table'[byte]]
  <2>. HIDE DEF Entry, Bytes
  <2>. QED
    BY DEF CRCTypes
<1>8. \A byte \in Bytes : table'[byte] = table[byte] \/ table'[byte] = EntryOf(byte)
  BY <1>3 DEF Entry, EntryOf
<1>. QED
  BY <1>5, <1>6, <1>7, <1>8

\* Every step of a thread.
LEMMA CRCStep ==
    ASSUME CRCInv, NEW t \in Threads, Call(t) \/ Fill(t) \/ Flag(t) \/ Return(t)
    PROVE  CRCInv'
<1>. USE DEF CRCInv
<1>1. ASSUME Call(t) \/ Flag(t) \/ Return(t)
      PROVE  CRCInv'
  <2>1. /\ UNCHANGED <<table, dividend>>
        /\ isTableInit' \in BOOLEAN
        /\ at' \in [Threads -> {"idle", "filling", "ready"}]
    BY <1>1 DEF Call, Flag, Return, CRCTypes
  <2>. QED
    BY <2>1 DEF CRCTypes, FilledOK, Filled
<1>2. ASSUME Fill(t)
      PROVE  CRCInv'
  <2>. DEFINE n == dividend[t]
  <2>1. /\ n \in Nat
        /\ table' = [table EXCEPT ![ByteOf(n)] = Entry(n)]
        /\ dividend' = [dividend EXCEPT ![t] = n + 1]
        /\ UNCHANGED <<isTableInit, at>>
    BY <1>2 DEF Fill, CRCTypes, Entry
  <2>2. /\ table' = [byte \in Bytes |-> table'[byte]]
        /\ \A m : Filled(table, m) => Filled(table', m)
        /\ Filled(table, n) => Filled(table', n + 1)
        /\ \A byte \in Bytes : table'[byte] = table[byte] \/ table'[byte] = EntryOf(byte)
    <3>. HIDE DEF n
    <3>. QED
      BY <2>1, FillAgain
  <2>3. /\ dividend' \in [Threads -> Nat]
        /\ \A u \in Threads : dividend'[u] = IF u = t THEN n + 1 ELSE dividend[u]
    BY <2>1 DEF CRCTypes
  <2>4. CRCTypes'
    BY <2>1, <2>2, <2>3 DEF CRCTypes
  <2>5. \A u \in Threads : Filled(table', dividend'[u])
    BY <2>2, <2>3 DEF FilledOK
  <2>6. \A byte \in Bytes : table'[byte] = {} \/ table'[byte] = EntryOf(byte)
    BY <2>2 DEF FilledOK
  <2>7. FilledOK'
    BY <2>5, <2>6 DEF FilledOK, EntryOf
  <2>. QED
    BY <2>4, <2>7
<1>. HIDE DEF CRCInv
<1>. QED
  BY <1>1, <1>2

\* InitTable of CRC.h with any threads in it: the inductive invariant.
THEOREM TableKeepsInvariant == CRCSpec => []CRCInv
<1>1. CRCInit => CRCInv
  <2>. SUFFICES ASSUME CRCInit PROVE CRCTypes /\ FilledOK
    BY DEF CRCInv
  <2>1. CRCTypes
    BY DEF CRCInit, CRCTypes
  <2>2. /\ \A t \in Threads : dividend[t] = 0
        /\ \A byte \in Bytes : table[byte] = {}
    BY DEF CRCInit
  <2>. QED
    BY <2>1, <2>2 DEF FilledOK, Filled
<1>2. CRCInv /\ [CRCNext]_crcVars => CRCInv'
  <2>1. ASSUME CRCInv, UNCHANGED crcVars
        PROVE  CRCInv'
    BY <2>1 DEF crcVars, CRCInv, CRCTypes, FilledOK, Filled
  <2>. QED
    BY <2>1, CRCStep DEF CRCNext
<1>. QED
  BY <1>1, <1>2, PTL DEF CRCSpec

\* What a view is: own entries as they are stored, of the others any.
LEMMA ViewIs ==
    ASSUME NEW t \in Threads, NEW view \in Views(t), NEW byte \in Bytes
    PROVE  /\ view[byte] = table[byte] \/ view[byte] = {}
           /\ byte \in OwnEntries(t) => view[byte] = table[byte]
<1>1. PICK reached \in SUBSET Bytes :
         view = [b \in Bytes |-> IF b \in OwnEntries(t) \cup reached THEN table[b] ELSE {}]
  BY DEF Views
<1>. QED
  BY <1>1

\* However the stores of several threads are ordered and delayed, none ever computes by an
\* entry that is half written: it finds what InitTable stores there, or zero.
THEOREM NoTornEntry == CRCSpec => []EntriesZeroOrRight
<1>1. CRCInv => EntriesZeroOrRight
  BY ViewIs DEF CRCInv, FilledOK, EntriesZeroOrRight
<1>. QED
  BY <1>1, TableKeepsInvariant, PTL

\* What a thread that has filled the table finds in it: InitTable counts through every byte.
LEMMA ViewOfFiller ==
    ASSUME CRCInv, NEW t \in Threads, HasFilled(t), NEW view \in Views(t), NEW byte \in Bytes
    PROVE  view[byte] = EntryOf(byte)
<1>1. PICK n \in Nat : n < Entries /\ ByteOf(n) = byte
  BY EveryByteIsCounted
<1>2. dividend[t] \in Nat /\ dividend[t] = Entries
  BY DEF CRCInv, CRCTypes, HasFilled
<1>3. byte \in OwnEntries(t)
  <2>1. n \in 0 .. dividend[t] - 1
    BY <1>1, <1>2
  <2>. QED
    BY <1>1, <2>1 DEF OwnEntries
<1>4. table[byte] = EntryOf(byte)
  BY <1>1, <1>2 DEF CRCInv, FilledOK, Filled, Entry, EntryOf
<1>. QED
  BY <1>3, <1>4, ViewIs

\* A thread that has filled the table keeps finding all of it, right and whole, however many
\* others, which have not seen its flag, store into the same entries.
THEOREM FillersFindItWhole == CRCSpec => []TableIsWhole
<1>1. CRCInv => TableIsWhole
  BY ViewOfFiller DEF TableIsWhole
<1>. QED
  BY <1>1, TableKeepsInvariant, PTL

LEMMA FillerComputes ==
    ASSUME CRCInv, NEW t \in Threads, HasFilled(t), NEW view \in Views(t),
           NEW bytes \in Seq(Bytes)
    PROVE  GetCRCTableBased(view, bytes) = GetCRC(bytes)
<1>1. TableOf(view)
  BY ViewOfFiller DEF TableOf, EntryOf
<1>. QED
  BY <1>1, TableDivides

\* A thread that has filled the table computes by it what GetCRC does, for every message and
\* any threads that fill it at the same time.
THEOREM ByTableOrNot == CRCSpec => []FillersAgree
<1>1. CRCInv => FillersAgree
  BY FillerComputes, CRCAssumption DEF FillersAgree
<1>. QED
  BY <1>1, TableKeepsInvariant, PTL

\* The reflections of GetCRC, of each byte and of the remainder, make it the CRC that takes
\* the lowest bit first, for every width, polynomial and message.
THEOREM ReflectedCRC == CRCSpec => []IsTheUsualCRC
<1>1. CRCInv => IsTheUsualCRC
  BY FillerComputes, GetCRCIsUsual, CRCAssumption DEF IsTheUsualCRC
<1>. QED
  BY <1>1, TableKeepsInvariant, PTL

\* A packet of any length in which bits no further apart than the checksum is wide arrive
\* flipped is not verified.
THEOREM BurstsAreDetected == CRCSpec => []DetectsBursts
<1>1. ASSUME CRCInv, NEW t \in Threads, HasFilled(t), NEW view \in Views(t),
             NEW bytes \in Messages, NEW burst \in Bursts(Len(bytes) * ByteWidth),
             burst \subseteq 0 .. Len(bytes) * ByteWidth - 1
      PROVE  GetCRCTableBased(view, Flipped(bytes, burst)) # GetCRCTableBased(view, bytes)
  <2>. DEFINE other == Flipped(bytes, burst)
  <2>1. bytes \in Seq(Bytes)
    BY CRCAssumption
  <2>2. other \in Seq(Bytes) /\ LowestFirst(other) # LowestFirst(bytes)
    BY <1>1, <2>1, BurstChangesCRC
  <2>. HIDE DEF other
  <2>3. /\ GetCRCTableBased(view, other) = GetCRC(other)
        /\ GetCRCTableBased(view, bytes) = GetCRC(bytes)
    BY <1>1, <2>1, <2>2, FillerComputes
  <2>. QED
    BY <2>1, <2>2, <2>3, GetCRCIsUsual DEF other
<1>2. CRCInv => DetectsBursts
  BY <1>1 DEF DetectsBursts
<1>. QED
  BY <1>2, TableKeepsInvariant, PTL

------------------------------------------------------------------------------
(* Fletcher32_improved: delaying the remainder is right for every number of words and   *)
(* every word, if the block is no longer than the sums have room for; the code's is not.  *)

\* The modulus of the two sums.
LEMMA Modulus == M \in Nat /\ M >= 2
BY ChecksumsAssumption DEF M

\* What the remainder of a sum is.
LEMMA RemainderIs ==
    ASSUME NEW n \in Nat, NEW k \in Int, NEW r \in 0 .. M - 1, n = M * k + r
    PROVE  n % M = r
<1>. DEFINE q == n \div M
            s == n % M
            d == k - q
<1>1. /\ q \in Int /\ s \in 0 .. M - 1 /\ M \in Nat
      /\ n = M * q + s
  BY Modulus
<1>. HIDE DEF q, s
<1>2. d \in Int /\ M * d = s - r
  BY <1>1
<1>. HIDE DEF d
<1>3. d = 0
  <2>1. ASSUME d >= 1 PROVE FALSE
    <3>1. M * d >= M
      BY <1>1, <1>2, <2>1
    <3>. QED
      BY <1>1, <1>2, <3>1
  <2>2. ASSUME d <= -1 PROVE FALSE
    <3>1. M * d <= -M
      BY <1>1, <1>2, <2>2
    <3>. QED
      BY <1>1, <1>2, <3>1
  <2>. QED
    BY <1>2, <2>1, <2>2
<1>4. M * 0 = 0
  BY <1>1
<1>. QED
  BY <1>1, <1>2, <1>3, <1>4 DEF s

\* A remainder may be taken before an addition or not.
LEMMA AddToRemainder ==
    ASSUME NEW m \in Nat, NEW n \in Nat
    PROVE  /\ m % M \in 0 .. M - 1
           /\ (m + n) % M = ((m % M) + n) % M
<1>. DEFINE q == m \div M
            r == m % M
            p == (r + n) \div M
            s == (r + n) % M
<1>1. /\ q \in Int /\ r \in 0 .. M - 1 /\ M \in Nat
      /\ m = M * q + r
  BY Modulus
<1>2. /\ p \in Int /\ s \in 0 .. M - 1
      /\ r + n = M * p + s
  BY <1>1, Modulus
<1>. HIDE DEF q, r, p, s
<1>3. m + n = M * (q + p) + s
  BY <1>1, <1>2
<1>4. (m + n) % M = s
  <2>1. m + n \in Nat /\ q + p \in Int
    BY <1>1, <1>2
  <2>. QED
    BY <1>2, <1>3, <2>1, RemainderIs, Zenon
<1>5. r \in 0 .. M - 1
  BY <1>1
<1>. QED
  BY <1>4, <1>5, Zenon DEF r, s

\* The remainder of a remainder, and the sum of two remainders.
LEMMA AddRemainders ==
    ASSUME NEW m \in Nat, NEW n \in Nat
    PROVE  /\ (m % M) % M = m % M
           /\ (m + n) % M = ((m % M) + (n % M)) % M
<1>1. m % M \in Nat /\ n % M \in Nat
  BY AddToRemainder, Modulus
<1>2. (m % M) % M = m % M
  <2>1. (m % M) + 0 = m % M /\ m + 0 = m
    BY <1>1
  <2>. QED
    BY <2>1, AddToRemainder
<1>3. (m + n) % M = (n + (m % M)) % M
  <2>1. (m % M) + n = n + (m % M)
    BY <1>1
  <2>. QED
    BY <2>1, AddToRemainder
<1>4. (n + (m % M)) % M = ((n % M) + (m % M)) % M
  BY <1>1, AddToRemainder
<1>. QED
  BY <1>1, <1>2, <1>3, <1>4

\* The bounds are what one word more adds to them, and grow with the words.
LEMMA BoundsStep ==
    ASSUME NEW n \in Nat
    PROVE  /\ BoundA(n) \in Nat /\ BoundB(n) \in Nat
           /\ BoundA(n + 1) = BoundA(n) + M
           /\ BoundB(n + 1) = BoundB(n) + 2 * BoundA(n + 1)
           /\ BoundA(0) = M - 1 /\ BoundB(0) = 2 * (M - 1)
<1>1. M * n \in Nat /\ M * n * (n + 1) \in Nat /\ (M - 1) * (n + 1) \in Nat
  BY Modulus
<1>2. M * (n + 1) = M * n + M
  BY Modulus
<1>3. M * (n + 1) * (n + 2) = M * n * (n + 1) + 2 * (M * (n + 1))
  <2>. DEFINE k == M * (n + 1)
  <2>1. k \in Nat
    BY Modulus
  <2>2. M * n * (n + 1) = n * k
    BY Modulus
  <2>. HIDE DEF k
  <2>3. k * (n + 2) = n * k + 2 * k
    BY <2>1
  <2>. QED
    BY <2>2, <2>3 DEF k
<1>4. 2 * (M - 1) * (n + 2) = 2 * (M - 1) * (n + 1) + 2 * (M - 1)
  BY Modulus
<1>. QED
  BY <1>1, <1>2, <1>3, <1>4, Modulus DEF BoundA, BoundB

\* The bounds grow with the words added.
LEMMA BoundsGrow ==
    ASSUME NEW m \in Nat, NEW n \in Nat, m <= n
    PROVE  BoundA(m) <= BoundA(n) /\ BoundB(m) <= BoundB(n)
<1>1. M * m <= M * n
  BY Modulus
<1>2. (M - 1) * (m + 1) <= (M - 1) * (n + 1)
  BY Modulus
<1>3. M * m * (m + 1) <= M * n * (n + 1)
  <2>1. m * (m + 1) <= n * (n + 1)
    BY Z3
  <2>2. m * (m + 1) \in Nat /\ n * (n + 1) \in Nat
    OBVIOUS
  <2>3. M * (m * (m + 1)) <= M * (n * (n + 1))
    BY <2>1, <2>2, Modulus
  <2>. QED
    BY <2>3, Modulus
<1>. QED
  BY <1>1, <1>2, <1>3, Modulus DEF BoundA, BoundB

------------------------------------------------------------------------------
(* The invariant: how large the sums are follows from how many words were   *)
(* added since their remainders were taken.                                 *)

Pending == IF loop \in {"outer", "done"} THEN 0 ELSE i

Congruent == plainA = sumA % M /\ plainB = sumB % M

IInv ==
    /\ loop \in {"outer", "block", "tail", "done"}
    /\ p_size \in Nat /\ i \in Nat /\ sumA \in Nat /\ sumB \in Nat
    /\ Pending <= Block
    /\ loop = "block" => Block <= p_size
    /\ loop = "tail" => i <= p_size /\ p_size < Block
    /\ sumA <= BoundA(Pending) /\ 2 * sumB <= BoundB(Pending)
    /\ Congruent

\* The start.
LEMMA InitIInv == FletcherInit => IInv
<1>. SUFFICES ASSUME FletcherInit PROVE IInv
  OBVIOUS
<1>1. 0 % M = 0
  <2>1. 0 = M * 0 + 0 /\ 0 \in 0 .. M - 1
    BY Modulus
  <2>. QED
    BY <2>1, RemainderIs
<1>2. BoundA(0) = M - 1 /\ BoundB(0) = 2 * (M - 1)
  BY BoundsStep
<1>. QED
  BY <1>1, <1>2, Modulus, ChecksumsAssumption DEF FletcherInit, IInv, Pending, Congruent

\* Adding a word does not wrap around, and keeps the sums congruent to Fletcher32's.
LEMMA WordAdded ==
    ASSUME IInv, Pending = i, i < Block, NEW word \in Words, AddWord(word), Fletcher32(word)
    PROVE  /\ sumA' \in Nat /\ sumB' \in Nat /\ i' = i + 1
           /\ sumA' <= BoundA(i + 1) /\ 2 * sumB' <= BoundB(i + 1)
           /\ Congruent'
<1>1. /\ i \in Nat /\ sumA \in Nat /\ sumB \in Nat /\ word \in 0 .. M
      /\ sumA <= BoundA(i) /\ 2 * sumB <= BoundB(i)
      /\ plainA = sumA % M /\ plainB = sumB % M
  BY ChecksumsAssumption DEF IInv, Congruent, Words, M
<1>2. /\ BoundA(i) \in Nat /\ BoundB(i) \in Nat
      /\ BoundA(i + 1) = BoundA(i) + M
      /\ BoundB(i + 1) = BoundB(i) + 2 * BoundA(i + 1)
  BY <1>1, BoundsStep
<1>3. BoundA(i + 1) < AccBase /\ BoundB(i + 1) < 2 * AccBase
  <2>1. BoundA(i + 1) <= BoundA(Block) /\ BoundB(i + 1) <= BoundB(Block)
    BY <1>1, BoundsGrow, ChecksumsAssumption
  <2>2. BoundA(Block) \in Nat /\ BoundB(Block) \in Nat
    BY BoundsStep, ChecksumsAssumption
  <2>. QED
    BY <1>1, <1>2, <2>1, <2>2, Modulus, ChecksumsAssumption
<1>4. sumA' = sumA + word /\ sumA' \in Nat /\ sumA' <= BoundA(i + 1)
  <2>1. sumA + word \in Nat /\ sumA + word <= BoundA(i + 1)
    BY <1>1, <1>2, Modulus
  <2>2. sumA + word < AccBase
    BY <1>1, <1>2, <1>3, <2>1, Modulus, ChecksumsAssumption
  <2>3. (sumA + word) % AccBase = sumA + word
    BY <2>1, <2>2, ChecksumsAssumption
  <2>. QED
    BY <2>1, <2>3 DEF AddWord
<1>5. sumB' = sumB + sumA' /\ sumB' \in Nat /\ 2 * sumB' <= BoundB(i + 1)
  <2>1. sumB + sumA' \in Nat /\ 2 * (sumB + sumA') <= BoundB(i + 1)
    BY <1>1, <1>2, <1>4, Modulus
  <2>2. sumB + sumA' < AccBase
    BY <1>1, <1>2, <1>3, <2>1, Modulus, ChecksumsAssumption
  <2>3. (sumB + sumA') % AccBase = sumB + sumA'
    BY <2>1, <2>2, ChecksumsAssumption
  <2>. QED
    BY <2>1, <2>3 DEF AddWord
<1>6. plainA' = sumA' % M
  BY <1>1, <1>4, AddToRemainder DEF Fletcher32
<1>7. plainB' = sumB' % M
  <2>1. plainB' = ((sumB % M) + (sumA' % M)) % M
    BY <1>1, <1>6 DEF Fletcher32
  <2>. QED
    BY <1>1, <1>4, <1>5, <2>1, AddRemainders
<1>8. i' = i + 1
  BY DEF AddWord
<1>. QED
  BY <1>4, <1>5, <1>6, <1>7, <1>8 DEF Congruent

\* Taking the remainders keeps the sums congruent and starts the count again.
LEMMA RemaindersTaken ==
    ASSUME IInv, TakeRemainders, UNCHANGED <<plainA, plainB>>
    PROVE  /\ sumA' \in Nat /\ sumB' \in Nat
           /\ sumA' <= BoundA(0) /\ 2 * sumB' <= BoundB(0)
           /\ sumA' = plainA' /\ sumB' = plainB'
           /\ Congruent'
<1>1. /\ sumA \in Nat /\ sumB \in Nat
      /\ plainA = sumA % M /\ plainB = sumB % M
  BY DEF IInv, Congruent
<1>2. sumA % M \in 0 .. M - 1 /\ sumB % M \in 0 .. M - 1
  BY <1>1, AddToRemainder
<1>3. (sumA % M) % M = sumA % M /\ (sumB % M) % M = sumB % M
  BY <1>1, AddRemainders
<1>4. BoundA(0) = M - 1 /\ BoundB(0) = 2 * (M - 1)
  BY BoundsStep
<1>5. sumA' = plainA' /\ sumB' = plainB'
  BY <1>1 DEF TakeRemainders
<1>6. Congruent'
  BY <1>1, <1>3 DEF TakeRemainders, Congruent
<1>7. sumA' \in 0 .. M - 1 /\ sumB' \in 0 .. M - 1
  BY <1>2 DEF TakeRemainders
<1>. QED
  BY <1>4, <1>5, <1>6, <1>7, Modulus

\* Every step.
LEMMA StepIInv == IInv /\ [FletcherNext]_fletcherVars => IInv'
<1>. SUFFICES ASSUME IInv, [FletcherNext]_fletcherVars PROVE IInv'
  OBVIOUS
<1>1. CASE EnterBlock
  BY <1>1, ChecksumsAssumption DEF EnterBlock, IInv, Pending, Congruent
<1>2. CASE BlockWord
  <2>1. loop = "block" /\ i < Block /\ Pending = i
    BY <1>2 DEF BlockWord, InBlock, Pending
  <2>2. PICK word \in Words : AddWord(word) /\ Fletcher32(word)
    BY <1>2 DEF BlockWord
  <2>3. /\ sumA' \in Nat /\ sumB' \in Nat /\ i' = i + 1
        /\ sumA' <= BoundA(i + 1) /\ 2 * sumB' <= BoundB(i + 1)
        /\ Congruent'
    BY <2>1, <2>2, WordAdded
  <2>4. Pending' = i + 1 /\ loop' = "block" /\ p_size' = p_size
    BY <1>2, <2>1, <2>3 DEF BlockWord, Pending
  <2>. QED
    BY <2>1, <2>3, <2>4, ChecksumsAssumption DEF IInv
<1>3. CASE BlockEnd
  <2>1. UNCHANGED <<plainA, plainB>> /\ TakeRemainders
    BY <1>3 DEF BlockEnd
  <2>2. /\ sumA' \in Nat /\ sumB' \in Nat
        /\ sumA' <= BoundA(0) /\ 2 * sumB' <= BoundB(0)
        /\ Congruent'
    BY <2>1, RemaindersTaken
  <2>3. loop' = "outer" /\ p_size' \in Nat /\ i' = i /\ Pending' = 0
    BY <1>3, ChecksumsAssumption DEF BlockEnd, Pending, IInv
  <2>. QED
    BY <2>2, <2>3, ChecksumsAssumption DEF IInv
<1>4. CASE EnterTail
  BY <1>4, ChecksumsAssumption DEF EnterTail, IInv, Pending, Congruent
<1>5. CASE TailWord
  <2>1. loop = "tail" /\ i < Block /\ Pending = i /\ i + 1 <= p_size /\ p_size < Block
    BY <1>5, ChecksumsAssumption DEF TailWord, Pending, IInv
  <2>2. PICK word \in Words : AddWord(word) /\ Fletcher32(word)
    BY <1>5 DEF TailWord
  <2>3. /\ sumA' \in Nat /\ sumB' \in Nat /\ i' = i + 1
        /\ sumA' <= BoundA(i + 1) /\ 2 * sumB' <= BoundB(i + 1)
        /\ Congruent'
    BY <2>1, <2>2, WordAdded
  <2>4. Pending' = i + 1 /\ loop' = "tail" /\ p_size' = p_size
    BY <1>5, <2>1, <2>3 DEF TailWord, Pending
  <2>. QED
    BY <2>1, <2>3, <2>4, ChecksumsAssumption DEF IInv
<1>6. CASE TailEnd
  <2>1. UNCHANGED <<plainA, plainB>> /\ TakeRemainders
    BY <1>6 DEF TailEnd
  <2>2. /\ sumA' \in Nat /\ sumB' \in Nat
        /\ sumA' <= BoundA(0) /\ 2 * sumB' <= BoundB(0)
        /\ Congruent'
    BY <2>1, RemaindersTaken
  <2>3. loop' = "done" /\ p_size' = p_size /\ i' = i /\ Pending' = 0
    BY <1>6 DEF TailEnd, Pending
  <2>. QED
    BY <2>2, <2>3, ChecksumsAssumption DEF IInv
<1>7. CASE UNCHANGED fletcherVars
  BY <1>7 DEF fletcherVars, IInv, Pending, Congruent
<1>. QED
  BY <1>1, <1>2, <1>3, <1>4, <1>5, <1>6, <1>7 DEF FletcherNext

\* So every state.
LEMMA IInvHolds == FletcherSpec => []IInv
<1>1. FletcherInit => IInv
  BY InitIInv
<1>2. IInv /\ [FletcherNext]_fletcherVars => IInv'
  BY StepIInv
<1>. QED
  BY <1>1, <1>2, PTL DEF FletcherSpec

\* No sum outgrows its accumulator, whatever the words and however many, and each is
\* congruent to Fletcher32's.
THEOREM NoSumWrapsAround == FletcherSpec => []SumsAreTrue
<1>1. IInv => SumsAreTrue
  <2>. SUFFICES ASSUME IInv PROVE SumsAreTrue
    OBVIOUS
  <2>1. Pending \in Nat
    BY DEF IInv, Pending
  <2>2. BoundA(Pending) <= BoundA(Block) /\ BoundB(Pending) <= BoundB(Block)
    BY <2>1, BoundsGrow, ChecksumsAssumption DEF IInv
  <2>3. /\ BoundA(Pending) \in Nat /\ BoundB(Pending) \in Nat
        /\ BoundA(Block) \in Nat /\ BoundB(Block) \in Nat
    BY <2>1, BoundsStep, ChecksumsAssumption
  <2>. QED
    BY <2>2, <2>3 DEF IInv, Congruent, SumsAreTrue
<1>. QED
  BY <1>1, IInvHolds, PTL

\* Fletcher32_improved returns what Fletcher32 returns, for every length and every word.
THEOREM FletcherImproved == FletcherSpec => []ImprovedIsFletcher32
<1>1. FletcherInit => ImprovedIsFletcher32
  BY DEF FletcherInit, ImprovedIsFletcher32
<1>2. IInv /\ ImprovedIsFletcher32 /\ [FletcherNext]_fletcherVars => ImprovedIsFletcher32'
  <2>. SUFFICES ASSUME IInv, ImprovedIsFletcher32, [FletcherNext]_fletcherVars
                  PROVE  ImprovedIsFletcher32'
    OBVIOUS
  <2>1. CASE TailEnd
    BY <2>1, RemaindersTaken DEF TailEnd, ImprovedIsFletcher32
  <2>2. CASE UNCHANGED fletcherVars
    BY <2>2 DEF fletcherVars, ImprovedIsFletcher32
  <2>3. CASE FletcherNext /\ ~TailEnd
    BY <2>3 DEF FletcherNext, EnterBlock, BlockWord, BlockEnd, EnterTail, TailWord,
        ImprovedIsFletcher32
  <2>. QED
    BY <2>1, <2>2, <2>3
<1>. QED
  BY <1>1, <1>2, IInvHolds, PTL DEF FletcherSpec

\* The constants of the code are such that its block is short enough, and one word more
\* would not be.
THEOREM BlockOf360 ==
    ASSUME WordBase = 65536, AccBase = WordBase * WordBase
    PROVE  /\ BoundA(360) < AccBase /\ BoundB(360) < 2 * AccBase
           /\ ~(BoundB(361) < 2 * AccBase)
BY DEF BoundA, BoundB, M
=============================================================================
