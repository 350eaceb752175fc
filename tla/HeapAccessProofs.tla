-------------------------- MODULE HeapAccessProofs --------------------------
(***************************************************************************)
(* Proofs about HeapAccess: a store reaches its own location and no other. *)
(*                                                                         *)
(* Memory is taken apart into bytes, with the lemmas on words that         *)
(* DriverFilesProofs begins with.  A location is a range of them (Extent). *)
(* Stores miss what the walks read (TrailsApart), so that every walk stays *)
(* what it was (WalkFixed); two walks in an array part for good at the     *)
(* first level they differ at, or end in one leaf as far apart as their    *)
(* indexes (PathsApart); so no two locations share a byte (ExtentsApart).  *)
(***************************************************************************)
EXTENDS HeapAccess, DriverFilesProofs, WellFoundedInduction

-----------------------------------------------------------------------------
(* Units of one, two and four bytes in a word.                              *)

\* The units of a word: their size and the byte they begin at.
Units == {<<4, 0>>, <<2, 0>>, <<2, 2>>, <<1, 0>>, <<1, 1>>, <<1, 2>>, <<1, 3>>}

GetIn(w, u, o) == (w \div Scale(o)) % UnitsOf(u)

SetIn(w, u, o, v) == w + ((v % UnitsOf(u)) - GetIn(w, u, o)) * Scale(o)

\* What a byte of each position is worth.
LEMMA Scales == Scale(0) = 1 /\ Scale(1) = B /\ Scale(2) = B * B /\ Scale(3) = B * B * B
  BY DEF Scale

\* A unit in terms of its bytes.
LEMMA UnitGet ==
  ASSUME NEW b0 \in Digit, NEW b1 \in Digit, NEW b2 \in Digit, NEW b3 \in Digit,
         NEW x, x = b0 + b1 * B + b2 * (B * B) + b3 * (B * B * B)
  PROVE  /\ GetIn(x, 4, 0) = x
         /\ GetIn(x, 2, 0) = b0 + b1 * B
         /\ GetIn(x, 2, 2) = b2 + b3 * B
         /\ GetIn(x, 1, 0) = b0 /\ GetIn(x, 1, 1) = b1
         /\ GetIn(x, 1, 2) = b2 /\ GetIn(x, 1, 3) = b3
<1> DEFINE c == B * B
           lo == b0 + b1 * B
           hi == b2 + b3 * B
<1>1. /\ b0 \in Nat /\ b1 \in Nat /\ b2 \in Nat /\ b3 \in Nat
      /\ b0 < B /\ b1 < B /\ b2 < B /\ b3 < B
  BY Powers DEF Digit
<1>2. lo \in 0 .. c - 1 /\ hi \in 0 .. c - 1
  BY <1>1, Powers
<1>3. x = hi * c + lo
  BY <1>1, Powers
<1>4. x \in Word
  BY BytesOf
<1>5. c \in Nat /\ c > 0
  BY Powers
<1> HIDE DEF c, lo, hi
<1>6. x \div c = hi /\ x % c = lo /\ hi \in Nat /\ lo \in Nat
  BY <1>2, <1>3, <1>5, Division
<1>7. hi % c = hi
  BY <1>2, <1>5
<1>8. x \in Nat /\ x \div 1 = x /\ x % W = x
  BY <1>4, Powers DEF Word
<1>9. UnitsOf(4) = W /\ UnitsOf(2) = c /\ UnitsOf(1) = B
  BY DEF UnitsOf, c
<1>10. Byte(x, 0) = b0 /\ Byte(x, 1) = b1 /\ Byte(x, 2) = b2 /\ Byte(x, 3) = b3
  BY BytesOf
<1>11. GetIn(x, 4, 0) = x /\ GetIn(x, 2, 0) = lo
  BY <1>6, <1>8, <1>9, Scales DEF GetIn
<1>12. GetIn(x, 2, 2) = hi
  BY <1>6, <1>7, <1>9, Scales DEF GetIn, c
<1> QED
  BY <1>9, <1>10, <1>11, <1>12 DEF GetIn, Byte, lo, hi

\* A unit is given by its bytes.
LEMMA UnitDepends ==
  ASSUME NEW x \in Word, NEW y \in Word, NEW u, NEW o, <<u, o>> \in Units,
         \A k \in o .. o + u - 1 : Byte(x, k) = Byte(y, k)
  PROVE  GetIn(x, u, o) = GetIn(y, u, o)
<1>1. PICK b0 \in Digit, b1 \in Digit, b2 \in Digit, b3 \in Digit :
        x = b0 + b1 * B + b2 * (B * B) + b3 * (B * B * B)
  BY HasBytes
<1>2. PICK c0 \in Digit, c1 \in Digit, c2 \in Digit, c3 \in Digit :
        y = c0 + c1 * B + c2 * (B * B) + c3 * (B * B * B)
  BY HasBytes
<1>3. /\ Byte(x, 0) = b0 /\ Byte(x, 1) = b1 /\ Byte(x, 2) = b2 /\ Byte(x, 3) = b3
      /\ Byte(y, 0) = c0 /\ Byte(y, 1) = c1 /\ Byte(y, 2) = c2 /\ Byte(y, 3) = c3
  BY <1>1, <1>2, BytesOf
<1>4. /\ GetIn(x, 4, 0) = x /\ GetIn(x, 2, 0) = b0 + b1 * B /\ GetIn(x, 2, 2) = b2 + b3 * B
      /\ GetIn(x, 1, 0) = b0 /\ GetIn(x, 1, 1) = b1 /\ GetIn(x, 1, 2) = b2 /\ GetIn(x, 1, 3) = b3
  BY <1>1, UnitGet
<1>5. /\ GetIn(y, 4, 0) = y /\ GetIn(y, 2, 0) = c0 + c1 * B /\ GetIn(y, 2, 2) = c2 + c3 * B
      /\ GetIn(y, 1, 0) = c0 /\ GetIn(y, 1, 1) = c1 /\ GetIn(y, 1, 2) = c2 /\ GetIn(y, 1, 3) = c3
  BY <1>2, UnitGet
<1>6. CASE u = 4 /\ o = 0
  <2>1. b0 = c0 /\ b1 = c1 /\ b2 = c2 /\ b3 = c3
    BY <1>3, <1>6
  <2> QED
    BY <1>1, <1>2, <1>6, <2>1
<1>7. CASE u = 2 /\ o = 0
  BY <1>3, <1>4, <1>5, <1>7
<1>8. CASE u = 2 /\ o = 2
  BY <1>3, <1>4, <1>5, <1>8
<1>9. CASE u = 1 /\ o \in {0, 1, 2, 3}
  BY <1>3, <1>4, <1>5, <1>9
<1> QED
  BY <1>6, <1>7, <1>8, <1>9 DEF Units

\* A word of which some bytes have been replaced.
LEMMA UnitSet ==
  ASSUME NEW x \in Word, NEW v \in Nat, NEW u, NEW o, <<u, o>> \in Units
  PROVE  LET y == SetIn(x, u, o, v) IN
         /\ y \in Word
         /\ GetIn(y, u, o) = v % UnitsOf(u)
         /\ \A k \in 0 .. 3 : k \notin o .. o + u - 1 => Byte(y, k) = Byte(x, k)
<1> DEFINE y == SetIn(x, u, o, v)
           c == B * B
<1>1. PICK b0 \in Digit, b1 \in Digit, b2 \in Digit, b3 \in Digit :
        x = b0 + b1 * B + b2 * (B * B) + b3 * (B * B * B)
  BY HasBytes
<1>2. Byte(x, 0) = b0 /\ Byte(x, 1) = b1 /\ Byte(x, 2) = b2 /\ Byte(x, 3) = b3
  BY <1>1, BytesOf
<1>3. /\ GetIn(x, 4, 0) = x /\ GetIn(x, 2, 0) = b0 + b1 * B /\ GetIn(x, 2, 2) = b2 + b3 * B
      /\ GetIn(x, 1, 0) = b0 /\ GetIn(x, 1, 1) = b1 /\ GetIn(x, 1, 2) = b2 /\ GetIn(x, 1, 3) = b3
  BY <1>1, UnitGet
<1>4. UnitsOf(4) = W /\ UnitsOf(2) = B * B /\ UnitsOf(1) = B
  BY DEF UnitsOf
<1>5. /\ b0 \in Nat /\ b1 \in Nat /\ b2 \in Nat /\ b3 \in Nat /\ B \in Nat /\ B > 0
      /\ x \in Nat
  BY Powers DEF Digit, Word
<1>6. CASE u = 4 /\ o = 0
  <2>1. v % W \in Word
    BY Powers DEF Word
  <2>2. y = v % W
    <3>1. v % W \in Nat
      BY <2>1, Powers DEF Word
    <3>2. y = x + ((v % W) - x) * 1
      BY <1>3, <1>4, <1>6, Scales DEF SetIn
    <3> QED
      BY <1>5, <3>1, <3>2
  <2>3. GetIn(v % W, 4, 0) = v % W
    <3> DEFINE z == v % W
    <3> HIDE DEF z
    <3>1. z \in Word
      BY <2>1 DEF z
    <3>2. PICK d0 \in Digit, d1 \in Digit, d2 \in Digit, d3 \in Digit :
            z = d0 + d1 * B + d2 * (B * B) + d3 * (B * B * B)
      BY <3>1, HasBytes
    <3>3. GetIn(z, 4, 0) = z
      BY <3>2, UnitGet
    <3> QED
      BY <3>3 DEF z
  <2>4. \A k \in 0 .. 3 : k \in 0 .. 0 + 4 - 1
    OBVIOUS
  <2> QED
    BY <1>4, <1>6, <2>1, <2>2, <2>3, <2>4
<1>7. ASSUME u = 2
      PROVE  \E c0, c1 \in Digit : v % UnitsOf(u) = c0 + c1 * B
  <2> DEFINE z == v % c
  <2>1. c \in Nat /\ c > 0 /\ c = B * B
    BY Powers
  <2> HIDE DEF c
  <2>2. z \in Nat /\ z < B * B
    BY <2>1
  <2> HIDE DEF z
  <2>3. z \div B \in Digit /\ z % B \in Digit /\ z = (z % B) + (z \div B) * B
    <3>1. z \div B \in Nat /\ z % B \in Digit /\ z = (z % B) + (z \div B) * B
      BY <1>5, <2>2 DEF Digit
    <3> DEFINE q == z \div B
               r == z % B
    <3>2. q \in Nat /\ r \in Nat /\ z = r + q * B
      BY <1>5, <3>1 DEF Digit
    <3> HIDE DEF q, r
    <3>3. q < B
      BY <1>5, <2>2, <3>2
    <3> QED
      BY <1>5, <3>1, <3>2, <3>3 DEF Digit, q
  <2> QED
    BY <1>4, <1>7, <2>1, <2>3 DEF z
<1>8. CASE u = 2 /\ o = 0
  <2>1. PICK c0 \in Digit, c1 \in Digit : v % UnitsOf(u) = c0 + c1 * B
    BY <1>7, <1>8
  <2>2. c0 \in Nat /\ c1 \in Nat
    BY Powers DEF Digit
  <2>3. y = x + ((c0 + c1 * B) - (b0 + b1 * B)) * 1
    BY <1>3, <1>8, <2>1, Scales DEF SetIn
  <2> HIDE DEF y
  <2>4. y = c0 + c1 * B + b2 * (B * B) + b3 * (B * B * B)
    BY <1>1, <1>5, <2>2, <2>3
  <2>5. y \in Word /\ Byte(y, 2) = b2 /\ Byte(y, 3) = b3 /\ GetIn(y, 2, 0) = c0 + c1 * B
    BY <2>4, BytesOf, UnitGet
  <2> QED
    BY <1>2, <1>8, <2>1, <2>5 DEF y
<1>9. CASE u = 2 /\ o = 2
  <2>1. PICK c0 \in Digit, c1 \in Digit : v % UnitsOf(u) = c0 + c1 * B
    BY <1>7, <1>9
  <2>2. c0 \in Nat /\ c1 \in Nat
    BY Powers DEF Digit
  <2>3. y = x + ((c0 + c1 * B) - (b2 + b3 * B)) * (B * B)
    BY <1>3, <1>9, <2>1, Scales DEF SetIn
  <2> HIDE DEF y
  <2>4. y = b0 + b1 * B + c0 * (B * B) + c1 * (B * B * B)
    BY <1>1, <1>5, <2>2, <2>3
  <2>5. y \in Word /\ Byte(y, 0) = b0 /\ Byte(y, 1) = b1 /\ GetIn(y, 2, 2) = c0 + c1 * B
    BY <2>4, BytesOf, UnitGet
  <2> QED
    BY <1>2, <1>9, <2>1, <2>5 DEF y
<1>10. CASE u = 1 /\ o \in {0, 1, 2, 3}
  <2> DEFINE z == v % B
  <2>1. z \in Digit /\ z \in Nat /\ v % UnitsOf(u) = z
    BY <1>4, <1>5, <1>10 DEF Digit
  <2>2. y = x + (z - GetIn(x, 1, o)) * Scale(o)
    BY <1>10, <2>1 DEF SetIn
  <2> HIDE DEF y, z
  <2>3. CASE o = 0
    <3>1. y = z + b1 * B + b2 * (B * B) + b3 * (B * B * B)
      BY <1>1, <1>3, <1>5, <2>1, <2>2, <2>3, Scales
    <3>2. y \in Word /\ GetIn(y, 1, 0) = z /\ Byte(y, 1) = b1 /\ Byte(y, 2) = b2 /\ Byte(y, 3) = b3
      BY <2>1, <3>1, BytesOf, UnitGet
    <3> QED
      BY <1>2, <1>10, <2>1, <2>3, <3>2 DEF y
  <2>4. CASE o = 1
    <3>1. y = b0 + z * B + b2 * (B * B) + b3 * (B * B * B)
      BY <1>1, <1>3, <1>5, <2>1, <2>2, <2>4, Scales
    <3>2. y \in Word /\ GetIn(y, 1, 1) = z /\ Byte(y, 0) = b0 /\ Byte(y, 2) = b2 /\ Byte(y, 3) = b3
      BY <2>1, <3>1, BytesOf, UnitGet
    <3> QED
      BY <1>2, <1>10, <2>1, <2>4, <3>2 DEF y
  <2>5. CASE o = 2
    <3>1. y = b0 + b1 * B + z * (B * B) + b3 * (B * B * B)
      BY <1>1, <1>3, <1>5, <2>1, <2>2, <2>5, Scales
    <3>2. y \in Word /\ GetIn(y, 1, 2) = z /\ Byte(y, 0) = b0 /\ Byte(y, 1) = b1 /\ Byte(y, 3) = b3
      BY <2>1, <3>1, BytesOf, UnitGet
    <3> QED
      BY <1>2, <1>10, <2>1, <2>5, <3>2 DEF y
  <2>6. CASE o = 3
    <3>1. y = b0 + b1 * B + b2 * (B * B) + z * (B * B * B)
      BY <1>1, <1>3, <1>5, <2>1, <2>2, <2>6, Scales
    <3>2. y \in Word /\ GetIn(y, 1, 3) = z /\ Byte(y, 0) = b0 /\ Byte(y, 1) = b1 /\ Byte(y, 2) = b2
      BY <2>1, <3>1, BytesOf, UnitGet
    <3> QED
      BY <1>2, <1>10, <2>1, <2>6, <3>2 DEF y
  <2> QED
    BY <1>10, <2>3, <2>4, <2>5, <2>6
<1> QED
  BY <1>6, <1>8, <1>9, <1>10 DEF Units

-----------------------------------------------------------------------------
(* Memory as bytes: what an access of a unit reads and writes.              *)

\* A byte of memory, by its address.
MByte(m, a) == Byte(m[a \div 4], a % 4)

\* Words with the same bytes are the same.
LEMMA WordByBytes ==
  ASSUME NEW x \in Word, NEW y \in Word, \A k \in 0 .. 3 : Byte(x, k) = Byte(y, k)
  PROVE  x = y
<1>1. <<4, 0>> \in Units /\ \A k \in 0 .. 0 + 4 - 1 : k \in 0 .. 3
  BY DEF Units
<1>2. GetIn(x, 4, 0) = GetIn(y, 4, 0)
  BY <1>1, UnitDepends
<1>3. \A z \in Word : GetIn(z, 4, 0) = z
  BY HasBytes, UnitGet
<1> QED
  BY <1>2, <1>3

\* A unit lies in one word, at one of the offsets its size has.
LEMMA UnitPlace ==
  ASSUME NEW u \in {1, 2, 4}, NEW x \in Nat
  PROVE  LET w == (x * u) \div 4
             o == (x * u) % 4
         IN /\ w \in Nat /\ <<u, o>> \in Units
            /\ \A a \in Nat : a \in BytesFrom(u * x, u) <=> a \div 4 = w /\ a % 4 \in o .. o + u - 1
<1> DEFINE w == (x * u) \div 4
           o == (x * u) % 4
<1>1. w \in Nat /\ o \in 0 .. 3 /\ x * u = 4 * w + o /\ u * x = x * u
  OBVIOUS
<1>2. (u = 4 => o = 0) /\ (u = 2 => o \in {0, 2})
  OBVIOUS
<1> HIDE DEF w, o
<1>3. <<u, o>> \in Units /\ o + u \leq 4
  BY <1>1, <1>2 DEF Units
<1>4. ASSUME NEW a \in Nat
      PROVE  a \in BytesFrom(u * x, u) <=> a \div 4 = w /\ a % 4 \in o .. o + u - 1
  <2> DEFINE q == a \div 4
             r == a % 4
  <2>1. q \in Nat /\ r \in 0 .. 3 /\ a = 4 * q + r
    OBVIOUS
  <2> HIDE DEF q, r
  <2>2. BytesFrom(u * x, u) = 4 * w + o .. 4 * w + o + u - 1
    BY <1>1 DEF BytesFrom
  <2>3. a \in 4 * w + o .. 4 * w + o + u - 1 <=> q = w /\ r \in o .. o + u - 1
    BY <1>1, <1>3, <2>1
  <2> QED
    BY <2>2, <2>3 DEF q, r
<1> QED
  BY <1>1, <1>3, <1>4 DEF w, o

\* What a unit of memory gives depends on its own bytes.
LEMMA GetDepends ==
  ASSUME NEW m \in [Words -> Word], NEW n \in [Words -> Word],
         NEW u \in {1, 2, 4}, NEW x \in Nat, (x * u) \div 4 \in Words,
         \A a \in BytesFrom(u * x, u) : MByte(m, a) = MByte(n, a)
  PROVE  Get(m, u, x) = Get(n, u, x)
<1> DEFINE w == (x * u) \div 4
           o == (x * u) % 4
<1>0. o \in 0 .. 3
  OBVIOUS
<1>1. /\ w \in Nat /\ <<u, o>> \in Units /\ o \in 0 .. 3
      /\ \A a \in Nat : a \in BytesFrom(u * x, u) <=> a \div 4 = w /\ a % 4 \in o .. o + u - 1
  BY <1>0, UnitPlace
<1>2. m[w] \in Word /\ n[w] \in Word
  OBVIOUS
<1>3. Get(m, u, x) = GetIn(m[w], u, o) /\ Get(n, u, x) = GetIn(n[w], u, o)
  BY DEF Get, GetIn
<1> HIDE DEF w, o
<1>4. ASSUME NEW k \in o .. o + u - 1 PROVE Byte(m[w], k) = Byte(n[w], k)
  <2>1. k \in 0 .. 3
    BY <1>1 DEF Units
  <2> DEFINE a == 4 * w + k
  <2>2. a \in Nat /\ a \div 4 = w /\ a % 4 = k
    BY <1>1, <2>1
  <2> HIDE DEF a
  <2>3. a \in BytesFrom(u * x, u)
    BY <1>1, <2>2
  <2> QED
    BY <2>2, <2>3 DEF MByte
<1>5. GetIn(m[w], u, o) = GetIn(n[w], u, o)
  <2> DEFINE y == m[w]
             z == n[w]
  <2>1. y \in Word /\ z \in Word /\ \A k \in o .. o + u - 1 : Byte(y, k) = Byte(z, k)
    BY <1>2, <1>4
  <2> HIDE DEF y, z
  <2>2. GetIn(y, u, o) = GetIn(z, u, o)
    BY <1>1, <2>1, UnitDepends
  <2> QED
    BY <2>2 DEF y, z
<1> QED
  BY <1>3, <1>5

\* Memory n is memory m with v in a unit.
Written(m, n, u, x, v) ==
  /\ n \in [Words -> Word]
  /\ Get(n, u, x) = v % UnitsOf(u)
  /\ \A a \in Nat : a \div 4 \in Words /\ a \notin BytesFrom(u * x, u) => MByte(n, a) = MByte(m, a)

\* A store in a unit is found there, and leaves every other byte alone.
LEMMA SetWrites ==
  ASSUME NEW m \in [Words -> Word], Words \subseteq Nat, NEW v \in Nat,
         NEW u \in {1, 2, 4}, NEW x \in Nat,
         (x * u) \div 4 \in Words
  PROVE  Written(m, Set(m, u, x, v), u, x, v)
<1> DEFINE w == (x * u) \div 4
           o == (x * u) % 4
           n == Set(m, u, x, v)
           y == SetIn(m[w], u, o, v)
<1>0. o \in 0 .. 3
  OBVIOUS
<1>1. /\ w \in Nat /\ <<u, o>> \in Units /\ o \in 0 .. 3
      /\ \A a \in Nat : a \in BytesFrom(u * x, u) <=> a \div 4 = w /\ a % 4 \in o .. o + u - 1
  BY <1>0, UnitPlace
<1>2. n = [m EXCEPT ![w] = y]
  BY DEF Set, SetIn, Get, GetIn
<1>3. m[w] \in Word
  OBVIOUS
<1>4. Get(n, u, x) = GetIn(n[w], u, o)
  BY DEF Get, GetIn
<1> HIDE DEF w, o, n
<1>5. /\ y \in Word /\ GetIn(y, u, o) = v % UnitsOf(u)
      /\ \A k \in 0 .. 3 : k \notin o .. o + u - 1 => Byte(y, k) = Byte(m[w], k)
  <2> DEFINE z == m[w]
  <2>1. z \in Word
    BY <1>3
  <2> HIDE DEF z
  <2>2. /\ SetIn(z, u, o, v) \in Word /\ GetIn(SetIn(z, u, o, v), u, o) = v % UnitsOf(u)
        /\ \A k \in 0 .. 3 : k \notin o .. o + u - 1 => Byte(SetIn(z, u, o, v), k) = Byte(z, k)
    BY <1>1, <2>1, UnitSet
  <2> QED
    BY <2>2 DEF z
<1> HIDE DEF y
<1>6. w \in Words
  BY DEF w
<1>7. n \in [Words -> Word] /\ n[w] = y /\ \A z \in Words : z # w => n[z] = m[z]
  BY <1>2, <1>5, <1>6
<1>8. ASSUME NEW a \in Nat, a \div 4 \in Words, a \notin BytesFrom(u * x, u)
      PROVE  MByte(n, a) = MByte(m, a)
  <2>1. CASE a \div 4 = w
    <3>1. a % 4 \in 0 .. 3 /\ a % 4 \notin o .. o + u - 1
      BY <1>1, <1>8, <2>1
    <3> QED
      BY <1>5, <1>7, <2>1, <3>1 DEF MByte
  <2>2. CASE a \div 4 # w
    BY <1>7, <1>8, <2>2 DEF MByte
  <2> QED
    BY <2>1, <2>2
<1> QED
  BY <1>4, <1>5, <1>7, <1>8 DEF n, Written

\* A word of memory by its bytes.
LEMMA SameWord ==
  ASSUME NEW m \in [Words -> Word], NEW n \in [Words -> Word], Words \subseteq Nat, NEW w \in Words,
         \A a \in BytesFrom(4 * w, 4) : MByte(m, a) = MByte(n, a)
  PROVE  m[w] = n[w]
<1>1. w \in Nat /\ m[w] \in Word /\ n[w] \in Word
  OBVIOUS
<1>2. ASSUME NEW k \in 0 .. 3 PROVE Byte(m[w], k) = Byte(n[w], k)
  <2> DEFINE a == 4 * w + k
  <2>1. a \div 4 = w /\ a % 4 = k /\ a \in BytesFrom(4 * w, 4)
    BY <1>1 DEF BytesFrom
  <2> HIDE DEF a
  <2> QED
    BY <2>1 DEF MByte
<1> DEFINE y == m[w]
           z == n[w]
<1>3. y \in Word /\ z \in Word /\ \A k \in 0 .. 3 : Byte(y, k) = Byte(z, k)
  BY <1>1, <1>2
<1> HIDE DEF y, z
<1>4. y = z
  BY <1>3, WordByBytes
<1> QED
  BY <1>4 DEF y, z

\* A store of 64 bits is found again, unless its low half is negative.
LEMMA LongWrites ==
  ASSUME NEW m \in [Words -> Word], Words \subseteq Nat, NEW b \in Nat, b \in Words, b + 1 \in Words,
         NEW v \in Word \X Word, v[1] < W \div 2
  PROVE  LET n == SetLong(m, b, v) IN
         /\ n \in [Words -> Word] /\ GetLong(n, b) = v
         /\ \A a \in Nat : a \div 4 \in Words /\ a \notin BytesFrom(4 * b, 8) =>
              MByte(n, a) = MByte(m, a)
<1> DEFINE n == SetLong(m, b, v)
<1>1. n = [m EXCEPT ![b] = v[1], ![b + 1] = v[2]]
  BY DEF SetLong
<1>2. v[1] \in Word /\ v[2] \in Word /\ v = <<v[1], v[2]>> /\ b # b + 1
  OBVIOUS
<1> HIDE DEF n
<1>3. n \in [Words -> Word] /\ n[b] = v[1] /\ n[b + 1] = v[2] /\ \A z \in Words \ {b, b + 1} : n[z] = m[z]
  BY <1>1, <1>2
<1>4. GetLong(n, b) = v
  <2>1. ~ (v[1] >= W \div 2)
    <3>1. v[1] \in Nat /\ W \div 2 \in Nat
      BY <1>2, Powers DEF Word
    <3> QED
      BY <3>1
  <2> QED
    BY <1>2, <1>3, <2>1 DEF GetLong
<1>5. ASSUME NEW a \in Nat, a \div 4 \in Words, a \notin BytesFrom(4 * b, 8)
      PROVE  a \div 4 \notin {b, b + 1}
  BY <1>5 DEF BytesFrom
<1>6. \A a \in Nat : a \div 4 \in Words /\ a \notin BytesFrom(4 * b, 8) => MByte(n, a) = MByte(m, a)
  BY <1>3, <1>5 DEF MByte
<1> QED
  BY <1>3, <1>4, <1>6 DEF n

-----------------------------------------------------------------------------
(* Numbers.                                                                 *)

\* The least number of a set, without an induction principle.
LEMMA LeastNatural ==
  ASSUME NEW T \in SUBSET Nat, T # {}
  PROVE  \E x \in T : \A y \in T : x <= y
<1>1. \E x \in T : \A y \in T : ~ (<<y, x>> \in OpToRel(<, Nat))
  BY Zenon, NatLessThanWellFounded, WFMin
<1>2. PICK x \in T : \A y \in T : ~ (<<y, x>> \in OpToRel(<, Nat))
  BY Zenon, <1>1
<1>3. ASSUME NEW y \in T PROVE x <= y
  <2>1. ~ (<<y, x>> \in OpToRel(<, Nat))
    BY Zenon, <1>2
  <2>2. <<y, x>> \in Nat \X Nat
    OBVIOUS
  <2>3. ~ (y < x)
    BY Zenon, <2>1, <2>2 DEF OpToRel
  <2> QED
    BY <2>3
<1> QED
  BY <1>3

\* The recursion of Eights has a solution.
LEMMA EightsDef == Eights = [n \in 0 .. 15 |-> IF n = 0 THEN 1 ELSE 8 * Eights[n - 1]]
<1> DEFINE F(e, f) == f = [n \in 0 .. e |-> IF n = 0 THEN 1 ELSE 8 * f[n - 1]]
           Bad == {e \in Nat : ~ \E f : F(e, f)}
<1>1. Bad = {}
  <2>1. SUFFICES ASSUME Bad # {} PROVE FALSE
    OBVIOUS
  <2>2. PICK e \in Bad : \A y \in Bad : e <= y
    <3>1. Bad \in SUBSET Nat
      OBVIOUS
    <3> HIDE DEF Bad
    <3> QED
      BY <2>1, <3>1, LeastNatural
  <2>3. e # 0
    <3>1. F(0, [n \in 0 .. 0 |-> 1])
      OBVIOUS
    <3> QED
      BY <2>2, <3>1
  <2>4. PICK f : F(e - 1, f)
    <3>1. e - 1 \in Nat /\ ~ (e <= e - 1)
      BY <2>2, <2>3
    <3> QED
      BY <2>2, <3>1
  <2> DEFINE g == [n \in 0 .. e |-> IF n = e THEN 8 * f[e - 1] ELSE f[n]]
  <2>5. F(e, g)
    BY <2>2, <2>3, <2>4
  <2> QED
    BY <2>2, <2>5
<1>2. \E f : F(15, f)
  BY <1>1
<1> QED
  BY <1>2 DEF Eights

\* Each level of a tree has eight times the entries of the one below.
LEMMA EightsNat ==
  /\ Eights[0] = 1
  /\ \A n \in 1 .. 15 : Eights[n] = 8 * Eights[n - 1]
  /\ \A n \in 0 .. 15 : Eights[n] \in Nat /\ Eights[n] > 0
<1>1. Eights[0] = 1 /\ \A n \in 1 .. 15 : Eights[n] = 8 * Eights[n - 1]
  BY EightsDef
<1> DEFINE Bad == {n \in 0 .. 15 : ~ (Eights[n] \in Nat /\ Eights[n] > 0)}
<1>2. SUFFICES ASSUME Bad # {} PROVE FALSE
  BY <1>1
<1>3. PICK e \in Bad : \A y \in Bad : e <= y
  <2>1. Bad \in SUBSET Nat
    OBVIOUS
  <2> HIDE DEF Bad
  <2> QED
    BY <1>2, <2>1, LeastNatural
<1>4. e # 0
  BY <1>1, <1>3
<1>5. e - 1 \notin Bad /\ e - 1 \in 0 .. 15 /\ e \in 1 .. 15
  BY <1>3, <1>4
<1>6. Eights[e - 1] \in Nat /\ Eights[e - 1] > 0 /\ Eights[e] = 8 * Eights[e - 1]
  BY <1>1, <1>5
<1> QED
  BY <1>3, <1>6

\* The size of a unit, and how many of them a word has.
LEMMA Offsets ==
  ASSUME NEW k \in ArrayKinds
  PROVE  \E u \in {1, 2, 4} : \E p \in {1, 2, 4} :
           /\ 2 ^ ByteOffset(k) = p /\ 4 \div 2 ^ ByteOffset(k) = u /\ p * u = 4
<1>1. CASE k = "a8"
  BY <1>1 DEF ByteOffset
<1>2. CASE k = "a16"
  BY <1>2 DEF ByteOffset
<1>3. CASE k = "a32"
  BY <1>3 DEF ByteOffset
<1> QED
  BY <1>1, <1>2, <1>3 DEF ArrayKinds

-----------------------------------------------------------------------------
(* The walk down a tree.                                                    *)

Root(ref, i) == [seg |-> ref + Elements, idx |-> i]

Child(m, p, s) ==
  [seg |-> m[p.seg + p.idx \div s] \div 4, idx |-> p.idx - (p.idx \div s) * s]

\* The recursion of a walk has a solution, at every depth.
LEMMA WalkDef ==
  ASSUME NEW m, NEW ref, NEW i, NEW bo, Depth(m, ref) \in Nat
  PROVE  LET d == Depth(m, ref)
             f == Walk(m, ref, i, bo)
         IN f = [n \in 0 .. d |-> IF n = 0 THEN Root(ref, i)
                                  ELSE Child(m, f[n - 1], Stride(d - n + 1, bo))]
<1> DEFINE d == Depth(m, ref)
           E(n, p) == Child(m, p, Stride(d - n + 1, bo))
           F(e, f) == f = [n \in 0 .. e |-> IF n = 0 THEN Root(ref, i) ELSE E(n, f[n - 1])]
           Bad == {e \in Nat : ~ \E f : F(e, f)}
<1> HIDE DEF E
<1>1. Bad = {}
  <2>1. SUFFICES ASSUME Bad # {} PROVE FALSE
    OBVIOUS
  <2>2. PICK e \in Bad : \A y \in Bad : e <= y
    <3>1. Bad \in SUBSET Nat
      OBVIOUS
    <3> HIDE DEF Bad
    <3> QED
      BY <2>1, <3>1, LeastNatural
  <2>3. e # 0
    <3>1. F(0, [n \in 0 .. 0 |-> Root(ref, i)])
      OBVIOUS
    <3> QED
      BY <2>2, <3>1
  <2>4. PICK f : F(e - 1, f)
    <3>1. e - 1 \in Nat /\ ~ (e <= e - 1)
      BY <2>2, <2>3
    <3> QED
      BY <2>2, <3>1
  <2> DEFINE g == [n \in 0 .. e |-> IF n = e THEN E(e, f[e - 1]) ELSE f[n]]
  <2>5. F(e, g)
    BY <2>2, <2>3, <2>4
  <2> QED
    BY <2>2, <2>5
<1>2. \E f : F(d, f)
  BY <1>1
<1>3. Walk(m, ref, i, bo) = CHOOSE f : F(d, f)
  BY DEF Walk, Root, Child, E
<1>4. F(d, Walk(m, ref, i, bo))
  <2> HIDE DEF F, d
  <2> QED
    BY <1>2, <1>3
<1> QED
  BY <1>4 DEF E

\* What memory and the stored values are.
LEMMA MemoryFacts ==
  /\ Words \subseteq Nat /\ Memory \in [Words -> Word] /\ Word \subseteq Nat
  /\ Thread \in Nat /\ Values \subseteq Word
  BY HeapAssumption, Powers DEF Word

\* On the way to an element are the array's depth and one entry of each level.
LEMMA TrailOfArray ==
  ASSUME NEW l, l.k \in ArrayKinds
  PROVE  Trail(l) = {l.b + LengthDepth} \union {Slot(l, n) : n \in 1 .. Depth(Memory, l.b)}
<1> DEFINE T == {l.b + LengthDepth} \union {Slot(l, n) : n \in 1 .. Depth(Memory, l.b)}
<1>1. Trail(l) = CASE l.k \in ArrayKinds -> T
                   [] l.k \in {"greylist", "white"} -> {Thread + 1}
                   [] OTHER -> {}
  BY DEF Trail
<1> HIDE DEF T
<1>2. Trail(l) = T
  BY <1>1 DEF ArrayKinds
<1> QED
  BY <1>2 DEF T

\* Where the walk to an element stands after each level.
LEMMA PathDef ==
  ASSUME NEW l \in Locs, l.k \in ArrayKinds
  PROVE  LET d == Depth(Memory, l.b) IN
         /\ d \in 0 .. 15 /\ l.b + LengthDepth \in Words
         /\ Path(l) = [n \in 0 .. d |->
                        IF n = 0 THEN Root(l.b, l.i)
                        ELSE Child(Memory, Path(l)[n - 1], Stride(d - n + 1, ByteOffset(l.k)))]
         /\ \A n \in 1 .. d : Slot(l, n) \in Words
<1> DEFINE d == Depth(Memory, l.b)
<1>1. Trail(l) = {l.b + LengthDepth} \union {Slot(l, n) : n \in 1 .. d}
  BY TrailOfArray
<1>2. l.b + LengthDepth \in Words /\ \A n \in 1 .. d : Slot(l, n) \in Words
  <2>1. Trail(l) \subseteq Words
    BY HeapLaidOut DEF Layout
  <2> HIDE DEF d
  <2> QED
    BY <1>1, <2>1
<1>3. d \in 0 .. 15
  <2>1. Memory[l.b + LengthDepth] \in Nat
    BY <1>2, MemoryFacts
  <2> QED
    BY <2>1 DEF Depth
<1>4. d \in Nat
  BY <1>3
<1> QED
  BY <1>2, <1>3, <1>4, WalkDef DEF Path

\* The strides of the levels, from that of a leaf of eight words upwards.
LEMMA Strides ==
  ASSUME NEW k \in ArrayKinds
  PROVE  /\ \A h \in 0 .. 15 : Stride(h, ByteOffset(k)) \in Nat \ {0}
         /\ Stride(1, ByteOffset(k)) = 8 * 2 ^ ByteOffset(k)
         /\ \A h \in 1 .. 15 : Stride(h, ByteOffset(k)) = 8 * Stride(h - 1, ByteOffset(k))
<1>1. PICK p \in {1, 2, 4} : 2 ^ ByteOffset(k) = p
  BY Offsets
<1>2. \A h : Stride(h, ByteOffset(k)) = Eights[h] * p
  BY <1>1 DEF Stride
<1>3. \A h \in 0 .. 15 : Eights[h] * p \in Nat \ {0}
  BY EightsNat
<1>4. Eights[1] = 8
  BY EightsNat
<1>5. ASSUME NEW h \in 1 .. 15 PROVE Eights[h] * p = 8 * (Eights[h - 1] * p)
  <2>1. Eights[h] = 8 * Eights[h - 1] /\ Eights[h - 1] \in Nat
    BY EightsNat
  <2> QED
    BY <2>1
<1> QED
  BY <1>1, <1>2, <1>3, <1>4, <1>5

\* What the walk keeps of an index is below the stride, and the entry below eight.
LEMMA Remainder ==
  ASSUME NEW x \in Nat, NEW s \in Nat \ {0}
  PROVE  /\ x \div s \in Nat
         /\ x - (x \div s) * s \in Nat /\ x - (x \div s) * s < s
         /\ \A c \in Nat : x < c * s => x \div s < c
<1> DEFINE q == x \div s
           r == x % s
<1>1. q \in Nat /\ r \in Nat /\ r < s /\ x = q * s + r
  OBVIOUS
<1> HIDE DEF q, r
<1>2. x - q * s = r
  BY <1>1
<1>3. ASSUME NEW c \in Nat, x < c * s PROVE q < c
  <2>1. q * s < c * s
    BY <1>1, <1>3
  <2> QED
    BY <1>1, <2>1
<1> QED
  BY <1>1, <1>2, <1>3 DEF q

\* The locations, and what the layout says of each.
LEMMA LocFacts ==
  ASSUME NEW l \in Locs
  PROVE  /\ l \in [k : Kinds, b : Nat, i : Nat] /\ l.b \in Nat /\ l.i \in Nat /\ l.k \in Kinds
         /\ Trail(l) \subseteq Words
         /\ \A x \in Footprint(l) : x \div 4 \in Words
<1>1. /\ l \in [k : Kinds, b : Nat, i : Nat]
      /\ Trail(l) \subseteq Words
      /\ \A x \in Footprint(l) : x \div 4 \in Words
  BY Zenon, HeapLaidOut DEF Layout
<1>2. l.b \in Nat /\ l.i \in Nat /\ l.k \in Kinds
  BY <1>1
<1> QED
  BY <1>1, <1>2

\* One level of a walk: from an entry of a node to the next node.
LEMMA Levels ==
  ASSUME NEW l \in Locs, l.k \in ArrayKinds, NEW d, d = Depth(Memory, l.b)
  PROVE  /\ Path(l)[0] = Root(l.b, l.i)
         /\ \A n \in 1 .. d :
              LET p == Path(l)[n - 1]
                  s == Stride(d - n + 1, ByteOffset(l.k))
              IN /\ Path(l)[n] = Child(Memory, p, s)
                 /\ Slot(l, n) = p.seg + p.idx \div s /\ Slot(l, n) \in Words
                 /\ s \in Nat \ {0}
<1>1. /\ d \in 0 .. 15 /\ l.b + LengthDepth \in Words
      /\ Path(l) = [n \in 0 .. d |->
                        IF n = 0 THEN Root(l.b, l.i)
                        ELSE Child(Memory, Path(l)[n - 1], Stride(d - n + 1, ByteOffset(l.k)))]
      /\ \A n \in 1 .. d : Slot(l, n) \in Words
  BY PathDef
<1>2. Path(l)[0] = Root(l.b, l.i) /\ d \in 0 .. 15
  BY <1>1
<1>3. ASSUME NEW n \in 1 .. d
      PROVE  LET p == Path(l)[n - 1]
                 s == Stride(d - n + 1, ByteOffset(l.k))
             IN /\ Path(l)[n] = Child(Memory, p, s)
                /\ Slot(l, n) = p.seg + p.idx \div s /\ Slot(l, n) \in Words
                /\ s \in Nat \ {0}
  <2>1. n \in 0 .. d /\ n # 0 /\ d - n + 1 \in 0 .. 15
    BY <1>2
  <2>2. Path(l)[n] = Child(Memory, Path(l)[n - 1], Stride(d - n + 1, ByteOffset(l.k)))
    BY <1>1, <2>1
  <2>3. Stride(d - n + 1, ByteOffset(l.k)) \in Nat \ {0}
    BY <2>1, Strides
  <2>4. Slot(l, n) \in Words
    BY <1>1
  <2> QED
    BY <2>2, <2>3, <2>4 DEF Slot
<1> QED
  BY <1>2, <1>3

\* A level leaves a node, and an index within it.
LEMMA ChildTyped ==
  ASSUME NEW m \in [Words -> Word], NEW p, p.seg \in Nat, p.idx \in Nat, NEW s \in Nat \ {0},
         p.seg + p.idx \div s \in Words
  PROVE  LET c == Child(m, p, s) IN c.seg \in Nat /\ c.idx \in Nat /\ c.idx < s
<1>1. Child(m, p, s).seg = m[p.seg + p.idx \div s] \div 4
  BY DEF Child
<1>2. m[p.seg + p.idx \div s] \in Nat
  BY MemoryFacts
<1>3. Child(m, p, s).seg \in Nat
  <2> DEFINE w == m[p.seg + p.idx \div s]
  <2> HIDE DEF w
  <2> QED
    BY <1>1, <1>2 DEF w
<1>4. Child(m, p, s).idx = p.idx - (p.idx \div s) * s
  BY DEF Child
<1>5. Child(m, p, s).idx \in Nat /\ Child(m, p, s).idx < s
  <2> DEFINE x == p.idx
  <2>1. x \in Nat
    OBVIOUS
  <2> HIDE DEF x
  <2>2. x - (x \div s) * s \in Nat /\ x - (x \div s) * s < s
    BY <2>1, Remainder
  <2> QED
    BY <1>4, <2>2 DEF x
<1> QED
  BY <1>3, <1>5

\* Below the root the index is within the stride of the level above.
LEMMA PathTyped ==
  ASSUME NEW l \in Locs, l.k \in ArrayKinds, NEW d, d = Depth(Memory, l.b), NEW n \in 0 .. d
  PROVE  /\ Path(l)[n].seg \in Nat /\ Path(l)[n].idx \in Nat
         /\ n # 0 => Path(l)[n].idx < Stride(d - n + 1, ByteOffset(l.k))
<1> DEFINE Meets(k) == /\ Path(l)[k].seg \in Nat /\ Path(l)[k].idx \in Nat
                       /\ k # 0 => Path(l)[k].idx < Stride(d - k + 1, ByteOffset(l.k))
           Bad == {k \in 0 .. d : ~ Meets(k)}
<1>1. SUFFICES ASSUME Bad # {} PROVE FALSE
  OBVIOUS
<1>2. d \in 0 .. 15
  BY PathDef
<1>3. PICK k \in Bad : \A y \in Bad : k <= y
  <2>1. Bad \in SUBSET Nat
    OBVIOUS
  <2> HIDE DEF Bad
  <2> QED
    BY <1>1, <2>1, LeastNatural
<1>4. k \in 0 .. d /\ ~ Meets(k)
  OBVIOUS
<1>5. k # 0
  <2>1. Path(l)[0] = Root(l.b, l.i)
    BY Levels
  <2>2. l.b + Elements \in Nat /\ l.i \in Nat
    BY LocFacts DEF Elements
  <2> QED
    BY <1>4, <2>1, <2>2 DEF Root
<1>6. Meets(k - 1)
  <2>1. k - 1 \in 0 .. d /\ ~ (k <= k - 1)
    BY <1>2, <1>4, <1>5
  <2> QED
    BY <1>3, <2>1
<1> DEFINE p == Path(l)[k - 1]
           s == Stride(d - k + 1, ByteOffset(l.k))
<1>7. /\ Path(l)[k] = Child(Memory, p, s) /\ s \in Nat \ {0}
      /\ p.seg + p.idx \div s \in Words
  <2>1. k \in 1 .. d
    BY <1>2, <1>4, <1>5
  <2> QED
    BY <2>1, Levels
<1>8. p.seg \in Nat /\ p.idx \in Nat
  BY <1>6
<1> HIDE DEF p, s
<1>9. Child(Memory, p, s).seg \in Nat /\ Child(Memory, p, s).idx \in Nat /\ Child(Memory, p, s).idx < s
  BY <1>7, <1>8, MemoryFacts, ChildTyped
<1> QED
  BY <1>4, <1>7, <1>9 DEF s

\* As long as nothing on the way to it has changed, an element is where it was.
LEMMA WalkFixed ==
  ASSUME NEW l \in Locs, l.k \in ArrayKinds, NEW m \in [Words -> Word],
         \A w \in Trail(l) : m[w] = Memory[w]
  PROVE  /\ Depth(m, l.b) = Depth(Memory, l.b)
         /\ Walk(m, l.b, l.i, ByteOffset(l.k)) = Path(l)
<1> DEFINE d == Depth(Memory, l.b)
           f == Path(l)
           g == Walk(m, l.b, l.i, ByteOffset(l.k))
           S(n) == Stride(d - n + 1, ByteOffset(l.k))
<1>1. Trail(l) = {l.b + LengthDepth} \union {Slot(l, n) : n \in 1 .. d}
  BY TrailOfArray
<1>2. m[l.b + LengthDepth] = Memory[l.b + LengthDepth] /\ \A n \in 1 .. d : m[Slot(l, n)] = Memory[Slot(l, n)]
  <2> HIDE DEF d
  <2> QED
    BY <1>1
<1>3. Depth(m, l.b) = d
  BY <1>2 DEF Depth
<1>4. d \in 0 .. 15
  BY PathDef
<1>5. f = [n \in 0 .. d |-> IF n = 0 THEN Root(l.b, l.i) ELSE Child(Memory, f[n - 1], S(n))]
  BY PathDef
<1>6. g = [n \in 0 .. d |-> IF n = 0 THEN Root(l.b, l.i) ELSE Child(m, g[n - 1], S(n))]
  <2>1. Depth(m, l.b) \in Nat
    BY <1>3, <1>4
  <2> QED
    BY <1>3, <2>1, WalkDef
<1>7. \A n \in 1 .. d : Child(m, f[n - 1], S(n)) = Child(Memory, f[n - 1], S(n))
  <2> TAKE n \in 1 .. d
  <2>1. Slot(l, n) = f[n - 1].seg + f[n - 1].idx \div S(n)
    BY Levels
  <2>2. m[f[n - 1].seg + f[n - 1].idx \div S(n)] = Memory[f[n - 1].seg + f[n - 1].idx \div S(n)]
    BY <1>2, <2>1
  <2> QED
    BY <2>2 DEF Child
<1> HIDE DEF d, f, g, S
<1> DEFINE Bad == {n \in 0 .. d : f[n] # g[n]}
<1>8. Bad = {}
  <2>1. SUFFICES ASSUME Bad # {} PROVE FALSE
    OBVIOUS
  <2>2. PICK n \in Bad : \A y \in Bad : n <= y
    <3>1. Bad \in SUBSET Nat
      OBVIOUS
    <3> HIDE DEF Bad
    <3> QED
      BY <2>1, <3>1, LeastNatural
  <2>3. n \in 0 .. d /\ f[n] # g[n]
    OBVIOUS
  <2>4. n # 0
    BY <1>4, <1>5, <1>6, <2>3
  <2>5. n - 1 \in 0 .. d /\ ~ (n <= n - 1) /\ n \in 1 .. d
    BY <1>4, <2>3, <2>4
  <2>6. f[n - 1] = g[n - 1]
    BY <2>2, <2>5
  <2>7. f[n] = Child(Memory, f[n - 1], S(n)) /\ g[n] = Child(m, g[n - 1], S(n))
    BY <1>5, <1>6, <2>3, <2>4
  <2> QED
    BY <1>7, <2>3, <2>5, <2>6, <2>7
<1>9. f = g
  <2> DEFINE F(n) == IF n = 0 THEN Root(l.b, l.i) ELSE Child(Memory, f[n - 1], S(n))
             G(n) == IF n = 0 THEN Root(l.b, l.i) ELSE Child(m, g[n - 1], S(n))
  <2>1. f = [n \in 0 .. d |-> F(n)] /\ g = [n \in 0 .. d |-> G(n)]
    BY <1>5, <1>6
  <2> HIDE DEF F, G
  <2>2. \A n \in 0 .. d : f[n] = g[n]
    BY <1>8
  <2> QED
    BY <2>1, <2>2
<1> QED
  BY <1>3, <1>9 DEF d, f, g

-----------------------------------------------------------------------------
(* Two walks in the same array.                                             *)

\* One level further, two walks stay together or part for good.
LEMMA StepApart ==
  ASSUME NEW l1 \in Locs, NEW l2 \in Locs, SameArray(l1, l2), NEW d, d = Depth(Memory, l1.b),
         NEW n \in 1 .. d,
         \/ /\ Path(l1)[n - 1].seg = Path(l2)[n - 1].seg
            /\ Path(l1)[n - 1].idx - Path(l2)[n - 1].idx = l1.i - l2.i
         \/ /\ n - 1 # 0
            /\ \/ Path(l1)[n - 1].seg + 8 <= Path(l2)[n - 1].seg
               \/ Path(l2)[n - 1].seg + 8 <= Path(l1)[n - 1].seg
  PROVE  \/ /\ Path(l1)[n].seg = Path(l2)[n].seg
            /\ Path(l1)[n].idx - Path(l2)[n].idx = l1.i - l2.i
         \/ Path(l1)[n].seg + 8 <= Path(l2)[n].seg
         \/ Path(l2)[n].seg + 8 <= Path(l1)[n].seg
<1>1. l1.k \in ArrayKinds /\ l2.k \in ArrayKinds /\ l1.k = l2.k /\ l1.b = l2.b
  BY DEF SameArray
<1>2. d \in 0 .. 15 /\ d = Depth(Memory, l2.b)
  BY <1>1, PathDef
<1> DEFINE p1 == Path(l1)[n - 1]
           p2 == Path(l2)[n - 1]
           h == d - n + 1
           s == Stride(h, ByteOffset(l1.k))
<1>3. /\ Path(l1)[n] = Child(Memory, p1, s) /\ Slot(l1, n) = p1.seg + p1.idx \div s
      /\ Path(l2)[n] = Child(Memory, p2, s) /\ Slot(l2, n) = p2.seg + p2.idx \div s
      /\ s \in Nat \ {0}
  BY <1>1, <1>2, Levels
<1>4. n \in 1 .. 15 /\ n - 1 \in 0 .. d
  BY <1>2
<1>5. p1.seg \in Nat /\ p1.idx \in Nat /\ p2.seg \in Nat /\ p2.idx \in Nat
  BY <1>1, <1>2, <1>4, PathTyped
<1>6. ASSUME n - 1 # 0
      PROVE  p1.idx \div s < 8 /\ p2.idx \div s < 8
  <2>1. d - (n - 1) + 1 = h + 1 /\ h + 1 \in 1 .. 15 /\ (h + 1) - 1 = h
    BY <1>2, <1>6
  <2>2. p1.idx < Stride(h + 1, ByteOffset(l1.k)) /\ p2.idx < Stride(h + 1, ByteOffset(l1.k))
    <3>1. /\ p1.idx < Stride(d - (n - 1) + 1, ByteOffset(l1.k))
          /\ p2.idx < Stride(d - (n - 1) + 1, ByteOffset(l1.k))
      BY <1>1, <1>2, <1>4, <1>6, PathTyped
    <3> QED
      BY <2>1, <3>1
  <2>3. Stride(h + 1, ByteOffset(l1.k)) = 8 * s
    <3> HIDE DEF h
    <3>1. Stride(h + 1, ByteOffset(l1.k)) = 8 * Stride((h + 1) - 1, ByteOffset(l1.k))
      BY <1>1, <2>1, Strides
    <3> QED
      BY <2>1, <3>1
  <2> DEFINE x == p1.idx
             y == p2.idx
  <2>4. x \in Nat /\ y \in Nat /\ s \in Nat \ {0} /\ x < 8 * s /\ y < 8 * s
    BY <1>3, <1>5, <2>2, <2>3
  <2> HIDE DEF x, y, s
  <2>5. x \div s < 8 /\ y \div s < 8
    BY <2>4, Remainder
  <2> QED
    BY <2>5 DEF x, y
<1>7. p1.idx \div s \in Nat /\ p2.idx \div s \in Nat
  <2> DEFINE x == p1.idx
             y == p2.idx
  <2>1. x \in Nat /\ y \in Nat /\ s \in Nat \ {0}
    BY <1>3, <1>5
  <2> HIDE DEF x, y, s
  <2>2. x \div s \in Nat /\ y \div s \in Nat
    BY <2>1, Remainder
  <2> QED
    BY <2>2 DEF x, y
<1>8. CASE Slot(l1, n) # Slot(l2, n)
  <2>1. \A k \in 1 .. Depth(Memory, l1.b) : Slot(l1, k) # Slot(l2, k) =>
         \/ Path(l1)[k].seg + 8 <= Path(l2)[k].seg
         \/ Path(l2)[k].seg + 8 <= Path(l1)[k].seg
    BY Zenon, HeapLaidOut DEF Layout
  <2> QED
    BY <1>8, <2>1
<1>9. CASE Slot(l1, n) = Slot(l2, n)
  <2> DEFINE e1 == p1.idx \div s
             e2 == p2.idx \div s
             s1 == p1.seg
             s2 == p2.seg
             x1 == p1.idx
             x2 == p2.idx
  <2>1. s1 + e1 = s2 + e2 /\ s1 \in Nat /\ s2 \in Nat /\ e1 \in Nat /\ e2 \in Nat
    BY <1>3, <1>5, <1>7, <1>9
  <2>2. n - 1 # 0 => e1 < 8 /\ e2 < 8
    BY <1>6
  <2>3. \/ s1 = s2 /\ x1 - x2 = l1.i - l2.i
        \/ n - 1 # 0 /\ (s1 + 8 <= s2 \/ s2 + 8 <= s1)
    OBVIOUS
  <2>4. Path(l1)[n].seg = Memory[s1 + e1] \div 4 /\ Path(l1)[n].idx = x1 - e1 * s
    BY <1>3 DEF Child
  <2>5. Path(l2)[n].seg = Memory[s2 + e2] \div 4 /\ Path(l2)[n].idx = x2 - e2 * s
    BY <1>3 DEF Child
  <2>6. x1 \in Nat /\ x2 \in Nat /\ s \in Nat /\ l1.i \in Nat /\ l2.i \in Nat
    BY <1>3, <1>5, LocFacts
  <2> HIDE DEF e1, e2, s1, s2, x1, x2, s
  <2>7. s1 = s2 /\ x1 - x2 = l1.i - l2.i /\ e1 = e2
    BY <2>1, <2>2, <2>3
  <2>8. x1 - e1 * s - (x2 - e1 * s) = x1 - x2
    <3> DEFINE c == e1 * s
    <3>1. c \in Nat
      BY <2>1, <2>6
    <3> HIDE DEF c
    <3>2. x1 - c - (x2 - c) = x1 - x2
      BY <2>6, <3>1
    <3> QED
      BY <3>2 DEF c
  <2> QED
    BY <2>4, <2>5, <2>7, <2>8
<1> QED
  BY <1>8, <1>9

\* At the end two walks are in one leaf, as far apart as their elements, or in
\* leaves that do not overlap.
LEMMA PathsApart ==
  ASSUME NEW l1 \in Locs, NEW l2 \in Locs, SameArray(l1, l2), NEW d, d = Depth(Memory, l1.b)
  PROVE  \/ /\ Path(l1)[d].seg = Path(l2)[d].seg
            /\ Path(l1)[d].idx - Path(l2)[d].idx = l1.i - l2.i
         \/ /\ d # 0
            /\ \/ Path(l1)[d].seg + 8 <= Path(l2)[d].seg
               \/ Path(l2)[d].seg + 8 <= Path(l1)[d].seg
<1> DEFINE Meets(n) ==
             \/ /\ Path(l1)[n].seg = Path(l2)[n].seg
                /\ Path(l1)[n].idx - Path(l2)[n].idx = l1.i - l2.i
             \/ /\ n # 0
                /\ \/ Path(l1)[n].seg + 8 <= Path(l2)[n].seg
                   \/ Path(l2)[n].seg + 8 <= Path(l1)[n].seg
           Bad == {n \in 0 .. d : ~ Meets(n)}
<1>1. l1.k \in ArrayKinds /\ l2.k \in ArrayKinds /\ l1.k = l2.k /\ l1.b = l2.b
  BY DEF SameArray
<1>2. d \in 0 .. 15
  BY <1>1, PathDef
<1>3. SUFFICES ASSUME Bad # {} PROVE FALSE
  BY <1>2
<1>4. PICK n \in Bad : \A y \in Bad : n <= y
  <2>1. Bad \in SUBSET Nat
    OBVIOUS
  <2> HIDE DEF Bad
  <2> QED
    BY <1>3, <2>1, LeastNatural
<1>5. n \in 0 .. d /\ ~ Meets(n)
  OBVIOUS
<1>6. n # 0
  <2>1. Path(l1)[0] = Root(l1.b, l1.i) /\ Path(l2)[0] = Root(l2.b, l2.i)
    BY <1>1, Levels
  <2>2. Meets(0)
    BY <1>1, <2>1 DEF Root
  <2> QED
    BY <1>5, <2>2
<1>7. n \in 1 .. d /\ n - 1 \in 0 .. d /\ ~ (n <= n - 1)
  BY <1>2, <1>5, <1>6
<1>8. Meets(n - 1)
  BY <1>4, <1>7
<1>9. Meets(n)
  BY <1>6, <1>7, <1>8, StepApart
<1> QED
  BY <1>5, <1>9

-----------------------------------------------------------------------------
(* Where each location is.                                                  *)

\* The unit of an element.
LEMMA PlaceOfArray ==
  ASSUME NEW l \in Locs, l.k \in ArrayKinds, NEW d, d = Depth(Memory, l.b)
  PROVE  \E u \in {1, 2, 4} : \E p \in {1, 2, 4} :
           /\ u * p = 4 /\ 2 ^ ByteOffset(l.k) = p
           /\ Place(Memory, l) = <<u, Path(l)[d].seg * p + Path(l)[d].idx>>
<1>1. PICK u \in {1, 2, 4}, p \in {1, 2, 4} :
        2 ^ ByteOffset(l.k) = p /\ 4 \div 2 ^ ByteOffset(l.k) = u /\ p * u = 4
  BY Offsets
<1>2. Place(Memory, l) = ArrayPlace(Memory, l.k, l.b, l.i)
  BY DEF Place, ArrayKinds
<1>3. Resolve(Memory, l.b, l.i, ByteOffset(l.k)) = Path(l)[d]
  BY DEF Resolve, Path
<1> DEFINE r == Path(l)[d]
           f == 2 ^ ByteOffset(l.k)
<1>4. ArrayPlace(Memory, l.k, l.b, l.i) = <<4 \div f, r.seg * f + r.idx>>
  BY <1>3 DEF ArrayPlace
<1>5. f = p /\ 4 \div f = u
  BY <1>1
<1> HIDE DEF f, r
<1>6. Place(Memory, l) = <<u, r.seg * p + r.idx>>
  BY <1>2, <1>4, <1>5
<1>7. u * p = 4
  BY <1>1
<1> QED
  BY <1>1, <1>6, <1>7 DEF r

Plain(l) == l.k \notin {"l", "len"}

\* As long as nothing on the way to it has changed, a location is where it was.
LEMMA PlaceFixed ==
  ASSUME NEW l \in Locs, Plain(l), NEW m \in [Words -> Word],
         \A w \in Trail(l) : m[w] = Memory[w]
  PROVE  Place(m, l) = Place(Memory, l)
<1>1. CASE l.k \in ArrayKinds
  <2>1. /\ Depth(m, l.b) = Depth(Memory, l.b)
        /\ Walk(m, l.b, l.i, ByteOffset(l.k)) = Walk(Memory, l.b, l.i, ByteOffset(l.k))
    BY <1>1, WalkFixed DEF Path
  <2>2. Resolve(m, l.b, l.i, ByteOffset(l.k)) = Resolve(Memory, l.b, l.i, ByteOffset(l.k))
    BY <2>1 DEF Resolve
  <2>3. ArrayPlace(m, l.k, l.b, l.i) = ArrayPlace(Memory, l.k, l.b, l.i)
    BY <2>2 DEF ArrayPlace
  <2> QED
    BY <1>1, <2>3 DEF Place, ArrayKinds
<1>2. CASE l.k \in {"w", "s", "b"}
  BY <1>2 DEF Place, ArrayKinds
<1>3. CASE l.k \notin ArrayKinds \union {"w", "s", "b"}
  <2>1. Place(m, l) = StatePlace(m, l.k) /\ Place(Memory, l) = StatePlace(Memory, l.k)
    <3>1. l.k \notin ArrayKinds /\ l.k \notin {"w", "s", "b"}
      BY <1>3
    <3> QED
      BY <3>1 DEF Place
  <2>2. CASE l.k \in {"greylist", "white"}
    <3>1. Trail(l) = {Thread + 1}
      BY <2>2 DEF Trail, ArrayKinds
    <3>2. GcEnv(m) = GcEnv(Memory)
      BY <3>1 DEF GcEnv
    <3> QED
      BY <2>1, <2>2, <3>2 DEF StatePlace
  <2>3. CASE l.k \notin {"greylist", "white"}
    <3>1. l.k \in {"cli", "javastacksize", "plainalloc"}
      BY <1>3, <2>3, LocFacts DEF Kinds, Plain
    <3> QED
      BY <2>1, <3>1 DEF StatePlace
  <2> QED
    BY <2>2, <2>3
<1> QED
  BY <1>1, <1>2, <1>3

\* A location is a unit of one, two or four bytes.
LEMMA PlaceTyped ==
  ASSUME NEW l \in Locs, Plain(l)
  PROVE  Place(Memory, l) \in {1, 2, 4} \X Nat
<1>1. CASE l.k \in ArrayKinds
  <2> DEFINE d == Depth(Memory, l.b)
  <2>1. PICK u \in {1, 2, 4}, p \in {1, 2, 4} :
          Place(Memory, l) = <<u, Path(l)[d].seg * p + Path(l)[d].idx>>
    BY <1>1, PlaceOfArray
  <2>2. d \in 0 .. d
    BY <1>1, PathDef
  <2>3. Path(l)[d].seg \in Nat /\ Path(l)[d].idx \in Nat
    BY <1>1, <2>2, PathTyped
  <2> DEFINE x == Path(l)[d].seg
             y == Path(l)[d].idx
  <2> HIDE DEF x, y
  <2>4. x * p + y \in Nat
    BY <2>3 DEF x, y
  <2> QED
    BY <2>1, <2>4 DEF x, y
<1>2. CASE l.k \in {"w", "s", "b"}
  <2>1. Place(Memory, l) = FieldPlace(l.k, l.b, l.i)
    BY <1>2 DEF Place, ArrayKinds
  <2>2. l.b \in Nat /\ l.i \in Nat
    BY LocFacts
  <2> QED
    BY <1>2, <2>1, <2>2 DEF FieldPlace
<1>3. CASE l.k \notin ArrayKinds \union {"w", "s", "b"}
  <2>1. Place(Memory, l) = StatePlace(Memory, l.k)
    BY <1>3 DEF Place
  <2>2. l.k \in {"greylist", "white", "cli", "javastacksize", "plainalloc"}
    BY <1>3, LocFacts DEF Kinds, Plain
  <2>3. CASE l.k \in {"greylist", "white"}
    <3>1. Trail(l) = {Thread + 1}
      BY <2>3 DEF Trail, ArrayKinds
    <3>2. Thread + 1 \in Words
      BY <3>1, LocFacts
    <3>3. Memory[Thread + 1] \in Nat
      BY <3>2, MemoryFacts
    <3>4. GcEnv(Memory) \in Nat
      BY <3>3 DEF GcEnv
    <3> QED
      BY <2>1, <2>3, <3>4 DEF StatePlace
  <2>4. CASE l.k \notin {"greylist", "white"}
    BY <2>1, <2>2, <2>4, MemoryFacts DEF StatePlace
  <2> QED
    BY <2>3, <2>4
<1> QED
  BY <1>1, <1>2, <1>3

\* The bytes of each kind of location.
LEMMA ExtentOf ==
  ASSUME NEW l \in Locs
  PROVE  /\ l.k = "l" => Extent(l) = BytesFrom(4 * l.b, 8)
         /\ l.k = "len" => Extent(l) = BytesFrom(4 * (l.b + LengthDepth), 4)
         /\ Plain(l) => Extent(l) = BytesFrom(Place(Memory, l)[1] * Place(Memory, l)[2], Place(Memory, l)[1])
BY DEF Extent, Plain

\* The element of a tree lies in its leaf.
LEMMA InLeaf ==
  ASSUME NEW u \in {1, 2, 4}, NEW p \in {1, 2, 4}, u * p = 4,
         NEW seg \in Nat, NEW idx \in Nat
  PROVE  /\ u * (seg * p + idx) = 4 * seg + u * idx
         /\ idx < 8 * p => BytesFrom(u * (seg * p + idx), u) \subseteq BytesFrom(4 * seg, 32)
<1>1. CASE u = 1 /\ p = 4
  BY <1>1 DEF BytesFrom
<1>2. CASE u = 2 /\ p = 2
  BY <1>2 DEF BytesFrom
<1>3. CASE u = 4 /\ p = 1
  BY <1>3 DEF BytesFrom
<1> QED
  BY <1>1, <1>2, <1>3

\* The bytes of an element, and its leaf.
LEMMA ElementExtent ==
  ASSUME NEW l \in Locs, l.k \in ArrayKinds, NEW d, d = Depth(Memory, l.b)
  PROVE  \E u \in {1, 2, 4} : \E p \in {1, 2, 4} :
           /\ u * p = 4 /\ 2 ^ ByteOffset(l.k) = p
           /\ Path(l)[d].seg \in Nat /\ Path(l)[d].idx \in Nat
           /\ Extent(l) = BytesFrom(4 * Path(l)[d].seg + u * Path(l)[d].idx, u)
           /\ d # 0 => Extent(l) \subseteq BytesFrom(4 * Path(l)[d].seg, 32)
<1> DEFINE seg == Path(l)[d].seg
           idx == Path(l)[d].idx
<1>1. PICK u \in {1, 2, 4}, p \in {1, 2, 4} :
        /\ u * p = 4 /\ 2 ^ ByteOffset(l.k) = p
        /\ Place(Memory, l) = <<u, seg * p + idx>>
  BY PlaceOfArray
<1>2. d \in 0 .. 15 /\ d \in 0 .. d /\ (d # 0 => d - d + 1 = 1)
  BY PathDef
<1>3. seg \in Nat /\ idx \in Nat /\ (d # 0 => idx < Stride(1, ByteOffset(l.k)))
  <2>1. /\ seg \in Nat /\ idx \in Nat
        /\ d # 0 => idx < Stride(d - d + 1, ByteOffset(l.k))
    BY <1>2, PathTyped
  <2> QED
    BY <1>2, <2>1
<1>4. Stride(1, ByteOffset(l.k)) = 8 * p
  BY <1>1, Strides
<1>5. Extent(l) = BytesFrom(u * (seg * p + idx), u)
  <2>1. Plain(l)
    BY DEF Plain, ArrayKinds
  <2> HIDE DEF seg, idx
  <2>2. Place(Memory, l)[1] = u /\ Place(Memory, l)[2] = seg * p + idx
    BY <1>1
  <2> QED
    BY <2>1, <2>2, ExtentOf
<1> HIDE DEF seg, idx
<1>6. /\ u * (seg * p + idx) = 4 * seg + u * idx
      /\ d # 0 => BytesFrom(u * (seg * p + idx), u) \subseteq BytesFrom(4 * seg, 32)
  <2>1. d # 0 => idx < 8 * p
    BY <1>3, <1>4
  <2>2. /\ u * (seg * p + idx) = 4 * seg + u * idx
        /\ idx < 8 * p => BytesFrom(u * (seg * p + idx), u) \subseteq BytesFrom(4 * seg, 32)
    <3>1. u * p = 4 /\ seg \in Nat /\ idx \in Nat
      BY <1>1, <1>3
    <3> QED
      BY Zenon, <3>1, InLeaf
  <2> QED
    BY <2>1, <2>2
<1> QED
  BY <1>1, <1>3, <1>5, <1>6 DEF seg, idx

\* A location lies in what its owner has set aside for it.
LEMMA ExtentInFootprint ==
  ASSUME NEW l \in Locs
  PROVE  Extent(l) \subseteq Footprint(l)
<1>1. CASE l.k \in ArrayKinds /\ Depth(Memory, l.b) > 0
  <2>1. Footprint(l) = BytesFrom(4 * Path(l)[Depth(Memory, l.b)].seg, 32)
    BY <1>1 DEF Footprint
  <2>2. Depth(Memory, l.b) \in 0 .. 15
    BY <1>1, PathDef
  <2>3. Extent(l) \subseteq BytesFrom(4 * Path(l)[Depth(Memory, l.b)].seg, 32)
    BY <1>1, <2>2, ElementExtent
  <2> QED
    BY <2>1, <2>3
<1>2. CASE ~ (l.k \in ArrayKinds /\ Depth(Memory, l.b) > 0)
  BY Zenon, <1>2 DEF Footprint
<1> QED
  BY <1>1, <1>2

\* A location lies in memory.
LEMMA ExtentTyped ==
  ASSUME NEW l \in Locs
  PROVE  \A a \in Extent(l) : a \in Nat /\ a \div 4 \in Words
<1>1. l.b \in Nat /\ \A a \in Extent(l) : a \div 4 \in Words
  BY LocFacts, ExtentInFootprint
<1>2. ASSUME Plain(l)
      PROVE  Extent(l) \subseteq Nat
  <2>1. Place(Memory, l) \in {1, 2, 4} \X Nat
    BY <1>2, PlaceTyped
  <2>2. PICK u \in {1, 2, 4}, x \in Nat : Place(Memory, l)[1] = u /\ Place(Memory, l)[2] = x
    BY <2>1
  <2>3. Extent(l) = BytesFrom(u * x, u)
    BY <1>2, <2>2, ExtentOf
  <2>4. u * x \in Nat
    OBVIOUS
  <2> QED
    BY <2>3, <2>4 DEF BytesFrom
<1>3. ASSUME ~ Plain(l)
      PROVE  Extent(l) \subseteq Nat
  <2>1. Extent(l) = BytesFrom(4 * l.b, 8) \/ Extent(l) = BytesFrom(4 * (l.b + LengthDepth), 4)
    BY <1>3, ExtentOf DEF Plain
  <2> QED
    BY <1>1, <2>1 DEF BytesFrom, LengthDepth
<1> QED
  BY <1>1, <1>2, <1>3

\* Two elements of an array have no byte in common.
LEMMA ElementsApart ==
  ASSUME NEW l1 \in Locs, NEW l2 \in Locs, SameArray(l1, l2), l1.i # l2.i
  PROVE  Extent(l1) \intersect Extent(l2) = {}
<1> DEFINE d == Depth(Memory, l1.b)
           s1 == Path(l1)[d].seg
           s2 == Path(l2)[d].seg
           x1 == Path(l1)[d].idx
           x2 == Path(l2)[d].idx
<1>1. l1.k \in ArrayKinds /\ l2.k \in ArrayKinds /\ l1.k = l2.k /\ l1.b = l2.b
  BY DEF SameArray
<1>2. PICK u1 \in {1, 2, 4}, p1 \in {1, 2, 4} :
        /\ u1 * p1 = 4 /\ 2 ^ ByteOffset(l1.k) = p1
        /\ s1 \in Nat /\ x1 \in Nat
        /\ Extent(l1) = BytesFrom(4 * s1 + u1 * x1, u1)
        /\ d # 0 => Extent(l1) \subseteq BytesFrom(4 * s1, 32)
  BY <1>1, ElementExtent
<1>3. PICK u2 \in {1, 2, 4}, p2 \in {1, 2, 4} :
        /\ u2 * p2 = 4 /\ 2 ^ ByteOffset(l2.k) = p2
        /\ s2 \in Nat /\ x2 \in Nat
        /\ Extent(l2) = BytesFrom(4 * s2 + u2 * x2, u2)
        /\ d # 0 => Extent(l2) \subseteq BytesFrom(4 * s2, 32)
  BY <1>1, ElementExtent
<1>4. u1 = u2
  <2>1. p1 = p2
    BY <1>1, <1>2, <1>3
  <2> QED
    BY <1>2, <1>3, <2>1
<1>5. \/ s1 = s2 /\ x1 - x2 = l1.i - l2.i
      \/ d # 0 /\ (s1 + 8 <= s2 \/ s2 + 8 <= s1)
  BY PathsApart
<1>6. l1.i \in Nat /\ l2.i \in Nat
  BY LocFacts
<1> HIDE DEF s1, s2, x1, x2
<1>7. CASE s1 = s2 /\ x1 - x2 = l1.i - l2.i
  <2>1. x1 # x2
    BY <1>2, <1>3, <1>6, <1>7
  <2>2. u1 * x1 + u1 <= u1 * x2 \/ u1 * x2 + u1 <= u1 * x1
    <3>1. u1 = 1 \/ u1 = 2 \/ u1 = 4
      OBVIOUS
    <3> QED
      BY <1>2, <1>3, <2>1, <3>1
  <2> DEFINE y1 == u1 * x1
             y2 == u1 * x2
  <2>3. y1 \in Nat /\ y2 \in Nat /\ (y1 + u1 <= y2 \/ y2 + u1 <= y1)
    BY <1>2, <1>3, <2>2
  <2>4. Extent(l1) = BytesFrom(4 * s1 + y1, u1) /\ Extent(l2) = BytesFrom(4 * s1 + y2, u1)
    BY <1>2, <1>3, <1>4, <1>7
  <2> HIDE DEF y1, y2
  <2> QED
    BY <1>2, <2>3, <2>4 DEF BytesFrom
<1>8. CASE d # 0 /\ (s1 + 8 <= s2 \/ s2 + 8 <= s1)
  <2>1. Extent(l1) \subseteq BytesFrom(4 * s1, 32) /\ Extent(l2) \subseteq BytesFrom(4 * s2, 32)
    BY <1>2, <1>3, <1>8
  <2>2. BytesFrom(4 * s1, 32) \intersect BytesFrom(4 * s2, 32) = {}
    BY <1>2, <1>3, <1>8 DEF BytesFrom
  <2> QED
    BY <2>1, <2>2
<1> QED
  BY <1>5, <1>7, <1>8

\* Two locations, of which one is stored in, have no byte in common.
LEMMA ExtentsApart ==
  ASSUME NEW l1 \in Locs, NEW l2 \in Locs, ValuesOf(l1) # {}, l1 # l2
  PROVE  Extent(l1) \intersect Extent(l2) = {}
<1>1. CASE SameArray(l1, l2)
  <2>1. l1.k = l2.k /\ l1.b = l2.b
    BY <1>1 DEF SameArray
  <2>2. l1 \in [k : Kinds, b : Nat, i : Nat] /\ l2 \in [k : Kinds, b : Nat, i : Nat]
    BY LocFacts
  <2>3. l1.i # l2.i
    BY <2>1, <2>2
  <2> QED
    BY <1>1, <2>3, ElementsApart
<1>2. CASE ~ SameArray(l1, l2)
  <2>1. Footprint(l1) \intersect Footprint(l2) = {}
    BY Zenon, <1>2, HeapLaidOut DEF Layout
  <2> QED
    BY <2>1, ExtentInFootprint
<1> QED
  BY <1>1, <1>2

\* A store leaves alone what leads to any location.
LEMMA TrailsApart ==
  ASSUME NEW l1 \in Locs, NEW l2 \in Locs, ValuesOf(l1) # {}, NEW w \in Trail(l2)
  PROVE  Extent(l1) \intersect BytesFrom(4 * w, 4) = {} /\ w \in Words
<1>1. Footprint(l1) \intersect BytesFrom(4 * w, 4) = {}
  BY Zenon, HeapLaidOut DEF Layout
<1> QED
  BY <1>1, ExtentInFootprint, LocFacts

-----------------------------------------------------------------------------
(* Loads and stores.                                                        *)

\* What is stored fits the unit it is stored in.
LEMMA ValueFits ==
  ASSUME NEW l \in Locs, Plain(l), NEW v \in ValuesOf(l)
  PROVE  v \in Nat /\ v % UnitsOf(Place(Memory, l)[1]) = v
<1>1. B \in Nat /\ B > 0 /\ B * B \in Nat /\ B * B > 0 /\ W \in Nat /\ Values \subseteq 0 .. W - 1
  BY Powers, MemoryFacts DEF Word
<1>2. UnitsOf(4) = W /\ UnitsOf(2) = B * B /\ UnitsOf(1) = B
  BY DEF UnitsOf
<1>3. l.k \in ArrayKinds =>
        Place(Memory, l)[1] = IF l.k = "a8" THEN 1 ELSE IF l.k = "a16" THEN 2 ELSE 4
  <2> SUFFICES ASSUME l.k \in ArrayKinds
               PROVE  Place(Memory, l)[1] = IF l.k = "a8" THEN 1 ELSE IF l.k = "a16" THEN 2 ELSE 4
    OBVIOUS
  <2>1. Place(Memory, l) = ArrayPlace(Memory, l.k, l.b, l.i)
    BY DEF Place, ArrayKinds
  <2>2. Place(Memory, l)[1] = 4 \div 2 ^ ByteOffset(l.k)
    BY <2>1 DEF ArrayPlace
  <2>3. CASE l.k = "a8"
    BY <2>2, <2>3 DEF ByteOffset
  <2>4. CASE l.k = "a16"
    BY <2>2, <2>4 DEF ByteOffset
  <2>5. CASE l.k = "a32"
    BY <2>2, <2>5 DEF ByteOffset
  <2> QED
    BY <2>3, <2>4, <2>5 DEF ArrayKinds
<1>4. l.k \in {"w", "s", "b"} =>
        Place(Memory, l)[1] = IF l.k = "b" THEN 1 ELSE IF l.k = "s" THEN 2 ELSE 4
  BY DEF Place, FieldPlace, ArrayKinds
<1>5. l.k \notin ArrayKinds \union {"w", "s", "b"} => Place(Memory, l)[1] = 4
  <2> SUFFICES ASSUME l.k \notin ArrayKinds, l.k \notin {"w", "s", "b"}
               PROVE  Place(Memory, l)[1] = 4
    OBVIOUS
  <2>1. Place(Memory, l) = StatePlace(Memory, l.k)
    BY DEF Place
  <2>2. l.k \in {"greylist", "white", "cli", "javastacksize", "plainalloc"}
    BY LocFacts DEF Kinds, Plain
  <2> QED
    BY <2>1, <2>2 DEF StatePlace
<1>6. CASE l.k \in {"a8", "b"}
  <2>1. PICK x \in Values : v = x % B
    BY <1>6 DEF ValuesOf
  <2>2. Place(Memory, l)[1] = 1
    BY <1>3, <1>4, <1>6 DEF ArrayKinds
  <2> QED
    BY <1>1, <1>2, <2>1, <2>2
<1>7. CASE l.k \in {"a16", "s"}
  <2>1. PICK x \in Values : v = x % (B * B)
    BY <1>7 DEF ValuesOf
  <2>2. Place(Memory, l)[1] = 2
    BY <1>3, <1>4, <1>7 DEF ArrayKinds
  <2> DEFINE c == B * B
  <2>3. c \in Nat /\ c > 0 /\ x \in Nat /\ v = x % c /\ UnitsOf(2) = c
    BY <1>1, <1>2, <2>1
  <2> HIDE DEF c
  <2> QED
    BY <2>2, <2>3
<1>8. CASE l.k \notin {"a8", "b", "a16", "s"}
  <2>1. v \in Values
    BY <1>8, LocFacts DEF ValuesOf, Plain, Kinds
  <2>2. Place(Memory, l)[1] = 4
    BY <1>3, <1>4, <1>5, <1>8
  <2> QED
    BY <1>1, <1>2, <2>1, <2>2
<1> QED
  BY <1>6, <1>7, <1>8

\* Memory in which everything can still be found.
Sound(m) ==
  /\ m \in [Words -> Word]
  /\ \A l \in Locs : \A w \in Trail(l) : m[w] = Memory[w]

\* The words of a location of one or two.
LEMMA WordInExtent ==
  ASSUME NEW b \in Nat, NEW n \in {4, 8}, \A a \in BytesFrom(4 * b, n) : a \div 4 \in Words
  PROVE  /\ b \in Words /\ BytesFrom(4 * b, 4) \subseteq BytesFrom(4 * b, n)
         /\ n = 8 => b + 1 \in Words /\ BytesFrom(4 * (b + 1), 4) \subseteq BytesFrom(4 * b, n)
<1>1. 4 * b \in BytesFrom(4 * b, n) /\ (4 * b) \div 4 = b
  BY DEF BytesFrom
<1>2. n = 8 => 4 * b + 4 \in BytesFrom(4 * b, n) /\ (4 * b + 4) \div 4 = b + 1
  BY DEF BytesFrom
<1>3. BytesFrom(4 * b, 4) \subseteq BytesFrom(4 * b, n)
  BY DEF BytesFrom
<1>4. n = 8 => BytesFrom(4 * (b + 1), 4) \subseteq BytesFrom(4 * b, n)
  BY DEF BytesFrom
<1>5. (4 * b) \div 4 \in Words /\ (n = 8 => (4 * b + 4) \div 4 \in Words)
  BY <1>1, <1>2
<1> QED
  BY <1>1, <1>2, <1>3, <1>4, <1>5

\* A load finds the unit of its location where it was at first.
LEMMA LoadPlain ==
  ASSUME NEW l \in Locs, Plain(l), NEW m, Sound(m), NEW u, NEW x, Place(Memory, l) = <<u, x>>
  PROVE  Load(m, l) = Get(m, u, x)
<1>1. Place(m, l) = <<u, x>>
  BY PlaceFixed DEF Sound
<1> QED
  BY <1>1 DEF Load, Plain

\* A load gives what the bytes of its location hold.
LEMMA LoadDepends ==
  ASSUME NEW l \in Locs, NEW m, NEW n, Sound(m), Sound(n),
         \A a \in Extent(l) : MByte(m, a) = MByte(n, a)
  PROVE  Load(m, l) = Load(n, l)
<1>1. m \in [Words -> Word] /\ n \in [Words -> Word] /\ Words \subseteq Nat
  BY MemoryFacts DEF Sound
<1>2. \A a \in Extent(l) : a \in Nat /\ a \div 4 \in Words
  BY ExtentTyped
<1>3. l.b \in Nat
  BY LocFacts
<1>4. ASSUME NEW w \in Words, BytesFrom(4 * w, 4) \subseteq Extent(l)
      PROVE  m[w] = n[w]
  BY <1>1, <1>4, SameWord
<1>5. CASE l.k = "l"
  <2>1. Extent(l) = BytesFrom(4 * l.b, 8)
    BY <1>5, ExtentOf
  <2>2. /\ l.b \in Words /\ BytesFrom(4 * l.b, 4) \subseteq Extent(l)
        /\ l.b + 1 \in Words /\ BytesFrom(4 * (l.b + 1), 4) \subseteq Extent(l)
    BY <1>2, <1>3, <2>1, WordInExtent
  <2>3. m[l.b] = n[l.b] /\ m[l.b + 1] = n[l.b + 1]
    BY <1>4, <2>2
  <2>4. GetLong(m, l.b) = GetLong(n, l.b)
    BY <2>3 DEF GetLong
  <2> QED
    BY <1>5, <2>4 DEF Load
<1>6. CASE l.k = "len"
  <2> DEFINE b == l.b + LengthDepth
  <2>1. Extent(l) = BytesFrom(4 * b, 4)
    BY <1>6, ExtentOf
  <2>2. b \in Nat
    BY <1>3 DEF LengthDepth
  <2> HIDE DEF b
  <2>3. b \in Words /\ BytesFrom(4 * b, 4) \subseteq Extent(l)
    BY <1>2, <2>1, <2>2, WordInExtent
  <2>4. m[b] = n[b]
    BY <1>4, <2>3
  <2>5. GetArrayLength(m, l.b) = GetArrayLength(n, l.b)
    BY <2>4 DEF GetArrayLength, b
  <2> QED
    BY <1>6, <2>5 DEF Load
<1>7. CASE Plain(l)
  <2>1. Place(Memory, l) \in {1, 2, 4} \X Nat
    BY <1>7, PlaceTyped
  <2>2. PICK u \in {1, 2, 4}, x \in Nat : Place(Memory, l) = <<u, x>>
    BY <2>1
  <2>3. Extent(l) = BytesFrom(u * x, u)
    BY <1>7, <2>2, ExtentOf
  <2>4. (x * u) \div 4 \in Words
    <3>1. u * x \in BytesFrom(u * x, u) /\ u * x = x * u
      BY DEF BytesFrom
    <3> QED
      BY <1>2, <2>3, <3>1
  <2>5. Get(m, u, x) = Get(n, u, x)
    <3>1. \A a \in BytesFrom(u * x, u) : MByte(m, a) = MByte(n, a)
      BY <2>3
    <3> QED
      BY Zenon, <1>1, <2>4, <3>1, GetDepends
  <2> QED
    BY <1>7, <2>2, <2>5, LoadPlain
<1> QED
  BY <1>5, <1>6, <1>7 DEF Plain

Stored(m, l, v) ==
  IF l.k = "l" THEN SetLong(m, l.b, v) ELSE LET p == Place(m, l) IN Set(m, p[1], p[2], v)

\* A store changes bytes of its location only.
LEMMA StoreWrites ==
  ASSUME NEW l \in Locs, NEW v \in ValuesOf(l), NEW m, Sound(m)
  PROVE  LET n == Stored(m, l, v) IN
         /\ n \in [Words -> Word]
         /\ \A a \in Nat : a \div 4 \in Words /\ a \notin Extent(l) => MByte(n, a) = MByte(m, a)
         /\ Sound(n) => Load(n, l) = v
<1> DEFINE n == Stored(m, l, v)
<1>1. m \in [Words -> Word] /\ Words \subseteq Nat
  BY MemoryFacts DEF Sound
<1>2. \A a \in Extent(l) : a \in Nat /\ a \div 4 \in Words
  BY ExtentTyped
<1>3. l.b \in Nat
  BY LocFacts
<1>4. CASE l.k = "l"
  <2>1. n = SetLong(m, l.b, v)
    BY <1>4 DEF Stored
  <2>2. Extent(l) = BytesFrom(4 * l.b, 8)
    BY <1>4, ExtentOf
  <2>3. l.b \in Words /\ l.b + 1 \in Words
    BY <1>2, <1>3, <2>2, WordInExtent
  <2>4. v \in Word \X Word /\ v[1] < W \div 2
    <3>1. v \in {x \in Values : x < W \div 2} \X Values
      BY <1>4 DEF ValuesOf
    <3> QED
      BY <3>1, MemoryFacts
  <2> HIDE DEF n
  <2>5. /\ n \in [Words -> Word] /\ GetLong(n, l.b) = v
        /\ \A a \in Nat : a \div 4 \in Words /\ a \notin BytesFrom(4 * l.b, 8) =>
             MByte(n, a) = MByte(m, a)
    BY <1>1, <1>3, <2>1, <2>3, <2>4, LongWrites
  <2>6. Load(n, l) = v
    BY <1>4, <2>5 DEF Load
  <2> QED
    BY <2>2, <2>5, <2>6 DEF n
<1>5. CASE l.k = "len"
  BY <1>5 DEF ValuesOf
<1>6. CASE Plain(l)
  <2>1. Place(Memory, l) \in {1, 2, 4} \X Nat
    BY <1>6, PlaceTyped
  <2>2. PICK u \in {1, 2, 4}, x \in Nat : Place(Memory, l) = <<u, x>>
    BY <2>1
  <2>3. Extent(l) = BytesFrom(u * x, u)
    BY <1>6, <2>2, ExtentOf
  <2>4. (x * u) \div 4 \in Words
    <3>1. u * x \in BytesFrom(u * x, u) /\ u * x = x * u
      BY DEF BytesFrom
    <3> QED
      BY <1>2, <2>3, <3>1
  <2>5. n = Set(m, u, x, v)
    <3>1. Place(m, l) = <<u, x>>
      BY <1>6, <2>2, PlaceFixed DEF Sound
    <3> QED
      BY <1>6, <3>1 DEF Stored, Plain
  <2>6. v \in Nat /\ v % UnitsOf(u) = v
    BY <1>6, <2>2, ValueFits
  <2> HIDE DEF n
  <2>7. /\ n \in [Words -> Word] /\ Get(n, u, x) = v
        /\ \A a \in Nat : a \div 4 \in Words /\ a \notin BytesFrom(u * x, u) =>
              MByte(n, a) = MByte(m, a)
    <3>1. Written(m, n, u, x, v)
      BY <1>1, <2>4, <2>5, <2>6, SetWrites
    <3> QED
      BY Zenon, <2>6, <3>1 DEF Written
  <2>8. Sound(n) => Load(n, l) = v
    BY <1>6, <2>2, <2>7, LoadPlain
  <2> QED
    BY <2>3, <2>7, <2>8 DEF n
<1> QED
  BY <1>4, <1>5, <1>6 DEF Plain

\* A store keeps every location where it is, is what a load of its own location
\* then gives, and changes what a load gives of no other.
LEMMA StoreSound ==
  ASSUME NEW l \in Locs, NEW v \in ValuesOf(l), NEW m, Sound(m)
  PROVE  /\ Sound(Stored(m, l, v))
         /\ Load(Stored(m, l, v), l) = v
         /\ \A c \in Locs \ {l} : Load(Stored(m, l, v), c) = Load(m, c)
<1> DEFINE n == Stored(m, l, v)
<1>1. /\ n \in [Words -> Word]
      /\ \A a \in Nat : a \div 4 \in Words /\ a \notin Extent(l) => MByte(n, a) = MByte(m, a)
      /\ Sound(n) => Load(n, l) = v
  BY StoreWrites
<1>2. ValuesOf(l) # {}
  OBVIOUS
<1> HIDE DEF n
<1>3. m \in [Words -> Word] /\ Words \subseteq Nat
  BY MemoryFacts DEF Sound
<1>4. ASSUME NEW c \in Locs, NEW w \in Trail(c)
      PROVE  n[w] = Memory[w]
  <2>1. Extent(l) \intersect BytesFrom(4 * w, 4) = {} /\ w \in Words
    BY <1>2, TrailsApart
  <2>2. w \in Nat
    BY <1>3, <2>1
  <2>3. \A a \in BytesFrom(4 * w, 4) : a \in Nat /\ a \div 4 = w
    BY <2>2 DEF BytesFrom
  <2>4. \A a \in BytesFrom(4 * w, 4) : MByte(n, a) = MByte(m, a)
    BY <1>1, <2>1, <2>3
  <2>5. n[w] = m[w]
    BY <1>1, <1>3, <2>1, <2>4, SameWord
  <2>6. m[w] = Memory[w]
    BY DEF Sound
  <2> QED
    BY <2>5, <2>6
<1>5. Sound(n)
  BY <1>1, <1>4 DEF Sound
<1>6. ASSUME NEW c \in Locs, c # l
      PROVE  Load(n, c) = Load(m, c)
  <2>1. Extent(l) \intersect Extent(c) = {}
    BY <1>2, <1>6, ExtentsApart
  <2>2. \A a \in Extent(c) : a \in Nat /\ a \div 4 \in Words
    BY ExtentTyped
  <2>3. \A a \in Extent(c) : MByte(n, a) = MByte(m, a)
    BY <1>1, <2>1, <2>2
  <2> QED
    BY <1>5, <2>3, LoadDepends
<1> QED
  BY <1>1, <1>5, <1>6 DEF n

\* The inductive invariant.
HeapInv == Sound(mem) /\ loads = Loads(mem)

\* HeapInv holds throughout: every location stays where it was.
LEMMA HeapInvariant == HeapSpec => []HeapInv
<1>1. HeapInit => HeapInv
  BY MemoryFacts DEF HeapInit, HeapInv, Sound
<1>2. HeapInv /\ [HeapNext]_heapVars => HeapInv'
  <2> SUFFICES ASSUME HeapInv, [HeapNext]_heapVars PROVE HeapInv'
    OBVIOUS
  <2>1. CASE HeapNext
    <3>0. PICK l \in Locs : \E v \in ValuesOf(l) : Store(l, v)
      BY <2>1 DEF HeapNext
    <3>1. PICK v \in ValuesOf(l) : Store(l, v)
      BY <3>0
    <3>2. mem' = Stored(mem, l, v) /\ loads' = Loads(mem')
      BY <3>1 DEF Store, Stored
    <3>3. Sound(Stored(mem, l, v))
      BY StoreSound DEF HeapInv
    <3> QED
      BY <3>2, <3>3 DEF HeapInv, Sound
  <2>2. CASE UNCHANGED heapVars
    <3>1. mem' = mem /\ loads' = loads
      BY <2>2 DEF heapVars
    <3>2. Sound(mem) /\ loads = Loads(mem)
      BY DEF HeapInv
    <3> QED
      BY <3>1, <3>2 DEF HeapInv, Sound
  <2> QED
    BY <2>1, <2>2
<1> QED
  BY <1>1, <1>2, PTL DEF HeapSpec

\* For any memory that is laid out so, any locations and any number of stores: a
\* load gives what was last stored in its location, at whatever place of whatever
\* tree it is, and a store is seen through no other location.
THEOREM HeapImplements == HeapSpec => ImplementsHeap
<1>1. HeapInv /\ [HeapNext]_heapVars => [Cell!AbsNext]_loads
  <2> SUFFICES ASSUME HeapInv, HeapNext PROVE Cell!AbsNext
    BY DEF heapVars
  <2>0. PICK l \in Locs : \E v \in ValuesOf(l) : Store(l, v)
    BY DEF HeapNext
  <2>1. PICK v \in ValuesOf(l) : Store(l, v)
    BY <2>0
  <2>2. mem' = Stored(mem, l, v) /\ loads' = Loads(mem')
    BY <2>1 DEF Store, Stored
  <2>3. /\ Load(Stored(mem, l, v), l) = v
        /\ \A c \in Locs \ {l} : Load(Stored(mem, l, v), c) = Load(mem, c)
    BY StoreSound DEF HeapInv
  <2>4. \A c \in Locs : loads'[c] = Load(Stored(mem, l, v), c) /\ loads[c] = Load(mem, c)
    BY <2>2 DEF Loads, HeapInv
  <2>5. loads'[l] \in ValuesOf(l) /\ \A c \in Locs \ {l} : loads'[c] = loads[c]
    BY <2>3, <2>4
  <2>6. Cell!Store(l)
    BY <2>5 DEF Cell!Store
  <2> QED
    BY <2>6 DEF Cell!AbsNext
<1> QED
  BY <1>1, HeapInvariant, PTL DEF HeapSpec, ImplementsHeap, Cell!AbsSpec

=============================================================================
