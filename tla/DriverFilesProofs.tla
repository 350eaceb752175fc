------------------------- MODULE DriverFilesProofs --------------------------
(***************************************************************************)
(* Proofs about DriverFiles: the files of an accelerator, whichever        *)
(* processes use them and however their accesses mix.                      *)
(*                                                                         *)
(* The words come first: a word taken apart and put together, or turned    *)
(* round twice, is itself.  Then the accesses of each kind of call, and    *)
(* the progress of one call through them, as a relation Tracks of its      *)
(* record, its accesses and the registers.  The inductive invariant        *)
(* FilesInv says that every call tracks, that a settled file has no writer *)
(* under way, and the properties.                                          *)
(***************************************************************************)
EXTENDS DriverFiles, SequenceTheorems, TLAPS

-----------------------------------------------------------------------------
(* Bytes.                                                                   *)

Digit == 0 .. B - 1

LEMMA Division ==
  ASSUME NEW n \in Nat, n > 0, NEW q \in Nat, NEW r \in 0 .. n - 1
  PROVE  (q * n + r) \div n = q /\ (q * n + r) % n = r
  OBVIOUS

LEMMA Powers ==
  /\ B \in Nat /\ B > 0
  /\ B * B \in Nat /\ B * B > 0
  /\ B * B * B \in Nat /\ B * B * B > 0
  /\ W \in Nat /\ W = (B * B * B) * B
  BY ByteAssumption DEF W

\* The bytes of a word given by its bytes.
LEMMA BytesOf ==
  ASSUME NEW b0 \in Digit, NEW b1 \in Digit, NEW b2 \in Digit, NEW b3 \in Digit,
         NEW x, x = b0 + b1 * B + b2 * (B * B) + b3 * (B * B * B)
  PROVE  /\ x \in Word
         /\ Byte(x, 0) = b0 /\ Byte(x, 1) = b1 /\ Byte(x, 2) = b2 /\ Byte(x, 3) = b3
<1> DEFINE l1 == b1 * B + b0
           l2 == b2 * (B * B) + l1
           h2 == b3 * B + b2
           h1 == h2 * B + b1
<1>1. /\ b0 \in Nat /\ b1 \in Nat /\ b2 \in Nat /\ b3 \in Nat
      /\ b0 < B /\ b1 < B /\ b2 < B /\ b3 < B
  BY Powers DEF Digit
<1>2. l1 \in 0 .. B * B - 1
  BY <1>1, Powers
<1>3. l2 \in 0 .. B * B * B - 1
  <2> HIDE DEF l1
  <2> QED
    BY <1>1, <1>2, Powers
<1>4. h2 \in Nat /\ h1 \in Nat
  BY <1>1, Powers
<1>5. x = h1 * B + b0 /\ x = h2 * (B * B) + l1 /\ x = b3 * (B * B * B) + l2
  BY <1>1, Powers
<1>6. x \in Word
  <2> HIDE DEF l2
  <2>1. b3 * (B * B * B) + l2 < W /\ b3 * (B * B * B) + l2 \in Nat
    <3> DEFINE c == B * B * B
    <3>1. c \in Nat /\ c > 0 /\ W = c * B /\ l2 \in 0 .. c - 1
      BY <1>3, Powers
    <3> HIDE DEF c
    <3>2. b3 * c + l2 < (b3 + 1) * c
      BY <1>1, <3>1
    <3>3. (b3 + 1) * c \leq B * c
      BY <1>1, <3>1, Powers
    <3> QED
      BY <1>1, <3>1, <3>2, <3>3, Powers DEF c
  <2> QED
    BY <1>5, <2>1, Powers DEF Word
<1>7. x \in Nat /\ x \div 1 = x
  BY <1>6, Powers DEF Word
<1>8. x \div B = h1 /\ x % B = b0
  BY <1>1, <1>4, <1>5, Powers, Division
<1>9. x \div (B * B) = h2
  <2> DEFINE c == B * B
  <2> HIDE DEF h2, l1
  <2>1. c \in Nat /\ c > 0 /\ l1 \in 0 .. c - 1 /\ x = h2 * c + l1
    BY <1>2, <1>5, Powers
  <2> HIDE DEF c
  <2>2. x \div c = h2
    BY <1>4, <2>1, Division
  <2> QED
    BY <2>2 DEF c
<1>10. x \div (B * B * B) = b3
  <2> DEFINE c == B * B * B
  <2> HIDE DEF l2
  <2>1. c \in Nat /\ c > 0 /\ l2 \in 0 .. c - 1 /\ x = b3 * c + l2
    BY <1>3, <1>5, Powers
  <2> HIDE DEF c
  <2>2. x \div c = b3
    BY <1>1, <2>1, Division
  <2> QED
    BY <2>2 DEF c
<1>11. h1 % B = b1 /\ h2 % B = b2 /\ b3 % B = b3
  BY <1>1, <1>4, Powers, Division
<1> QED
  BY <1>6, <1>7, <1>8, <1>9, <1>10, <1>11 DEF Byte, Scale

LEMMA HasBytes ==
  ASSUME NEW x \in Word
  PROVE  \E b0, b1, b2, b3 \in Digit : x = b0 + b1 * B + b2 * (B * B) + b3 * (B * B * B)
<1> DEFINE q1 == x \div B
           q2 == q1 \div B
           q3 == q2 \div B
<1>1. x \in Nat /\ x < (B * B * B) * B
  BY Powers DEF Word
<1>2. q1 \in Nat /\ x % B \in Digit /\ x = q1 * B + (x % B)
  BY <1>1, Powers DEF Digit
<1>3. q2 \in Nat /\ q1 % B \in Digit /\ q1 = q2 * B + (q1 % B)
  <2> HIDE DEF q1
  <2> QED
    BY <1>2, Powers DEF Digit
<1>4. q3 \in Nat /\ q2 % B \in Digit /\ q2 = q3 * B + (q2 % B)
  <2> HIDE DEF q2
  <2> QED
    BY <1>3, Powers DEF Digit
<1> HIDE DEF q1, q2, q3
<1>5. PICK b0 \in Digit, b1 \in Digit, b2 \in Digit :
        x = q1 * B + b0 /\ q1 = q2 * B + b1 /\ q2 = q3 * B + b2
  BY <1>2, <1>3, <1>4
<1>6. b0 \in Nat /\ b1 \in Nat /\ b2 \in Nat
  BY Powers DEF Digit
<1>7. x = b0 + b1 * B + b2 * (B * B) + q3 * (B * B * B)
  BY <1>2, <1>3, <1>4, <1>5, <1>6, Powers
<1>8. q3 < B
  <2> DEFINE c == B * B * B
  <2>1. c \in Nat /\ c > 0 /\ x < c * B /\ q3 * c \leq x
    BY <1>1, <1>4, <1>6, <1>7, Powers
  <2> HIDE DEF c
  <2> QED
    BY <1>1, <1>4, <2>1, Powers
<1>9. q3 \in Digit
  BY <1>4, <1>8, Powers DEF Digit
<1> QED
  BY <1>7, <1>9

\* Taking a word apart and putting it together gives it back.
LEMMA UnpackPack ==
  ASSUME NEW x \in Word
  PROVE  Unpack(Pack(x)) = x
<1>1. PICK b0 \in Digit, b1 \in Digit, b2 \in Digit, b3 \in Digit :
        x = b0 + b1 * B + b2 * (B * B) + b3 * (B * B * B)
  BY HasBytes
<1>2. Byte(x, 0) = b0 /\ Byte(x, 1) = b1 /\ Byte(x, 2) = b2 /\ Byte(x, 3) = b3
  BY <1>1, BytesOf
<1>3. Pack(x)[1] = b0 /\ Pack(x)[2] = b1 /\ Pack(x)[3] = b2 /\ Pack(x)[4] = b3
  BY <1>2 DEF Pack
<1>4. Scale(1) = B /\ Scale(2) = B * B /\ Scale(3) = B * B * B
  BY DEF Scale
<1> QED
  BY <1>1, <1>3, <1>4 DEF Unpack

\* Turning the bytes round twice, too.
LEMMA SwapSwap ==
  ASSUME NEW x \in Word
  PROVE  Swap(x) \in Word /\ Swap(Swap(x)) = x
<1>1. PICK b0 \in Digit, b1 \in Digit, b2 \in Digit, b3 \in Digit :
        x = b0 + b1 * B + b2 * (B * B) + b3 * (B * B * B)
  BY HasBytes
<1>2. Byte(x, 0) = b0 /\ Byte(x, 1) = b1 /\ Byte(x, 2) = b2 /\ Byte(x, 3) = b3
  BY <1>1, BytesOf
<1>3. Scale(1) = B /\ Scale(2) = B * B /\ Scale(3) = B * B * B
  BY DEF Scale
<1>4. \A y : Swap(y) = Byte(y, 3) + Byte(y, 2) * B + Byte(y, 1) * (B * B)
                         + Byte(y, 0) * (B * B * B)
  BY <1>3 DEF Swap, Unpack
<1>5. Swap(x) = b3 + b2 * B + b1 * (B * B) + b0 * (B * B * B)
  BY <1>2, <1>4
<1>6. /\ Swap(x) \in Word
      /\ Byte(Swap(x), 0) = b3 /\ Byte(Swap(x), 1) = b2
      /\ Byte(Swap(x), 2) = b1 /\ Byte(Swap(x), 3) = b0
  BY <1>5, BytesOf
<1>7. Swap(Swap(x)) = b0 + b1 * B + b2 * (B * B) + b3 * (B * B * B)
  BY <1>4, <1>6
<1> QED
  BY <1>1, <1>6, <1>7

\* Joined with sign extension it is still a word, and the same one unless a
\* byte of the upper half is among the three low ones.
LEMMA JoinedWord ==
  ASSUME NEW x \in Word, NEW sg \in BOOLEAN
  PROVE  Joined(x, sg) \in Word /\ (Joined(x, sg) = x \/ (sg /\ High(x) # {}))
<1>1. CASE ~(sg /\ High(x) # {})
  BY <1>1, UnpackPack DEF Joined
<1>2. CASE sg /\ High(x) # {}
  <2> DEFINE m == CHOOSE k \in High(x) : \A j \in High(x) : k <= j
  <2>1. \A k \in High(x) : k = 0 \/ k = 1 \/ k = 2
    BY DEF High
  <2>2. \E k \in High(x) : \A j \in High(x) : k <= j
    <3>1. CASE 0 \in High(x)
      BY <2>1, <3>1
    <3>2. CASE 0 \notin High(x) /\ 1 \in High(x)
      BY <2>1, <3>2
    <3>3. CASE 0 \notin High(x) /\ 1 \notin High(x)
      BY <1>2, <2>1, <3>3
    <3> QED
      BY <3>1, <3>2, <3>3
  <2>3. m = 0 \/ m = 1 \/ m = 2
    BY <2>1, <2>2
  <2> HIDE DEF m
  <2>4. Scale(m + 1) \in {B, B * B, B * B * B}
    BY <2>3 DEF Scale
  <2>5. \A c \in {B, B * B, B * B * B} : c \in Nat /\ c > 0 /\ c \leq W
    <3>1. B * B >= B /\ B * B * B >= B * B /\ (B * B * B) * B >= B * B * B
      BY Powers
    <3> QED
      BY <3>1, Powers
  <2>6. Scale(m + 1) \in Nat /\ Scale(m + 1) > 0 /\ Scale(m + 1) \leq W
    BY <2>4, <2>5
  <2>7. Joined(x, sg) = (W - Scale(m + 1)) + (x % Scale(m + 1))
    BY <1>2 DEF Joined, m
  <2> DEFINE c == Scale(m + 1)
  <2> HIDE DEF c
  <2>8. x \in Nat /\ c \in Nat /\ c > 0 /\ c \leq W /\ W \in Nat
    BY <2>6, Powers DEF Word, c
  <2>9. x % c \in 0 .. c - 1
    BY <2>8
  <2>10. (W - c) + (x % c) \in Word
    BY <2>8, <2>9 DEF Word
  <2> QED
    BY <1>2, <2>7, <2>10 DEF c
<1> QED
  BY <1>1, <1>2

-----------------------------------------------------------------------------
(* The accesses of a call.                                                  *)

Acc == [r : Regs, write : BOOLEAN, v : Word]

\* What a file shows after a write to its register.
Shown(a) == IF a.r[1] = "mem" THEN Swap(a.v) ELSE a.v

\* What the proofs use of an access a of a call c, and of all its accesses.
GoodAcc(c, a) ==
  /\ a \in Acc
  /\ a.write = (c.op \notin Reads)
  /\ a.write /\ a.r[1] = "master" => c.op = "set_base" /\ Exists(c)
  /\ a.write /\ a.r[1] = "in" => c.op = "set_return" /\ Exists(c)
  /\ a.write => a.r \notin OutRegs
  /\ a.write /\ a.r \in Viewed => Shown(a) \in Given[a.r]

Good(c, s) == s \in Seq(Acc) /\ \A i \in DOMAIN s : GoodAcc(c, s[i])

LEMMA FunctionIsSeq ==
  ASSUME NEW S, NEW n \in Nat, NEW f \in [1 .. n -> S]
  PROVE  f \in Seq(S) /\ Len(f) = n /\ DOMAIN f = 1 .. n
<1>1. f \in Seq(S)
  BY SeqDef
<1> QED
  BY <1>1

LEMMA RegsOf ==
  /\ \A i \in Args : <<"arg", i>> \in Regs /\ <<"arg", i>> \in Viewed
  /\ \A i \in Masters : <<"master", i>> \in Regs
  /\ <<"master", 0>> \in Viewed
  /\ <<"retval", 0>> \in Regs
  /\ \A i \in 0 .. 1 : <<"in", i>> \in Regs /\ <<"in", i>> \notin Viewed
  /\ \A i \in 0 .. 5 : <<"out", i>> \in Regs
  /\ \A i \in MemWords : <<"mem", i>> \in Regs /\ <<"mem", i>> \in Viewed
  BY DEF Regs, Viewed, Args, Masters

LEMMA RequestTypes ==
  ASSUME NEW c \in Requests
  PROVE  /\ c \in CallType
         /\ c.n \in Nat /\ c.len \in Nat /\ c.v \in Seq(Word)
         /\ c.op \in {"set_arg", "set_base", "set_return"} => 1 \in DOMAIN c.v /\ c.v[1] \in Word
<1>1. c \in CallType
  BY FilesAssumption
<1>2. c.n \in Nat /\ c.len \in Nat /\ c.v \in Seq(Word)
  BY <1>1 DEF CallType
<1>3. ASSUME c.op \in {"set_arg", "set_base", "set_return"}
      PROVE  1 \in DOMAIN c.v /\ c.v[1] \in Word
  <2>1. Len(c.v) = 1
    BY <1>3, FilesAssumption
  <2> DEFINE v == c.v
  <2>2. v \in Seq(Word) /\ Len(v) = 1
    BY <1>2, <2>1
  <2> HIDE DEF v
  <2>3. 1 \in DOMAIN v /\ v[1] \in Word
    BY <2>2
  <2> QED
    BY <2>3 DEF v
<1> QED
  BY <1>1, <1>2, <1>3

LEMMA GoodOne ==
  ASSUME NEW c, NEW a, GoodAcc(c, a)
  PROVE  Good(c, <<a>>)
<1>1. a \in Acc
  BY DEF GoodAcc
<1>2. <<a>> \in Seq(Acc) /\ DOMAIN <<a>> = 1 .. 1 /\ <<a>>[1] = a
  BY <1>1
<1> QED
  BY <1>2 DEF Good

LEMMA GoodFunction ==
  ASSUME NEW c, NEW n \in Nat, NEW s, DOMAIN s = 1 .. n, s = [i \in 1 .. n |-> s[i]],
         \A i \in 1 .. n : GoodAcc(c, s[i])
  PROVE  Good(c, s)
<1>1. s \in [1 .. n -> Acc]
  BY DEF GoodAcc
<1> QED
  BY <1>1, FunctionIsSeq DEF Good

LEMMA ReadAcc == ASSUME NEW r \in Regs PROVE Rd(r) \in Acc /\ Rd(r).r = r /\ Rd(r).write = FALSE
  BY Powers DEF Rd, Acc, Word

LEMMA WriteAcc ==
  ASSUME NEW r \in Regs, NEW v \in Word
  PROVE  Wr(r, v) \in Acc /\ Wr(r, v).r = r /\ Wr(r, v).write = TRUE /\ Wr(r, v).v = v
  BY DEF Wr, Acc

LEMMA GoodRead ==
  ASSUME NEW c, c.op \in Reads, NEW r \in Regs
  PROVE  GoodAcc(c, Rd(r))
  BY ReadAcc DEF GoodAcc

LEMMA GoodSetArg ==
  ASSUME NEW c \in Requests, c.op = "set_arg", Exists(c)
  PROVE  Good(c, SetArg(c))
<1>1. c.n \in Args /\ c.v[1] \in Word /\ Unpack(Pack(c.v[1])) = c.v[1]
  BY RequestTypes, UnpackPack DEF Exists
<1> DEFINE a == Wr(<<"arg", c.n>>, c.v[1])
<1>2. a \in Acc /\ a.r = <<"arg", c.n>> /\ a.write = TRUE /\ a.v = c.v[1]
  BY <1>1, RegsOf, WriteAcc
<1>3. SetArg(c) = <<a>>
  BY <1>1 DEF SetArg
<1> HIDE DEF a
<1>4. a.r[1] = "arg" /\ a.r \notin OutRegs /\ a.r \in Viewed
  BY <1>1, <1>2, RegsOf DEF OutRegs
<1>5. Shown(a) \in Given[a.r]
  BY <1>2, <1>4 DEF Shown, Given
<1>6. GoodAcc(c, a)
  BY <1>2, <1>4, <1>5 DEF GoodAcc, Reads
<1> QED
  BY <1>3, <1>6, GoodOne

\* All three masters get the word.
LEMMA GoodSetBase ==
  ASSUME NEW c \in Requests, c.op = "set_base", Exists(c)
  PROVE  LET s == SetBase(Unpack(Pack(c.v[1]))) IN
         /\ Good(c, s) /\ DOMAIN s = 1 .. 3 /\ Len(s) = 3
         /\ \A i \in 1 .. 3 : s[i].r = <<"master", i - 1>> /\ s[i].v = c.v[1]
<1> DEFINE v == c.v[1]
           s == SetBase(Unpack(Pack(c.v[1])))
<1>1. v \in Word /\ Unpack(Pack(v)) = v
  BY RequestTypes, UnpackPack
<1>2. DOMAIN s = 1 .. 3 /\ \A i \in 1 .. 3 : s[i] = Wr(<<"master", i - 1>>, v)
  BY <1>1 DEF SetBase
<1>3. s = [i \in 1 .. 3 |-> s[i]]
  BY DEF SetBase
<1> HIDE DEF s
<1>4. ASSUME NEW i \in 1 .. 3
      PROVE  /\ s[i].r = <<"master", i - 1>> /\ s[i].v = v
             /\ GoodAcc(c, s[i])
  <2>1. i - 1 \in Masters
    BY DEF Masters
  <2>2. s[i] \in Acc /\ s[i].r = <<"master", i - 1>> /\ s[i].write = TRUE /\ s[i].v = v
    <3> DEFINE f == <<"master", i - 1>>
    <3>1. f \in Regs /\ v \in Word /\ s[i] = Wr(f, v)
      BY <1>1, <1>2, <2>1, RegsOf
    <3> HIDE DEF f, v
    <3>2. s[i] \in Acc /\ s[i].r = f /\ s[i].write = TRUE /\ s[i].v = v
      BY <3>1 DEF Wr, Acc
    <3> QED
      BY <3>2 DEF f, v
  <2>3. s[i].r[1] = "master" /\ s[i].r \notin OutRegs
    BY <2>2 DEF OutRegs
  <2>4. s[i].r \in Viewed => Shown(s[i]) \in Given[s[i].r]
    <3>1. s[i].r \in Viewed => s[i].r = <<"master", 0>>
      BY <2>1, <2>2 DEF Viewed, Masters
    <3>2. <<"master", 0>> \in Viewed /\ <<"master", 0>> \notin OutRegs
      BY RegsOf DEF OutRegs
    <3>3. v \in Given[<<"master", 0>>]
      BY <3>2 DEF Given
    <3> QED
      BY <2>2, <3>1, <3>3 DEF Shown
  <2> QED
    BY <2>2, <2>3, <2>4 DEF GoodAcc, Reads
<1>5. Good(c, s)
  BY <1>2, <1>3, <1>4, GoodFunction
<1>6. Len(s) = 3
  BY <1>2, <1>5 DEF Good
<1> QED
  BY <1>2, <1>4, <1>5, <1>6 DEF s

LEMMA Knocks == Knock1 \in Word /\ Knock2 \in Word
<1>1. B \in Nat /\ B > 0 /\ B \leq W
  <2>1. B * B >= B /\ B * B * B >= B * B /\ (B * B * B) * B >= B * B * B
    BY Powers
  <2> QED
    BY <2>1, Powers
<1>2. 5 % B \in 0 .. B - 1 /\ 2 % B \in 0 .. B - 1
  BY <1>1
<1> QED
  BY <1>1, <1>2, Powers DEF Knock1, Knock2, Word

\* The word's register is written first, with the same word both times.
LEMMA GoodReply ==
  ASSUME NEW c \in Requests, c.op = "set_return", Exists(c), signed \in BOOLEAN
  PROVE  LET s == StoreReply(c.v[1], Knock1) \o StoreReply(c.v[1], Knock2) IN
         /\ Good(c, s) /\ DOMAIN s = 1 .. 4 /\ Len(s) = 4
         /\ s[1].r = <<"in", 1>>
         /\ \A i \in 1 .. 4 : s[i].r = <<"in", 1>> => s[i].v = Joined(c.v[1], signed)
<1> DEFINE w == Joined(c.v[1], signed)
           a == Wr(<<"in", 1>>, w)
           k1 == Wr(<<"in", 0>>, Knock1)
           k2 == Wr(<<"in", 0>>, Knock2)
           s == <<a, k1>> \o <<a, k2>>
<1>1. StoreReply(c.v[1], Knock1) \o StoreReply(c.v[1], Knock2) = s
  BY DEF StoreReply
<1>2. w \in Word
  BY RequestTypes, JoinedWord
<1>3. <<"in", 0>> \in Regs /\ <<"in", 1>> \in Regs
  BY RegsOf
<1> HIDE DEF w
<1>4. /\ a \in Acc /\ a.r = <<"in", 1>> /\ a.write = TRUE /\ a.v = w
      /\ k1 \in Acc /\ k1.r = <<"in", 0>> /\ k1.write = TRUE
      /\ k2 \in Acc /\ k2.r = <<"in", 0>> /\ k2.write = TRUE
  BY <1>2, <1>3, Knocks, WriteAcc
<1> HIDE DEF a, k1, k2
<1>5. /\ s \in Seq(Acc) /\ DOMAIN s = 1 .. 4 /\ Len(s) = 4
      /\ s[1] = a /\ s[2] = k1 /\ s[3] = a /\ s[4] = k2
  BY <1>4
<1> HIDE DEF s
<1>6. ASSUME NEW i \in 1 .. 4
      PROVE  GoodAcc(c, s[i]) /\ (s[i].r = <<"in", 1>> => s[i].v = w)
  <2>1. s[i] = a \/ s[i] = k1 \/ s[i] = k2
    BY <1>5
  <2>2. /\ s[i] \in Acc /\ s[i].write = TRUE
        /\ s[i].r = <<"in", 0>> \/ s[i].r = <<"in", 1>>
        /\ s[i].r = <<"in", 1>> => s[i].v = w
    BY <1>4, <2>1
  <2>3. s[i].r[1] = "in" /\ s[i].r \notin OutRegs /\ s[i].r \notin Viewed
    BY <2>2, RegsOf DEF OutRegs
  <2> QED
    BY <2>2, <2>3 DEF GoodAcc, Reads
<1>7. Good(c, s)
  BY <1>5, <1>6 DEF Good
<1> QED
  BY <1>1, <1>4, <1>5, <1>6, <1>7 DEF w

LEMMA GoodWriteMem ==
  ASSUME NEW c \in Requests, c.op = "write_mem", Exists(c), Aligned(c)
  PROVE  Good(c, WriteMem(c))
<1> DEFINE n == c.len \div 4
           s == WriteMem(c)
<1>1. n \in Nat /\ Len(c.v) = n
  BY RequestTypes, FilesAssumption
<1>2. DOMAIN c.v = 1 .. n /\ \A i \in 1 .. n : c.v[i] \in Word
  <2> DEFINE v == c.v
  <2>1. v \in Seq(Word) /\ Len(v) = n
    BY <1>1, RequestTypes
  <2> HIDE DEF v, n
  <2>2. DOMAIN v = 1 .. n /\ \A i \in 1 .. n : v[i] \in Word
    BY <1>1, <2>1
  <2> QED
    BY <2>2 DEF v
<1>3. /\ DOMAIN s = 1 .. n
      /\ \A i \in 1 .. n : s[i] = Wr(<<"mem", c.n \div 4 + i - 1>>, Swap(c.v[i]))
  BY DEF WriteMem
<1>4. s = [i \in 1 .. n |-> s[i]]
  BY DEF WriteMem
<1>5. \A i \in 1 .. n : c.n \div 4 + i - 1 \in MemWords
  BY FilesAssumption
<1> HIDE DEF s, n
<1>6. ASSUME NEW i \in 1 .. n PROVE GoodAcc(c, s[i])
  <2> DEFINE f == <<"mem", c.n \div 4 + i - 1>>
             w == c.v[i]
  <2>1. f \in Regs /\ f \in Viewed /\ f[1] = "mem" /\ f \notin OutRegs
    BY <1>5, RegsOf DEF OutRegs
  <2>2. w \in Word /\ Swap(w) \in Word /\ Swap(Swap(w)) = w
    BY <1>2, SwapSwap
  <2>3. w \in Given[f]
    <3>1. /\ c \in {d \in Requests : d.op = "write_mem" /\ Exists(d) /\ Aligned(d)}
          /\ i \in {j \in DOMAIN c.v : f = <<"mem", c.n \div 4 + j - 1>>}
      BY <1>2
    <3> QED
      BY <2>1, <3>1 DEF Given
  <2>4. s[i] = Wr(f, Swap(w))
    BY <1>3
  <2> HIDE DEF f, w
  <2>5. s[i] \in Acc /\ s[i].r = f /\ s[i].write = TRUE /\ s[i].v = Swap(w)
    <3> DEFINE u == Swap(w)
    <3>1. u \in Word /\ s[i] = Wr(f, u)
      BY <2>2, <2>4
    <3> HIDE DEF u
    <3>2. s[i] \in Acc /\ s[i].r = f /\ s[i].write = TRUE /\ s[i].v = u
      BY <2>1, <3>1 DEF Wr, Acc
    <3> QED
      BY <3>2 DEF u
  <2> QED
    BY <2>1, <2>2, <2>3, <2>5 DEF GoodAcc, Shown, Reads
<1> QED
  BY <1>1, <1>3, <1>4, <1>6, GoodFunction DEF s

LEMMA GoodReadMem ==
  ASSUME NEW c \in Requests, c.op = "read_mem"
  PROVE  /\ Good(c, ReadMem(c))
         /\ \A i \in DOMAIN ReadMem(c) : ReadMem(c)[i].r[1] = "mem"
<1> DEFINE n == c.len \div 4
           s == ReadMem(c)
<1>1. n \in Nat
  BY RequestTypes
<1>2. DOMAIN s = 1 .. n /\ \A i \in 1 .. n : s[i] = Rd(<<"mem", c.n \div 4 + i - 1>>)
  BY DEF ReadMem
<1>3. s = [i \in 1 .. n |-> s[i]]
  BY DEF ReadMem
<1>4. \A i \in 1 .. n : <<"mem", c.n \div 4 + i - 1>> \in Regs
  BY FilesAssumption, RegsOf
<1>5. c.op \in Reads
  BY DEF Reads
<1> HIDE DEF s, n
<1>6. ASSUME NEW i \in 1 .. n PROVE GoodAcc(c, s[i]) /\ s[i].r[1] = "mem"
  <2> DEFINE f == <<"mem", c.n \div 4 + i - 1>>
  <2>1. f \in Regs /\ s[i] = Rd(f) /\ f[1] = "mem"
    BY <1>2, <1>4
  <2> HIDE DEF f
  <2> QED
    BY <1>5, <2>1, GoodRead, ReadAcc
<1> QED
  BY <1>1, <1>2, <1>3, <1>6, GoodFunction DEF s

LEMMA GoodReadArgs ==
  ASSUME NEW c, c.op = "get_args"
  PROVE  /\ Good(c, ReadArgs) /\ DOMAIN ReadArgs = 1 .. 6
         /\ \A i \in 1 .. 6 : ReadArgs[i].r = <<"out", i - 1>>
<1> DEFINE s == ReadArgs
<1>1. DOMAIN s = 1 .. 6 /\ \A i \in 1 .. 6 : s[i] = Rd(<<"out", i - 1>>)
  BY DEF ReadArgs
<1>2. s = [i \in 1 .. 6 |-> s[i]]
  BY DEF ReadArgs
<1>3. c.op \in Reads
  BY DEF Reads
<1> HIDE DEF s
<1>4. ASSUME NEW i \in 1 .. 6 PROVE GoodAcc(c, s[i]) /\ s[i].r = <<"out", i - 1>>
  <2>1. i - 1 \in 0 .. 5
    OBVIOUS
  <2>2. <<"out", i - 1>> \in Regs /\ s[i] = Rd(<<"out", i - 1>>)
    BY <1>1, <2>1, RegsOf
  <2> QED
    BY <1>3, <2>2, GoodRead, ReadAcc
<1> QED
  BY <1>1, <1>2, <1>4, GoodFunction DEF s

\* Reads of one register.
LEMMA GoodSingle ==
  ASSUME NEW c \in Requests, Exists(c)
  PROVE  /\ c.op = "get_arg" => Good(c, GetArg(c))
         /\ c.op = "get_base" => Good(c, GetBase)
         /\ c.op = "get_retval" => Good(c, GetRetval)
<1>1. ASSUME NEW r \in Regs, c.op \in Reads PROVE Good(c, <<Rd(r)>>)
  BY <1>1, GoodRead, GoodOne
<1>2. c.op = "get_arg" => c.n \in Args
  BY DEF Exists
<1>3. 0 \in Masters
  BY DEF Masters
<1> QED
  BY <1>1, <1>2, <1>3, RegsOf DEF GetArg, GetBase, GetRetval, Reads

LEMMA AccessesGood ==
  ASSUME NEW c \in Requests, signed \in BOOLEAN
  PROVE  Good(c, Accesses(c))
<1>1. CASE ~Exists(c) \/ ~Aligned(c)
  <2>1. Accesses(c) = << >>
    BY <1>1 DEF Accesses
  <2>2. << >> \in Seq(Acc) /\ DOMAIN << >> = {}
    OBVIOUS
  <2> QED
    BY <2>1, <2>2 DEF Good
<1>2. CASE Exists(c) /\ Aligned(c)
  <2>1. CASE c.op = "set_arg"
    BY <1>2, <2>1, GoodSetArg DEF Accesses
  <2>2. CASE c.op = "set_base"
    BY <1>2, <2>2, GoodSetBase DEF Accesses
  <2>3. CASE c.op = "set_return"
    BY <1>2, <2>3, GoodReply DEF Accesses
  <2>4. CASE c.op = "write_mem"
    BY <1>2, <2>4, GoodWriteMem DEF Accesses
  <2>5. CASE c.op = "read_mem"
    BY <1>2, <2>5, GoodReadMem DEF Accesses
  <2>6. CASE c.op = "get_args"
    BY <1>2, <2>6, GoodReadArgs DEF Accesses
  <2>7. CASE c.op \in {"get_arg", "get_base", "get_retval"}
    BY <1>2, <2>7, GoodSingle DEF Accesses
  <2> QED
    BY <2>1, <2>2, <2>3, <2>4, <2>5, <2>6, <2>7, RequestTypes DEF CallType
<1> QED
  BY <1>1, <1>2

-----------------------------------------------------------------------------
(* The progress of a call.                                                  *)

\* What a register shows in a memory g.
ViewIn(g, r) ==
  CASE r[1] = "mem" -> Swap(g[r])
    [] r = <<"out", 0>> -> g[r] % B
    [] OTHER -> g[r]

\* The i-th access leaves its word in its register whichever writes it last.
Lasting(s, i) == \A j \in DOMAIN s : s[j].r = s[i].r => s[j].v = s[i].v

\* A call, record k, is on its way through its accesses s: it has made the
\* first of them, and what it read or wrote, unless disturbed, is in g.
Tracks(k, s, g) ==
  /\ DOMAIN k = {"c", "todo", "got", "seen", "quiet"}
  /\ k.c \in Requests /\ k.quiet \in BOOLEAN
  /\ k.todo \in Seq(Acc) /\ k.got \in Seq(Word)
  /\ Len(k.todo) \leq Len(s)
  /\ \A i \in 1 .. Len(k.todo) : k.todo[i] = s[i + (Len(s) - Len(k.todo))]
  /\ Len(k.got) = (IF k.c.op \in Reads THEN Len(s) - Len(k.todo) ELSE 0)
  /\ k.quiet /\ k.c.op \in Reads =>
       /\ k.seen = [i \in DOMAIN s |-> ViewIn(g, s[i].r)]
       /\ \A i \in 1 .. Len(k.got) : k.got[i] = g[s[i].r]
  /\ k.quiet /\ k.c.op \notin Reads =>
       \A i \in 1 .. Len(s) - Len(k.todo) : Lasting(s, i) => g[s[i].r] = s[i].v

LEMMA TracksStart ==
  ASSUME NEW c \in Requests, NEW s, Good(c, s), NEW g, NEW k, NEW e,
         k = [c |-> c, todo |-> s, got |-> << >>, quiet |-> TRUE, seen |-> e],
         c.op \in Reads => e = [i \in DOMAIN s |-> ViewIn(g, s[i].r)]
  PROVE  Tracks(k, s, g)
<1>1. s \in Seq(Acc) /\ Len(s) \in Nat
  BY DEF Good
<1>2. << >> \in Seq(Word) /\ Len(<< >>) = 0
  OBVIOUS
<1>3. k.c = c /\ k.todo = s /\ k.got = << >> /\ k.quiet = TRUE /\ k.seen = e
  OBVIOUS
<1>4. \A i \in 1 .. Len(s) : s[i] = s[i + (Len(s) - Len(s))]
  BY <1>1
<1>5. 1 .. Len(s) - Len(s) = {} /\ 1 .. 0 = {} /\ Len(s) \leq Len(s) /\ Len(s) - Len(s) = 0
  BY <1>1
<1> QED
  BY <1>1, <1>2, <1>3, <1>4, <1>5 DEF Tracks

\* The access a call makes next.
LEMMA NextAccess ==
  ASSUME NEW k, NEW s, NEW g, Tracks(k, s, g), Good(k.c, s), k.todo # << >>
  PROVE  LET d == Len(s) - Len(k.todo) + 1 IN
         /\ d \in DOMAIN s /\ d \in 1 .. Len(s) /\ Head(k.todo) = s[d] /\ GoodAcc(k.c, s[d])
         /\ Tail(k.todo) \in Seq(Acc) /\ Len(Tail(k.todo)) = Len(k.todo) - 1
         /\ Len(s) - Len(Tail(k.todo)) = d
         /\ \A i \in 1 .. Len(Tail(k.todo)) :
              Tail(k.todo)[i] = s[i + (Len(s) - Len(Tail(k.todo)))]
<1> DEFINE t == k.todo
           n == Len(s)
           m == Len(t)
           u == Tail(t)
<1>1. /\ t \in Seq(Acc) /\ t # << >> /\ m \leq n
      /\ \A i \in 1 .. m : t[i] = s[i + (n - m)]
  BY DEF Tracks
<1>2. s \in Seq(Acc) /\ \A i \in DOMAIN s : GoodAcc(k.c, s[i])
  BY DEF Good
<1> HIDE DEF t
<1>3. /\ m \in Nat /\ m > 0 /\ Head(t) = t[1]
      /\ u \in Seq(Acc) /\ Len(u) = m - 1 /\ \A i \in 1 .. m - 1 : u[i] = t[i + 1]
  BY <1>1
<1>4. n \in Nat /\ DOMAIN s = 1 .. n
  BY <1>2
<1> HIDE DEF n, m, u
<1>5. n - m + 1 \in 1 .. n /\ t[1] = s[n - m + 1] /\ n - Len(u) = n - m + 1
  BY <1>1, <1>3, <1>4
<1>6. ASSUME NEW i \in 1 .. Len(u) PROVE u[i] = s[i + (n - Len(u))]
  <2>1. i \in 1 .. m - 1 /\ i + 1 \in 1 .. m /\ i + (n - Len(u)) = (i + 1) + (n - m)
    BY <1>3, <1>4
  <2> QED
    BY <1>1, <1>3, <2>1
<1>7. GoodAcc(k.c, s[n - m + 1])
  BY <1>2, <1>4, <1>5
<1> QED
  BY <1>3, <1>4, <1>5, <1>6, <1>7 DEF n, m, t, u

LEMMA TracksRead ==
  ASSUME NEW k, NEW s, NEW g, Tracks(k, s, g), Good(k.c, s), k.todo # << >>,
         g \in [Regs -> Word], ~Head(k.todo).write
  PROVE  Tracks([k EXCEPT !.todo = Tail(@), !.got = Append(@, g[Head(k.todo).r])], s, g)
<1> DEFINE a == Head(k.todo)
           d == Len(s) - Len(k.todo) + 1
           t == Tail(k.todo)
           o == Append(k.got, g[a.r])
           l == [k EXCEPT !.todo = Tail(@), !.got = Append(@, g[Head(k.todo).r])]
<1>1. /\ d \in DOMAIN s /\ d \in 1 .. Len(s) /\ a = s[d] /\ GoodAcc(k.c, s[d])
      /\ t \in Seq(Acc) /\ Len(t) = Len(k.todo) - 1 /\ Len(s) - Len(t) = d
      /\ \A i \in 1 .. Len(t) : t[i] = s[i + (Len(s) - Len(t))]
  BY NextAccess
<1>2. a \in Acc /\ k.c.op \in Reads
  BY <1>1 DEF GoodAcc
<1>3. g[a.r] \in Word
  BY <1>2 DEF Acc
<1>4. /\ DOMAIN k = {"c", "todo", "got", "seen", "quiet"}
      /\ k.c \in Requests /\ k.quiet \in BOOLEAN /\ k.got \in Seq(Word)
      /\ Len(k.todo) \leq Len(s) /\ k.todo \in Seq(Acc)
      /\ Len(k.got) = Len(s) - Len(k.todo)
      /\ k.quiet => /\ k.seen = [i \in DOMAIN s |-> ViewIn(g, s[i].r)]
                    /\ \A i \in 1 .. Len(k.got) : k.got[i] = g[s[i].r]
  BY <1>2 DEF Tracks
<1>5. /\ DOMAIN l = {"c", "todo", "got", "seen", "quiet"}
      /\ l.c = k.c /\ l.todo = t /\ l.got = o /\ l.seen = k.seen /\ l.quiet = k.quiet
  BY <1>4
<1>6. /\ o \in Seq(Word) /\ Len(o) = Len(k.got) + 1
      /\ \A i \in 1 .. Len(k.got) : o[i] = k.got[i]
      /\ o[Len(k.got) + 1] = g[a.r]
  <2> DEFINE q == k.got
             x == g[a.r]
  <2>1. q \in Seq(Word) /\ x \in Word
    BY <1>3, <1>4
  <2> HIDE DEF q, x
  <2>2. /\ Append(q, x) \in Seq(Word) /\ Len(Append(q, x)) = Len(q) + 1
        /\ \A i \in 1 .. Len(q) : Append(q, x)[i] = q[i]
        /\ Append(q, x)[Len(q) + 1] = x
    BY <2>1
  <2> QED
    BY <2>2 DEF q, x
<1>7. Len(k.got) + 1 = d /\ Len(o) = d /\ Len(t) \leq Len(s) /\ Len(k.got) \in Nat
  <2>1. Len(s) \in Nat /\ Len(k.todo) \in Nat /\ Len(k.got) \in Nat
    <3>1. s \in Seq(Acc)
      BY DEF Good
    <3> QED
      BY <1>4, <3>1
  <2> QED
    BY <1>1, <1>4, <1>6, <2>1
<1> HIDE DEF l, o, t, a
<1>8. ASSUME k.quiet, NEW i \in 1 .. Len(o) PROVE o[i] = g[s[i].r]
  <2> DEFINE m == Len(k.got)
  <2>1. m \in Nat /\ i \in 1 .. m + 1 /\ s[m + 1] = a /\ o[m + 1] = g[a.r]
    BY <1>1, <1>6, <1>7
  <2>2. \A j \in 1 .. m : o[j] = k.got[j] /\ k.got[j] = g[s[j].r]
    BY <1>4, <1>6, <1>8
  <2> HIDE DEF m
  <2>3. i \in 1 .. m \/ i = m + 1
    BY <2>1
  <2> QED
    BY <2>1, <2>2, <2>3
<1> QED
  BY <1>1, <1>2, <1>4, <1>5, <1>6, <1>7, <1>8 DEF Tracks, l

LEMMA TracksWrite ==
  ASSUME NEW k, NEW s, NEW g, Tracks(k, s, g), Good(k.c, s), k.todo # << >>,
         g \in [Regs -> Word], Head(k.todo).write
  PROVE  Tracks([k EXCEPT !.todo = Tail(@), !.got = @], s,
                [g EXCEPT ![Head(k.todo).r] = Head(k.todo).v])
<1> DEFINE a == Head(k.todo)
           d == Len(s) - Len(k.todo) + 1
           t == Tail(k.todo)
           h == [g EXCEPT ![a.r] = a.v]
           l == [k EXCEPT !.todo = Tail(@), !.got = @]
<1>1. /\ d \in DOMAIN s /\ d \in 1 .. Len(s) /\ a = s[d] /\ GoodAcc(k.c, s[d])
      /\ t \in Seq(Acc) /\ Len(t) = Len(k.todo) - 1 /\ Len(s) - Len(t) = d
      /\ \A i \in 1 .. Len(t) : t[i] = s[i + (Len(s) - Len(t))]
  BY NextAccess
<1>2. a \in Acc /\ k.c.op \notin Reads
  BY <1>1 DEF GoodAcc, Acc
<1>3. s \in Seq(Acc) /\ DOMAIN s = 1 .. Len(s) /\ Len(s) \in Nat
  BY DEF Good
<1>4. /\ DOMAIN k = {"c", "todo", "got", "seen", "quiet"}
      /\ k.c \in Requests /\ k.quiet \in BOOLEAN /\ k.got \in Seq(Word)
      /\ Len(k.todo) \leq Len(s) /\ Len(k.got) = 0 /\ k.todo \in Seq(Acc)
      /\ k.quiet => \A i \in 1 .. Len(s) - Len(k.todo) : Lasting(s, i) => g[s[i].r] = s[i].v
  BY <1>2 DEF Tracks
<1>5. /\ DOMAIN l = {"c", "todo", "got", "seen", "quiet"}
      /\ l.c = k.c /\ l.todo = t /\ l.got = k.got /\ l.seen = k.seen /\ l.quiet = k.quiet
  BY <1>4
<1>6. Len(k.todo) \in Nat /\ Len(t) \leq Len(s) /\ Len(s) - Len(k.todo) = d - 1
  <2>1. Len(k.todo) \in Nat
    BY <1>4
  <2> QED
    BY <1>1, <1>3, <1>4, <2>1
<1>7. d \in Nat
  BY <1>3, <1>6
<1> HIDE DEF l, t, d, a
<1>8. ASSUME k.quiet, NEW i \in 1 .. d, Lasting(s, i)
      PROVE  h[s[i].r] = s[i].v
  <2>1. i \in DOMAIN s /\ (i = d \/ i \in 1 .. d - 1)
    <3> DEFINE n == Len(s)
    <3>1. n \in Nat /\ d \in 1 .. n /\ DOMAIN s = 1 .. n
      BY <1>1, <1>3
    <3> HIDE DEF n
    <3> QED
      BY <1>7, <3>1
  <2>2. s[i] \in Acc /\ s[i].r \in Regs
    <3>1. s[i] \in Acc
      BY <1>3, <2>1
    <3> QED
      BY <3>1 DEF Acc
  <2>3. CASE s[i].r = a.r
    <3>1. a.v = s[i].v
      BY <1>1, <1>8, <2>3 DEF Lasting
    <3> QED
      BY <2>2, <2>3, <3>1
  <2>4. CASE s[i].r # a.r
    <3>1. i \in 1 .. Len(s) - Len(k.todo)
      BY <1>1, <1>6, <2>1, <2>4
    <3> QED
      BY <1>4, <1>8, <2>2, <2>4, <3>1
  <2> QED
    BY <2>3, <2>4
<1>9. Tracks(l, s, h)
  <2> HIDE DEF h
  <2> QED
    BY <1>1, <1>2, <1>4, <1>5, <1>6, <1>8 DEF Tracks
<1> QED
  BY <1>9 DEF l, h, a

\* Somebody else's write leaves a call alone, or disturbs it.
LEMMA TracksOther ==
  ASSUME NEW k, NEW s, NEW g, Tracks(k, s, g), s \in Seq(Acc), g \in [Regs -> Word], NEW r, NEW v
  PROVE  /\ Tracks([k EXCEPT !.quiet = FALSE], s, [g EXCEPT ![r] = v])
         /\ (\A i \in DOMAIN s : s[i].r # r) => Tracks(k, s, [g EXCEPT ![r] = v])
<1> DEFINE h == [g EXCEPT ![r] = v]
           l == [k EXCEPT !.quiet = FALSE]
<1>1. Tracks(l, s, h)
  <2>1. /\ DOMAIN k = {"c", "todo", "got", "seen", "quiet"}
    BY DEF Tracks
  <2>2. /\ DOMAIN l = {"c", "todo", "got", "seen", "quiet"}
        /\ l.c = k.c /\ l.todo = k.todo /\ l.got = k.got /\ l.seen = k.seen /\ l.quiet = FALSE
    BY <2>1
  <2> HIDE DEF l, h
  <2> QED
    BY <2>2 DEF Tracks
<1>2. ASSUME \A i \in DOMAIN s : s[i].r # r
      PROVE  Tracks(k, s, h)
  <2>1. \A i \in DOMAIN s : h[s[i].r] = g[s[i].r]
    BY <1>2
  <2>2. DOMAIN s = 1 .. Len(s) /\ Len(s) \in Nat
    OBVIOUS
  <2> HIDE DEF h
  <2>3. \A i \in DOMAIN s : ViewIn(h, s[i].r) = ViewIn(g, s[i].r)
    BY <2>1 DEF ViewIn
  <2>4. [i \in DOMAIN s |-> ViewIn(h, s[i].r)] = [i \in DOMAIN s |-> ViewIn(g, s[i].r)]
    BY <2>3
  <2>5. k.todo \in Seq(Acc) /\ Len(k.todo) \in Nat /\ Len(k.todo) \leq Len(s)
    <3>1. k.todo \in Seq(Acc) /\ Len(k.todo) \leq Len(s)
      BY DEF Tracks
    <3> QED
      BY <3>1
  <2>6. \A i \in 1 .. Len(s) - Len(k.todo) : i \in DOMAIN s
    BY <2>2, <2>5
  <2>7. \A i \in 1 .. Len(k.got) : k.c.op \in Reads => i \in DOMAIN s
    <3>1. k.c.op \in Reads => Len(k.got) = Len(s) - Len(k.todo)
      BY DEF Tracks
    <3> QED
      BY <2>6, <3>1
  <2> QED
    BY <2>1, <2>4, <2>6, <2>7 DEF Tracks
<1> QED
  BY <1>1, <1>2

\* What the caller gets of the words it read, nothing having disturbed it, is
\* what the file shows.
LEMMA DecodeShows ==
  ASSUME NEW c \in Requests, signed \in BOOLEAN, NEW g \in [Regs -> Word], c.op \in Reads,
         NEW o, o \in Seq(Word), Len(o) = Len(Accesses(c)),
         \A i \in 1 .. Len(o) : o[i] = g[Accesses(c)[i].r]
  PROVE  Decode(c, o) = [i \in DOMAIN Accesses(c) |-> ViewIn(g, Accesses(c)[i].r)]
<1> DEFINE s == Accesses(c)
<1>1. Good(c, s)
  BY AccessesGood
<1>2. DOMAIN o = DOMAIN s /\ \A i \in DOMAIN s : o[i] = g[s[i].r] /\ o[i] \in Word
  <2>1. s \in Seq(Acc)
    BY <1>1 DEF Good
  <2> HIDE DEF s
  <2> DEFINE n == Len(s)
  <2>2. DOMAIN s = 1 .. n /\ Len(o) = n /\ DOMAIN o = 1 .. n
    BY <2>1 DEF s
  <2> HIDE DEF n
  <2> QED
    BY <2>2 DEF s
<1>3. \A i \in DOMAIN s : Unpack(Pack(o[i])) = o[i]
  BY <1>2, UnpackPack
<1>4. CASE ~Exists(c) \/ ~Aligned(c)
  <2>1. s = << >>
    BY <1>4 DEF Accesses
  <2>2. DOMAIN s = {} /\ DOMAIN o = {}
    BY <1>2, <2>1
  <2> HIDE DEF s
  <2> QED
    BY <2>2 DEF Decode, s
<1>5. CASE Exists(c) /\ Aligned(c) /\ c.op = "read_mem"
  <2>1. s = ReadMem(c)
    BY <1>5 DEF Accesses
  <2>2. \A i \in DOMAIN s : s[i].r[1] = "mem"
    BY <1>5, <2>1, GoodReadMem
  <2> HIDE DEF s
  <2>3. \A i \in DOMAIN s : ViewIn(g, s[i].r) = Swap(o[i])
    BY <1>2, <2>2 DEF ViewIn
  <2>4. Decode(c, o) = [i \in DOMAIN o |-> Swap(o[i])]
    BY <1>5 DEF Decode
  <2> QED
    BY <1>2, <2>3, <2>4 DEF s
<1>6. CASE Exists(c) /\ Aligned(c) /\ c.op = "get_args"
  <2>1. s = ReadArgs
    BY <1>6 DEF Accesses
  <2>2. DOMAIN s = 1 .. 6 /\ \A i \in 1 .. 6 : s[i].r = <<"out", i - 1>>
    BY <1>6, <2>1, GoodReadArgs
  <2> HIDE DEF s
  <2>3. ASSUME NEW i \in DOMAIN s
        PROVE  ViewIn(g, s[i].r) = IF i = 1 THEN o[i] % B ELSE Unpack(Pack(o[i]))
    <3>1. s[i].r = <<"out", i - 1>> /\ s[i].r[1] = "out" /\ o[i] = g[s[i].r]
      BY <1>2, <2>2
    <3>2. s[i].r = <<"out", 0>> <=> i = 1
      BY <2>2, <3>1
    <3> QED
      BY <1>3, <3>1, <3>2 DEF ViewIn
  <2>4. Decode(c, o) = [i \in DOMAIN o |-> IF i = 1 THEN o[i] % B ELSE Unpack(Pack(o[i]))]
    BY <1>6 DEF Decode
  <2> QED
    BY <1>2, <2>3, <2>4 DEF s
<1>7. CASE Exists(c) /\ Aligned(c) /\ c.op \in {"get_arg", "get_base", "get_retval"}
  <2>1. \E r \in {<<"arg", c.n>>, <<"master", 0>>, <<"retval", 0>>} : s = <<Rd(r)>>
    BY <1>7 DEF Accesses, GetArg, GetBase, GetRetval
  <2>2. PICK r \in {<<"arg", c.n>>, <<"master", 0>>, <<"retval", 0>>} : s = <<Rd(r)>>
    BY <2>1
  <2>3. DOMAIN s = {1} /\ s[1].r = r /\ r[1] # "mem" /\ r # <<"out", 0>>
    BY <2>2 DEF Rd
  <2> HIDE DEF s
  <2>4. \A i \in DOMAIN s : ViewIn(g, s[i].r) = Unpack(Pack(o[i]))
    BY <1>2, <1>3, <2>3 DEF ViewIn
  <2>5. Decode(c, o) = [i \in DOMAIN o |-> Unpack(Pack(o[i]))]
    BY <1>7 DEF Decode
  <2> QED
    BY <1>2, <2>4, <2>5 DEF s
<1> QED
  BY <1>4, <1>5, <1>6, <1>7 DEF Reads

-----------------------------------------------------------------------------
(* The inductive invariant.                                                 *)

CallsTrack ==
  \A p \in Procs : call[p] = Idle \/ Tracks(call[p], Accesses(call[p].c), reg)

\* While a file is settled nobody stores in it.
SettledAlone ==
  \A op \in {"set_base", "set_return"} : settled[op] # {} =>
    \A p \in Procs : Active(p) /\ Exists(call[p].c) => call[p].c.op # op

Shapes ==
  /\ signed \in BOOLEAN /\ reg \in [Regs -> Word]
  /\ calls \in 0 .. MaxCalls /\ writes \in 0 .. MaxWrites
  /\ DOMAIN call = Procs /\ DOMAIN result = Procs
  /\ DOMAIN settled = {"set_base", "set_return"}

FilesInv ==
  /\ Shapes
  /\ CallsTrack
  /\ SettledAlone
  /\ QuietReads
  /\ MastersSettled
  /\ ReplySettled

\* The accesses of a call do not change under its hands.
LEMMA SameAccesses ==
  ASSUME signed' = signed, NEW p, NEW c, call'[p].c = c
  PROVE  Accesses(call[p].c)' = Accesses(c)
  BY DEF Accesses, StoreReply

LEMMA ViewOf == \A r : View(r) = ViewIn(reg, r)
  BY DEF View, ViewIn

LEMMA IdleCall ==
  ASSUME CallsTrack, NEW p \in Procs
  PROVE  /\ ~Active(p) <=> call[p] = Idle
         /\ Active(p) => /\ Tracks(call[p], Accesses(call[p].c), reg)
                         /\ call[p].c \in Requests
<1>1. Idle.c.op = "none"
  BY DEF Idle
<1>2. ASSUME Tracks(call[p], Accesses(call[p].c), reg)
      PROVE  call[p].c \in Requests /\ call[p].c.op # "none"
  <2>1. call[p].c \in Requests
    BY <1>2 DEF Tracks
  <2> QED
    BY <2>1, RequestTypes DEF CallType
<1> QED
  BY <1>1, <1>2 DEF CallsTrack, Active

LEMMA FilesStart == FilesInit => FilesInv
<1> SUFFICES ASSUME FilesInit PROVE FilesInv
  OBVIOUS
<1> USE DEF FilesInit
<1>1. 0 \in Word
  BY Powers DEF Word
<1>2. Shapes
  BY <1>1, FilesAssumption DEF Shapes
<1>3. \A p \in Procs : call[p] = Idle
  OBVIOUS
<1>4. CallsTrack
  BY <1>3 DEF CallsTrack
<1>5. SettledAlone
  BY <1>3 DEF SettledAlone, Active, Idle
<1>6. QuietReads
  BY DEF QuietReads, Reads
<1>7. \A op \in {"set_base", "set_return"} : settled[op] = {0}
  OBVIOUS
<1>8. MastersSettled
  BY <1>7, RegsOf DEF MastersSettled
<1>9. ReplySettled
  <2>1. <<"in", 1>> \in Regs
    BY RegsOf
  <2> QED
    BY <1>7, <2>1 DEF ReplySettled
<1> QED
  BY <1>2, <1>4, <1>5, <1>6, <1>8, <1>9 DEF FilesInv

LEMMA CallKeeps ==
  ASSUME FilesInv, NEW p \in Procs, NEW c \in Requests, Call(p, c)
  PROVE  FilesInv'
<1> DEFINE s == Accesses(c)
           k == [c |-> c, todo |-> s, got |-> << >>, quiet |-> TRUE,
                 seen |-> IF c.op \notin Reads THEN << >>
                          ELSE [i \in DOMAIN s |-> View(s[i].r)]]
<1>1. /\ ~Active(p) /\ calls < MaxCalls /\ calls' = calls + 1
      /\ call' = [call EXCEPT ![p] = k]
      /\ signed' = signed /\ reg' = reg /\ result' = result /\ writes' = writes
  BY DEF Call
<1>2. settled' = IF c.op \in DOMAIN settled /\ Exists(c)
                   THEN [settled EXCEPT ![c.op] = {}] ELSE settled
  BY DEF Call
<1>3. Shapes
  BY DEF FilesInv
<1>4. Shapes'
  <2> HIDE DEF k
  <2> QED
    BY <1>1, <1>2, <1>3, FilesAssumption DEF Shapes
<1>5. Tracks(k, s, reg)
  <2>1. Good(c, s)
    BY <1>3, AccessesGood DEF Shapes
  <2> DEFINE e == IF c.op \notin Reads THEN << >> ELSE [i \in DOMAIN s |-> View(s[i].r)]
  <2>2. c.op \in Reads => e = [i \in DOMAIN s |-> ViewIn(reg, s[i].r)]
    BY ViewOf
  <2>3. k = [c |-> c, todo |-> s, got |-> << >>, quiet |-> TRUE, seen |-> e]
    OBVIOUS
  <2> HIDE DEF e, s, k
  <2> QED
    BY <2>1, <2>2, <2>3, TracksStart
<1>6. k.c = c
  OBVIOUS
<1> HIDE DEF k, s
<1>7. call'[p] = k /\ \A q \in Procs \ {p} : call'[q] = call[q]
  BY <1>1, <1>3 DEF Shapes
<1>8. CallsTrack'
  <2> SUFFICES ASSUME NEW q \in Procs
               PROVE  call'[q] = Idle \/ Tracks(call'[q], Accesses(call[q].c)', reg')
    BY DEF CallsTrack, Idle
  <2>1. CASE q = p
    <3>1. Accesses(call[p].c)' = s
      BY <1>1, <1>6, <1>7, SameAccesses DEF s
    <3> QED
      BY <1>1, <1>5, <1>7, <2>1, <3>1
  <2>2. CASE q # p
    <3>1. call'[q] = call[q] /\ Accesses(call[q].c)' = Accesses(call[q].c)
      BY <1>1, <1>7, <2>2, SameAccesses
    <3> QED
      BY <1>1, <3>1 DEF FilesInv, CallsTrack
  <2> QED
    BY <2>1, <2>2
<1>9. SettledAlone'
  <2> SUFFICES ASSUME NEW op \in {"set_base", "set_return"}, settled'[op] # {},
                      NEW q \in Procs, call'[q].c.op # "none", Exists(call'[q].c)
               PROVE  call'[q].c.op # op
    BY DEF SettledAlone, Active, Exists
  <2>1. settled[op] # {} /\ ~(c.op = op /\ Exists(c))
    BY <1>2, <1>3 DEF Shapes
  <2>2. CASE q = p
    BY <1>6, <1>7, <2>1, <2>2
  <2>3. CASE q # p
    BY <1>7, <2>1, <2>3 DEF FilesInv, SettledAlone, Active
  <2> QED
    BY <2>2, <2>3
<1>10. \A op \in {"set_base", "set_return"} : settled'[op] \subseteq settled[op]
  BY <1>2, <1>3 DEF Shapes
<1>11. QuietReads'
  BY <1>1 DEF FilesInv, QuietReads
<1>12. MastersSettled'
  BY <1>1, <1>10 DEF FilesInv, MastersSettled
<1>13. ReplySettled'
  BY <1>1, <1>10 DEF FilesInv, ReplySettled
<1> QED
  BY <1>4, <1>8, <1>9, <1>11, <1>12, <1>13 DEF FilesInv

\* A word stored in a register by somebody else.
LEMMA OtherCall ==
  ASSUME FilesInv, NEW q \in Procs, NEW r, NEW v, NEW k,
         k = IF Disturbed(q, r) THEN [call[q] EXCEPT !.quiet = FALSE] ELSE call[q]
  PROVE  /\ k.c = call[q].c
         /\ k = Idle \/ Tracks(k, Accesses(call[q].c), [reg EXCEPT ![r] = v])
<1>1. signed \in BOOLEAN /\ reg \in [Regs -> Word] /\ CallsTrack
  BY DEF FilesInv, Shapes
<1>2. CASE ~Active(q)
  BY <1>1, <1>2, IdleCall DEF Disturbed
<1>3. CASE Active(q)
  <2> DEFINE s == Accesses(call[q].c)
             h == [reg EXCEPT ![r] = v]
             l == [call[q] EXCEPT !.quiet = FALSE]
  <2>1. Tracks(call[q], s, reg) /\ call[q].c \in Requests
    BY <1>1, <1>3, IdleCall
  <2>2. s \in Seq(Acc)
    BY <1>1, <2>1, AccessesGood DEF Good
  <2>3. Disturbed(q, r) <=> \E i \in DOMAIN s : s[i].r = r
    BY <1>3 DEF Disturbed
  <2>4. "c" \in DOMAIN call[q]
    BY <2>1 DEF Tracks
  <2>5. l.c = call[q].c
    BY <2>4
  <2> HIDE DEF s
  <2>6. Tracks(l, s, h) /\ ((\A i \in DOMAIN s : s[i].r # r) => Tracks(call[q], s, h))
    BY <1>1, <2>1, <2>2, TracksOther
  <2> QED
    BY <2>3, <2>5, <2>6 DEF s
<1> QED
  BY <1>2, <1>3

\* The next access of a process.
LEMMA AccessIs ==
  ASSUME FilesInv, NEW p \in Procs, call[p].todo # << >>
  PROVE  LET a == Head(call[p].todo) IN
         /\ Active(p) /\ call[p].c \in Requests
         /\ Tracks(call[p], Accesses(call[p].c), reg)
         /\ Good(call[p].c, Accesses(call[p].c))
         /\ GoodAcc(call[p].c, a) /\ a \in Acc /\ a.r \in Regs /\ a.v \in Word
         /\ a.write \in BOOLEAN
<1> DEFINE k == call[p]
           s == Accesses(call[p].c)
<1>1. signed \in BOOLEAN /\ CallsTrack
  BY DEF FilesInv, Shapes
<1>2. Active(p)
  BY <1>1, IdleCall DEF Idle
<1>3. Tracks(k, s, reg) /\ k.c \in Requests
  BY <1>1, <1>2, IdleCall
<1>4. Good(k.c, s)
  BY <1>1, <1>3, AccessesGood
<1> HIDE DEF k, s
<1>5. k.todo # << >>
  BY DEF k
<1>6. GoodAcc(k.c, Head(k.todo))
  BY <1>3, <1>4, <1>5, NextAccess
<1>7. Head(k.todo) \in Acc
  BY <1>6 DEF GoodAcc
<1>8. Head(k.todo).r \in Regs /\ Head(k.todo).v \in Word /\ Head(k.todo).write \in BOOLEAN
  BY <1>7 DEF Acc
<1> QED
  BY <1>2, <1>3, <1>4, <1>6, <1>7, <1>8 DEF k, s

LEMMA AccessKeeps ==
  ASSUME FilesInv, NEW p \in Procs, Access(p)
  PROVE  FilesInv'
<1> DEFINE a == Head(call[p].todo)
           h == IF a.write THEN [reg EXCEPT ![a.r] = a.v] ELSE reg
<1>1. /\ call[p].todo # << >> /\ reg' = h
      /\ call' = [q \in Procs |->
           IF q = p THEN [call[p] EXCEPT !.todo = Tail(@),
                                         !.got = IF a.write THEN @ ELSE Append(@, reg[a.r])]
           ELSE IF a.write /\ Disturbed(q, a.r) THEN [call[q] EXCEPT !.quiet = FALSE]
           ELSE call[q]]
      /\ signed' = signed /\ result' = result /\ settled' = settled
      /\ calls' = calls /\ writes' = writes
  BY DEF Access
<1>2. /\ Active(p) /\ Tracks(call[p], Accesses(call[p].c), reg)
      /\ Good(call[p].c, Accesses(call[p].c)) /\ GoodAcc(call[p].c, a)
      /\ a.r \in Regs /\ a.v \in Word /\ a.write \in BOOLEAN
  BY <1>1, AccessIs
<1>3. Shapes
  BY DEF FilesInv
<1>4. Shapes'
  <2>1. h \in [Regs -> Word]
    <3> HIDE DEF a
    <3> QED
      BY <1>2, <1>3 DEF Shapes
  <2>2. DOMAIN call' = Procs
    BY <1>1
  <2> HIDE DEF h
  <2> QED
    BY <1>1, <1>3, <2>1, <2>2 DEF Shapes
<1>5. call'[p].c = call[p].c /\ (call'[p] = Idle \/ Tracks(call'[p], Accesses(call[p].c), h))
  <2> DEFINE k == call[p]
             s == Accesses(call[p].c)
  <2>1. reg \in [Regs -> Word] /\ "c" \in DOMAIN k
    BY <1>2, <1>3 DEF Shapes, Tracks
  <2>2. k.todo # << >>
    BY <1>1
  <2>3. CASE a.write
    <3>1. call'[p] = [k EXCEPT !.todo = Tail(@), !.got = @]
      BY <1>1, <2>3
    <3>2. h = [reg EXCEPT ![Head(k.todo).r] = Head(k.todo).v]
      BY <2>3
    <3>3. Tracks(k, s, reg) /\ Good(k.c, s) /\ Head(k.todo).write
      BY <1>2, <2>3
    <3> HIDE DEF k, s
    <3>4. Tracks([k EXCEPT !.todo = Tail(@), !.got = @], s,
                 [reg EXCEPT ![Head(k.todo).r] = Head(k.todo).v])
      BY <2>1, <2>2, <3>3, TracksWrite
    <3> QED
      BY <2>1, <3>1, <3>2, <3>4 DEF k, s
  <2>4. CASE ~a.write
    <3>1. call'[p] = [k EXCEPT !.todo = Tail(@), !.got = Append(@, reg[Head(k.todo).r])]
      BY <1>1, <2>4
    <3>2. h = reg
      BY <2>4
    <3>3. Tracks(k, s, reg) /\ Good(k.c, s) /\ ~Head(k.todo).write
      BY <1>2, <2>4
    <3> HIDE DEF k, s
    <3>4. Tracks([k EXCEPT !.todo = Tail(@), !.got = Append(@, reg[Head(k.todo).r])], s, reg)
      BY <2>1, <2>2, <3>3, TracksRead
    <3> QED
      BY <2>1, <3>1, <3>2, <3>4 DEF k, s
  <2> QED
    BY <2>3, <2>4
<1>6. ASSUME NEW q \in Procs, q # p
      PROVE  call'[q].c = call[q].c /\ (call'[q] = Idle \/ Tracks(call'[q], Accesses(call[q].c), h))
  <2>1. CASE a.write
    <3>1. call'[q] = IF Disturbed(q, a.r) THEN [call[q] EXCEPT !.quiet = FALSE] ELSE call[q]
      BY <1>1, <1>6, <2>1
    <3>2. h = [reg EXCEPT ![a.r] = a.v]
      BY <2>1
    <3> HIDE DEF a, h
    <3> QED
      BY <3>1, <3>2, OtherCall
  <2>2. CASE ~a.write
    <3>1. call'[q] = call[q] /\ h = reg
      BY <1>1, <1>6, <2>2
    <3> QED
      BY <3>1 DEF FilesInv, CallsTrack
  <2> QED
    BY <2>1, <2>2
<1>7. \A q \in Procs : call'[q].c = call[q].c
  BY <1>5, <1>6
<1> HIDE DEF h
<1>8. CallsTrack'
  <2> SUFFICES ASSUME NEW q \in Procs
               PROVE  call'[q] = Idle \/ Tracks(call'[q], Accesses(call[q].c)', reg')
    BY DEF CallsTrack, Idle
  <2>1. Accesses(call[q].c)' = Accesses(call[q].c)
    BY <1>1, <1>7, SameAccesses
  <2> QED
    BY <1>1, <1>5, <1>6, <2>1
<1>9. SettledAlone'
  BY <1>1, <1>7 DEF FilesInv, SettledAlone, Active, Exists
<1>10. QuietReads'
  BY <1>1 DEF FilesInv, QuietReads
<1>11. MastersSettled'
  <2> SUFFICES ASSUME NEW v \in settled["set_base"], NEW i \in Masters
               PROVE  h[<<"master", i>>] = v
    BY <1>1 DEF MastersSettled
  <2>1. reg[<<"master", i>>] = v
    BY DEF FilesInv, MastersSettled
  <2>2. ~(a.write /\ a.r[1] = "master")
    BY <1>2 DEF FilesInv, SettledAlone, GoodAcc
  <2>3. a.write => a.r # <<"master", i>>
    BY <2>2
  <2> HIDE DEF a
  <2> QED
    BY <1>2, <1>3, <2>1, <2>3 DEF h, Shapes
<1>12. ReplySettled'
  <2> SUFFICES ASSUME NEW v \in settled["set_return"]
               PROVE  h[<<"in", 1>>] = v \/ (signed /\ High(v) # {})
    BY <1>1 DEF ReplySettled
  <2>1. reg[<<"in", 1>>] = v \/ (signed /\ High(v) # {})
    BY DEF FilesInv, ReplySettled
  <2>2. ~(a.write /\ a.r[1] = "in")
    BY <1>2 DEF FilesInv, SettledAlone, GoodAcc
  <2>3. a.write => a.r # <<"in", 1>>
    BY <2>2
  <2> HIDE DEF a
  <2> QED
    BY <1>2, <1>3, <2>1, <2>3 DEF h, Shapes
<1> QED
  BY <1>4, <1>8, <1>9, <1>10, <1>11, <1>12 DEF FilesInv

\* The accelerator writes registers of its own, never those of a settled file.
LEMMA OutputKeeps ==
  ASSUME FilesInv, NEW o \in Outputs, Output(o[1], o[2])
  PROVE  FilesInv'
<1> DEFINE r == o[1]
           v == o[2]
           h == [reg EXCEPT ![r] = v]
<1>1. r \in OutRegs /\ v \in Word
  BY FilesAssumption
<1>2. /\ writes < MaxWrites /\ writes' = writes + 1 /\ reg' = h
      /\ call' = [q \in Procs |-> IF Disturbed(q, r) THEN [call[q] EXCEPT !.quiet = FALSE]
                                  ELSE call[q]]
      /\ signed' = signed /\ result' = result /\ settled' = settled /\ calls' = calls
  BY DEF Output
<1>3. r \in Regs /\ r[1] # "master" /\ r[1] # "in"
  <2>1. r = <<"retval", 0>> \/ \E i \in 0 .. 5 : r = <<"out", i>>
    BY <1>1 DEF OutRegs
  <2>2. r \in Regs
    BY <2>1, RegsOf
  <2> QED
    BY <2>1, <2>2
<1> HIDE DEF r, v
<1>4. Shapes
  BY DEF FilesInv
<1>5. h \in [Regs -> Word] /\ \A f \in Regs : f[1] \in {"master", "in"} => h[f] = reg[f]
  BY <1>1, <1>3, <1>4 DEF Shapes
<1>6. Shapes'
  <2>1. DOMAIN call' = Procs
    BY <1>2
  <2> HIDE DEF h
  <2> QED
    BY <1>2, <1>4, <1>5, <2>1, FilesAssumption DEF Shapes
<1>7. \A q \in Procs :
        call'[q].c = call[q].c /\ (call'[q] = Idle \/ Tracks(call'[q], Accesses(call[q].c), h))
  <2> TAKE q \in Procs
  <2>1. call'[q] = IF Disturbed(q, r) THEN [call[q] EXCEPT !.quiet = FALSE] ELSE call[q]
    BY <1>2
  <2> QED
    BY <2>1, OtherCall
<1> HIDE DEF h
<1>8. CallsTrack'
  <2> SUFFICES ASSUME NEW q \in Procs
               PROVE  call'[q] = Idle \/ Tracks(call'[q], Accesses(call[q].c)', reg')
    BY DEF CallsTrack, Idle
  <2>1. Accesses(call[q].c)' = Accesses(call[q].c)
    BY <1>2, <1>7, SameAccesses
  <2> QED
    BY <1>2, <1>7, <2>1
<1>9. SettledAlone'
  BY <1>2, <1>7 DEF FilesInv, SettledAlone, Active, Exists
<1>10. QuietReads'
  BY <1>2 DEF FilesInv, QuietReads
<1>11. MastersSettled'
  <2> SUFFICES ASSUME NEW w \in settled["set_base"], NEW i \in Masters
               PROVE  h[<<"master", i>>] = w
    BY <1>2 DEF MastersSettled
  <2>1. reg[<<"master", i>>] = w
    BY DEF FilesInv, MastersSettled
  <2>2. h[<<"master", i>>] = reg[<<"master", i>>]
    <3> DEFINE f == <<"master", i>>
    <3>1. f \in Regs /\ f[1] = "master"
      BY RegsOf
    <3> HIDE DEF f
    <3>2. h[f] = reg[f]
      BY <1>5, <3>1
    <3> QED
      BY <3>2 DEF f
  <2> QED
    BY <2>1, <2>2
<1>12. ReplySettled'
  <2> SUFFICES ASSUME NEW w \in settled["set_return"]
               PROVE  h[<<"in", 1>>] = w \/ (signed /\ High(w) # {})
    BY <1>2 DEF ReplySettled
  <2>1. reg[<<"in", 1>>] = w \/ (signed /\ High(w) # {})
    BY DEF FilesInv, ReplySettled
  <2>2. h[<<"in", 1>>] = reg[<<"in", 1>>]
    <3> DEFINE f == <<"in", 1>>
    <3>1. f \in Regs /\ f[1] = "in"
      BY RegsOf
    <3> HIDE DEF f
    <3>2. h[f] = reg[f]
      BY <1>5, <3>1
    <3> QED
      BY <3>2 DEF f
  <2> QED
    BY <2>1, <2>2
<1> QED
  BY <1>6, <1>8, <1>9, <1>10, <1>11, <1>12 DEF FilesInv

\* A store that has made all its accesses, undisturbed, has left its word.
LEMMA MastersDone ==
  ASSUME FilesInv, NEW p \in Procs, Active(p), call[p].todo = << >>, call[p].quiet,
         call[p].c.op = "set_base", Exists(call[p].c)
  PROVE  \A i \in Masters : reg[<<"master", i>>] = call[p].c.v[1]
<1> DEFINE k == call[p]
           c == k.c
           s == Accesses(c)
<1>1. Tracks(k, s, reg) /\ c \in Requests
  BY IdleCall DEF FilesInv
<1>2. s = SetBase(Unpack(Pack(c.v[1])))
  BY DEF Accesses, Aligned
<1>3. /\ DOMAIN s = 1 .. 3 /\ Len(s) = 3
      /\ \A i \in 1 .. 3 : s[i].r = <<"master", i - 1>> /\ s[i].v = c.v[1]
  BY <1>1, <1>2, GoodSetBase
<1>4. k.quiet /\ c.op \notin Reads /\ Len(k.todo) = 0
  BY DEF Reads
<1> HIDE DEF s, k, c
<1>5. \A i \in 1 .. 3 : Lasting(s, i) => reg[s[i].r] = s[i].v
  BY <1>1, <1>3, <1>4 DEF Tracks, c
<1>6. \A i \in 1 .. 3 : Lasting(s, i)
  BY <1>3 DEF Lasting
<1>7. ASSUME NEW i \in Masters PROVE reg[<<"master", i>>] = c.v[1]
  <2>1. i + 1 \in 1 .. 3 /\ (i + 1) - 1 = i
    BY DEF Masters
  <2>2. s[i + 1].r = <<"master", (i + 1) - 1>> /\ s[i + 1].v = c.v[1]
    BY <1>3, <2>1
  <2>3. reg[s[i + 1].r] = s[i + 1].v
    BY <1>5, <1>6, <2>1
  <2> QED
    BY <2>1, <2>2, <2>3
<1> QED
  BY <1>7 DEF c, k

LEMMA ReplyDone ==
  ASSUME FilesInv, NEW p \in Procs, Active(p), call[p].todo = << >>, call[p].quiet,
         call[p].c.op = "set_return", Exists(call[p].c)
  PROVE  LET v == call[p].c.v[1] IN reg[<<"in", 1>>] = v \/ (signed /\ High(v) # {})
<1> DEFINE k == call[p]
           c == k.c
           s == Accesses(c)
<1>1. Tracks(k, s, reg) /\ c \in Requests
  BY IdleCall DEF FilesInv
<1>2. s = StoreReply(c.v[1], Knock1) \o StoreReply(c.v[1], Knock2)
  BY DEF Accesses, Aligned
<1>3. signed \in BOOLEAN
  BY DEF FilesInv, Shapes
<1>4. /\ DOMAIN s = 1 .. 4 /\ Len(s) = 4 /\ s[1].r = <<"in", 1>>
      /\ \A i \in 1 .. 4 : s[i].r = <<"in", 1>> => s[i].v = Joined(c.v[1], signed)
  BY <1>1, <1>2, <1>3, GoodReply
<1>5. k.quiet /\ c.op \notin Reads /\ Len(k.todo) = 0
  BY DEF Reads
<1>6. c.v[1] \in Word
  BY <1>1, RequestTypes
<1> HIDE DEF s, k, c
<1>7. Lasting(s, 1)
  BY <1>4 DEF Lasting
<1>8. reg[s[1].r] = s[1].v
  BY <1>1, <1>4, <1>5, <1>7 DEF Tracks, c
<1>9. reg[<<"in", 1>>] = Joined(c.v[1], signed)
  BY <1>4, <1>8
<1>10. Joined(c.v[1], signed) = c.v[1] \/ (signed /\ High(c.v[1]) # {})
  <2> DEFINE x == c.v[1]
  <2>1. x \in Word
    BY <1>6
  <2> HIDE DEF x
  <2>2. Joined(x, signed) = x \/ (signed /\ High(x) # {})
    BY <1>3, <2>1, JoinedWord
  <2> QED
    BY <2>2 DEF x
<1> QED
  BY <1>9, <1>10 DEF c, k

\* A read that has made all its accesses, undisturbed, decodes to what the
\* file held.
LEMMA ReadDone ==
  ASSUME FilesInv, NEW p \in Procs, Active(p), call[p].todo = << >>, call[p].quiet,
         call[p].c.op \in Reads
  PROVE  Decode(call[p].c, call[p].got) = call[p].seen
<1> DEFINE k == call[p]
           c == k.c
           s == Accesses(c)
           o == k.got
<1>1. Tracks(k, s, reg) /\ c \in Requests
  BY IdleCall DEF FilesInv
<1>2. signed \in BOOLEAN /\ reg \in [Regs -> Word]
  BY DEF FilesInv, Shapes
<1>3. Len(s) \in Nat
  BY <1>1, <1>2, AccessesGood DEF Good
<1>4. k.quiet /\ k.c.op \in Reads /\ Len(k.todo) = 0
  OBVIOUS
<1> HIDE DEF s, k
<1>5. /\ o \in Seq(Word) /\ Len(o) = Len(s)
      /\ \A i \in 1 .. Len(o) : o[i] = reg[s[i].r]
      /\ k.seen = [i \in DOMAIN s |-> ViewIn(reg, s[i].r)]
  BY <1>1, <1>3, <1>4 DEF Tracks
<1> HIDE DEF o, c
<1>6. Decode(c, o) = [i \in DOMAIN s |-> ViewIn(reg, s[i].r)]
  <2>1. c.op \in Reads
    BY <1>4 DEF c
  <2> QED
    BY <1>1, <1>2, <1>5, <2>1, DecodeShows DEF s
<1> QED
  BY <1>5, <1>6 DEF k, c, o

LEMMA ReturnKeeps ==
  ASSUME FilesInv, NEW p \in Procs, Return(p)
  PROVE  FilesInv'
<1> DEFINE c == call[p].c
           alone == /\ c.op \in DOMAIN settled /\ Exists(c) /\ call[p].quiet
                    /\ \A q \in Procs \ {p} : call[q].c.op # c.op
<1>1. /\ Active(p) /\ call[p].todo = << >>
      /\ call' = [call EXCEPT ![p] = Idle]
      /\ signed' = signed /\ reg' = reg /\ calls' = calls /\ writes' = writes
  BY DEF Return
<1>2. result' = IF c.op \notin Reads THEN result ELSE [result EXCEPT ![p] =
        [c |-> c, rv |-> IF Exists(c) THEN "OK" ELSE "NOFILE", quiet |-> call[p].quiet,
         val |-> Decode(c, call[p].got), seen |-> call[p].seen]]
  BY DEF Return
<1>3. settled' = IF alone THEN [settled EXCEPT ![c.op] = {c.v[1]}] ELSE settled
  BY DEF Return
<1>4. Shapes
  BY DEF FilesInv
<1>5. Shapes'
  <2>1. DOMAIN call' = Procs /\ DOMAIN result' = Procs /\ DOMAIN settled' = DOMAIN settled
    <3> HIDE DEF alone
    <3> QED
      BY <1>1, <1>2, <1>3, <1>4 DEF Shapes
  <2> QED
    BY <1>1, <1>4, <2>1 DEF Shapes
<1>6. call'[p] = Idle /\ \A q \in Procs \ {p} : call'[q] = call[q]
  BY <1>1, <1>4 DEF Shapes
<1>7. CallsTrack'
  <2> SUFFICES ASSUME NEW q \in Procs
               PROVE  call'[q] = Idle \/ Tracks(call'[q], Accesses(call[q].c)', reg')
    BY DEF CallsTrack, Idle
  <2>1. CASE q = p
    BY <1>6, <2>1
  <2>2. CASE q # p
    <3>1. call'[q] = call[q] /\ Accesses(call[q].c)' = Accesses(call[q].c)
      BY <1>1, <1>6, <2>2, SameAccesses
    <3> QED
      BY <1>1, <3>1 DEF FilesInv, CallsTrack
  <2> QED
    BY <2>1, <2>2
<1>8. SettledAlone'
  <2> SUFFICES ASSUME NEW op \in {"set_base", "set_return"}, settled'[op] # {},
                      NEW q \in Procs, call'[q].c.op # "none", Exists(call'[q].c)
               PROVE  call'[q].c.op # op
    BY DEF SettledAlone, Active, Exists
  <2>1. q # p /\ call'[q] = call[q]
    BY <1>6 DEF Idle
  <2>2. CASE alone /\ c.op = op
    BY <2>1, <2>2
  <2>3. CASE ~(alone /\ c.op = op)
    <3>1. settled'[op] = settled[op]
      <4> HIDE DEF alone
      <4> QED
        BY <1>3, <1>4, <2>3 DEF Shapes
    <3> QED
      BY <2>1, <3>1 DEF FilesInv, SettledAlone, Active
  <2> QED
    BY <2>2, <2>3
<1>9. QuietReads'
  <2> SUFFICES ASSUME NEW q \in Procs, result'[q].c.op \in Reads, result'[q].rv = "OK",
                      result'[q].quiet
               PROVE  result'[q].val = result'[q].seen
    BY DEF QuietReads
  <2>1. CASE c.op \in Reads /\ q = p
    <3>1. /\ result'[p].quiet = call[p].quiet /\ result'[p].val = Decode(c, call[p].got)
          /\ result'[p].seen = call[p].seen
      BY <1>2, <1>4, <2>1 DEF Shapes
    <3> QED
      BY <1>1, <2>1, <3>1, ReadDone
  <2>2. CASE ~(c.op \in Reads /\ q = p)
    <3>1. result'[q] = result[q]
      BY <1>2, <1>4, <2>2 DEF Shapes
    <3> QED
      BY <3>1 DEF FilesInv, QuietReads
  <2> QED
    BY <2>1, <2>2
<1>10. MastersSettled'
  <2> SUFFICES ASSUME NEW v \in settled'["set_base"], NEW i \in Masters
               PROVE  reg[<<"master", i>>] = v
    BY <1>1 DEF MastersSettled
  <2>1. CASE alone /\ c.op = "set_base"
    <3>1. v = c.v[1]
      BY <1>3, <1>4, <2>1 DEF Shapes
    <3> QED
      BY <1>1, <2>1, <3>1, MastersDone
  <2>2. CASE ~(alone /\ c.op = "set_base")
    <3>1. settled'["set_base"] = settled["set_base"]
      <4> HIDE DEF alone
      <4> QED
        BY <1>3, <1>4, <2>2 DEF Shapes
    <3> QED
      BY <3>1 DEF FilesInv, MastersSettled
  <2> QED
    BY <2>1, <2>2
<1>11. ReplySettled'
  <2> SUFFICES ASSUME NEW v \in settled'["set_return"]
               PROVE  reg[<<"in", 1>>] = v \/ (signed /\ High(v) # {})
    BY <1>1 DEF ReplySettled
  <2>1. CASE alone /\ c.op = "set_return"
    <3>1. v = c.v[1]
      BY <1>3, <1>4, <2>1 DEF Shapes
    <3> QED
      BY <1>1, <2>1, <3>1, ReplyDone
  <2>2. CASE ~(alone /\ c.op = "set_return")
    <3>1. settled'["set_return"] = settled["set_return"]
      <4> HIDE DEF alone
      <4> QED
        BY <1>3, <1>4, <2>2 DEF Shapes
    <3> QED
      BY <3>1 DEF FilesInv, ReplySettled
  <2> QED
    BY <2>1, <2>2
<1> QED
  BY <1>5, <1>7, <1>8, <1>9, <1>10, <1>11 DEF FilesInv

LEMMA StutterKeeps ==
  ASSUME FilesInv, UNCHANGED filesVars
  PROVE  FilesInv'
<1>1. /\ signed' = signed /\ reg' = reg /\ call' = call /\ result' = result
      /\ settled' = settled /\ calls' = calls /\ writes' = writes
  BY DEF filesVars
<1>2. \A p \in Procs : Accesses(call[p].c)' = Accesses(call[p].c)
  BY <1>1, SameAccesses
<1>3. CallsTrack'
  BY <1>1, <1>2 DEF FilesInv, CallsTrack, Idle
<1>4. Shapes' /\ SettledAlone'
  BY <1>1 DEF FilesInv, Shapes, SettledAlone, Active, Exists
<1>5. QuietReads' /\ MastersSettled' /\ ReplySettled'
  BY <1>1 DEF FilesInv, QuietReads, MastersSettled, ReplySettled
<1> QED
  BY <1>3, <1>4, <1>5 DEF FilesInv

LEMMA FilesStep == FilesInv /\ [FilesNext]_filesVars => FilesInv'
<1> SUFFICES ASSUME FilesInv, [FilesNext]_filesVars PROVE FilesInv'
  OBVIOUS
<1>1. ASSUME NEW p \in Procs, NEW c \in Requests, Call(p, c) PROVE FilesInv'
  BY <1>1, CallKeeps
<1>2. ASSUME NEW p \in Procs, Access(p) PROVE FilesInv'
  BY <1>2, AccessKeeps
<1>3. ASSUME NEW p \in Procs, Return(p) PROVE FilesInv'
  BY <1>3, ReturnKeeps
<1>4. ASSUME NEW o \in Outputs, Output(o[1], o[2]) PROVE FilesInv'
  BY <1>4, OutputKeeps
<1>5. CASE UNCHANGED filesVars
  BY <1>5, StutterKeeps
<1> QED
  BY <1>1, <1>2, <1>3, <1>4, <1>5 DEF FilesNext

\* The invariant holds of every behaviour of the driver and its users.
THEOREM FilesInvariant == FilesSpec => []FilesInv
  BY FilesStart, FilesStep, PTL DEF FilesSpec

\* Registers hold words, whatever the kernel's char, and a call makes no more
\* accesses than its kind has (juniper_sysfs.c:345-554).
THEOREM TypesKept == FilesSpec => []FilesTypeOK
<1>1. ASSUME FilesInv PROVE FilesTypeOK
  <2>1. Shapes /\ CallsTrack
    BY <1>1 DEF FilesInv
  <2>2. ASSUME NEW p \in Procs, Active(p)
        PROVE  Len(call[p].todo) + Len(call[p].got) <= Len(Accesses(call[p].c))
    <3> DEFINE k == call[p]
               s == Accesses(call[p].c)
    <3>1. Tracks(k, s, reg) /\ k.c \in Requests
      BY <2>1, <2>2, IdleCall
    <3>2. Len(s) \in Nat
      BY <2>1, <3>1, AccessesGood DEF Shapes, Good
    <3> HIDE DEF k, s
    <3>3. Len(k.todo) \in Nat
      BY <3>1 DEF Tracks
    <3>4. Len(k.todo) \leq Len(s) /\ Len(k.got) = (IF k.c.op \in Reads THEN Len(s) - Len(k.todo) ELSE 0)
      BY <3>1 DEF Tracks
    <3> DEFINE n == Len(s)
               m == Len(k.todo)
               l == Len(k.got)
    <3>5. n \in Nat /\ m \in Nat /\ m \leq n /\ (l = n - m \/ l = 0)
      BY <3>2, <3>3, <3>4
    <3> HIDE DEF n, m, l
    <3>6. m + l <= n
      BY <3>5
    <3> QED
      BY <3>6 DEF k, s, n, m, l
  <2> QED
    BY <2>1, <2>2 DEF Shapes, FilesTypeOK
<1> QED
  BY <1>1, FilesInvariant, PTL

\* A read whose registers nobody writes meanwhile gives what the file held: the
\* buffer's bytes join to the register's word for every word and every kind of
\* read, those of the memory file turned round (juniper_sysfs.c:345-532).
THEOREM ReadsAreWhole == FilesSpec => []QuietReads
<1>1. FilesInv => QuietReads
  BY DEF FilesInv
<1> QED
  BY <1>1, FilesInvariant, PTL

\* After a store of the base of memory that ran by itself the three masters hold
\* its word until the next store begins, whatever overlapped before it
\* (juniper_interp.c:325-330).
THEOREM MastersAgree == FilesSpec => []MastersSettled
<1>1. FilesInv => MastersSettled
  BY DEF FilesInv
<1> QED
  BY <1>1, FilesInvariant, PTL

\* After a reply that was sent by itself the accelerator's register holds it,
\* except where char is signed and a low byte is negative (juniper_sysfs.c:534-554).
THEOREM RepliesArrive == FilesSpec => []ReplySettled
<1>1. FilesInv => ReplySettled
  BY DEF FilesInv
<1> QED
  BY <1>1, FilesInvariant, PTL

-----------------------------------------------------------------------------
(* The files are cells.                                                     *)

LEMMA ShownCells ==
  ASSUME NEW r \in Regs, NEW v, reg \in [Regs -> Word], reg' = [reg EXCEPT ![r] = v],
         r \in Viewed => ViewIn(reg', r) \in Given[r]
  PROVE  [File!AbsNext]_([f \in Viewed |-> View(f)])
<1> DEFINE old == [f \in Viewed |-> ViewIn(reg, f)]
           new == [f \in Viewed |-> ViewIn(reg', f)]
<1>1. [f \in Viewed |-> View(f)] = old /\ [f \in Viewed |-> View(f)]' = new
  BY DEF View, ViewIn
<1>2. \A f \in Regs \ {r} : reg'[f] = reg[f]
  OBVIOUS
<1>3. \A f \in Viewed : f \in Regs
  BY DEF Viewed
<1>4. \A f \in Viewed \ {r} : ViewIn(reg', f) = ViewIn(reg, f)
  BY <1>2, <1>3 DEF ViewIn
<1>5. CASE r \in Viewed
  <2>1. new[r] \in Given[r] /\ \A f \in Viewed \ {r} : new[f] = old[f]
    BY <1>4, <1>5
  <2> HIDE DEF old, new
  <2>2. File!Store(r)
    BY <1>1, <2>1 DEF File!Store
  <2> QED
    BY <1>5, <2>2 DEF File!AbsNext
<1>6. CASE r \notin Viewed
  <2>1. new = old
    BY <1>4, <1>6
  <2> HIDE DEF old, new
  <2> QED
    BY <1>1, <2>1
<1> QED
  BY <1>5, <1>6

LEMMA SameCells ==
  ASSUME reg' = reg
  PROVE  [File!AbsNext]_([f \in Viewed |-> View(f)])
  BY DEF View

LEMMA FilesAreCells ==
  ASSUME FilesInv, [FilesNext]_filesVars
  PROVE  [File!AbsNext]_([f \in Viewed |-> View(f)])
<1>1. reg \in [Regs -> Word]
  BY DEF FilesInv, Shapes
<1>2. ASSUME NEW p \in Procs, NEW c \in Requests, Call(p, c)
      PROVE  [File!AbsNext]_([f \in Viewed |-> View(f)])
  BY <1>2, SameCells DEF Call
<1>3. ASSUME NEW p \in Procs, Access(p)
      PROVE  [File!AbsNext]_([f \in Viewed |-> View(f)])
  <2> DEFINE a == Head(call[p].todo)
  <2>1. call[p].todo # << >> /\ reg' = IF a.write THEN [reg EXCEPT ![a.r] = a.v] ELSE reg
    BY <1>3 DEF Access
  <2>2. GoodAcc(call[p].c, a) /\ a.r \in Regs
    BY <2>1, AccessIs
  <2> HIDE DEF a
  <2>3. CASE a.write
    <3>1. reg' = [reg EXCEPT ![a.r] = a.v]
      BY <2>1, <2>3
    <3>2. a.r # <<"out", 0>> /\ (a.r \in Viewed => Shown(a) \in Given[a.r])
      BY <2>2, <2>3 DEF GoodAcc, OutRegs
    <3>3. ViewIn(reg', a.r) = Shown(a)
      BY <1>1, <2>2, <3>1, <3>2 DEF ViewIn, Shown
    <3> QED
      BY <1>1, <2>2, <3>1, <3>2, <3>3, ShownCells
  <2>4. CASE ~a.write
    BY <2>1, <2>4, SameCells
  <2> QED
    BY <2>3, <2>4
<1>4. ASSUME NEW p \in Procs, Return(p)
      PROVE  [File!AbsNext]_([f \in Viewed |-> View(f)])
  BY <1>4, SameCells DEF Return
<1>5. ASSUME NEW o \in Outputs, Output(o[1], o[2])
      PROVE  [File!AbsNext]_([f \in Viewed |-> View(f)])
  <2> DEFINE r == o[1]
             v == o[2]
  <2>1. r \in OutRegs /\ reg' = [reg EXCEPT ![r] = v]
    BY <1>5, FilesAssumption DEF Output
  <2>2. r[1] # "mem" /\ r \in Regs /\ r \in Viewed
    <3>1. r = <<"retval", 0>> \/ \E i \in 0 .. 5 : r = <<"out", i>>
      BY <2>1 DEF OutRegs
    <3>2. r \in Regs
      BY <3>1, RegsOf
    <3> QED
      BY <3>1, <3>2 DEF Viewed
  <2>3. ViewIn(reg', r) = IF r = <<"out", 0>> THEN v % B ELSE v
    <3> HIDE DEF r, v
    <3> QED
      BY <1>1, <2>1, <2>2 DEF ViewIn
  <2>4. (IF r = <<"out", 0>> THEN v % B ELSE v) \in Given[r]
    <3>1. o \in {w \in Outputs : w[1] = r}
      OBVIOUS
    <3> QED
      BY <2>1, <2>2, <3>1 DEF Given
  <2> HIDE DEF r, v
  <2> QED
    BY <1>1, <2>1, <2>2, <2>3, <2>4, ShownCells
<1>6. CASE UNCHANGED filesVars
  BY <1>6, SameCells DEF filesVars
<1> QED
  BY <1>2, <1>3, <1>4, <1>5, <1>6 DEF FilesNext

\* To their readers the files are cells: a step stores in one of them a word that
\* some request gave to it, or the accelerator wrote there, and changes no other;
\* a call that fails or is not aligned stores nothing (juniper_sysfs.c:345-554).
THEOREM FilesImplement == FilesSpec => ImplementsFiles
<1>1. FilesInv /\ [FilesNext]_filesVars => [File!AbsNext]_([f \in Viewed |-> View(f)])
  BY FilesAreCells
<1> QED
  BY <1>1, FilesInvariant, PTL DEF FilesSpec, ImplementsFiles, File!AbsSpec

=============================================================================
