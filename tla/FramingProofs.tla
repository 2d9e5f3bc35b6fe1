----------------------------- MODULE FramingProofs -----------------------------
(***************************************************************************)
(* Proofs about the framing of packets, for payloads of any length and     *)
(* bytes that arrive in pieces of any size.                                *)
(***************************************************************************)
EXTENDS PacketFraming, SequenceTheorems, WellFoundedInduction, TLAPS

-------------------------------------------------------------------------------
(* Induction, and recursive functions, as in TablesProofs. *)

\* A set of numbers has a least one.
LEMMA Least ==
  ASSUME NEW T, T \subseteq Nat, T # {}
  PROVE \E m \in T : \A k \in T : m <= k
<1> DEFINE R == OpToRel(<,Nat)
<1>1. IsWellFoundedOn(R, Nat)
   BY NatLessThanWellFounded
<1>2. \A x, y \in Nat : x < y => <<x,y>> \in R
  BY DEF OpToRel
<1> HIDE DEF R
<1>3. PICK x \in T : \A y \in T : ~ (<<y, x>> \in R)
  BY <1>1, WFMin
<1>4. \A y \in T : ~(y < x)
  BY <1>2, <1>3
<1>5. \A y \in T : y \in Nat
  OBVIOUS
<1> QED BY <1>4, <1>5

\* What holds of 0, and of n + 1 with n, holds of every number.
LEMMA UpFromZero ==
  ASSUME NEW S, 0 \in S, \A n \in Nat : n \in S => n + 1 \in S
  PROVE Nat \subseteq S
<1>1. SUFFICES ASSUME Nat \ S # {} PROVE FALSE
  OBVIOUS
<1>2. PICK m \in Nat \ S : \A k \in Nat \ S : m <= k
  BY <1>1, Least
<1>3. m - 1 \in Nat /\ m - 1 \notin Nat \ S
  BY <1>2
<1> QED BY <1>2, <1>3

\* A loop over 1..n that starts with a and whose turn i makes step[i][x] of x.
Steps(n, X) == [1..n -> [X -> X]]
IsLoop(f, n, X, a, step) ==
    f \in [0..n -> X] /\ f[0] = a /\ \A i \in 1..n : f[i] = step[i][f[i - 1]]

LEMMA LoopsExist ==
  ASSUME NEW n \in Nat, NEW X, NEW a \in X, NEW step \in Steps(n, X)
  PROVE  \E f : IsLoop(f, n, X, a, step)
<1> DEFINE Loops(m, f) == f \in [0..m -> X] /\ f[0] = a /\ \A i \in 1..m : f[i] = step[i][f[i - 1]]
           S == {m \in Nat : m <= n => \E f : Loops(m, f)}
<1>1. 0 \in S
  <2>1. Loops(0, [i \in 0..0 |-> a])
    OBVIOUS
  <2> QED BY <2>1
<1>2. ASSUME NEW m \in Nat, m \in S PROVE m + 1 \in S
  <2>1. SUFFICES ASSUME m + 1 <= n PROVE \E f : Loops(m + 1, f)
    OBVIOUS
  <2>2. PICK f : Loops(m, f)
    BY <1>2, <2>1
  <2> DEFINE g == [i \in 0..m + 1 |-> IF i = m + 1 THEN step[i][f[i - 1]] ELSE f[i]]
  <2>3. f[m] \in X /\ step[m + 1] \in [X -> X]
    BY <2>1, <2>2 DEF Steps
  <2>4. g \in [0..m + 1 -> X]
    BY <2>2, <2>3
  <2>5. g[0] = a
    BY <2>2
  <2>6. ASSUME NEW i \in 1..m + 1 PROVE g[i] = step[i][g[i - 1]]
    <3>1. CASE i = m + 1
      <4>1. i - 1 \in 0..m + 1 /\ i - 1 # m + 1 /\ i \in 0..m+1
        BY <3>1
      <4> QED BY <3>1, <4>1
    <3>2. CASE i # m + 1
      <4>1. i \in 1..m /\ i - 1 \in 0..m + 1 /\ i - 1 # m + 1
        BY <3>2
      <4> QED BY <2>2, <3>2, <4>1
    <3> QED BY <3>1, <3>2
  <2> HIDE DEF g
  <2> QED BY <2>4, <2>5, <2>6
<1> HIDE DEF Loops
<1>3. Nat \subseteq S
  <2> HIDE DEF S
  <2> QED BY <1>1, <1>2, UpFromZero
<1>4. PICK f : Loops(n, f)
  BY <1>3
<1> QED BY <1>4 DEF Loops, IsLoop

\* The same as far as n.
LEMMA UpTo ==
  ASSUME NEW n \in Nat, NEW S, 0 \in S, \A i \in 1..n : i - 1 \in S => i \in S
  PROVE  \A i \in 0..n : i \in S
<1> DEFINE T == {i \in Nat : i <= n => i \in S}
<1>1. 0 \in T
  OBVIOUS
<1>2. \A i \in Nat : i \in T => i + 1 \in T
  OBVIOUS
<1>3. Nat \subseteq T
  <2> HIDE DEF T
  <2> QED BY <1>1, <1>2, UpFromZero
<1> QED BY <1>3

\* Both take a turn to the same if they come to it with the same.
SameTurns(n, f, g) ==
    f[0] = g[0] /\ \A i \in 1..n : f[i - 1] = g[i - 1] => f[i] = g[i]

\* Two functions that take the same turns are the same.
LEMMA LoopsAreUnique ==
  ASSUME NEW n \in Nat, NEW f, NEW g, SameTurns(n, f, g)
  PROVE  \A i \in 0..n : f[i] = g[i]
<1> DEFINE S == {i \in 0..n : f[i] = g[i]}
<1>1. 0 \in S /\ \A i \in 1..n : i - 1 \in S => i \in S
  BY DEF SameTurns
<1>2. \A i \in 0..n : i \in S
  <2> HIDE DEF S
  <2> QED BY <1>1, UpTo
<1> QED BY <1>2

-------------------------------------------------------------------------------
(* Headers and frames. *)

LEMMA Regroup ==
  /\ \A a, b, c \in Seq(Bytes) : (a \o b) \o c = a \o (b \o c)
  /\ \A a, b, c \in Seq(Payloads) : (a \o b) \o c = a \o (b \o c)
  /\ \A a, b, c \in Seq(Seq(Bytes)) : (a \o b) \o c = a \o (b \o c)
<1> DEFINE Groups(S) == \A a, b, c \in Seq(S) : (a \o b) \o c = a \o (b \o c)
<1>1. \A S : Groups(S)
  BY ConcatAssociative
<1> HIDE DEF Groups
<1>2. Groups(Bytes) /\ Groups(Payloads) /\ Groups(Seq(Bytes))
  BY <1>1
<1> QED BY <1>2 DEF Groups

LEMMA Powers == 256 ^ 3 = 256 * 256 * 256 /\ 256 ^ 2 = 256 * 256
  OBVIOUS

LEMMA ReadIs ==
  ASSUME NEW b
  PROVE  ReadUInt32BE(b) = b[1] * (256 * 256 * 256) + b[2] * (256 * 256) + b[3] * 256 + b[4]
  BY Powers, SMT DEF ReadUInt32BE

LEMMA WriteIs ==
  ASSUME NEW n
  PROVE  WriteUInt32BE(n) =
            <<n \div (256 * 256 * 256), (n \div (256 * 256)) % 256, (n \div 256) % 256, n % 256>>
  BY Powers, SMT DEF WriteUInt32BE

LEMMA LengthsFit ==
  \A p \in Payloads : p \in Seq(Bytes) /\ Len(p) \in Nat /\ Len(p) \div (256 * 256 * 256) \in Bytes
<1> TAKE p \in Payloads
<1>1. p \in Seq(Bytes) /\ Len(p) \in Nat
  BY FramingAssumption
<1> DEFINE h == WriteUInt32BE(Len(p))
<1>2. h \in Seq(Bytes)
  BY HeaderAssumption
<1>3. h = <<Len(p) \div (256 * 256 * 256), (Len(p) \div (256 * 256)) % 256, (Len(p) \div 256) % 256, Len(p) % 256>>
  BY WriteIs
<1>4. Len(h) = 4 /\ h[1] = Len(p) \div (256 * 256 * 256)
  BY <1>3
<1> HIDE DEF h
<1>5. h[1] \in Bytes
  <2>1. 1 \in 1..Len(h)
    BY <1>4
  <2> QED BY <1>2, <2>1, ElementOfSeq
<1> QED BY <1>1, <1>4, <1>5

LEMMA HeadersHoldLengths ==
  ASSUME NEW n \in Nat, n \div (256 * 256 * 256) \in Bytes
  PROVE  /\ WriteUInt32BE(n) \in Seq(Bytes) /\ Len(WriteUInt32BE(n)) = HeaderLength
         /\ ReadUInt32BE(WriteUInt32BE(n)) = n
<1> DEFINE a == n \div (256 * 256 * 256)
           b == (n \div (256 * 256)) % 256
           c == (n \div 256) % 256
           d == n % 256
<1>1. a \in Bytes /\ b \in Bytes /\ c \in Bytes /\ d \in Bytes
  BY DEF Bytes
<1>2. a * (256 * 256 * 256) + b * (256 * 256) + c * 256 + d = n
  OBVIOUS
<1>3. WriteUInt32BE(n) = <<a, b, c, d>>
  BY WriteIs
<1> HIDE DEF a, b, c, d
<1>4. <<a, b, c, d>> \in Seq(Bytes) /\ Len(<<a, b, c, d>>) = 4
  BY <1>1
<1>5. ReadUInt32BE(<<a, b, c, d>>) = a * (256 * 256 * 256) + b * (256 * 256) + c * 256 + d
  BY ReadIs
<1> QED BY <1>2, <1>3, <1>4, <1>5 DEF HeaderLength

LEMMA Cuts ==
  ASSUME NEW S, NEW s \in Seq(S), NEW n \in 0..Len(s)
  PROVE  /\ SubSeq(s, 1, n) \in Seq(S) /\ SubSeq(s, n + 1, Len(s)) \in Seq(S)
         /\ Len(SubSeq(s, 1, n)) = n /\ Len(SubSeq(s, n + 1, Len(s))) = Len(s) - n
         /\ SubSeq(s, 1, n) \o SubSeq(s, n + 1, Len(s)) = s
<1>1. Len(s) \in Nat /\ \A i \in 1..Len(s) : s[i] \in S
  BY LenProperties, ElementOfSeq
<1>2. \A i \in 1..n : s[i] \in S
  BY <1>1
<1>3. \A i \in n + 1..Len(s) : s[i] \in S
  BY <1>1
<1>4. SubSeq(s, 1, n) \in Seq(S) /\ Len(SubSeq(s, 1, n)) = n
  BY <1>1, <1>2, SubSeqProperties
<1>5. SubSeq(s, n + 1, Len(s)) \in Seq(S) /\ Len(SubSeq(s, n + 1, Len(s))) = Len(s) - n
  BY <1>1, <1>3, SubSeqProperties
<1>6. SubSeq(s, 1, n) \o SubSeq(s, n + 1, Len(s)) = SubSeq(s, 1, Len(s))
  <2>1. 1 \in 1..Len(s) + 1 /\ n \in 1 - 1..Len(s) /\ Len(s) \in n..Len(s)
    BY <1>1
  <2> QED BY <2>1, ConcatAdjacentSubSeq
<1> QED BY <1>4, <1>5, <1>6, SubSeqFull

\* The two parts a sequence was made of are cut apart again.
LEMMA Parts ==
  ASSUME NEW S, NEW a \in Seq(S), NEW r \in Seq(S)
  PROVE  /\ a \o r \in Seq(S) /\ Len(a \o r) = Len(a) + Len(r) /\ Len(a) \in 0..Len(a \o r)
         /\ SubSeq(a \o r, 1, Len(a)) = a /\ SubSeq(a \o r, Len(a) + 1, Len(a \o r)) = r
<1> DEFINE s == a \o r
           x == SubSeq(s, 1, Len(a))
<1>1. s \in Seq(S) /\ Len(s) = Len(a) + Len(r) /\ Len(a) \in Nat /\ Len(r) \in Nat
  BY ConcatProperties, LenProperties
<1>2. \A i \in 1..Len(a) : s[i] = a[i] /\ a[i] \in S
  BY <1>1, ConcatProperties, ElementOfSeq
<1> HIDE DEF s
<1>3. x \in Seq(S) /\ Len(x) = Len(a) /\ \A i \in 1..Len(a) : x[i] = s[i]
  <2>1. \A i \in 1..Len(a) : s[i] \in S
    BY <1>2
  <2>2. SubSeq(s, 1, Len(a)) \in Seq(S)
    BY <1>1, <2>1, SubSeqProperties
  <2>3. Len(SubSeq(s, 1, Len(a))) = Len(a)
    BY <1>1, <2>1, SubSeqProperties
  <2>4. \A i \in 1..Len(a) : SubSeq(s, 1, Len(a))[i] = s[i]
    BY <1>1
  <2> QED BY <2>2, <2>3, <2>4
<1>4. x = a
  <2> HIDE DEF x
  <2> QED BY <1>2, <1>3, SeqEqual
<1>5. x \o SubSeq(s, Len(a) + 1, Len(s)) = s /\ SubSeq(s, Len(a) + 1, Len(s)) \in Seq(S)
  <2>1. Len(a) \in 0..Len(s)
    BY <1>1
  <2> QED BY <1>1, <1>4, <2>1, Cuts DEF x
<1>6. a \o SubSeq(s, Len(a) + 1, Len(s)) = a \o r
  BY <1>4, <1>5 DEF s
<1>7. SubSeq(s, Len(a) + 1, Len(s)) = r
  BY <1>5, <1>6, ConcatSimplifications
<1> QED BY <1>1, <1>4, <1>7 DEF s

\* The length in a header is a number, and depends on the header alone.
LEMMA HeadersAreRead ==
  ASSUME NEW b \in Seq(Bytes), Len(b) >= HeaderLength, NEW w \in Seq(Bytes)
  PROVE  ReadUInt32BE(b) \in Nat /\ ReadUInt32BE(b \o w) = ReadUInt32BE(b)
<1>1. Len(b) \in Nat /\ Len(w) \in Nat /\ \A i \in 1..Len(b) : b[i] \in 0..255
  BY LenProperties, ElementOfSeq DEF Bytes
<1>2. \A i \in 1..Len(b) : (b \o w)[i] = b[i]
  BY <1>1, ConcatProperties
<1>3. 1 \in 1..Len(b) /\ 2 \in 1..Len(b) /\ 3 \in 1..Len(b) /\ 4 \in 1..Len(b)
  BY <1>1 DEF HeaderLength
<1>4. b[1] \in 0..255 /\ b[2] \in 0..255 /\ b[3] \in 0..255 /\ b[4] \in 0..255
  BY <1>1, <1>3
<1>5. ReadUInt32BE(b \o w) = ReadUInt32BE(b)
  <2> DEFINE x == b \o w
  <2>1. x[1] = b[1] /\ x[2] = b[2] /\ x[3] = b[3] /\ x[4] = b[4]
    BY <1>2, <1>3
  <2> HIDE DEF x
  <2>2. ReadUInt32BE(x) = ReadUInt32BE(b)
    BY <2>1, Zenon DEF ReadUInt32BE
  <2> QED BY <2>2 DEF x
<1>6. ReadUInt32BE(b) \in Nat
  <2> DEFINE i == b[1]
             j == b[2]
             k == b[3]
             l == b[4]
  <2>1. ReadUInt32BE(b) = i * (256 * 256 * 256) + j * (256 * 256) + k * 256 + l
    BY ReadIs
  <2>2. i \in 0..255 /\ j \in 0..255 /\ k \in 0..255 /\ l \in 0..255
    BY <1>4
  <2> HIDE DEF i, j, k, l
  <2> QED BY <2>1, <2>2
<1> QED BY <1>5, <1>6

\* The places of bytes that are joined.
LEMMA Joined ==
  ASSUME NEW a \in Seq(Bytes), NEW b \in Seq(Bytes)
  PROVE  /\ \A i \in 1..Len(a) : (a \o b)[i] = a[i]
         /\ \A i \in 1..Len(b) : (a \o b)[Len(a) + i] = b[i]
<1>1. Len(a) \in Nat /\ Len(b) \in Nat
  BY LenProperties
<1>2. \A i \in 1..Len(a) + Len(b) : (a \o b)[i] = IF i <= Len(a) THEN a[i] ELSE b[i - Len(a)]
  BY ConcatProperties
<1>3. ASSUME NEW i \in 1..Len(a) PROVE (a \o b)[i] = a[i]
  BY <1>1, <1>2
<1>4. ASSUME NEW i \in 1..Len(b) PROVE (a \o b)[Len(a) + i] = b[i]
  <2>1. Len(a) + i \in 1..Len(a) + Len(b) /\ ~(Len(a) + i <= Len(a)) /\ (Len(a) + i) - Len(a) = i
    BY <1>1
  <2> QED BY <1>2, <2>1
<1> QED BY <1>3, <1>4

\* A frame at the front of a buffer is read as it was written.
LEMMA FramesAreRead ==
  ASSUME NEW p \in Payloads, NEW r \in Seq(Bytes)
  PROVE  /\ p \in Seq(Bytes) /\ Frame(p) \in Seq(Bytes) /\ Len(Frame(p)) = HeaderLength + Len(p)
         /\ ReadUInt32BE(Frame(p) \o r) = Len(p)
         /\ FirstPayload(Frame(p) \o r) = p /\ AfterFrame(Frame(p) \o r) = r
<1> DEFINE h == WriteUInt32BE(Len(p))
           f == Frame(p) \o r
<1>1. p \in Seq(Bytes) /\ Len(p) \in Nat
  BY LengthsFit
<1>2. h \in Seq(Bytes) /\ Len(h) = HeaderLength /\ ReadUInt32BE(h) = Len(p)
  BY <1>1, HeadersHoldLengths, LengthsFit
<1> HIDE DEF h
<1>3. Frame(p) = h \o p
  BY DEF Frame, h
<1>4. Frame(p) \in Seq(Bytes) /\ Len(Frame(p)) = HeaderLength + Len(p)
  BY <1>1, <1>2, <1>3, ConcatProperties
<1>5. p \o r \in Seq(Bytes) /\ f = h \o (p \o r)
  <2>1. p \o r \in Seq(Bytes)
    BY <1>1, ConcatProperties
  <2>2. (h \o p) \o r = h \o (p \o r)
    BY <1>1, <1>2, Regroup
  <2> QED BY <1>3, <2>1, <2>2
<1>6. ReadUInt32BE(f) = Len(p)
  <2>1. Len(h) >= HeaderLength
    BY <1>2 DEF HeaderLength
  <2>2. ReadUInt32BE(h \o (p \o r)) = ReadUInt32BE(h)
    BY <1>2, <1>5, <2>1, HeadersAreRead
  <2> QED BY <1>2, <1>5, <2>2
<1>7. SubSeq(f, HeaderLength + Len(p) + 1, Len(f)) = r /\ SubSeq(f, 1, HeaderLength + Len(p)) = Frame(p)
  <2> DEFINE a == Frame(p)
  <2>1. a \in Seq(Bytes) /\ Len(a) = HeaderLength + Len(p)
    BY <1>4
  <2> HIDE DEF a
  <2>2. SubSeq(a \o r, 1, Len(a)) = a /\ SubSeq(a \o r, Len(a) + 1, Len(a \o r)) = r
    BY <2>1, Parts
  <2>3. /\ SubSeq(a \o r, 1, HeaderLength + Len(p)) = a
        /\ SubSeq(a \o r, HeaderLength + Len(p) + 1, Len(a \o r)) = r
    BY <2>1, <2>2, Zenon
  <2> QED BY <2>3 DEF a
<1>8. SubSeq(f, HeaderLength + 1, HeaderLength + Len(p)) = p
  <2>1. f \in Seq(Bytes) /\ Len(f) = HeaderLength + Len(p) + Len(r) /\ Len(r) \in Nat
    <3>1. f \in Seq(Bytes) /\ Len(f) = Len(Frame(p)) + Len(r)
      BY <1>4, Parts
    <3>2. Len(r) \in Nat
      BY LenProperties
    <3> HIDE DEF f
    <3> QED BY <1>4, <3>1, <3>2
  <2>2. \A i \in 1..Len(p) : f[HeaderLength + i] = p[i]
    <3>1. ASSUME NEW i \in 1..Len(p) PROVE f[HeaderLength + i] = p[i]
      <4>1. HeaderLength + i \in 1..Len(Frame(p))
        BY <1>1, <1>4 DEF HeaderLength
      <4>2. f[HeaderLength + i] = Frame(p)[HeaderLength + i]
        BY <1>4, <4>1, Joined
      <4>3. (h \o p)[Len(h) + i] = p[i]
        BY <1>1, <1>2, Joined
      <4>4. Frame(p)[HeaderLength + i] = p[i]
        BY <1>2, <1>3, <4>3
      <4> QED BY <4>2, <4>4
    <3> QED BY <3>1
  <2> DEFINE x == SubSeq(f, HeaderLength + 1, HeaderLength + Len(p))
  <2>3. x \in Seq(Bytes) /\ Len(x) = Len(p) /\ \A i \in 1..Len(p) : x[i] = f[HeaderLength + i]
    <3> HIDE DEF f
    <3>1. \A i \in HeaderLength + 1..HeaderLength + Len(p) : f[i] \in Bytes
      BY <1>1, <2>1, ElementOfSeq DEF HeaderLength
    <3> QED BY <1>1, <3>1 DEF HeaderLength
  <2> HIDE DEF x, f
  <2>4. x = p
    BY <1>1, <2>2, <2>3, SeqEqual
  <2> QED BY <2>4 DEF x
<1> QED BY <1>1, <1>4, <1>6, <1>7, <1>8 DEF FirstPayload, AfterFrame

\* What is appended to a buffer that holds a frame does not change the frame.
LEMMA FramesStay ==
  ASSUME NEW b \in Seq(Bytes), HoldsFrame(b), NEW w \in Seq(Bytes)
  PROVE  /\ FirstPayload(b) \in Seq(Bytes) /\ AfterFrame(b) \in Seq(Bytes)
         /\ Len(AfterFrame(b)) < Len(b)
         /\ FirstPayload(b \o w) = FirstPayload(b) /\ AfterFrame(b \o w) = AfterFrame(b) \o w
<1> DEFINE n == ReadUInt32BE(b)
           size == HeaderLength + n
<1>1. n \in Nat /\ ReadUInt32BE(b \o w) = n /\ size \in 1..Len(b) /\ Len(b) \in Nat
  BY HeadersAreRead, LenProperties DEF HoldsFrame, HeaderLength
<1> HIDE DEF n
<1>2. AfterFrame(b) = SubSeq(b, size + 1, Len(b)) /\ AfterFrame(b \o w) = SubSeq(b \o w, size + 1, Len(b \o w))
      /\ FirstPayload(b) = SubSeq(b, HeaderLength + 1, size)
      /\ FirstPayload(b \o w) = SubSeq(b \o w, HeaderLength + 1, size)
  BY <1>1 DEF AfterFrame, FirstPayload, n
<1> DEFINE head == SubSeq(b, 1, size)
           tail == SubSeq(b, size + 1, Len(b))
<1>3. size \in 0..Len(b) /\ size > 0
  BY <1>1
<1>4. head \in Seq(Bytes) /\ tail \in Seq(Bytes) /\ Len(head) = size /\ Len(tail) = Len(b) - size /\ head \o tail = b
  BY <1>3, Cuts
<1>5. b \o w = head \o (tail \o w) /\ tail \o w \in Seq(Bytes)
  <2> HIDE DEF head, tail, size
  <2>0. head \in Seq(Bytes) /\ tail \in Seq(Bytes)
    BY <1>4
  <2>1. (head \o tail) \o w = head \o (tail \o w)
    BY <2>0, Regroup, Zenon
  <2>2. tail \o w \in Seq(Bytes)
    BY <1>4, ConcatProperties
  <2> QED BY <1>4, <2>1, <2>2
<1>6. SubSeq(b \o w, size + 1, Len(b \o w)) = tail \o w
  <2> HIDE DEF head, tail, size
  <2>1. SubSeq(head \o (tail \o w), Len(head) + 1, Len(head \o (tail \o w))) = tail \o w
    <3>1. head \in Seq(Bytes)
      BY <1>4
    <3> DEFINE r == tail \o w
    <3>2. r \in Seq(Bytes)
      BY <1>5
    <3> HIDE DEF r
    <3>3. SubSeq(head \o r, Len(head) + 1, Len(head \o r)) = r
      BY <3>1, <3>2, Parts
    <3> QED BY <3>3 DEF r
  <2> QED BY <1>4, <1>5, <2>1
<1>7. SubSeq(b, HeaderLength + 1, size) \in Seq(Bytes)
  <2>1. \A i \in HeaderLength + 1..size : b[i] \in Bytes
    BY <1>1, ElementOfSeq DEF HeaderLength
  <2> QED BY <1>1, <2>1, SubSeqProperties DEF HeaderLength
<1>8. SubSeq(b \o w, HeaderLength + 1, size) = SubSeq(b, HeaderLength + 1, size)
  <2>1. CASE n = 0
    BY <1>1, <2>1, SubSeqEmpty DEF HeaderLength
  <2>2. CASE n # 0
    <3>1. HeaderLength + 1 \in 1..Len(b)
      BY <1>1, <2>2 DEF HeaderLength
    <3> QED BY <1>1, <3>1, SubSeqOfConcat1
  <2> QED BY <2>1, <2>2
<1>9. AfterFrame(b) = tail
  BY <1>2
<1>10. Len(tail) < Len(b)
  <2> HIDE DEF head, tail, size
  <2> QED BY <1>1, <1>4
<1>11. AfterFrame(b \o w) = AfterFrame(b) \o w
  BY <1>2, <1>6, <1>9
<1>12. FirstPayload(b) \in Seq(Bytes) /\ FirstPayload(b \o w) = FirstPayload(b)
  BY <1>2, <1>7, <1>8
<1> HIDE DEF tail
<1> QED BY <1>4, <1>9, <1>10, <1>11, <1>12

-------------------------------------------------------------------------------
(* What is parsed and what is written, packet by packet. *)

LEMMA ParsedLoop ==
  ASSUME NEW s \in Seq(Payloads)
  PROVE  \E f \in [0..Len(s) -> Seq(Payloads)] :
            /\ f[0] = <<>> /\ \A k \in 1..Len(s) : f[k] = Handle(f[k - 1], s[k])
            /\ Parsed(s) = f[Len(s)]
<1> DEFINE n == Len(s)
           step == [k \in 1..n |-> [x \in Seq(Payloads) |-> Handle(x, s[k])]]
           IsUpTo(f) == f = [k \in 0..n |-> IF k = 0 THEN <<>> ELSE Handle(f[k - 1], s[k])]
           loop == CHOOSE f : IsUpTo(f)
<1>1. n \in Nat /\ \A k \in 1..n : s[k] \in Payloads
  BY LenProperties, ElementOfSeq
<1>2. step \in Steps(n, Seq(Payloads))
  <2>1. ASSUME NEW k \in 1..n, NEW x \in Seq(Payloads) PROVE Handle(x, s[k]) \in Seq(Payloads)
    BY <1>1, AppendProperties DEF Handle
  <2> QED BY <2>1 DEF Steps
<1>3. <<>> \in Seq(Payloads)
  BY EmptySeq
<1>4. PICK f : IsLoop(f, n, Seq(Payloads), <<>>, step)
  <2>1. n \in Nat
    BY <1>1
  <2> HIDE DEF n, step
  <2> QED BY <2>1, <1>2, <1>3, LoopsExist
<1>5. f \in [0..n -> Seq(Payloads)] /\ f[0] = <<>> /\ \A k \in 1..n : f[k] = Handle(f[k - 1], s[k])
  <2>1. n \in Nat /\ \A k \in 1..n, x \in Seq(Payloads) : step[k][x] = Handle(x, s[k])
    BY <1>1
  <2> HIDE DEF n, step
  <2>2. f \in [0..n -> Seq(Payloads)] /\ f[0] = <<>> /\ \A k \in 1..n : f[k] = step[k][f[k - 1]]
    BY <1>4 DEF IsLoop
  <2>3. \A k \in 1..n : f[k - 1] \in Seq(Payloads)
    BY <2>1, <2>2
  <2> QED BY <2>1, <2>2, <2>3
<1>6. IsUpTo(f)
  <2>1. n \in Nat
    BY <1>1
  <2> HIDE DEF n
  <2>2. \A k \in 0..n : k # 0 => k \in 1..n
    BY <2>1
  <2>3. \A k \in 0..n : f[k] = IF k = 0 THEN <<>> ELSE Handle(f[k - 1], s[k])
    BY <1>5, <2>2
  <2>4. f = [k \in 0..n |-> f[k]]
    BY <1>5
  <2> QED BY <2>3, <2>4
<1>7. Parsed(s) = loop[n]
  BY DEF Parsed
<1>8. IsUpTo(loop)
  <2> HIDE DEF IsUpTo
  <2> QED BY <1>6
<1>9. \A k \in 0..n : loop[k] = f[k]
  <2>1. n \in Nat
    BY <1>1
  <2> HIDE DEF loop, n
  <2>2. loop = [k \in 0..n |-> IF k = 0 THEN <<>> ELSE Handle(loop[k - 1], s[k])]
    BY <1>8
  <2>3. 0 \in 0..n /\ \A k \in 1..n : k \in 0..n /\ k # 0
    BY <2>1
  <2>4. loop[0] = f[0]
    BY <1>5, <2>2, <2>3
  <2>5. ASSUME NEW k \in 1..n, loop[k - 1] = f[k - 1] PROVE loop[k] = f[k]
    <3>1. loop[k] = Handle(loop[k - 1], s[k])
      BY <2>2, <2>3
    <3>2. f[k] = Handle(f[k - 1], s[k])
      BY <1>5
    <3> QED BY <2>5, <3>1, <3>2
  <2>6. SameTurns(n, loop, f)
    BY <2>4, <2>5 DEF SameTurns
  <2> QED BY <2>1, <2>6, LoopsAreUnique
<1>10. n \in 0..n
  BY <1>1
<1> HIDE DEF loop, step
<1> QED BY <1>5, <1>7, <1>9, <1>10

LEMMA StreamLoop ==
  ASSUME NEW s \in Seq(Payloads)
  PROVE  \E f \in [0..Len(s) -> Seq(Bytes)] :
            /\ f[0] = <<>> /\ \A k \in 1..Len(s) : f[k] = f[k - 1] \o Frame(s[k])
            /\ Stream(s) = f[Len(s)]
<1> DEFINE n == Len(s)
           step == [k \in 1..n |-> [x \in Seq(Bytes) |-> x \o Frame(s[k])]]
           IsUpTo(f) == f = [k \in 0..n |-> IF k = 0 THEN <<>> ELSE f[k - 1] \o Frame(s[k])]
           loop == CHOOSE f : IsUpTo(f)
<1>1. n \in Nat /\ \A k \in 1..n : s[k] \in Payloads
  BY LenProperties, ElementOfSeq
<1>2. step \in Steps(n, Seq(Bytes))
  <2>1. ASSUME NEW k \in 1..n, NEW x \in Seq(Bytes) PROVE x \o Frame(s[k]) \in Seq(Bytes)
    BY <1>1, FramesAreRead, EmptySeq, ConcatProperties
  <2> QED BY <2>1 DEF Steps
<1>3. <<>> \in Seq(Bytes)
  BY EmptySeq
<1>4. PICK f : IsLoop(f, n, Seq(Bytes), <<>>, step)
  <2>1. n \in Nat
    BY <1>1
  <2> HIDE DEF n, step
  <2> QED BY <2>1, <1>2, <1>3, LoopsExist
<1>5. f \in [0..n -> Seq(Bytes)] /\ f[0] = <<>> /\ \A k \in 1..n : f[k] = f[k - 1] \o Frame(s[k])
  <2>1. n \in Nat /\ \A k \in 1..n, x \in Seq(Bytes) : step[k][x] = x \o Frame(s[k])
    BY <1>1
  <2> HIDE DEF n, step
  <2>2. f \in [0..n -> Seq(Bytes)] /\ f[0] = <<>> /\ \A k \in 1..n : f[k] = step[k][f[k - 1]]
    BY <1>4 DEF IsLoop
  <2>3. \A k \in 1..n : f[k - 1] \in Seq(Bytes)
    BY <2>1, <2>2
  <2> QED BY <2>1, <2>2, <2>3
<1>6. IsUpTo(f)
  <2>1. n \in Nat
    BY <1>1
  <2> HIDE DEF n
  <2>2. \A k \in 0..n : k # 0 => k \in 1..n
    BY <2>1
  <2>3. \A k \in 0..n : f[k] = IF k = 0 THEN <<>> ELSE f[k - 1] \o Frame(s[k])
    BY <1>5, <2>2
  <2>4. f = [k \in 0..n |-> f[k]]
    BY <1>5
  <2> QED BY <2>3, <2>4
<1>7. Stream(s) = loop[n]
  BY DEF Stream
<1>8. IsUpTo(loop)
  <2> HIDE DEF IsUpTo
  <2> QED BY <1>6
<1>9. \A k \in 0..n : loop[k] = f[k]
  <2>1. n \in Nat
    BY <1>1
  <2> HIDE DEF loop, n
  <2>2. loop = [k \in 0..n |-> IF k = 0 THEN <<>> ELSE loop[k - 1] \o Frame(s[k])]
    BY <1>8
  <2>3. 0 \in 0..n /\ \A k \in 1..n : k \in 0..n /\ k # 0
    BY <2>1
  <2>4. loop[0] = f[0]
    BY <1>5, <2>2, <2>3
  <2>5. ASSUME NEW k \in 1..n, loop[k - 1] = f[k - 1] PROVE loop[k] = f[k]
    <3>1. loop[k] = loop[k - 1] \o Frame(s[k])
      BY <2>2, <2>3
    <3>2. f[k] = f[k - 1] \o Frame(s[k])
      BY <1>5
    <3> QED BY <2>5, <3>1, <3>2
  <2>6. SameTurns(n, loop, f)
    BY <2>4, <2>5 DEF SameTurns
  <2> QED BY <2>1, <2>6, LoopsAreUnique
<1>10. n \in 0..n
  BY <1>1
<1> HIDE DEF loop, step
<1> QED BY <1>5, <1>7, <1>9, <1>10

LEMMA ParsedGrows ==
  ASSUME NEW s \in Seq(Payloads), NEW p \in Payloads
  PROVE  Parsed(Append(s, p)) = Handle(Parsed(s), p)
<1> DEFINE n == Len(s)
           t == Append(s, p)
<1>1. n \in Nat /\ t \in Seq(Payloads) /\ Len(t) = n + 1 /\ t[n + 1] = p /\ \A k \in 1..n : t[k] = s[k]
  BY LenProperties, AppendProperties
<1>2. PICK f \in [0..n -> Seq(Payloads)] :
         /\ f[0] = <<>> /\ \A k \in 1..n : f[k] = Handle(f[k - 1], s[k])
         /\ Parsed(s) = f[n]
  BY ParsedLoop
<1> HIDE DEF t, n
<1>3. PICK g \in [0..Len(t) -> Seq(Payloads)] :
         /\ g[0] = <<>> /\ \A k \in 1..Len(t) : g[k] = Handle(g[k - 1], t[k])
         /\ Parsed(t) = g[Len(t)]
  BY <1>1, ParsedLoop
<1>4. \A k \in 0..n : f[k] = g[k]
  <2>1. ASSUME NEW k \in 1..n, f[k - 1] = g[k - 1]
        PROVE  f[k] = g[k]
    <3>1. k \in 1..Len(t) /\ t[k] = s[k]
      <4>1. k \in 1..n + 1
        BY <1>1
      <4> QED BY <1>1, <4>1
    <3>2. g[k] = Handle(g[k - 1], t[k])
      BY <1>3, <3>1
    <3>3. f[k] = Handle(f[k - 1], s[k])
      BY <1>2
    <3> QED BY <2>1, <3>1, <3>2, <3>3
  <2>2. n \in Nat /\ f[0] = g[0]
    BY <1>1, <1>2, <1>3
  <2>3. \A k \in 1..n : f[k - 1] = g[k - 1] => f[k] = g[k]
    BY <2>1
  <2> DEFINE S == {k \in 0..n : f[k] = g[k]}
  <2>4. 0 \in S /\ \A k \in 1..n : k - 1 \in S => k \in S
    BY <2>2, <2>3
  <2>5. \A k \in 0..n : k \in S
    <3> HIDE DEF n, S
    <3> QED BY <2>2, <2>4, UpTo
  <2> QED BY <2>5
<1>5. n + 1 \in 1..Len(t) /\ (n + 1) - 1 = n /\ n \in 0..n
  BY <1>1
<1>6. g[n + 1] = Handle(g[n], t[n + 1])
  <2> DEFINE IsTurn(j) == g[j] = Handle(g[j - 1], t[j])
  <2>1. \A j \in 1..Len(t) : IsTurn(j)
    BY <1>3
  <2>2. IsTurn(n + 1)
    <3> HIDE DEF IsTurn
    <3> QED BY <1>5, <2>1
  <2>3. g[(n + 1) - 1] = g[n]
    BY <1>5
  <2> QED BY <2>2, <2>3
<1>7. Parsed(t) = Handle(Parsed(s), p)
  BY <1>1, <1>2, <1>3, <1>4, <1>5, <1>6
<1> QED BY <1>7 DEF t

LEMMA ParsedIsTyped ==
  /\ Parsed(<<>>) = <<>>
  /\ \A s \in Seq(Payloads) : Parsed(s) \in Seq(Payloads)
<1>1. Parsed(<<>>) = <<>>
  <2>1. <<>> \in Seq(Payloads) /\ Len(<<>>) = 0
    BY EmptySeq
  <2> QED BY <2>1, ParsedLoop
<1>2. ASSUME NEW s \in Seq(Payloads) PROVE Parsed(s) \in Seq(Payloads)
  <2>1. Len(s) \in 0..Len(s)
    BY LenProperties
  <2> QED BY <2>1, ParsedLoop
<1> QED BY <1>1, <1>2

LEMMA StreamGrows ==
  ASSUME NEW s \in Seq(Payloads), NEW p \in Payloads
  PROVE  Stream(Append(s, p)) = Stream(s) \o Frame(p)
<1> DEFINE n == Len(s)
           t == Append(s, p)
<1>1. n \in Nat /\ t \in Seq(Payloads) /\ Len(t) = n + 1 /\ t[n + 1] = p /\ \A k \in 1..n : t[k] = s[k]
  BY LenProperties, AppendProperties
<1>2. PICK f \in [0..n -> Seq(Bytes)] :
         /\ f[0] = <<>> /\ \A k \in 1..n : f[k] = f[k - 1] \o Frame(s[k])
         /\ Stream(s) = f[n]
  BY StreamLoop
<1> HIDE DEF t, n
<1>3. PICK g \in [0..Len(t) -> Seq(Bytes)] :
         /\ g[0] = <<>> /\ \A k \in 1..Len(t) : g[k] = g[k - 1] \o Frame(t[k])
         /\ Stream(t) = g[Len(t)]
  BY <1>1, StreamLoop
<1>4. \A k \in 0..n : f[k] = g[k]
  <2>1. ASSUME NEW k \in 1..n, f[k - 1] = g[k - 1]
        PROVE  f[k] = g[k]
    <3>1. k \in 1..Len(t) /\ t[k] = s[k]
      <4>1. k \in 1..n + 1
        BY <1>1
      <4> QED BY <1>1, <4>1
    <3>2. g[k] = g[k - 1] \o Frame(t[k])
      BY <1>3, <3>1
    <3>3. f[k] = f[k - 1] \o Frame(s[k])
      BY <1>2
    <3> QED BY <2>1, <3>1, <3>2, <3>3
  <2>2. n \in Nat /\ f[0] = g[0]
    BY <1>1, <1>2, <1>3
  <2>3. \A k \in 1..n : f[k - 1] = g[k - 1] => f[k] = g[k]
    BY <2>1
  <2> DEFINE S == {k \in 0..n : f[k] = g[k]}
  <2>4. 0 \in S /\ \A k \in 1..n : k - 1 \in S => k \in S
    BY <2>2, <2>3
  <2>5. \A k \in 0..n : k \in S
    <3> HIDE DEF n, S
    <3> QED BY <2>2, <2>4, UpTo
  <2> QED BY <2>5
<1>5. n + 1 \in 1..Len(t) /\ (n + 1) - 1 = n /\ n \in 0..n
  BY <1>1
<1>6. g[n + 1] = g[n] \o Frame(t[n + 1])
  <2> DEFINE IsTurn(j) == g[j] = g[j - 1] \o Frame(t[j])
  <2>1. \A j \in 1..Len(t) : IsTurn(j)
    BY <1>3
  <2>2. IsTurn(n + 1)
    <3> HIDE DEF IsTurn
    <3> QED BY <1>5, <2>1
  <2>3. g[(n + 1) - 1] = g[n]
    BY <1>5
  <2> QED BY <2>2, <2>3
<1>7. Stream(t) = Stream(s) \o Frame(p)
  BY <1>1, <1>2, <1>3, <1>4, <1>5, <1>6
<1> QED BY <1>7 DEF t

LEMMA StreamIsTyped ==
  /\ Stream(<<>>) = <<>>
  /\ \A s \in Seq(Payloads) : Stream(s) \in Seq(Bytes)
<1>1. Stream(<<>>) = <<>>
  <2>1. <<>> \in Seq(Payloads) /\ Len(<<>>) = 0
    BY EmptySeq
  <2> QED BY <2>1, StreamLoop
<1>2. ASSUME NEW s \in Seq(Payloads) PROVE Stream(s) \in Seq(Bytes)
  <2>1. Len(s) \in 0..Len(s)
    BY LenProperties
  <2> QED BY <2>1, StreamLoop
<1> QED BY <1>1, <1>2

-------------------------------------------------------------------------------
(* The first packets of what was sent. *)

LEMMA HandleAppends ==
  ASSUME NEW S, NEW a \in Seq(S), NEW p \in S
  PROVE  /\ Handle(a, p) \in Seq(S) /\ Handle(<<>>, p) \in Seq(S)
         /\ Handle(a, p) = a \o Handle(<<>>, p)
<1>1. <<>> \in Seq(S) /\ a \o <<>> = a
  BY EmptySeq, ConcatEmptySeq
<1>2. CASE p \in Garbled
  BY <1>1, <1>2 DEF Handle
<1>3. CASE p \notin Garbled
  <2>1. Handle(a, p) = Append(a, p) /\ Handle(<<>>, p) = Append(<<>>, p)
    BY <1>3 DEF Handle
  <2>2. Append(a, p) \in Seq(S) /\ Append(<<>>, p) \in Seq(S)
    BY <1>1, AppendProperties
  <2>3. Append(a, p) = a \o <<p>>
    BY AppendIsConcat
  <2>4. Append(<<>>, p) = <<p>>
    OBVIOUS
  <2> QED BY <2>1, <2>2, <2>3, <2>4
<1> QED BY <1>2, <1>3

LEMMA Firsts ==
  ASSUME NEW s \in Seq(Payloads), NEW k \in 0..Len(s)
  PROVE  /\ SubSeq(s, 1, k) \in Seq(Payloads)
         /\ Stream(SubSeq(s, 1, k)) \in Seq(Bytes) /\ Parsed(SubSeq(s, 1, k)) \in Seq(Payloads)
BY Cuts, StreamIsTyped, ParsedIsTyped

LEMMA NextFirst ==
  ASSUME NEW s \in Seq(Payloads), NEW k \in 0..Len(s), k < Len(s)
  PROVE  /\ k + 1 \in 0..Len(s) /\ s[k + 1] \in Payloads
         /\ Stream(SubSeq(s, 1, k + 1)) = Stream(SubSeq(s, 1, k)) \o Frame(s[k + 1])
         /\ Parsed(SubSeq(s, 1, k + 1)) = Handle(Parsed(SubSeq(s, 1, k)), s[k + 1])
<1>1. k + 1 \in 1..Len(s) /\ k + 1 \in 0..Len(s) /\ (k + 1) - 1 = k /\ 1 \in 1..Len(s) /\ Len(s) \in Nat
  BY LenProperties
<1>2. s[k + 1] \in Payloads
  BY <1>1, ElementOfSeq
<1>3. SubSeq(s, 1, k) \in Seq(Payloads)
  BY Firsts
<1>4. SubSeq(s, 1, k + 1) = SubSeq(s, 1, (k + 1) - 1) \o <<s[k + 1]>>
  BY <1>1, SubSeqRecursiveSecond
<1>5. SubSeq(s, 1, k + 1) = Append(SubSeq(s, 1, k), s[k + 1])
  <2>1. Append(SubSeq(s, 1, k), s[k + 1]) = SubSeq(s, 1, k) \o <<s[k + 1]>>
    BY <1>2, <1>3, AppendIsConcat
  <2> QED BY <1>1, <1>4, <2>1
<1> QED BY <1>1, <1>2, <1>3, <1>5, StreamGrows, ParsedGrows

\* What more packets add.
LEMMA FirstsExtend ==
  ASSUME NEW s \in Seq(Payloads), NEW k \in 0..Len(s), NEW m \in 0..Len(s), k <= m
  PROVE  \E r \in Seq(Bytes), q \in Seq(Payloads) :
            /\ Stream(SubSeq(s, 1, m)) = Stream(SubSeq(s, 1, k)) \o r
            /\ Parsed(SubSeq(s, 1, m)) = Parsed(SubSeq(s, 1, k)) \o q
<1> DEFINE Extends(j) == \E r \in Seq(Bytes), q \in Seq(Payloads) :
                            /\ Stream(SubSeq(s, 1, j)) = Stream(SubSeq(s, 1, k)) \o r
                            /\ Parsed(SubSeq(s, 1, j)) = Parsed(SubSeq(s, 1, k)) \o q
           S == {j \in 0..Len(s) : k <= j => Extends(j)}
<1>1. Len(s) \in Nat
  BY LenProperties
<1>2. Extends(k)
  <2>1. <<>> \in Seq(Bytes) /\ <<>> \in Seq(Payloads)
    BY EmptySeq
  <2>2. Stream(SubSeq(s, 1, k)) = Stream(SubSeq(s, 1, k)) \o <<>>
    BY Firsts, ConcatEmptySeq
  <2>3. Parsed(SubSeq(s, 1, k)) = Parsed(SubSeq(s, 1, k)) \o <<>>
    BY Firsts, ConcatEmptySeq
  <2> QED BY <2>1, <2>2, <2>3
<1>3. ASSUME NEW j \in 0..Len(s), j < Len(s), Extends(j)
      PROVE  Extends(j + 1)
  <2>1. PICK r \in Seq(Bytes), q \in Seq(Payloads) :
           /\ Stream(SubSeq(s, 1, j)) = Stream(SubSeq(s, 1, k)) \o r
           /\ Parsed(SubSeq(s, 1, j)) = Parsed(SubSeq(s, 1, k)) \o q
    BY <1>3
  <2> DEFINE p == s[j + 1]
             a == Stream(SubSeq(s, 1, k))
             b == Parsed(SubSeq(s, 1, k))
  <2>2. p \in Payloads /\ Stream(SubSeq(s, 1, j + 1)) = (a \o r) \o Frame(p)
        /\ Parsed(SubSeq(s, 1, j + 1)) = Handle(b \o q, p)
    BY <1>3, <2>1, NextFirst
  <2>3. a \in Seq(Bytes) /\ b \in Seq(Payloads)
    BY Firsts
  <2> HIDE DEF a, b, p
  <2>4. Frame(p) \in Seq(Bytes)
    BY <2>2, FramesAreRead, EmptySeq
  <2>5. (a \o r) \o Frame(p) = a \o (r \o Frame(p)) /\ r \o Frame(p) \in Seq(Bytes)
    <3> DEFINE x == Frame(p)
    <3>1. x \in Seq(Bytes) /\ a \in Seq(Bytes)
      BY <2>3, <2>4
    <3> HIDE DEF x
    <3>2. (a \o r) \o x = a \o (r \o x)
      BY <3>1, Regroup, Zenon
    <3>3. r \o x \in Seq(Bytes)
      BY <3>1, ConcatProperties
    <3> QED BY <3>2, <3>3 DEF x
  <2>6. Handle(q, p) \in Seq(Payloads) /\ Handle(b \o q, p) = b \o Handle(q, p)
    <3> DEFINE x == Handle(<<>>, p)
    <3>1. x \in Seq(Payloads) /\ Handle(q, p) = q \o x /\ Handle(q, p) \in Seq(Payloads)
      BY <2>2, HandleAppends
    <3>2. b \o q \in Seq(Payloads)
      BY <2>3, ConcatProperties
    <3>3. Handle(b \o q, p) = (b \o q) \o x
      BY <2>2, <3>2, HandleAppends
    <3> HIDE DEF x
    <3>4. (b \o q) \o x = b \o (q \o x)
      BY <2>3, <3>1, Regroup, Zenon
    <3> QED BY <3>1, <3>3, <3>4
  <2>7. Stream(SubSeq(s, 1, j + 1)) = a \o (r \o Frame(p)) /\ Parsed(SubSeq(s, 1, j + 1)) = b \o Handle(q, p)
    BY <2>2, <2>5, <2>6
  <2> QED BY <2>5, <2>6, <2>7 DEF a, b
<1> HIDE DEF Extends
<1>4. 0 \in S
  <2>1. 0 \in 0..Len(s) /\ (k <= 0 => k = 0)
    BY <1>1
  <2> QED BY <1>2, <2>1
<1>5. ASSUME NEW i \in 1..Len(s), i - 1 \in S PROVE i \in S
  <2>1. i - 1 \in 0..Len(s) /\ i - 1 < Len(s) /\ (i - 1) + 1 = i /\ i \in 0..Len(s)
    BY <1>1
  <2>2. CASE k <= i - 1
    <3>1. Extends(i - 1)
      BY <1>5, <2>2
    <3>2. Extends((i - 1) + 1)
      BY <1>3, <2>1, <3>1
    <3> QED BY <2>1, <3>2
  <2>3. CASE ~(k <= i - 1)
    <3>1. k <= i => k = i
      BY <2>1, <2>3
    <3> QED BY <1>2, <2>1, <3>1
  <2> QED BY <2>2, <2>3
<1>6. \A i \in 0..Len(s) : i \in S
  <2> HIDE DEF S
  <2> QED BY <1>1, <1>4, <1>5, UpTo
<1>7. Extends(m)
  BY <1>6
<1> QED BY <1>7 DEF Extends

\* Between two frames, the handler finds the next packet that was sent, or not all of it.
LEMMA NextFrame ==
  ASSUME NEW s \in Seq(Payloads), NEW k \in 0..Len(s), NEW b \in Seq(Bytes), NEW w \in Seq(Bytes),
         Stream(s) = Stream(SubSeq(s, 1, k)) \o (b \o w)
  PROVE  /\ HoldsFrame(b) => /\ k < Len(s) /\ FirstPayload(b) = s[k + 1]
                             /\ Stream(s) = Stream(SubSeq(s, 1, k + 1)) \o (AfterFrame(b) \o w)
         /\ ~HoldsFrame(b) => k = Len(s) \/ Len(b) < Len(Frame(s[k + 1]))
<1> DEFINE a == Stream(SubSeq(s, 1, k))
<1>1. a \in Seq(Bytes) /\ b \o w \in Seq(Bytes) /\ Len(s) \in Nat /\ Len(s) \in 0..Len(s)
  BY Firsts, ConcatProperties, LenProperties
<1>2. CASE k = Len(s)
  <2>1. a = Stream(s)
    BY <1>2, SubSeqFull
  <2> HIDE DEF a
  <2>2. a \o (b \o w) = a
    BY <2>1 DEF a
  <2>3. b \o w = <<>>
    BY <1>1, <2>2, ConcatEqualIffEmpty
  <2>4. b = <<>>
    BY <2>3, ConcatEqualIffEmpty
  <2>5. ~HoldsFrame(b)
    BY <2>4, EmptySeq DEF HoldsFrame, HeaderLength
  <2> QED BY <1>2, <2>5
<1>3. CASE k < Len(s)
  <2> DEFINE p == s[k + 1]
  <2>1. p \in Payloads /\ k + 1 \in 0..Len(s) /\ Stream(SubSeq(s, 1, k + 1)) = a \o Frame(p)
    BY <1>3, NextFirst
  <2>2. PICK r \in Seq(Bytes) : Stream(s) = Stream(SubSeq(s, 1, k + 1)) \o r
    <3>1. k + 1 <= Len(s) /\ SubSeq(s, 1, Len(s)) = s
      BY <1>1, <1>3, SubSeqFull
    <3>2. PICK r \in Seq(Bytes), q \in Seq(Payloads) :
             /\ Stream(SubSeq(s, 1, Len(s))) = Stream(SubSeq(s, 1, k + 1)) \o r
             /\ Parsed(SubSeq(s, 1, Len(s))) = Parsed(SubSeq(s, 1, k + 1)) \o q
      BY <1>1, <2>1, <3>1, FirstsExtend
    <3> QED BY <3>1, <3>2
  <2> HIDE DEF p
  <2>3. Frame(p) \in Seq(Bytes) /\ Frame(p) \o r \in Seq(Bytes) /\ p \in Seq(Bytes) /\ Len(p) \in Nat
        /\ Len(Frame(p)) = HeaderLength + Len(p)
    BY <2>1, FramesAreRead, ConcatProperties, LenProperties
  <2>4. b \o w = Frame(p) \o r
    <3>1. (a \o Frame(p)) \o r = a \o (Frame(p) \o r)
      <4> DEFINE x == Frame(p)
      <4>1. x \in Seq(Bytes) /\ a \in Seq(Bytes)
        BY <1>1, <2>3
      <4> HIDE DEF x, a
      <4>2. (a \o x) \o r = a \o (x \o r)
        BY <4>1, Regroup, Zenon
      <4> QED BY <4>2 DEF x
    <3>2. a \o (b \o w) = a \o (Frame(p) \o r)
      BY <2>1, <2>2, <3>1
    <3> HIDE DEF a
    <3> DEFINE x == b \o w
               y == Frame(p) \o r
    <3>3. x \in Seq(Bytes) /\ y \in Seq(Bytes) /\ a \o x = a \o y
      BY <1>1, <2>3, <3>2
    <3> HIDE DEF x, y
    <3>4. x = y
      BY <1>1, <3>3, ConcatSimplifications
    <3> QED BY <3>4 DEF x, y
  <2>5. ReadUInt32BE(b \o w) = Len(p) /\ FirstPayload(b \o w) = p /\ AfterFrame(b \o w) = r
    BY <2>1, <2>4, FramesAreRead
  <2>6. CASE HoldsFrame(b)
    <3>1. FirstPayload(b) = p /\ AfterFrame(b) \o w = r
      BY <2>5, <2>6, FramesStay
    <3> QED BY <1>3, <2>2, <2>6, <3>1 DEF p
  <2>7. CASE ~HoldsFrame(b)
    <3>1. Len(b) \in Nat
      BY LenProperties
    <3>2. CASE Len(b) >= HeaderLength
      <4>1. ReadUInt32BE(b) = Len(p)
        BY <2>5, <3>2, HeadersAreRead
      <4> QED BY <2>3, <2>7, <3>1, <3>2, <4>1 DEF HoldsFrame, HeaderLength, p
    <3>3. CASE ~(Len(b) >= HeaderLength)
      BY <2>3, <2>7, <3>1, <3>3 DEF HeaderLength, p
    <3> QED BY <3>2, <3>3
  <2> QED BY <2>6, <2>7
<1>4. k = Len(s) \/ k < Len(s)
  BY <1>1
<1> QED BY <1>2, <1>3, <1>4

-------------------------------------------------------------------------------
(* One call of the handler. *)

LEMMA TurnIsTyped ==
  ASSUME NEW st \in Progress
  PROVE  /\ Turn(st) \in Progress
         /\ HoldsFrame(st.rest) => /\ Turn(st).payloads = Handle(st.payloads, FirstPayload(st.rest))
                                   /\ Turn(st).rest = AfterFrame(st.rest)
                                   /\ Len(AfterFrame(st.rest)) < Len(st.rest)
<1>1. st.payloads \in Seq(Seq(Bytes)) /\ st.rest \in Seq(Bytes)
  BY DEF Progress
<1>2. CASE ~HoldsFrame(st.rest)
  BY <1>2 DEF Turn
<1>3. CASE HoldsFrame(st.rest)
  <2> DEFINE p == FirstPayload(st.rest)
             r == AfterFrame(st.rest)
  <2>1. <<>> \in Seq(Bytes)
    BY EmptySeq
  <2>2. p \in Seq(Bytes) /\ r \in Seq(Bytes) /\ Len(r) < Len(st.rest)
    BY <1>1, <1>3, <2>1, FramesStay
  <2>3. Turn(st) = [payloads |-> Handle(st.payloads, p), rest |-> r]
    BY <1>3 DEF Turn
  <2> HIDE DEF p, r
  <2>4. Handle(st.payloads, p) \in Seq(Seq(Bytes))
    BY <1>1, <2>2, HandleAppends
  <2> QED BY <2>2, <2>3, <2>4 DEF Progress, p, r
<1> QED BY <1>2, <1>3

LEMMA ConsumeLoop ==
  ASSUME NEW b \in Seq(Bytes)
  PROVE  \E f \in [0..Len(b) -> Progress] :
            /\ f[0] = Begin(b) /\ \A k \in 1..Len(b) : f[k] = Turn(f[k - 1])
            /\ Consume(b) = f[Len(b)]
<1> DEFINE n == Len(b)
           turn == [st \in Progress |-> Turn(st)]
           step == [k \in 1..n |-> turn]
           IsUpTo(f) == f = [k \in 0..n |-> IF k = 0 THEN Begin(b) ELSE turn[f[k - 1]]]
           loop == CHOOSE f : IsUpTo(f)
<1>1. n \in Nat
  BY LenProperties
<1>2. turn \in [Progress -> Progress] /\ \A st \in Progress : turn[st] = Turn(st)
  BY TurnIsTyped
<1>3. Begin(b) \in Progress
  <2>1. <<>> \in Seq(Seq(Bytes))
    BY EmptySeq
  <2> QED BY <2>1 DEF Begin, Progress
<1> HIDE DEF turn
<1>4. step \in Steps(n, Progress) /\ \A k \in 1..n : step[k] = turn
  BY <1>2 DEF Steps
<1>5. PICK f : IsLoop(f, n, Progress, Begin(b), step)
  <2> HIDE DEF n, step
  <2> QED BY <1>1, <1>3, <1>4, LoopsExist
<1>6. f \in [0..n -> Progress] /\ f[0] = Begin(b) /\ \A k \in 1..n : f[k] = turn[f[k - 1]]
  <2> HIDE DEF n, step
  <2> QED BY <1>4, <1>5 DEF IsLoop
<1>7. \A k \in 1..n : f[k] = Turn(f[k - 1])
  <2> HIDE DEF n
  <2>1. \A k \in 1..n : k - 1 \in 0..n
    BY <1>1
  <2>2. \A k \in 1..n : f[k - 1] \in Progress
    BY <1>6, <2>1
  <2> QED BY <1>2, <1>6, <2>2
<1>8. IsUpTo(f)
  <2> HIDE DEF n
  <2>2. \A k \in 0..n : k # 0 => k \in 1..n
    BY <1>1
  <2>3. \A k \in 0..n : f[k] = IF k = 0 THEN Begin(b) ELSE turn[f[k - 1]]
    BY <1>6, <2>2
  <2>4. f = [k \in 0..n |-> f[k]]
    BY <1>6
  <2> QED BY <2>3, <2>4
<1>9. Consume(b) = loop[n]
  BY DEF Consume, turn
<1>10. IsUpTo(loop)
  <2> HIDE DEF IsUpTo
  <2> QED BY <1>8
<1>11. \A k \in 0..n : loop[k] = f[k]
  <2> HIDE DEF loop, n
  <2>2. loop = [k \in 0..n |-> IF k = 0 THEN Begin(b) ELSE turn[loop[k - 1]]]
    BY <1>10
  <2>3. 0 \in 0..n /\ \A k \in 1..n : k \in 0..n /\ k # 0
    BY <1>1
  <2>4. loop[0] = f[0]
    BY <1>6, <2>2, <2>3
  <2>5. ASSUME NEW k \in 1..n, loop[k - 1] = f[k - 1] PROVE loop[k] = f[k]
    <3>1. loop[k] = turn[loop[k - 1]]
      BY <2>2, <2>3
    <3>2. f[k] = turn[f[k - 1]]
      BY <1>6
    <3> QED BY <2>5, <3>1, <3>2
  <2>6. SameTurns(n, loop, f)
    BY <2>4, <2>5 DEF SameTurns
  <2> QED BY <1>1, <2>6, LoopsAreUnique
<1>12. n \in 0..n
  BY <1>1
<1> HIDE DEF loop
<1> QED BY <1>6, <1>7, <1>9, <1>11, <1>12

\* A call that starts between two frames handles the packets of every frame that
\* is there as a whole, and ends between two frames.
LEMMA Consumes ==
  ASSUME NEW s \in Seq(Payloads), NEW k \in 0..Len(s), NEW b \in Seq(Bytes), NEW w \in Seq(Bytes),
         Stream(s) = Stream(SubSeq(s, 1, k)) \o (b \o w)
  PROVE  /\ Consume(b) \in Progress /\ ~HoldsFrame(Consume(b).rest)
         /\ \E m \in k..Len(s) :
               /\ Stream(s) = Stream(SubSeq(s, 1, m)) \o (Consume(b).rest \o w)
               /\ Parsed(SubSeq(s, 1, m)) = Parsed(SubSeq(s, 1, k)) \o Consume(b).payloads
<1> DEFINE n == Len(b)
           Comes(st, m) == /\ Stream(s) = Stream(SubSeq(s, 1, m)) \o (st.rest \o w)
                           /\ Parsed(SubSeq(s, 1, m)) = Parsed(SubSeq(s, 1, k)) \o st.payloads
           Goes(st, i) == /\ HoldsFrame(st.rest) => Len(st.rest) <= n - i
                          /\ \E m \in k..Len(s) : Comes(st, m)
<1>1. n \in Nat /\ Len(s) \in Nat
  BY LenProperties
<1>2. PICK f \in [0..Len(b) -> Progress] :
         /\ f[0] = Begin(b) /\ \A i \in 1..Len(b) : f[i] = Turn(f[i - 1])
         /\ Consume(b) = f[Len(b)]
  BY ConsumeLoop
<1>3. Goes(Begin(b), 0)
  <2>1. Begin(b).rest = b /\ Begin(b).payloads = <<>>
    BY DEF Begin
  <2>2. Parsed(SubSeq(s, 1, k)) \o <<>> = Parsed(SubSeq(s, 1, k))
    BY Firsts, ConcatEmptySeq
  <2>3. k \in k..Len(s)
    BY <1>1
  <2>4. Comes(Begin(b), k)
    BY <2>1, <2>2
  <2>5. n <= n - 0
    BY <1>1
  <2> HIDE DEF Comes
  <2> QED BY <2>1, <2>3, <2>4, <2>5
<1>4. ASSUME NEW st \in Progress, NEW i \in 0..n, Goes(st, i)
      PROVE  Goes(Turn(st), i + 1)
  <2>1. CASE ~HoldsFrame(st.rest)
    <3>1. Turn(st) = st
      BY <2>1 DEF Turn
    <3> HIDE DEF Comes
    <3> QED BY <1>4, <2>1, <3>1
  <2>2. CASE HoldsFrame(st.rest)
    <3> DEFINE p == FirstPayload(st.rest)
               r == AfterFrame(st.rest)
               a == Parsed(SubSeq(s, 1, k))
    <3>1. Len(st.rest) <= n - i
      BY <1>4, <2>2
    <3>2. PICK m \in k..Len(s) : Comes(st, m)
      <4> HIDE DEF Comes
      <4> QED BY <1>4
    <3>3. st.payloads \in Seq(Seq(Bytes)) /\ st.rest \in Seq(Bytes) /\ m \in 0..Len(s)
      BY <1>1 DEF Progress
    <3>4. m < Len(s) /\ p = s[m + 1] /\ Stream(s) = Stream(SubSeq(s, 1, m + 1)) \o (r \o w)
      BY <2>2, <3>2, <3>3, NextFrame
    <3>5. m + 1 \in k..Len(s) /\ p \in Payloads
          /\ Parsed(SubSeq(s, 1, m + 1)) = Handle(Parsed(SubSeq(s, 1, m)), p)
      <4>1. s[m + 1] \in Payloads
            /\ Parsed(SubSeq(s, 1, m + 1)) = Handle(Parsed(SubSeq(s, 1, m)), s[m + 1])
        BY <3>3, <3>4, NextFirst
      <4>2. m + 1 \in k..Len(s)
        BY <1>1, <3>3, <3>4
      <4> HIDE DEF p
      <4> QED BY <3>4, <4>1, <4>2
    <3>6. Turn(st).payloads = Handle(st.payloads, p) /\ Turn(st).rest = r /\ Len(r) < Len(st.rest)
          /\ r \in Seq(Bytes)
      <4>1. Turn(st) \in Progress
        BY TurnIsTyped
      <4>2. Turn(st).rest \in Seq(Bytes)
        BY <4>1 DEF Progress
      <4> QED BY <2>2, <4>2, TurnIsTyped
    <3> HIDE DEF p, r, a
    <3>7. Handle(a \o st.payloads, p) = a \o Handle(st.payloads, p)
      <4> DEFINE x == Handle(<<>>, p)
                 y == st.payloads
      <4>1. p \in Seq(Bytes) /\ a \in Seq(Seq(Bytes))
        <5>1. Payloads \subseteq Seq(Bytes)
          BY FramingAssumption
        <5>2. a \in Seq(Payloads)
          BY Firsts DEF a
        <5> QED BY <3>5, <5>1, <5>2, SeqMonotonic
      <4>2. y \in Seq(Seq(Bytes)) /\ a \o y \in Seq(Seq(Bytes))
        BY <3>3, <4>1, ConcatProperties
      <4> HIDE DEF y
      <4>3. x \in Seq(Seq(Bytes)) /\ Handle(y, p) = y \o x /\ Handle(a \o y, p) = (a \o y) \o x
        BY <4>1, <4>2, HandleAppends
      <4> HIDE DEF x
      <4>4. (a \o y) \o x = a \o (y \o x)
        BY <4>1, <4>2, <4>3, Regroup, Zenon
      <4> QED BY <4>3, <4>4 DEF y
    <3>8. Parsed(SubSeq(s, 1, m + 1)) = a \o Handle(st.payloads, p)
      BY <3>2, <3>5, <3>7 DEF a
    <3>9. Comes(Turn(st), m + 1)
      BY <3>4, <3>6, <3>8 DEF a
    <3>10. Len(Turn(st).rest) <= n - (i + 1)
      <4>1. Len(r) \in Nat /\ Len(st.rest) \in Nat
        BY <3>3, <3>6, LenProperties
      <4> HIDE DEF n
      <4>2. Len(r) <= n - (i + 1)
        BY <1>1, <3>1, <3>6, <4>1
      <4> QED BY <3>6, <4>2
    <3> HIDE DEF Comes, n
    <3> QED BY <3>5, <3>9, <3>10
  <2> QED BY <2>1, <2>2
<1> HIDE DEF Goes
<1>5. \A i \in 0..n : Goes(f[i], i)
  <2> DEFINE S == {i \in 0..n : Goes(f[i], i)}
  <2>1. 0 \in S
    BY <1>1, <1>2, <1>3
  <2>2. ASSUME NEW i \in 1..n, i - 1 \in S PROVE i \in S
    <3>1. i - 1 \in 0..n /\ (i - 1) + 1 = i /\ i \in 0..n
      BY <1>1
    <3>2. f[i - 1] \in Progress /\ f[i] = Turn(f[i - 1]) /\ Goes(f[i - 1], i - 1)
      BY <1>2, <2>2, <3>1
    <3>3. Goes(Turn(f[i - 1]), (i - 1) + 1)
      BY <1>4, <3>1, <3>2
    <3> QED BY <3>1, <3>2, <3>3
  <2>3. \A i \in 0..n : i \in S
    <3> HIDE DEF S, n
    <3> QED BY <1>1, <2>1, <2>2, UpTo
  <2> QED BY <2>3
<1>6. Consume(b) \in Progress /\ Goes(Consume(b), n)
  <2>1. n \in 0..n
    BY <1>1
  <2> QED BY <1>2, <1>5, <2>1
<1>7. ~HoldsFrame(Consume(b).rest)
  <2> DEFINE r == Consume(b).rest
  <2>1. r \in Seq(Bytes)
    BY <1>6 DEF Progress
  <2>2. HoldsFrame(r) => Len(r) <= n - n
    BY <1>6 DEF Goes
  <2> HIDE DEF r
  <2>3. HoldsFrame(r) => Len(r) >= 4
    BY DEF HoldsFrame, HeaderLength
  <2>4. ~HoldsFrame(r)
    BY <1>1, <2>2, <2>3
  <2> QED BY <2>4 DEF r
<1>8. \E m \in k..Len(s) : Comes(Consume(b), m)
  <2> HIDE DEF Comes
  <2> QED BY <1>6 DEF Goes
<1> QED BY <1>6, <1>7, <1>8

-------------------------------------------------------------------------------
(* The invariant. *)

LEMMA InitFramingInv == Init => FramingInv
<1> SUFFICES ASSUME Init PROVE FramingInv
  OBVIOUS
<1>1. <<>> \in Seq(Payloads) /\ <<>> \in Seq(Bytes) /\ Len(<<>>) = 0
  BY EmptySeq
<1>2. FramingTypeOK
  BY <1>1 DEF Init, FramingTypeOK
<1>3. ~HoldsFrame(buffer)
  BY <1>1 DEF Init, HoldsFrame, HeaderLength
<1>4. 0 \in 0..Len(sent)
  BY <1>1 DEF Init
<1>5. HandledUpTo(0)
  <2>1. First(0) = <<>> /\ sent = <<>> /\ received = <<>> /\ buffer = <<>> /\ wire = <<>>
    <3>1. SubSeq(sent, 1, 0) = <<>>
      BY SubSeqEmpty
    <3> QED BY <3>1 DEF First, Init
  <2>2. <<>> \o (<<>> \o <<>>) = <<>>
    BY <1>1, ConcatEmptySeq
  <2>3. received = Parsed(<<>>)
    BY <2>1, ParsedIsTyped
  <2>4. Stream(sent) = Stream(<<>>) \o (<<>> \o <<>>)
    BY <2>1, <2>2, StreamIsTyped
  <2> QED BY <2>1, <2>3, <2>4 DEF HandledUpTo
<1> HIDE DEF HandledUpTo
<1> QED BY <1>2, <1>3, <1>4, <1>5 DEF FramingInv

LEMMA SendFramingInv ==
  ASSUME NEW p \in Payloads, FramingInv, Send(p)
  PROVE  FramingInv' /\ sent' = Append(sent, p) /\ received' = received
                     /\ Parsed(sent') = Handle(Parsed(sent), p)
<1>1. PICK k \in 0..Len(sent) : HandledUpTo(k)
  BY DEF FramingInv
<1>2. FramingTypeOK /\ ~HoldsFrame(buffer)
  BY DEF FramingInv
<1>3. sent \in Seq(Payloads) /\ wire \in Seq(Bytes) /\ buffer \in Seq(Bytes) /\ Frame(p) \in Seq(Bytes)
      /\ Len(sent) \in Nat
  <2>1. <<>> \in Seq(Bytes)
    BY EmptySeq
  <2>2. Frame(p) \in Seq(Bytes)
    BY <2>1, FramesAreRead
  <2> QED BY <1>2, <2>2, LenProperties DEF FramingTypeOK
<1>4. sent' = Append(sent, p) /\ wire' = wire \o Frame(p) /\ open' = open /\ buffer' = buffer /\ received' = received
  BY DEF Send
<1>5. sent' \in Seq(Payloads) /\ wire' \in Seq(Bytes) /\ Len(sent') = Len(sent) + 1
  BY <1>3, <1>4, AppendProperties, ConcatProperties
<1>6. FramingTypeOK'
  BY <1>2, <1>4, <1>5 DEF FramingTypeOK
<1>7. First(k)' = First(k)
  <2>1. \A i \in 1..Len(sent) : sent'[i] = sent[i]
    BY <1>3, <1>4, AppendProperties
  <2>2. \A i \in 1..k : sent'[i] = sent[i] /\ sent[i] \in Payloads
    <3>1. \A i \in 1..k : i \in 1..Len(sent)
      BY <1>3
    <3> QED BY <1>3, <2>1, <3>1, ElementOfSeq
  <2> DEFINE x == SubSeq(sent, 1, k)
             y == SubSeq(sent', 1, k)
  <2>3. k \in 0..Len(sent) /\ k \in 0..Len(sent') /\ k \in Nat
    BY <1>3, <1>5
  <2>4. x \in Seq(Payloads) /\ Len(x) = k /\ y \in Seq(Payloads) /\ Len(y) = k
    BY <1>3, <1>5, <2>3, Cuts
  <2>5. \A i \in 1..k : x[i] = sent[i] /\ y[i] = sent'[i]
    <3>1. \A i \in 1..k - 1 + 1 : x[i] = sent[1 + i - 1]
      BY <2>3
    <3>2. \A i \in 1..k - 1 + 1 : y[i] = sent'[1 + i - 1]
      BY <2>3
    <3> QED BY <2>3, <3>1, <3>2
  <2> HIDE DEF x, y
  <2>6. x = y
    BY <2>2, <2>4, <2>5, SeqEqual
  <2> QED BY <2>6 DEF x, y, First
<1>8. Stream(sent)' = Stream(sent) \o Frame(p) /\ Parsed(sent)' = Handle(Parsed(sent), p)
  BY <1>3, <1>4, StreamGrows, ParsedGrows
<1>9. HandledUpTo(k)'
  <2> DEFINE a == Stream(First(k))
             f == Frame(p)
  <2>1. a \in Seq(Bytes)
    BY <1>3, Firsts DEF First
  <2>2. Stream(sent) = a \o (buffer \o wire)
    BY <1>1 DEF HandledUpTo
  <2>3. f \in Seq(Bytes)
    BY <1>3
  <2>4. Stream(sent)' = (a \o (buffer \o wire)) \o f
    BY <1>8, <2>2
  <2> HIDE DEF a, f
  <2>5. (a \o (buffer \o wire)) \o f = a \o (buffer \o (wire \o f))
    <3>1. buffer \o wire \in Seq(Bytes)
      BY <1>3, ConcatProperties
    <3>2. (a \o (buffer \o wire)) \o f = a \o ((buffer \o wire) \o f)
      BY <2>1, <2>3, <3>1, Regroup, Zenon
    <3>3. (buffer \o wire) \o f = buffer \o (wire \o f)
      BY <1>3, <2>3, Regroup, Zenon
    <3> QED BY <3>2, <3>3
  <2>6. wire' = wire \o f
    BY <1>4 DEF f
  <2>7. Stream(sent)' = a \o (buffer' \o wire')
    BY <1>4, <2>4, <2>5, <2>6
  <2>8. received' = Parsed(First(k))
    BY <1>1, <1>4 DEF HandledUpTo
  <2> QED BY <1>7, <2>7, <2>8 DEF HandledUpTo, a
<1>10. FramingInv'
  <2>1. k \in 0..Len(sent')
    BY <1>3, <1>5
  <2>2. ~HoldsFrame(buffer)'
    BY <1>2, <1>4
  <2> QED BY <1>6, <1>9, <2>1, <2>2 DEF FramingInv
<1> QED BY <1>4, <1>8, <1>10

\* The bytes that arrive complete some frames.
LEMMA DataFramingInv ==
  ASSUME NEW n \in 1..Len(wire), FramingInv, Data(n)
  PROVE  /\ FramingInv' /\ sent' = sent
         /\ \E k \in 0..Len(sent), m \in 0..Len(sent) :
               k <= m /\ received = Parsed(First(k)) /\ received' = Parsed(First(m))
<1>1. PICK k \in 0..Len(sent) : HandledUpTo(k)
  BY DEF FramingInv
<1>2. FramingTypeOK
  BY DEF FramingInv
<1> DEFINE x == SubSeq(wire, 1, n)
           w == SubSeq(wire, n + 1, Len(wire))
           b == buffer \o x
           done == Consume(b)
<1>3. sent \in Seq(Payloads) /\ wire \in Seq(Bytes) /\ buffer \in Seq(Bytes) /\ Len(sent) \in Nat /\ Len(wire) \in Nat
  BY <1>2, LenProperties DEF FramingTypeOK
<1>4. open' = open /\ sent' = sent /\ wire' = w /\ buffer' = done.rest /\ received' = received \o done.payloads
  BY DEF Data
<1>5. x \in Seq(Bytes) /\ w \in Seq(Bytes) /\ x \o w = wire
  <2>1. n \in 0..Len(wire)
    BY <1>3
  <2> QED BY <1>3, <2>1, Cuts
<1> HIDE DEF x, w
<1>6. b \in Seq(Bytes) /\ b \o w = buffer \o wire
  <2>1. b \in Seq(Bytes)
    BY <1>3, <1>5, ConcatProperties
  <2>2. (buffer \o x) \o w = buffer \o (x \o w)
    <3>1. buffer \in Seq(Bytes) /\ x \in Seq(Bytes) /\ w \in Seq(Bytes)
      BY <1>3, <1>5
    <3> HIDE DEF b
    <3> QED BY <3>1, Regroup, Zenon
  <2> QED BY <1>5, <2>1, <2>2
<1>7. Stream(sent) = Stream(SubSeq(sent, 1, k)) \o (b \o w)
  BY <1>1, <1>6 DEF HandledUpTo, First
<1> HIDE DEF b
<1>8. /\ done \in Progress /\ ~HoldsFrame(done.rest)
      /\ \E m \in k..Len(sent) :
            /\ Stream(sent) = Stream(SubSeq(sent, 1, m)) \o (done.rest \o w)
            /\ Parsed(SubSeq(sent, 1, m)) = Parsed(SubSeq(sent, 1, k)) \o done.payloads
  BY <1>3, <1>5, <1>6, <1>7, Consumes
<1> HIDE DEF done
<1>9. PICK m \in k..Len(sent) :
         /\ Stream(sent) = Stream(First(m)) \o (done.rest \o w)
         /\ Parsed(First(m)) = Parsed(First(k)) \o done.payloads
  BY <1>8 DEF First
<1>10. m \in 0..Len(sent) /\ k <= m
  BY <1>3
<1>11. received' = Parsed(First(m))
  BY <1>1, <1>4, <1>9 DEF HandledUpTo
<1>12. FramingTypeOK'
  <2>1. received' \in Seq(Payloads)
    BY <1>3, <1>10, <1>11, Firsts DEF First
  <2>2. done.rest \in Seq(Bytes)
    BY <1>8 DEF Progress
  <2> QED BY <1>2, <1>4, <1>5, <2>1, <2>2 DEF FramingTypeOK
<1>13. HandledUpTo(m)'
  BY <1>4, <1>9, <1>11 DEF HandledUpTo, First
<1>14. FramingInv'
  <2>1. ~HoldsFrame(buffer)'
    BY <1>4, <1>8
  <2> QED BY <1>4, <1>10, <1>12, <1>13, <2>1 DEF FramingInv
<1>15. received = Parsed(First(k))
  BY <1>1 DEF HandledUpTo
<1> QED BY <1>4, <1>10, <1>11, <1>14, <1>15

LEMMA OtherFramingInv ==
  ASSUME FramingInv, Close \/ UNCHANGED vars
  PROVE  FramingInv' /\ sent' = sent /\ received' = received
<1>1. sent' = sent /\ received' = received /\ buffer' = buffer /\ wire' = wire /\ open' \in BOOLEAN
  BY DEF FramingInv, FramingTypeOK, Close, vars
<1>2. FramingTypeOK'
  BY <1>1 DEF FramingInv, FramingTypeOK
<1>3. \A k \in 0..Len(sent) : HandledUpTo(k) => HandledUpTo(k)'
  BY <1>1 DEF HandledUpTo, First
<1>4. ~HoldsFrame(buffer)'
  BY <1>1 DEF FramingInv
<1>5. \E k \in 0..Len(sent') : HandledUpTo(k)'
  BY <1>1, <1>3 DEF FramingInv
<1>6. FramingInv'
  BY <1>2, <1>4, <1>5 DEF FramingInv
<1> QED BY <1>1, <1>6

(***************************************************************************)
(* In every reachable state the handler of 'data' stands between two       *)
(* frames: it has handled the packets of some first frames, and its buffer *)
(* and the wire hold the bytes of the frames after them.                   *)
(***************************************************************************)
THEOREM FramingInvHolds == Spec => []FramingInv
<1>1. Init => FramingInv
  BY InitFramingInv
<1>2. FramingInv /\ [Next]_vars => FramingInv'
  <2> SUFFICES ASSUME FramingInv, [Next]_vars PROVE FramingInv'
    OBVIOUS
  <2>1. ASSUME NEW p \in Payloads, Send(p) PROVE FramingInv'
    BY <2>1, SendFramingInv
  <2>2. ASSUME DataArrives PROVE FramingInv'
    <3>1. PICK n \in 1..Len(wire) : Data(n)
      BY <2>2 DEF DataArrives
    <3> QED BY <3>1, DataFramingInv
  <2>3. CASE Close \/ UNCHANGED vars
    BY <2>3, OtherFramingInv
  <2> QED BY <2>1, <2>2, <2>3 DEF Next
<1> QED BY <1>1, <1>2, PTL DEF Spec

-------------------------------------------------------------------------------
(* The channel. *)

LEMMA FirstsOfChannel ==
  ASSUME FramingInv, NEW m \in 0..Len(sent)
  PROVE  /\ Len(Parsed(First(m))) \in 0..Len(Parsed(sent))
         /\ Parsed(First(m)) = SubSeq(Parsed(sent), 1, Len(Parsed(First(m))))
<1>1. sent \in Seq(Payloads) /\ Len(sent) \in Nat /\ Len(sent) \in 0..Len(sent) /\ m <= Len(sent)
  <2>1. sent \in Seq(Payloads)
    BY DEF FramingInv, FramingTypeOK
  <2> QED BY <2>1, LenProperties
<1>2. SubSeq(sent, 1, Len(sent)) = sent
  BY <1>1, SubSeqFull
<1>3. PICK q \in Seq(Payloads) : Parsed(SubSeq(sent, 1, Len(sent))) = Parsed(SubSeq(sent, 1, m)) \o q
  BY <1>1, FirstsExtend
<1> DEFINE a == Parsed(First(m))
<1>4. a \in Seq(Payloads) /\ Parsed(sent) = a \o q
  BY <1>1, <1>2, <1>3, Firsts DEF First
<1> HIDE DEF a
<1>5. Len(a) \in 0..Len(a \o q) /\ SubSeq(a \o q, 1, Len(a)) = a
  BY <1>4, Parts
<1> QED BY <1>4, <1>5 DEF a

(***************************************************************************)
(* A judge's connection is a channel of packets, however TCP cuts its      *)
(* bytes: packets come out of the 'data' handler whole, in order, none     *)
(* twice and none left out but those that cannot be parsed.                *)
(***************************************************************************)
THEOREM TheChannelIsImplemented == Spec => ChannelIsImplemented
<1>1. Init => Channel!Init
  BY ParsedIsTyped DEF Init, Channel!Init
<1>2. FramingInv /\ [Next]_vars => [Channel!Next]_(Channel!vars)
  <2> SUFFICES ASSUME FramingInv, [Next]_vars PROVE [Channel!Next]_(Channel!vars)
    OBVIOUS
  <2>1. ASSUME NEW p \in Payloads, Send(p) PROVE [Channel!Next]_(Channel!vars)
    <3>1. received' = received /\ Parsed(sent') = Handle(Parsed(sent), p)
      BY <2>1, SendFramingInv
    <3>2. CASE p \in Garbled
      BY <3>1, <3>2 DEF Handle, Channel!vars
    <3>3. CASE p \notin Garbled
      <4>1. Channel!Send(p)
        BY <3>1, <3>3 DEF Handle, Channel!Send
      <4> QED BY <3>3, <4>1 DEF Channel!Next
    <3> QED BY <3>2, <3>3
  <2>2. ASSUME DataArrives PROVE [Channel!Next]_(Channel!vars)
    <3>1. PICK n \in 1..Len(wire) : Data(n)
      BY <2>2 DEF DataArrives
    <3>2. PICK k \in 0..Len(sent), m \in 0..Len(sent) :
             k <= m /\ received = Parsed(First(k)) /\ received' = Parsed(First(m))
      BY <3>1, DataFramingInv
    <3>3. sent' = sent
      BY <3>1, DataFramingInv
    <3> DEFINE j == Len(Parsed(First(m)))
    <3>4. j \in 0..Len(Parsed(sent)) /\ received' = SubSeq(Parsed(sent), 1, j)
      BY <3>2, FirstsOfChannel
    <3>5. Len(received) <= j /\ Len(received) \in Nat
      <4>1. sent \in Seq(Payloads)
        BY DEF FramingInv, FramingTypeOK
      <4>2. PICK q \in Seq(Payloads) : Parsed(First(m)) = Parsed(First(k)) \o q
        BY <3>2, <4>1, FirstsExtend DEF First
      <4>3. Parsed(First(k)) \in Seq(Payloads)
        BY <4>1, Firsts DEF First
      <4>4. j = Len(Parsed(First(k))) + Len(q) /\ Len(Parsed(First(k))) \in Nat /\ Len(q) \in Nat
        BY <4>2, <4>3, ConcatProperties, LenProperties
      <4> HIDE DEF j
      <4> QED BY <3>2, <4>4
    <3> HIDE DEF j
    <3>6. j \in Len(received)..Len(Parsed(sent))
      BY <3>4, <3>5
    <3>7. Channel!Receive(j)
      BY <3>3, <3>4 DEF Channel!Receive
    <3> QED BY <3>6, <3>7 DEF Channel!Next
  <2>3. CASE Close \/ UNCHANGED vars
    BY <2>3, OtherFramingInv DEF Channel!vars
  <2> QED BY <2>1, <2>2, <2>3 DEF Next
<1> QED BY <1>1, <1>2, FramingInvHolds, PTL DEF Spec, ChannelIsImplemented, Channel!Spec

(***************************************************************************)
(* No packet waits in the buffer for the bytes of the next: one that can   *)
(* be parsed has been handled just when its last byte has been received.   *)
(***************************************************************************)
THEOREM PacketsAreHandledOnArrival == Spec => []HandledOnArrival
<1>1. FramingInv => HandledOnArrival
  <2> SUFFICES ASSUME FramingInv, NEW k \in 1..Len(sent), sent[k] \notin Garbled
               PROVE  Len(Stream(First(k))) <= Arrived <=> Len(Parsed(First(k))) <= Len(received)
    BY DEF HandledOnArrival
  <2>1. PICK m \in 0..Len(sent) : HandledUpTo(m)
    BY DEF FramingInv
  <2>2. sent \in Seq(Payloads) /\ wire \in Seq(Bytes) /\ buffer \in Seq(Bytes) /\ Len(sent) \in Nat
        /\ Len(wire) \in Nat /\ Len(buffer) \in Nat /\ k \in 0..Len(sent) /\ k - 1 \in 0..Len(sent)
    <3>1. sent \in Seq(Payloads) /\ wire \in Seq(Bytes) /\ buffer \in Seq(Bytes)
      BY DEF FramingInv, FramingTypeOK
    <3> QED BY <3>1, LenProperties
  <2> DEFINE bytes(j) == Len(Stream(First(j)))
             packets(j) == Len(Parsed(First(j)))
  <2>3. \A j \in 0..Len(sent) : bytes(j) \in Nat /\ packets(j) \in Nat
    BY <2>2, Firsts, LenProperties DEF First
  <2>4. \A i, j \in 0..Len(sent) : i <= j => bytes(i) <= bytes(j) /\ packets(i) <= packets(j)
    <3>1. ASSUME NEW i \in 0..Len(sent), NEW j \in 0..Len(sent), i <= j
          PROVE  bytes(i) <= bytes(j) /\ packets(i) <= packets(j)
      <4>1. PICK r \in Seq(Bytes), q \in Seq(Payloads) :
               Stream(First(j)) = Stream(First(i)) \o r /\ Parsed(First(j)) = Parsed(First(i)) \o q
        BY <2>2, <3>1, FirstsExtend DEF First
      <4>2. Stream(First(i)) \in Seq(Bytes) /\ Parsed(First(i)) \in Seq(Payloads)
        BY <2>2, Firsts DEF First
      <4>3. bytes(j) = bytes(i) + Len(r) /\ Len(r) \in Nat
        BY <4>1, <4>2, ConcatProperties, LenProperties
      <4>4. packets(j) = packets(i) + Len(q) /\ Len(q) \in Nat
        BY <4>1, <4>2, ConcatProperties, LenProperties
      <4> HIDE DEF bytes, packets
      <4> QED BY <2>3, <4>3, <4>4
    <3> QED BY <3>1
  <2>5. Arrived = bytes(m) + Len(buffer) /\ Len(received) = packets(m)
    <3> DEFINE a == Stream(First(m))
    <3>1. a \in Seq(Bytes) /\ Stream(sent) = a \o (buffer \o wire) /\ Len(a) \in Nat
      BY <2>1, <2>2, Firsts, LenProperties DEF HandledUpTo, First
    <3>2. Len(received) = packets(m)
      BY <2>1 DEF HandledUpTo
    <3> HIDE DEF a
    <3>3. buffer \o wire \in Seq(Bytes) /\ Len(buffer \o wire) = Len(buffer) + Len(wire)
      BY <2>2, ConcatProperties
    <3>4. Len(Stream(sent)) = Len(a) + (Len(buffer) + Len(wire))
      BY <3>1, <3>3, ConcatProperties
    <3>5. Arrived = Len(a) + Len(buffer)
      BY <2>2, <3>1, <3>4 DEF Arrived
    <3> QED BY <3>2, <3>5 DEF a
  <2>6. CASE k <= m
    <3>1. bytes(k) <= bytes(m) /\ packets(k) <= packets(m)
      BY <2>2, <2>4, <2>6
    <3>2. bytes(k) \in Nat /\ bytes(m) \in Nat
      BY <2>2, <2>3
    <3>3. bytes(k) <= Arrived /\ packets(k) <= Len(received)
      <4> HIDE DEF bytes, packets
      <4> QED BY <2>2, <2>5, <3>1, <3>2
    <3> QED BY <3>3
  <2>7. CASE ~(k <= m)
    <3>1. m < Len(sent) /\ m <= k - 1 /\ m + 1 <= k /\ m + 1 \in 0..Len(sent) /\ k - 1 < Len(sent) /\ (k - 1) + 1 = k
      BY <2>2, <2>7
    <3>2. Len(buffer) < Len(Frame(sent[m + 1]))
      <4>1. Stream(sent) = Stream(SubSeq(sent, 1, m)) \o (buffer \o wire)
        BY <2>1 DEF HandledUpTo, First
      <4>2. ~HoldsFrame(buffer)
        BY DEF FramingInv
      <4>3. m = Len(sent) \/ Len(buffer) < Len(Frame(sent[m + 1]))
        BY <2>2, <4>1, <4>2, NextFrame
      <4> QED BY <2>2, <3>1, <4>3
    <3>3. bytes(m + 1) = bytes(m) + Len(Frame(sent[m + 1]))
      <4> DEFINE f == Frame(sent[m + 1])
                 a == Stream(First(m))
      <4>1. sent[m + 1] \in Payloads /\ Stream(First(m + 1)) = a \o f
        BY <2>2, <3>1, NextFirst DEF First
      <4>2. f \in Seq(Bytes)
        BY <4>1, FramesAreRead, EmptySeq
      <4>3. a \in Seq(Bytes)
        BY <2>2, Firsts DEF First
      <4> HIDE DEF f, a
      <4>4. Len(Stream(First(m + 1))) = Len(a) + Len(f)
        BY <4>1, <4>2, <4>3, ConcatProperties
      <4> QED BY <4>4 DEF f, a
    <3>4. bytes(m + 1) <= bytes(k)
      BY <2>2, <2>4, <3>1
    <3>5. packets(k) = packets(k - 1) + 1
      <4> DEFINE a == Parsed(First(k - 1))
      <4>1. a \in Seq(Payloads)
        BY <2>2, Firsts DEF First
      <4>2. sent[(k - 1) + 1] \in Payloads /\ Parsed(First((k - 1) + 1)) = Handle(a, sent[(k - 1) + 1])
        BY <2>2, <3>1, NextFirst DEF First
      <4>3. sent[k] \in Payloads /\ Parsed(First(k)) = Handle(a, sent[k])
        BY <3>1, <4>2
      <4> HIDE DEF a
      <4>4. Parsed(First(k)) = Append(a, sent[k])
        BY <4>3 DEF Handle
      <4>5. Len(Append(a, sent[k])) = Len(a) + 1
        BY <4>1, <4>3, AppendProperties
      <4> QED BY <4>4, <4>5 DEF a
    <3>6. packets(m) <= packets(k - 1)
      BY <2>2, <2>4, <3>1
    <3>7. bytes(k) \in Nat /\ bytes(m) \in Nat /\ packets(m) \in Nat /\ packets(k - 1) \in Nat /\ bytes(m + 1) \in Nat
      BY <2>2, <2>3, <3>1
    <3>8. ~(bytes(k) <= Arrived) /\ ~(packets(k) <= Len(received))
      <4> HIDE DEF bytes, packets
      <4>1. Len(Frame(sent[m + 1])) = bytes(m + 1) - bytes(m)
        BY <3>3, <3>7
      <4>2. ~(bytes(k) <= Arrived)
        BY <2>2, <2>5, <3>2, <3>4, <3>7, <4>1
      <4>3. ~(packets(k) <= Len(received))
        BY <2>5, <3>5, <3>6, <3>7
      <4> QED BY <4>2, <4>3
    <3> QED BY <3>8
  <2> QED BY <2>6, <2>7
<1> QED BY <1>1, FramingInvHolds, PTL

===============================================================================
