--------------------------- MODULE DnsReplyProofs ---------------------------
(***************************************************************************)
(* What parse_dns_request() makes of every request, for buffers of every   *)
(* size that SizesAssumption allows.                                       *)
(***************************************************************************)
EXTENDS DnsReply, SequenceTheorems, WellFoundedInduction, NaturalsInduction,
        TLAPS

Buffer == [Offset -> Byte]

-----------------------------------------------------------------------------
(* Induction, on a set of numbers.                                         *)

\* A set of numbers that has an element has a least one.
LEMMA LeastNat ==
  ASSUME NEW T \in SUBSET Nat, T # {}
  PROVE  \E n \in T : \A m \in T : n <= m
<1>1. IsWellFoundedOn(OpToRel(<, Nat), Nat)
  BY NatLessThanWellFounded
<1>2. PICK n \in T : \A m \in T : ~ (<<m, n>> \in OpToRel(<, Nat))
  BY <1>1, WFMin
<1>3. \A m \in T : ~ (m < n)
  BY <1>2 DEF OpToRel
<1> QED
  BY <1>3

\* A set that has 0, and with a number its successor, has every number.
LEMMA SetInduction ==
  ASSUME NEW S, 0 \in S, \A n \in Nat : n \in S => n + 1 \in S
  PROVE  \A n \in Nat : n \in S
<1> SUFFICES ASSUME NEW k \in Nat \ S PROVE FALSE
  OBVIOUS
<1>1. PICK n \in Nat \ S : \A m \in Nat \ S : n <= m
  BY LeastNat
<1>2. n # 0 /\ n - 1 \in Nat
  BY <1>1
<1>3. n - 1 \in S
  BY <1>1, <1>2
<1>4. (n - 1) + 1 \in S
  BY <1>2, <1>3
<1> QED
  BY <1>4

-----------------------------------------------------------------------------
(* parse_dns_name().                                                       *)

\* What a byte is.
LEMMA ByteRange == \A x : x \in Byte <=> x \in Int /\ 0 <= x /\ x <= 255
  BY DEF Byte

\* Reading the buffer, or what lies behind it, gives bytes and words.
LEMMA ReadTyping ==
  ASSUME NEW b \in Buffer
  PROVE  \A i : At(b, i) \in Byte /\ Word(b, i) \in Nat /\ Word(b, i) < 65536
<1>1. \A o : At(b, o) \in Byte
  <2>1. 0 \in Byte
    BY ByteRange
  <2> QED
    BY <2>1 DEF At, Buffer
<1>2. ASSUME NEW hi \in Byte, NEW lo \in Byte
      PROVE  256 * hi + lo \in Nat /\ 256 * hi + lo < 65536
  <2>1. /\ hi \in Int /\ 0 <= hi /\ hi <= 255
        /\ lo \in Int /\ 0 <= lo /\ lo <= 255
    BY ByteRange
  <2> QED
    BY <2>1
<1> TAKE i
<1>3. At(b, i) \in Byte /\ At(b, i + 1) \in Byte
  BY <1>1
<1>4. 256 * At(b, i) + At(b, i + 1) \in Nat
  BY <1>2, <1>3
<1>5. 256 * At(b, i) + At(b, i + 1) < 65536
  BY <1>2, <1>3
<1> QED
  BY <1>3, <1>4, <1>5 DEF Word

\* From this label on a name is too long.
Beyond == Header + NAME_MAX

\* The end of the name from one label on, when f is the end from the next on.
WalkStep(b, f, label) ==
  LET next == label + At(b, label) + 1
  IN  IF TooLong(next - Header) THEN Null
      ELSE IF At(b, next) = 0 THEN AfterName(next)
      ELSE f[next]

LEMMA StepAhead ==
  ASSUME NEW b \in Buffer, NEW label \in Nat
  PROVE  /\ label + At(b, label) + 1 \in Nat
         /\ label + At(b, label) + 1 > label
         /\ label + At(b, label) + 1 <= label + 256
         /\ label >= Beyond => TooLong((label + At(b, label) + 1) - Header)
<1>1. At(b, label) \in Int /\ 0 <= At(b, label) /\ At(b, label) <= 255
  BY ReadTyping, ByteRange
<1> QED
  BY <1>1, SizesAssumption DEF TooLong, Beyond, Header

(***************************************************************************)
(* The loop of parse_dns_name() ends: there is a function that meets the   *)
(* recursive definition of Walk, and so Walk meets it.                     *)
(***************************************************************************)
LEMMA WalkExists ==
  ASSUME NEW b \in Buffer
  PROVE  \E f : f = [label \in Nat |-> WalkStep(b, f, label)]
<1> DEFINE Good(f, k) == 
             /\ f \in [Nat -> Int]
             /\ \A l \in Nat : l + k >= Beyond => f[l] = WalkStep(b, f, l)
           S == {k \in Nat : \E f : Good(f, k)}
<1>1. 0 \in S
  <2> DEFINE f == [l \in Nat |-> Null]
  <2>1. ASSUME NEW l \in Nat, l >= Beyond PROVE WalkStep(b, f, l) = Null
    <3>1. TooLong((l + At(b, l) + 1) - Header)
      BY <2>1, StepAhead
    <3> HIDE DEF f
    <3> QED
      BY <3>1 DEF WalkStep
  <2>2. Good(f, 0)
    BY <2>1, SizesAssumption DEF Null, Beyond, Header
  <2> QED
    BY <2>2
<1>2. ASSUME NEW k \in Nat, k \in S PROVE k + 1 \in S
  <2>1. PICK f : Good(f, k)
    BY <1>2
  <2>2. CASE Beyond - (k + 1) \notin Nat
    <3>1. \A l \in Nat : l + (k + 1) >= Beyond => l + k >= Beyond
      BY <2>2, SizesAssumption DEF Beyond, Header
    <3> QED
      BY <2>1, <3>1
  <2>3. CASE Beyond - (k + 1) \in Nat
    <3> DEFINE l0 == Beyond - (k + 1)
               g  == [f EXCEPT ![l0] = WalkStep(b, f, l0)]
    <3>1. WalkStep(b, f, l0) \in Int
      BY <2>1, <2>3, StepAhead DEF WalkStep, AfterName, Null
    <3>2. g \in [Nat -> Int]
      BY <2>1, <3>1
    <3>3. ASSUME NEW l \in Nat, l >= l0
           PROVE  WalkStep(b, g, l) = WalkStep(b, f, l)
      <4>1. g[l + At(b, l) + 1] = f[l + At(b, l) + 1]
        BY <2>1, <2>3, <3>3, StepAhead
      <4> QED
        BY <4>1 DEF WalkStep
    <3>4. ASSUME NEW l \in Nat, l + (k + 1) >= Beyond
          PROVE  g[l] = WalkStep(b, g, l)
      <4>1. l >= l0
        BY <2>3, <3>4, SizesAssumption DEF Beyond, Header
      <4>2. CASE l = l0
        BY <2>1, <3>3, <4>1, <4>2
      <4>3. CASE l # l0
        <5>1. l + k >= Beyond
          BY <4>1, <4>3, SizesAssumption DEF Beyond, Header
        <5>2. g[l] = f[l]
          BY <2>1, <4>3
        <5> QED
          BY <2>1, <3>3, <4>1, <5>1, <5>2
      <4> QED
        BY <4>2, <4>3
    <3>5. Good(g, k + 1)
      BY <3>2, <3>4
    <3> HIDE DEF g, Good
    <3> QED
      BY <3>5
  <2> QED
    BY <2>2, <2>3
<1>3. Beyond \in S
  <2> HIDE DEF S
  <2> QED
    BY <1>1, <1>2, SetInduction, SizesAssumption DEF Beyond, Header
<1>4. PICK f : Good(f, Beyond)
  BY <1>3
<1>5. f = [label \in Nat |-> WalkStep(b, f, label)]
  BY <1>4, SizesAssumption DEF Beyond, Header
<1> QED
  BY <1>5

LEMMA WalkDef ==
  ASSUME NEW b \in Buffer
  PROVE  \A label \in Nat : Walk(b)[label] = WalkStep(b, Walk(b), label)
<1> DEFINE W == CHOOSE f : f = [label \in Nat |-> WalkStep(b, f, label)]
<1>1. Walk(b) = W
  BY DEF Walk, WalkStep
<1>2. W = [label \in Nat |-> WalkStep(b, W, label)]
  BY WalkExists
<1> QED
  BY <1>1, <1>2

(***************************************************************************)
(* The pointer that parse_dns_name() returns is behind the name, and the   *)
(* name with its last zero fits NAME_MAX and one byte.                     *)
(***************************************************************************)
LEMMA NameEndRange ==
  ASSUME NEW b \in Buffer
  PROVE  \/ NameEnd(b) = Null
         \/ /\ NameEnd(b) \in Nat
            /\ Header + 2 <= NameEnd(b) /\ NameEnd(b) <= Beyond + 1
<1> DEFINE In(e) == \/ e = Null
                    \/ e \in Nat /\ Header + 2 <= e /\ e <= Beyond + 1
           S == {k \in Nat : \A l \in Nat :
                   l >= Header /\ l + k >= Beyond => In(Walk(b)[l])}
<1>1. 0 \in S
  <2> SUFFICES ASSUME NEW l \in Nat, l >= Beyond PROVE In(Walk(b)[l])
    BY SizesAssumption DEF Beyond, Header
  <2>1. TooLong((l + At(b, l) + 1) - Header)
    BY StepAhead
  <2>2. WalkStep(b, Walk(b), l) = Null
    BY <2>1 DEF WalkStep
  <2> QED
    BY <2>2, WalkDef
<1>2. ASSUME NEW k \in Nat, k \in S PROVE k + 1 \in S
  <2> SUFFICES ASSUME NEW l \in Nat, l >= Header, l + (k + 1) >= Beyond
               PROVE  In(Walk(b)[l])
    OBVIOUS
  <2> DEFINE next == l + At(b, l) + 1
  <2>1. next \in Nat /\ next > l
    BY StepAhead
  <2>2. Walk(b)[l] = WalkStep(b, Walk(b), l)
    BY WalkDef
  <2>3. CASE TooLong(next - Header)
    BY <2>2, <2>3 DEF WalkStep
  <2>4. CASE ~ TooLong(next - Header) /\ At(b, next) = 0
    <3>1. Walk(b)[l] = next + 1
      BY <2>2, <2>4 DEF WalkStep, AfterName
    <3>2. next <= Beyond
      BY <2>1, <2>4, SizesAssumption DEF TooLong, Beyond, Header
    <3> HIDE DEF next
    <3> QED
      BY <2>1, <3>1, <3>2, SizesAssumption DEF Beyond, Header
  <2>5. CASE ~ TooLong(next - Header) /\ At(b, next) # 0
    <3>1. Walk(b)[l] = Walk(b)[next]
      BY <2>2, <2>5 DEF WalkStep
    <3>2. next >= Header /\ next + k >= Beyond
      BY <2>1, SizesAssumption DEF Beyond, Header
    <3>3. In(Walk(b)[next])
      BY <1>2, <2>1, <3>2
    <3> QED
      BY <3>1, <3>3
  <2> QED
    BY <2>3, <2>4, <2>5
<1>3. Beyond \in S
  <2> HIDE DEF S
  <2> QED
    BY <1>1, <1>2, SetInduction, SizesAssumption DEF Beyond, Header
<1> QED
  BY <1>3, SizesAssumption DEF NameEnd, Beyond, Header

-----------------------------------------------------------------------------
(* The loop over the questions.                                            *)

Result == Buffer \cup {Failed}

LEMMA BufferNotFailed == ASSUME NEW b \in Buffer PROVE b # Failed
<1>1. DOMAIN b = Offset
  BY DEF Buffer
<1>2. 0 \in Offset
  BY SizesAssumption DEF Offset, Header, Slot
<1>3. 0 \notin DOMAIN Failed
  BY DEF Failed
<1> QED
  BY <1>1, <1>2, <1>3

\* htons() of a word of 16 bits is two bytes.
LEMMA BytesTyping ==
  ASSUME NEW w \in Nat, w < 65536
  PROVE  High(w) \in Byte /\ Low(w) \in Byte
<1>1. w \div 256 \in Int /\ 0 <= w \div 256 /\ w \div 256 <= 255
  OBVIOUS
<1>2. w % 256 \in Int /\ 0 <= w % 256 /\ w % 256 <= 255
  OBVIOUS
<1> QED
  BY <1>1, <1>2, ByteRange DEF High, Low

\* The four bytes of the address.
LEMMA IpTyping == Ip \in Seq(Byte) /\ Len(Ip) = 4
<1>1. Ip \in [1 .. 4 -> Byte]
  BY SizesAssumption
<1>2. Ip = [i \in 1 .. 4 |-> Ip[i]]
  BY <1>1
<1>3. \A i \in 1 .. 4 : Ip[i] \in Byte
  BY <1>1
<1> QED
  BY <1>2, <1>3

(***************************************************************************)
(* An answer has the size of a slot, and ends in the address.              *)
(***************************************************************************)
LEMMA AnswerTyping ==
  ASSUME NEW type \in Nat, type < 65536, NEW class \in Nat, class < 65536
  PROVE  /\ Len(Answer(type, class)) = Slot
         /\ \A i \in 1 .. Slot : Answer(type, class)[i] \in Byte
         /\ \A i \in 1 .. 4 : Answer(type, class)[12 + i] = Ip[i]
<1>1. /\ High(type) \in Byte /\ Low(type) \in Byte
      /\ High(class) \in Byte /\ Low(class) \in Byte
  BY BytesTyping
<1>2. Ip[1] \in Byte /\ Ip[2] \in Byte /\ Ip[3] \in Byte /\ Ip[4] \in Byte
  BY SizesAssumption
<1>3. {192, Header, 0, 1, 44, 4} \subseteq Byte
  BY ByteRange DEF Header
<1>4. Len(Answer(type, class)) = 16
  BY DEF Answer
<1>5. \A i \in 1 .. 16 : Answer(type, class)[i] \in Byte
  BY <1>1, <1>2, <1>3 DEF Answer
<1>6. \A i \in 1 .. 4 : Answer(type, class)[12 + i] = Ip[i]
  BY DEF Answer
<1> QED
  BY <1>4, <1>5, <1>6 DEF Slot

\* What writing an answer does to the buffer.
LEMMA PutTyping ==
  ASSUME NEW b \in Buffer, NEW i \in Nat, NEW s,
         Len(s) = Slot, \A k \in 1 .. Slot : s[k] \in Byte
  PROVE  /\ Put(b, i, s) \in Buffer
         /\ \A o \in Offset :
              Put(b, i, s)[o] = IF o - i \in 0 .. Slot - 1 THEN s[o - i + 1]
                                ELSE b[o]
<1>1. ASSUME NEW o \in Offset
      PROVE (IF o - i \in 0 .. Slot - 1 THEN s[o - i + 1] ELSE b[o]) \in Byte
  <2>1. o \in Int
    BY DEF Offset
  <2>2. b[o] \in Byte
    BY DEF Buffer
  <2>3. o - i \in 0 .. Slot - 1 => o - i + 1 \in 1 .. Slot
    BY <2>1 DEF Slot
  <2> QED
    BY <2>2, <2>3
<1> QED
  BY <1>1 DEF Put, Buffer

\* A pass of the loop leaves a reply, or fails.
LEMMA PassTyping ==
  ASSUME NEW b \in Result, NEW n \in Nat PROVE Pass(b, n) \in Result
<1>1. CASE b = Failed \/ NameEnd(b) = Null
  BY <1>1 DEF Pass, Result
<1>2. CASE b # Failed /\ NameEnd(b) # Null
  <2> DEFINE type  == Word(b, NameEnd(b))
             class == Word(b, NameEnd(b) + 2)
  <2>1. b \in Buffer
    BY <1>2 DEF Result
  <2>2. /\ type \in Nat /\ type < 65536
        /\ class \in Nat /\ class < 65536
    BY <2>1, ReadTyping
  <2>3. Pass(b, n) \in {b, Put(b, n, Answer(type, class))}
    BY <1>2 DEF Pass, AnswerAt
  <2> HIDE DEF type, class
  <2>4. Put(b, n, Answer(type, class)) \in Buffer
    BY <2>1, <2>2, AnswerTyping, PutTyping
  <2> QED
    BY <2>1, <2>3, <2>4 DEF Result
<1> QED
  BY <1>1, <1>2

\* What a datagram of any kind leaves in the buffer.
LEMMA CopyTyping ==
  ASSUME NEW req \in Seq(Byte)
  PROVE  /\ Copy(req) \in Buffer /\ Prepared(req) \in Buffer
         /\ QdCount(req) \in Nat
         /\ Prepared(req)[2] = (Copy(req)[2] % 128) + 128
         /\ Prepared(req)[6] = Copy(req)[4] /\ Prepared(req)[7] = Copy(req)[5]
         /\ \A o \in Offset :
              o \notin {2, 6, 7} => Prepared(req)[o] = Copy(req)[o]
<1>1. Copy(req) \in Buffer
  <2>1. 0 \in Byte
    BY ByteRange
  <2>2. ASSUME NEW o \in Offset, o < Len(req) PROVE req[o + 1] \in Byte
    <3>1. o + 1 \in 1 .. Len(req)
      BY <2>2, LenProperties DEF Offset
    <3> QED
      BY <3>1, ElementOfSeq
  <2> QED
    BY <2>1, <2>2 DEF Copy, Buffer
<1>2. QdCount(req) \in Nat
  BY <1>1, ReadTyping DEF QdCount
<1>3. {2, 4, 5, 6, 7} \subseteq Offset
  BY SizesAssumption DEF Offset, Header, Slot
<1>4. \A c \in Byte : (c % 128) + 128 \in Byte
  <2> TAKE c \in Byte
  <2>1. c \in Int /\ 0 <= c /\ c <= 255
    BY ByteRange
  <2>2. (c % 128) + 128 \in Int /\ 0 <= (c % 128) + 128
        /\ (c % 128) + 128 <= 255
    BY <2>1
  <2> QED
    BY <2>2, ByteRange
<1>5. /\ (Copy(req)[2] % 128) + 128 \in Byte
      /\ Copy(req)[4] \in Byte /\ Copy(req)[5] \in Byte
  BY <1>1, <1>3, <1>4 DEF Buffer
<1>6. /\ Prepared(req) \in Buffer
      /\ \A o \in Offset :
           o \notin {2, 6, 7} => Prepared(req)[o] = Copy(req)[o]
  BY <1>1, <1>3, <1>5 DEF Prepared, Buffer
<1>7. /\ Prepared(req)[2] = (Copy(req)[2] % 128) + 128
      /\ Prepared(req)[6] = Copy(req)[4] /\ Prepared(req)[7] = Copy(req)[5]
  BY <1>1, <1>3 DEF Prepared, Buffer
<1> QED
  BY <1>1, <1>2, <1>6, <1>7

\* What a pass makes of the passes before it.
PassStep(req, f, n) ==
  IF n = 0 THEN Prepared(req) ELSE Pass(f[n - 1], Len(req))

(***************************************************************************)
(* There is a function that meets the recursive definition of Passes, and  *)
(* so Passes meets it.                                                     *)
(***************************************************************************)
LEMMA PassesExists ==
  ASSUME NEW req \in Seq(Byte)
  PROVE  \E f : f = [n \in 0 .. QdCount(req) |-> PassStep(req, f, n)]
<1> DEFINE D == 0 .. QdCount(req)
           Good(f, k) == /\ f \in [D -> Result]
                         /\ \A n \in D : n <= k => f[n] = PassStep(req, f, n)
           S == {k \in Nat : \E f : Good(f, k)}
<1>1. QdCount(req) \in Nat /\ Len(req) \in Nat
  BY CopyTyping, LenProperties
<1>2. 0 \in S
  <2> DEFINE f == [n \in D |-> Prepared(req)]
  <2>1. f \in [D -> Result]
    BY CopyTyping DEF Result
  <2>2. \A n \in D : n <= 0 => f[n] = PassStep(req, f, n)
    BY <1>1 DEF PassStep
  <2>3. Good(f, 0)
    BY <2>1, <2>2
  <2> HIDE DEF f, Good
  <2> QED
    BY <2>3
<1>3. ASSUME NEW k \in Nat, k \in S PROVE k + 1 \in S
  <2>1. PICK f : Good(f, k)
    BY <1>3
  <2>2. CASE k + 1 \notin D
    <3>1. \A n \in D : n <= k + 1 => n <= k
      BY <1>1, <2>2
    <3>2. Good(f, k + 1)
      BY <2>1, <3>1
    <3> HIDE DEF Good
    <3> QED
      BY <3>2
  <2>3. CASE k + 1 \in D
    <3> DEFINE g == [f EXCEPT ![k + 1] = Pass(f[k], Len(req))]
    <3>1. k \in D
      BY <1>1, <2>3
    <3>2. g \in [D -> Result]
      BY <1>1, <2>1, <3>1, PassTyping
    <3>3. ASSUME NEW n \in D, n <= k + 1 PROVE g[n] = PassStep(req, g, n)
      <4>1. CASE n = k + 1
        <5>1. n # 0 /\ n - 1 = k /\ g[k] = f[k]
          BY <1>1, <2>1, <3>1, <4>1
        <5>2. g[n] = Pass(f[k], Len(req))
          BY <2>1, <2>3, <4>1
        <5> QED
          BY <5>1, <5>2 DEF PassStep
      <4>2. CASE n # k + 1
        <5>1. n <= k /\ g[n] = f[n] /\ n \in Nat
          BY <1>1, <2>1, <3>3, <4>2
        <5>2. f[n] = PassStep(req, f, n)
          BY <2>1, <5>1
        <5>3. n # 0 => n - 1 \in D /\ n - 1 # k + 1
          BY <1>1, <5>1
        <5>4. n # 0 => g[n - 1] = f[n - 1]
          BY <2>1, <5>3
        <5> QED
          BY <5>1, <5>2, <5>4 DEF PassStep
      <4> QED
        BY <4>1, <4>2
    <3>4. Good(g, k + 1)
      BY <3>2, <3>3
    <3> HIDE DEF g, Good
    <3> QED
      BY <3>4
  <2> QED
    BY <2>2, <2>3
<1>4. QdCount(req) \in S
  <2> HIDE DEF S
  <2> QED
    BY <1>1, <1>2, <1>3, SetInduction
<1>5. PICK f : Good(f, QdCount(req))
  BY <1>4
<1>6. f = [n \in D |-> PassStep(req, f, n)]
  BY <1>1, <1>5
<1> QED
  BY <1>6

LEMMA PassesDef ==
  ASSUME NEW req \in Seq(Byte)
  PROVE  \A n \in 0 .. QdCount(req) :
           Passes(req)[n] = PassStep(req, Passes(req), n)
<1> DEFINE P == CHOOSE f : f = [n \in 0 .. QdCount(req) |-> PassStep(req, f, n)]
<1>1. Passes(req) = P
  BY DEF Passes, PassStep
<1>2. P = [n \in 0 .. QdCount(req) |-> PassStep(req, P, n)]
  BY PassesExists
<1> QED
  BY <1>1, <1>2

\* What Put leaves of a buffer that has been answered, or has not.
Unanswered(req, b) == \A o \in Offset : o >= Len(req) => b[o] = 0
Answered(req, b) ==
  /\ \A o \in Offset : o >= Len(req) + Slot => b[o] = 0
  /\ \A i \in 1 .. 4 : Len(req) + 11 + i \in Offset =>
                         b[Len(req) + 11 + i] = Ip[i]

(***************************************************************************)
(* After n passes: no pass writes over the request, and behind it there is *)
(* one answer or none, whatever the number of questions.                   *)
(***************************************************************************)
Shape(req, n, b) ==
  /\ b \in Buffer
  /\ \A o \in Offset : o < Len(req) => b[o] = Prepared(req)[o]
  /\ Len(req) >= Header =>
       Unanswered(req, b) \/ (n # 0 /\ Answered(req, b))

LEMMA PreparedShape ==
  ASSUME NEW req \in Seq(Byte)
  PROVE  Shape(req, 0, Prepared(req))
<1>1. Prepared(req) \in Buffer
  BY CopyTyping
<1>2. ASSUME Len(req) >= Header, NEW o \in Offset, o >= Len(req)
      PROVE  Prepared(req)[o] = 0
  <2>1. Len(req) \in Nat /\ o \in Int
    BY LenProperties DEF Offset
  <2>2. o \notin {2, 6, 7} /\ ~ (o < Len(req))
    BY <1>2, <2>1 DEF Header
  <2>3. Copy(req)[o] = 0
    BY <2>2 DEF Copy
  <2> QED
    BY <2>2, <2>3, CopyTyping
<1> QED
  BY <1>1, <1>2 DEF Shape, Unanswered

LEMMA PassShape ==
  ASSUME NEW req \in Seq(Byte), NEW n \in Nat, NEW b, Shape(req, n, b)
  PROVE  LET p == Pass(b, Len(req)) IN p = Failed \/ Shape(req, n + 1, p)
<1>1. CASE b = Failed \/ NameEnd(b) = Null
  BY <1>1 DEF Pass
<1>2. CASE b # Failed /\ NameEnd(b) # Null
  <2> DEFINE type  == Word(b, NameEnd(b))
             class == Word(b, NameEnd(b) + 2)
             put   == Put(b, Len(req), Answer(type, class))
  <2>1. b \in Buffer /\ Len(req) \in Nat
    BY LenProperties DEF Shape
  <2>2. Pass(b, Len(req)) \in {b, put}
    BY <1>2 DEF Pass, AnswerAt
  <2>3. Shape(req, n + 1, b)
    BY DEF Shape
  <2>4. Shape(req, n + 1, put)
    <3>1. /\ type \in Nat /\ type < 65536
          /\ class \in Nat /\ class < 65536
      BY <2>1, ReadTyping
    <3> DEFINE ans == Answer(type, class)
    <3> HIDE DEF type, class
    <3>2. /\ Len(ans) = Slot /\ \A i \in 1 .. Slot : ans[i] \in Byte
          /\ \A i \in 1 .. 4 : ans[12 + i] = Ip[i]
      BY <3>1, AnswerTyping
    <3> HIDE DEF ans
    <3>3. /\ put \in Buffer
          /\ \A o \in Offset :
               put[o] = IF o - Len(req) \in 0 .. Slot - 1
                        THEN ans[o - Len(req) + 1] ELSE b[o]
      BY <2>1, <3>2, PutTyping DEF ans
    <3> HIDE DEF put
    <3>4. ASSUME NEW o \in Offset, o < Len(req)
          PROVE  put[o] = Prepared(req)[o]
      <4>1. o \in Int /\ o - Len(req) < 0
        BY <2>1, <3>4 DEF Offset
      <4>2. o - Len(req) \notin 0 .. Slot - 1
        BY <4>1
      <4>3. put[o] = b[o]
        BY <3>3, <4>2
      <4> QED
        BY <3>4, <4>3 DEF Shape
    <3>5. ASSUME Len(req) >= Header, NEW o \in Offset, o >= Len(req) + Slot
          PROVE  put[o] = 0
      <4>0. o - Len(req) \notin 0 .. Slot - 1
        <5>1. PICK d \in Int : d = o - Len(req) /\ d >= Slot
          BY <2>1, <3>5 DEF Offset, Slot
        <5>2. d \notin 0 .. Slot - 1
          BY <5>1 DEF Slot
        <5> QED
          BY <5>1, <5>2
      <4>1. put[o] = b[o]
        BY <3>3, <4>0
      <4>2. o >= Len(req)
        BY <2>1, <3>5 DEF Offset, Slot
      <4> QED
        BY <3>5, <4>1, <4>2 DEF Shape, Unanswered, Answered
    <3>6. ASSUME NEW i \in 1 .. 4, Len(req) + 11 + i \in Offset
          PROVE  put[Len(req) + 11 + i] = Ip[i]
      <4>1. (Len(req) + 11 + i) - Len(req) \in 0 .. Slot - 1
        BY <2>1 DEF Slot
      <4>2. put[Len(req) + 11 + i] = ans[(Len(req) + 11 + i) - Len(req) + 1]
        BY <3>3, <3>6, <4>1
      <4>3. (Len(req) + 11 + i) - Len(req) + 1 = 12 + i
        BY <2>1
      <4> QED
        BY <3>2, <4>2, <4>3
    <3>7. Len(req) >= Header => Answered(req, put)
      BY <3>5, <3>6 DEF Answered
    <3> QED
      BY <3>3, <3>4, <3>7 DEF Shape
  <2> HIDE DEF put
  <2> QED
    BY <2>2, <2>3, <2>4
<1> QED
  BY <1>1, <1>2

\* Every pass leaves a buffer of this shape, or has failed.
LEMMA PassesShape ==
  ASSUME NEW req \in Seq(Byte)
  PROVE  \A n \in 0 .. QdCount(req) :
           Passes(req)[n] = Failed \/ Shape(req, n, Passes(req)[n])
<1> DEFINE OK(n) == Passes(req)[n] = Failed \/ Shape(req, n, Passes(req)[n])
           S == {n \in Nat : n \in 0 .. QdCount(req) => OK(n)}
<1>1. QdCount(req) \in Nat /\ Len(req) \in Nat
  BY CopyTyping, LenProperties
<1>2. 0 \in S
  <2>1. Passes(req)[0] = Prepared(req)
    BY <1>1, PassesDef DEF PassStep
  <2> QED
    BY <2>1, PreparedShape
<1>3. ASSUME NEW n \in Nat, n \in S PROVE n + 1 \in S
  <2> SUFFICES ASSUME n + 1 \in 0 .. QdCount(req) PROVE OK(n + 1)
    OBVIOUS
  <2>1. OK(n)
    BY <1>1, <1>3
  <2>2. Passes(req)[n + 1] = Pass(Passes(req)[n], Len(req))
    BY <1>1, PassesDef DEF PassStep
  <2>3. CASE Passes(req)[n] = Failed
    BY <2>2, <2>3 DEF Pass
  <2>4. CASE Shape(req, n, Passes(req)[n])
    BY <2>2, <2>4, PassShape
  <2> QED
    BY <2>1, <2>3, <2>4
<1>4. \A n \in Nat : n \in S
  <2> HIDE DEF S
  <2> QED
    BY <1>2, <1>3, SetInduction
<1> QED
  BY <1>1, <1>4

(***************************************************************************)
(* What parse_dns_request() makes of a request: nothing, or as many bytes  *)
(* as it says of the buffer that its loop leaves.                          *)
(***************************************************************************)
LEMMA ReplyShape ==
  ASSUME NEW req \in Seq(Byte)
  PROVE  \/ Reply(req) = <<>>
         \/ LET b == Passes(req)[QdCount(req)] IN
              /\ ReplyLen(req) \in Nat /\ ReplyLen(req) <= DNS_MAX_LEN
              /\ ReplyLen(req) >= Len(req)
              /\ QdCount(req) # 0 => ReplyLen(req) >= Len(req) + Slot
              /\ Shape(req, QdCount(req), b)
              /\ Reply(req) \in Seq(Byte) /\ Len(Reply(req)) = ReplyLen(req)
              /\ \A i \in 1 .. ReplyLen(req) :
                   i - 1 \in Offset /\ Reply(req)[i] = b[i - 1]
<1> DEFINE b == Passes(req)[QdCount(req)]
<1> SUFFICES ASSUME Reply(req) # <<>>
    PROVE /\ ReplyLen(req) \in Nat /\ ReplyLen(req) <= DNS_MAX_LEN
          /\ ReplyLen(req) >= Len(req)
          /\ QdCount(req) # 0 => ReplyLen(req) >= Len(req) + Slot
          /\ Shape(req, QdCount(req), b)
          /\ Reply(req) \in Seq(Byte) /\ Len(Reply(req)) = ReplyLen(req)
          /\ \A i \in 1 .. ReplyLen(req) :
               i - 1 \in Offset /\ Reply(req)[i] = b[i - 1]
  OBVIOUS
<1>1. QdCount(req) \in Nat /\ Len(req) \in Nat
  BY CopyTyping, LenProperties
<1>2. /\ ReplyLen(req) \in Nat /\ ReplyLen(req) >= Len(req)
      /\ QdCount(req) # 0 => ReplyLen(req) >= Len(req) + Slot
  BY <1>1 DEF ReplyLen, Slot
<1>3. /\ ReplyLen(req) <= DNS_MAX_LEN /\ b # Failed
      /\ Reply(req) = [i \in 1 .. ReplyLen(req) |-> At(b, i - 1)]
  BY DEF Reply, Fits
<1>4. Shape(req, QdCount(req), b)
  BY <1>1, <1>3, PassesShape
<1> HIDE DEF b
<1>5. b \in Buffer
  BY <1>4 DEF Shape
<1>6. \A i \in 1 .. ReplyLen(req) : i - 1 \in Offset
  BY <1>2, <1>3, SizesAssumption DEF Offset
<1>7. \A i \in 1 .. ReplyLen(req) : Reply(req)[i] = b[i - 1]
  BY <1>3, <1>6 DEF At
<1>8. \A i \in 1 .. ReplyLen(req) : At(b, i - 1) \in Byte
  BY <1>5, ReadTyping
<1>9. Reply(req) \in Seq(Byte) /\ Len(Reply(req)) = ReplyLen(req)
  BY <1>2, <1>3, <1>8
<1> QED
  BY <1>2, <1>3, <1>4, <1>6, <1>7, <1>9
=============================================================================
