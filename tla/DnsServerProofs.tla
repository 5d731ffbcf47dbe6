-------------------------- MODULE DnsServerProofs --------------------------
(***************************************************************************)
(* Proofs about DnsServer, for every request, every size of the buffers    *)
(* and every set of descriptors.                                           *)
(***************************************************************************)
EXTENDS DnsServer, DnsReplyProofs, FiniteSetTheorems

(***************************************************************************)
(* The task has at most one socket, the one it knows of, and as long as no *)
(* recvfrom() has failed the socket it knows of is its own.                *)
(***************************************************************************)
SocketInv ==
  /\ \A f \in Fd : owner[f] = "dns" => f = sock
  /\ pc \in {"loop", "create", "gone"} => sock = -1
  /\ pc \in {"bound", "recv", "send", "shut down"} =>
       sock \in Fd /\ (~ failed => owner[sock] = "dns")
  /\ ~ failed => ~ robbed

\* Between a recvfrom() and the next, reply is what was made of rx.
ReplyInv ==
  /\ pc # "send" => rx = <<>> /\ reply = <<>>
  /\ pc = "send" => rx \in Request /\ reply = Reply(rx)

Inv == TypeOK /\ SocketInv /\ ReplyInv

-----------------------------------------------------------------------------

\* A descriptor is a number that is not -1.
LEMMA NoFd == -1 \notin Fd
<1>1. -1 \notin Nat
  OBVIOUS
<1> QED
  BY <1>1, FdAssumption

\* socket() returns a free descriptor: there is a lowest one.
LEMMA LowestFree ==
  ASSUME NEW T \in SUBSET Fd, T # {} PROVE Lowest(T) \in T
<1>1. \E n \in T : \A m \in T : n <= m
  BY FdAssumption, LeastNat
<1> QED
  BY <1>1 DEF Lowest

LEMMA RequestTyping ==
  ASSUME NEW req \in Request
  PROVE  /\ req \in Seq(Byte)
         /\ Reply(req) \in Seq(Byte) /\ Len(Reply(req)) <= DNS_MAX_LEN
<1>1. req \in Seq(Byte)
  BY RequestAssumption
<1>2. <<>> \in Seq(Byte) /\ Len(<<>>) = 0
  BY EmptySeq
<1>3. CASE Reply(req) = <<>>
  BY <1>1, <1>2, <1>3, SizesAssumption
<1>4. CASE Reply(req) # <<>>
  BY <1>1, <1>4, ReplyShape
<1> QED
  BY <1>3, <1>4

LEMMA InitInv == Init => Inv
<1> SUFFICES ASSUME Init PROVE Inv
  OBVIOUS
<1>1. <<>> \in Seq(Byte) /\ Len(<<>>) = 0
  BY EmptySeq
<1>2. TypeOK
  <2>1. rx \in Seq(Byte) /\ reply \in Seq(Byte) /\ Len(reply) <= DNS_MAX_LEN
    BY <1>1, SizesAssumption DEF Init
  <2>2. owner \in [Fd -> {"free", "dns", "other"}]
    BY DEF Init
  <2> QED
    BY <2>1, <2>2 DEF Init, TypeOK
<1>3. SocketInv /\ ReplyInv
  BY DEF Init, SocketInv, ReplyInv
<1> QED
  BY <1>2, <1>3 DEF Inv

\* Every step keeps the types.
LEMMA NextTyping == Inv /\ [Next]_vars => TypeOK'
<1> SUFFICES ASSUME Inv, [Next]_vars PROVE TypeOK'
  OBVIOUS
<1>0. TypeOK /\ SocketInv
  BY DEF Inv
<1>e. <<>> \in Seq(Byte) /\ Len(<<>>) <= DNS_MAX_LEN
  BY EmptySeq, SizesAssumption
<1> USE DEF TypeOK
<1>1. CASE Create
  <2>1. Lowest(Free) \in Fd
    BY <1>1, LowestFree DEF Create, Free
  <2> QED
    BY <1>0, <1>1, <2>1 DEF Create
<1>2. CASE CreateFails
  BY <1>0, <1>2 DEF CreateFails
<1>3. ASSUME NEW req \in Request, Receive(req) PROVE TypeOK'
  <2>1. rx' \in Seq(Byte) /\ reply' \in Seq(Byte) /\ Len(reply') <= DNS_MAX_LEN
    BY <1>3, RequestTyping DEF Receive
  <2> QED
    BY <1>0, <1>3, <2>1 DEF Receive
<1>4. CASE ReceiveFails
  BY <1>0, <1>4 DEF ReceiveFails, Close
<1>5. CASE Sent
  BY <1>0, <1>e, <1>5 DEF Sent
<1>6. CASE SendFails
  BY <1>0, <1>e, <1>6 DEF SendFails
<1>7. CASE ShutDown
  BY <1>0, <1>7 DEF ShutDown, Close
<1>8. CASE StopStarted \/ StopTask
  BY <1>0, <1>e, <1>8 DEF StopStarted, StopTask
<1>9. CASE OtherOpen
  <2>1. Lowest(Free) \in Fd
    BY <1>9, LowestFree DEF OtherOpen, Free
  <2> QED
    BY <1>0, <1>9, <2>1 DEF OtherOpen
<1>10. ASSUME NEW f \in Fd, OtherClose(f) PROVE TypeOK'
  BY <1>0, <1>10 DEF OtherClose
<1>11. CASE OuterTest \/ InnerTest
  BY <1>0, <1>11 DEF OuterTest, InnerTest
<1>12. CASE UNCHANGED vars
  BY <1>0, <1>12 DEF vars
<1> QED
  BY <1>1, <1>2, <1>3, <1>4, <1>5, <1>6, <1>7, <1>8, <1>9, <1>10, <1>11,
     <1>12 DEF Next

\* No step of the task or of another one makes the task lose its socket.
LEMMA NextSocket == Inv /\ [Next]_vars => SocketInv'
<1> SUFFICES ASSUME Inv, [Next]_vars PROVE SocketInv'
  OBVIOUS
<1>0. TypeOK /\ SocketInv
  BY DEF Inv
<1> USE DEF TypeOK, SocketInv
<1>1. CASE Create
  <2>1. Lowest(Free) \in Fd
    BY <1>1, LowestFree DEF Create, Free
  <2>2. \A f \in Fd : owner[f] # "dns"
    BY <1>0, <1>1, NoFd DEF Create
  <2> QED
    BY <1>0, <1>1, <2>1, <2>2 DEF Create
<1>2. CASE CreateFails
  BY <1>0, <1>2 DEF CreateFails
<1>3. ASSUME NEW req \in Request, Receive(req) PROVE SocketInv'
  BY <1>0, <1>3 DEF Receive
<1>4. CASE ReceiveFails
  BY <1>0, <1>4 DEF ReceiveFails, Close
<1>5. CASE Sent
  BY <1>0, <1>5 DEF Sent
<1>6. CASE SendFails
  BY <1>0, <1>6 DEF SendFails
<1>7. CASE ShutDown
  BY <1>0, <1>7 DEF ShutDown, Close
<1>8. CASE StopStarted
  BY <1>0, <1>8 DEF StopStarted
<1>13. CASE StopTask
  BY <1>0, <1>13 DEF StopTask
<1>9. CASE OtherOpen
  <2>1. Lowest(Free) \in Fd /\ owner[Lowest(Free)] = "free"
    BY <1>9, LowestFree DEF OtherOpen, Free
  <2> QED
    BY <1>0, <1>9, <2>1 DEF OtherOpen
<1>10. ASSUME NEW f \in Fd, OtherClose(f) PROVE SocketInv'
  BY <1>0, <1>10 DEF OtherClose
<1>11. CASE OuterTest
  BY <1>0, <1>11 DEF OuterTest
<1>14. CASE InnerTest
  BY <1>0, <1>14 DEF InnerTest
<1>12. CASE UNCHANGED vars
  BY <1>0, <1>12 DEF vars
<1> QED
  BY <1>1, <1>2, <1>3, <1>4, <1>5, <1>6, <1>7, <1>8, <1>9, <1>10, <1>11,
     <1>12, <1>13, <1>14 DEF Next

\* A reply is sent, or given up, before the next request is received.
LEMMA NextReply == Inv /\ [Next]_vars => ReplyInv'
<1> SUFFICES ASSUME Inv, [Next]_vars PROVE ReplyInv'
  OBVIOUS
<1>0. ReplyInv
  BY DEF Inv
<1> QED
  BY <1>0 DEF ReplyInv, Next, OuterTest, Create, CreateFails, InnerTest,
     Receive, ReceiveFails, Sent, SendFails, ShutDown, StopStarted, StopTask,
     OtherOpen, OtherClose, vars

\* Every reachable state has the invariant.
LEMMA Invariance == Spec => []Inv
<1>1. Inv /\ [Next]_vars => Inv'
  BY NextTyping, NextSocket, NextReply DEF Inv
<1> QED
  BY InitInv, <1>1, PTL DEF Spec

-----------------------------------------------------------------------------
(* What is sent.                                                           *)

(***************************************************************************)
(* The bytes of a reply to a request that has a whole header.              *)
(***************************************************************************)
LEMMA ReplyBytes ==
  ASSUME NEW r \in Seq(Byte), Len(r) >= Header, Reply(r) # <<>>
  PROVE  /\ \A i \in 1 .. Len(r) : i \notin {3, 7, 8} => Reply(r)[i] = r[i]
         /\ Reply(r)[7] = r[5] /\ Reply(r)[8] = r[6]
         /\ \A k \in 1 .. QdCount(r) :
              LET slot == Len(r) + Slot * (k - 1)
              IN  \/ \A i \in 1 .. Slot : Reply(r)[slot + i] = 0
                  \/ \A i \in 1 .. 4 : Reply(r)[slot + 12 + i] = Ip[i]
<1> DEFINE b == Passes(r)[QdCount(r)]
<1>1. PICK len \in Nat : len = Len(r) /\ len >= 12
  BY LenProperties DEF Header
<1>n. PICK n \in Nat : n = QdCount(r)
  BY CopyTyping
<1>2. /\ ReplyLen(r) = n * 16 + len
      /\ Shape(r, n, b)
      /\ \A i \in 1 .. n * 16 + len :
           i - 1 \in Offset /\ Reply(r)[i] = b[i - 1]
  BY <1>1, <1>n, ReplyShape DEF ReplyLen, Slot
<1> HIDE DEF b
<1>3. ASSUME NEW i \in 1 .. len
      PROVE  Reply(r)[i] = Prepared(r)[i - 1] /\ i - 1 \in Offset
             /\ Copy(r)[i - 1] = r[i]
  <2>1. i \in 1 .. n * 16 + len /\ i - 1 < len /\ (i - 1) + 1 = i
    BY <1>1, <1>n
  <2>2. i - 1 \in Offset /\ Reply(r)[i] = b[i - 1]
    BY <1>2, <2>1
  <2>3. b[i - 1] = Prepared(r)[i - 1]
    BY <1>1, <1>2, <2>1, <2>2 DEF Shape
  <2>4. Copy(r)[i - 1] = r[(i - 1) + 1]
    BY <1>1, <2>1, <2>2 DEF Copy
  <2> QED
    BY <2>1, <2>2, <2>3, <2>4
<1>4. ASSUME NEW i \in 1 .. len, i \notin {3, 7, 8} PROVE Reply(r)[i] = r[i]
  <2>1. i - 1 \notin {2, 6, 7}
    BY <1>1, <1>4
  <2> QED
    BY <1>3, <2>1, CopyTyping
<1>5. Reply(r)[7] = r[5] /\ Reply(r)[8] = r[6]
  <2>1. 5 \in 1 .. len /\ 6 \in 1 .. len /\ 7 \in 1 .. len /\ 8 \in 1 .. len
    BY <1>1
  <2>2. Reply(r)[7] = Prepared(r)[6] /\ Copy(r)[4] = r[5]
    BY <1>3, <2>1
  <2>3. Reply(r)[8] = Prepared(r)[7] /\ Copy(r)[5] = r[6]
    BY <1>3, <2>1
  <2> QED
    BY <2>2, <2>3, CopyTyping
<1>6. ASSUME NEW k \in 1 .. n, NEW i \in 1 .. 16
      PROVE  LET o == (len + 16 * (k - 1) + i) - 1 IN
             /\ o \in Offset /\ Reply(r)[len + 16 * (k - 1) + i] = b[o]
             /\ o >= len
             /\ k > 1 => o >= len + 16
  <2>1. PICK j \in Nat : j = 16 * (k - 1) /\ (k > 1 => j >= 16) /\ j + 16 <= n * 16
    <3>1. k \in Nat /\ n \in Nat /\ 1 <= k /\ k <= n
      BY <1>n
    <3>2. \A x \in Nat, y \in Nat : 1 <= x /\ x <= y =>
            /\ 16 * (x - 1) \in Nat
            /\ x > 1 => 16 * (x - 1) >= 16
            /\ 16 * (x - 1) + 16 <= y * 16
      OBVIOUS
    <3> QED
      BY <3>1, <3>2
  <2>2. /\ len + j + i \in 1 .. n * 16 + len
        /\ (len + j + i) - 1 >= len
        /\ j >= 16 => (len + j + i) - 1 >= len + 16
    <3>1. PICK m \in Nat : m = n * 16
      BY <1>n
    <3>2. j + 16 <= m /\ i \in Nat /\ 1 <= i /\ i <= 16
      BY <2>1, <3>1
    <3> QED
      BY <1>1, <3>1, <3>2
  <2> QED
    BY <1>2, <2>1, <2>2
<1>7. CASE Unanswered(r, b)
  <2>1. ASSUME NEW k \in 1 .. n, NEW i \in 1 .. 16
        PROVE  Reply(r)[len + 16 * (k - 1) + i] = 0
    BY <1>1, <1>6, <1>7 DEF Unanswered
  <2> QED
    BY <1>1, <1>n, <1>4, <1>5, <2>1 DEF Slot
<1>8. CASE Answered(r, b)
  <2>1. ASSUME NEW k \in 1 .. n, NEW i \in 1 .. 16, k > 1
        PROVE  Reply(r)[len + 16 * (k - 1) + i] = 0
    BY <1>1, <1>6, <1>8, <2>1 DEF Answered, Slot
  <2>2. ASSUME 1 \in 1 .. n, NEW i \in 1 .. 4
        PROVE  Reply(r)[len + 16 * (1 - 1) + 12 + i] = Ip[i]
    <3>1. PICK h \in 1 .. 16 : h = 12 + i
      OBVIOUS
    <3>2. /\ (len + 16 * (1 - 1) + h) - 1 \in Offset
          /\ Reply(r)[len + 16 * (1 - 1) + h] = b[(len + 16 * (1 - 1) + h) - 1]
      BY <1>6, <2>2
    <3>3. /\ len + 16 * (1 - 1) + h = len + 16 * (1 - 1) + 12 + i
          /\ (len + 16 * (1 - 1) + h) - 1 = len + 11 + i
      BY <1>1, <3>1
    <3> QED
      BY <1>1, <1>8, <3>2, <3>3 DEF Answered
  <2>3. ASSUME NEW k \in 1 .. n
        PROVE  \/ \A i \in 1 .. 16 : Reply(r)[len + 16 * (k - 1) + i] = 0
               \/ \A i \in 1 .. 4 :
                    Reply(r)[len + 16 * (k - 1) + 12 + i] = Ip[i]
    <3>1. CASE k = 1
      BY <2>2, <3>1
    <3>2. CASE k > 1
      BY <2>1, <3>2
    <3> QED
      BY <1>n, <3>1, <3>2
  <2> QED
    BY <1>1, <1>n, <1>4, <1>5, <2>3 DEF Slot
<1>9. Unanswered(r, b) \/ Answered(r, b)
  BY <1>1, <1>2 DEF Shape
<1> QED
  BY <1>7, <1>8, <1>9

LEMMA InvEchoes == Inv => ReplyEchoes
<1> SUFFICES ASSUME Inv, pc = "send", reply # <<>>, Len(rx) >= Header
    PROVE /\ \A i \in 1 .. Len(rx) : i \notin {3, 7, 8} => reply[i] = rx[i]
          /\ reply[7] = rx[5] /\ reply[8] = rx[6]
          /\ \A k \in 1 .. QdCount(rx) :
               LET slot == Len(rx) + Slot * (k - 1)
               IN  \/ \A i \in 1 .. Slot : reply[slot + i] = 0
                   \/ \A i \in 1 .. 4 : reply[slot + 12 + i] = Ip[i]
  BY DEF ReplyEchoes
<1>1. rx \in Seq(Byte) /\ reply = Reply(rx)
  BY RequestTyping DEF Inv, ReplyInv
<1> QED
  BY <1>1, ReplyBytes

-----------------------------------------------------------------------------
(* The answer to a query for the address of a name with labels.            *)

(***************************************************************************)
(* What WellFormed says of the bytes of a request r of len bytes: labels   *)
(* begin at the places P, and the zero behind them is at len - 4.          *)
(***************************************************************************)
Query(r, len, P) ==
  /\ r \in Seq(Byte) /\ len = Len(r)
  /\ len > 17 /\ len - 17 <= NAME_MAX
  /\ r[3] < 128 /\ (r[4] \div 8) % 16 = 0
  /\ r[5] = 0 /\ r[6] = 1 /\ r[7] = 0 /\ r[8] = 0
  /\ r[len - 4] = 0 /\ r[len - 3] = 0 /\ r[len - 2] = 1
  /\ P \in SUBSET (13 .. len - 5) /\ 13 \in P
  /\ \A p \in P : /\ r[p] \in 1 .. 63
                  /\ p + r[p] + 1 \in P \/ p + r[p] + 1 = len - 4

\* A piece of a string of bytes, byte by byte.
LEMMA Piece ==
  ASSUME NEW s \in Seq(Byte), NEW m \in Nat \ {0}, NEW n \in Nat,
         m <= n, n <= Len(s)
  PROVE  /\ Len(SubSeq(s, m, n)) = (n - m) + 1
         /\ \A i \in 1 .. (n - m) + 1 : SubSeq(s, m, n)[i] = s[(m + i) - 1]
<1>1. \A i \in m .. n : i \in 1 .. Len(s)
  BY LenProperties
<1>2. \A i \in m .. n : s[i] \in Byte
  BY <1>1, ElementOfSeq
<1> QED
  BY <1>2, SubSeqProperties

LEMMA WellFormedQuery ==
  ASSUME NEW r \in Seq(Byte), WellFormed(r)
  PROVE  \E len \in Nat : \E P : Query(r, len, P)
<1>1. PICK len \in Nat : len = Len(r) /\ len > 17
  BY LenProperties DEF WellFormed, Header
<1>2. /\ r[3] < 128 /\ (r[4] \div 8) % 16 = 0
      /\ SubSeq(r, 5, 12) = <<0, 1, 0, 0, 0, 0, 0, 0>>
      /\ AQuestion(r, 13, len + 1)
  BY <1>1 DEF WellFormed, IsQuery, Header
<1>3. (len + 1) - 5 = len - 4
  BY <1>1
<1>4. /\ (len - 4) - 13 <= NAME_MAX
      /\ r[len - 4] = 0 /\ r[(len - 4) + 1] = 0 /\ r[(len - 4) + 2] = 1
      /\ Labels(r, 13, len - 4)
  BY <1>2, <1>3 DEF AQuestion, TypeA
<1>5. /\ len - 17 <= NAME_MAX /\ r[len - 3] = 0 /\ r[len - 2] = 1
  <2>1. /\ (len - 4) - 13 = len - 17
        /\ (len - 4) + 1 = len - 3 /\ (len - 4) + 2 = len - 2
    BY <1>1
  <2> QED
    BY <1>4, <2>1
<1>b. 13 # len - 4
  <2>1. \A n \in Nat : n > 17 => n - 4 # 13
    OBVIOUS
  <2> QED
    BY <1>1, <2>1
<1>c. (len - 4) - 1 = len - 5
  BY <1>1
<1>6. PICK P \in SUBSET (13 .. (len - 4) - 1) :
        /\ 13 \in P \cup {len - 4}
        /\ \A p \in P : r[p] \in 1 .. 63 /\ p + r[p] + 1 \in P \cup {len - 4}
  BY <1>4 DEF Labels
<1>7. P \in SUBSET (13 .. len - 5) /\ 13 \in P
  BY <1>6, <1>b, <1>c
<1>8. r[5] = 0 /\ r[6] = 1 /\ r[7] = 0 /\ r[8] = 0
  <2> DEFINE mid == SubSeq(r, 5, 12)
  <2>1. \A i \in 1 .. (12 - 5) + 1 : mid[i] = r[(5 + i) - 1]
    BY <1>1, Piece
  <2>2. /\ mid[1] = r[5] /\ mid[2] = r[6] /\ mid[3] = r[7] /\ mid[4] = r[8]
    BY <2>1
  <2>3. mid = <<0, 1, 0, 0, 0, 0, 0, 0>>
    BY <1>2
  <2> HIDE DEF mid
  <2>4. mid[1] = 0 /\ mid[2] = 1 /\ mid[3] = 0 /\ mid[4] = 0
    BY <2>3
  <2> QED
    BY <2>2, <2>4
<1>9. Query(r, len, P)
  BY <1>1, <1>2, <1>4, <1>5, <1>6, <1>7, <1>8 DEF Query
<1> QED
  BY <1>9

\* The reply to a query is prepared from its bytes.
LEMMA QueryPrepared ==
  ASSUME NEW r, NEW len \in Nat, NEW P, Query(r, len, P)
  PROVE  /\ Prepared(r) \in Buffer /\ len + Slot <= DNS_MAX_LEN
         /\ QdCount(r) = 1 /\ ~ Masked(Copy(r))
         /\ \A o \in 0 .. len - 1 :
              o \notin {2, 6, 7} => At(Prepared(r), o) = r[o + 1]
         /\ At(Prepared(r), 2) = r[3] + 128
         /\ At(Prepared(r), 6) = r[7] /\ At(Prepared(r), 7) = 1
<1>1. /\ r \in Seq(Byte) /\ len \in Nat /\ len = Len(r) /\ len > 17
      /\ len - 17 <= NAME_MAX
  BY DEF Query
<1>2. len + Slot <= DNS_MAX_LEN /\ DNS_MAX_LEN \in Nat
  BY <1>1, SizesAssumption DEF Header, Slot
<1>3. \A o \in 0 .. len - 1 : o \in Offset /\ o < Len(r)
  BY <1>1, <1>2 DEF Offset, Slot
<1>4. \A o \in 0 .. len - 1 : Copy(r)[o] = r[o + 1]
  BY <1>3 DEF Copy
<1>5. \A o \in 0 .. len - 1 : At(Copy(r), o) = r[o + 1]
  BY <1>3, <1>4 DEF At
<1>6. {2, 3, 4, 5, 6, 7} \subseteq 0 .. len - 1
  BY <1>1
<1>7. QdCount(r) = 1
  <2>1. At(Copy(r), 4) = r[5] /\ At(Copy(r), 4 + 1) = r[6]
    BY <1>5, <1>6
  <2>2. At(Copy(r), 4) = 0 /\ At(Copy(r), 4 + 1) = 1
    BY <2>1 DEF Query
  <2> QED
    BY <2>2 DEF QdCount, Word
<1>8. ~ Masked(Copy(r))
  <2>1. Copy(r)[3] = r[4]
    BY <1>4, <1>6
  <2> QED
    BY <2>1 DEF Masked, Query
<1>9. \A o \in 0 .. len - 1 : At(Prepared(r), o) = Prepared(r)[o]
  BY <1>3 DEF At
<1>10. \A o \in 0 .. len - 1 :
         o \notin {2, 6, 7} => At(Prepared(r), o) = r[o + 1]
  <2> TAKE o \in 0 .. len - 1
  <2>1. o \notin {2, 6, 7} => Prepared(r)[o] = Copy(r)[o]
    BY <1>1, <1>3, CopyTyping
  <2> QED
    BY <1>4, <1>9, <2>1
<1>11. At(Prepared(r), 2) = r[3] + 128
  <2>1. Copy(r)[2] = r[3]
    BY <1>4, <1>6
  <2>2. r[3] \in Int /\ 0 <= r[3] /\ r[3] < 128
    <3>1. 3 \in 1 .. Len(r)
      BY <1>1
    <3>2. r[3] \in Byte
      BY <1>1, <3>1, ElementOfSeq
    <3> QED
      BY <3>2, ByteRange DEF Query
  <2>3. (r[3] % 128) + 128 = r[3] + 128
    BY <2>2
  <2> QED
    BY <1>1, <1>6, <1>9, <2>1, <2>3, CopyTyping
<1>12. At(Prepared(r), 6) = r[7] /\ At(Prepared(r), 7) = 1
  <2>1. Copy(r)[4] = r[5] /\ Copy(r)[5] = r[6]
    BY <1>4, <1>6
  <2>2. Copy(r)[4] = 0 /\ Copy(r)[5] = 1 /\ r[7] = 0
    BY <2>1 DEF Query
  <2> QED
    BY <1>1, <1>6, <1>9, <2>2, CopyTyping
<1> QED
  BY <1>1, <1>2, <1>7, <1>8, <1>10, <1>11, <1>12, CopyTyping

(***************************************************************************)
(* parse_dns_name() walks every label to the zero behind the last one, by  *)
(* induction on the distance to that zero.                                 *)
(***************************************************************************)
LEMMA QueryNameEnd ==
  ASSUME NEW r, NEW len \in Nat, NEW P, Query(r, len, P)
  PROVE  NameEnd(Prepared(r)) = len - 4
<1> DEFINE b == Prepared(r)
<1>1. /\ b \in Buffer
      /\ \A o \in 0 .. len - 1 : o \notin {2, 6, 7} => At(b, o) = r[o + 1]
  BY QueryPrepared
<1> HIDE DEF b
<1>2. /\ len \in Nat /\ len > 17 /\ len - 17 <= NAME_MAX /\ NAME_MAX \in Nat
      /\ P \in SUBSET (13 .. len - 5) /\ 13 \in P /\ r[len - 4] = 0
  BY SizesAssumption DEF Query
<1>3. \A i \in 13 .. len : At(b, i - 1) = r[i]
  <2> TAKE i \in 13 .. len
  <2>1. i - 1 \in 0 .. len - 1 /\ i - 1 \notin {2, 6, 7} /\ (i - 1) + 1 = i
    BY <1>2
  <2> QED
    BY <1>1, <2>1
<1> DEFINE Z == len - 4
           S == {k \in Nat : \A p \in P : p + k >= Z => Walk(b)[p - 1] = Z}
<1>4. 0 \in S
  <2>1. \A p \in P : ~ (p + 0 >= Z)
    BY <1>2
  <2> QED
    BY <2>1
<1>5. ASSUME NEW k \in Nat, k \in S PROVE k + 1 \in S
  <2> SUFFICES ASSUME NEW p \in P, p + (k + 1) >= Z PROVE Walk(b)[p - 1] = Z
    OBVIOUS
  <2>1. PICK c \in 1 .. 63 : c = r[p] /\ (p + c + 1 \in P \/ p + c + 1 = Z)
    BY DEF Query
  <2>2. PICK q \in Nat : q = p + c + 1
    BY <1>2, <2>1
  <2>3. /\ p \in 13 .. len - 5 /\ p - 1 \in Nat /\ p \in Nat
        /\ q \in 13 .. Z
        /\ (p - 1) + c + 1 = q - 1 /\ q - 1 \in Nat
    BY <1>2, <2>1, <2>2
  <2>4. At(b, p - 1) = c
    BY <1>2, <1>3, <2>1, <2>3
  <2>5. ~ TooLong((q - 1) - Header)
    BY <1>2, <2>3 DEF TooLong, Header
  <2>6. Walk(b)[p - 1] = IF At(b, q - 1) = 0 THEN (q - 1) + 1
                         ELSE Walk(b)[q - 1]
    <3>1. Walk(b)[p - 1] = WalkStep(b, Walk(b), p - 1)
      BY <1>1, <2>3, WalkDef
    <3> QED
      BY <2>3, <2>4, <2>5, <3>1 DEF WalkStep, AfterName
  <2>7. At(b, q - 1) = r[q]
    BY <1>2, <1>3, <2>3
  <2>8. CASE q = Z
    BY <1>2, <2>6, <2>7, <2>8
  <2>9. CASE q \in P
    <3>1. r[q] # 0
      <4>1. r[q] \in 1 .. 63
        BY <2>9 DEF Query
      <4> QED
        BY <4>1
    <3>2. q + k >= Z
      BY <1>2, <2>1, <2>2, <2>3
    <3>3. Walk(b)[q - 1] = Z
      BY <1>5, <2>9, <3>2
    <3> QED
      BY <2>6, <2>7, <3>1, <3>3
  <2> QED
    BY <2>1, <2>2, <2>8, <2>9
<1>6. Z \in S
  <2>1. Z \in Nat
    BY <1>2
  <2> HIDE DEF S, Z
  <2> QED
    BY <1>4, <1>5, <2>1, SetInduction
<1>7. Walk(b)[13 - 1] = Z
  BY <1>2, <1>6
<1> QED
  BY <1>7 DEF NameEnd, Header, b

\* htons() of a word gives its bytes back.
LEMMA WordBytes ==
  ASSUME NEW hi \in Byte, NEW lo \in Byte
  PROVE  /\ 256 * hi + lo \in Nat /\ 256 * hi + lo < 65536
         /\ High(256 * hi + lo) = hi /\ Low(256 * hi + lo) = lo
<1>1. /\ hi \in Int /\ 0 <= hi /\ hi <= 255
      /\ lo \in Int /\ 0 <= lo /\ lo <= 255
  BY ByteRange
<1>2. (256 * hi + lo) \div 256 = hi
  BY <1>1
<1>3. (256 * hi + lo) % 256 = lo
  BY <1>1
<1>4. 256 * hi + lo \in Nat /\ 256 * hi + lo < 65536
  BY <1>1
<1> QED
  BY <1>2, <1>3, <1>4 DEF High, Low

\* The class of a query.
Class(r, len) == 256 * r[len - 1] + r[len]

\* The answer is written behind the request.
LEMMA QueryReply ==
  ASSUME NEW r, NEW len \in Nat, NEW P, Query(r, len, P), Ip # IPADDR_ANY
  PROVE  LET put == Put(Prepared(r), len, Answer(1, Class(r, len))) IN
         /\ put \in Buffer
         /\ Reply(r) = [i \in 1 .. len + Slot |-> At(put, i - 1)]
<1> DEFINE b   == Prepared(r)
           put == Put(b, len, Answer(1, Class(r, len)))
<1>1. /\ b \in Buffer /\ QdCount(r) = 1 /\ ~ Masked(Copy(r))
      /\ len + Slot <= DNS_MAX_LEN
      /\ \A o \in 0 .. len - 1 : o \notin {2, 6, 7} => At(b, o) = r[o + 1]
  BY QueryPrepared
<1>2. /\ r \in Seq(Byte) /\ len \in Nat /\ len = Len(r) /\ len > 17
      /\ r[len - 3] = 0 /\ r[len - 2] = 1
  BY DEF Query
<1>3. NameEnd(b) = len - 4
  BY QueryNameEnd
<1>c. Class(r, len) \in Nat /\ Class(r, len) < 65536
  <2>1. len - 1 \in 1 .. Len(r) /\ len \in 1 .. Len(r)
    BY <1>2
  <2>2. r[len - 1] \in Byte /\ r[len] \in Byte
    BY <1>2, <2>1, ElementOfSeq
  <2> QED
    BY <2>2, WordBytes DEF Class
<1> HIDE DEF b
<1>4. Word(b, len - 4) = 1 /\ Word(b, (len - 4) + 2) = Class(r, len)
  <2>a. \A o \in 0 .. len - 1 : o > 7 => At(b, o) = r[o + 1]
    BY <1>1, <1>2
  <2>2. /\ len - 4 \in 0 .. len - 1 /\ len - 3 \in 0 .. len - 1
        /\ len - 2 \in 0 .. len - 1 /\ len - 1 \in 0 .. len - 1
        /\ len - 4 > 7 /\ len - 3 > 7 /\ len - 2 > 7 /\ len - 1 > 7
    BY <1>2
  <2>b. /\ (len - 4) + 1 = len - 3 /\ (len - 3) + 1 = len - 2
        /\ (len - 2) + 1 = len - 1 /\ (len - 1) + 1 = len
        /\ (len - 4) + 2 = len - 2
    BY <1>2
  <2>3. /\ At(b, len - 4) = r[len - 3] /\ At(b, len - 3) = r[len - 2]
        /\ At(b, len - 2) = r[len - 1] /\ At(b, len - 1) = r[len]
    BY <2>a, <2>2, <2>b
  <2>4. /\ At(b, len - 4) = 0 /\ At(b, len - 3) = 1
    BY <1>2, <2>3
  <2>5. Word(b, len - 4) = 1
    BY <2>b, <2>4 DEF Word
  <2>6. Word(b, len - 2) = Class(r, len)
    BY <2>b, <2>3 DEF Word, Class
  <2> QED
    BY <2>b, <2>5, <2>6
<1> HIDE DEF put
<1>5. Passes(r)[1] = put
  <2>1. Passes(r)[0] = b
    BY <1>1, <1>2, PassesDef DEF PassStep, b
  <2>2. Passes(r)[1] = Pass(b, len)
    BY <1>1, <1>2, <2>1, PassesDef DEF PassStep
  <2>3. NameEnd(b) # Null
    BY <1>2, <1>3 DEF Null
  <2>4. b # Failed
    BY <1>1, BufferNotFailed
  <2>5. Pass(b, len) = Put(b, len, Answer(1, Class(r, len)))
    BY <1>3, <1>4, <2>3, <2>4 DEF Pass, TypeA, AnswerAt
  <2> QED
    BY <2>2, <2>5 DEF put
<1>6. put \in Buffer
  <2>1. Len(Answer(1, Class(r, len))) = Slot
        /\ \A i \in 1 .. Slot : Answer(1, Class(r, len))[i] \in Byte
    BY <1>c, AnswerTyping
  <2> QED
    BY <1>1, <1>2, <2>1, PutTyping DEF put
<1>7. ReplyLen(r) = len + Slot
  BY <1>1, <1>2 DEF ReplyLen, Slot
<1>8. put # Failed
  BY <1>6, BufferNotFailed
<1>9. Reply(r) = [i \in 1 .. len + Slot |-> At(put, i - 1)]
  BY <1>1, <1>5, <1>7, <1>8 DEF Reply, Fits
<1> QED
  BY <1>6, <1>9 DEF put, b

\* Two strings of bytes after each other, byte by byte.
LEMMA Joined ==
  ASSUME NEW x \in Seq(Byte), NEW y \in Seq(Byte)
  PROVE  /\ x \o y \in Seq(Byte) /\ Len(x \o y) = Len(x) + Len(y)
         /\ \A i \in 1 .. Len(x) : (x \o y)[i] = x[i]
         /\ \A i \in 1 .. Len(y) : (x \o y)[Len(x) + i] = y[i]
<1>1. /\ x \o y \in Seq(Byte) /\ Len(x \o y) = Len(x) + Len(y)
      /\ \A i \in 1 .. Len(x) + Len(y) :
           (x \o y)[i] = IF i <= Len(x) THEN x[i] ELSE y[i - Len(x)]
  BY ConcatProperties
<1>2. PICK l \in Nat : l = Len(x)
  BY LenProperties
<1>3. PICK m \in Nat : m = Len(y)
  BY LenProperties
<1>4. \A i \in 1 .. l : (x \o y)[i] = x[i]
  <2> TAKE i \in 1 .. l
  <2>1. i \in 1 .. l + m /\ i <= l
    OBVIOUS
  <2> QED
    BY <1>1, <1>2, <1>3, <2>1
<1>5. \A i \in 1 .. m : (x \o y)[l + i] = y[i]
  <2> TAKE i \in 1 .. m
  <2>1. l + i \in 1 .. l + m /\ ~ (l + i <= l) /\ (l + i) - l = i
    OBVIOUS
  <2> QED
    BY <1>1, <1>2, <1>3, <2>1
<1> QED
  BY <1>1, <1>2, <1>3, <1>4, <1>5

\* The answer of QueryReply before the address.
Fixed(hi, lo) == <<192, 12, 0, 1, hi, lo, 0, 0, 1, 44, 0, 4>>

LEMMA FixedTyping ==
  ASSUME NEW hi \in Byte, NEW lo \in Byte
  PROVE  Fixed(hi, lo) \in Seq(Byte) /\ Len(Fixed(hi, lo)) = 12
<1>1. {192, 12, 0, 1, 44, 4} \subseteq Byte
  BY ByteRange
<1> QED
  BY <1>1 DEF Fixed

LEMMA QueryAnswer ==
  ASSUME NEW hi \in Byte, NEW lo \in Byte
  PROVE  LET answer == Answer(1, 256 * hi + lo) IN
         /\ \A i \in 1 .. 12 : answer[i] = Fixed(hi, lo)[i]
         /\ \A i \in 1 .. 4 : answer[12 + i] = Ip[i]
<1>1. High(1) = 0 /\ Low(1) = 1
  BY DEF High, Low
<1>2. Answer(1, 256 * hi + lo) = <<192, 12, 0, 1, hi, lo, 0, 0, 1, 44, 0, 4,
                                   Ip[1], Ip[2], Ip[3], Ip[4]>>
  <2>1. High(256 * hi + lo) = hi /\ Low(256 * hi + lo) = lo
    BY WordBytes
  <2> QED
    BY <1>1, <2>1 DEF Answer, Header
<1> QED
  BY <1>2 DEF Fixed

(***************************************************************************)
(* A query gets its own bytes back, but for the response flag and an_count,*)
(* and the answer behind them.                                             *)
(***************************************************************************)
LEMMA QueryAnswered ==
  ASSUME NEW r, NEW len \in Nat, NEW P, Query(r, len, P), Ip # IPADDR_ANY
  PROVE  Reply(r) = [r EXCEPT ![3] = @ + 128, ![8] = 1]
                    \o Fixed(r[len - 1], r[len]) \o Ip
<1> DEFINE answer == Answer(1, Class(r, len))
           put    == Put(Prepared(r), len, answer)
           q      == [r EXCEPT ![3] = @ + 128, ![8] = 1]
           fixed  == Fixed(r[len - 1], r[len])
           t      == q \o fixed \o Ip
<1>1. len \in Nat /\ len = Len(r) /\ len > 17
  BY DEF Query
<1>2. r \in Seq(Byte) /\ r[7] = 0 /\ r[3] < 128
  BY DEF Query
<1>a. /\ Len(answer) = Slot
      /\ \A i \in 1 .. 12 : answer[i] = fixed[i]
      /\ \A i \in 1 .. 4 : answer[12 + i] = Ip[i]
      /\ fixed \in Seq(Byte) /\ Len(fixed) = 12
  <2>1. len - 1 \in 1 .. Len(r) /\ len \in 1 .. Len(r)
    BY <1>1
  <2>2. r[len - 1] \in Byte /\ r[len] \in Byte
    BY <1>2, <2>1, ElementOfSeq
  <2>3. Class(r, len) \in Nat /\ Class(r, len) < 65536
    BY <2>2, WordBytes DEF Class
  <2>4. Len(answer) = Slot
    BY <2>3, AnswerTyping
  <2>5. /\ \A i \in 1 .. 12 : answer[i] = fixed[i]
        /\ \A i \in 1 .. 4 : answer[12 + i] = Ip[i]
    BY <2>2, QueryAnswer DEF Class
  <2>6. fixed \in Seq(Byte) /\ Len(fixed) = 12
    BY <2>2, FixedTyping
  <2> HIDE DEF answer, fixed
  <2> QED
    BY <2>4, <2>5, <2>6
<1>3. /\ Prepared(r) \in Buffer /\ len + Slot <= DNS_MAX_LEN
      /\ \A o \in 0 .. len - 1 :
           o \notin {2, 6, 7} => At(Prepared(r), o) = r[o + 1]
      /\ At(Prepared(r), 2) = r[3] + 128
      /\ At(Prepared(r), 6) = r[7] /\ At(Prepared(r), 7) = 1
  BY QueryPrepared
<1>4. /\ put \in Buffer
      /\ Reply(r) = [i \in 1 .. len + Slot |-> At(put, i - 1)]
  BY QueryReply
<1>5. \A o \in Offset :
        put[o] = IF o - len \in 0 .. Slot - 1 THEN answer[o - len + 1]
                 ELSE Prepared(r)[o]
  <2> HIDE DEF answer
  <2> QED
    BY <1>1, <1>a DEF Put
<1> HIDE DEF put, answer, fixed
<1>6. \A i \in 1 .. len + Slot : i - 1 \in Offset /\ Reply(r)[i] = put[i - 1]
  <2> TAKE i \in 1 .. len + Slot
  <2>1. i - 1 \in Offset
    BY <1>3, SizesAssumption DEF Offset, Slot
  <2> QED
    BY <1>4, <2>1 DEF At
<1>7. \A i \in 1 .. len : Reply(r)[i] = At(Prepared(r), i - 1)
  <2> TAKE i \in 1 .. len
  <2>1. i \in 1 .. len + Slot /\ (i - 1) - len \notin 0 .. Slot - 1
    BY DEF Slot
  <2> QED
    BY <1>5, <1>6, <2>1 DEF At
<1>8. \A i \in 1 .. Slot : Reply(r)[len + i] = answer[i]
  <2> TAKE i \in 1 .. Slot
  <2>1. /\ len + i \in 1 .. len + Slot /\ ((len + i) - 1) - len \in 0 .. Slot - 1
        /\ ((len + i) - 1) - len + 1 = i
    BY DEF Slot
  <2>2. (len + i) - 1 \in Offset /\ Reply(r)[len + i] = put[(len + i) - 1]
    BY <1>6, <2>1
  <2> QED
    BY <1>5, <2>1, <2>2
<1>9. Reply(r) \in Seq(Byte) /\ Len(Reply(r)) = len + Slot
  <2>1. len + Slot \in Nat /\ \A i \in 1 .. len + Slot : At(put, i - 1) \in Byte
    BY <1>4, ReadTyping DEF Slot
  <2> QED
    BY <1>4, <2>1
<1>10. /\ q \in Seq(Byte) /\ Len(q) = len
       /\ \A i \in 1 .. len : i \notin {3, 8} => q[i] = r[i]
       /\ q[3] = r[3] + 128 /\ q[8] = 1
  <2>1. 3 \in 1 .. len /\ 8 \in 1 .. len
    BY <1>1
  <2>2. r[3] + 128 \in Byte /\ 1 \in Byte
    <3>1. r[3] \in Byte
      BY <1>1, <1>2, <2>1, ElementOfSeq
    <3>2. r[3] \in Int /\ 0 <= r[3]
      BY <3>1, ByteRange
    <3>3. r[3] + 128 \in Int /\ 0 <= r[3] + 128 /\ r[3] + 128 <= 255
      BY <1>2, <3>2
    <3> QED
      BY <3>3, ByteRange
  <2>3. r = [i \in 1 .. len |-> r[i]] /\ \A i \in 1 .. len : r[i] \in Byte
    BY <1>1, <1>2, LenProperties, ElementOfSeq
  <2>4. q = [i \in 1 .. len |-> IF i = 8 THEN 1 ELSE
                                IF i = 3 THEN r[3] + 128 ELSE r[i]]
    BY <2>1, <2>3
  <2>5. \A i \in 1 .. len : q[i] \in Byte
    BY <2>2, <2>3, <2>4
  <2>6. q = [i \in 1 .. len |-> q[i]]
    BY <2>4
  <2>7. q \in Seq(Byte) /\ Len(q) = len
    <3> HIDE DEF q
    <3> QED
      BY <2>5, <2>6
  <2>8. /\ \A i \in 1 .. len : i \notin {3, 8} => q[i] = r[i]
        /\ q[3] = r[3] + 128 /\ q[8] = 1
    <3> HIDE DEF q
    <3> QED
      BY <2>1, <2>4
  <2> QED
    BY <2>7, <2>8
<1> HIDE DEF q
<1>11. \A i \in 1 .. len : Reply(r)[i] = q[i]
  <2> TAKE i \in 1 .. len
  <2>1. Reply(r)[i] = At(Prepared(r), i - 1) /\ i - 1 \in 0 .. len - 1
    BY <1>7
  <2>2. CASE i \notin {3, 7, 8}
    <3>1. i - 1 \notin {2, 6, 7} /\ (i - 1) + 1 = i
      BY <2>2
    <3> QED
      BY <1>3, <1>10, <2>1, <2>2, <3>1
  <2>3. CASE i = 3
    BY <1>3, <1>10, <2>1, <2>3
  <2>4. CASE i = 7
    BY <1>3, <1>10, <2>1, <2>4
  <2>5. CASE i = 8
    BY <1>3, <1>10, <2>1, <2>5
  <2> QED
    BY <2>2, <2>3, <2>4, <2>5
<1>12. /\ t \in Seq(Byte) /\ Len(t) = len + 12 + 4
       /\ \A i \in 1 .. len : t[i] = q[i]
       /\ \A i \in 1 .. 12 : t[len + i] = fixed[i]
       /\ \A i \in 1 .. 4 : t[len + 12 + i] = Ip[i]
  <2> DEFINE v == q \o fixed
  <2>1. /\ v \in Seq(Byte) /\ Len(v) = len + 12
        /\ \A i \in 1 .. len : v[i] = q[i]
        /\ \A i \in 1 .. 12 : v[len + i] = fixed[i]
    <3>1. /\ v \in Seq(Byte) /\ Len(v) = Len(q) + Len(fixed)
          /\ \A i \in 1 .. Len(q) : v[i] = q[i]
          /\ \A i \in 1 .. Len(fixed) : v[Len(q) + i] = fixed[i]
      BY <1>10, <1>a, Joined
    <3> HIDE DEF v
    <3> QED
      BY <1>10, <3>1, <1>a
  <2> HIDE DEF v
  <2>2. /\ v \o Ip \in Seq(Byte) /\ Len(v \o Ip) = (len + 12) + 4
        /\ \A i \in 1 .. len + 12 : (v \o Ip)[i] = v[i]
        /\ \A i \in 1 .. 4 : (v \o Ip)[(len + 12) + i] = Ip[i]
    <3>1. /\ v \o Ip \in Seq(Byte) /\ Len(v \o Ip) = Len(v) + Len(Ip)
          /\ \A i \in 1 .. Len(v) : (v \o Ip)[i] = v[i]
          /\ \A i \in 1 .. Len(Ip) : (v \o Ip)[Len(v) + i] = Ip[i]
      BY <2>1, IpTyping, Joined
    <3> QED
      BY <2>1, <3>1, IpTyping
  <2>3. t = v \o Ip
    BY DEF v
  <2>4. \A i \in 1 .. len : t[i] = q[i]
    <3> TAKE i \in 1 .. len
    <3>1. i \in 1 .. len + 12
      OBVIOUS
    <3> HIDE DEF t
    <3> QED
      BY <2>1, <2>2, <2>3, <3>1
  <2>5. \A i \in 1 .. 12 : t[len + i] = fixed[i]
    <3> TAKE i \in 1 .. 12
    <3>1. len + i \in 1 .. len + 12
      OBVIOUS
    <3> HIDE DEF t
    <3> QED
      BY <2>1, <2>2, <2>3, <3>1
  <2> HIDE DEF t
  <2> QED
    BY <2>2, <2>3, <2>4, <2>5
<1> HIDE DEF t
<1>13. \A i \in 1 .. len + Slot : Reply(r)[i] = t[i]
  <2> TAKE i \in 1 .. len + Slot
  <2>1. CASE i \in 1 .. len
    BY <1>11, <1>12, <2>1
  <2>2. CASE i \in len + 1 .. len + 12
    <3>1. PICK k \in 1 .. 12 : i = len + k /\ k \in 1 .. Slot
      <4>1. i - len \in 1 .. 12 /\ i - len \in 1 .. Slot /\ i = len + (i - len)
        BY <2>2 DEF Slot
      <4> QED
        BY <4>1
    <3>2. Reply(r)[i] = answer[k] /\ t[i] = fixed[k]
      BY <1>8, <1>12, <3>1
    <3> QED
      BY <1>a, <3>2
  <2>3. CASE i \in len + 13 .. len + 16
    <3>1. PICK k \in 1 .. 4 : /\ i = len + (12 + k) /\ i = len + 12 + k
                              /\ 12 + k \in 1 .. Slot
      <4> DEFINE k == (i - len) - 12
      <4>1. k \in 1 .. 4 /\ i = len + (12 + k) /\ i = len + 12 + k
        BY <2>3
      <4> HIDE DEF k
      <4> QED
        BY <4>1 DEF Slot
    <3>2. Reply(r)[i] = answer[12 + k] /\ t[i] = Ip[k]
      BY <1>8, <1>12, <3>1
    <3> QED
      BY <1>a, <3>2
  <2> QED
    BY <2>1, <2>2, <2>3 DEF Slot
<1>14. Len(t) = len + Slot
  BY <1>12 DEF Slot
<1>15. Reply(r) = t
  BY <1>9, <1>12, <1>13, <1>14, SeqEqual
<1> QED
  BY <1>15 DEF t, q, fixed

LEMMA InvAnswers == Inv => AnswersA
<1> SUFFICES ASSUME Inv, pc = "send", WellFormed(rx), Ip # IPADDR_ANY
    PROVE reply = [rx EXCEPT ![3] = @ + 128, ![8] = 1]
                  \o Fixed(rx[Len(rx) - 1], rx[Len(rx)]) \o Ip
  BY DEF AnswersA, Fixed
<1>1. rx \in Seq(Byte) /\ reply = Reply(rx)
  BY RequestTyping DEF Inv, ReplyInv
<1>2. PICK len \in Nat : \E P : Query(rx, len, P)
  BY <1>1, WellFormedQuery
<1>3. len = Len(rx)
  BY <1>2 DEF Query
<1> QED
  BY <1>1, <1>2, <1>3, QueryAnswered

-----------------------------------------------------------------------------

\* The types; a reply never outgrows the buffer it is prepared in.
THEOREM Typing == Spec => []TypeOK
<1>1. Inv => TypeOK
  BY DEF Inv
<1> QED
  BY Invariance, <1>1, PTL

(***************************************************************************)
(* parse_dns_name() never returns a pointer from which type and class lie  *)
(* outside dns_reply, whatever the bytes of the request and of the         *)
(* answers that earlier passes of the loop have put behind it.             *)
(***************************************************************************)
THEOREM QuestionInside == Spec => []ReadsInside
<1>1. Inv => ReadsInside
  <2> SUFFICES ASSUME Inv, NEW n \in 0 .. QdCount(rx) - 1,
                      Passes(rx)[n] # Failed, NameEnd(Passes(rx)[n]) # Null
               PROVE  NameEnd(Passes(rx)[n]) + 3 \in Offset
    BY DEF ReadsInside
  <2>1. rx \in Seq(Byte)
    BY DEF Inv, TypeOK
  <2>2. n \in 0 .. QdCount(rx)
    BY <2>1, CopyTyping
  <2>3. Passes(rx)[n] \in Buffer
    BY <2>1, <2>2, PassesShape DEF Shape
  <2>4. /\ NameEnd(Passes(rx)[n]) \in Nat
        /\ NameEnd(Passes(rx)[n]) <= Beyond + 1
    BY <2>3, NameEndRange
  <2> QED
    BY <2>4, SizesAssumption DEF Offset, Beyond, Header, Slot
<1> QED
  BY Invariance, <1>1, PTL

(***************************************************************************)
(* parse_dns_request() answers every standard query for the address of a   *)
(* name with the access point's address, whatever the number of labels and *)
(* their lengths, the class and the other flags: unless the query has a    *)
(* bit set that is taken for the opcode, or something behind its question. *)
(***************************************************************************)
THEOREM EveryNameAnswered == Spec => []AnswersA
  BY Invariance, InvAnswers, PTL

(***************************************************************************)
(* Whatever is asked, a reply repeats the request, and the only address in *)
(* it is the access point's.                                               *)
(***************************************************************************)
THEOREM RequestRepeated == Spec => []ReplyEchoes
  BY Invariance, InvEchoes, PTL

(***************************************************************************)
(* dns_server_task() never holds two sockets, whatever fails.              *)
(***************************************************************************)
THEOREM NoSocketLeaked == Spec => []OneSocket
<1>1. Inv => OneSocket
  <2> SUFFICES ASSUME Inv
               PROVE  Cardinality({f \in Fd : owner[f] = "dns"}) <= 1
    BY DEF OneSocket
  <2>1. {f \in Fd : owner[f] = "dns"} \in SUBSET {sock}
    BY DEF Inv, SocketInv
  <2>2. IsFiniteSet({sock}) /\ Cardinality({sock}) = 1
    BY FS_Singleton
  <2> QED
    BY <2>1, <2>2, FS_Subset
<1> QED
  BY Invariance, <1>1, PTL

(***************************************************************************)
(* Only the double close after a failed recvfrom() can take a socket from  *)
(* another task.                                                           *)
(***************************************************************************)
THEOREM NoSocketTaken == Spec => []OthersKeepSockets
<1>1. Inv => OthersKeepSockets
  BY DEF Inv, SocketInv, OthersKeepSockets
<1> QED
  BY Invariance, <1>1, PTL
=============================================================================
