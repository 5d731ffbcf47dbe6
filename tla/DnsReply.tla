------------------------------ MODULE DnsReply ------------------------------
(***************************************************************************)
(* parse_dns_request() of components/dns_server/dns_server.c: what the DNS *)
(* server of the portal sends back for the bytes of a request, with the    *)
(* single rule start_captive_portal() configures ("*": every name has the  *)
(* address of the access point).  Offsets count from 0, as in the code.    *)
(***************************************************************************)
EXTENDS Integers, Sequences

CONSTANTS
  DNS_MAX_LEN, \* size of the reply buffer: 256
  NAME_MAX,    \* size of the name buffer: 128
  Ip           \* the four bytes of the access point's address

Byte   == 0 .. 255
Header == 12         \* sizeof(dns_header_t), where the questions begin
Slot   == 16         \* sizeof(dns_answer_t)
TypeA  == 1          \* QD_TYPE_A
Null   == -1         \* no end of the name

IPADDR_ANY == [i \in 1 .. 4 |-> 0]

ASSUME SizesAssumption ==
  /\ NAME_MAX \in Nat \ {0}
  /\ DNS_MAX_LEN \in Nat /\ DNS_MAX_LEN >= Header + NAME_MAX + 5 + Slot
  /\ Ip \in [1 .. 4 -> Byte]

(***************************************************************************)
(* The reply buffer is a function on its offsets.  At(b, i) reads it; what *)
(* lies behind it is unknown and read as 0 here (see ReadsInside).         *)
(***************************************************************************)
Offset      == 0 .. DNS_MAX_LEN - 1
At(b, i)    == IF i \in Offset THEN b[i] ELSE 0
Word(b, i)  == 256 * At(b, i) + At(b, i + 1)       \* ntohs()
High(w)     == w \div 256                          \* htons()
Low(w)      == w % 256
Put(b, i, s) ==
  [o \in Offset |-> IF o - i \in 0 .. Len(s) - 1 THEN s[o - i + 1] ELSE b[o]]

\* Mutant: the bound on the name is dropped.
TooLongNever(length) == length > 300

\* parse_dns_name() gives up before it copies a label that does not fit.
TooLong(length) == length > NAME_MAX

\* Mutant: the pointer to the zero itself is returned.
AfterNameZero(label) == label

\* parse_dns_name() returns the byte after the zero that ends the name.
AfterName(label) == label + 1

(***************************************************************************)
(* parse_dns_name() on the question at Header.  The length of the name so  *)
(* far is the distance walked, and the zero is looked for after each label:*)
(* the name of no labels, a lone zero, is walked as a label of length 0.   *)
(***************************************************************************)
Walk(b) ==
  LET walk[label \in Nat] ==
        LET next == label + At(b, label) + 1
        IN  IF TooLong(next - Header) THEN Null
            ELSE IF At(b, next) = 0 THEN AfterName(next)
            ELSE walk[next]
  IN  walk
NameEnd(b) == Walk(b)[Header]

\* 0xC000 | Header, type, class, ANS_TTL_SEC, the length of an address, it.
Answer(type, class) ==
  <<192, Header, High(type), Low(type), High(class), Low(class),
    0, 0, 1, 44, 0, 4, Ip[1], Ip[2], Ip[3], Ip[4]>>

\* Mutant: the answer goes right behind the question.
AnswerAtQuestion(b, req_len) == NameEnd(b) + 4

\* cur_ans_ptr, which no pass of the loop advances.
AnswerAt(b, req_len) == req_len

(***************************************************************************)
(* One pass of the loop over the questions, which all read the first one.  *)
(* No rule applies as long as the access point has no address.             *)
(***************************************************************************)
Failed == <<>>
Pass(b, req_len) ==
  IF b = Failed \/ NameEnd(b) = Null THEN Failed
  ELSE LET type  == Word(b, NameEnd(b))
           class == Word(b, NameEnd(b) + 2)
       IN  IF type # TypeA \/ Ip = IPADDR_ANY THEN b
           ELSE Put(b, AnswerAt(b, req_len), Answer(type, class))

(***************************************************************************)
(* The flags are tested in network order, so OPCODE_MASK (0x7800) looks at *)
(* bits 3 to 6 of the second byte: Z, AD, CD and the top of RCODE.         *)
(***************************************************************************)
Masked(b) == (b[3] \div 8) % 16 # 0

\* Mutant: the length of the answers is not tested.
FitsAlways(reply_len) == TRUE

Fits(reply_len) == reply_len <= DNS_MAX_LEN

(***************************************************************************)
(* The reply while it is prepared: the request in a buffer of zeros, then  *)
(* with QR_FLAG, in the first byte of the flags, and with an_count, which  *)
(* is qd_count whatever is answered, then after n passes of the loop.      *)
(***************************************************************************)
Copy(req)     == [o \in Offset |-> IF o < Len(req) THEN req[o + 1] ELSE 0]
QdCount(req)  == Word(Copy(req), 4)
ReplyLen(req) == QdCount(req) * Slot + Len(req)
Prepared(req) ==
  [Copy(req) EXCEPT ![2] = (@ % 128) + 128, ![6] = Copy(req)[4],
                    ![7] = Copy(req)[5]]
Passes(req) ==
  LET pass[n \in 0 .. QdCount(req)] ==
        IF n = 0 THEN Prepared(req) ELSE Pass(pass[n - 1], Len(req))
  IN  pass

\* The bytes that are sent for a request, or none where the code returns 0
\* or -1.
Reply(req) ==
  LET buffer == Passes(req)[QdCount(req)]
  IN  IF Masked(Copy(req)) \/ ~ Fits(ReplyLen(req)) THEN <<>>
      ELSE IF buffer = Failed THEN <<>>
      ELSE [i \in 1 .. ReplyLen(req) |-> At(buffer, i - 1)]
=============================================================================
