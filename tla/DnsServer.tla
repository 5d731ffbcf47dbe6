----------------------------- MODULE DnsServer -----------------------------
(***************************************************************************)
(* dns_server_task() of components/dns_server/dns_server.c, from           *)
(* start_dns_server() to stop_dns_server(), and its use of the descriptors *)
(* it shares with the other tasks of the device.                           *)
(***************************************************************************)
EXTENDS DnsReply, FiniteSets

CONSTANTS
  Request, \* what a datagram can hold: 127 bytes at most (rx_buffer)
  Fd       \* socket descriptors

ASSUME RequestAssumption ==
  /\ Request \subseteq Seq(Byte)
  /\ \A r \in Request : Len(r) + Slot <= DNS_MAX_LEN
ASSUME FdAssumption == Fd \subseteq Nat

VARIABLES
  started, \* the member of the handle
  pc,      \* where the task is; "gone" once it has deleted itself
  sock,    \* its descriptor, or -1
  owner,   \* who has opened each descriptor: "free", "dns" or "other"
  rx,      \* rx_buffer
  reply,   \* the bytes to send
  failed,  \* history: a recvfrom() has failed
  robbed   \* history: the task closed a descriptor of another task

vars == <<started, pc, sock, owner, rx, reply, failed, robbed>>

Init ==
  /\ started = TRUE
  /\ pc = "loop" /\ sock = -1
  /\ owner = [f \in Fd |-> "free"]
  /\ rx = <<>> /\ reply = <<>>
  /\ failed = FALSE /\ robbed = FALSE

Free == {f \in Fd : owner[f] = "free"}
Lowest(S) == CHOOSE f \in S : \A g \in S : f <= g

\* The test of the outer loop, with vTaskDelete(NULL) behind it.
OuterTest ==
  /\ pc = "loop"
  /\ pc' = IF started THEN "create" ELSE "gone"
  /\ UNCHANGED <<started, sock, owner, rx, reply, failed, robbed>>

\* socket() and bind(), whose failure is only logged.
Create ==
  /\ pc = "create" /\ Free # {}
  /\ pc' = "bound"
  /\ sock' = Lowest(Free)
  /\ owner' = [owner EXCEPT ![Lowest(Free)] = "dns"]
  /\ UNCHANGED <<started, rx, reply, failed, robbed>>

\* No descriptor, or no memory for a socket: vTaskDelete(NULL).
CreateFails ==
  /\ pc = "create"
  /\ pc' = "gone"
  /\ UNCHANGED <<started, sock, owner, rx, reply, failed, robbed>>

\* The test of the inner loop.
InnerTest ==
  /\ pc = "bound"
  /\ pc' = IF started THEN "recv" ELSE "shut down"
  /\ UNCHANGED <<started, sock, owner, rx, reply, failed, robbed>>

\* A datagram, and the reply parse_dns_request() prepares.
Receive(req) ==
  /\ pc = "recv"
  /\ rx' = req /\ reply' = Reply(req)
  /\ pc' = "send"
  /\ UNCHANGED <<started, sock, owner, failed, robbed>>

\* close(): whoever has opened the descriptor loses it.
Close ==
  /\ owner' = [owner EXCEPT ![sock] = "free"]
  /\ robbed' = (robbed \/ owner[sock] = "other")

\* recvfrom() fails: the descriptor is closed, and the inner loop left.
ReceiveFails ==
  /\ pc = "recv"
  /\ Close
  /\ failed' = TRUE
  /\ pc' = "shut down"
  /\ UNCHANGED <<started, sock, rx, reply>>

\* Nothing to send, or sendto() has sent it.
Sent ==
  /\ pc = "send"
  /\ rx' = <<>> /\ reply' = <<>>
  /\ pc' = "bound"
  /\ UNCHANGED <<started, sock, owner, failed, robbed>>

\* Mutant: the descriptor is closed here too.
SendClosesToo ==
  /\ pc = "send" /\ reply # <<>>
  /\ Close
  /\ rx' = <<>> /\ reply' = <<>>
  /\ pc' = "shut down"
  /\ UNCHANGED <<started, sock, failed>>

\* sendto() fails: the inner loop is left with the descriptor open.
SendFails ==
  /\ pc = "send" /\ reply # <<>>
  /\ rx' = <<>> /\ reply' = <<>>
  /\ pc' = "shut down"
  /\ UNCHANGED <<started, sock, owner, failed, robbed>>

\* Mutant: the descriptor is forgotten, not closed.
ShutDownOnly ==
  /\ pc = "shut down"
  /\ pc' = "loop" /\ sock' = -1
  /\ UNCHANGED <<started, owner, rx, reply, failed, robbed>>

\* shutdown(), close(), and back to the outer loop.
ShutDown ==
  /\ pc = "shut down"
  /\ Close
  /\ pc' = "loop" /\ sock' = -1
  /\ UNCHANGED <<started, rx, reply, failed>>

(***************************************************************************)
(* stop_dns_server(), in a task of the same priority: the server may go on *)
(* between the two steps, see started and delete itself.  Deleted where it *)
(* is, it leaves its socket open.                                          *)
(***************************************************************************)
StopStarted ==
  /\ started
  /\ started' = FALSE
  /\ UNCHANGED <<pc, sock, owner, rx, reply, failed, robbed>>

StopTask ==
  /\ ~ started /\ pc # "stopped"
  /\ pc' = "stopped"
  /\ rx' = <<>> /\ reply' = <<>>
  /\ UNCHANGED <<started, sock, owner, failed, robbed>>

\* Other tasks open and close sockets of their own.
OtherOpen ==
  /\ Free # {}
  /\ owner' = [owner EXCEPT ![Lowest(Free)] = "other"]
  /\ UNCHANGED <<started, pc, sock, rx, reply, failed, robbed>>

OtherClose(f) ==
  /\ owner[f] = "other"
  /\ owner' = [owner EXCEPT ![f] = "free"]
  /\ UNCHANGED <<started, pc, sock, rx, reply, failed, robbed>>

Next ==
  \/ OuterTest \/ Create \/ CreateFails \/ InnerTest
  \/ \E req \in Request : Receive(req)
  \/ ReceiveFails \/ Sent \/ SendFails \/ ShutDown
  \/ StopStarted \/ StopTask
  \/ OtherOpen
  \/ \E f \in Fd : OtherClose(f)

Spec == Init /\ [][Next]_vars

-----------------------------------------------------------------------------
(* Properties.                                                             *)

TypeOK ==
  /\ started \in BOOLEAN
  /\ pc \in {"loop", "create", "bound", "recv", "send", "shut down", "gone",
             "stopped"}
  /\ sock \in Fd \cup {-1}
  /\ owner \in [Fd -> {"free", "dns", "other"}]
  /\ rx \in Seq(Byte)
  /\ reply \in Seq(Byte) /\ Len(reply) <= DNS_MAX_LEN
  /\ {failed, robbed} \subseteq BOOLEAN

(***************************************************************************)
(* parse_dns_name() and the question after the name stay inside the reply  *)
(* buffer for every request, however its labels lie about their lengths,   *)
(* and in every pass of the loop, the later ones over a buffer that has an *)
(* answer in it: the end it returns leaves room for type and class.        *)
(***************************************************************************)
ReadsInside ==
  Fits(ReplyLen(rx)) =>
    \A n \in 0 .. QdCount(rx) - 1 :
      LET b == Passes(rx)[n]
      IN  b = Failed \/ NameEnd(b) = Null \/ NameEnd(b) + 3 \in Offset

(***************************************************************************)
(* What a request asks for, place by place (places count from 1).  Labels: *)
(* there are labels from i on, as many as fit, that end right before j.    *)
(* AQuestion: from i to j - 1 there is a question for the address of a     *)
(* name, of the root too, that fits the buffer; of any class.              *)
(***************************************************************************)
Labels(r, i, j) ==
  \E P \in SUBSET (i .. j - 1) :
    /\ i \in P \cup {j}
    /\ \A p \in P : r[p] \in 1 .. 63 /\ p + r[p] + 1 \in P \cup {j}
AQuestion(r, i, j) ==
  LET zero == j - 5
  IN  /\ zero >= i /\ zero - i <= NAME_MAX
      /\ r[zero] = 0 /\ r[zero + 1] = 0 /\ r[zero + 2] = TypeA
      /\ Labels(r, i, zero)
Opcode(r)   == (r[3] \div 8) % 16
IsQuery(r)  == Len(r) >= Header /\ r[3] < 128

(***************************************************************************)
(* "respond to all A queries (IPv4)" (dns_server.h:61): a standard query   *)
(* for the address of a name gets that question back with one answer, the  *)
(* access point's address.  The name has any labels, at least one; the     *)
(* flags are any but the bits that Masked takes for the opcode; behind the *)
(* one question there is nothing.  What this leaves out of the claim (root *)
(* names, Z, AD and CD, more questions, further records) the code answers  *)
(* wrongly or not at all: OneAnswerEach.                                   *)
(***************************************************************************)
WellFormed(r) ==
  /\ IsQuery(r) /\ Opcode(r) = 0
  /\ (r[4] \div 8) % 16 = 0
  /\ SubSeq(r, 5, Header) = <<0, 1, 0, 0, 0, 0, 0, 0>>
  /\ Len(r) > Header + 5 /\ AQuestion(r, Header + 1, Len(r) + 1)
AnswersA ==
  pc = "send" /\ WellFormed(rx) /\ Ip # IPADDR_ANY =>
    reply = [rx EXCEPT ![3] = @ + 128, ![8] = 1]
            \o <<192, 12, 0, 1, rx[Len(rx) - 1], rx[Len(rx)],
                 0, 0, 1, 44, 0, 4>> \o Ip

(***************************************************************************)
(* A reply repeats its request, so that the client can match it, but for   *)
(* the response flag and an_count, which becomes qd_count; and the only    *)
(* address it ever names is the access point's: behind the request there   *)
(* is a slot for each question, which holds an answer with that address or *)
(* nothing.  (Of requests that have a whole header.)                       *)
(***************************************************************************)
ReplyEchoes ==
  pc = "send" /\ reply # <<>> /\ Len(rx) >= Header =>
    /\ \A i \in 1 .. Len(rx) : i \notin {3, 7, 8} => reply[i] = rx[i]
    /\ reply[7] = rx[5] /\ reply[8] = rx[6]
    /\ \A k \in 1 .. QdCount(rx) :
         LET slot == Len(rx) + Slot * (k - 1)
         IN  \/ \A i \in 1 .. Slot : reply[slot + i] = 0
             \/ \A i \in 1 .. 4 : reply[slot + 12 + i] = Ip[i]

(***************************************************************************)
(* The task opens a socket only after it has closed the one before: no     *)
(* failure of recvfrom() or sendto() leaks a descriptor.                   *)
(***************************************************************************)
OneSocket == Cardinality({f \in Fd : owner[f] = "dns"}) <= 1

(***************************************************************************)
(* The task closes the socket of another task only after a recvfrom() has  *)
(* failed: that path closes its descriptor twice, and another task may     *)
(* have been given it in between.                                          *)
(***************************************************************************)
OthersKeepSockets == ~ failed => ~ robbed

(***************************************************************************)
(* What the component says of itself: "respond to all A queries (IPv4)"    *)
(* (dns_server.h:61) and "Respond to all questions" (dns_server.c:136), of *)
(* which "Not a standard query" (dns_server.c:115) is dropped.  A query of *)
(* n questions for addresses, that end before e (and with them the query,  *)
(* unless ar_count announces more), is answered n times in the answer      *)
(* section, which begins at e, if the answers fit; with another opcode it  *)
(* gets no reply.  The code breaks this in five ways: testing other bits   *)
(* than the opcode, it answers what it should drop and drops what it       *)
(* should answer; it misreads the root name; it answers one question at    *)
(* most; and it puts the answer behind whatever follows the questions.     *)
(***************************************************************************)
Questions(r, n, e) ==
  \E start \in [0 .. n -> Header + 1 .. e] :
    /\ start[0] = Header + 1 /\ start[n] = e
    /\ \A k \in 1 .. n : AQuestion(r, start[k - 1], start[k])
OneAnswerEach ==
  \A e \in Header + 2 .. Len(rx) + 1 :
    /\ pc = "send" /\ IsQuery(rx)
    /\ Questions(rx, QdCount(rx), e) /\ (e = Len(rx) + 1 \/ rx[12] # 0) =>
      IF Opcode(rx) # 0 THEN reply = <<>>
      ELSE Fits(ReplyLen(rx)) =>
             /\ reply # <<>>
             /\ \A k \in 1 .. QdCount(rx), i \in 1 .. 4 :
                  reply[e - 1 + Slot * (k - 1) + 12 + i] = Ip[i]
=============================================================================
