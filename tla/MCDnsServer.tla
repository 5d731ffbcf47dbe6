---------------------------- MODULE MCDnsServer ----------------------------
(***************************************************************************)
(* A small instance of DnsServer: buffers cut to the sizes at which names, *)
(* questions and answers of a few bytes already overrun them.              *)
(***************************************************************************)
EXTENDS DnsServer, SequencesExt

MCIp == <<192, 168, 4, 1>>
MCFd == 0 .. 2

\* id, flags (none, RD, opcode 1, AD), number of questions and ar_count.
Flags == {<<0, 0>>, <<1, 0>>, <<8, 0>>, <<0, 32>>}
Headers(F, N, ar) ==
  {<<7, 7, f[1], f[2], 0, n, 0, 0, 0, 0, 0, ar>> : f \in F, n \in N}

\* Every short body over bytes that end a name, go on with it or lie about
\* it; questions of types A and AAAA, with up to three labels and with names
\* that just fit or do not, cut short, with bytes or a question behind them.
AnyBody  == UNION {[1 .. n -> {0, 1, 255}] : n \in 0 .. 5}
Names    == {<<>>, <<1, 9>>, <<2, 0, 1>>, <<1, 9, 1, 0>>, <<1, 9, 1, 9, 1, 9>>,
             <<5, 1, 1, 1, 1, 1>>, <<2, 9, 9, 3, 9, 9, 9>>}
Question == {n \o <<0, 0, t, 0, 1>> : n \in Names, t \in {1, 28}}
Second   == {q \in Question : Len(q) <= 7}
Bodies   == Question \cup {Front(q) : q \in Question}
            \cup {q \o <<1>> : q \in Question}
            \cup {q \o s : q \in Second, s \in Second}

\* An empty OPT record, as resolvers put it behind a question.
Opt == <<0, 0, 41, 4, 208, 0, 0, 0, 0, 0, 0>>

MCRequest ==
  {h \o b : h \in Headers({<<1, 0>>}, 0 .. 2, 0), b \in AnyBody}
  \cup {h \o b : h \in Headers(Flags, 0 .. 3, 0), b \in Bodies}
  \cup {h \o q \o Opt : h \in Headers(Flags, {1}, 1), q \in Second}
  \cup {SubSeq(h, 1, n) :
          h \in Headers({<<1, 0>>}, {1}, 0), n \in 0 .. Header - 1}

\* Those that begin with the name of a host.
MCHostRequest == {r \in MCRequest : Len(r) > Header /\ r[Header + 1] > 0}
=============================================================================
