---------------------------- MODULE BenchProofs -----------------------------
(***************************************************************************)
(* InOrder of module Bench for any number of clients, requests, failures   *)
(* and any capacity of the connection.  The messages on the way are four   *)
(* sequences: the reply seen last, those on the connection, the one the    *)
(* server holds, and the requests.  The inductive invariant orders each of *)
(* them and each pair of them, and bounds the numbers in them by what their*)
(* client has sent, so that the next request is the greatest.              *)
(***************************************************************************)
EXTENDS Bench, TLAPS

Msg == [c : Clients, n : Nat, what : {"post", "put", "mega", "get", "ok"}]
States == {"create", "first", "loop", "drain", "final", "gone"}

\* m may come before k on the present connection.
Precedes(m, k) == k.c = conn /\ (m.c = conn => m.n < k.n)
Sorted(s) == \A i, j \in 1 .. Len(s) : i < j => Precedes(s[i], s[j])
Before(s, t) == \A i \in 1 .. Len(s), j \in 1 .. Len(t) : Precedes(s[i], t[j])
Sent(s) == \A i \in 1 .. Len(s) : s[i].n <= client[s[i].c].n

TypeInv ==
  /\ client \in [Clients -> [pc : States, n : Nat]]
  /\ server \in [pc : {"recv", "reply"}, msg : Msg \cup {Nothing}]
  /\ server.pc = "reply" => server.msg \in Msg
  /\ conn \in Clients \cup {None}
  /\ up \in Seq(Msg) /\ Len(up) <= Cap
  /\ down \in Seq(Msg) /\ Len(down) <= Cap
  /\ seen \in Msg \cup {Nothing}
  /\ conn = None => up = <<>> /\ down = <<>> /\ seen = Nothing

OrderInv ==
  /\ Sorted(up) /\ Sorted(down)
  /\ Before(down, up)
  /\ Before(Some(seen), up) /\ Before(Some(seen), down)
  /\ Before(Some(server.msg), up) /\ Before(down, Some(server.msg)) /\ Before(Some(seen), Some(server.msg))

SentInv == Sent(up) /\ Sent(down) /\ Sent(Some(seen)) /\ Sent(Some(server.msg))

IInv == TypeInv /\ OrderInv /\ SentInv
-----------------------------------------------------------------------------
\* A message put into a sequence of one, or none: what Pipeline consists of.
LEMMA SomeType ==
  ASSUME NEW m \in Msg \cup {Nothing}
  PROVE  /\ Some(m) \in Seq(Msg)
         /\ m = Nothing => Some(m) = <<>> /\ Len(Some(m)) = 0
         /\ m # Nothing => Some(m) = <<m>> /\ Len(Some(m)) = 1 /\ Some(m)[1] = m
<1>1. CASE m = Nothing
  BY <1>1 DEF Some
<1>2. CASE m # Nothing
  <2>1. m \in Msg
    BY <1>2
  <2> QED
    BY <1>2, <2>1 DEF Some
<1> QED
  BY <1>1, <1>2

\* A message of a client is not Nothing.
LEMMA SomeMsg ==
  ASSUME NEW m \in Msg
  PROVE  m # Nothing /\ Some(m) = <<m>> /\ Len(Some(m)) = 1 /\ Some(m)[1] = m
<1>1. m.c \in Clients /\ Nothing.c = 0 /\ 0 \notin Clients
  BY BenchAssumption DEF Msg, Nothing, None
<1> QED
  BY <1>1, SomeType

\* Concatenating two sorted sequences, one before the other, gives a sorted one.
LEMMA SortedConcat ==
  ASSUME NEW s \in Seq(Msg), NEW t \in Seq(Msg), Sorted(s), Sorted(t), Before(s, t)
  PROVE  s \o t \in Seq(Msg) /\ Sorted(s \o t)
<1>1. s \o t \in Seq(Msg) /\ Len(s \o t) = Len(s) + Len(t)
  OBVIOUS
<1>2. \A i \in 1 .. Len(s) + Len(t) : (s \o t)[i] = IF i <= Len(s) THEN s[i] ELSE t[i - Len(s)]
  OBVIOUS
<1>3. SUFFICES ASSUME NEW i \in 1 .. Len(s) + Len(t), NEW j \in 1 .. Len(s) + Len(t), i < j
               PROVE  Precedes((s \o t)[i], (s \o t)[j])
  BY <1>1 DEF Sorted
<1>4. CASE j <= Len(s)
  BY <1>2, <1>3, <1>4 DEF Sorted
<1>5. CASE i <= Len(s) /\ j > Len(s)
  <2>1. j - Len(s) \in 1 .. Len(t) /\ i \in 1 .. Len(s)
    BY <1>3, <1>5
  <2> QED
    BY <1>2, <1>3, <1>5, <2>1 DEF Before
<1>6. CASE i > Len(s)
  <2>1. j - Len(s) \in 1 .. Len(t) /\ i - Len(s) \in 1 .. Len(t) /\ i - Len(s) < j - Len(s)
    BY <1>3, <1>6
  <2>2. (s \o t)[i] = t[i - Len(s)] /\ (s \o t)[j] = t[j - Len(s)]
    BY <1>2, <1>3, <1>6, <2>1
  <2>3. Precedes(t[i - Len(s)], t[j - Len(s)])
    BY <2>1 DEF Sorted
  <2> QED
    BY <2>2, <2>3
<1> QED
  BY <1>3, <1>4, <1>5, <1>6

\* What comes after both of two sequences comes after their concatenation.
LEMMA BeforeConcat ==
  ASSUME NEW s \in Seq(Msg), NEW t \in Seq(Msg), NEW u \in Seq(Msg), Before(s, u), Before(t, u)
  PROVE  Before(s \o t, u)
<1>1. Len(s \o t) = Len(s) + Len(t)
  OBVIOUS
<1>2. \A i \in 1 .. Len(s) + Len(t) : (s \o t)[i] = IF i <= Len(s) THEN s[i] ELSE t[i - Len(s)]
  OBVIOUS
<1>3. SUFFICES ASSUME NEW i \in 1 .. Len(s) + Len(t), NEW j \in 1 .. Len(u)
               PROVE  Precedes((s \o t)[i], u[j])
  BY <1>1 DEF Before
<1>4. CASE i <= Len(s)
  BY <1>2, <1>3, <1>4 DEF Before
<1>5. CASE i > Len(s)
  <2>1. i - Len(s) \in 1 .. Len(t)
    BY <1>3, <1>5
  <2>2. (s \o t)[i] = t[i - Len(s)]
    BY <1>2, <1>3, <1>5, <2>1
  <2>3. Precedes(t[i - Len(s)], u[j])
    BY <1>3, <2>1 DEF Before
  <2> QED
    BY <2>2, <2>3
<1> QED
  BY <1>3, <1>4, <1>5

\* The invariant orders the whole pipeline.
LEMMA IInvInOrder ==
  ASSUME IInv
  PROVE  InOrder
<1> DEFINE a == Some(seen)
           d == Some(server.msg)
<1>1. /\ a \in Seq(Msg) /\ d \in Seq(Msg) /\ up \in Seq(Msg) /\ down \in Seq(Msg)
      /\ Sorted(a) /\ Sorted(d)
  <2>1. seen \in Msg \cup {Nothing} /\ server.msg \in Msg \cup {Nothing}
    BY DEF IInv, TypeInv
  <2>2. (Len(a) = 0 \/ Len(a) = 1) /\ (Len(d) = 0 \/ Len(d) = 1) /\ a \in Seq(Msg) /\ d \in Seq(Msg)
    BY <2>1, SomeType
  <2>3. Sorted(a) /\ Sorted(d)
    BY <2>2 DEF Sorted
  <2> QED
    BY <2>2, <2>3 DEF IInv, TypeInv
<1> HIDE DEF a, d
<1>2. Sorted(up) /\ Sorted(down) /\ Before(down, up) /\ Before(a, up) /\ Before(a, down) /\ Before(d, up) /\ Before(down, d) /\ Before(a, d)
  BY DEF IInv, OrderInv, a, d
<1>3. a \o down \in Seq(Msg) /\ Sorted(a \o down)
  BY <1>1, <1>2, SortedConcat
<1>4. Before(a \o down, d) /\ Before(a \o down, up)
  BY <1>1, <1>2, BeforeConcat
<1>5. (a \o down) \o d \in Seq(Msg) /\ Sorted((a \o down) \o d)
  BY <1>1, <1>3, <1>4, SortedConcat
<1>6. Before((a \o down) \o d, up)
  BY <1>1, <1>2, <1>3, <1>4, BeforeConcat
<1>7. Pipeline \in Seq(Msg) /\ Sorted(Pipeline)
  <2>1. Pipeline = ((a \o down) \o d) \o up
    BY DEF Pipeline, a, d
  <2> QED
    BY <1>1, <1>2, <1>5, <1>6, <2>1, SortedConcat
<1>8. conn = None => Pipeline = Some(server.msg)
  <2>1. SUFFICES ASSUME conn = None
                 PROVE  Pipeline = d
    BY DEF d
  <2>2. a = <<>> /\ down = <<>> /\ up = <<>>
    BY <2>1 DEF IInv, TypeInv, Some, a
  <2>3. (a \o down) \o d = d /\ d \o up = d
    BY <1>1, <2>2
  <2> QED
    BY <2>2, <2>3 DEF Pipeline, a, d
<1>9. \A i, j \in DOMAIN Pipeline : i < j => Precedes(Pipeline[i], Pipeline[j])
  BY <1>7 DEF Sorted
<1> QED
  BY <1>8, <1>9 DEF InOrder, IInv, TypeInv, Precedes
-----------------------------------------------------------------------------
\* The invariant holds at the start.
LEMMA InitIInv == Init => IInv
<1> SUFFICES ASSUME Init
             PROVE  IInv
  OBVIOUS
<1>1. TypeInv
  BY BenchAssumption DEF Init, TypeInv, Nothing, None, States
<1>2. up = <<>> /\ down = <<>> /\ Some(seen) = <<>> /\ Some(server.msg) = <<>>
  BY DEF Init, Some
<1> QED
  BY <1>1, <1>2 DEF IInv, OrderInv, SentInv, Sorted, Before, Sent

\* A connection without messages, new or lost, keeps the invariant: only the
\* reply in the server's hands is left.
LEMMA EmptyStep ==
  ASSUME IInv, up' = <<>>, down' = <<>>, seen' = Nothing, conn' \in Clients \cup {None}, UNCHANGED <<client, server>>
  PROVE  IInv'
<1>1. TypeInv'
  BY BenchAssumption DEF IInv, TypeInv
<1>2. Len(up') = 0 /\ Len(down') = 0 /\ Some(seen)' = <<>> /\ Len(Some(seen)') = 0
  BY DEF Some
<1>3. OrderInv'
  BY <1>2 DEF OrderInv, Sorted, Before
<1>4. Sent(up)' /\ Sent(down)' /\ Sent(Some(seen))'
  BY <1>2 DEF Sent
<1>5. Sent(Some(server.msg))'
  BY DEF IInv, SentInv, Sent, Some
<1> QED
  BY <1>1, <1>3, <1>4, <1>5 DEF IInv, SentInv

\* The new request has a number above all those of its client on the way.
LEMMA SendStep ==
  ASSUME IInv, NEW c \in Clients, cache_send(c)
  PROVE  IInv'
<1>1. PICK what \in {"post", "put", "mega", "get"} : up' = Append(up, [c |-> c, n |-> client[c].n + 1, what |-> what])
  BY DEF cache_send, Requests
<1> DEFINE m == [c |-> c, n |-> client[c].n + 1, what |-> what]
<1>2. m \in Msg /\ m.c = c /\ m.n = client[c].n + 1
  BY DEF IInv, TypeInv, Msg
<1>3. client' = [client EXCEPT ![c] = [pc |-> After(client[c].pc), n |-> client[c].n + 1]] /\ conn = c /\ Len(up) < Cap
      /\ UNCHANGED <<server, conn, down, seen>>
  BY DEF cache_send
<1>4. After(client[c].pc) \in States
  BY DEF cache_send, After, States
<1>5. client' \in [Clients -> [pc : States, n : Nat]] /\ client'[c].n = client[c].n + 1 /\ \A k \in Clients : k # c => client'[k] = client[k]
  BY <1>3, <1>4 DEF IInv, TypeInv
<1>6. /\ up' \in Seq(Msg) /\ Len(up') = Len(up) + 1 /\ up'[Len(up) + 1] = m
      /\ \A i \in 1 .. Len(up) : up'[i] = up[i]
  BY <1>1, <1>2 DEF IInv, TypeInv
<1>7. TypeInv'
  BY <1>3, <1>5, <1>6, BenchAssumption DEF IInv, TypeInv, None
<1>8. \A s \in Seq(Msg) : Sent(s) => \A i \in 1 .. Len(s) : Precedes(s[i], m) /\ s[i].n <= client'[s[i].c].n
  <2>1. SUFFICES ASSUME NEW s \in Seq(Msg), Sent(s), NEW i \in 1 .. Len(s)
                 PROVE  Precedes(s[i], m) /\ s[i].n <= client'[s[i].c].n
    OBVIOUS
  <2>2. s[i] \in Msg /\ s[i].n <= client[s[i].c].n
    BY <2>1 DEF Sent
  <2>3. s[i].c \in Clients /\ s[i].n \in Nat /\ client[c].n \in Nat /\ client[s[i].c].n \in Nat
    BY <2>2 DEF Msg, IInv, TypeInv
  <2> QED
    BY <1>2, <1>3, <1>5, <2>2, <2>3 DEF Precedes
<1> HIDE DEF m
<1>9. /\ up \in Seq(Msg) /\ Sent(up) /\ down \in Seq(Msg) /\ Sent(down)
      /\ Some(seen) \in Seq(Msg) /\ Sent(Some(seen)) /\ Some(server.msg) \in Seq(Msg) /\ Sent(Some(server.msg))
  BY SomeType DEF IInv, TypeInv, SentInv
<1>10. SentInv'
  <2>1. Sent(down)' /\ Sent(Some(seen))' /\ Sent(Some(server.msg))'
    BY <1>3, <1>8, <1>9 DEF Sent, Some
  <2>2. Sent(up)'
    <3>1. SUFFICES ASSUME NEW i \in 1 .. Len(up) + 1
                   PROVE  up'[i].n <= client'[up'[i].c].n
      BY <1>6 DEF Sent
    <3>2. CASE i = Len(up) + 1
      BY <1>2, <1>5, <1>6, <3>2 DEF IInv, TypeInv
    <3>3. CASE i # Len(up) + 1
      <4>1. i \in 1 .. Len(up)
        BY <1>9, <3>1, <3>3
      <4> QED
        BY <1>6, <1>8, <1>9, <4>1
    <3> QED
      BY <3>2, <3>3
  <2> QED
    BY <2>1, <2>2 DEF SentInv
<1>11. OrderInv'
  <2>1. Sorted(down)' /\ Before(Some(seen), down)' /\ Before(down, Some(server.msg))' /\ Before(Some(seen), Some(server.msg))'
    BY <1>3 DEF IInv, OrderInv, Sorted, Before, Precedes, Some
  <2>2. Sorted(up)'
    <3>1. SUFFICES ASSUME NEW i \in 1 .. Len(up) + 1, NEW j \in 1 .. Len(up) + 1, i < j
                   PROVE  Precedes(up'[i], up'[j])
      BY <1>3, <1>6 DEF Sorted, Precedes
    <3>2. CASE j = Len(up) + 1
      <4>1. i \in 1 .. Len(up)
        BY <1>9, <3>1, <3>2
      <4>2. Precedes(up[i], m)
        BY <1>8, <1>9, <4>1
      <4>3. up'[i] = up[i] /\ up'[j] = m
        BY <1>6, <3>2, <4>1
      <4> QED
        BY <4>2, <4>3
    <3>3. CASE j # Len(up) + 1
      <4>1. i \in 1 .. Len(up) /\ j \in 1 .. Len(up)
        BY <1>9, <3>1, <3>3
      <4>2. Precedes(up[i], up[j])
        BY <3>1, <4>1 DEF IInv, OrderInv, Sorted
      <4> QED
        BY <1>6, <4>1, <4>2
    <3> QED
      BY <3>2, <3>3
  <2>3. \A s \in Seq(Msg) : Sent(s) /\ Before(s, up) => \A i \in 1 .. Len(s), j \in 1 .. Len(up) + 1 : Precedes(s[i], up'[j])
    <3>1. SUFFICES ASSUME NEW s \in Seq(Msg), Sent(s), Before(s, up), NEW i \in 1 .. Len(s), NEW j \in 1 .. Len(up) + 1
                   PROVE  Precedes(s[i], up'[j])
      OBVIOUS
    <3>2. CASE j = Len(up) + 1
      BY <1>6, <1>8, <3>1, <3>2
    <3>3. CASE j # Len(up) + 1
      <4>1. j \in 1 .. Len(up)
        BY <1>9, <3>1, <3>3
      <4> QED
        BY <1>6, <3>1, <4>1 DEF Before
    <3> QED
      BY <3>2, <3>3
  <2>4. Before(down, up)' /\ Before(Some(seen), up)' /\ Before(Some(server.msg), up)'
    <3>1. Some(seen)' = Some(seen) /\ Some(server.msg)' = Some(server.msg) /\ down' = down /\ conn' = conn /\ Len(up') = Len(up) + 1
      BY <1>3, <1>6 DEF Some
    <3>2. Before(down, up) /\ Before(Some(seen), up) /\ Before(Some(server.msg), up)
      BY DEF IInv, OrderInv
    <3>3. \A i \in 1 .. Len(down), j \in 1 .. Len(up) + 1 : Precedes(down[i], up'[j])
      BY <1>9, <2>3, <3>2
    <3>4. \A i \in 1 .. Len(Some(seen)), j \in 1 .. Len(up) + 1 : Precedes(Some(seen)[i], up'[j])
      BY <1>9, <2>3, <3>2
    <3>5. \A i \in 1 .. Len(Some(server.msg)), j \in 1 .. Len(up) + 1 : Precedes(Some(server.msg)[i], up'[j])
      BY <1>9, <2>3, <3>2
    <3> QED
      BY <3>1, <3>3, <3>4, <3>5 DEF Before, Precedes
  <2> QED
    BY <2>1, <2>2, <2>4 DEF OrderInv
<1> QED
  BY <1>7, <1>10, <1>11 DEF IInv

\* The client takes the first reply: it becomes the one seen last.
LEMMA RecvStep ==
  ASSUME IInv, NEW c \in Clients, cache_recv(c)
  PROVE  IInv'
<1> DEFINE h == down[1]
<1>1. /\ down \in Seq(Msg) /\ down # <<>> /\ up \in Seq(Msg) /\ conn = c
      /\ seen' = Head(down) /\ down' = Tail(down) /\ UNCHANGED <<client, server, conn, up>>
  BY DEF IInv, TypeInv, cache_recv
<1>2. Len(down) \in Nat /\ Len(down) > 0 /\ 1 \in 1 .. Len(down)
  BY <1>1
<1>3. h \in Msg /\ seen' = h
  BY <1>1, <1>2
<1>4. /\ down' \in Seq(Msg) /\ Len(down') = Len(down) - 1
      /\ \A i \in 1 .. Len(down') : i + 1 \in 1 .. Len(down) /\ 1 < i + 1 /\ down'[i] = down[i + 1]
  BY <1>1, <1>2
<1> HIDE DEF h
<1>5. Some(seen)' = <<h>> /\ Len(Some(seen)') = 1 /\ Some(seen)'[1] = h /\ Some(server.msg)' = Some(server.msg)
  BY <1>1, <1>3, SomeMsg DEF Some
<1>6. TypeInv'
  <2>1. conn # None /\ Len(down') <= Cap
    BY <1>1, <1>2, <1>4, BenchAssumption DEF IInv, TypeInv, None
  <2> QED
    BY <1>1, <1>3, <1>4, <2>1 DEF IInv, TypeInv
<1>7. SentInv'
  BY <1>1, <1>2, <1>4, <1>5 DEF IInv, SentInv, Sent, h
<1>8. OrderInv'
  <2>1. Sorted(up)' /\ Before(Some(server.msg), up)'
    BY <1>1, <1>5 DEF IInv, OrderInv, Sorted, Before, Precedes
  <2>2. Sorted(down)'
    <3>1. SUFFICES ASSUME NEW i \in 1 .. Len(down'), NEW j \in 1 .. Len(down'), i < j
                   PROVE  Precedes(down'[i], down'[j])
      BY <1>1 DEF Sorted, Precedes
    <3>2. Precedes(down[i + 1], down[j + 1])
      <4>1. i + 1 \in 1 .. Len(down) /\ j + 1 \in 1 .. Len(down) /\ i + 1 < j + 1
        BY <1>4, <3>1
      <4> QED
        BY <4>1 DEF IInv, OrderInv, Sorted
    <3> QED
      BY <1>4, <3>2
  <2>3. Before(down, up)' /\ Before(down, Some(server.msg))'
    <3>1. \A i \in 1 .. Len(down'), j \in 1 .. Len(up) : Precedes(down'[i], up[j])
      BY <1>4 DEF IInv, OrderInv, Before
    <3>2. \A i \in 1 .. Len(down'), j \in 1 .. Len(Some(server.msg)) : Precedes(down'[i], Some(server.msg)[j])
      BY <1>4 DEF IInv, OrderInv, Before
    <3> QED
      BY <1>1, <1>5, <3>1, <3>2 DEF Before, Precedes
  <2>4. Before(Some(seen), down)'
    <3>1. \A i \in 1 .. Len(down') : Precedes(h, down'[i])
      BY <1>2, <1>4 DEF IInv, OrderInv, Sorted, h
    <3> QED
      BY <1>1, <1>5, <3>1 DEF Before, Precedes
  <2>5. Before(Some(seen), up)' /\ Before(Some(seen), Some(server.msg))'
    <3>1. \A j \in 1 .. Len(up) : Precedes(h, up[j])
      BY <1>2 DEF IInv, OrderInv, Before, h
    <3>2. \A j \in 1 .. Len(Some(server.msg)) : Precedes(h, Some(server.msg)[j])
      BY <1>2 DEF IInv, OrderInv, Before, h
    <3> QED
      BY <1>1, <1>5, <3>1, <3>2 DEF Before, Precedes
  <2> QED
    BY <2>1, <2>2, <2>3, <2>4, <2>5 DEF OrderInv
<1> QED
  BY <1>6, <1>7, <1>8 DEF IInv

\* The server takes the first request and holds the reply to it.
LEMMA HandleStep ==
  ASSUME IInv, recv
  PROVE  IInv'
<1> DEFINE h == up[1]
<1>1. /\ down \in Seq(Msg) /\ up # <<>> /\ up \in Seq(Msg) /\ seen \in Msg \cup {Nothing}
      /\ up' = Tail(up) /\ UNCHANGED <<client, down, seen, conn>>
  BY DEF IInv, TypeInv, recv
<1>2. Len(up) \in Nat /\ Len(up) > 0 /\ 1 \in 1 .. Len(up)
  BY <1>1
<1>3. h \in Msg /\ Head(up) = h
  BY <1>1, <1>2
<1>4. PICK what \in {"ok", "mega"} : server' = [pc |-> "reply", msg |-> [Head(up) EXCEPT !.what = what]]
  BY DEF recv
<1> DEFINE k == server'.msg
<1>5. k \in Msg /\ k.c = h.c /\ k.n = h.n /\ server' \in [pc : {"recv", "reply"}, msg : Msg]
  BY <1>3, <1>4 DEF Msg
<1>6. /\ up' \in Seq(Msg) /\ Len(up') = Len(up) - 1
      /\ \A i \in 1 .. Len(up') : i + 1 \in 1 .. Len(up) /\ 1 < i + 1 /\ up'[i] = up[i + 1]
  BY <1>1, <1>2
<1> HIDE DEF h, k
<1>7. Some(server.msg)' = <<k>> /\ Len(Some(server.msg)') = 1 /\ Some(server.msg)'[1] = k /\ Some(seen)' = Some(seen)
  BY <1>1, <1>5, SomeMsg DEF Some, k
<1>8. TypeInv'
  <2>1. conn # None /\ Len(up') <= Cap
    BY <1>1, <1>2, <1>6, BenchAssumption DEF IInv, TypeInv, None
  <2> QED
    BY <1>1, <1>5, <1>6, <2>1 DEF IInv, TypeInv, k
<1>9. SentInv'
  <2>1. Sent(down)' /\ Sent(Some(seen))' /\ Sent(up)'
    BY <1>1, <1>6, <1>7 DEF IInv, SentInv, Sent
  <2>2. k.n <= client[k.c].n
    BY <1>2, <1>5 DEF IInv, SentInv, Sent, h
  <2> QED
    BY <1>1, <1>7, <2>1, <2>2 DEF SentInv, Sent
<1>10. OrderInv'
  <2>1. Sorted(down)' /\ Before(Some(seen), down)'
    BY <1>1, <1>7 DEF IInv, OrderInv, Sorted, Before, Precedes
  <2>2. Sorted(up)'
    <3>1. SUFFICES ASSUME NEW i \in 1 .. Len(up'), NEW j \in 1 .. Len(up'), i < j
                   PROVE  Precedes(up'[i], up'[j])
      BY <1>1 DEF Sorted, Precedes
    <3>2. Precedes(up[i + 1], up[j + 1])
      <4>1. i + 1 \in 1 .. Len(up) /\ j + 1 \in 1 .. Len(up) /\ i + 1 < j + 1
        BY <1>6, <3>1
      <4> QED
        BY <4>1 DEF IInv, OrderInv, Sorted
    <3> QED
      BY <1>6, <3>2
  <2>3. Before(down, up)' /\ Before(Some(seen), up)'
    <3>1. \A i \in 1 .. Len(down), j \in 1 .. Len(up') : Precedes(down[i], up'[j])
      BY <1>6 DEF IInv, OrderInv, Before
    <3>2. \A i \in 1 .. Len(Some(seen)), j \in 1 .. Len(up') : Precedes(Some(seen)[i], up'[j])
      BY <1>6 DEF IInv, OrderInv, Before
    <3> QED
      BY <1>1, <1>7, <3>1, <3>2 DEF Before, Precedes
  <2>4. Before(Some(server.msg), up)'
    <3>1. \A j \in 1 .. Len(up') : Precedes(h, up'[j])
      BY <1>2, <1>6 DEF IInv, OrderInv, Sorted, h
    <3> QED
      BY <1>1, <1>5, <1>7, <3>1 DEF Before, Precedes
  <2>5. Before(down, Some(server.msg))' /\ Before(Some(seen), Some(server.msg))'
    <3>1. \A i \in 1 .. Len(down) : Precedes(down[i], h)
      BY <1>2 DEF IInv, OrderInv, Before, h
    <3>2. \A i \in 1 .. Len(Some(seen)) : Precedes(Some(seen)[i], h)
      BY <1>2 DEF IInv, OrderInv, Before, h
    <3> QED
      BY <1>1, <1>5, <1>7, <3>1, <3>2 DEF Before, Precedes
  <2> QED
    BY <2>1, <2>2, <2>3, <2>4, <2>5 DEF OrderInv
<1> QED
  BY <1>8, <1>9, <1>10 DEF IInv

\* The server's reply goes behind those on the connection, whoever asked for it.
LEMMA ReplyStep ==
  ASSUME IInv, cache_reply
  PROVE  IInv'
<1> DEFINE m == server.msg
<1>1. /\ down \in Seq(Msg) /\ up \in Seq(Msg) /\ conn # None /\ Len(down) < Cap /\ m \in Msg
      /\ down' = Append(down, m) /\ server' = [pc |-> "recv", msg |-> Nothing] /\ UNCHANGED <<client, conn, up, seen>>
  BY DEF IInv, TypeInv, cache_reply
<1>2. /\ down' \in Seq(Msg) /\ Len(down') = Len(down) + 1 /\ Len(down) \in Nat
      /\ down'[Len(down) + 1] = m /\ \A i \in 1 .. Len(down) : down'[i] = down[i]
  BY <1>1
<1>3. \A i \in 1 .. Len(down') : i = Len(down) + 1 \/ i \in 1 .. Len(down)
  BY <1>2
<1>4. /\ Some(server.msg)' = <<>> /\ Len(Some(server.msg)') = 0 /\ Some(seen)' = Some(seen)
      /\ Len(Some(m)) = 1 /\ Some(m)[1] = m /\ 1 \in 1 .. 1
  <2>1. Some(server.msg)' = <<>> /\ Some(seen)' = Some(seen)
    BY <1>1 DEF Some
  <2>2. Len(Some(m)) = 1 /\ Some(m)[1] = m
    BY <1>1, SomeMsg
  <2> QED
    BY <2>1, <2>2
<1>5. TypeInv'
  BY <1>1, <1>2, BenchAssumption DEF IInv, TypeInv
<1>6. SentInv'
  <2>1. m.n <= client[m.c].n
    BY <1>4 DEF IInv, SentInv, Sent
  <2>2. \A i \in 1 .. Len(down') : down'[i].n <= client[down'[i].c].n
    BY <1>2, <1>3, <2>1 DEF IInv, SentInv, Sent
  <2> QED
    BY <1>1, <1>4, <2>2 DEF IInv, SentInv, Sent
<1>7. OrderInv'
  <2>1. /\ \A i \in 1 .. Len(down) : Precedes(down[i], m)
        /\ \A i \in 1 .. Len(Some(seen)) : Precedes(Some(seen)[i], m)
        /\ \A j \in 1 .. Len(up) : Precedes(m, up[j])
    BY <1>4 DEF IInv, OrderInv, Before
  <2>2. Sorted(up)' /\ Before(Some(seen), up)'
    BY <1>1, <1>4 DEF IInv, OrderInv, Sorted, Before, Precedes
  <2>3. Before(Some(server.msg), up)' /\ Before(down, Some(server.msg))' /\ Before(Some(seen), Some(server.msg))'
    BY <1>4 DEF Before
  <2>4. Sorted(down)'
    <3>1. SUFFICES ASSUME NEW i \in 1 .. Len(down'), NEW j \in 1 .. Len(down'), i < j
                   PROVE  Precedes(down'[i], down'[j])
      BY <1>1 DEF Sorted, Precedes
    <3>2. i \in 1 .. Len(down)
      BY <1>2, <3>1
    <3>3. CASE j = Len(down) + 1
      BY <1>2, <2>1, <3>2, <3>3
    <3>4. CASE j \in 1 .. Len(down)
      BY <1>2, <3>1, <3>2, <3>4 DEF IInv, OrderInv, Sorted
    <3> QED
      BY <1>3, <3>3, <3>4
  <2>5. Before(down, up)'
    <3>1. \A i \in 1 .. Len(down'), j \in 1 .. Len(up) : Precedes(down'[i], up[j])
      BY <1>2, <1>3, <2>1 DEF IInv, OrderInv, Before
    <3> QED
      BY <1>1, <3>1 DEF Before, Precedes
  <2>6. Before(Some(seen), down)'
    <3>1. \A i \in 1 .. Len(Some(seen)), j \in 1 .. Len(down') : Precedes(Some(seen)[i], down'[j])
      BY <1>2, <1>3, <2>1 DEF IInv, OrderInv, Before
    <3>2. Some(seen)' = Some(seen) /\ conn' = conn
      BY <1>1, <1>4
    <3> QED
      BY <3>1, <3>2 DEF Before, Precedes
  <2> QED
    BY <2>2, <2>3, <2>4, <2>5, <2>6 DEF OrderInv
<1> QED
  BY <1>5, <1>6, <1>7 DEF IInv

\* A client that goes on, or ends and leaves some of its requests unsent.
LEMMA ClientStep ==
  ASSUME IInv, NEW c \in Clients, EndDrain(c) \/ Exit(c)
  PROVE  IInv'
<1>1. /\ client' \in [Clients -> [pc : States, n : Nat]] /\ \A k \in Clients : client'[k].n = client[k].n
      /\ UNCHANGED <<server, conn, down, seen>>
  <2>1. PICK pc \in States : client' = [client EXCEPT ![c].pc = pc]
    BY DEF EndDrain, Exit, States
  <2>2. client \in [Clients -> [pc : States, n : Nat]]
    BY DEF IInv, TypeInv
  <2>3. [client[c] EXCEPT !.pc = pc] \in [pc : States, n : Nat] /\ [client[c] EXCEPT !.pc = pc].n = client[c].n
    BY <2>2
  <2>4. client' = [client EXCEPT ![c] = [client[c] EXCEPT !.pc = pc]]
    BY <2>1
  <2>5. client' \in [Clients -> [pc : States, n : Nat]] /\ \A k \in Clients : client'[k].n = client[k].n
    BY <2>2, <2>3, <2>4
  <2> QED
    BY <2>5 DEF EndDrain, Exit
<1>2. /\ up \in Seq(Msg) /\ up' \in Seq(Msg) /\ Len(up') <= Len(up) /\ Len(up') \in Nat /\ Len(up) \in Nat
      /\ \A i \in 1 .. Len(up') : i \in 1 .. Len(up) /\ up'[i] = up[i]
  <2>1. up \in Seq(Msg)
    BY DEF IInv, TypeInv
  <2>2. CASE up' = up
    BY <2>1, <2>2
  <2>3. CASE \E k \in 0 .. Len(up) : up' = SubSeq(up, 1, k)
    <3>1. PICK k \in 0 .. Len(up) : up' = SubSeq(up, 1, k)
      BY <2>3
    <3>2. SubSeq(up, 1, k) \in Seq(Msg) /\ Len(SubSeq(up, 1, k)) = k /\ \A i \in 1 .. k : SubSeq(up, 1, k)[i] = up[i]
      BY <2>1, <3>1
    <3> QED
      BY <2>1, <3>1, <3>2
  <2> QED
    BY <2>2, <2>3 DEF EndDrain, Exit
<1>3. TypeInv'
  <2>1. conn = None => up' = <<>>
    BY <1>2 DEF IInv, TypeInv
  <2>2. Len(up') <= Cap
    BY <1>2, BenchAssumption DEF IInv, TypeInv
  <2> QED
    BY <1>1, <1>2, <2>1, <2>2 DEF IInv, TypeInv
<1>4. Some(seen)' = Some(seen) /\ Some(server.msg)' = Some(server.msg)
  BY <1>1 DEF Some
<1>5. SentInv'
  <2>1. \A s \in Seq(Msg) : Sent(s) => \A i \in 1 .. Len(s) : s[i].n <= client'[s[i].c].n
    <3>1. \A s \in Seq(Msg) : \A i \in 1 .. Len(s) : s[i].c \in Clients
      <4>1. \A m \in Msg : m.c \in Clients
        BY DEF Msg
      <4>2. \A s \in Seq(Msg) : \A i \in 1 .. Len(s) : s[i] \in Msg
        OBVIOUS
      <4> QED
        BY <4>1, <4>2
    <3> QED
      BY <1>1, <3>1 DEF Sent
  <2>2. Some(seen) \in Seq(Msg) /\ Some(server.msg) \in Seq(Msg) /\ down \in Seq(Msg)
    BY SomeType DEF IInv, TypeInv
  <2>3. Sent(Some(seen))' /\ Sent(Some(server.msg))' /\ Sent(down)'
    BY <1>1, <1>4, <2>1, <2>2 DEF IInv, SentInv, Sent
  <2>4. Sent(up)'
    BY <1>2, <2>1 DEF IInv, SentInv, Sent
  <2> QED
    BY <2>3, <2>4 DEF SentInv
<1>6. OrderInv'
  <2>1. Sorted(down)' /\ Before(Some(seen), down)' /\ Before(down, Some(server.msg))' /\ Before(Some(seen), Some(server.msg))'
    BY <1>1, <1>4 DEF IInv, OrderInv, Sorted, Before, Precedes
  <2>2. Sorted(up)'
    BY <1>1, <1>2 DEF IInv, OrderInv, Sorted, Precedes
  <2>3. Before(down, up)'
    BY <1>1, <1>2, <1>4 DEF IInv, OrderInv, Before, Precedes
  <2>4. Before(Some(seen), up)'
    BY <1>1, <1>2, <1>4 DEF IInv, OrderInv, Before, Precedes
  <2>5. Before(Some(server.msg), up)'
    BY <1>1, <1>2, <1>4 DEF IInv, OrderInv, Before, Precedes
  <2> QED
    BY <2>1, <2>2, <2>3, <2>4, <2>5 DEF OrderInv
<1> QED
  BY <1>3, <1>5, <1>6 DEF IInv

\* Every step keeps the invariant.
LEMMA Inductive == IInv /\ [Next]_vars => IInv'
<1> SUFFICES ASSUME IInv, [Next]_vars
             PROVE  IInv'
  OBVIOUS
<1>1. CASE Break \/ Refuse
  BY <1>1, EmptyStep DEF Break, Refuse, Lost, None
<1>2. CASE \E c \in Clients : Connect(c)
  <2>1. PICK c \in Clients : Connect(c)
    BY <1>2
  <2>2. up' = <<>> /\ down' = <<>> /\ seen' = Nothing /\ conn' \in Clients \cup {None} /\ UNCHANGED <<client, server>>
    BY <2>1 DEF IInv, TypeInv, Connect
  <2> QED
    BY <2>2, EmptyStep
<1>3. CASE \E c \in Clients : Client(c)
  BY <1>3, SendStep, RecvStep, ClientStep DEF Client
<1>4. CASE Server
  BY <1>4, HandleStep, ReplyStep DEF Server
<1>5. CASE UNCHANGED vars
  <2>1. UNCHANGED <<client, server, conn, up, down, seen>>
    BY <1>5 DEF vars
  <2>2. TypeInv' /\ Some(seen)' = Some(seen) /\ Some(server.msg)' = Some(server.msg)
    BY <2>1 DEF IInv, TypeInv, Some
  <2>3. OrderInv'
    <3>1. Sorted(up)' /\ Sorted(down)'
      BY <2>1 DEF IInv, OrderInv, Sorted, Precedes
    <3>2. Before(down, up)' /\ Before(down, Some(server.msg))'
      BY <2>1, <2>2 DEF IInv, OrderInv, Before, Precedes
    <3>3. Before(Some(seen), up)' /\ Before(Some(seen), down)'
      BY <2>1, <2>2 DEF IInv, OrderInv, Before, Precedes
    <3>4. Before(Some(server.msg), up)' /\ Before(Some(seen), Some(server.msg))'
      BY <2>1, <2>2 DEF IInv, OrderInv, Before, Precedes
    <3> QED
      BY <3>1, <3>2, <3>3, <3>4 DEF OrderInv
  <2>4. SentInv'
    BY <2>1, <2>2 DEF IInv, SentInv, Sent
  <2> QED
    BY <2>2, <2>3, <2>4 DEF IInv
<1> QED
  BY <1>1, <1>2, <1>3, <1>4, <1>5 DEF Next

\* For any number of clients, requests and failures and any capacity, one
\* connection carries the requests and replies of its own client in the order of
\* the requests, and only the first reply can be of another client (server.c's
\* blocking nn_send on a socket that outlives the client).
THEOREM RepliesInOrder == Spec => []InOrder
<1>1. Init => IInv
  BY InitIInv
<1>2. IInv /\ [Next]_vars => IInv'
  BY Inductive
<1>3. IInv => InOrder
  BY IInvInOrder
<1> QED
  BY <1>1, <1>2, <1>3, PTL DEF Spec
=============================================================================
