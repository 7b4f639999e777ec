--------------------------- MODULE SprayerProofs ---------------------------
(***************************************************************************)
(* That an address subscribes once, that what is stored for it is bounded  *)
(* and that no announcement is sent to it twice, for any number of threads,*)
(* callers, addresses and announcements and any size of a chunk and of a   *)
(* queue.                                                                  *)
(***************************************************************************)
EXTENDS Sprayer, SequenceTheorems, FiniteSetTheorems, TLAPS

\* What a thread has agrees with where it is: a chunk to send, an address to
\* subscribe, queues to fill.
ThreadInv ==
    /\ \A w \in Workers :
         /\ pc[w] \in {"send", "return"} => hand[w].addr \in Addrs
         /\ pc[w] \notin {"send", "return"} => hand[w].addr = None
         /\ pc[w] = "subscribe" => from[w] \in Peers
    /\ \A t \in Threads : left[t] /= <<>> => Pushing(t) /\ todo[t] /= <<>>

BaseInv == TypeOK /\ ThreadInv /\ SubscribedOnce

-----------------------------------------------------------------------------
(* What AtMostOnce rests on.                                               *)

In(s, a) == \E i \in DOMAIN s : s[i] = a
NoRepeat(s) == \A i, j \in DOMAIN s : s[i] = s[j] => i = j

\* An announcement is in a chunk of a queue; no announcement is in it twice.
Queued(Q, a) == \E i \in DOMAIN Q : In(Q[i].s, a)
Single(Q) ==
    /\ \A i \in DOMAIN Q : NoRepeat(Q[i].s)
    /\ \A i, j \in DOMAIN Q : \A a \in Anns : In(Q[i].s, a) /\ In(Q[j].s, a) => i = j

\* It is in the hand of a thread that sends to p; it is queued, in a hand or sent.
InHand(w, p, a) == hand[w].addr = p /\ In(hand[w].c.s, a)
Placed(p, a) ==
    \/ \E q \in Queues : q[2] = p /\ Queued(queue[q], a)
    \/ \E w \in Workers : InHand(w, p, a)
    \/ <<p, a>> \in sent

\* The announcements a thread has received or was called with: each is of one
\* thread, and comes in once.
Own(t) == IF t \in Workers THEN rchunk[t].s ELSE batch[t]
OwnInv ==
    /\ \A t \in Threads : NoRepeat(Own(t))
    /\ \A t, u \in Threads : \A a \in Anns : In(Own(t), a) /\ In(Own(u), a) => t = u
    /\ \A t \in Threads : \A a \in Anns : In(Own(t), a) => a \in arrived
    /\ \A p \in Addrs, a \in Anns : Placed(p, a) => a \in arrived
    /\ \A i \in DOMAIN pool : pool[i].s = <<>>

\* The queues a thread has still to fill, and what it has still to put into one.
ToCome(t, q) == In(todo[t], q) \/ (pc[t] = "force" /\ q[1] = "sub")
Due(t, q) == IF left[t] /= <<>> /\ q = Head(todo[t]) THEN left[t] ELSE Own(t)

\* What is still to be put into a queue has no place for its address yet.
PushDue(t) ==
    /\ batch[t] = Own(t)
    /\ NoRepeat(todo[t]) /\ NoRepeat(left[t])
    /\ \A a \in Anns : In(left[t], a) => In(Own(t), a)
    /\ pc[t] = "force" => \A i \in DOMAIN todo[t] : todo[t][i][1] = "force"
    /\ \A q \in Queues, a \in Anns :
         ToCome(t, q) /\ In(Due(t, q), a) => ~Placed(q[2], a)
IdleDue(t) == \A p \in Addrs, a \in Anns : In(Own(t), a) => ~Placed(p, a)
DueInv == \A t \in Threads : IF Pushing(t) THEN PushDue(t) ELSE IdleDue(t)

\* What has a place has one.
SingleInv ==
    /\ \A q \in Queues : Single(queue[q])
    /\ \A w \in Workers : NoRepeat(hand[w].c.s)
    /\ \A p \in Addrs, a \in Anns :
         /\ \A v, w \in Workers : InHand(v, p, a) /\ InHand(w, p, a) => v = w
         /\ \A w \in Workers, q \in Queues :
              q[2] = p /\ Queued(queue[q], a) => ~InHand(w, p, a)
         /\ <<p, a>> \in sent =>
              /\ \A w \in Workers : ~InHand(w, p, a)
              /\ \A q \in Queues : q[2] = p => ~Queued(queue[q], a)

OnceInv == OwnInv /\ DueInv /\ SingleInv

-----------------------------------------------------------------------------
(* The walk over the list of subscribers.                                  *)

\* Induction up to n, over a set of numbers.
LEMMA UpTo ==
    ASSUME NEW n \in Nat, NEW G, 0 \in G, \A k \in 1 .. n : k - 1 \in G => k \in G
    PROVE  0 .. n \subseteq G
<1> DEFINE Bad == {k \in 0 .. n : k \notin G}
           R == OpToRel(<, Nat)
<1> SUFFICES ASSUME Bad # {} PROVE FALSE
  OBVIOUS
<1>1. IsWellFoundedOn(R, Nat)
  BY NatLessThanWellFounded
<1> HIDE DEF R
<1>2. PICK k \in Bad : \A y \in Bad : ~(<<y, k>> \in R)
  <2>1. Bad \subseteq Nat
    OBVIOUS
  <2> HIDE DEF Bad
  <2> QED BY <1>1, <2>1, WFMin
<1>3. \A x, y \in Nat : x < y => <<x, y>> \in R
  BY DEF OpToRel, R
<1>4. k \in 1 .. n /\ k \notin G /\ k - 1 \in Nat /\ k \in Nat /\ k - 1 < k
  OBVIOUS
<1>5. k - 1 \notin Bad
  BY <1>2, <1>3, <1>4
<1> QED BY <1>4, <1>5

\* The subscribers that are not timed out, in their order.
LEMMA LiveDef ==
    ASSUME NEW S, NEW s \in Seq(S)
    PROVE  \E g \in [0 .. Len(s) -> Seq(S)] :
             /\ g[0] = <<>>
             /\ \A i \in 1 .. Len(s) :
                  g[i] = IF s[i] \in fresh THEN Append(g[i - 1], s[i]) ELSE g[i - 1]
             /\ Live(s) = g[Len(s)]
<1> DEFINE n == Len(s)
           Body(g, i) == IF i = 0 THEN <<>>
                         ELSE IF s[i] \in fresh THEN Append(g[i - 1], s[i]) ELSE g[i - 1]
           Step(g, k) == \A i \in 0 .. k : g[i] = Body(g, i)
           G == {k \in 0 .. n : \E g \in [0 .. k -> Seq(S)] : Step(g, k)}
           F(f) == [i \in 0 .. n |-> Body(f, i)]
           walk == CHOOSE f : f = F(f)
<1>1. n \in Nat /\ \A i \in 1 .. n : s[i] \in S
  OBVIOUS
<1>2. \A g, h : \A i \in 0 .. n : (i # 0 => g[i - 1] = h[i - 1]) => Body(g, i) = Body(h, i)
  OBVIOUS
<1>3. ASSUME NEW g, NEW i \in 0 .. n, i # 0 => g[i - 1] \in Seq(S)
      PROVE  Body(g, i) \in Seq(S)
  BY <1>1, <1>3
<1>4. Live(s) = walk[n]
  BY DEF Live
<1>5. \A g : Body(g, 0) = <<>>
  OBVIOUS
<1>6. \A g : \A i \in 1 .. n : Body(g, i) = IF s[i] \in fresh THEN Append(g[i - 1], s[i])
                                          ELSE g[i - 1]
  OBVIOUS
<1> HIDE DEF n, Body, walk
<1>7. 0 \in G
  <2> DEFINE g == [i \in 0 .. 0 |-> <<>>]
  <2>1. g \in [0 .. 0 -> Seq(S)] /\ Step(g, 0)
    BY <1>5
  <2>2. 0 \in 0 .. n
    BY <1>1
  <2> HIDE DEF g, Step
  <2> QED BY <2>1, <2>2
<1>8. ASSUME NEW k \in 1 .. n, k - 1 \in G PROVE k \in G
  <2>1. k \in 0 .. n /\ k - 1 \in 0 .. k - 1 /\ k # 0
    BY <1>1
  <2>2. PICK g \in [0 .. k - 1 -> Seq(S)] : Step(g, k - 1)
    BY <1>8
  <2> DEFINE h == [i \in 0 .. k |-> IF i = k THEN Body(g, k) ELSE g[i]]
  <2>3. h \in [0 .. k -> Seq(S)]
    <3>1. Body(g, k) \in Seq(S)
      BY <1>3, <2>1
    <3> QED BY <2>1, <3>1
  <2>4. /\ h[k] = Body(g, k)
        /\ \A i \in 0 .. k - 1 : h[i] = g[i]
    BY <2>1
  <2> HIDE DEF h
  <2>5. ASSUME NEW i \in 0 .. k PROVE h[i] = Body(h, i)
    <3>1. i # 0 => h[i - 1] = g[i - 1]
      BY <2>1, <2>4
    <3>2. Body(h, i) = Body(g, i)
      BY <1>1, <1>2, <2>1, <3>1
    <3> QED BY <2>2, <2>4, <3>2
  <2> QED BY <2>1, <2>3, <2>5
<1>9. n \in G
  <2>1. 0 .. n \subseteq G
    <3> HIDE DEF G
    <3> QED BY <1>1, <1>7, <1>8, UpTo
  <2>2. n \in 0 .. n
    BY <1>1
  <2> QED BY <2>1, <2>2
<1>10. PICK g \in [0 .. n -> Seq(S)] : Step(g, n)
  BY <1>9
<1>11. walk = F(walk)
  <2>1. g = F(g)
    BY <1>10
  <2> QED BY <2>1 DEF walk
<1>12. \A i \in 0 .. n : walk[i] = Body(walk, i)
  BY <1>11
<1>13. walk = g
  <2> DEFINE E == {i \in 0 .. n : walk[i] = g[i]}
  <2>1. 0 \in E
    BY <1>1, <1>5, <1>10, <1>12
  <2>2. ASSUME NEW k \in 1 .. n, k - 1 \in E PROVE k \in E
    BY <1>1, <1>2, <1>10, <1>12, <2>2
  <2>3. 0 .. n \subseteq E
    <3> HIDE DEF E
    <3> QED BY <1>1, <2>1, <2>2, UpTo
  <2>4. \A i \in 0 .. n : walk[i] = g[i]
    BY <2>3
  <2>5. walk = [i \in 0 .. n |-> walk[i]]
    BY <1>11
  <2> QED BY <2>4, <2>5
<1>14. g[0] = <<>> /\ \A i \in 1 .. n : g[i] = Body(g, i)
  BY <1>1, <1>5, <1>10
<1>15. /\ \A i \in 1 .. n :
           g[i] = IF s[i] \in fresh THEN Append(g[i - 1], s[i]) ELSE g[i - 1]
       /\ Live(s) = g[n]
  BY <1>4, <1>6, <1>13, <1>14
<1> QED BY <1>14, <1>15 DEF n

\* They are subscribers, none comes twice that did not, and none is timed out.
LEMMA LiveKeeps ==
    ASSUME NEW S, NEW s \in Seq(S), NoRepeat(s)
    PROVE  /\ Live(s) \in Seq(S) /\ NoRepeat(Live(s))
           /\ \A i \in DOMAIN Live(s) : In(s, Live(s)[i]) /\ Live(s)[i] \in fresh
<1> DEFINE n == Len(s)
           Good(t, k) ==
               /\ NoRepeat(t)
               /\ \A i \in 1 .. Len(t) : \E j \in 1 .. k : t[i] = s[j] /\ s[j] \in fresh
<1>1. n \in Nat /\ DOMAIN s = 1 .. n /\ \A i \in 1 .. n : s[i] \in S
  OBVIOUS
<1>2. PICK g \in [0 .. n -> Seq(S)] :
        /\ g[0] = <<>>
        /\ \A i \in 1 .. n : g[i] = IF s[i] \in fresh THEN Append(g[i - 1], s[i]) ELSE g[i - 1]
        /\ Live(s) = g[n]
  BY LiveDef
<1> HIDE DEF n
<1> DEFINE G == {k \in 0 .. n : Good(g[k], k)}
<1>3. 0 \in G
  BY <1>1, <1>2 DEF NoRepeat
<1>4. ASSUME NEW k \in 1 .. n, k - 1 \in G PROVE k \in G
  <2>1. k \in 0 .. n /\ k - 1 \in 0 .. n /\ g[k - 1] \in Seq(S)
    BY <1>1
  <2>2. PICK t \in Seq(S) : t = g[k - 1]
    BY <2>1
  <2>3. Good(t, k - 1)
    BY <1>4, <2>2
  <2>4. CASE s[k] \notin fresh
    <3>1. g[k] = t
      BY <1>2, <2>2, <2>4
    <3>2. Good(t, k)
      BY <1>1, <2>1, <2>3
    <3> QED BY <2>1, <3>1, <3>2
  <2>5. CASE s[k] \in fresh
    <3>1. PICK x \in S : x = s[k]
      BY <1>1
    <3>2. g[k] = Append(t, x)
      BY <1>2, <2>2, <2>5, <3>1
    <3>3. \A i \in 1 .. Len(t) : t[i] # x
      <4>1. ASSUME NEW j \in 1 .. k - 1 PROVE s[j] # s[k]
        <5>1. j \in 1 .. n /\ j # k
          BY <1>1
        <5> QED BY <1>1, <5>1 DEF NoRepeat
      <4> QED BY <2>3, <3>1, <4>1
    <3>4. /\ Len(Append(t, x)) = Len(t) + 1
          /\ \A i \in 1 .. Len(t) : Append(t, x)[i] = t[i]
          /\ Append(t, x)[Len(t) + 1] = x
          /\ DOMAIN Append(t, x) = 1 .. Len(t) + 1
          /\ DOMAIN t = 1 .. Len(t) /\ Len(t) \in Nat
      OBVIOUS
    <3>5. NoRepeat(Append(t, x))
      BY <2>3, <3>3, <3>4 DEF NoRepeat
    <3>6. ASSUME NEW i \in 1 .. Len(t) + 1
          PROVE  \E j \in 1 .. k : Append(t, x)[i] = s[j] /\ s[j] \in fresh
      <4>1. CASE i = Len(t) + 1
        BY <2>5, <3>1, <3>4, <4>1
      <4>2. CASE i \in 1 .. Len(t)
        BY <1>1, <2>3, <3>4, <4>2
      <4> QED BY <3>4, <4>1, <4>2
    <3>7. Good(Append(t, x), k)
      BY <3>4, <3>5, <3>6
    <3> HIDE DEF Good
    <3> QED BY <2>1, <3>2, <3>7
  <2> QED BY <2>4, <2>5
<1>5. n \in 0 .. n /\ 0 .. n \subseteq G
  <2>1. n \in 0 .. n
    BY <1>1
  <2> HIDE DEF G
  <2>2. 0 .. n \subseteq G
    BY <1>1, <1>3, <1>4, UpTo
  <2> QED BY <2>1, <2>2
<1>6. Good(Live(s), n) /\ Live(s) \in Seq(S)
  BY <1>2, <1>5
<1>7. DOMAIN Live(s) = 1 .. Len(Live(s))
  BY <1>6
<1> QED BY <1>1, <1>6, <1>7 DEF In

\* Where a subscriber is in the list, or the place behind the last.
LEMMA PositionDef ==
    ASSUME TypeOK, NEW p
    PROVE  /\ Position(p) \in 1 .. Len(subs) + 1 /\ Len(subs) \in Nat
           /\ Position(p) <= Len(subs) => subs[Position(p)] = p
           /\ \A j \in 1 .. Position(p) - 1 : subs[j] /= p
<1> DEFINE n == Len(subs)
           First(i) == /\ i <= n => subs[i] = p
                       /\ \A j \in 1 .. i - 1 : subs[j] /= p
           G == {k \in 0 .. n : \/ \A j \in 1 .. k : subs[j] /= p
                               \/ \E i \in 1 .. n + 1 : First(i)}
<1>1. n \in Nat
  BY DEF TypeOK
<1> HIDE DEF n
<1>2. 0 \in G
  BY <1>1
<1>3. ASSUME NEW k \in 1 .. n, k - 1 \in G PROVE k \in G
  <2>1. k \in 0 .. n /\ k \in 1 .. n + 1 /\ k - 1 \in 0 .. n
    BY <1>1
  <2>2. CASE \E i \in 1 .. n + 1 : First(i)
    BY <2>1, <2>2
  <2>3. CASE \A j \in 1 .. k - 1 : subs[j] /= p
    <3>1. CASE subs[k] = p
      <4>1. First(k)
        BY <2>1, <2>3, <3>1
      <4> QED BY <2>1, <4>1
    <3>2. CASE subs[k] /= p
      <4>1. \A j \in 1 .. k : subs[j] /= p
        BY <2>1, <2>3, <3>2
      <4> QED BY <2>1, <4>1
    <3> QED BY <3>1, <3>2
  <2> QED BY <1>3, <2>2, <2>3
<1>4. n \in G
  <2>1. 0 .. n \subseteq G /\ n \in 0 .. n
    <3> HIDE DEF G
    <3> QED BY <1>1, <1>2, <1>3, UpTo
  <2> QED BY <2>1
<1>5. \E i \in 1 .. n + 1 : First(i)
  <2>1. CASE \A j \in 1 .. n : subs[j] /= p
    <3>1. First(n + 1) /\ n + 1 \in 1 .. n + 1
      BY <1>1, <2>1
    <3> HIDE DEF First
    <3> QED BY <3>1
  <2> QED BY <1>4, <2>1
<1>6. Position(p) = CHOOSE i \in 1 .. n + 1 : First(i)
  BY DEF Position, n
<1>7. Position(p) \in 1 .. n + 1 /\ First(Position(p))
  <2> HIDE DEF First
  <2> QED BY <1>5, <1>6
<1> QED BY <1>1, <1>7 DEF n

-----------------------------------------------------------------------------
(* Chunks.                                                                 *)

\* A chunk by its parts.
LEMMA ChunkParts ==
    /\ \A c \in Chunk : /\ c.b \in 0 .. Cap /\ c.s \in Seq(Anns) /\ Len(c.s) \in 0 .. Cap
                        /\ c.b + Len(c.s) <= Cap /\ Cap \in Nat
    /\ \A b \in 0 .. Cap, s \in Seq(Anns) : b + Len(s) <= Cap => [b |-> b, s |-> s] \in Chunk
<1>1. Cap \in Nat
  BY SprayerAssumption
<1> QED BY <1>1 DEF Chunk

\* A chunk that is reset, and an empty hand.
LEMMA EmptyTypes ==
    NewChunk \in Chunk /\ NoHand \in [c : Chunk, addr : Addrs \cup {None}]
<1>1. <<>> \in Seq(Anns) /\ Len(<<>>) = 0 /\ 0 \in 0 .. Cap
  BY SprayerAssumption
<1>2. [b |-> 0, s |-> <<>>] \in Chunk
  BY <1>1, SprayerAssumption DEF Chunk
<1> QED BY <1>2 DEF NewChunk, NoHand

\* The back of a queue.
LEMMA Back ==
    ASSUME NEW S, NEW Q \in Seq(S), Q # <<>>
    PROVE  /\ Last(Q) \in S /\ ButLast(Q) \in Seq(S)
           /\ Len(Q) \in Nat \ {0} /\ Len(ButLast(Q)) = Len(Q) - 1
           /\ \A i \in 1 .. Len(Q) - 1 : ButLast(Q)[i] = Q[i]
           /\ Last(Q) = Q[Len(Q)]
<1>1. Len(Q) \in Nat \ {0} /\ \A i \in 1 .. Len(Q) : Q[i] \in S
  OBVIOUS
<1>2. \A i \in 1 .. Len(Q) - 1 : Q[i] \in S
  BY <1>1
<1>3. /\ SubSeq(Q, 1, Len(Q) - 1) \in Seq(S)
      /\ Len(SubSeq(Q, 1, Len(Q) - 1)) = IF 1 <= Len(Q) - 1 THEN Len(Q) - 1 - 1 + 1 ELSE 0
      /\ \A i \in 1 .. Len(Q) - 1 - 1 + 1 : SubSeq(Q, 1, Len(Q) - 1)[i] = Q[1 + i - 1]
  BY <1>1, <1>2, SubSeqProperties
<1>4. \A i \in 1 .. Len(Q) - 1 : i \in 1 .. Len(Q) - 1 - 1 + 1 /\ 1 + i - 1 = i
  BY <1>1
<1>5. \A i \in 1 .. Len(Q) - 1 : ButLast(Q)[i] = Q[i]
  BY <1>3, <1>4 DEF ButLast
<1>6. ButLast(Q) \in Seq(S) /\ Len(ButLast(Q)) = Len(Q) - 1
  <2>1. \A m \in Nat \ {0} : (IF 1 <= m - 1 THEN m - 1 - 1 + 1 ELSE 0) = m - 1
    OBVIOUS
  <2>2. (IF 1 <= Len(Q) - 1 THEN Len(Q) - 1 - 1 + 1 ELSE 0) = Len(Q) - 1
    BY <1>1, <2>1
  <2> QED BY <1>3, <2>2 DEF ButLast
<1> QED BY <1>1, <1>5, <1>6 DEF Last

\* The pool gives a chunk.
LEMMA PoolTypes ==
    ASSUME TypeOK
    PROVE  Taken \in Chunk /\ PoolTaken \in Seq(Chunk)
<1>1. pool \in Seq(Chunk)
  BY DEF TypeOK
<1>2. CASE pool = <<>>
  BY <1>1, <1>2, EmptyTypes DEF Taken, PoolTaken
<1>3. CASE pool # <<>>
  BY <1>1, <1>3, Back DEF Taken, PoolTaken
<1> QED BY <1>2, <1>3

\* An announcement is pushed into a chunk that takes it.
LEMMA PushAnnType ==
    ASSUME NEW c \in Chunk, NEW a \in Anns, Takes(c)
    PROVE  PushAnn(c, a) \in Chunk
<1>1. /\ c.b \in 0 .. Cap /\ c.s \in Seq(Anns) /\ Len(c.s) \in 0 .. Cap
      /\ c.b + Len(c.s) <= Cap /\ Cap \in Nat
  BY ChunkParts
<1>2. CASE c.b > 0
  <2>1. <<a>> \o c.s \in Seq(Anns) /\ Len(<<a>> \o c.s) = 1 + Len(c.s)
    BY <1>1
  <2>2. c.b - 1 \in 0 .. Cap /\ c.b - 1 + Len(<<a>> \o c.s) <= Cap
    BY <1>1, <1>2, <2>1
  <2>3. PushAnn(c, a) = [b |-> c.b - 1, s |-> <<a>> \o c.s]
    BY <1>2 DEF PushAnn
  <2> QED BY <2>1, <2>2, <2>3, ChunkParts
<1>3. CASE ~(c.b > 0)
  <2>1. Append(c.s, a) \in Seq(Anns) /\ Len(Append(c.s, a)) = Len(c.s) + 1
    BY <1>1
  <2>2. c.b + Len(Append(c.s, a)) <= Cap
    BY <1>1, <1>3, <2>1 DEF Takes, ECur
  <2>3. PushAnn(c, a) = [b |-> c.b, s |-> Append(c.s, a)]
    BY <1>3 DEF PushAnn
  <2> QED BY <1>1, <2>1, <2>2, <2>3, ChunkParts
<1> QED BY <1>2, <1>3

\* A part of a chunk is sent.
LEMMA AdvanceType ==
    ASSUME NEW c \in Chunk, NEW n \in 0 .. Len(c.s)
    PROVE  /\ Advance(c, n) \in Chunk
           /\ Len(Advance(c, n).s) = Len(c.s) - n
           /\ \A i \in 1 .. Len(c.s) - n : Advance(c, n).s[i] = c.s[n + i]
<1> DEFINE r == SubSeq(c.s, n + 1, Len(c.s))
<1>1. /\ c.b \in 0 .. Cap /\ c.s \in Seq(Anns) /\ Len(c.s) \in 0 .. Cap
      /\ c.b + Len(c.s) <= Cap /\ Cap \in Nat
  BY ChunkParts
<1>2. \A i \in n + 1 .. Len(c.s) : c.s[i] \in Anns
  BY <1>1
<1>3. /\ r \in Seq(Anns)
      /\ Len(r) = IF n + 1 <= Len(c.s) THEN Len(c.s) - (n + 1) + 1 ELSE 0
      /\ \A i \in 1 .. Len(c.s) - (n + 1) + 1 : r[i] = c.s[(n + 1) + i - 1]
  BY <1>1, <1>2, SubSeqProperties
<1>4. Len(r) = Len(c.s) - n
  BY <1>1, <1>3
<1>5. \A i \in 1 .. Len(c.s) - n : i \in 1 .. Len(c.s) - (n + 1) + 1 /\ (n + 1) + i - 1 = n + i
  BY <1>1
<1>6. \A i \in 1 .. Len(c.s) - n : r[i] = c.s[n + i]
  BY <1>3, <1>5
<1>7. c.b + n \in 0 .. Cap /\ c.b + n + Len(r) <= Cap
  BY <1>1, <1>4
<1>8. r \in Seq(Anns)
  BY <1>3
<1>9. Advance(c, n) = [b |-> c.b + n, s |-> r]
  BY DEF Advance
<1> HIDE DEF r
<1> QED BY <1>4, <1>6, <1>7, <1>8, <1>9, ChunkParts

\* Queues and threads.
LEMMA QueueParts ==
    /\ \A q \in Queues : q[2] \in Addrs /\ q[1] \in {"sub", "force"}
    /\ \A p \in Peers : Sub(p) \in Queues
    /\ \A i \in DOMAIN SprayAt : Forced(SprayAt[i]) \in Queues
    /\ \A p \in ForceAddrs : Forced(p) \in Queues
    /\ Workers \subseteq Threads /\ Callers \subseteq Threads
    /\ None \notin Addrs
BY SprayerAssumption DEF Queues, Sub, Forced, Addrs, ForceAddrs, Threads

\* A push begins.
LEMMA BeginPushType ==
    [i \in DOMAIN SprayAt |-> Forced(SprayAt[i])] \in Seq(Queues)
<1>1. SprayAt \in Seq(ForceAddrs)
  BY SprayerAssumption
<1>2. DOMAIN SprayAt = 1 .. Len(SprayAt) /\ Len(SprayAt) \in Nat
  BY <1>1
<1>3. \A i \in 1 .. Len(SprayAt) : Forced(SprayAt[i]) \in Queues
  BY <1>2, QueueParts
<1> QED BY <1>2, <1>3

-----------------------------------------------------------------------------
(* Types, threads and the list of subscribers, action by action.           *)

\* start
LEMMA StartBase == ASSUME BaseInv, NEW w \in Workers, Start(w) PROVE BaseInv'
<1>1. /\ UNCHANGED <<subs, fresh, queue, hand, from, batch, todo, left, arrived, sent>>
      /\ pc' = [pc EXCEPT ![w] = "recv"] /\ pc[w] = "new"
      /\ rchunk' = [rchunk EXCEPT ![w] = Taken] /\ pool' = PoolTaken
  BY DEF Start, Goes, peerVars, pushVars
<1>2. TypeOK'
  BY <1>1, PoolTypes DEF BaseInv, TypeOK, Labels
<1>3. ThreadInv'
  BY <1>1, QueueParts DEF BaseInv, TypeOK, ThreadInv, Pushing
<1> QED BY <1>1, <1>2, <1>3 DEF BaseInv, SubscribedOnce

\* recv_slow, recv_gso: an announcement
LEMMA RecvAnnBase ==
    ASSUME BaseInv, NEW w \in Workers, NEW a \in Anns, RecvAnn(w, a) PROVE BaseInv'
<1>1. /\ UNCHANGED <<subs, fresh, queue, pool, pc, hand, from, batch, todo, left, sent>>
      /\ arrived' = arrived \cup {a}
      /\ rchunk' = [rchunk EXCEPT ![w].s = Append(@, a)]
      /\ ECur(rchunk[w]) < Cap
  BY DEF RecvAnn, peerVars, queueVars, pushVars
<1>2. PICK c \in Chunk : c = rchunk[w]
  BY DEF BaseInv, TypeOK
<1>3. [c EXCEPT !.s = Append(@, a)] \in Chunk
  <2>1. /\ c.b \in 0 .. Cap /\ c.s \in Seq(Anns) /\ Len(c.s) \in 0 .. Cap
        /\ c.b + Len(c.s) <= Cap /\ Cap \in Nat
    BY ChunkParts
  <2>2. Append(c.s, a) \in Seq(Anns) /\ Len(Append(c.s, a)) = Len(c.s) + 1
    BY <2>1
  <2>3. c.b + Len(Append(c.s, a)) <= Cap
    BY <1>1, <1>2, <2>1, <2>2 DEF ECur
  <2>4. [c EXCEPT !.s = Append(@, a)] = [b |-> c.b, s |-> Append(c.s, a)]
    BY DEF Chunk
  <2> QED BY <2>1, <2>2, <2>3, <2>4, ChunkParts
<1>4. rchunk' \in [Workers -> Chunk]
  BY <1>1, <1>2, <1>3 DEF BaseInv, TypeOK
<1>5. TypeOK'
  BY <1>1, <1>4 DEF BaseInv, TypeOK
<1>6. ThreadInv'
  BY <1>1 DEF BaseInv, ThreadInv, Pushing
<1> QED BY <1>1, <1>5, <1>6 DEF BaseInv, SubscribedOnce

\* recv_slow, recv_gso: nothing
LEMMA RecvNothingBase == ASSUME BaseInv, NEW w \in Workers, RecvNothing(w) PROVE BaseInv'
<1>1. /\ UNCHANGED <<subs, fresh, queue, pool, rchunk, hand, from, batch, todo, left>>
      /\ UNCHANGED <<arrived, sent>>
      /\ pc' = [pc EXCEPT ![w] = "take"] /\ pc[w] = "recv"
  BY DEF RecvNothing, Goes, peerVars, queueVars, pushVars
<1>2. TypeOK'
  BY <1>1 DEF BaseInv, TypeOK, Labels
<1>3. ThreadInv'
  BY <1>1, QueueParts DEF BaseInv, TypeOK, ThreadInv, Pushing
<1> QED BY <1>1, <1>2, <1>3 DEF BaseInv, SubscribedOnce

\* maybe_subscribe
LEMMA RecvRequestBase ==
    ASSUME BaseInv, NEW w \in Workers, NEW p \in Peers, RecvRequest(w, p) PROVE BaseInv'
<1>1. /\ UNCHANGED <<subs, queue, pool, rchunk, hand, batch, todo, left>>
      /\ UNCHANGED <<arrived, sent>>
      /\ pc[w] = "recv"
      /\ \/ fresh' = fresh \cup {p} /\ pc' = [pc EXCEPT ![w] = "take"] /\ from' = from
         \/ /\ from' = [from EXCEPT ![w] = p] /\ pc' = [pc EXCEPT ![w] = "subscribe"]
            /\ fresh' = fresh
  BY DEF RecvRequest, Goes, queueVars, pushVars
<1>2. TypeOK'
  BY <1>1, ZenonT(40) DEF BaseInv, TypeOK, Labels
<1>3. ThreadInv'
  BY <1>1, QueueParts DEF BaseInv, TypeOK, ThreadInv, Pushing
<1> QED BY <1>1, <1>2, <1>3 DEF BaseInv, SubscribedOnce

\* The list after the write-locked half of incoming_subscription.
LEMMA SubscribeList ==
    ASSUME BaseInv, NEW p \in Peers
    PROVE  LET s == Live(Passed(p)) \o (IF Position(p) > Len(subs) THEN <<p>>
                                       ELSE SubSeq(subs, Position(p), Len(subs)))
           IN  s \in Seq(Peers) /\ NoRepeat(s)
<1> DEFINE k == Position(p)
           n == Len(subs)
           L == Live(Passed(p))
           T == IF k > n THEN <<p>> ELSE SubSeq(subs, k, n)
<1>1. /\ n \in Nat /\ k \in 1 .. n + 1
      /\ k <= n => subs[k] = p
      /\ \A j \in 1 .. k - 1 : subs[j] /= p
  BY PositionDef DEF BaseInv
<1>2. /\ DOMAIN subs = 1 .. n
      /\ \A i \in 1 .. n : subs[i] \in Peers
      /\ \A i, j \in 1 .. n : subs[i] = subs[j] => i = j
  BY DEF BaseInv, TypeOK, SubscribedOnce
<1> HIDE DEF k, n
<1>3. /\ Passed(p) \in Seq(Peers) /\ Len(Passed(p)) = k - 1
      /\ \A i \in 1 .. k - 1 : Passed(p)[i] = subs[i]
  <2>1. \A i \in 1 .. k - 1 : subs[i] \in Peers
    BY <1>1, <1>2
  <2>2. /\ SubSeq(subs, 1, k - 1) \in Seq(Peers)
        /\ Len(SubSeq(subs, 1, k - 1)) = IF 1 <= k - 1 THEN k - 1 - 1 + 1 ELSE 0
        /\ \A i \in 1 .. k - 1 - 1 + 1 : SubSeq(subs, 1, k - 1)[i] = subs[1 + i - 1]
    BY <1>1, <2>1, SubSeqProperties
  <2>3. \A m \in Nat \ {0} : /\ (IF 1 <= m - 1 THEN m - 1 - 1 + 1 ELSE 0) = m - 1
                            /\ m - 1 - 1 + 1 = m - 1
    OBVIOUS
  <2>4. /\ (IF 1 <= k - 1 THEN k - 1 - 1 + 1 ELSE 0) = k - 1 /\ k - 1 - 1 + 1 = k - 1
        /\ \A i \in 1 .. k - 1 : 1 + i - 1 = i
    BY <1>1, <2>3
  <2>5. Passed(p) = SubSeq(subs, 1, k - 1)
    BY DEF Passed, k
  <2> QED BY <2>2, <2>4, <2>5
<1>4. NoRepeat(Passed(p)) /\ DOMAIN Passed(p) = 1 .. k - 1
  BY <1>1, <1>2, <1>3 DEF NoRepeat
<1>5. /\ L \in Seq(Peers) /\ NoRepeat(L)
      /\ \A i \in DOMAIN L : In(Passed(p), L[i]) /\ L[i] \in fresh
  BY <1>3, <1>4, LiveKeeps
<1> HIDE DEF L
<1>6. \A i \in 1 .. Len(L) : \E j \in 1 .. k - 1 : L[i] = subs[j]
  BY <1>3, <1>4, <1>5 DEF In
<1>7. /\ T \in Seq(Peers)
      /\ \A i, j \in 1 .. Len(T) : T[i] = T[j] => i = j
      /\ \A i \in 1 .. Len(T) : \A j \in 1 .. k - 1 : T[i] # subs[j]
  <2>1. CASE k > n
    <3>1. T = <<p>>
      BY <2>1
    <3>2. <<p>> \in Seq(Peers) /\ Len(<<p>>) = 1 /\ <<p>>[1] = p
      OBVIOUS
    <3> HIDE DEF T
    <3> QED BY <1>1, <3>1, <3>2
  <2>2. CASE ~(k > n)
    <3>1. T = SubSeq(subs, k, n)
      BY <2>2
    <3>2. \A i \in k .. n : subs[i] \in Peers
      BY <1>1, <1>2
    <3>3. /\ SubSeq(subs, k, n) \in Seq(Peers)
          /\ Len(SubSeq(subs, k, n)) = IF k <= n THEN n - k + 1 ELSE 0
          /\ \A i \in 1 .. n - k + 1 : SubSeq(subs, k, n)[i] = subs[k + i - 1]
      BY <1>1, <3>2, SubSeqProperties
    <3>4. Len(SubSeq(subs, k, n)) = n - k + 1
      BY <1>1, <2>2, <3>3
    <3>5. \A i \in 1 .. n - k + 1 : k + i - 1 \in 1 .. n /\ k + i - 1 \notin 1 .. k - 1
      BY <1>1, <2>2
    <3>6. \A i, j \in 1 .. n - k + 1 : k + i - 1 = k + j - 1 => i = j
      BY <1>1
    <3>7. \A j \in 1 .. k - 1 : j \in 1 .. n
      BY <1>1, <2>2
    <3> HIDE DEF T
    <3> QED BY <1>2, <3>1, <3>3, <3>4, <3>5, <3>6, <3>7
  <2> QED BY <2>1, <2>2
<1> HIDE DEF T
<1>8. /\ L \o T \in Seq(Peers) /\ Len(L \o T) = Len(L) + Len(T)
      /\ \A i \in 1 .. Len(L) + Len(T) :
           (L \o T)[i] = IF i <= Len(L) THEN L[i] ELSE T[i - Len(L)]
  BY <1>5, <1>7, ConcatProperties
<1>9. Len(L) \in Nat /\ Len(T) \in Nat /\ DOMAIN (L \o T) = 1 .. Len(L) + Len(T)
  BY <1>5, <1>7, <1>8
<1>10. ASSUME NEW i \in 1 .. Len(L) + Len(T), NEW j \in 1 .. Len(L) + Len(T),
              (L \o T)[i] = (L \o T)[j]
       PROVE  i = j
  <2>1. \A x \in 1 .. Len(L) + Len(T) : ~(x <= Len(L)) => x - Len(L) \in 1 .. Len(T)
    BY <1>9
  <2>2. \A x \in 1 .. Len(L) + Len(T) : x <= Len(L) => x \in 1 .. Len(L)
    BY <1>9
  <2>3. \A x, y \in 1 .. Len(L) : L[x] = L[y] => x = y
    BY <1>5 DEF NoRepeat
  <2>4. \A x \in 1 .. Len(L), y \in 1 .. Len(T) : L[x] # T[y]
    BY <1>6, <1>7
  <2>5. CASE i <= Len(L) /\ j <= Len(L)
    BY <1>8, <1>10, <2>2, <2>3, <2>5
  <2>6. CASE i <= Len(L) /\ ~(j <= Len(L))
    BY <1>8, <1>10, <2>1, <2>2, <2>4, <2>6
  <2>7. CASE ~(i <= Len(L)) /\ j <= Len(L)
    BY <1>8, <1>10, <2>1, <2>2, <2>4, <2>7
  <2>8. CASE ~(i <= Len(L)) /\ ~(j <= Len(L))
    <3>1. i - Len(L) = j - Len(L)
      BY <1>7, <1>8, <1>10, <2>1, <2>8
    <3> QED BY <1>9, <3>1
  <2> QED BY <2>5, <2>6, <2>7, <2>8
<1>11. NoRepeat(L \o T)
  BY <1>9, <1>10 DEF NoRepeat
<1> QED BY <1>8, <1>11 DEF L, T, k, n

\* incoming_subscription
LEMMA SubscribeBase == ASSUME BaseInv, NEW w \in Workers, Subscribe(w) PROVE BaseInv'
<1>1. PICK p : p = from[w]
  OBVIOUS
<1>2. /\ UNCHANGED <<pool, rchunk, hand, batch, todo, left, arrived, sent>>
      /\ pc[w] = "subscribe" /\ pc' = [pc EXCEPT ![w] = "take"]
      /\ subs' = Live(Passed(p)) \o (IF Position(p) > Len(subs) THEN <<p>>
                                     ELSE SubSeq(subs, Position(p), Len(subs)))
      /\ fresh' = fresh \cup {p}
      /\ queue' = [q \in Queues |-> IF q \in Renewed(p) THEN <<>> ELSE queue[q]]
      /\ from' = [from EXCEPT ![w] = None]
  BY <1>1 DEF Subscribe, Goes, pushVars
<1>3. p \in Peers
  BY <1>1, <1>2 DEF BaseInv, ThreadInv
<1>4. subs' \in Seq(Peers) /\ NoRepeat(subs')
  BY <1>2, <1>3, SubscribeList
<1>5. queue' \in [Queues -> Seq(Chunk)]
  BY <1>2 DEF BaseInv, TypeOK
<1>6. pc' \in [Threads -> Labels] /\ from' \in [Workers -> Peers \cup {None}]
  BY <1>2 DEF BaseInv, TypeOK, Labels
<1>7. TypeOK'
  BY <1>2, <1>3, <1>4, <1>5, <1>6 DEF BaseInv, TypeOK
<1>8. ThreadInv'
  BY <1>2, QueueParts DEF BaseInv, TypeOK, ThreadInv, Pushing
<1> QED BY <1>4, <1>7, <1>8 DEF BaseInv, SubscribedOnce, NoRepeat

\* A subscriber is not heard of.
LEMMA TimeOutBase == ASSUME BaseInv, NEW p \in Peers, TimeOut(p) PROVE BaseInv'
<1>1. /\ UNCHANGED <<subs, queue, pool, pc, rchunk, hand, from, batch, todo, left>>
      /\ UNCHANGED <<arrived, sent>>
      /\ fresh' = fresh \ {p}
  BY DEF TimeOut, queueVars, pushVars
<1>2. TypeOK' /\ ThreadInv'
  BY <1>1 DEF BaseInv, TypeOK, ThreadInv, Pushing
<1> QED BY <1>1, <1>2 DEF BaseInv, SubscribedOnce

\* get_to_send
LEMMA GetToSendBase ==
    ASSUME BaseInv, NEW w \in Workers, NEW q \in Queues, GetToSend(w, q) PROVE BaseInv'
<1>1. /\ UNCHANGED <<subs, fresh, pool, rchunk, from, batch, todo, left, arrived, sent>>
      /\ pc[w] = "take" /\ pc' = [pc EXCEPT ![w] = "send"]
      /\ queue[q] # <<>>
      /\ hand' = [hand EXCEPT ![w] = [c |-> Last(queue[q]), addr |-> q[2]]]
      /\ queue' = [queue EXCEPT ![q] = ButLast(@)]
  BY DEF GetToSend, Goes, Sendable, peerVars, pushVars
<1>2. queue[q] \in Seq(Chunk)
  BY DEF BaseInv, TypeOK
<1>3. Last(queue[q]) \in Chunk /\ ButLast(queue[q]) \in Seq(Chunk) /\ q[2] \in Addrs
  BY <1>1, <1>2, Back, QueueParts
<1>4. queue' \in [Queues -> Seq(Chunk)]
  BY <1>1, <1>3 DEF BaseInv, TypeOK
<1>5. hand' \in [Workers -> [c : Chunk, addr : Addrs \cup {None}]]
  BY <1>1, <1>3 DEF BaseInv, TypeOK
<1>6. pc' \in [Threads -> Labels]
  BY <1>1 DEF BaseInv, TypeOK, Labels
<1>7. TypeOK'
  BY <1>1, <1>4, <1>5, <1>6 DEF BaseInv, TypeOK
<1>8. ThreadInv'
  <2>1. /\ \A v \in Workers : hand'[v].addr = IF v = w THEN q[2] ELSE hand[v].addr
        /\ \A t \in Threads : pc'[t] = IF t = w THEN "send" ELSE pc[t]
    BY <1>1 DEF BaseInv, TypeOK
  <2> QED BY <1>1, <1>3, <2>1, QueueParts DEF BaseInv, ThreadInv, Pushing
<1> QED BY <1>1, <1>7, <1>8 DEF BaseInv, SubscribedOnce

\* What run does when there is no more to send.
LEMMA PollOrPushBase ==
    ASSUME BaseInv, NEW w \in Workers, PollOrPush(w)
    PROVE  /\ pc' \in [Threads -> Labels] /\ batch' \in [Threads -> Seq(Anns)]
           /\ todo' \in [Threads -> Seq(Queues)]
           /\ \A t \in Threads :
                t # w => pc'[t] = pc[t] /\ todo'[t] = todo[t] /\ batch'[t] = batch[t]
           /\ pc'[w] \in {"force", "recv"}
<1>1. rchunk[w].s \in Seq(Anns) /\ w \in Threads
  BY ChunkParts, QueueParts DEF BaseInv, TypeOK
<1>2. CASE FullEnough(rchunk[w])
  <2>1. /\ batch' = [batch EXCEPT ![w] = rchunk[w].s]
        /\ todo' = [todo EXCEPT ![w] = [i \in DOMAIN SprayAt |-> Forced(SprayAt[i])]]
        /\ pc' = [pc EXCEPT ![w] = "force"]
    BY <1>2 DEF PollOrPush, BeginPush, Goes
  <2>2. PICK m \in Seq(Queues) : m = [i \in DOMAIN SprayAt |-> Forced(SprayAt[i])]
    BY BeginPushType
  <2>3. todo' = [todo EXCEPT ![w] = m]
    BY <2>1, <2>2
  <2>4. batch' \in [Threads -> Seq(Anns)] /\ todo' \in [Threads -> Seq(Queues)]
    BY <1>1, <2>1, <2>3 DEF BaseInv, TypeOK
  <2>5. pc' \in [Threads -> Labels] /\ pc'[w] = "force"
    BY <1>1, <2>1 DEF BaseInv, TypeOK, Labels
  <2>6. \A t \in Threads :
          t # w => pc'[t] = pc[t] /\ todo'[t] = todo[t] /\ batch'[t] = batch[t]
    BY <2>1, <2>3 DEF BaseInv, TypeOK
  <2> QED BY <2>4, <2>5, <2>6
<1>3. CASE ~FullEnough(rchunk[w])
  <2>1. pc' = [pc EXCEPT ![w] = "recv"] /\ UNCHANGED <<batch, todo>>
    BY <1>3 DEF PollOrPush, Goes
  <2> QED BY <1>1, <2>1 DEF BaseInv, TypeOK, Labels
<1> QED BY <1>2, <1>3

\* try_send: nothing
LEMMA NothingToSendBase == ASSUME BaseInv, NEW w \in Workers, NothingToSend(w) PROVE BaseInv'
<1>1. /\ UNCHANGED <<subs, fresh, queue, pool, rchunk, hand, from, left, arrived, sent>>
      /\ pc[w] = "take" /\ PollOrPush(w)
  BY DEF NothingToSend, peerVars, queueVars
<1>2. /\ pc' \in [Threads -> Labels] /\ batch' \in [Threads -> Seq(Anns)]
      /\ todo' \in [Threads -> Seq(Queues)]
      /\ \A t \in Threads : t # w => pc'[t] = pc[t] /\ todo'[t] = todo[t]
      /\ pc'[w] \in {"force", "recv"}
  BY <1>1, PollOrPushBase
<1>3. TypeOK'
  BY <1>1, <1>2 DEF BaseInv, TypeOK
<1>4. left[w] = <<>>
  BY <1>1, QueueParts DEF BaseInv, ThreadInv, Pushing
<1>5. ThreadInv'
  BY <1>1, <1>2, <1>4, QueueParts DEF BaseInv, ThreadInv, Pushing
<1> QED BY <1>1, <1>3, <1>5 DEF BaseInv, SubscribedOnce

\* send_gso, send_slow
LEMMA SendBase ==
    ASSUME BaseInv, NEW w \in Workers, NEW n \in 0 .. Cap, Send(w, n) PROVE BaseInv'
<1>1. PICK h : h = hand[w]
  OBVIOUS
<1>2. PICK c : c = Advance(h.c, n)
  OBVIOUS
<1>3. /\ UNCHANGED <<subs, fresh, queue, rchunk, from, batch, todo, left, arrived>>
      /\ pc[w] = "send" /\ n \in 0 .. Len(h.c.s)
      /\ sent' = sent \cup {<<h.addr, h.c.s[i]>> : i \in 1 .. n}
      /\ \/ /\ pool' = Append(pool, c) /\ hand' = [hand EXCEPT ![w] = NoHand]
            /\ pc' = [pc EXCEPT ![w] = "take"]
         \/ /\ pool' = pool /\ hand' = [hand EXCEPT ![w].c = c]
            /\ pc' = [pc EXCEPT ![w] = "return"]
  BY <1>1, <1>2 DEF Send, Goes, peerVars, pushVars
<1>4. /\ h \in [c : Chunk, addr : Addrs \cup {None}] /\ h.c \in Chunk
      /\ h.addr \in Addrs /\ h.c.s \in Seq(Anns)
  BY <1>1, <1>3, ChunkParts DEF BaseInv, TypeOK, ThreadInv
<1>5. c \in Chunk
  BY <1>2, <1>3, <1>4, AdvanceType
<1>6. sent' \subseteq Addrs \X Anns
  <2>1. \A i \in 1 .. n : h.c.s[i] \in Anns
    BY <1>3, <1>4
  <2> QED BY <1>3, <1>4, <2>1 DEF BaseInv, TypeOK
<1>7. /\ hand' \in [Workers -> [c : Chunk, addr : Addrs \cup {None}]]
      /\ \A v \in Workers : v # w => hand'[v] = hand[v]
      /\ pc'[w] = "take" => hand'[w].addr = None
      /\ pc'[w] # "take" => hand'[w].addr = h.addr
  <2>1. pc'[w] = "take" \/ pc'[w] = "return"
    BY <1>3, QueueParts DEF BaseInv, TypeOK
  <2>2. CASE hand' = [hand EXCEPT ![w] = NoHand] /\ pc' = [pc EXCEPT ![w] = "take"]
    BY <2>2, EmptyTypes, QueueParts DEF BaseInv, TypeOK, NoHand
  <2>3. CASE hand' = [hand EXCEPT ![w].c = c] /\ pc' = [pc EXCEPT ![w] = "return"]
    <3>1. [hand[w] EXCEPT !.c = c] = [c |-> c, addr |-> h.addr]
      BY <1>1, <1>4
    <3>2. hand' = [hand EXCEPT ![w] = [c |-> c, addr |-> h.addr]]
      BY <2>3, <3>1
    <3> QED BY <1>4, <1>5, <2>3, <3>2, QueueParts DEF BaseInv, TypeOK
  <2> QED BY <1>3, <2>2, <2>3
<1>8. pool' \in Seq(Chunk)
  <2>1. pool \in Seq(Chunk)
    BY DEF BaseInv, TypeOK
  <2>2. Append(pool, c) \in Seq(Chunk)
    BY <1>5, <2>1, AppendProperties
  <2>3. pool' = pool \/ pool' = Append(pool, c)
    BY <1>3
  <2> QED BY <2>1, <2>2, <2>3
<1>9. /\ pc' \in [Threads -> Labels] /\ pc'[w] \in {"take", "return"}
      /\ \A t \in Threads : t # w => pc'[t] = pc[t]
  BY <1>3, QueueParts, ZenonT(40) DEF BaseInv, TypeOK, Labels
<1>10. TypeOK'
  BY <1>3, <1>6, <1>7, <1>8, <1>9 DEF BaseInv, TypeOK
<1>11. ThreadInv'
  <2>1. left[w] = <<>>
    BY <1>3, QueueParts DEF BaseInv, ThreadInv, Pushing
  <2> QED BY <1>3, <1>4, <1>7, <1>9, <2>1, QueueParts DEF BaseInv, ThreadInv, Pushing
<1> QED BY <1>3, <1>10, <1>11 DEF BaseInv, SubscribedOnce

\* return_to_send
LEMMA ReturnToSendBase == ASSUME BaseInv, NEW w \in Workers, ReturnToSend(w) PROVE BaseInv'
<1>1. /\ UNCHANGED <<subs, fresh, pool, rchunk, from, left, arrived, sent>>
      /\ pc[w] = "return" /\ PollOrPush(w)
      /\ queue' = [q \in Queues |-> IF q \in ReturnTo(hand[w].addr)
                                    THEN Append(queue[q], hand[w].c) ELSE queue[q]]
      /\ hand' = [hand EXCEPT ![w] = NoHand]
  BY DEF ReturnToSend, peerVars
<1>2. /\ pc' \in [Threads -> Labels] /\ batch' \in [Threads -> Seq(Anns)]
      /\ todo' \in [Threads -> Seq(Queues)]
      /\ \A t \in Threads : t # w => pc'[t] = pc[t] /\ todo'[t] = todo[t]
      /\ pc'[w] \in {"force", "recv"}
  BY <1>1, PollOrPushBase
<1>3. /\ hand' \in [Workers -> [c : Chunk, addr : Addrs \cup {None}]]
      /\ hand'[w].addr = None /\ \A v \in Workers : v # w => hand'[v] = hand[v]
  BY <1>1, EmptyTypes DEF BaseInv, TypeOK, NoHand
<1>4. queue' \in [Queues -> Seq(Chunk)]
  <2>1. hand[w].c \in Chunk
    BY DEF BaseInv, TypeOK
  <2> QED BY <1>1, <2>1 DEF BaseInv, TypeOK
<1>5. TypeOK'
  BY <1>1, <1>2, <1>3, <1>4 DEF BaseInv, TypeOK
<1>6. left[w] = <<>>
  BY <1>1, QueueParts DEF BaseInv, ThreadInv, Pushing
<1>7. ThreadInv'
  BY <1>1, <1>2, <1>3, <1>6, QueueParts, ZenonT(40) DEF BaseInv, ThreadInv, Pushing
<1> QED BY <1>1, <1>5, <1>7 DEF BaseInv, SubscribedOnce

\* The process sprays an announcement.
LEMMA CallBase ==
    ASSUME BaseInv, NEW t \in Callers, NEW a \in Anns, Call(t, a) PROVE BaseInv'
<1>1. PICK m \in Seq(Queues) : m = [i \in DOMAIN SprayAt |-> Forced(SprayAt[i])]
  BY BeginPushType
<1>2. /\ UNCHANGED <<subs, fresh, queue, pool, rchunk, hand, from, left, sent>>
      /\ pc[t] = "idle" /\ pc' = [pc EXCEPT ![t] = "force"]
      /\ arrived' = arrived \cup {a}
      /\ batch' = [batch EXCEPT ![t] = <<a>>] /\ todo' = [todo EXCEPT ![t] = m]
  BY <1>1 DEF Call, BeginPush, Goes, peerVars, queueVars
<1>3. t \in Threads /\ t \notin Workers
  BY SprayerAssumption DEF Threads
<1>4. batch' \in [Threads -> Seq(Anns)] /\ todo' \in [Threads -> Seq(Queues)]
  <2>1. <<a>> \in Seq(Anns)
    OBVIOUS
  <2>2. PICK b \in Seq(Anns) : b = <<a>>
    BY <2>1, Zenon
  <2>3. batch' = [batch EXCEPT ![t] = b]
    BY <1>2, <2>2
  <2> QED BY <1>2, <2>3 DEF BaseInv, TypeOK
<1>5. TypeOK'
  BY <1>2, <1>4 DEF BaseInv, TypeOK, Labels
<1>6. ThreadInv'
  <2>1. left[t] = <<>>
    BY <1>2, <1>3 DEF BaseInv, ThreadInv, Pushing
  <2>2. /\ \A u \in Threads : u # t => pc'[u] = pc[u] /\ todo'[u] = todo[u]
        /\ \A u \in Workers : u # t
    BY <1>2, <1>3 DEF BaseInv, TypeOK
  <2> QED BY <1>2, <2>1, <2>2, QueueParts DEF BaseInv, ThreadInv, Pushing
<1> QED BY <1>2, <1>5, <1>6 DEF BaseInv, SubscribedOnce

\* push_anns: the next queue
LEMMA LockQueueBase == ASSUME BaseInv, NEW t \in Threads, LockQueue(t) PROVE BaseInv'
<1>1. /\ UNCHANGED <<subs, fresh, queue, pool, pc, rchunk, hand, from>>
      /\ UNCHANGED <<batch, arrived, sent>>
      /\ Pushing(t) /\ todo[t] # <<>> /\ left[t] = <<>>
      /\ \/ todo' = [todo EXCEPT ![t] = Tail(@)] /\ left' = left
         \/ left' = [left EXCEPT ![t] = batch[t]] /\ todo' = todo
  BY DEF LockQueue, peerVars, queueVars
<1>2. todo' \in [Threads -> Seq(Queues)] /\ left' \in [Threads -> Seq(Anns)]
  <2>1. todo[t] \in Seq(Queues) /\ batch[t] \in Seq(Anns)
    BY DEF BaseInv, TypeOK
  <2>2. Tail(todo[t]) \in Seq(Queues)
    BY <1>1, <2>1
  <2> QED BY <1>1, <2>1, <2>2 DEF BaseInv, TypeOK
<1>3. TypeOK'
  BY <1>1, <1>2 DEF BaseInv, TypeOK
<1>4. ThreadInv'
  BY <1>1 DEF BaseInv, TypeOK, ThreadInv, Pushing
<1> QED BY <1>1, <1>3, <1>4 DEF BaseInv, SubscribedOnce

\* SendQueue::push_ann: there is room
LEMMA QueueAnnBase == ASSUME BaseInv, NEW t \in Threads, QueueAnn(t) PROVE BaseInv'
<1>1. PICK q : q = Head(todo[t])
  OBVIOUS
<1>2. /\ UNCHANGED <<subs, fresh, pool, pc, rchunk, hand, from, batch, arrived, sent>>
      /\ left[t] # <<>> /\ queue[q] # <<>> /\ Takes(Last(queue[q]))
      /\ queue' = [queue EXCEPT ![q] = Append(ButLast(queue[q]),
                                              PushAnn(Last(queue[q]), Head(left[t])))]
      /\ left' = [left EXCEPT ![t] = Tail(left[t])]
      /\ todo' = [todo EXCEPT ![t] = IF Len(left[t]) = 1 THEN Tail(todo[t]) ELSE todo[t]]
  BY <1>1 DEF QueueAnn, HasRoom, peerVars
<1>3. /\ todo[t] \in Seq(Queues) /\ todo[t] # <<>> /\ left[t] \in Seq(Anns) /\ Pushing(t)
      /\ queue \in [Queues -> Seq(Chunk)]
  BY <1>2 DEF BaseInv, TypeOK, ThreadInv
<1>4. q \in Queues /\ Tail(todo[t]) \in Seq(Queues)
  BY <1>1, <1>3
<1>5. Head(left[t]) \in Anns /\ Tail(left[t]) \in Seq(Anns)
  BY <1>2, <1>3
<1>6. queue' \in [Queues -> Seq(Chunk)]
  <2>1. queue[q] \in Seq(Chunk)
    BY <1>3, <1>4
  <2>2. Last(queue[q]) \in Chunk /\ ButLast(queue[q]) \in Seq(Chunk)
    BY <1>2, <2>1, Back
  <2>3. PushAnn(Last(queue[q]), Head(left[t])) \in Chunk
    BY <1>2, <1>5, <2>2, PushAnnType
  <2>4. Append(ButLast(queue[q]), PushAnn(Last(queue[q]), Head(left[t]))) \in Seq(Chunk)
    BY <2>2, <2>3, AppendProperties
  <2> QED BY <1>2, <1>3, <2>4
<1>7. todo' \in [Threads -> Seq(Queues)] /\ left' \in [Threads -> Seq(Anns)]
  BY <1>2, <1>3, <1>4, <1>5 DEF BaseInv, TypeOK
<1>8. TypeOK'
  BY <1>2, <1>6, <1>7 DEF BaseInv, TypeOK
<1>9. ThreadInv'
  <2>1. Len(left[t]) = 1 => Tail(left[t]) = <<>>
    <3>1. \A s \in Seq(Anns) : Len(s) = 1 => Tail(s) \in Seq(Anns) /\ Len(Tail(s)) = 0
      BY SMTT(30)
    <3>2. \A s \in Seq(Anns) : Len(s) = 0 => s = <<>>
      OBVIOUS
    <3> QED BY <1>3, <3>1, <3>2
  <2>2. /\ \A u \in Threads : u # t => left'[u] = left[u] /\ todo'[u] = todo[u]
        /\ left'[t] # <<>> => todo'[t] = todo[t]
    BY <1>2, <2>1 DEF BaseInv, TypeOK
  <2> QED BY <1>2, <1>3, <2>2 DEF BaseInv, ThreadInv, Pushing
<1> QED BY <1>2, <1>8, <1>9 DEF BaseInv, SubscribedOnce

\* SendQueue::push_ann: a chunk is added
LEMMA AddChunkBase == ASSUME BaseInv, NEW t \in Threads, AddChunk(t) PROVE BaseInv'
<1>1. PICK q : q = Head(todo[t])
  OBVIOUS
<1>2. /\ UNCHANGED <<subs, fresh, pc, rchunk, hand, from, batch, todo, left>>
      /\ UNCHANGED <<arrived, sent>>
      /\ left[t] # <<>>
      /\ queue' = [queue EXCEPT ![q] = Bounded(Append(queue[q], Taken))]
      /\ pool' = PoolTaken
  BY <1>1 DEF AddChunk, peerVars, pushVars
<1>3. /\ todo[t] \in Seq(Queues) /\ todo[t] # <<>> /\ queue \in [Queues -> Seq(Chunk)]
  BY <1>2 DEF BaseInv, TypeOK, ThreadInv
<1>4. q \in Queues /\ queue[q] \in Seq(Chunk)
  BY <1>1, <1>3
<1>5. Taken \in Chunk /\ PoolTaken \in Seq(Chunk)
  BY PoolTypes DEF BaseInv
<1>6. Bounded(Append(queue[q], Taken)) \in Seq(Chunk)
  <2>1. Append(queue[q], Taken) \in Seq(Chunk) /\ Append(queue[q], Taken) # <<>>
    BY <1>4, <1>5, AppendProperties
  <2>2. Tail(Append(queue[q], Taken)) \in Seq(Chunk)
    BY <2>1, HeadTailProperties
  <2> QED BY <2>1, <2>2 DEF Bounded
<1>7. queue' \in [Queues -> Seq(Chunk)]
  BY <1>2, <1>3, <1>6
<1>8. TypeOK'
  BY <1>2, <1>5, <1>7 DEF BaseInv, TypeOK
<1>9. ThreadInv'
  BY <1>2 DEF BaseInv, ThreadInv, Pushing
<1> QED BY <1>2, <1>8, <1>9 DEF BaseInv, SubscribedOnce

\* The queues of the list of subscribers.
LEMMA SubQueues ==
    ASSUME BaseInv
    PROVE  /\ [i \in DOMAIN subs |-> Sub(subs[i])] \in Seq(Queues)
           /\ NoRepeat([i \in DOMAIN subs |-> Sub(subs[i])])
<1>1. DOMAIN subs = 1 .. Len(subs) /\ Len(subs) \in Nat /\ \A i \in 1 .. Len(subs) : subs[i] \in Peers
  BY DEF BaseInv, TypeOK
<1>2. \A i \in 1 .. Len(subs) : Sub(subs[i]) \in Queues
  BY <1>1, QueueParts
<1>3. [i \in DOMAIN subs |-> Sub(subs[i])] \in Seq(Queues)
  BY <1>1, <1>2
<1>4. NoRepeat([i \in DOMAIN subs |-> Sub(subs[i])])
  BY DEF NoRepeat, Sub, BaseInv, SubscribedOnce
<1> QED BY <1>3, <1>4

\* push_anns: the list is locked
LEMMA ReadSubsBase == ASSUME BaseInv, NEW t \in Threads, ReadSubs(t) PROVE BaseInv'
<1>1. PICK m \in Seq(Queues) : m = [i \in DOMAIN subs |-> Sub(subs[i])]
  BY SubQueues
<1>2. /\ UNCHANGED <<subs, fresh, queue, pool, rchunk, hand, from, batch, left>>
      /\ UNCHANGED <<arrived, sent>>
      /\ pc[t] = "force" /\ todo[t] = <<>>
      /\ todo' = [todo EXCEPT ![t] = m] /\ pc' = [pc EXCEPT ![t] = "subs"]
  BY <1>1 DEF ReadSubs, Goes, peerVars, queueVars
<1>3. todo' \in [Threads -> Seq(Queues)] /\ pc' \in [Threads -> Labels]
  BY <1>2 DEF BaseInv, TypeOK, Labels
<1>4. TypeOK'
  BY <1>2, <1>3 DEF BaseInv, TypeOK
<1>5. ThreadInv'
  <2>1. left[t] = <<>>
    BY <1>2 DEF BaseInv, ThreadInv
  <2>2. /\ \A u \in Threads : u # t => pc'[u] = pc[u] /\ todo'[u] = todo[u]
        /\ pc'[t] = "subs"
    BY <1>2 DEF BaseInv, TypeOK
  <2> QED BY <1>2, <2>1, <2>2, QueueParts DEF BaseInv, ThreadInv, Pushing
<1> QED BY <1>2, <1>4, <1>5 DEF BaseInv, SubscribedOnce

\* The end of push_anns.
LEMMA EndPushBase == ASSUME BaseInv, NEW t \in Threads, EndPush(t) PROVE BaseInv'
<1>1. PICK l : l = IF t \in Workers THEN "recv" ELSE "idle"
  OBVIOUS
<1>2. /\ UNCHANGED <<subs, fresh, queue, pool, hand, from, todo, left, arrived, sent>>
      /\ pc[t] = "subs" /\ todo[t] = <<>>
      /\ batch' = [batch EXCEPT ![t] = <<>>] /\ pc' = [pc EXCEPT ![t] = l]
      /\ rchunk' = [w \in Workers |-> IF w = t THEN NewChunk ELSE rchunk[w]]
  BY <1>1 DEF EndPush, Goes, peerVars, queueVars
<1>3. /\ batch' \in [Threads -> Seq(Anns)] /\ pc' \in [Threads -> Labels]
      /\ rchunk' \in [Workers -> Chunk]
  BY <1>1, <1>2, EmptyTypes DEF BaseInv, TypeOK, Labels
<1>4. TypeOK'
  BY <1>2, <1>3 DEF BaseInv, TypeOK
<1>5. ThreadInv'
  <2>1. left[t] = <<>>
    BY <1>2 DEF BaseInv, ThreadInv
  <2>2. /\ \A u \in Threads : u # t => pc'[u] = pc[u]
        /\ pc'[t] \in {"recv", "idle"}
    BY <1>1, <1>2 DEF BaseInv, TypeOK
  <2> QED BY <1>2, <2>1, <2>2, QueueParts DEF BaseInv, ThreadInv, Pushing
<1> QED BY <1>2, <1>4, <1>5 DEF BaseInv, SubscribedOnce

\* new
LEMMA BaseInit == Init => BaseInv
<1> SUFFICES ASSUME Init PROVE BaseInv
  OBVIOUS
<1>1. TypeOK
  BY EmptyTypes DEF Init, TypeOK, Labels
<1>2. ThreadInv
  BY QueueParts DEF Init, ThreadInv, NoHand
<1> QED BY <1>1, <1>2 DEF BaseInv, SubscribedOnce, Init

\* Every step keeps types, threads and list.
LEMMA BaseStep == BaseInv /\ [Next]_vars => BaseInv'
<1> SUFFICES ASSUME BaseInv, [Next]_vars PROVE BaseInv'
  OBVIOUS
<1>1. CASE UNCHANGED vars
  <2>1. /\ UNCHANGED <<subs, fresh, queue, pool, pc, rchunk, hand, from, batch>>
        /\ UNCHANGED <<todo, left, arrived, sent>>
    BY <1>1 DEF vars
  <2> QED BY <2>1 DEF BaseInv, TypeOK, ThreadInv, Pushing, SubscribedOnce
<1>2. CASE \E w \in Workers : WorkerStep(w)
  BY <1>2, StartBase, RecvNothingBase, SubscribeBase, NothingToSendBase, ReturnToSendBase,
     RecvAnnBase, RecvRequestBase, GetToSendBase, SendBase DEF WorkerStep
<1>3. CASE \E t \in Threads : PushStep(t)
  BY <1>3, LockQueueBase, QueueAnnBase, AddChunkBase, ReadSubsBase, EndPushBase DEF PushStep
<1>4. CASE \E t \in Callers, a \in Anns : Call(t, a)
  BY <1>4, CallBase
<1>5. CASE \E p \in Peers : TimeOut(p)
  BY <1>5, TimeOutBase
<1> QED BY <1>1, <1>2, <1>3, <1>4, <1>5 DEF Next

\* So they are kept always.
LEMMA BaseInvariant == Spec => []BaseInv
BY BaseInit, BaseStep, PTL DEF Spec

\* The variables of the sprayer have their types: no cursor of a chunk runs past
\* its bytes, whatever parts of it are sent, put back and filled again.
THEOREM TypeCorrect == Spec => []TypeOK
<1>1. BaseInv => TypeOK
  BY DEF BaseInv
<1> QED BY <1>1, BaseInvariant, PTL

\* An address subscribes once, though incoming_subscription looks for it under one
\* lock and adds it under another.
THEOREM ListedOnce == Spec => []SubscribedOnce
<1>1. BaseInv => SubscribedOnce
  BY DEF BaseInv
<1> QED BY <1>1, BaseInvariant, PTL

-----------------------------------------------------------------------------
(* The bound of the queues.                                                *)

\* No spray_at address subscribes as well, so an address has one queue.
Apart == Peers \cap ForceAddrs = {}

\* Then the address names the queue, and a chunk goes back to it.
LEMMA OneQueue ==
    ASSUME Apart
    PROVE  /\ \A q, r \in Queues : q[2] = r[2] => q = r
           /\ \A p \in Addrs : \A q \in ReturnTo(p) : q[2] = p
<1>1. \A q, r \in Queues : q[2] = r[2] => q = r
  BY DEF Apart, Queues, Sub, Forced
<1>2. \A p \in Addrs : \A q \in ReturnTo(p) : q[2] = p
  BY DEF ReturnTo, Sub, Forced
<1> QED BY <1>1, <1>2

\* The threads that have a chunk of an address in hand.
LEMMA HeldBound ==
    ASSUME NEW H \in SUBSET Workers
    PROVE  IsFiniteSet(H) /\ Cardinality(H) \in 0 .. NumWorkers /\ NumWorkers \in Nat \ {0}
<1>1. NumWorkers \in Nat \ {0}
  BY SprayerAssumption
<1>2. IsFiniteSet(Workers) /\ Cardinality(Workers) = NumWorkers
  <2>1. /\ IsFiniteSet(0 .. NumWorkers - 1)
        /\ Cardinality(0 .. NumWorkers - 1) =
             IF 0 > NumWorkers - 1 THEN 0 ELSE NumWorkers - 1 - 0 + 1
    BY <1>1, FS_Interval
  <2>2. \A m \in Nat \ {0} : (IF 0 > m - 1 THEN 0 ELSE m - 1 - 0 + 1) = m
    OBVIOUS
  <2> QED BY <1>1, <2>1, <2>2 DEF Workers
<1>3. IsFiniteSet(H) /\ Cardinality(H) <= Cardinality(Workers)
  BY <1>2, FS_Subset
<1>4. Cardinality(H) \in Nat
  BY <1>3, FS_CardinalityType
<1> QED BY <1>1, <1>2, <1>3, <1>4

\* Queues that do not grow, and hands that take nothing.
LEMMA BoundFrame ==
    ASSUME BaseInv, BaseInv', QueueBound,
           \A q \in Queues : Len(queue'[q]) <= Len(queue[q]),
           \A w \in Workers : hand'[w].addr \in {hand[w].addr, None}
    PROVE  QueueBound'
<1> SUFFICES ASSUME NEW q \in Queues
             PROVE  Len(queue'[q]) + Cardinality(Held(q[2])') <= MaxQueue + NumWorkers
  BY DEF QueueBound
<1>1. Held(q[2])' \subseteq Held(q[2]) /\ Held(q[2]) \subseteq Workers /\ Held(q[2])' \subseteq Workers
  BY QueueParts DEF Held
<1>2. /\ IsFiniteSet(Held(q[2])) /\ Cardinality(Held(q[2])) \in Nat
      /\ Cardinality(Held(q[2])') \in Nat
  BY <1>1, HeldBound
<1>3. Cardinality(Held(q[2])') <= Cardinality(Held(q[2]))
  BY <1>1, <1>2, FS_Subset
<1>4. Len(queue[q]) \in Nat /\ Len(queue'[q]) \in Nat
  BY DEF BaseInv, TypeOK
<1>5. Len(queue[q]) + Cardinality(Held(q[2])) <= MaxQueue + NumWorkers
  BY DEF QueueBound
<1>6. MaxQueue \in Nat /\ NumWorkers \in Nat /\ Len(queue'[q]) <= Len(queue[q])
  BY SprayerAssumption
<1> QED BY <1>2, <1>3, <1>4, <1>5, <1>6

\* A chunk is taken, and is in hand.
LEMMA GetToSendBound ==
    ASSUME Apart, BaseInv, BaseInv', QueueBound, NEW w \in Workers, NEW r \in Queues,
           GetToSend(w, r)
    PROVE  QueueBound'
<1>1. /\ hand' = [hand EXCEPT ![w] = [c |-> Last(queue[r]), addr |-> r[2]]]
      /\ queue' = [queue EXCEPT ![r] = ButLast(@)]
      /\ queue[r] # <<>> /\ pc[w] = "take"
  BY DEF GetToSend, Sendable
<1> SUFFICES ASSUME NEW q \in Queues
             PROVE  Len(queue'[q]) + Cardinality(Held(q[2])') <= MaxQueue + NumWorkers
  BY DEF QueueBound
<1>2. hand[w].addr = None
  BY <1>1 DEF BaseInv, ThreadInv
<1>3. \A v \in Workers : hand'[v].addr = IF v = w THEN r[2] ELSE hand[v].addr
  BY <1>1 DEF BaseInv, TypeOK
<1>4. Len(queue[q]) \in Nat /\ Len(queue'[q]) \in Nat
  BY DEF BaseInv, TypeOK
<1>5. Len(queue[q]) + Cardinality(Held(q[2])) <= MaxQueue + NumWorkers
  BY DEF QueueBound
<1>6. MaxQueue \in Nat /\ NumWorkers \in Nat
  BY SprayerAssumption
<1>7. CASE q = r
  <2>1. Held(q[2])' = Held(q[2]) \cup {w} /\ w \notin Held(q[2]) /\ Held(q[2]) \subseteq Workers
    BY <1>2, <1>3, <1>7, QueueParts DEF Held
  <2>2. IsFiniteSet(Held(q[2])) /\ Cardinality(Held(q[2])) \in Nat
    BY <2>1, HeldBound
  <2>3. Cardinality(Held(q[2])') = Cardinality(Held(q[2])) + 1
    BY <2>1, <2>2, FS_AddElement
  <2>4. Len(queue'[q]) = Len(queue[q]) - 1
    <3>1. queue[q] \in Seq(Chunk) /\ queue'[q] = ButLast(queue[q])
      BY <1>1, <1>7 DEF BaseInv, TypeOK
    <3> QED BY <1>1, <1>7, <3>1, Back
  <2> QED BY <1>4, <1>5, <1>6, <2>2, <2>3, <2>4
<1>8. CASE q # r
  <2>1. Held(q[2])' = Held(q[2])
    BY <1>2, <1>3, <1>8, OneQueue, QueueParts DEF Held
  <2>2. queue'[q] = queue[q]
    BY <1>1, <1>8 DEF BaseInv, TypeOK
  <2> QED BY <1>5, <2>1, <2>2
<1> QED BY <1>7, <1>8

\* A chunk is put back, out of the hand.
LEMMA ReturnToSendBound ==
    ASSUME Apart, BaseInv, BaseInv', QueueBound, NEW w \in Workers, ReturnToSend(w)
    PROVE  QueueBound'
<1>1. PICK p : p = hand[w].addr
  OBVIOUS
<1>2. /\ hand' = [hand EXCEPT ![w] = NoHand] /\ pc[w] = "return"
      /\ queue' = [q \in Queues |-> IF q \in ReturnTo(p)
                                    THEN Append(queue[q], hand[w].c) ELSE queue[q]]
  BY <1>1 DEF ReturnToSend
<1> SUFFICES ASSUME NEW q \in Queues
             PROVE  Len(queue'[q]) + Cardinality(Held(q[2])') <= MaxQueue + NumWorkers
  BY DEF QueueBound
<1>3. p \in Addrs
  BY <1>1, <1>2 DEF BaseInv, ThreadInv
<1>4. \A v \in Workers : hand'[v].addr = IF v = w THEN None ELSE hand[v].addr
  BY <1>2 DEF BaseInv, TypeOK, NoHand
<1>5. Len(queue[q]) \in Nat /\ Len(queue'[q]) \in Nat
  BY DEF BaseInv, TypeOK
<1>6. Len(queue[q]) + Cardinality(Held(q[2])) <= MaxQueue + NumWorkers
  BY DEF QueueBound
<1>7. MaxQueue \in Nat /\ NumWorkers \in Nat
  BY SprayerAssumption
<1>8. CASE q[2] = p
  <2>1. Held(q[2])' = Held(q[2]) \ {w} /\ w \in Held(q[2]) /\ Held(q[2]) \subseteq Workers
    BY <1>1, <1>3, <1>4, <1>8, QueueParts DEF Held
  <2>2. IsFiniteSet(Held(q[2])) /\ Cardinality(Held(q[2])) \in Nat
    BY <2>1, HeldBound
  <2>3. Cardinality(Held(q[2])') = Cardinality(Held(q[2])) - 1
    BY <2>1, <2>2, FS_RemoveElement
  <2>4. Len(queue'[q]) <= Len(queue[q]) + 1
    <3>1. queue[q] \in Seq(Chunk) /\ hand[w].c \in Chunk
      BY DEF BaseInv, TypeOK
    <3>2. Len(Append(queue[q], hand[w].c)) = Len(queue[q]) + 1
      BY <3>1, AppendProperties
    <3>3. queue'[q] = queue[q] \/ queue'[q] = Append(queue[q], hand[w].c)
      BY <1>2
    <3> QED BY <1>5, <3>2, <3>3
  <2> QED BY <1>5, <1>6, <1>7, <2>2, <2>3, <2>4
<1>9. CASE q[2] # p
  <2>1. Held(q[2])' = Held(q[2])
    BY <1>1, <1>4, <1>9, QueueParts DEF Held
  <2>2. queue'[q] = queue[q]
    BY <1>2, <1>3, <1>9, OneQueue
  <2> QED BY <1>6, <2>1, <2>2
<1> QED BY <1>8, <1>9

\* A chunk is added below the limit, or in exchange for the oldest.
LEMMA AddChunkBound ==
    ASSUME BaseInv, BaseInv', QueueBound, NEW t \in Threads, AddChunk(t)
    PROVE  QueueBound'
<1>1. PICK r : r = Head(todo[t])
  OBVIOUS
<1>2. /\ queue' = [queue EXCEPT ![r] = Bounded(Append(queue[r], Taken))]
      /\ hand' = hand
  BY <1>1 DEF AddChunk
<1> SUFFICES ASSUME NEW q \in Queues
             PROVE  Len(queue'[q]) + Cardinality(Held(q[2])') <= MaxQueue + NumWorkers
  BY DEF QueueBound
<1>3. Held(q[2])' = Held(q[2]) /\ Held(q[2]) \subseteq Workers
  BY <1>2 DEF Held
<1>4. Cardinality(Held(q[2])) \in 0 .. NumWorkers
  BY <1>3, HeldBound
<1>5. Len(queue[q]) \in Nat /\ Len(queue'[q]) \in Nat
  BY DEF BaseInv, TypeOK
<1>6. Len(queue[q]) + Cardinality(Held(q[2])) <= MaxQueue + NumWorkers
  BY DEF QueueBound
<1>7. MaxQueue \in Nat /\ NumWorkers \in Nat
  BY SprayerAssumption
<1>8. Len(queue'[q]) <= Len(queue[q]) \/ Len(queue'[q]) <= MaxQueue
  <2>1. CASE q # r
    BY <1>2, <1>5, <2>1 DEF BaseInv, TypeOK
  <2>2. CASE q = r
    <3>1. queue[q] \in Seq(Chunk) /\ Taken \in Chunk
      BY PoolTypes DEF BaseInv, TypeOK
    <3>2. PICK s : s = Append(queue[q], Taken)
      OBVIOUS
    <3>3. s \in Seq(Chunk) /\ s # <<>> /\ Len(s) = Len(queue[q]) + 1
      BY <3>1, <3>2, AppendProperties
    <3>4. Len(Tail(s)) = Len(s) - 1
      BY <3>3, HeadTailProperties
    <3>5. queue'[q] = IF Len(s) > MaxQueue THEN Tail(s) ELSE s
      BY <1>2, <2>2, <3>2 DEF BaseInv, TypeOK, Bounded
    <3> QED BY <1>5, <1>7, <3>3, <3>4, <3>5
  <2> QED BY <2>1, <2>2
<1> QED BY <1>3, <1>4, <1>5, <1>6, <1>7, <1>8

\* Every step keeps the bound.
LEMMA BoundStep ==
    ASSUME Apart, BaseInv, BaseInv', QueueBound, [Next]_vars PROVE QueueBound'
<1>1. ASSUME UNCHANGED <<queue, hand>> PROVE QueueBound'
  BY <1>1 DEF QueueBound, Held
<1>2. CASE UNCHANGED vars
  BY <1>1, <1>2 DEF vars
<1>3. ASSUME NEW w \in Workers, WorkerStep(w) PROVE QueueBound'
  <2>1. CASE Start(w) \/ RecvNothing(w) \/ NothingToSend(w)
    BY <1>1, <2>1 DEF Start, RecvNothing, NothingToSend, queueVars
  <2>2. CASE (\E a \in Anns : RecvAnn(w, a)) \/ (\E p \in Peers : RecvRequest(w, p))
    BY <1>1, <2>2 DEF RecvAnn, RecvRequest, queueVars
  <2>3. CASE Subscribe(w)
    <3>1. PICK p : queue' = [q \in Queues |-> IF q \in Renewed(p) THEN <<>> ELSE queue[q]]
      BY <2>3 DEF Subscribe
    <3>2. hand' = hand
      BY <2>3 DEF Subscribe
    <3>3. \A q \in Queues : Len(queue[q]) \in Nat
      BY DEF BaseInv, TypeOK
    <3>4. \A q \in Queues : Len(queue'[q]) <= Len(queue[q])
      BY <3>1, <3>3
    <3> QED BY <3>2, <3>4, BoundFrame
  <2>4. CASE \E q \in Queues : GetToSend(w, q)
    BY <2>4, GetToSendBound
  <2>5. CASE \E n \in 0 .. Cap : Send(w, n)
    <3>1. PICK n \in 0 .. Cap : Send(w, n)
      BY <2>5
    <3>2. PICK c : c = Advance(hand[w].c, n)
      OBVIOUS
    <3>3. /\ queue' = queue
          /\ \/ hand' = [hand EXCEPT ![w] = NoHand]
             \/ hand' = [hand EXCEPT ![w].c = c]
      BY <3>1, <3>2 DEF Send
    <3>4. \A v \in Workers : hand'[v].addr \in {hand[v].addr, None}
      <4>1. CASE hand' = [hand EXCEPT ![w] = NoHand]
        BY <4>1 DEF BaseInv, TypeOK, NoHand
      <4>2. CASE hand' = [hand EXCEPT ![w].c = c]
        <5>1. hand \in [Workers -> [c : Chunk, addr : Addrs \cup {None}]]
          BY DEF BaseInv, TypeOK
        <5>2. [hand[w] EXCEPT !.c = c] = [c |-> c, addr |-> hand[w].addr]
          BY <5>1
        <5>3. hand' = [hand EXCEPT ![w] = [c |-> c, addr |-> hand[w].addr]]
          BY <4>2, <5>2
        <5> QED BY <5>1, <5>3
      <4> QED BY <3>3, <4>1, <4>2
    <3>5. \A q \in Queues : Len(queue[q]) \in Nat
      BY DEF BaseInv, TypeOK
    <3> QED BY <3>3, <3>4, <3>5, BoundFrame
  <2>6. CASE ReturnToSend(w)
    BY <2>6, ReturnToSendBound
  <2> QED BY <1>3, <2>1, <2>2, <2>3, <2>4, <2>5, <2>6 DEF WorkerStep
<1>4. ASSUME NEW t \in Threads, PushStep(t) PROVE QueueBound'
  <2>1. CASE LockQueue(t) \/ ReadSubs(t) \/ EndPush(t)
    BY <1>1, <2>1 DEF LockQueue, ReadSubs, EndPush, queueVars
  <2>2. CASE QueueAnn(t)
    <3>1. PICK r : r = Head(todo[t])
      OBVIOUS
    <3>2. PICK x : x = PushAnn(Last(queue[r]), Head(left[t]))
      OBVIOUS
    <3>3. /\ queue' = [queue EXCEPT ![r] = Append(ButLast(queue[r]), x)]
          /\ queue[r] # <<>> /\ Takes(Last(queue[r])) /\ left[t] # <<>> /\ hand' = hand
      BY <2>2, <3>1, <3>2 DEF QueueAnn, HasRoom
    <3>4. /\ todo[t] \in Seq(Queues) /\ todo[t] # <<>> /\ left[t] \in Seq(Anns)
          /\ queue \in [Queues -> Seq(Chunk)]
      BY <3>3 DEF BaseInv, TypeOK, ThreadInv
    <3>5. r \in Queues /\ queue[r] \in Seq(Chunk) /\ Head(left[t]) \in Anns
      BY <3>1, <3>3, <3>4
    <3>6. /\ Last(queue[r]) \in Chunk /\ ButLast(queue[r]) \in Seq(Chunk)
          /\ Len(ButLast(queue[r])) = Len(queue[r]) - 1 /\ Len(queue[r]) \in Nat
      BY <3>3, <3>5, Back
    <3>7. x \in Chunk
      BY <3>2, <3>3, <3>5, <3>6, PushAnnType
    <3>8. Len(Append(ButLast(queue[r]), x)) = Len(queue[r]) - 1 + 1
      BY <3>6, <3>7, AppendProperties
    <3>9. \A q \in Queues : Len(queue'[q]) <= Len(queue[q])
      <4>1. \A q \in Queues : Len(queue[q]) \in Nat
        BY DEF BaseInv, TypeOK
      <4>2. \A q \in Queues : queue'[q] = IF q = r THEN Append(ButLast(queue[r]), x) ELSE queue[q]
        BY <3>3, <3>4
      <4>3. Len(queue[r]) - 1 + 1 = Len(queue[r])
        BY <3>6
      <4>4. \A q \in Queues : Len(queue'[q]) = Len(queue[q])
        BY <3>8, <4>2, <4>3
      <4> QED BY <4>1, <4>4
    <3> QED BY <3>3, <3>9, BoundFrame
  <2>3. CASE AddChunk(t)
    BY <2>3, AddChunkBound
  <2> QED BY <1>4, <2>1, <2>2, <2>3 DEF PushStep
<1>5. CASE \E t \in Callers, a \in Anns : Call(t, a)
  BY <1>1, <1>5 DEF Call, queueVars
<1>6. CASE \E p \in Peers : TimeOut(p)
  BY <1>1, <1>6 DEF TimeOut, queueVars
<1> QED BY <1>2, <1>3, <1>4, <1>5, <1>6 DEF Next

\* What is queued for an address or in hand for it never exceeds the limit by more
\* than one chunk per thread, although return_to_send does not look at the limit:
\* if no spray_at address subscribes as well.
THEOREM QueuesBounded == ASSUME Apart PROVE Spec => []QueueBound
<1>1. Init => QueueBound
  <2> SUFFICES ASSUME Init, NEW q \in Queues
               PROVE  Len(queue[q]) + Cardinality(Held(q[2])) <= MaxQueue + NumWorkers
    BY DEF QueueBound
  <2>1. Len(queue[q]) = 0
    BY DEF Init
  <2>2. Held(q[2]) \subseteq Workers
    BY DEF Held
  <2>3. Cardinality(Held(q[2])) \in 0 .. NumWorkers
    BY <2>2, HeldBound
  <2> QED BY <2>1, <2>3, SprayerAssumption
<1>2. BaseInv /\ BaseInv' /\ QueueBound /\ [Next]_vars => QueueBound'
  BY BoundStep
<1> QED BY <1>1, <1>2, BaseInvariant, PTL DEF Spec

-----------------------------------------------------------------------------
(* Announcements in sequences, chunks and queues.                          *)

\* Nothing is in nothing.
LEMMA InEmpty ==
    /\ \A a : ~In(<<>>, a) /\ ~Queued(<<>>, a)
    /\ NoRepeat(<<>>) /\ Single(<<>>)
BY DEF In, Queued, NoRepeat, Single

\* One more at the end.
LEMMA InAppend ==
    ASSUME NEW S, NEW s \in Seq(S), NEW e \in S
    PROVE  /\ \A x : In(Append(s, e), x) <=> In(s, x) \/ x = e
           /\ NoRepeat(s) /\ ~In(s, e) => NoRepeat(Append(s, e))
<1>1. /\ Len(s) \in Nat /\ DOMAIN s = 1 .. Len(s) /\ DOMAIN Append(s, e) = 1 .. Len(s) + 1
      /\ \A i \in 1 .. Len(s) : Append(s, e)[i] = s[i]
      /\ Append(s, e)[Len(s) + 1] = e
  OBVIOUS
<1>2. \A i \in 1 .. Len(s) + 1 : i \in 1 .. Len(s) \/ i = Len(s) + 1
  BY <1>1
<1>3. \A i \in 1 .. Len(s) : i \in 1 .. Len(s) + 1
  BY <1>1
<1>4. Len(s) + 1 \in 1 .. Len(s) + 1
  BY <1>1
<1>5. \A x : In(Append(s, e), x) <=> In(s, x) \/ x = e
  BY <1>1, <1>2, <1>3, <1>4 DEF In
<1>6. ASSUME NoRepeat(s), ~In(s, e) PROVE NoRepeat(Append(s, e))
  BY <1>1, <1>2, <1>6 DEF In, NoRepeat
<1> QED BY <1>5, <1>6

\* One more at the front.
LEMMA InPrepend ==
    ASSUME NEW S, NEW s \in Seq(S), NEW e \in S
    PROVE  /\ \A x : In(<<e>> \o s, x) <=> In(s, x) \/ x = e
           /\ NoRepeat(s) /\ ~In(s, e) => NoRepeat(<<e>> \o s)
<1> DEFINE r == <<e>> \o s
<1>1. /\ Len(s) \in Nat /\ DOMAIN s = 1 .. Len(s) /\ DOMAIN r = 1 .. Len(s) + 1
      /\ r[1] = e /\ \A i \in 2 .. Len(s) + 1 : r[i] = s[i - 1]
  <2>1. <<e>> \in Seq(S) /\ Len(<<e>>) = 1 /\ <<e>>[1] = e
    OBVIOUS
  <2>2. /\ r \in Seq(S) /\ Len(r) = Len(<<e>>) + Len(s)
        /\ \A i \in 1 .. Len(<<e>>) + Len(s) :
             r[i] = IF i <= Len(<<e>>) THEN <<e>>[i] ELSE s[i - Len(<<e>>)]
    BY <2>1, ConcatProperties
  <2>3. Len(s) \in Nat /\ DOMAIN s = 1 .. Len(s) /\ DOMAIN r = 1 .. Len(r)
    BY <2>2
  <2>4. Len(r) = Len(s) + 1 /\ r[1] = e
    BY <2>1, <2>2, <2>3
  <2>5. \A i \in 2 .. Len(s) + 1 : r[i] = s[i - 1]
    BY <2>1, <2>2, <2>3
  <2> QED BY <2>3, <2>4, <2>5
<1> HIDE DEF r
<1>2. \A i \in 1 .. Len(s) + 1 : i = 1 \/ (i \in 2 .. Len(s) + 1 /\ i - 1 \in 1 .. Len(s))
  BY <1>1
<1>3. \A i \in 1 .. Len(s) : i + 1 \in 2 .. Len(s) + 1 /\ i + 1 \in 1 .. Len(s) + 1 /\ i + 1 - 1 = i
  BY <1>1
<1>4. 1 \in 1 .. Len(s) + 1
  BY <1>1
<1>5. \A x : In(r, x) <=> In(s, x) \/ x = e
  <2>1. ASSUME NEW x, In(r, x) PROVE In(s, x) \/ x = e
    BY <1>1, <1>2, <2>1 DEF In
  <2>2. ASSUME NEW x, In(s, x) PROVE In(r, x)
    <3>1. PICK i \in 1 .. Len(s) : s[i] = x
      BY <1>1, <2>2 DEF In
    <3>2. r[i + 1] = x /\ i + 1 \in DOMAIN r
      BY <1>1, <1>3, <3>1
    <3> QED BY <3>2 DEF In
  <2>3. In(r, e)
    BY <1>1, <1>4 DEF In
  <2> QED BY <2>1, <2>2, <2>3
<1>6. ASSUME NoRepeat(s), ~In(s, e) PROVE NoRepeat(r)
  <2> SUFFICES ASSUME NEW i \in 1 .. Len(s) + 1, NEW j \in 1 .. Len(s) + 1, r[i] = r[j]
               PROVE  i = j
    BY <1>1 DEF NoRepeat
  <2>1. \A k \in 1 .. Len(s) : s[k] # e
    BY <1>1, <1>6 DEF In
  <2>2. CASE i = 1 \/ j = 1
    BY <1>1, <1>2, <2>1, <2>2
  <2>3. CASE i # 1 /\ j # 1
    <3>1. i - 1 = j - 1
      BY <1>1, <1>2, <1>6, <2>3 DEF NoRepeat
    <3> QED BY <1>1, <3>1
  <2> QED BY <2>2, <2>3
<1> QED BY <1>5, <1>6 DEF r

\* One fewer at the front.
LEMMA InTail ==
    ASSUME NEW S, NEW s \in Seq(S), s # <<>>
    PROVE  /\ \A x : In(s, x) <=> x = Head(s) \/ In(Tail(s), x)
           /\ NoRepeat(s) => NoRepeat(Tail(s)) /\ ~In(Tail(s), Head(s))
<1>1. /\ Len(s) \in Nat \ {0} /\ DOMAIN s = 1 .. Len(s) /\ DOMAIN Tail(s) = 1 .. Len(s) - 1
      /\ Head(s) = s[1] /\ \A i \in 1 .. Len(s) - 1 : Tail(s)[i] = s[i + 1]
  OBVIOUS
<1>2. \A i \in 1 .. Len(s) : i = 1 \/ (i - 1 \in 1 .. Len(s) - 1 /\ i - 1 + 1 = i)
  BY <1>1
<1>3. \A i \in 1 .. Len(s) - 1 : i + 1 \in 1 .. Len(s) /\ i + 1 # 1
  BY <1>1
<1>4. 1 \in 1 .. Len(s)
  BY <1>1
<1>5. \A x : In(s, x) <=> x = Head(s) \/ In(Tail(s), x)
  <2>1. ASSUME NEW x, In(s, x) PROVE x = Head(s) \/ In(Tail(s), x)
    <3>1. PICK i \in 1 .. Len(s) : s[i] = x
      BY <1>1, <2>1 DEF In
    <3>2. CASE i = 1
      BY <1>1, <3>1, <3>2
    <3>3. CASE i # 1
      <4>1. i - 1 \in DOMAIN Tail(s) /\ Tail(s)[i - 1] = x
        BY <1>1, <1>2, <3>1, <3>3
      <4> QED BY <4>1 DEF In
    <3> QED BY <3>2, <3>3
  <2>2. ASSUME NEW x, In(Tail(s), x) PROVE In(s, x)
    BY <1>1, <1>3, <2>2 DEF In
  <2>3. In(s, Head(s))
    BY <1>1, <1>4 DEF In
  <2> QED BY <2>1, <2>2, <2>3
<1>6. ASSUME NoRepeat(s) PROVE NoRepeat(Tail(s)) /\ ~In(Tail(s), Head(s))
  <2>1. ASSUME NEW i \in 1 .. Len(s) - 1, NEW j \in 1 .. Len(s) - 1, Tail(s)[i] = Tail(s)[j]
        PROVE  i = j
    <3>1. i + 1 = j + 1
      BY <1>1, <1>3, <1>6, <2>1 DEF NoRepeat
    <3> QED BY <1>1, <3>1
  <2>2. ASSUME NEW i \in 1 .. Len(s) - 1 PROVE Tail(s)[i] # Head(s)
    BY <1>1, <1>3, <1>4, <1>6 DEF NoRepeat
  <2> QED BY <1>1, <2>1, <2>2 DEF NoRepeat, In
<1> QED BY <1>5, <1>6

\* An announcement is pushed into a chunk.
LEMMA InPushAnn ==
    ASSUME NEW c \in Chunk, NEW a \in Anns
    PROVE  /\ \A x : In(PushAnn(c, a).s, x) <=> In(c.s, x) \/ x = a
           /\ NoRepeat(c.s) /\ ~In(c.s, a) => NoRepeat(PushAnn(c, a).s)
<1>1. c.s \in Seq(Anns)
  BY ChunkParts
<1>2. PushAnn(c, a).s = <<a>> \o c.s \/ PushAnn(c, a).s = Append(c.s, a)
  BY DEF PushAnn
<1>3. CASE PushAnn(c, a).s = <<a>> \o c.s
  BY <1>1, <1>3, InPrepend
<1>4. CASE PushAnn(c, a).s = Append(c.s, a)
  BY <1>1, <1>4, InAppend
<1> QED BY <1>2, <1>3, <1>4

\* The first n of a chunk are sent: they are no more in it.
LEMMA InAdvance ==
    ASSUME NEW c \in Chunk, NEW n \in 0 .. Len(c.s)
    PROVE  /\ \A x : In(Advance(c, n).s, x) => In(c.s, x)
           /\ \A i \in 1 .. n : In(c.s, c.s[i])
           /\ NoRepeat(c.s) => /\ NoRepeat(Advance(c, n).s)
                               /\ \A i \in 1 .. n : ~In(Advance(c, n).s, c.s[i])
<1>1. c.s \in Seq(Anns)
  BY ChunkParts
<1>2. PICK r : r = Advance(c, n).s
  OBVIOUS
<1>3. /\ r \in Seq(Anns) /\ Len(r) = Len(c.s) - n
      /\ \A i \in 1 .. Len(c.s) - n : r[i] = c.s[n + i]
  BY <1>2, AdvanceType, ChunkParts
<1>4. /\ Len(c.s) \in Nat /\ DOMAIN c.s = 1 .. Len(c.s) /\ DOMAIN r = 1 .. Len(c.s) - n
  BY <1>1, <1>3
<1>5. /\ \A i \in 1 .. Len(c.s) - n : n + i \in 1 .. Len(c.s) /\ n + i \notin 1 .. n
      /\ \A i \in 1 .. n : i \in 1 .. Len(c.s)
      /\ \A i, j \in 1 .. Len(c.s) - n : n + i = n + j => i = j
  BY <1>4
<1>6. \A x : In(r, x) => In(c.s, x)
  BY <1>3, <1>4, <1>5 DEF In
<1>7. \A i \in 1 .. n : In(c.s, c.s[i])
  BY <1>4, <1>5 DEF In
<1>8. ASSUME NoRepeat(c.s) PROVE NoRepeat(r) /\ \A i \in 1 .. n : ~In(r, c.s[i])
  <2>1. NoRepeat(r)
    BY <1>3, <1>4, <1>5, <1>8, ZenonT(40) DEF NoRepeat
  <2>2. ASSUME NEW i \in 1 .. n, NEW j \in 1 .. Len(c.s) - n PROVE r[j] # c.s[i]
    BY <1>3, <1>4, <1>5, <1>8 DEF NoRepeat
  <2> QED BY <1>4, <2>1, <2>2 DEF In
<1> QED BY <1>2, <1>6, <1>7, <1>8

\* The chunk at the back of a queue is taken.
LEMMA QueuedButLast ==
    ASSUME NEW Q \in Seq(Chunk), Q # <<>>
    PROVE  /\ \A x : Queued(Q, x) <=> Queued(ButLast(Q), x) \/ In(Last(Q).s, x)
           /\ Single(Q) =>
                /\ Single(ButLast(Q)) /\ NoRepeat(Last(Q).s)
                /\ \A x \in Anns : ~(Queued(ButLast(Q), x) /\ In(Last(Q).s, x))
<1>1. /\ Len(Q) \in Nat \ {0} /\ DOMAIN Q = 1 .. Len(Q) /\ DOMAIN ButLast(Q) = 1 .. Len(Q) - 1
      /\ \A i \in 1 .. Len(Q) - 1 : ButLast(Q)[i] = Q[i]
      /\ Last(Q) = Q[Len(Q)]
  BY Back
<1>2. /\ \A i \in 1 .. Len(Q) : i \in 1 .. Len(Q) - 1 \/ i = Len(Q)
      /\ \A i \in 1 .. Len(Q) - 1 : i \in 1 .. Len(Q) /\ i # Len(Q)
      /\ Len(Q) \in 1 .. Len(Q)
  <2>1. \A m \in Nat \ {0} : /\ \A i \in 1 .. m : i \in 1 .. m - 1 \/ i = m
                            /\ \A i \in 1 .. m - 1 : i \in 1 .. m /\ i # m
                            /\ m \in 1 .. m
    OBVIOUS
  <2>2. PICK n \in Nat \ {0} : n = Len(Q)
    BY <1>1
  <2> QED BY ONLY <2>1, <2>2, n \in Nat \ {0}
<1>3. \A x : Queued(Q, x) <=> Queued(ButLast(Q), x) \/ In(Last(Q).s, x)
  BY <1>1, <1>2 DEF Queued
<1>4. ASSUME Single(Q)
      PROVE  /\ Single(ButLast(Q)) /\ NoRepeat(Last(Q).s)
             /\ \A x \in Anns : ~(Queued(ButLast(Q), x) /\ In(Last(Q).s, x))
  <2>1. /\ \A i \in 1 .. Len(Q) : NoRepeat(Q[i].s)
        /\ \A i, j \in 1 .. Len(Q) : \A a \in Anns : In(Q[i].s, a) /\ In(Q[j].s, a) => i = j
    BY <1>1, <1>4 DEF Single
  <2>2. Single(ButLast(Q)) /\ NoRepeat(Last(Q).s)
    BY <1>1, <1>2, <2>1 DEF Single
  <2>3. \A x \in Anns : ~(Queued(ButLast(Q), x) /\ In(Last(Q).s, x))
    BY <1>1, <1>2, <2>1 DEF Queued
  <2> QED BY <2>2, <2>3
<1> QED BY <1>3, <1>4

\* A chunk is put at the back of a queue.
LEMMA QueuedAppend ==
    ASSUME NEW Q \in Seq(Chunk), NEW c \in Chunk
    PROVE  /\ \A x : Queued(Append(Q, c), x) <=> Queued(Q, x) \/ In(c.s, x)
           /\ /\ Single(Q) /\ NoRepeat(c.s)
              /\ \A x \in Anns : ~(Queued(Q, x) /\ In(c.s, x))
              => Single(Append(Q, c))
<1>1. /\ Len(Q) \in Nat /\ DOMAIN Q = 1 .. Len(Q) /\ DOMAIN Append(Q, c) = 1 .. Len(Q) + 1
      /\ \A i \in 1 .. Len(Q) : Append(Q, c)[i] = Q[i]
      /\ Append(Q, c)[Len(Q) + 1] = c
  OBVIOUS
<1>2. /\ \A i \in 1 .. Len(Q) + 1 : i \in 1 .. Len(Q) \/ i = Len(Q) + 1
      /\ \A i \in 1 .. Len(Q) : i \in 1 .. Len(Q) + 1
      /\ Len(Q) + 1 \in 1 .. Len(Q) + 1
  BY <1>1
<1>3. \A x : Queued(Append(Q, c), x) <=> Queued(Q, x) \/ In(c.s, x)
  BY <1>1, <1>2 DEF Queued
<1>4. ASSUME Single(Q), NoRepeat(c.s), \A x \in Anns : ~(Queued(Q, x) /\ In(c.s, x))
      PROVE  Single(Append(Q, c))
  <2>1. /\ \A i \in 1 .. Len(Q) : NoRepeat(Q[i].s)
        /\ \A i, j \in 1 .. Len(Q) : \A a \in Anns : In(Q[i].s, a) /\ In(Q[j].s, a) => i = j
    BY <1>1, <1>4 DEF Single
  <2>2. \A i \in 1 .. Len(Q) : \A a \in Anns : ~(In(Q[i].s, a) /\ In(c.s, a))
    BY <1>1, <1>4 DEF Queued
  <2>3. \A i \in 1 .. Len(Q) + 1 : NoRepeat(Append(Q, c)[i].s)
    BY <1>1, <1>2, <1>4, <2>1
  <2>4. ASSUME NEW i \in 1 .. Len(Q) + 1, NEW j \in 1 .. Len(Q) + 1, NEW a \in Anns,
               In(Append(Q, c)[i].s, a), In(Append(Q, c)[j].s, a)
        PROVE  i = j
    <3>1. CASE i = Len(Q) + 1 /\ j = Len(Q) + 1
      BY <3>1
    <3>2. CASE i = Len(Q) + 1 /\ j \in 1 .. Len(Q)
      BY <1>1, <2>2, <2>4, <3>2
    <3>3. CASE i \in 1 .. Len(Q) /\ j = Len(Q) + 1
      BY <1>1, <2>2, <2>4, <3>3
    <3>4. CASE i \in 1 .. Len(Q) /\ j \in 1 .. Len(Q)
      BY <1>1, <2>1, <2>4, <3>4
    <3> QED BY <1>2, <3>1, <3>2, <3>3, <3>4
  <2> QED BY <1>1, <2>3, <2>4 DEF Single
<1> QED BY <1>3, <1>4

\* The oldest chunk of a queue is given up.
LEMMA QueuedTail ==
    ASSUME NEW Q \in Seq(Chunk), Q # <<>>
    PROVE  /\ \A x : Queued(Tail(Q), x) => Queued(Q, x)
           /\ Single(Q) => Single(Tail(Q))
<1>1. /\ Len(Q) \in Nat \ {0} /\ DOMAIN Q = 1 .. Len(Q) /\ DOMAIN Tail(Q) = 1 .. Len(Q) - 1
      /\ \A i \in 1 .. Len(Q) - 1 : Tail(Q)[i] = Q[i + 1]
  OBVIOUS
<1>2. /\ \A i \in 1 .. Len(Q) - 1 : i + 1 \in 1 .. Len(Q)
      /\ \A i, j \in 1 .. Len(Q) - 1 : i + 1 = j + 1 => i = j
  BY <1>1
<1>3. \A x : Queued(Tail(Q), x) => Queued(Q, x)
  BY <1>1, <1>2 DEF Queued
<1>4. ASSUME Single(Q) PROVE Single(Tail(Q))
  BY <1>1, <1>2, <1>4 DEF Single
<1> QED BY <1>3, <1>4

-----------------------------------------------------------------------------
(* Once to each address, action by action.                                 *)

\* Nothing is received and nothing placed.
LEMMA OwnFrame ==
    ASSUME OnceInv, arrived \subseteq arrived',
           \A t \in Threads : Own(t)' = Own(t) \/ Own(t)' = <<>>,
           \A p \in Addrs, a \in Anns : Placed(p, a)' => Placed(p, a),
           \A i \in DOMAIN pool' : pool'[i].s = <<>>
    PROVE  OwnInv'
<1>1. \A t \in Threads : \A a \in Anns : In(Own(t)', a) => In(Own(t), a)
  BY InEmpty
<1>2. \A t \in Threads : NoRepeat(Own(t)')
  BY InEmpty DEF OnceInv, OwnInv
<1> QED BY <1>1, <1>2 DEF OnceInv, OwnInv

\* A thread that does nothing while others place only what is not its own.
LEMMA DueFrame ==
    ASSUME OnceInv, NEW t \in Threads,
           pc'[t] = pc[t], todo'[t] = todo[t], left'[t] = left[t], batch'[t] = batch[t],
           Own(t)' = Own(t),
           \A p \in Addrs, a \in Anns : In(Own(t), a) /\ Placed(p, a)' => Placed(p, a)
    PROVE  (IF Pushing(t) THEN PushDue(t) ELSE IdleDue(t))'
<1>1. Pushing(t)' <=> Pushing(t)
  BY DEF Pushing
<1>2. CASE Pushing(t)
  <2>1. PushDue(t)
    BY <1>2 DEF OnceInv, DueInv
  <2>2. \A q \in Queues : (ToCome(t, q)' <=> ToCome(t, q)) /\ Due(t, q)' = Due(t, q)
    BY DEF ToCome, Due
  <2>3. \A q \in Queues, a \in Anns : In(Due(t, q), a) => In(Own(t), a)
    BY <2>1 DEF PushDue, Due
  <2>4. PushDue(t)'
    BY <2>1, <2>2, <2>3, QueueParts DEF PushDue
  <2> QED BY <1>1, <1>2, <2>4
<1>3. CASE ~Pushing(t)
  <2>1. IdleDue(t)'
    BY <1>3 DEF OnceInv, DueInv, IdleDue
  <2> QED BY <1>1, <1>3, <2>1
<1> QED BY <1>2, <1>3

\* Nothing moves.
LEMMA PlaceFrame ==
    ASSUME OnceInv, UNCHANGED <<queue, hand, sent>>
    PROVE  SingleInv' /\ \A p \in Addrs, a \in Anns : Placed(p, a)' <=> Placed(p, a)
BY DEF OnceInv, SingleInv, Placed, InHand

\* A thread that is not pushing and has nothing new.
LEMMA IdleFrame ==
    ASSUME OnceInv, NEW t \in Threads, ~Pushing(t), ~Pushing(t)',
           Own(t)' = Own(t) \/ Own(t)' = <<>>,
           \A p \in Addrs, a \in Anns : Placed(p, a)' => Placed(p, a)
    PROVE  (IF Pushing(t) THEN PushDue(t) ELSE IdleDue(t))'
<1>1. IdleDue(t)
  BY DEF OnceInv, DueInv
<1>2. IdleDue(t)'
  BY <1>1, InEmpty DEF IdleDue
<1> QED BY <1>2

\* ChunkPool::take: all chunks of the pool are empty.
LEMMA TakenEmpty ==
    ASSUME BaseInv, OnceInv
    PROVE  Taken.s = <<>> /\ \A i \in DOMAIN PoolTaken : PoolTaken[i].s = <<>>
<1>1. CASE pool = <<>>
  BY <1>1 DEF Taken, PoolTaken, NewChunk
<1>2. CASE pool # <<>>
  <2>1. pool \in Seq(Chunk) /\ \A i \in DOMAIN pool : pool[i].s = <<>>
    BY DEF BaseInv, TypeOK, OnceInv, OwnInv
  <2>2. /\ ButLast(pool) \in Seq(Chunk) /\ Last(pool) = pool[Len(pool)]
        /\ Len(pool) \in Nat \ {0} /\ Len(ButLast(pool)) = Len(pool) - 1
        /\ \A i \in 1 .. Len(pool) - 1 : ButLast(pool)[i] = pool[i]
    BY <1>2, <2>1, Back
  <2>3. /\ DOMAIN pool = 1 .. Len(pool) /\ DOMAIN ButLast(pool) = 1 .. Len(pool) - 1
    BY <2>1, <2>2
  <2>4. Last(pool).s = <<>>
    BY <2>1, <2>2, <2>3
  <2>5. \A i \in 1 .. Len(pool) - 1 : ButLast(pool)[i].s = <<>>
    BY <2>1, <2>2, <2>3
  <2> QED BY <1>2, <2>3, <2>4, <2>5 DEF Taken, PoolTaken
<1> QED BY <1>1, <1>2

\* start: the pool has empty chunks only.
LEMMA StartOnce ==
    ASSUME BaseInv, OnceInv, NEW w \in Workers, Start(w) PROVE OnceInv'
<1>1. /\ UNCHANGED <<subs, fresh, queue, hand, from, batch, todo, left, arrived, sent>>
      /\ pc' = [pc EXCEPT ![w] = "recv"] /\ pc[w] = "new"
      /\ rchunk' = [rchunk EXCEPT ![w] = Taken] /\ pool' = PoolTaken
  BY DEF Start, Goes, peerVars, pushVars
<1>2. SingleInv' /\ \A p \in Addrs, a \in Anns : Placed(p, a)' => Placed(p, a)
  BY <1>1, PlaceFrame
<1>3. Taken.s = <<>> /\ \A i \in DOMAIN PoolTaken : PoolTaken[i].s = <<>>
  BY TakenEmpty
<1>4. Own(w)' = <<>> /\ \A t \in Threads : t # w => Own(t)' = Own(t)
  BY <1>1, <1>3 DEF BaseInv, TypeOK, Own
<1>5. OwnInv'
  BY <1>1, <1>2, <1>3, <1>4, OwnFrame
<1>6. \A t \in Threads : t # w => pc'[t] = pc[t]
  BY <1>1 DEF BaseInv, TypeOK
<1>7. ~Pushing(w) /\ ~Pushing(w)' /\ w \in Threads
  BY <1>1, QueueParts DEF BaseInv, TypeOK, Pushing
<1>8. DueInv'
  <2>1. ASSUME NEW t \in Threads, t # w
        PROVE  (IF Pushing(t) THEN PushDue(t) ELSE IdleDue(t))'
    BY <1>1, <1>2, <1>4, <1>6, <2>1, DueFrame
  <2>2. (IF Pushing(w) THEN PushDue(w) ELSE IdleDue(w))'
    BY <1>2, <1>4, <1>7, IdleFrame
  <2> QED BY <2>1, <2>2 DEF DueInv
<1> QED BY <1>2, <1>5, <1>8 DEF OnceInv

\* An announcement comes in: it is nowhere yet.
LEMMA NewAnn ==
    ASSUME OnceInv, NEW a \in Anns, a \notin arrived
    PROVE  /\ \A t \in Threads : ~In(Own(t), a)
           /\ \A p \in Addrs : ~Placed(p, a)
BY DEF OnceInv, OwnInv

\* recv_slow, recv_gso: an announcement
LEMMA RecvAnnOnce ==
    ASSUME BaseInv, OnceInv, NEW w \in Workers, NEW a \in Anns, RecvAnn(w, a) PROVE OnceInv'
<1>1. /\ UNCHANGED <<subs, fresh, queue, pool, pc, hand, from, batch, todo, left, sent>>
      /\ arrived' = arrived \cup {a} /\ a \notin arrived /\ pc[w] = "recv"
      /\ rchunk' = [rchunk EXCEPT ![w].s = Append(@, a)]
  BY DEF RecvAnn, peerVars, queueVars, pushVars
<1>2. SingleInv' /\ \A p \in Addrs, x \in Anns : Placed(p, x)' <=> Placed(p, x)
  BY <1>1, PlaceFrame
<1>3. rchunk[w] \in Chunk /\ rchunk[w].s \in Seq(Anns) /\ w \in Threads
  BY ChunkParts, QueueParts DEF BaseInv, TypeOK
<1>4. Own(w)' = Append(Own(w), a) /\ \A t \in Threads : t # w => Own(t)' = Own(t)
  <2>1. [rchunk[w] EXCEPT !.s = Append(@, a)].s = Append(rchunk[w].s, a)
    BY <1>3 DEF Chunk
  <2>2. rchunk'[w].s = Append(rchunk[w].s, a) /\ \A v \in Workers : v # w => rchunk'[v] = rchunk[v]
    BY <1>1, <2>1 DEF BaseInv, TypeOK
  <2> QED BY <1>1, <2>2 DEF Own
<1>5. /\ \A t \in Threads : ~In(Own(t), a)
      /\ \A p \in Addrs : ~Placed(p, a)
  BY <1>1, NewAnn
<1>6. /\ \A x : In(Own(w)', x) <=> In(Own(w), x) \/ x = a
      /\ NoRepeat(Own(w)) => NoRepeat(Own(w)')
  <2>1. Own(w) \in Seq(Anns)
    BY <1>3 DEF Own
  <2> QED BY <1>3, <1>4, <1>5, <2>1, InAppend
<1>7. OwnInv'
  <2>1. \A t \in Threads : NoRepeat(Own(t)')
    BY <1>4, <1>6 DEF OnceInv, OwnInv
  <2>2. \A t, u \in Threads : \A x \in Anns : In(Own(t)', x) /\ In(Own(u)', x) => t = u
    BY <1>4, <1>5, <1>6 DEF OnceInv, OwnInv
  <2>3. \A t \in Threads : \A x \in Anns : In(Own(t)', x) => x \in arrived'
    BY <1>1, <1>4, <1>6 DEF OnceInv, OwnInv
  <2>4. \A p \in Addrs, x \in Anns : Placed(p, x)' => x \in arrived'
    BY <1>1, <1>2 DEF OnceInv, OwnInv
  <2>5. \A i \in DOMAIN pool' : pool'[i].s = <<>>
    BY <1>1 DEF OnceInv, OwnInv
  <2> QED BY <2>1, <2>2, <2>3, <2>4, <2>5 DEF OwnInv
<1>8. DueInv'
  <2>1. ASSUME NEW t \in Threads, t # w
        PROVE  (IF Pushing(t) THEN PushDue(t) ELSE IdleDue(t))'
    BY <1>1, <1>2, <1>4, <2>1, DueFrame
  <2>2. ~Pushing(w) /\ ~Pushing(w)'
    BY <1>1 DEF Pushing
  <2>3. IdleDue(w)
    BY <1>3, <2>2 DEF OnceInv, DueInv
  <2>4. IdleDue(w)'
    BY <1>2, <1>5, <1>6, <2>3 DEF IdleDue
  <2> QED BY <2>1, <2>2, <2>4 DEF DueInv
<1> QED BY <1>2, <1>7, <1>8 DEF OnceInv

\* recv_slow, recv_gso: nothing; maybe_subscribe
LEMMA RecvOtherOnce ==
    ASSUME BaseInv, OnceInv, NEW w \in Workers,
           RecvNothing(w) \/ \E p \in Peers : RecvRequest(w, p)
    PROVE  OnceInv'
<1>1. /\ UNCHANGED <<queue, pool, rchunk, hand, batch, todo, left, arrived, sent>>
      /\ pc[w] = "recv"
      /\ pc' = [pc EXCEPT ![w] = "take"] \/ pc' = [pc EXCEPT ![w] = "subscribe"]
  BY DEF RecvNothing, RecvRequest, Goes, peerVars, queueVars, pushVars
<1>2. SingleInv' /\ \A p \in Addrs, a \in Anns : Placed(p, a)' => Placed(p, a)
  BY <1>1, PlaceFrame
<1>3. \A t \in Threads : Own(t)' = Own(t)
  BY <1>1 DEF Own
<1>4. OwnInv'
  <2>1. \A i \in DOMAIN pool' : pool'[i].s = <<>>
    BY <1>1 DEF OnceInv, OwnInv
  <2> QED BY <1>1, <1>2, <1>3, <2>1, OwnFrame
<1>5. \A t \in Threads : t # w => pc'[t] = pc[t]
  BY <1>1 DEF BaseInv, TypeOK
<1>6. ~Pushing(w) /\ ~Pushing(w)' /\ w \in Threads
  BY <1>1, QueueParts DEF BaseInv, TypeOK, Pushing
<1>7. DueInv'
  <2>1. ASSUME NEW t \in Threads, t # w
        PROVE  (IF Pushing(t) THEN PushDue(t) ELSE IdleDue(t))'
    BY <1>1, <1>2, <1>3, <1>5, <2>1, DueFrame
  <2>2. (IF Pushing(w) THEN PushDue(w) ELSE IdleDue(w))'
    BY <1>2, <1>3, <1>6, IdleFrame
  <2> QED BY <2>1, <2>2 DEF DueInv
<1> QED BY <1>2, <1>4, <1>7 DEF OnceInv

\* incoming_subscription: queues are dropped, and new ones are empty.
LEMMA SubscribeOnce ==
    ASSUME BaseInv, OnceInv, NEW w \in Workers, Subscribe(w) PROVE OnceInv'
<1>1. PICK R : queue' = [q \in Queues |-> IF q \in R THEN <<>> ELSE queue[q]]
  BY DEF Subscribe
<1>2. /\ UNCHANGED <<pool, rchunk, hand, batch, todo, left, arrived, sent>>
      /\ pc[w] = "subscribe" /\ pc' = [pc EXCEPT ![w] = "take"]
  BY DEF Subscribe, Goes, pushVars
<1>3. \A q \in Queues : queue'[q] = queue[q] \/ queue'[q] = <<>>
  BY <1>1
<1>4. \A q \in Queues : \A a : Queued(queue'[q], a) => Queued(queue[q], a)
  BY <1>3, InEmpty
<1>5. \A v \in Workers : \A p, a : InHand(v, p, a)' <=> InHand(v, p, a)
  BY <1>2 DEF InHand
<1>6. \A p \in Addrs, a \in Anns : Placed(p, a)' => Placed(p, a)
  BY <1>2, <1>4, <1>5 DEF Placed
<1>7. SingleInv'
  <2>1. \A q \in Queues : Single(queue'[q])
    BY <1>3, InEmpty DEF OnceInv, SingleInv
  <2> QED BY <1>2, <1>4, <1>5, <2>1 DEF OnceInv, SingleInv
<1>8. \A t \in Threads : Own(t)' = Own(t)
  BY <1>2 DEF Own
<1>9. OwnInv'
  <2>1. \A i \in DOMAIN pool' : pool'[i].s = <<>>
    BY <1>2 DEF OnceInv, OwnInv
  <2> QED BY <1>2, <1>6, <1>8, <2>1, OwnFrame
<1>10. \A t \in Threads : t # w => pc'[t] = pc[t]
  BY <1>2 DEF BaseInv, TypeOK
<1>11. ~Pushing(w) /\ ~Pushing(w)' /\ w \in Threads
  BY <1>2, QueueParts DEF BaseInv, TypeOK, Pushing
<1>12. DueInv'
  <2>1. ASSUME NEW t \in Threads, t # w
        PROVE  (IF Pushing(t) THEN PushDue(t) ELSE IdleDue(t))'
    BY <1>2, <1>6, <1>8, <1>10, <2>1, DueFrame
  <2>2. (IF Pushing(w) THEN PushDue(w) ELSE IdleDue(w))'
    BY <1>6, <1>8, <1>11, IdleFrame
  <2> QED BY <2>1, <2>2 DEF DueInv
<1> QED BY <1>7, <1>9, <1>12 DEF OnceInv

\* get_to_send: a chunk goes from the queue to the hand.
LEMMA GetToSendOnce ==
    ASSUME Apart, BaseInv, OnceInv, NEW w \in Workers, NEW r \in Queues, GetToSend(w, r)
    PROVE  OnceInv'
<1>1. /\ UNCHANGED <<pool, rchunk, batch, todo, left, arrived, sent>>
      /\ pc[w] = "take" /\ pc' = [pc EXCEPT ![w] = "send"]
      /\ queue[r] # <<>>
      /\ hand' = [hand EXCEPT ![w] = [c |-> Last(queue[r]), addr |-> r[2]]]
      /\ queue' = [queue EXCEPT ![r] = ButLast(@)]
  BY DEF GetToSend, Goes, Sendable, peerVars, pushVars
<1>2. queue[r] \in Seq(Chunk) /\ r[2] \in Addrs
  BY QueueParts DEF BaseInv, TypeOK
<1>3. PICK B, c : B = ButLast(queue[r]) /\ c = Last(queue[r])
  OBVIOUS
<1>4. /\ \A x : Queued(queue[r], x) <=> Queued(B, x) \/ In(c.s, x)
      /\ Single(B) /\ NoRepeat(c.s)
      /\ \A x \in Anns : ~(Queued(B, x) /\ In(c.s, x))
  <2>1. Single(queue[r])
    BY DEF OnceInv, SingleInv
  <2> QED BY <1>1, <1>2, <1>3, <2>1, QueuedButLast
<1>5. queue'[r] = B /\ \A q \in Queues : q # r => queue'[q] = queue[q]
  BY <1>1, <1>3 DEF BaseInv, TypeOK
<1>6. hand'[w].c = c /\ hand'[w].addr = r[2] /\ \A v \in Workers : v # w => hand'[v] = hand[v]
  BY <1>1, <1>3 DEF BaseInv, TypeOK
<1>7. /\ \A p, a : InHand(w, p, a)' <=> p = r[2] /\ In(c.s, a)
      /\ \A v \in Workers : v # w => \A p, a : InHand(v, p, a)' <=> InHand(v, p, a)
  BY <1>6 DEF InHand
<1>8. \A p \in Addrs, a \in Anns : Placed(p, a)' => Placed(p, a)
  BY <1>1, <1>4, <1>5, <1>7 DEF Placed
<1>9. SingleInv'
  <2>1. \A q \in Queues : Single(queue'[q])
    BY <1>4, <1>5 DEF OnceInv, SingleInv
  <2>2. \A v \in Workers : NoRepeat(hand'[v].c.s)
    BY <1>4, <1>6 DEF OnceInv, SingleInv
  <2> SUFFICES ASSUME NEW p \in Addrs, NEW a \in Anns
               PROVE  /\ \A u, v \in Workers : InHand(u, p, a)' /\ InHand(v, p, a)' => u = v
                      /\ \A v \in Workers, q \in Queues :
                           q[2] = p /\ Queued(queue'[q], a) => ~InHand(v, p, a)'
                      /\ <<p, a>> \in sent' =>
                           /\ \A v \in Workers : ~InHand(v, p, a)'
                           /\ \A q \in Queues : q[2] = p => ~Queued(queue'[q], a)
    BY <2>1, <2>2 DEF SingleInv
  <2>3. /\ \A u, v \in Workers : InHand(u, p, a) /\ InHand(v, p, a) => u = v
        /\ \A v \in Workers, q \in Queues :
             q[2] = p /\ Queued(queue[q], a) => ~InHand(v, p, a)
        /\ <<p, a>> \in sent =>
             /\ \A v \in Workers : ~InHand(v, p, a)
             /\ \A q \in Queues : q[2] = p => ~Queued(queue[q], a)
    BY DEF OnceInv, SingleInv
  <2>4. \A u, v \in Workers : InHand(u, p, a)' /\ InHand(v, p, a)' => u = v
    BY <1>4, <1>7, <2>3
  <2>5. ASSUME NEW v \in Workers, NEW q \in Queues, q[2] = p, Queued(queue'[q], a)
        PROVE  ~InHand(v, p, a)'
    <3>1. Queued(queue[q], a)
      BY <1>4, <1>5, <2>5
    <3>2. CASE v # w
      BY <1>7, <2>3, <2>5, <3>1, <3>2
    <3>3. CASE v = w
      <4>1. p = r[2] => q = r
        BY <2>5, OneQueue
      <4> QED BY <1>4, <1>5, <1>7, <2>5, <3>3, <4>1
    <3> QED BY <3>2, <3>3
  <2>6. ASSUME <<p, a>> \in sent'
        PROVE  /\ \A v \in Workers : ~InHand(v, p, a)'
               /\ \A q \in Queues : q[2] = p => ~Queued(queue'[q], a)
    BY <1>1, <1>4, <1>5, <1>7, <2>3, <2>6
  <2> QED BY <2>4, <2>5, <2>6
<1>10. \A t \in Threads : Own(t)' = Own(t)
  BY <1>1 DEF Own
<1>11. OwnInv'
  <2>1. \A i \in DOMAIN pool' : pool'[i].s = <<>>
    BY <1>1 DEF OnceInv, OwnInv
  <2> QED BY <1>1, <1>8, <1>10, <2>1, OwnFrame
<1>12. \A t \in Threads : t # w => pc'[t] = pc[t]
  BY <1>1 DEF BaseInv, TypeOK
<1>13. ~Pushing(w) /\ ~Pushing(w)' /\ w \in Threads
  BY <1>1, QueueParts DEF BaseInv, TypeOK, Pushing
<1>14. DueInv'
  <2>1. ASSUME NEW t \in Threads, t # w
        PROVE  (IF Pushing(t) THEN PushDue(t) ELSE IdleDue(t))'
    BY <1>1, <1>8, <1>10, <1>12, <2>1, DueFrame
  <2>2. (IF Pushing(w) THEN PushDue(w) ELSE IdleDue(w))'
    BY <1>8, <1>10, <1>13, IdleFrame
  <2> QED BY <2>1, <2>2 DEF DueInv
<1> QED BY <1>9, <1>11, <1>14 DEF OnceInv

\* send_gso, send_slow: announcements go from the hand to the address.
LEMMA SendOnce ==
    ASSUME BaseInv, OnceInv, NEW w \in Workers, NEW n \in 0 .. Cap, Send(w, n)
    PROVE  OnceInv'
<1>1. PICK h : h = hand[w]
  OBVIOUS
<1>2. PICK c : c = Advance(h.c, n)
  OBVIOUS
<1>3. /\ UNCHANGED <<queue, rchunk, batch, todo, left, arrived>>
      /\ pc[w] = "send" /\ n \in 0 .. Len(h.c.s)
      /\ sent' = sent \cup {<<h.addr, h.c.s[i]>> : i \in 1 .. n}
      /\ \/ /\ pool' = Append(pool, c) /\ hand' = [hand EXCEPT ![w] = NoHand]
            /\ pc' = [pc EXCEPT ![w] = "take"] /\ c.s = <<>>
         \/ /\ pool' = pool /\ hand' = [hand EXCEPT ![w].c = c]
            /\ pc' = [pc EXCEPT ![w] = "return"]
  BY <1>1, <1>2 DEF Send, Goes, Done, peerVars, pushVars
<1>4. /\ h \in [c : Chunk, addr : Addrs \cup {None}] /\ h.c \in Chunk
      /\ h.addr \in Addrs /\ h.c.s \in Seq(Anns)
  BY <1>1, <1>3, ChunkParts DEF BaseInv, TypeOK, ThreadInv
<1>5. /\ \A x : In(c.s, x) => In(h.c.s, x)
      /\ \A i \in 1 .. n : In(h.c.s, h.c.s[i]) /\ ~In(c.s, h.c.s[i])
      /\ NoRepeat(c.s) /\ c \in Chunk
  <2>1. NoRepeat(h.c.s)
    BY <1>1 DEF OnceInv, SingleInv
  <2> QED BY <1>2, <1>3, <1>4, <2>1, InAdvance, AdvanceType
<1>6. /\ \A v \in Workers : v # w => hand'[v] = hand[v]
      /\ NoRepeat(hand'[w].c.s)
      /\ \A p \in Addrs, a \in Anns : InHand(w, p, a)' => p = h.addr /\ In(c.s, a)
  <2>1. CASE hand' = [hand EXCEPT ![w] = NoHand]
    <3>1. hand'[w] = NoHand /\ \A v \in Workers : v # w => hand'[v] = hand[v]
      BY <2>1 DEF BaseInv, TypeOK
    <3> QED BY <3>1, InEmpty DEF NoHand, InHand
  <2>2. CASE hand' = [hand EXCEPT ![w].c = c]
    <3>1. [hand[w] EXCEPT !.c = c] = [c |-> c, addr |-> h.addr]
      BY <1>1, <1>4
    <3>2. hand' = [hand EXCEPT ![w] = [c |-> c, addr |-> h.addr]]
      BY <2>2, <3>1
    <3>3. /\ hand'[w].c = c /\ hand'[w].addr = h.addr
          /\ \A v \in Workers : v # w => hand'[v] = hand[v]
      BY <3>2 DEF BaseInv, TypeOK
    <3> QED BY <1>5, <3>3 DEF InHand
  <2> QED BY <1>3, <2>1, <2>2
<1>7. \A v \in Workers : v # w => \A p, a : InHand(v, p, a)' <=> InHand(v, p, a)
  BY <1>6 DEF InHand
<1>8. \A p \in Addrs, a \in Anns : InHand(w, p, a)' => InHand(w, p, a)
  BY <1>1, <1>5, <1>6 DEF InHand
<1>9. \A p \in Addrs, a \in Anns : <<p, a>> \in sent' /\ <<p, a>> \notin sent =>
        InHand(w, p, a) /\ ~InHand(w, p, a)'
  <2> SUFFICES ASSUME NEW p \in Addrs, NEW a \in Anns, <<p, a>> \in sent', <<p, a>> \notin sent
               PROVE  InHand(w, p, a) /\ ~InHand(w, p, a)'
    OBVIOUS
  <2>1. PICK i \in 1 .. n : p = h.addr /\ a = h.c.s[i]
    BY <1>3
  <2> QED BY <1>1, <1>5, <1>6, <2>1 DEF InHand
<1>10. \A p \in Addrs, a \in Anns : Placed(p, a)' => Placed(p, a)
  BY <1>3, <1>7, <1>8, <1>9 DEF Placed
<1>11. SingleInv'
  <2>1. \A q \in Queues : Single(queue'[q])
    BY <1>3 DEF OnceInv, SingleInv
  <2>2. \A v \in Workers : NoRepeat(hand'[v].c.s)
    BY <1>6 DEF OnceInv, SingleInv
  <2> SUFFICES ASSUME NEW p \in Addrs, NEW a \in Anns
               PROVE  /\ \A u, v \in Workers : InHand(u, p, a)' /\ InHand(v, p, a)' => u = v
                      /\ \A v \in Workers, q \in Queues :
                           q[2] = p /\ Queued(queue'[q], a) => ~InHand(v, p, a)'
                      /\ <<p, a>> \in sent' =>
                           /\ \A v \in Workers : ~InHand(v, p, a)'
                           /\ \A q \in Queues : q[2] = p => ~Queued(queue'[q], a)
    BY <2>1, <2>2 DEF SingleInv
  <2>3. /\ \A u, v \in Workers : InHand(u, p, a) /\ InHand(v, p, a) => u = v
        /\ \A v \in Workers, q \in Queues :
             q[2] = p /\ Queued(queue[q], a) => ~InHand(v, p, a)
        /\ <<p, a>> \in sent =>
             /\ \A v \in Workers : ~InHand(v, p, a)
             /\ \A q \in Queues : q[2] = p => ~Queued(queue[q], a)
    BY DEF OnceInv, SingleInv
  <2>4. \A v \in Workers : InHand(v, p, a)' => InHand(v, p, a)
    BY <1>7, <1>8
  <2>5. /\ \A u, v \in Workers : InHand(u, p, a)' /\ InHand(v, p, a)' => u = v
        /\ \A v \in Workers, q \in Queues :
             q[2] = p /\ Queued(queue'[q], a) => ~InHand(v, p, a)'
    BY <1>3, <2>3, <2>4
  <2>6. ASSUME <<p, a>> \in sent'
        PROVE  /\ \A v \in Workers : ~InHand(v, p, a)'
               /\ \A q \in Queues : q[2] = p => ~Queued(queue'[q], a)
    <3>1. CASE <<p, a>> \in sent
      BY <1>3, <2>3, <2>4, <3>1
    <3>2. CASE <<p, a>> \notin sent
      <4>1. InHand(w, p, a) /\ ~InHand(w, p, a)'
        BY <1>9, <2>6, <3>2
      <4> QED BY <1>3, <2>3, <2>4, <4>1
    <3> QED BY <3>1, <3>2
  <2> QED BY <2>5, <2>6
<1>12. \A t \in Threads : Own(t)' = Own(t)
  BY <1>3 DEF Own
<1>13. OwnInv'
  <2>1. pool \in Seq(Chunk) /\ \A i \in DOMAIN pool : pool[i].s = <<>>
    BY DEF BaseInv, TypeOK, OnceInv, OwnInv
  <2>2. ASSUME pool' = Append(pool, c), c.s = <<>>
        PROVE  \A i \in DOMAIN pool' : pool'[i].s = <<>>
    <3>1. /\ DOMAIN pool = 1 .. Len(pool) /\ Len(pool) \in Nat
          /\ DOMAIN Append(pool, c) = 1 .. Len(pool) + 1
          /\ \A i \in 1 .. Len(pool) : Append(pool, c)[i] = pool[i]
          /\ Append(pool, c)[Len(pool) + 1] = c
      BY <1>5, <2>1
    <3>2. \A i \in 1 .. Len(pool) + 1 : i \in 1 .. Len(pool) \/ i = Len(pool) + 1
      BY <3>1
    <3> QED BY <2>1, <2>2, <3>1, <3>2
  <2>3. \A i \in DOMAIN pool' : pool'[i].s = <<>>
    BY <1>3, <2>1, <2>2
  <2> QED BY <1>3, <1>10, <1>12, <2>3, OwnFrame
<1>14. \A t \in Threads : t # w => pc'[t] = pc[t]
  BY <1>3 DEF BaseInv, TypeOK
<1>15. ~Pushing(w) /\ ~Pushing(w)' /\ w \in Threads
  BY <1>3, QueueParts DEF BaseInv, TypeOK, Pushing
<1>16. DueInv'
  <2>1. ASSUME NEW t \in Threads, t # w
        PROVE  (IF Pushing(t) THEN PushDue(t) ELSE IdleDue(t))'
    BY <1>3, <1>10, <1>12, <1>14, <2>1, DueFrame
  <2>2. (IF Pushing(w) THEN PushDue(w) ELSE IdleDue(w))'
    BY <1>10, <1>12, <1>15, IdleFrame
  <2> QED BY <2>1, <2>2 DEF DueInv
<1> QED BY <1>11, <1>13, <1>16 DEF OnceInv

\* The queues of the spray_at addresses: each comes once.
LEMMA ForcedQueues ==
    LET m == [i \in DOMAIN SprayAt |-> Forced(SprayAt[i])]
    IN  NoRepeat(m) /\ \A i \in DOMAIN m : m[i][1] = "force"
<1>1. \A i, j \in DOMAIN SprayAt : SprayAt[i] = SprayAt[j] => i = j
  BY SprayerAssumption
<1> QED BY <1>1 DEF NoRepeat, Forced

\* A push begins with what is nowhere yet.
LEMMA BeginDue ==
    ASSUME NEW t \in Threads, NEW m \in Seq(Queues), todo'[t] = m, NoRepeat(m),
           \A i \in DOMAIN m : m[i][1] = "force",
           pc'[t] = "force", left'[t] = <<>>, batch'[t] = Own(t)',
           \A p \in Addrs, a \in Anns : In(Own(t)', a) => ~Placed(p, a)'
    PROVE  (IF Pushing(t) THEN PushDue(t) ELSE IdleDue(t))'
<1>1. Pushing(t)'
  BY DEF Pushing
<1>2. \A q \in Queues : Due(t, q)' = Own(t)'
  BY DEF Due
<1>3. NoRepeat(left'[t]) /\ \A a \in Anns : ~In(left'[t], a)
  BY InEmpty
<1>4. PushDue(t)'
  BY <1>2, <1>3, QueueParts DEF PushDue
<1> QED BY <1>1, <1>4

\* run polls on, or begins to push.
LEMMA PollOrPushDue ==
    ASSUME BaseInv, OnceInv, NEW w \in Workers, PollOrPush(w), ~Pushing(w),
           UNCHANGED <<rchunk, left>>,
           \A p \in Addrs, a \in Anns : Placed(p, a)' => Placed(p, a)
    PROVE  DueInv' /\ \A t \in Threads : Own(t)' = Own(t)
<1>1. /\ \A t \in Threads :
           t # w => pc'[t] = pc[t] /\ todo'[t] = todo[t] /\ batch'[t] = batch[t]
      /\ pc'[w] \in {"force", "recv"}
  BY PollOrPushBase
<1>2. w \in Threads /\ w \notin Callers /\ left'[w] = <<>>
  BY QueueParts, SprayerAssumption DEF BaseInv, ThreadInv
<1>3. \A t \in Threads : Own(t)' = Own(t)
  BY <1>1 DEF Own
<1>4. IdleDue(w)
  BY <1>2 DEF OnceInv, DueInv
<1>5. ASSUME NEW t \in Threads, t # w
      PROVE  (IF Pushing(t) THEN PushDue(t) ELSE IdleDue(t))'
  BY <1>1, <1>3, <1>5, DueFrame
<1>6. (IF Pushing(w) THEN PushDue(w) ELSE IdleDue(w))'
  <2>1. CASE FullEnough(rchunk[w])
    <3>1. PICK m \in Seq(Queues) : m = [i \in DOMAIN SprayAt |-> Forced(SprayAt[i])]
      BY BeginPushType
    <3>2. NoRepeat(m) /\ \A i \in DOMAIN m : m[i][1] = "force"
      BY <3>1, ForcedQueues
    <3>3. /\ batch' = [batch EXCEPT ![w] = rchunk[w].s] /\ todo' = [todo EXCEPT ![w] = m]
          /\ pc' = [pc EXCEPT ![w] = "force"]
      BY <2>1, <3>1 DEF PollOrPush, BeginPush, Goes
    <3>4. batch'[w] = rchunk[w].s /\ todo'[w] = m /\ pc'[w] = "force"
      BY <1>2, <3>3 DEF BaseInv, TypeOK
    <3>5. batch'[w] = Own(w)'
      BY <1>3, <3>4 DEF Own
    <3>6. Own(w)' = Own(w)
      BY <1>2, <1>3
    <3>7. \A p \in Addrs, a \in Anns : In(Own(w)', a) => ~Placed(p, a)'
      BY <1>4, <3>6 DEF IdleDue
    <3> QED BY <1>2, <3>2, <3>4, <3>5, <3>7, BeginDue
  <2>2. CASE ~FullEnough(rchunk[w])
    <3>1. ~Pushing(w)'
      <4>1. pc' = [pc EXCEPT ![w] = "recv"]
        BY <2>2 DEF PollOrPush, Goes
      <4>2. pc'[w] = "recv"
        BY <1>2, <4>1 DEF BaseInv, TypeOK
      <4> QED BY <4>2 DEF Pushing
    <3> QED BY <1>2, <1>3, <3>1, IdleFrame
  <2> QED BY <2>1, <2>2
<1> QED BY <1>3, <1>5, <1>6 DEF DueInv

\* try_send: nothing
LEMMA NothingToSendOnce ==
    ASSUME BaseInv, OnceInv, NEW w \in Workers, NothingToSend(w) PROVE OnceInv'
<1>1. /\ UNCHANGED <<queue, pool, rchunk, hand, left, arrived, sent>>
      /\ pc[w] = "take" /\ PollOrPush(w)
  BY DEF NothingToSend, peerVars, queueVars
<1>2. SingleInv' /\ \A p \in Addrs, a \in Anns : Placed(p, a)' => Placed(p, a)
  BY <1>1, PlaceFrame
<1>3. ~Pushing(w)
  BY <1>1 DEF Pushing
<1>4. DueInv' /\ \A t \in Threads : Own(t)' = Own(t)
  BY <1>1, <1>2, <1>3, PollOrPushDue
<1>5. OwnInv'
  <2>1. \A i \in DOMAIN pool' : pool'[i].s = <<>>
    BY <1>1 DEF OnceInv, OwnInv
  <2> QED BY <1>1, <1>2, <1>4, <2>1, OwnFrame
<1> QED BY <1>2, <1>4, <1>5 DEF OnceInv

\* return_to_send: a chunk goes from the hand to the queue of its address.
LEMMA ReturnToSendOnce ==
    ASSUME Apart, BaseInv, OnceInv, NEW w \in Workers, ReturnToSend(w) PROVE OnceInv'
<1>1. PICK o, c : o = hand[w].addr /\ c = hand[w].c
  OBVIOUS
<1>2. /\ UNCHANGED <<pool, rchunk, left, arrived, sent>>
      /\ pc[w] = "return" /\ PollOrPush(w)
      /\ queue' = [q \in Queues |-> IF q \in ReturnTo(o) THEN Append(queue[q], c)
                                    ELSE queue[q]]
      /\ hand' = [hand EXCEPT ![w] = NoHand]
  BY <1>1 DEF ReturnToSend, peerVars
<1>3. o \in Addrs /\ c \in Chunk
  BY <1>1, <1>2 DEF BaseInv, TypeOK, ThreadInv
<1>4. hand'[w] = NoHand /\ \A v \in Workers : v # w => hand'[v] = hand[v]
  BY <1>2 DEF BaseInv, TypeOK
<1>5. /\ \A v \in Workers : \A p \in Addrs, a \in Anns :
           InHand(v, p, a)' => v # w /\ InHand(v, p, a)
      /\ \A p, a : InHand(w, p, a) <=> p = o /\ In(c.s, a)
  BY <1>1, <1>4, InEmpty DEF InHand, NoHand
<1>6. \A q \in Queues : \/ queue'[q] = queue[q]
                        \/ q[2] = o /\ queue'[q] = Append(queue[q], c)
  BY <1>2, <1>3, OneQueue
<1>7. NoRepeat(c.s) /\ \A q \in Queues : queue[q] \in Seq(Chunk) /\ Single(queue[q])
  BY <1>1 DEF OnceInv, SingleInv, BaseInv, TypeOK
<1>8. \A q \in Queues : \A a : Queued(queue'[q], a) =>
        Queued(queue[q], a) \/ (q[2] = o /\ In(c.s, a))
  <2> SUFFICES ASSUME NEW q \in Queues, NEW a, Queued(queue'[q], a)
               PROVE  Queued(queue[q], a) \/ (q[2] = o /\ In(c.s, a))
    OBVIOUS
  <2>1. CASE queue'[q] = queue[q]
    BY <2>1
  <2>2. CASE q[2] = o /\ queue'[q] = Append(queue[q], c)
    BY <1>3, <1>7, <2>2, QueuedAppend
  <2> QED BY <1>6, <2>1, <2>2
<1>9. \A p \in Addrs, a \in Anns : Placed(p, a)' => Placed(p, a)
  BY <1>2, <1>5, <1>8 DEF Placed
<1>10. SingleInv'
  <2>1. ASSUME NEW q \in Queues PROVE Single(queue'[q])
    <3>1. CASE queue'[q] = queue[q]
      BY <1>7, <3>1
    <3>2. CASE q[2] = o /\ queue'[q] = Append(queue[q], c)
      <4>1. \A x \in Anns : ~(Queued(queue[q], x) /\ In(c.s, x))
        BY <1>3, <1>5, <3>2 DEF OnceInv, SingleInv
      <4> QED BY <1>3, <1>7, <3>2, <4>1, QueuedAppend
    <3> QED BY <1>6, <3>1, <3>2
  <2>2. \A v \in Workers : NoRepeat(hand'[v].c.s)
    BY <1>4, InEmpty DEF OnceInv, SingleInv, NoHand
  <2> SUFFICES ASSUME NEW p \in Addrs, NEW a \in Anns
               PROVE  /\ \A u, v \in Workers : InHand(u, p, a)' /\ InHand(v, p, a)' => u = v
                      /\ \A v \in Workers, q \in Queues :
                           q[2] = p /\ Queued(queue'[q], a) => ~InHand(v, p, a)'
                      /\ <<p, a>> \in sent' =>
                           /\ \A v \in Workers : ~InHand(v, p, a)'
                           /\ \A q \in Queues : q[2] = p => ~Queued(queue'[q], a)
    BY <2>1, <2>2 DEF SingleInv
  <2>3. /\ \A u, v \in Workers : InHand(u, p, a) /\ InHand(v, p, a) => u = v
        /\ \A v \in Workers, q \in Queues :
             q[2] = p /\ Queued(queue[q], a) => ~InHand(v, p, a)
        /\ <<p, a>> \in sent =>
             /\ \A v \in Workers : ~InHand(v, p, a)
             /\ \A q \in Queues : q[2] = p => ~Queued(queue[q], a)
    BY DEF OnceInv, SingleInv
  <2>4. \A v \in Workers : InHand(v, p, a)' => v # w /\ InHand(v, p, a)
    BY <1>5
  <2>5. \A q \in Queues : q[2] = p /\ Queued(queue'[q], a) =>
          Queued(queue[q], a) \/ InHand(w, p, a)
    BY <1>5, <1>8
  <2>6. UNCHANGED sent
    BY <1>2
  <2> QED BY <2>3, <2>4, <2>5, <2>6
<1>11. ~Pushing(w)
  BY <1>2 DEF Pushing
<1>12. DueInv' /\ \A t \in Threads : Own(t)' = Own(t)
  BY <1>2, <1>9, <1>11, PollOrPushDue
<1>13. OwnInv'
  <2>1. \A i \in DOMAIN pool' : pool'[i].s = <<>>
    BY <1>2 DEF OnceInv, OwnInv
  <2> QED BY <1>2, <1>9, <1>12, <2>1, OwnFrame
<1> QED BY <1>10, <1>12, <1>13 DEF OnceInv

\* The process sprays an announcement.
LEMMA CallOnce ==
    ASSUME BaseInv, OnceInv, NEW t \in Callers, NEW a \in Anns, Call(t, a) PROVE OnceInv'
<1>1. PICK m \in Seq(Queues) : m = [i \in DOMAIN SprayAt |-> Forced(SprayAt[i])]
  BY BeginPushType
<1>2. NoRepeat(m) /\ \A i \in DOMAIN m : m[i][1] = "force"
  BY <1>1, ForcedQueues
<1>3. /\ UNCHANGED <<queue, pool, rchunk, hand, left, sent>>
      /\ pc[t] = "idle" /\ pc' = [pc EXCEPT ![t] = "force"]
      /\ arrived' = arrived \cup {a} /\ a \notin arrived
      /\ batch' = [batch EXCEPT ![t] = <<a>>] /\ todo' = [todo EXCEPT ![t] = m]
  BY <1>1 DEF Call, BeginPush, Goes, peerVars, queueVars
<1>4. t \in Threads /\ t \notin Workers
  BY SprayerAssumption DEF Threads
<1>5. /\ pc'[t] = "force" /\ batch'[t] = <<a>> /\ todo'[t] = m
      /\ \A u \in Threads :
           u # t => pc'[u] = pc[u] /\ todo'[u] = todo[u] /\ batch'[u] = batch[u]
  BY <1>3, <1>4 DEF BaseInv, TypeOK
<1>6. left'[t] = <<>>
  BY <1>3, <1>4 DEF BaseInv, ThreadInv, Pushing
<1>7. SingleInv' /\ \A p \in Addrs, x \in Anns : Placed(p, x)' <=> Placed(p, x)
  BY <1>3, PlaceFrame
<1>8. Own(t)' = <<a>> /\ \A u \in Threads : u # t => Own(u)' = Own(u)
  BY <1>3, <1>4, <1>5 DEF Own
<1>9. /\ \A u \in Threads : ~In(Own(u), a)
      /\ \A p \in Addrs : ~Placed(p, a)
  BY <1>3, NewAnn
<1>10. NoRepeat(<<a>>) /\ \A x : In(<<a>>, x) <=> x = a
  BY DEF NoRepeat, In
<1>11. OwnInv'
  <2>1. \A u \in Threads : NoRepeat(Own(u)')
    BY <1>8, <1>10 DEF OnceInv, OwnInv
  <2>2. \A u, v \in Threads : \A x \in Anns : In(Own(u)', x) /\ In(Own(v)', x) => u = v
    BY <1>8, <1>9, <1>10 DEF OnceInv, OwnInv
  <2>3. \A u \in Threads : \A x \in Anns : In(Own(u)', x) => x \in arrived'
    BY <1>3, <1>8, <1>10 DEF OnceInv, OwnInv
  <2>4. \A p \in Addrs, x \in Anns : Placed(p, x)' => x \in arrived'
    BY <1>3, <1>7 DEF OnceInv, OwnInv
  <2>5. \A i \in DOMAIN pool' : pool'[i].s = <<>>
    BY <1>3 DEF OnceInv, OwnInv
  <2> QED BY <2>1, <2>2, <2>3, <2>4, <2>5 DEF OwnInv
<1>12. DueInv'
  <2>1. ASSUME NEW u \in Threads, u # t
        PROVE  (IF Pushing(u) THEN PushDue(u) ELSE IdleDue(u))'
    BY <1>3, <1>5, <1>7, <1>8, <2>1, DueFrame
  <2>2. (IF Pushing(t) THEN PushDue(t) ELSE IdleDue(t))'
    <3>1. \A p \in Addrs, x \in Anns : In(Own(t)', x) => ~Placed(p, x)'
      BY <1>7, <1>8, <1>9, <1>10
    <3>2. batch'[t] = Own(t)'
      BY <1>5, <1>8
    <3> QED BY <1>2, <1>4, <1>5, <1>6, <3>1, <3>2, BeginDue
  <2> QED BY <2>1, <2>2 DEF DueInv
<1> QED BY <1>7, <1>11, <1>12 DEF OnceInv

\* push_anns: the next queue
LEMMA LockQueueOnce ==
    ASSUME BaseInv, OnceInv, NEW t \in Threads, LockQueue(t) PROVE OnceInv'
<1>1. /\ UNCHANGED <<queue, pool, pc, rchunk, hand, batch, arrived, sent>>
      /\ Pushing(t) /\ todo[t] # <<>> /\ left[t] = <<>>
      /\ \/ todo' = [todo EXCEPT ![t] = Tail(@)] /\ left' = left
         \/ left' = [left EXCEPT ![t] = batch[t]] /\ todo' = todo
  BY DEF LockQueue, peerVars, queueVars
<1>2. SingleInv' /\ \A p \in Addrs, a \in Anns : Placed(p, a)' <=> Placed(p, a)
  BY <1>1, PlaceFrame
<1>3. \A u \in Threads : Own(u)' = Own(u)
  BY <1>1 DEF Own
<1>4. OwnInv'
  <2>1. \A i \in DOMAIN pool' : pool'[i].s = <<>>
    BY <1>1 DEF OnceInv, OwnInv
  <2> QED BY <1>1, <1>2, <1>3, <2>1, OwnFrame
<1>5. \A u \in Threads : u # t => todo'[u] = todo[u] /\ left'[u] = left[u]
  BY <1>1 DEF BaseInv, TypeOK
<1>6. PushDue(t) /\ Pushing(t)' /\ todo[t] \in Seq(Queues) /\ NoRepeat(Own(t))
  BY <1>1 DEF OnceInv, DueInv, OwnInv, Pushing, BaseInv, TypeOK
<1>7. PushDue(t)'
  <2>1. CASE todo' = [todo EXCEPT ![t] = Tail(@)] /\ left' = left
    <3>1. todo'[t] = Tail(todo[t]) /\ left'[t] = <<>>
      BY <1>1, <2>1 DEF BaseInv, TypeOK
    <3>2. /\ NoRepeat(Tail(todo[t]))
          /\ \A x : In(Tail(todo[t]), x) => In(todo[t], x)
      BY <1>1, <1>6, InTail DEF PushDue
    <3>3. \A q \in Queues : (ToCome(t, q)' => ToCome(t, q)) /\ Due(t, q)' = Due(t, q)
      BY <1>1, <1>3, <3>1, <3>2 DEF ToCome, Due
    <3>4. pc[t] = "force" => \A i \in DOMAIN Tail(todo[t]) : Tail(todo[t])[i][1] = "force"
      <4>1. /\ DOMAIN Tail(todo[t]) = 1 .. Len(todo[t]) - 1 /\ DOMAIN todo[t] = 1 .. Len(todo[t])
            /\ \A i \in 1 .. Len(todo[t]) - 1 : Tail(todo[t])[i] = todo[t][i + 1]
            /\ Len(todo[t]) \in Nat
        BY <1>1, <1>6
      <4>2. \A i \in 1 .. Len(todo[t]) - 1 : i + 1 \in 1 .. Len(todo[t])
        BY <4>1
      <4> QED BY <1>6, <4>1, <4>2 DEF PushDue
    <3>5. NoRepeat(left'[t]) /\ \A a \in Anns : ~In(left'[t], a)
      BY <3>1, InEmpty
    <3> QED BY <1>1, <1>2, <1>3, <1>6, <3>1, <3>2, <3>3, <3>4, <3>5, QueueParts DEF PushDue
  <2>2. CASE left' = [left EXCEPT ![t] = batch[t]] /\ todo' = todo
    <3>1. left'[t] = Own(t) /\ todo'[t] = todo[t]
      BY <1>6, <2>2 DEF BaseInv, TypeOK, PushDue
    <3>2. \A q \in Queues : (ToCome(t, q)' => ToCome(t, q)) /\ Due(t, q)' = Due(t, q)
      BY <1>1, <1>3, <3>1 DEF ToCome, Due
    <3> QED BY <1>1, <1>2, <1>3, <1>6, <3>1, <3>2, QueueParts DEF PushDue
  <2> QED BY <1>1, <2>1, <2>2
<1>8. DueInv'
  <2>1. ASSUME NEW u \in Threads, u # t
        PROVE  (IF Pushing(u) THEN PushDue(u) ELSE IdleDue(u))'
    BY <1>1, <1>2, <1>3, <1>5, <2>1, DueFrame
  <2> QED BY <1>6, <1>7, <2>1 DEF DueInv
<1> QED BY <1>2, <1>4, <1>8 DEF OnceInv

\* SendQueue::push_ann: an announcement goes into the queue it was due for.
LEMMA QueueAnnOnce ==
    ASSUME Apart, BaseInv, OnceInv, NEW t \in Threads, QueueAnn(t) PROVE OnceInv'
<1>1. PICK q, a : q = Head(todo[t]) /\ a = Head(left[t])
  OBVIOUS
<1>2. /\ UNCHANGED <<pool, pc, rchunk, hand, batch, arrived, sent>>
      /\ left[t] # <<>> /\ queue[q] # <<>>
      /\ queue' = [queue EXCEPT ![q] = Append(ButLast(@), PushAnn(Last(@), a))]
      /\ left' = [left EXCEPT ![t] = Tail(@)]
      /\ todo' = [todo EXCEPT ![t] = IF Len(left[t]) = 1 THEN Tail(@) ELSE @]
  BY <1>1 DEF QueueAnn, HasRoom, peerVars
<1>3. /\ left[t] \in Seq(Anns) /\ todo[t] \in Seq(Queues) /\ todo[t] # <<>> /\ Pushing(t)
  BY <1>2 DEF BaseInv, TypeOK, ThreadInv
<1>4. q \in Queues /\ a \in Anns /\ queue[q] \in Seq(Chunk) /\ q[2] \in Addrs
  BY <1>1, <1>2, <1>3, QueueParts DEF BaseInv, TypeOK
<1>5. PushDue(t) /\ Pushing(t)'
  BY <1>2, <1>3 DEF OnceInv, DueInv, Pushing
<1>6. /\ \A x : In(left[t], x) <=> x = a \/ In(Tail(left[t]), x)
      /\ NoRepeat(Tail(left[t])) /\ ~In(Tail(left[t]), a)
  BY <1>1, <1>2, <1>3, <1>5, InTail DEF PushDue
<1>7. /\ \A x : In(todo[t], x) <=> x = q \/ In(Tail(todo[t]), x)
      /\ NoRepeat(Tail(todo[t])) /\ ~In(Tail(todo[t]), q)
  BY <1>1, <1>3, <1>5, InTail DEF PushDue
<1>8. In(Own(t), a) /\ ~Placed(q[2], a)
  BY <1>1, <1>2, <1>4, <1>5, <1>6, <1>7 DEF PushDue, ToCome, Due
<1>9. PICK B, c, d : B = ButLast(queue[q]) /\ c = Last(queue[q]) /\ d = PushAnn(c, a)
  OBVIOUS
<1>10. B \in Seq(Chunk) /\ c \in Chunk /\ d \in Chunk
  <2>1. B \in Seq(Chunk) /\ c \in Chunk
    BY <1>2, <1>4, <1>9, Back
  <2>2. Takes(c)
    BY <1>1, <1>9 DEF QueueAnn, HasRoom
  <2> QED BY <1>4, <1>9, <2>1, <2>2, PushAnnType
<1>11. /\ queue'[q] = Append(B, d) /\ \A r \in Queues : r # q => queue'[r] = queue[r]
  BY <1>2, <1>4, <1>9 DEF BaseInv, TypeOK
<1>12. /\ \A x : Queued(queue[q], x) <=> Queued(B, x) \/ In(c.s, x)
       /\ Single(B) /\ NoRepeat(c.s)
       /\ \A x \in Anns : ~(Queued(B, x) /\ In(c.s, x))
  <2>1. Single(queue[q])
    BY <1>4 DEF OnceInv, SingleInv
  <2> QED BY <1>2, <1>4, <1>9, <2>1, QueuedButLast
<1>13. ~Queued(queue[q], a)
  BY <1>4, <1>8 DEF Placed
<1>14. NoRepeat(d.s) /\ \A x : In(d.s, x) <=> In(c.s, x) \/ x = a
  BY <1>4, <1>9, <1>10, <1>12, <1>13, InPushAnn
<1>15. Single(queue'[q]) /\ \A x : Queued(queue'[q], x) <=> Queued(queue[q], x) \/ x = a
  <2>1. \A x \in Anns : ~(Queued(B, x) /\ In(d.s, x))
    BY <1>12, <1>13, <1>14
  <2>2. Single(Append(B, d)) /\ \A x : Queued(Append(B, d), x) <=> Queued(B, x) \/ In(d.s, x)
    BY <1>10, <1>12, <1>14, <2>1, QueuedAppend
  <2> QED BY <1>11, <1>12, <1>14, <2>2
<1>16. \A p \in Addrs, x \in Anns : Placed(p, x)' => Placed(p, x) \/ (p = q[2] /\ x = a)
  BY <1>2, <1>11, <1>15 DEF Placed, InHand
<1>17. SingleInv'
  <2>1. \A r \in Queues : Single(queue'[r])
    BY <1>11, <1>15 DEF OnceInv, SingleInv
  <2>2. \A v \in Workers : NoRepeat(hand'[v].c.s)
    BY <1>2 DEF OnceInv, SingleInv
  <2>3. \A v \in Workers, p \in Addrs, x \in Anns : InHand(v, p, x)' <=> InHand(v, p, x)
    BY <1>2 DEF InHand
  <2>4. /\ \A v \in Workers : ~InHand(v, q[2], a)
        /\ <<q[2], a>> \notin sent
    BY <1>4, <1>8 DEF Placed
  <2>5. ASSUME NEW p \in Addrs, NEW x \in Anns
        PROVE  /\ \A u, v \in Workers : InHand(u, p, x)' /\ InHand(v, p, x)' => u = v
               /\ \A v \in Workers, r \in Queues :
                    r[2] = p /\ Queued(queue'[r], x) => ~InHand(v, p, x)'
               /\ <<p, x>> \in sent' =>
                    /\ \A v \in Workers : ~InHand(v, p, x)'
                    /\ \A r \in Queues : r[2] = p => ~Queued(queue'[r], x)
    <3>1. /\ \A u, v \in Workers : InHand(u, p, x) /\ InHand(v, p, x) => u = v
          /\ \A v \in Workers, r \in Queues :
               r[2] = p /\ Queued(queue[r], x) => ~InHand(v, p, x)
          /\ <<p, x>> \in sent =>
               /\ \A v \in Workers : ~InHand(v, p, x)
               /\ \A r \in Queues : r[2] = p => ~Queued(queue[r], x)
      BY DEF OnceInv, SingleInv
    <3>2. \A r \in Queues : Queued(queue'[r], x) => Queued(queue[r], x) \/ (r = q /\ x = a)
      BY <1>11, <1>15
    <3> QED BY <1>2, <2>3, <2>4, <3>1, <3>2
  <2> QED BY <2>1, <2>2, <2>5 DEF SingleInv
<1>18. \A u \in Threads : Own(u)' = Own(u)
  BY <1>2 DEF Own
<1>19. OwnInv'
  <2>1. \A u \in Threads : \A x \in Anns : In(Own(u), x) => x \in arrived
    BY DEF OnceInv, OwnInv
  <2>2. \A p \in Addrs, x \in Anns : Placed(p, x)' => x \in arrived'
    BY <1>2, <1>8, <1>16, <2>1 DEF OnceInv, OwnInv
  <2> QED BY <1>2, <1>18, <2>2 DEF OnceInv, OwnInv
<1>20. left'[t] = Tail(left[t])
       /\ \A u \in Threads : u # t => left'[u] = left[u] /\ todo'[u] = todo[u]
  BY <1>2 DEF BaseInv, TypeOK
<1>21. \/ left'[t] # <<>> /\ todo'[t] = todo[t]
       \/ left'[t] = <<>> /\ todo'[t] = Tail(todo[t])
  <2>1. todo'[t] = IF Len(left[t]) = 1 THEN Tail(todo[t]) ELSE todo[t]
    BY <1>2 DEF BaseInv, TypeOK
  <2>2. Len(left[t]) = 1 <=> Tail(left[t]) = <<>>
    <3>1. PICK l \in Seq(Anns) : l = left[t]
      BY <1>3
    <3>2. l # <<>>
      BY <1>2, <3>1
    <3>3. Len(l) = 1 <=> Tail(l) = <<>>
      <4>1. Tail(l) \in Seq(Anns) /\ Len(Tail(l)) = Len(l) - 1 /\ Len(l) \in Nat
        BY ONLY l \in Seq(Anns), <3>2
      <4>2. Tail(l) = <<>> <=> Len(Tail(l)) = 0
        BY ONLY <4>1, EmptySeq
      <4> QED BY ONLY <4>1, <4>2
    <3> QED BY <3>1, <3>3
  <2> QED BY <1>20, <2>1, <2>2
<1>22. PushDue(t)'
  <2>1. batch'[t] = Own(t)'
    BY <1>2, <1>5, <1>18 DEF PushDue
  <2>2. NoRepeat(left'[t]) /\ \A x \in Anns : In(left'[t], x) => In(Own(t)', x)
    BY <1>5, <1>6, <1>18, <1>20 DEF PushDue
  <2>3. NoRepeat(todo'[t])
    BY <1>5, <1>7, <1>21 DEF PushDue
  <2>4. pc'[t] = "force" => \A i \in DOMAIN todo'[t] : todo'[t][i][1] = "force"
    <3>1. /\ DOMAIN Tail(todo[t]) = 1 .. Len(todo[t]) - 1 /\ DOMAIN todo[t] = 1 .. Len(todo[t])
          /\ \A i \in 1 .. Len(todo[t]) - 1 : Tail(todo[t])[i] = todo[t][i + 1]
          /\ Len(todo[t]) \in Nat
      BY <1>3
    <3>2. \A i \in 1 .. Len(todo[t]) - 1 : i + 1 \in 1 .. Len(todo[t])
      BY <3>1
    <3> QED BY <1>2, <1>5, <1>21, <3>1, <3>2 DEF PushDue
  <2>5. ASSUME NEW r \in Queues, NEW x \in Anns, ToCome(t, r)', In(Due(t, r)', x)
        PROVE  ~Placed(r[2], x)'
    <3>1. ToCome(t, r)
      BY <1>2, <1>7, <1>21, <2>5 DEF ToCome
    <3>2. CASE r = q
      <4>1. left'[t] # <<>> /\ todo'[t] = todo[t]
        <5>1. SUFFICES ASSUME todo'[t] = Tail(todo[t]) PROVE FALSE
          BY <1>21
        <5>2. pc[t] = "force" => q[1] = "force"
          <6>1. todo[t][1] = q /\ 1 \in DOMAIN todo[t]
            BY <1>1, <1>3
          <6> QED BY <1>5, <6>1 DEF PushDue
        <5> QED BY <1>2, <1>7, <2>5, <3>2, <5>1, <5>2 DEF ToCome
      <4>2. In(Tail(left[t]), x) /\ x # a
        BY <1>1, <1>6, <1>20, <2>5, <3>2, <4>1 DEF Due
      <4>3. ~Placed(q[2], x)
        BY <1>1, <1>2, <1>4, <1>5, <1>6, <3>1, <3>2, <4>2 DEF PushDue, Due
      <4> QED BY <1>4, <1>16, <3>2, <4>2, <4>3
    <3>3. CASE r # q
      <4>1. ~(left'[t] # <<>> /\ r = Head(todo'[t]))
        BY <1>1, <1>21, <3>3
      <4>2. In(Own(t), x) /\ Due(t, r) = Own(t)
        BY <1>1, <1>18, <2>5, <3>3, <4>1 DEF Due
      <4>3. ~Placed(r[2], x)
        BY <1>5, <3>1, <4>2 DEF PushDue
      <4>4. r[2] # q[2] /\ r[2] \in Addrs
        BY <1>4, <3>3, OneQueue, QueueParts
      <4> QED BY <1>16, <4>3, <4>4
    <3> QED BY <3>2, <3>3
  <2> QED BY <2>1, <2>2, <2>3, <2>4, <2>5 DEF PushDue
<1>23. DueInv'
  <2>1. ASSUME NEW u \in Threads, u # t
        PROVE  (IF Pushing(u) THEN PushDue(u) ELSE IdleDue(u))'
    <3>1. ~In(Own(u), a)
      BY <1>4, <1>8, <2>1 DEF OnceInv, OwnInv
    <3>2. \A p \in Addrs, x \in Anns : In(Own(u), x) /\ Placed(p, x)' => Placed(p, x)
      BY <1>16, <3>1
    <3> QED BY <1>2, <1>18, <1>20, <2>1, <3>2, DueFrame
  <2> QED BY <1>5, <1>22, <2>1 DEF DueInv
<1> QED BY <1>17, <1>19, <1>23 DEF OnceInv

\* SendQueue::push_ann: the chunk that is added is empty, and a chunk that is
\* given up takes its announcements with it.
LEMMA AddChunkOnce ==
    ASSUME BaseInv, OnceInv, NEW t \in Threads, AddChunk(t) PROVE OnceInv'
<1>1. PICK q : q = Head(todo[t])
  OBVIOUS
<1>2. /\ UNCHANGED <<pc, rchunk, hand, batch, todo, left, arrived, sent>>
      /\ left[t] # <<>> /\ pool' = PoolTaken
      /\ queue' = [queue EXCEPT ![q] = Bounded(Append(@, Taken))]
  BY <1>1 DEF AddChunk, peerVars, pushVars
<1>3. todo[t] \in Seq(Queues) /\ todo[t] # <<>>
  BY <1>2 DEF BaseInv, TypeOK, ThreadInv
<1>4. q \in Queues /\ queue[q] \in Seq(Chunk)
  BY <1>1, <1>3 DEF BaseInv, TypeOK
<1>5. Taken.s = <<>> /\ \A i \in DOMAIN PoolTaken : PoolTaken[i].s = <<>>
  BY TakenEmpty
<1>6. PICK c \in Chunk : c = Taken
  BY PoolTypes DEF BaseInv
<1>7. PICK A \in Seq(Chunk) : A = Append(queue[q], c)
  <2>1. c \in Chunk
    OBVIOUS
  <2>2. Append(queue[q], c) \in Seq(Chunk)
    BY ONLY <1>4, <2>1
  <2> QED BY <2>2
<1>8. A # <<>> /\ Single(A) /\ \A x : Queued(A, x) => Queued(queue[q], x)
  <2>1. A # <<>>
    BY <1>4, <1>7
  <2>2. NoRepeat(c.s) /\ \A x : ~In(c.s, x)
    BY <1>5, <1>6, InEmpty
  <2>3. Single(queue[q])
    BY <1>4 DEF OnceInv, SingleInv
  <2> QED BY <1>4, <1>7, <2>1, <2>2, <2>3, QueuedAppend
<1>9. Single(Bounded(A)) /\ \A x : Queued(Bounded(A), x) => Queued(queue[q], x)
  BY <1>8, QueuedTail DEF Bounded
<1>10. queue'[q] = Bounded(A) /\ \A r \in Queues : r # q => queue'[r] = queue[r]
  BY <1>2, <1>4, <1>6, <1>7 DEF BaseInv, TypeOK
<1>11. \A r \in Queues : Single(queue'[r]) /\ \A x : Queued(queue'[r], x) => Queued(queue[r], x)
  BY <1>9, <1>10 DEF OnceInv, SingleInv
<1>12. \A v \in Workers, p \in Addrs, x \in Anns : InHand(v, p, x)' <=> InHand(v, p, x)
  BY <1>2 DEF InHand
<1>13. \A p \in Addrs, x \in Anns : Placed(p, x)' => Placed(p, x)
  BY <1>2, <1>11, <1>12 DEF Placed
<1>14. SingleInv'
  BY <1>2, <1>11, <1>12 DEF OnceInv, SingleInv
<1>15. \A u \in Threads : Own(u)' = Own(u)
  BY <1>2 DEF Own
<1>16. OwnInv'
  BY <1>2, <1>5, <1>13, <1>15, OwnFrame
<1>17. DueInv'
  BY <1>2, <1>13, <1>15, DueFrame DEF DueInv
<1> QED BY <1>14, <1>16, <1>17 DEF OnceInv

\* push_anns: the queues of the list were to come.
LEMMA ReadSubsOnce ==
    ASSUME BaseInv, OnceInv, NEW t \in Threads, ReadSubs(t) PROVE OnceInv'
<1>1. PICK m \in Seq(Queues) : m = [i \in DOMAIN subs |-> Sub(subs[i])]
  BY SubQueues
<1>2. /\ UNCHANGED <<queue, pool, rchunk, hand, batch, left, arrived, sent>>
      /\ pc[t] = "force" /\ todo[t] = <<>>
      /\ todo' = [todo EXCEPT ![t] = m] /\ pc' = [pc EXCEPT ![t] = "subs"]
  BY <1>1 DEF ReadSubs, Goes, peerVars, queueVars
<1>3. NoRepeat(m) /\ \A q : In(m, q) => q[1] = "sub"
  <2>1. NoRepeat(m)
    BY <1>1, SubQueues
  <2>2. \A q : In(m, q) => q[1] = "sub"
    BY <1>1 DEF In, Sub
  <2> QED BY <2>1, <2>2
<1>4. /\ pc'[t] = "subs" /\ todo'[t] = m
      /\ \A u \in Threads : u # t => pc'[u] = pc[u] /\ todo'[u] = todo[u]
  BY <1>2 DEF BaseInv, TypeOK
<1>5. left[t] = <<>>
  BY <1>2 DEF BaseInv, ThreadInv
<1>6. SingleInv' /\ \A p \in Addrs, a \in Anns : Placed(p, a)' <=> Placed(p, a)
  BY <1>2, PlaceFrame
<1>7. \A u \in Threads : Own(u)' = Own(u)
  BY <1>2 DEF Own
<1>8. OwnInv'
  <2>1. \A i \in DOMAIN pool' : pool'[i].s = <<>>
    BY <1>2 DEF OnceInv, OwnInv
  <2> QED BY <1>2, <1>6, <1>7, <2>1, OwnFrame
<1>9. PushDue(t) /\ Pushing(t)'
  BY <1>2, <1>4 DEF OnceInv, DueInv, Pushing
<1>10. PushDue(t)'
  <2>1. \A q \in Queues : (ToCome(t, q)' => ToCome(t, q)) /\ Due(t, q)' = Due(t, q)
    BY <1>2, <1>3, <1>4, <1>5, <1>7 DEF ToCome, Due
  <2> QED BY <1>2, <1>3, <1>4, <1>6, <1>7, <1>9, <2>1, QueueParts DEF PushDue
<1>11. DueInv'
  <2>1. ASSUME NEW u \in Threads, u # t
        PROVE  (IF Pushing(u) THEN PushDue(u) ELSE IdleDue(u))'
    BY <1>2, <1>4, <1>6, <1>7, <2>1, DueFrame
  <2> QED BY <1>9, <1>10, <2>1 DEF DueInv
<1> QED BY <1>6, <1>8, <1>11 DEF OnceInv

\* push_anns: what was pushed is forgotten.
LEMMA EndPushOnce ==
    ASSUME BaseInv, OnceInv, NEW t \in Threads, EndPush(t) PROVE OnceInv'
<1>1. /\ UNCHANGED <<queue, pool, hand, todo, left, arrived, sent>>
      /\ batch' = [batch EXCEPT ![t] = <<>>]
      /\ rchunk' = [w \in Workers |-> IF w = t THEN NewChunk ELSE rchunk[w]]
      /\ pc' = [pc EXCEPT ![t] = IF t \in Workers THEN "recv" ELSE "idle"]
  BY DEF EndPush, Goes, peerVars, queueVars
<1>2. /\ pc'[t] \in {"recv", "idle"} /\ batch'[t] = <<>>
      /\ \A u \in Threads : u # t => pc'[u] = pc[u] /\ batch'[u] = batch[u]
  BY <1>1 DEF BaseInv, TypeOK
<1>3. Own(t)' = <<>> /\ \A u \in Threads : u # t => Own(u)' = Own(u)
  BY <1>1, <1>2 DEF Own, NewChunk
<1>4. SingleInv' /\ \A p \in Addrs, a \in Anns : Placed(p, a)' <=> Placed(p, a)
  BY <1>1, PlaceFrame
<1>5. OwnInv'
  <2>1. \A i \in DOMAIN pool' : pool'[i].s = <<>>
    BY <1>1 DEF OnceInv, OwnInv
  <2> QED BY <1>1, <1>3, <1>4, <2>1, OwnFrame
<1>6. DueInv'
  <2>1. ASSUME NEW u \in Threads, u # t
        PROVE  (IF Pushing(u) THEN PushDue(u) ELSE IdleDue(u))'
    BY <1>1, <1>2, <1>3, <1>4, <2>1, DueFrame
  <2>2. ~Pushing(t)' /\ IdleDue(t)'
    BY <1>2, <1>3, InEmpty DEF Pushing, IdleDue
  <2> QED BY <2>1, <2>2 DEF DueInv
<1> QED BY <1>4, <1>5, <1>6 DEF OnceInv

\* A step that changes no thread and moves nothing.
LEMMA StutterOnce ==
    ASSUME OnceInv,
           UNCHANGED <<queue, pool, pc, rchunk, hand, batch, todo, left, arrived, sent>>
    PROVE  OnceInv'
<1>1. SingleInv' /\ \A p \in Addrs, a \in Anns : Placed(p, a)' <=> Placed(p, a)
  BY PlaceFrame
<1>2. \A u \in Threads : Own(u)' = Own(u)
  BY DEF Own
<1>3. OwnInv'
  <2>1. \A i \in DOMAIN pool' : pool'[i].s = <<>>
    BY DEF OnceInv, OwnInv
  <2> QED BY <1>1, <1>2, <2>1, OwnFrame
<1>4. DueInv'
  BY <1>1, <1>2, DueFrame DEF DueInv
<1> QED BY <1>1, <1>3, <1>4 DEF OnceInv

\* Nothing has come in.
LEMMA OnceInit == Init => OnceInv
<1> SUFFICES ASSUME Init PROVE OnceInv
  OBVIOUS
<1>1. /\ \A t \in Threads : Own(t) = <<>> /\ ~Pushing(t)
      /\ \A q \in Queues : queue[q] = <<>>
      /\ \A w \in Workers : hand[w].c.s = <<>>
      /\ sent = {} /\ pool = <<>>
  BY DEF Init, Own, NewChunk, NoHand, Pushing, Threads
<1>2. /\ \A q \in Queues : Single(queue[q]) /\ \A a : ~Queued(queue[q], a)
      /\ \A w \in Workers : NoRepeat(hand[w].c.s) /\ \A p, a : ~InHand(w, p, a)
      /\ \A t \in Threads : NoRepeat(Own(t)) /\ \A a : ~In(Own(t), a)
  BY <1>1, InEmpty DEF InHand
<1>3. \A p, a : ~Placed(p, a)
  BY <1>1, <1>2 DEF Placed
<1>4. OwnInv
  BY <1>1, <1>2, <1>3 DEF OwnInv
<1>5. DueInv
  BY <1>1, <1>2 DEF DueInv, IdleDue
<1>6. SingleInv
  BY <1>1, <1>2 DEF SingleInv
<1> QED BY <1>4, <1>5, <1>6 DEF OnceInv

\* Every step keeps the invariant.
LEMMA OnceStep == Apart /\ BaseInv /\ OnceInv /\ [Next]_vars => OnceInv'
<1> SUFFICES ASSUME Apart, BaseInv, OnceInv, [Next]_vars PROVE OnceInv'
  OBVIOUS
<1>1. ASSUME NEW w \in Workers, WorkerStep(w) PROVE OnceInv'
  BY <1>1, StartOnce, RecvOtherOnce, SubscribeOnce, NothingToSendOnce, ReturnToSendOnce,
     RecvAnnOnce, GetToSendOnce, SendOnce DEF WorkerStep
<1>2. ASSUME NEW t \in Threads, PushStep(t) PROVE OnceInv'
  BY <1>2, LockQueueOnce, QueueAnnOnce, AddChunkOnce, ReadSubsOnce, EndPushOnce DEF PushStep
<1>3. ASSUME NEW t \in Callers, NEW a \in Anns, Call(t, a) PROVE OnceInv'
  BY <1>3, CallOnce
<1>4. ASSUME NEW p \in Peers, TimeOut(p) PROVE OnceInv'
  BY <1>4, StutterOnce DEF TimeOut, queueVars, pushVars
<1>5. CASE UNCHANGED vars
  BY <1>5, StutterOnce DEF vars
<1> QED BY <1>1, <1>2, <1>3, <1>4, <1>5 DEF Next

\* Where an announcement has one place, Places has one element at most.
LEMMA OnePlaceOnly ==
    ASSUME Apart, BaseInv, OnceInv, NEW p \in Addrs, NEW a \in Anns
    PROVE  Cardinality(Places(p, a)) <= 1
<1> DEFINE InQueues ==
               {x \in Queues \X (1 .. MaxQueue + NumWorkers) \X (1 .. Cap) :
                   /\ x[1][2] = p /\ x[2] <= Len(queue[x[1]])
                   /\ x[3] \in At(queue[x[1]][x[2]], a)}
           InHands == {x \in Workers \X (1 .. Cap) :
                          hand[x[1]].addr = p /\ x[2] \in At(hand[x[1]].c, a)}
           Out == {<<p, a>>} \cap sent
<1>1. Places(p, a) = InQueues \cup InHands \cup Out
  BY DEF Places
<1>2. ASSUME NEW x \in InQueues
      PROVE  /\ x[1] \in Queues /\ x[1][2] = p /\ x[2] \in DOMAIN queue[x[1]]
             /\ x[3] \in DOMAIN queue[x[1]][x[2]].s /\ queue[x[1]][x[2]].s[x[3]] = a
             /\ In(queue[x[1]][x[2]].s, a) /\ Queued(queue[x[1]], a)
             /\ x = <<x[1], x[2], x[3]>>
  <2>1. /\ x[1] \in Queues /\ x[1][2] = p /\ x[2] \in 1 .. MaxQueue + NumWorkers
        /\ x[2] <= Len(queue[x[1]]) /\ x[3] \in At(queue[x[1]][x[2]], a)
        /\ x = <<x[1], x[2], x[3]>>
    OBVIOUS
  <2>2. queue[x[1]] \in Seq(Chunk)
    BY <2>1 DEF BaseInv, TypeOK
  <2>3. x[2] \in DOMAIN queue[x[1]]
    BY <2>1, <2>2, SprayerAssumption
  <2> QED BY <2>1, <2>3 DEF At, In, Queued
<1>3. ASSUME NEW x \in InHands
      PROVE  /\ x[1] \in Workers /\ InHand(x[1], p, a)
             /\ x[2] \in DOMAIN hand[x[1]].c.s /\ hand[x[1]].c.s[x[2]] = a
             /\ x = <<x[1], x[2]>>
  BY DEF At, In, InHand
<1>4. \A x, y \in InQueues : x = y
  <2> SUFFICES ASSUME NEW x \in InQueues, NEW y \in InQueues PROVE x = y
    OBVIOUS
  <2> HIDE DEF InQueues
  <2>1. x[1] = y[1]
    BY <1>2, OneQueue
  <2>2. x[2] = y[2]
    <3>1. Single(queue[x[1]])
      BY <1>2 DEF OnceInv, SingleInv
    <3> QED BY <1>2, <2>1, <3>1 DEF Single
  <2>3. x[3] = y[3]
    <3>1. Single(queue[x[1]])
      BY <1>2 DEF OnceInv, SingleInv
    <3>2. NoRepeat(queue[x[1]][x[2]].s)
      BY <1>2, <3>1 DEF Single
    <3> QED BY <1>2, <2>1, <2>2, <3>2 DEF NoRepeat
  <2> QED BY <1>2, <2>1, <2>2, <2>3
<1>5. \A x, y \in InHands : x = y
  <2> SUFFICES ASSUME NEW x \in InHands, NEW y \in InHands PROVE x = y
    OBVIOUS
  <2> HIDE DEF InHands
  <2>1. x[1] = y[1]
    BY <1>3 DEF OnceInv, SingleInv
  <2>2. NoRepeat(hand[x[1]].c.s)
    BY <1>3 DEF OnceInv, SingleInv
  <2>3. x[2] = y[2]
    BY <1>3, <2>1, <2>2 DEF NoRepeat
  <2> QED BY <1>3, <2>1, <2>3
<1>6. /\ InQueues # {} => InHands = {} /\ Out = {}
      /\ InHands # {} => Out = {}
      /\ \A x, y \in Out : x = y
  <2> HIDE DEF InQueues, InHands
  <2>1. ASSUME NEW x \in InQueues, NEW y \in InHands PROVE FALSE
    BY <1>2, <1>3 DEF OnceInv, SingleInv
  <2>2. ASSUME NEW x \in InQueues, <<p, a>> \in sent PROVE FALSE
    BY <1>2, <2>2 DEF OnceInv, SingleInv
  <2>3. ASSUME NEW y \in InHands, <<p, a>> \in sent PROVE FALSE
    BY <1>3, <2>3 DEF OnceInv, SingleInv
  <2> QED BY <2>1, <2>2, <2>3
<1> HIDE DEF InQueues, InHands, Out
<1>7. \A x, y \in Places(p, a) : x = y
  BY <1>1, <1>4, <1>5, <1>6
<1>8. CASE Places(p, a) = {}
  BY <1>8, FS_EmptySet
<1>9. CASE Places(p, a) # {}
  <2>1. PICK x : Places(p, a) = {x}
    BY <1>7, <1>9
  <2>2. Cardinality({x}) = 1
    BY FS_Singleton
  <2> QED BY <2>1, <2>2
<1> QED BY <1>8, <1>9

\* While no spray_at address subscribes as well, no announcement is sent,
\* queued or in a worker's hand twice for one address: push_anns, try_send,
\* return_to_send and the pool of chunks repeat nothing.
THEOREM SprayedOnce == ASSUME Apart PROVE Spec => []AtMostOnce
<1>1. Init => OnceInv
  BY OnceInit
<1>2. BaseInv /\ OnceInv /\ [Next]_vars => OnceInv'
  BY OnceStep
<1>3. BaseInv /\ OnceInv => AtMostOnce
  BY OnePlaceOnly DEF AtMostOnce
<1> QED BY <1>1, <1>2, <1>3, BaseInvariant, PTL DEF Spec

=============================================================================
