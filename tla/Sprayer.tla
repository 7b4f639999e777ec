------------------------------ MODULE Sprayer ------------------------------
(***************************************************************************)
(* The sprayer: announcements that arrive from a feed or are pushed by the *)
(* process are queued for every subscriber and sent to it over UDP.        *)
(*                                                                         *)
(* A step is a section of code under one lock.  m (the list of             *)
(* subscribers) is read-locked for the whole second half of push_anns; a   *)
(* send queue is locked while a batch is added to it.  A chunk is the      *)
(* window between its two cursors: b is bcur and s the announcements up to *)
(* ecur, all counted in packets.  Addresses of subscribers are those of    *)
(* incoming_subscription or of the spray_at option (force_subscribe); each *)
(* subscriber has a queue of its own, named by its list and its address.   *)
(* Clocks are left out: fresh says that last_update_sec is less than       *)
(* SECONDS_UNTIL_SUB_TIMEOUT old, and that ends at any time.               *)
(***************************************************************************)
EXTENDS Integers, Sequences, FiniteSets

CONSTANTS
    NumWorkers, \* workers, the number of sprayer threads
    Callers,    \* other threads of the process, which call push_anns
    Peers,      \* addresses that may subscribe
    SprayAt,    \* the spray_at addresses, in their order
    Anns,       \* the announcements; each arrives at most once
    Cap,        \* ANN_PER_CHUNK
    Slack,      \* the 64 announcements a full enough chunk may lack
    MaxQueue,   \* MAX_SEND_QUEUE_CHUNKS_PER_PEER
    None

Workers == 0 .. NumWorkers - 1
Threads == Workers \cup Callers
ForceAddrs == {SprayAt[i] : i \in DOMAIN SprayAt}
Addrs == Peers \cup ForceAddrs
Sub(p) == <<"sub", p>>
Forced(p) == <<"force", p>>
Queues == {Sub(p) : p \in Peers} \cup {Forced(p) : p \in ForceAddrs}

ASSUME SprayerAssumption ==
    /\ NumWorkers \in Nat \ {0}
    /\ Workers \cap Callers = {}
    /\ SprayAt \in Seq(ForceAddrs)
    /\ \A i, j \in DOMAIN SprayAt : SprayAt[i] = SprayAt[j] => i = j
    /\ Cap \in Nat \ {0} /\ Slack \in 0 .. Cap - 1
    /\ MaxQueue \in Nat \ {0}
    /\ None \notin Addrs

VARIABLES
    subs,      \* SprayerMut.subscribers, their addresses in order
    fresh,     \* the subscribers that are not timed out
    queue,     \* SendQueue.q of each queue, its back last
    pool,      \* ChunkPool.q, its back last
    pc,        \* where a thread is
    rchunk,    \* SprayWorker.rchunk
    hand,      \* the chunk a worker is sending and the address it is for
    from,      \* the address a worker is subscribing
    batch,     \* the announcements a thread is pushing
    todo,      \* the queues it has not filled yet, the current one first
    left,      \* the announcements not yet in the current queue
    \* history
    arrived,   \* the announcements that have come in
    sent       \* <<address, announcement>> sent

queueVars == <<queue, pool>>
peerVars == <<subs, fresh>>
pushVars == <<batch, todo, left>>
vars == <<subs, fresh, queue, pool, pc, rchunk, hand, from,
          batch, todo, left, arrived, sent>>

Chunk == {c \in [b : 0 .. Cap, s : Seq(Anns)] : c.b + Len(c.s) <= Cap}
NoHand == [c |-> [b |-> 0, s |-> <<>>], addr |-> None]
Labels == {"new", "recv", "subscribe", "take", "send", "return",
           "idle", "force", "subs"}

-----------------------------------------------------------------------------
(* Chunks.                                                                 *)

NewChunk == [b |-> 0, s |-> <<>>]
ECur(c) == c.b + Len(c.s)

\* Chunk::push_ann: in front of the window if there is room, else behind it.
Takes(c) == c.b > 0 \/ ECur(c) < Cap
PushAnn(c, a) ==
    IF c.b > 0 THEN [b |-> c.b - 1, s |-> <<a>> \o c.s]
    ELSE [b |-> c.b, s |-> Append(c.s, a)]

\* Mutants: bcur is moved by a whole chunk only, or once more than sent.
AdvanceMutant(c, n) == IF n < Len(c.s) THEN c ELSE [b |-> c.b + n, s |-> <<>>]
AdvanceTooFarMutant(c, n) == [b |-> c.b + n + 1, s |-> SubSeq(c.s, n + 1, Len(c.s))]

\* What is left of a chunk of which n announcements are sent.
Advance(c, n) == [b |-> c.b + n, s |-> SubSeq(c.s, n + 1, Len(c.s))]

Last(q) == q[Len(q)]
ButLast(q) == SubSeq(q, 1, Len(q) - 1)

\* ChunkPool::take: the chunk at the back of the pool, or a new one.
Taken == IF pool = <<>> THEN NewChunk ELSE Last(pool)
PoolTaken == IF pool = <<>> THEN pool ELSE ButLast(pool)

-----------------------------------------------------------------------------
\* The variables have their types; no cursor of a chunk runs past its bytes.
TypeOK ==
    /\ subs \in Seq(Peers)
    /\ fresh \subseteq Peers
    /\ queue \in [Queues -> Seq(Chunk)]
    /\ pool \in Seq(Chunk)
    /\ pc \in [Threads -> Labels]
    /\ rchunk \in [Workers -> Chunk]
    /\ hand \in [Workers -> [c : Chunk, addr : Addrs \cup {None}]]
    /\ from \in [Workers -> Peers \cup {None}]
    /\ batch \in [Threads -> Seq(Anns)]
    /\ todo \in [Threads -> Seq(Queues)]
    /\ left \in [Threads -> Seq(Anns)]
    /\ arrived \subseteq Anns
    /\ sent \subseteq Addrs \X Anns

\* Sprayer::new.  The callers may push before the threads are started.
Init ==
    /\ subs = <<>> /\ fresh = {}
    /\ queue = [q \in Queues |-> <<>>]
    /\ pool = <<>>
    /\ pc = [t \in Threads |-> IF t \in Workers THEN "new" ELSE "idle"]
    /\ rchunk = [w \in Workers |-> NewChunk]
    /\ hand = [w \in Workers |-> NoHand]
    /\ from = [w \in Workers |-> None]
    /\ batch = [t \in Threads |-> <<>>]
    /\ todo = [t \in Threads |-> <<>>]
    /\ left = [t \in Threads |-> <<>>]
    /\ arrived = {} /\ sent = {}

Goes(t, label) == pc' = [pc EXCEPT ![t] = label]

\* The locks.  A reader of m is a thread in the second half of push_anns; all
\* other uses of m are a single step.
Reading == \E t \in Threads : pc[t] = "subs"
Locked(q) == \E t \in Threads : left[t] /= <<>> /\ Head(todo[t]) = q

-----------------------------------------------------------------------------
(* Sprayer::start and the receiving half of SprayWorker::run.              *)

\* start: the threads are launched one after the other, each with a chunk
\* from the pool the threads before it may have used by then.
Start(w) ==
    /\ pc[w] = "new"
    /\ \A v \in Workers : v < w => pc[v] /= "new"
    /\ rchunk' = [rchunk EXCEPT ![w] = Taken]
    /\ pool' = PoolTaken
    /\ Goes(w, "recv")
    /\ UNCHANGED <<peerVars, queue, hand, from, pushVars,
                   arrived, sent>>

\* recv_slow, recv_gso: the announcements of a feed are added to the chunk, as
\* many as there is room for.
RecvAnn(w, a) ==
    /\ pc[w] = "recv"
    /\ ECur(rchunk[w]) < Cap
    /\ a \notin arrived
    /\ arrived' = arrived \cup {a}
    /\ rchunk' = [rchunk EXCEPT ![w].s = Append(@, a)]
    /\ UNCHANGED <<peerVars, queueVars, pc, hand, from, pushVars, sent>>

\* recv_slow, recv_gso: nothing more has come in, or it is of no use (of a node
\* we are not subscribed to, no request, a wrong password).
RecvNothing(w) ==
    /\ pc[w] = "recv"
    /\ Goes(w, "take")
    /\ UNCHANGED <<peerVars, queueVars, rchunk, hand, from,
                   pushVars, arrived, sent>>

\* incoming_subscription, its read-locked half: the address is in the list.
Subscribed(p) == \E i \in DOMAIN subs : subs[i] = p

\* maybe_subscribe: a request with the right password.
RecvRequest(w, p) ==
    /\ pc[w] = "recv"
    /\ ECur(rchunk[w]) < Cap
    /\ IF Subscribed(p)
       THEN fresh' = fresh \cup {p} /\ Goes(w, "take") /\ UNCHANGED from
       ELSE from' = [from EXCEPT ![w] = p] /\ Goes(w, "subscribe") /\ UNCHANGED fresh
    /\ UNCHANGED <<subs, queueVars, rchunk, hand,
                   pushVars, arrived, sent>>

\* The write-locked half of incoming_subscription: the list is searched
\* again, entries that are timed out are removed on the way, and the
\* newcomer is added if it was not there.  A removed entry takes its queue
\* with it, and a new one comes with an empty queue.
\* Mutant: the list is not searched again.
PositionMutant(p) == Len(subs) + 1
Position(p) ==
    CHOOSE i \in 1 .. Len(subs) + 1 :
        /\ i <= Len(subs) => subs[i] = p
        /\ \A j \in 1 .. i - 1 : subs[j] /= p
Passed(p) == SubSeq(subs, 1, Position(p) - 1)
Live(s) ==
    LET walk[i \in 0 .. Len(s)] ==
            IF i = 0 THEN <<>>
            ELSE IF s[i] \in fresh THEN Append(walk[i - 1], s[i]) ELSE walk[i - 1]
    IN  walk[Len(s)]
Renewed(p) ==
    {Sub(Passed(p)[i]) : i \in {j \in DOMAIN Passed(p) : Passed(p)[j] \notin fresh}}
    \cup (IF Position(p) > Len(subs) THEN {Sub(p)} ELSE {})
Subscribe(w) ==
    LET p == from[w] IN
    /\ pc[w] = "subscribe"
    /\ ~Reading
    /\ subs' = Live(Passed(p)) \o
               (IF Position(p) > Len(subs) THEN <<p>>
                ELSE SubSeq(subs, Position(p), Len(subs)))
    /\ fresh' = fresh \cup {p}
    /\ queue' = [q \in Queues |-> IF q \in Renewed(p) THEN <<>> ELSE queue[q]]
    /\ from' = [from EXCEPT ![w] = None]
    /\ Goes(w, "take")
    /\ UNCHANGED <<pool, rchunk, hand, pushVars, arrived, sent>>

\* A subscriber has not been heard of for SECONDS_UNTIL_SUB_TIMEOUT.
TimeOut(p) ==
    /\ p \in fresh
    /\ fresh' = fresh \ {p}
    /\ UNCHANGED <<subs, queueVars, pc, rchunk, hand,
                   from, pushVars, arrived, sent>>

-----------------------------------------------------------------------------
(* The sending half: try_send, and the end of run.                         *)

BeginPush(t, anns) ==
    /\ batch' = [batch EXCEPT ![t] = anns]
    /\ todo' = [todo EXCEPT ![t] = [i \in DOMAIN SprayAt |-> Forced(SprayAt[i])]]
    /\ Goes(t, "force")

\* run: poll on until the chunk is full enough, then push it.
FullEnough(c) == Len(c.s) >= Cap - Slack
PollOrPush(w) ==
    IF FullEnough(rchunk[w]) THEN BeginPush(w, rchunk[w].s)
    ELSE Goes(w, "recv") /\ UNCHANGED <<batch, todo>>

\* Mutant: the last chunk of a queue stays.
SendableMutant(q) == Len(queue[q]) > 1
\* get_to_send: the chunk at the back of some queue.  Which queue is tried
\* first depends on the thread and matters to no property; the look at all of
\* them is one step.
Sendable(q) == queue[q] /= <<>> /\ (q[1] = "sub" => Subscribed(q[2]))
GetToSend(w, q) ==
    /\ pc[w] = "take"
    /\ Sendable(q) /\ ~Locked(q)
    /\ hand' = [hand EXCEPT ![w] = [c |-> Last(queue[q]), addr |-> q[2]]]
    /\ queue' = [queue EXCEPT ![q] = ButLast(@)]
    /\ Goes(w, "send")
    /\ UNCHANGED <<peerVars, pool, rchunk, from, pushVars,
                   arrived, sent>>

NothingToSend(w) ==
    /\ pc[w] = "take"
    /\ \A q \in Queues : ~Sendable(q)
    /\ PollOrPush(w)
    /\ UNCHANGED <<peerVars, queueVars, rchunk, hand, from, left,
                   arrived, sent>>

Done(c) == c.s = <<>>

\* send_gso, send_slow: n of the announcements go out before the socket
\* blocks or fails; an emptied chunk is given back and the next one taken.
Send(w, n) ==
    LET h == hand[w]
        c == Advance(h.c, n)
    IN  /\ pc[w] = "send"
        /\ n \in 0 .. Len(h.c.s)
        /\ sent' = sent \cup {<<h.addr, h.c.s[i]>> : i \in 1 .. n}
        /\ IF Done(c)
           THEN /\ pool' = Append(pool, c)
                /\ hand' = [hand EXCEPT ![w] = NoHand]
                /\ Goes(w, "take")
           ELSE /\ hand' = [hand EXCEPT ![w].c = c]
                /\ Goes(w, "return")
                /\ UNCHANGED pool
        /\ UNCHANGED <<peerVars, queue, rchunk, from,
                       pushVars, arrived>>

\* return_to_send: to the back of the queue of that address, if there still
\* is one, forced ones first.
ReturnTo(addr) ==
    IF addr \in ForceAddrs THEN {Forced(addr)}
    ELSE {Sub(subs[i]) : i \in {j \in DOMAIN subs : subs[j] = addr}}

ReturnToSend(w) ==
    /\ pc[w] = "return"
    /\ \A q \in ReturnTo(hand[w].addr) : ~Locked(q)
    /\ queue' = [q \in Queues |-> IF q \in ReturnTo(hand[w].addr)
                                  THEN Append(queue[q], hand[w].c) ELSE queue[q]]
    /\ hand' = [hand EXCEPT ![w] = NoHand]
    /\ PollOrPush(w)
    /\ UNCHANGED <<peerVars, pool, rchunk, from, left, arrived,
                   sent>>

-----------------------------------------------------------------------------
(* Sprayer::push_anns.                                                     *)

\* The process has an announcement of its own to spray.
Call(t, a) ==
    /\ pc[t] = "idle"
    /\ a \notin arrived
    /\ arrived' = arrived \cup {a}
    /\ BeginPush(t, <<a>>)
    /\ UNCHANGED <<peerVars, queueVars, rchunk, hand, from, left, sent>>

Pushing(t) == pc[t] \in {"force", "subs"}

\* A queue is locked, unless its subscriber is timed out.
LockQueue(t) ==
    LET q == Head(todo[t]) IN
    /\ Pushing(t) /\ todo[t] /= <<>> /\ left[t] = <<>>
    /\ IF pc[t] = "subs" /\ q[2] \notin fresh
       THEN todo' = [todo EXCEPT ![t] = Tail(@)] /\ UNCHANGED left
       ELSE ~Locked(q) /\ left' = [left EXCEPT ![t] = batch[t]] /\ UNCHANGED todo
    /\ UNCHANGED <<peerVars, queueVars, pc, rchunk, hand, from,
                   batch, arrived, sent>>

\* SendQueue::push_ann, the chunk at the back takes the announcement.
HasRoom(q) == queue[q] /= <<>> /\ Takes(Last(queue[q]))
QueueAnn(t) ==
    LET q == Head(todo[t]) IN
    /\ left[t] /= <<>> /\ HasRoom(q)
    /\ queue' = [queue EXCEPT ![q] = Append(ButLast(@), PushAnn(Last(@), Head(left[t])))]
    /\ left' = [left EXCEPT ![t] = Tail(@)]
    /\ todo' = [todo EXCEPT ![t] = IF Len(left[t]) = 1 THEN Tail(@) ELSE @]
    /\ UNCHANGED <<peerVars, pool, pc, rchunk, hand, from, batch,
                   arrived, sent>>

\* SendQueue::push_ann, a chunk is added, and the oldest one given up if
\* there are too many.
BoundedMutant(q) == q
Bounded(q) == IF Len(q) > MaxQueue THEN Tail(q) ELSE q
AddChunk(t) ==
    LET q == Head(todo[t]) IN
    /\ left[t] /= <<>> /\ ~HasRoom(q)
    /\ queue' = [queue EXCEPT ![q] = Bounded(Append(@, Taken))]
    /\ pool' = PoolTaken
    /\ UNCHANGED <<peerVars, pc, rchunk, hand, from,
                   pushVars, arrived, sent>>

\* The forced subscribers are done; m is read-locked.
ReadSubs(t) ==
    /\ pc[t] = "force" /\ todo[t] = <<>>
    /\ todo' = [todo EXCEPT ![t] = [i \in DOMAIN subs |-> Sub(subs[i])]]
    /\ Goes(t, "subs")
    /\ UNCHANGED <<peerVars, queueVars, rchunk, hand, from,
                   batch, left, arrived, sent>>

\* All subscribers are done; a worker hands the chunk to the handler and
\* resets it.
EndPush(t) ==
    /\ pc[t] = "subs" /\ todo[t] = <<>>
    /\ batch' = [batch EXCEPT ![t] = <<>>]
    /\ rchunk' = [w \in Workers |-> IF w = t THEN NewChunk ELSE rchunk[w]]
    /\ Goes(t, IF t \in Workers THEN "recv" ELSE "idle")
    /\ UNCHANGED <<peerVars, queueVars, hand, from, todo, left,
                   arrived, sent>>

-----------------------------------------------------------------------------
PushStep(t) == LockQueue(t) \/ QueueAnn(t) \/ AddChunk(t) \/ ReadSubs(t) \/ EndPush(t)

WorkerStep(w) ==
    \/ Start(w) \/ RecvNothing(w) \/ Subscribe(w) \/ NothingToSend(w) \/ ReturnToSend(w)
    \/ \E a \in Anns : RecvAnn(w, a)
    \/ \E p \in Peers : RecvRequest(w, p)
    \/ \E q \in Queues : GetToSend(w, q)
    \/ \E n \in 0 .. Cap : Send(w, n)

Next ==
    \/ \E w \in Workers : WorkerStep(w)
    \/ \E t \in Threads : PushStep(t)
    \/ \E t \in Callers, a \in Anns : Call(t, a)
    \/ \E p \in Peers : TimeOut(p)

Spec == Init /\ [][Next]_vars

\* The threads run, and a socket that is tried again and again takes a whole
\* chunk some time.
FairSpec ==
    /\ Spec
    /\ \A w \in Workers : WF_vars(WorkerStep(w))
    /\ \A t \in Threads : WF_vars(PushStep(t))
    /\ \A w \in Workers : SF_vars(Send(w, Len(hand[w].c.s)))

-----------------------------------------------------------------------------
(* Properties.                                                             *)

\* No announcement is sent, queued or in a worker's hand twice for one address
\* (no spray_at address subscribing as well): a chunk that is sent in part,
\* put back behind newer ones or recycled repeats nothing.
At(c, a) == {j \in DOMAIN c.s : c.s[j] = a}
Places(p, a) ==
    {x \in Queues \X (1 .. MaxQueue + NumWorkers) \X (1 .. Cap) :
        /\ x[1][2] = p /\ x[2] <= Len(queue[x[1]])
        /\ x[3] \in At(queue[x[1]][x[2]], a)}
    \cup {x \in Workers \X (1 .. Cap) : hand[x[1]].addr = p /\ x[2] \in At(hand[x[1]].c, a)}
    \cup ({<<p, a>>} \cap sent)
AtMostOnce == \A p \in Addrs, a \in Anns : Cardinality(Places(p, a)) <= 1

\* The chunks kept for an address are bounded: what is queued for it and what is
\* in hand never exceed the limit by more than one chunk per thread (no spray_at
\* address subscribing as well: return_to_send would put the chunks of the one
\* queue into the other).
Held(p) == {w \in Workers : hand[w].addr = p}
QueueBound ==
    \A q \in Queues :
        Len(queue[q]) + Cardinality(Held(q[2])) <= MaxQueue + NumWorkers

\* "Never store more tha 128MB to be sent to any given address".
NeverMoreThanMax == \A q \in Queues : Len(queue[q]) <= MaxQueue

\* An address subscribes once, though two threads may hear of it at the same time.
SubscribedOnce == \A i, j \in DOMAIN subs : subs[i] = subs[j] => i = j

\* A worker whose chunk is not full enough to be pushed can receive more
\* ("keep polling until we have neatly a full buffer").
CanReceive == \A w \in Workers : ECur(rchunk[w]) < Cap \/ FullEnough(rchunk[w])

\* Once no more announcements come in, all that is queued goes out or is given
\* up: no chunk stays behind.
QueuesDrain == <>[](\A q \in Queues : queue[q] = <<>>)

=============================================================================
