-------------------------- MODULE AnnHandlerProofs --------------------------
(***************************************************************************)
(* What the announcement handler promises, for any number of workers,      *)
(* posts, announcements, blocks and slots.  The argument: a post is at one *)
(* place at a time, in the queue or with one worker, so that nobody else   *)
(* touches its event; what process_batch accepts goes to the dedup table   *)
(* under the lock it was looked up under, and the table is cleared only    *)
(* with a new epoch.                                                       *)
(***************************************************************************)
EXTENDS AnnHandler, FiniteSetTheorems, TLAPS

Busy(w) == wpc[w] \in {"batch", "spray", "reply", "error"}

\* The event of a post and its batch add up.
Counted(p) ==
  ~Repeats(post[p].batch) =>
     event[p].accepted + event[p].dup = Len(post[p].batch)

SprayedOf(p) == {x \in sprayed : x[1] = p}

\* A post that waits is in the queue once or with one worker.
OwnInv ==
  /\ \A i, j \in 1 .. Len(queue) : queue[i] = queue[j] => i = j
  /\ \A i \in 1 .. Len(queue) : pst[queue[i]] = "queued"
  /\ \A w \in Workers : Busy(w) =>
       /\ wpost[w] \in Posts /\ pst[wpost[w]] = "queued"
       /\ \A i \in 1 .. Len(queue) : queue[i] # wpost[w]
  /\ \A v, w \in Workers : Busy(v) /\ Busy(w) /\ wpost[v] = wpost[w] => v = w

\* What was accepted since the table was cleared is in the table.
TableInv ==
  /\ \A x \in acc :
       /\ x.epoch <= epoch[Slot(x.conf.height)]
       /\ x.epoch = epoch[Slot(x.conf.height)] => x.ann \in out[Slot(x.conf.height)].tbl
  /\ AcceptedOnce
  /\ LateBatchRefused

\* Where a post is whose announcements were accepted.
PayInv ==
  \A x \in acc :
    \/ \E w \in Workers : wpc[w] \in {"spray", "reply"} /\ wpost[w] = x.post
    \/ pst[x.post] = "replied"
    \/ pst[x.post] = "done" /\ (conn[x.post] => x.post \in paylog \cup unlogged)

\* Where a post is whose announcements were sprayed, and what its event says.
EventInv ==
  /\ \A x \in sprayed :
       \/ \E w \in Workers : wpc[w] = "reply" /\ wpost[w] = x[1]
       \/ pst[x[1]] \in {"replied", "done"}
  /\ \A w \in Workers : wpc[w] \in {"spray", "reply"} =>
       /\ IsFiniteSet(fresh[w]) /\ event[wpost[w]].accepted = Cardinality(fresh[w])
       /\ Counted(wpost[w])
  /\ \A w \in Workers : wpc[w] = "reply" =>
       SprayedOf(wpost[w]) = {wpost[w]} \X fresh[w]
  /\ \A p \in Posts : pst[p] = "replied" \/ p \in paylog =>
       event[p].accepted = Cardinality(SprayedOf(p)) /\ Counted(p)
  /\ \A p \in paylog : pst[p] = "done"

IInv == TypeOK /\ OwnInv /\ TableInv /\ PayInv /\ EventInv

-----------------------------------------------------------------------------
(* The types of what the handlers compute, and what a step leaves alone.   *)

\* A slot is a slot, whatever the height.
LEMMA SlotType == \A h \in Int : Slot(h) \in Slots
<1>1. USize \in Nat \ {0} /\ Tracking \in Nat \ {0}
  BY AnnHandlerAssumption
<1>2. \A h \in Int : h % USize \in Int
  BY <1>1
<1>3. \A n \in Int : n % Tracking \in 0 .. Tracking - 1
  BY <1>1
<1> QED BY <1>2, <1>3 DEF Slot, Slots

\* The heights of a configuration are integers.
LEMMA ConfHeight == \A c \in Conf : c.height \in Int
<1> SUFFICES ASSUME NEW c \in Conf PROVE c.height \in Int
  OBVIOUS
<1>1. \A h \in Heights : h \in Int
  BY AnnHandlerAssumption
<1>2. c.height \in Heights \/ c.height = 0 \/ c.height = -1
  BY DEF Conf, PostHeights
<1> QED BY <1>1, <1>2

\* mk_dedups of a batch: a finite set, no larger than the batch.
LEMMA DedupsType ==
  ASSUME TypeOK, NEW w \in Workers, wpost[w] \in Posts
  PROVE  /\ Batch(w) \in Seq(Anns) /\ Len(Batch(w)) \in Nat /\ Len(Batch(w)) < U32
         /\ Dedups(w) \subseteq Anns /\ IsFiniteSet(Dedups(w))
         /\ Cardinality(Dedups(w)) \in Nat /\ Cardinality(Dedups(w)) <= Len(Batch(w))
<1>1. post[wpost[w]] \in Requests \cup {NoRequest} /\ Batch(w) = post[wpost[w]].batch
  BY DEF TypeOK, Batch
<1>2. Batch(w) \in Seq(Anns) /\ Len(Batch(w)) \in Nat
  <2>1. \A r \in Requests : r.batch \in Seq(Anns)
    BY AnnHandlerAssumption
  <2>2. CASE post[wpost[w]] \in Requests
    BY <1>1, <2>1, <2>2
  <2>3. CASE post[wpost[w]] = NoRequest
    BY <1>1, <2>3 DEF NoRequest
  <2> QED BY <1>1, <2>2, <2>3
<1>3. Len(Batch(w)) < U32
  <2>1. CASE post[wpost[w]] \in Requests
    BY <1>1, <2>1, BatchesFit
  <2>2. CASE post[wpost[w]] = NoRequest
    BY <1>1, <2>2, AnnHandlerAssumption DEF NoRequest
  <2> QED BY <1>1, <2>1, <2>2
<1>4. /\ Dedups(w) \subseteq Anns
      /\ Batch(w) \in Surjection(1 .. Len(Batch(w)), Dedups(w))
  BY <1>2 DEF Dedups, Range, Surjection
<1>5. /\ IsFiniteSet(1 .. Len(Batch(w)))
      /\ Cardinality(1 .. Len(Batch(w))) = Len(Batch(w))
  <2>1. \A n \in Nat : IsFiniteSet(1 .. n) /\ Cardinality(1 .. n) = n
    <3> TAKE n \in Nat
    <3>1. IsFiniteSet(1 .. n) /\ Cardinality(1 .. n) = IF 1 > n THEN 0 ELSE n - 1 + 1
      BY FS_Interval
    <3> QED BY <3>1
  <2> QED BY <1>2, <2>1
<1>6. IsFiniteSet(Dedups(w)) /\ Cardinality(Dedups(w)) <= Len(Batch(w))
  BY <1>4, <1>5, FS_Surjection
<1> QED BY <1>2, <1>3, <1>4, <1>6, FS_CardinalityType

\* The counters of process_batch: the announcements that are accepted and the
\* duplicates add up to a batch without repeats.
LEMMA EventOfType ==
  ASSUME TypeOK, NEW w \in Workers, wpost[w] \in Posts
  PROVE  /\ NotSeen(w) \subseteq Anns /\ IsFiniteSet(NotSeen(w))
         /\ EventOf(w) \in [accepted : Nat, dup : 0 .. U32 - 1]
         /\ EventOf(w).accepted = Cardinality(NotSeen(w))
         /\ ~Repeats(Batch(w)) =>
              EventOf(w).accepted + EventOf(w).dup = Len(Batch(w))
<1>1. NotSeen(w) \subseteq Dedups(w)
  BY DEF NotSeen
<1>2. /\ IsFiniteSet(NotSeen(w)) /\ NotSeen(w) \subseteq Anns
      /\ Cardinality(NotSeen(w)) \in Nat
  BY <1>1, DedupsType, FS_Subset, FS_CardinalityType
<1>3. /\ Dedups(w) \cap NotSeen(w) = NotSeen(w)
      /\ Cardinality(Dedups(w) \ NotSeen(w)) =
           Cardinality(Dedups(w)) - Cardinality(Dedups(w) \cap NotSeen(w))
  BY <1>1, DedupsType, FS_Difference
<1>4. Cardinality(NotSeen(w)) <= Cardinality(Dedups(w))
  BY <1>1, DedupsType, FS_Subset
<1> DEFINE d == Cardinality(Dedups(w) \ NotSeen(w))
           n == Len(Batch(w))
           c == Cardinality(Dedups(w))
<1>5. c \in Nat /\ n \in Nat /\ c <= n /\ n < U32 /\ d \in 0 .. c /\ U32 \in Nat \ {0}
  <2>1. c \in Nat /\ n \in Nat /\ c <= n /\ n < U32
    BY DedupsType
  <2>2. d = c - Cardinality(NotSeen(w))
    BY <1>3
  <2>3. U32 \in Nat \ {0}
    BY AnnHandlerAssumption
  <2> HIDE DEF d, n, c
  <2>4. Cardinality(NotSeen(w)) <= c
    BY <1>4 DEF c
  <2> QED BY <1>2, <2>1, <2>2, <2>3, <2>4
<1>6. EventOf(w) = [accepted |-> Cardinality(NotSeen(w)), dup |-> (c - n + d) % U32]
  BY DEF EventOf
<1> HIDE DEF d, n, c
<1>7. (c - n + d) % U32 \in 0 .. U32 - 1
  BY <1>5
<1>8. c = n => (c - n + d) % U32 = d
  BY <1>5
<1>9. ~Repeats(Batch(w)) => c = n
  BY DEF Repeats, Dedups, c, n
<1>10. d = c - Cardinality(NotSeen(w))
  BY <1>3 DEF c, d
<1> QED
  <2>1. EventOf(w) \in [accepted : Nat, dup : 0 .. U32 - 1]
    BY <1>2, <1>6, <1>7
  <2>2. ~Repeats(Batch(w)) => EventOf(w).accepted + EventOf(w).dup = n
    BY <1>2, <1>5, <1>6, <1>8, <1>9, <1>10
  <2> QED BY <1>2, <1>6, <2>1, <2>2 DEF n

\* The posts stay where they are.
LEMMA OwnFrame ==
  ASSUME OwnInv, UNCHANGED <<queue, wpost, pst>>,
         \A w \in Workers : Busy(w)' => Busy(w)
  PROVE  OwnInv'
BY DEF OwnInv

\* Nothing is accepted and no table is cleared.
LEMMA TableFrame ==
  ASSUME TableInv, UNCHANGED <<out, epoch, acc>> PROVE TableInv'
BY DEF TableInv, AcceptedOnce, LateBatchRefused

\* A worker with accepted announcements keeps its post.
LEMMA PayFrame ==
  ASSUME PayInv, UNCHANGED <<acc, wpost, pst, conn, paylog, unlogged>>,
         \A w \in Workers : wpc[w] \in {"spray", "reply"} => wpc'[w] \in {"spray", "reply"}
  PROVE  PayInv'
BY DEF PayInv

\* The same of one with sprayed announcements, and no event changes.
LEMMA EventFrame ==
  ASSUME EventInv, UNCHANGED <<sprayed, wpost, fresh, event, post, pst, paylog>>,
         \A w \in Workers : wpc[w] = "reply" <=> wpc'[w] = "reply",
         \A w \in Workers : wpc'[w] = "spray" => wpc[w] = "spray"
  PROVE  EventInv'
BY DEF EventInv, Counted, SprayedOf
-----------------------------------------------------------------------------
(* The pool client, and the waiting of worker 0.                           *)

\* A block is discovered.
LEMMA DiscoverStep ==
  ASSUME IInv, NEW h \in Heights, NEW hash \in Hashes, NEW l \in BOOLEAN,
         Discover(h, hash, l)
  PROVE  IInv'
<1> USE DEF Discover, workers, posts
<1>1. TypeOK'
  <2>1. updates' \in 0 .. MaxUpdates
    BY AnnHandlerAssumption DEF IInv, TypeOK
  <2>2. updq' \in Seq(Block)
    BY DEF IInv, TypeOK, Block
  <2> QED BY <2>1, <2>2 DEF IInv, TypeOK
<1>2. OwnInv' /\ TableInv'
  BY OwnFrame, TableFrame DEF IInv, Busy
<1>3. PayInv' /\ EventInv'
  BY PayFrame, EventFrame DEF IInv
<1> QED BY <1>1, <1>2, <1>3 DEF IInv

\* The lock of the table is held; a new epoch begins when it is cleared.
LEMMA ProcessUpdateStep == ASSUME IInv, ProcessUpdate PROVE IInv'
<1> DEFINE b == Head(updq)
           s == Slot(b.height)
<1>1. /\ UNCHANGED <<queue, wpc, wpost, wconf, fresh, pst, post, conn, event, paylog, unlogged>>
      /\ UNCHANGED <<chain, updates, acc, sprayed>>
      /\ updq # <<>> /\ updq' = Tail(updq)
      /\ \/ UNCHANGED <<out, epoch>>
         \/ /\ out' = [out EXCEPT ![s] = Updated(@, b)]
            /\ epoch' = [epoch EXCEPT ![s] = @ + (IF Clears(out[s], b) THEN 1 ELSE 0)]
  BY DEF ProcessUpdate, workers, posts
<1>2. b \in Block /\ updq' \in Seq(Block)
  BY <1>1 DEF IInv, TypeOK
<1>3. b.height \in Heights /\ b.height \in Nat \ {0}
  <2>1. b.height \in Heights
    BY <1>2 DEF Block
  <2>2. \A h \in Heights : h \in Nat \ {0}
    BY AnnHandlerAssumption
  <2> QED BY <2>1, <2>2
<1>4. s \in Slots /\ out[s] \in Output
  BY <1>3, SlotType, SMTT(30) DEF IInv, TypeOK
<1>5. OwnInv' /\ PayInv' /\ EventInv'
  BY <1>1, OwnFrame, PayFrame, EventFrame DEF IInv, Busy
<1>6. CASE UNCHANGED <<out, epoch>>
  BY <1>1, <1>2, <1>5, <1>6, TableFrame DEF IInv, TypeOK
<1>7. CASE /\ out' = [out EXCEPT ![s] = Updated(@, b)]
           /\ epoch' = [epoch EXCEPT ![s] = @ + (IF Clears(out[s], b) THEN 1 ELSE 0)]
  <2> HIDE DEF b, s
  <2>1. Updated(out[s], b) \in Output
    BY <1>2, <1>4 DEF Updated, Output, Conf, PostHeights, Block
  <2>2. epoch[s] \in Nat /\ epoch' \in [Slots -> Nat]
    BY <1>4, <1>7 DEF IInv, TypeOK
  <2>3. TypeOK'
    BY <1>1, <1>2, <1>4, <1>7, <2>1, <2>2 DEF IInv, TypeOK
  <2>4. /\ out'[s] = Updated(out[s], b)
        /\ \A t \in Slots \ {s} : out'[t] = out[t] /\ epoch'[t] = epoch[t]
        /\ epoch'[s] = epoch[s] + (IF Clears(out[s], b) THEN 1 ELSE 0)
    BY <1>4, <1>7 DEF IInv, TypeOK
  <2>5. \A x \in acc :
          /\ x.epoch <= epoch'[Slot(x.conf.height)]
          /\ x.epoch = epoch'[Slot(x.conf.height)] =>
               x.ann \in out'[Slot(x.conf.height)].tbl
    <3> SUFFICES ASSUME NEW x \in acc
                 PROVE  /\ x.epoch <= epoch'[Slot(x.conf.height)]
                        /\ x.epoch = epoch'[Slot(x.conf.height)] =>
                             x.ann \in out'[Slot(x.conf.height)].tbl
      OBVIOUS
    <3>1. x.epoch \in Nat /\ Slot(x.conf.height) \in Slots
      BY SlotType, ConfHeight DEF IInv, TypeOK, Acceptance
    <3>2. /\ x.epoch <= epoch[Slot(x.conf.height)]
          /\ x.epoch = epoch[Slot(x.conf.height)] =>
               x.ann \in out[Slot(x.conf.height)].tbl
      BY DEF IInv, TableInv
    <3>3. CASE Slot(x.conf.height) # s
      BY <2>4, <3>1, <3>2, <3>3
    <3>4. CASE Slot(x.conf.height) = s
      BY <2>2, <2>4, <3>1, <3>2, <3>4 DEF Updated
    <3> QED BY <3>3, <3>4
  <2>6. AcceptedOnce'
    BY <1>1 DEF IInv, TableInv, AcceptedOnce
  <2>7. LateBatchRefused'
    <3> SUFFICES ASSUME NEW t \in Slots, NEW a \in out'[t].tbl, out'[t].conf.height # -1
                 PROVE  \E x \in acc : x.ann = a /\ x.conf.height = out'[t].conf.height
      BY <1>1 DEF IInv, TableInv, LateBatchRefused
    <3>1. CASE t # s
      BY <2>4, <3>1 DEF IInv, TableInv, LateBatchRefused
    <3>2. CASE t = s
      <4>1. ~Clears(out[s], b) /\ a \in out[s].tbl
        BY <2>4, <3>2 DEF Updated
      <4>2. out'[s].conf.height = b.height /\ out[s].conf.height = b.height
        <5>1. out[s].conf \in Conf /\ out'[s].conf.height # -1
          BY <1>4, <3>2 DEF Output
        <5>2. [out[s].conf EXCEPT !.height = -1].height = -1
          BY <5>1 DEF Conf
        <5> QED BY <2>4, <4>1, <5>1, <5>2 DEF Updated, Clears
      <4>3. b.height # -1
        BY <1>3
      <4> QED BY <3>2, <4>1, <4>2, <4>3 DEF IInv, TableInv, LateBatchRefused
    <3> QED BY <3>1, <3>2
  <2> QED BY <1>1, <1>5, <2>3, <2>5, <2>6, <2>7 DEF IInv, TableInv
<1> QED BY <1>1, <1>6, <1>7

\* The updates are applied.
LEMMA NoMoreUpdatesStep == ASSUME IInv, NoMoreUpdates PROVE IInv'
<1> USE DEF NoMoreUpdates, posts, pool
<1>1. TypeOK'
  BY AnnHandlerAssumption DEF IInv, TypeOK
<1>2. OwnInv' /\ TableInv'
  BY AnnHandlerAssumption, OwnFrame, TableFrame DEF IInv, TypeOK, Busy
<1>3. PayInv' /\ EventInv'
  BY AnnHandlerAssumption, PayFrame, EventFrame DEF IInv, TypeOK
<1> QED BY <1>1, <1>2, <1>3 DEF IInv

\* Nothing was posted for a while.
LEMMA RecvTimeoutStep == ASSUME IInv, RecvTimeout PROVE IInv'
<1> USE DEF RecvTimeout, posts, pool
<1>1. TypeOK'
  BY AnnHandlerAssumption DEF IInv, TypeOK
<1>2. OwnInv' /\ TableInv'
  BY AnnHandlerAssumption, OwnFrame, TableFrame DEF IInv, TypeOK, Busy
<1>3. PayInv' /\ EventInv'
  BY AnnHandlerAssumption, PayFrame, EventFrame DEF IInv, TypeOK
<1> QED BY <1>1, <1>2, <1>3 DEF IInv

-----------------------------------------------------------------------------
(* The workers.                                                            *)

\* An announcement of the batch is not valid.
LEMMA InvalidStep == ASSUME IInv, NEW w \in Workers, Invalid(w) PROVE IInv'
<1> USE DEF Invalid, posts, pool
<1>1. TypeOK'
  BY DEF IInv, TypeOK
<1>2. OwnInv' /\ TableInv'
  BY OwnFrame, TableFrame DEF IInv, TypeOK, Busy
<1>3. PayInv' /\ EventInv'
  BY PayFrame, EventFrame DEF IInv, TypeOK
<1> QED BY <1>1, <1>2, <1>3 DEF IInv

\* The worker's thread ends with its post.
LEMMA NoHandlersStep == ASSUME IInv, NEW w \in Workers, NoHandlers(w) PROVE IInv'
<1> DEFINE p == wpost[w]
<1>1. /\ UNCHANGED <<out, queue, wconf, fresh, post, conn, event, paylog, unlogged>>
      /\ UNCHANGED <<chain, updq, updates, epoch, acc, sprayed>>
      /\ wpc[w] = "batch" /\ Busy(w)
      /\ wpc' = [wpc EXCEPT ![w] = "dead"]
      /\ wpost' = [wpost EXCEPT ![w] = NoPost]
      /\ pst' = [pst EXCEPT ![p] = "done"]
  BY DEF NoHandlers, pool, Busy
<1>2. p \in Posts /\ pst[p] = "queued" /\ \A i \in 1 .. Len(queue) : queue[i] # p
  BY <1>1 DEF IInv, OwnInv
<1>3. \A v \in Workers \ {w} : Busy(v) => wpost[v] # p
  BY <1>1 DEF IInv, OwnInv
<1> HIDE DEF p
<1>4. /\ wpc'[w] = "dead" /\ pst'[p] = "done"
      /\ \A q \in Posts \ {p} : pst'[q] = pst[q]
      /\ \A v \in Workers \ {w} : wpc'[v] = wpc[v] /\ wpost'[v] = wpost[v]
  BY <1>1, <1>2 DEF IInv, TypeOK
<1>5. TypeOK'
  BY <1>1 DEF IInv, TypeOK
<1>6. OwnInv'
  <2>1. \A v \in Workers : Busy(v)' => v # w /\ Busy(v)
    BY <1>4 DEF Busy
  <2>2. \A i \in 1 .. Len(queue) : queue[i] \in Posts
    BY DEF IInv, TypeOK
  <2> QED BY <1>1, <1>2, <1>3, <1>4, <2>1, <2>2 DEF IInv, OwnInv
<1>7. TableInv'
  BY <1>1, TableFrame DEF IInv
<1>8. \A v \in Workers : wpc[v] \in {"spray", "reply"} =>
        v # w /\ wpost[v] # p /\ wpc'[v] = wpc[v] /\ wpost'[v] = wpost[v]
  BY <1>1, <1>3, <1>4 DEF Busy
<1>9. \A v \in Workers : wpc'[v] \in {"spray", "reply"} =>
        wpc[v] = wpc'[v] /\ wpost'[v] = wpost[v]
  BY <1>4
<1>10. PayInv'
  <2>1. \A x \in acc : x.post \in Posts /\ x.post # p
    <3>1. \A x \in acc : x.post \in Posts
      BY DEF IInv, TypeOK, Acceptance
    <3>2. \A x \in acc :
            \/ \E v \in Workers : wpc[v] \in {"spray", "reply"} /\ wpost[v] = x.post
            \/ pst[x.post] \in {"replied", "done"}
      BY DEF IInv, PayInv
    <3> QED BY <1>2, <1>8, <3>1, <3>2
  <2> QED BY <1>1, <1>4, <1>8, <2>1 DEF IInv, PayInv
<1>11. EventInv'
  <2>1. \A x \in sprayed : x[1] \in Posts /\ x[1] # p
    <3>1. \A x \in sprayed : x[1] \in Posts
      BY DEF IInv, TypeOK
    <3>2. \A x \in sprayed : (\E v \in Workers : wpc[v] = "reply" /\ wpost[v] = x[1])
                              \/ pst[x[1]] \in {"replied", "done"}
      BY DEF IInv, EventInv
    <3> QED BY <1>2, <1>8, <3>1, <3>2
  <2>2. \A q \in paylog : q \in Posts /\ q # p
    BY <1>2 DEF IInv, TypeOK, EventInv
  <2>3. \A x \in sprayed :
          \/ \E v \in Workers : wpc'[v] = "reply" /\ wpost'[v] = x[1]
          \/ pst'[x[1]] \in {"replied", "done"}
    BY <1>4, <1>8, <2>1 DEF IInv, EventInv
  <2>4. \A q \in Posts : pst'[q] = "replied" \/ q \in paylog =>
          event[q].accepted = Cardinality(SprayedOf(q)) /\ Counted(q)
    BY <1>4, <2>2 DEF IInv, EventInv
  <2>5. \A q : Counted(q)' = Counted(q) /\ SprayedOf(q)' = SprayedOf(q)
    BY <1>1 DEF Counted, SprayedOf
  <2>6. \A v \in Workers : wpc'[v] \in {"spray", "reply"} =>
          /\ IsFiniteSet(fresh'[v]) /\ event'[wpost'[v]].accepted = Cardinality(fresh'[v])
          /\ Counted(wpost[v])'
          /\ wpc'[v] = "reply" => SprayedOf(wpost[v])' = {wpost'[v]} \X fresh'[v]
    BY <1>1, <1>9, <2>5 DEF IInv, EventInv
  <2>7. \A q \in paylog : pst'[q] = "done"
    BY <1>4, <2>2 DEF IInv, EventInv
  <2> QED BY <1>1, <1>9, <2>3, <2>4, <2>5, <2>6, <2>7 DEF EventInv
<1> QED BY <1>5, <1>6, <1>7, <1>10, <1>11 DEF IInv

\* The slot has gone to another height.
LEMMA TooLateStep == ASSUME IInv, NEW w \in Workers, TooLate(w) PROVE IInv'
<1> USE DEF TooLate, posts, pool
<1>1. TypeOK'
  BY DEF IInv, TypeOK
<1>2. OwnInv' /\ TableInv'
  BY OwnFrame, TableFrame DEF IInv, TypeOK, Busy
<1>3. PayInv' /\ EventInv'
  BY PayFrame, EventFrame DEF IInv, TypeOK
<1> QED BY <1>1, <1>2, <1>3 DEF IInv

\* A worker takes the first post of the queue.
LEMMA TakeStep == ASSUME IInv, NEW w \in Workers, Take(w) PROVE IInv'
<1> DEFINE p == Head(queue)
<1>1. /\ UNCHANGED <<out, fresh, pst, post, conn, event, paylog, unlogged>>
      /\ UNCHANGED <<chain, updq, updates, epoch, acc, sprayed>>
      /\ wpc[w] = "recv" /\ queue # <<>> /\ queue' = Tail(queue)
      /\ wpost' = [wpost EXCEPT ![w] = p]
      /\ wconf' = [wconf EXCEPT ![w] = out[Slot(post[p].height)].conf]
      /\ \E label \in {"batch", "error"} : wpc' = [wpc EXCEPT ![w] = label]
  BY DEF Take, posts, pool
<1>2. /\ p \in Posts /\ p = queue[1] /\ queue' \in Seq(Posts) /\ Len(queue) \in Nat \ {0}
      /\ Len(queue') = Len(queue) - 1
      /\ \A i \in 1 .. Len(queue') : queue'[i] = queue[i + 1] /\ i + 1 \in 1 .. Len(queue)
  BY <1>1 DEF IInv, TypeOK
<1> HIDE DEF p
<1>3. /\ wpost'[w] = p /\ Busy(w)' /\ wpc'[w] \in {"batch", "error"}
      /\ \A v \in Workers \ {w} : wpost'[v] = wpost[v] /\ wpc'[v] = wpc[v]
  BY <1>1 DEF IInv, TypeOK, Busy
<1>4. TypeOK'
  <2>1. Slot(post[p].height) \in Slots
    <3>1. post[p].height \in PostHeights
      <4>1. post[p] \in Requests \cup {NoRequest}
        BY <1>2 DEF IInv, TypeOK
      <4>2. CASE post[p] \in Requests
        BY <4>2, AnnHandlerAssumption
      <4>3. CASE post[p] = NoRequest
        BY <4>3 DEF NoRequest, PostHeights
      <4> QED BY <4>1, <4>2, <4>3
    <3>2. \A h \in Heights : h \in Int
      BY AnnHandlerAssumption
    <3>3. post[p].height \in Int
      BY <3>1, <3>2 DEF PostHeights
    <3> QED BY <3>3, SlotType
  <2>2. wconf' \in [Workers -> Conf]
    BY <1>1, <2>1 DEF IInv, TypeOK, Output
  <2>3. Len(queue') <= QueueLen
    BY <1>2, AnnHandlerAssumption DEF IInv, TypeOK
  <2> QED BY <1>1, <1>2, <2>2, <2>3, SMTT(30) DEF IInv, TypeOK
<1>5. OwnInv'
  <2>1. \A i, j \in 1 .. Len(queue') : queue'[i] = queue'[j] => i = j
    BY <1>2, SMTT(30) DEF IInv, OwnInv
  <2>2. \A i \in 1 .. Len(queue') : pst[queue'[i]] = "queued" /\ queue'[i] # p
    <3>1. 1 \in 1 .. Len(queue) /\ \A i \in 1 .. Len(queue') : i + 1 # 1
      BY <1>2
    <3> QED BY <1>2, <3>1 DEF IInv, OwnInv
  <2>3. pst[p] = "queued" /\ \A v \in Workers : Busy(v) => wpost[v] # p
    BY <1>2 DEF IInv, OwnInv
  <2>4. \A v \in Workers : Busy(v)' => v = w \/ Busy(v)
    BY <1>3 DEF Busy
  <2>5. \A v \in Workers : Busy(v)' =>
          /\ wpost'[v] \in Posts /\ pst[wpost'[v]] = "queued"
          /\ \A i \in 1 .. Len(queue') : queue'[i] # wpost'[v]
    BY <1>2, <1>3, <2>2, <2>3, <2>4 DEF IInv, OwnInv
  <2>6. \A u, v \in Workers : Busy(u)' /\ Busy(v)' /\ wpost'[u] = wpost'[v] => u = v
    BY <1>3, <2>3, <2>4 DEF IInv, OwnInv
  <2> QED BY <1>1, <2>1, <2>2, <2>5, <2>6 DEF OwnInv
<1>6. TableInv'
  BY <1>1, TableFrame DEF IInv
<1>7. PayInv'
  BY <1>1, <1>3 DEF IInv, PayInv
<1>8. EventInv'
  <2>1. \A v \in Workers : wpc'[v] \in {"spray", "reply"} \/ wpc[v] \in {"spray", "reply"} =>
          v # w /\ wpc'[v] = wpc[v] /\ wpost'[v] = wpost[v]
    BY <1>1, <1>3
  <2> QED BY <1>1, <2>1 DEF IInv, EventInv, Counted, SprayedOf
<1> QED BY <1>4, <1>5, <1>6, <1>7, <1>8 DEF IInv

\* The second lock of process_batch: what is not in the table goes there, and
\* the event of the post is counted.
LEMMA ProcessBatchStep == ASSUME IInv, NEW w \in Workers, ProcessBatch(w) PROVE IInv'
<1> DEFINE s == Slot(wconf[w].height)
           p == wpost[w]
           new == [ann : NotSeen(w), post : {p}, epoch : {epoch[s]},
                   conf : {wconf[w]}, now : {out[s].conf}]
<1>1. /\ UNCHANGED <<queue, wpost, wconf, pst, post, conn, paylog, unlogged>>
      /\ UNCHANGED <<chain, updq, updates, epoch, sprayed>>
      /\ wpc[w] = "batch" /\ wpc' = [wpc EXCEPT ![w] = "spray"]
      /\ out[s].conf.height = wconf[w].height
      /\ out' = [out EXCEPT ![s].tbl = @ \cup NotSeen(w)]
      /\ fresh' = [fresh EXCEPT ![w] = NotSeen(w)]
      /\ event' = [event EXCEPT ![p] = EventOf(w)]
      /\ acc' = acc \cup new
  BY DEF ProcessBatch, pool, InTime
<1>2. /\ p \in Posts /\ pst[p] = "queued" /\ s \in Slots
      /\ out[s] \in Output /\ wconf[w] \in Conf /\ epoch[s] \in Nat
  BY <1>1, SlotType, ConfHeight DEF IInv, TypeOK, OwnInv, Busy
<1>3. /\ NotSeen(w) \subseteq Anns /\ IsFiniteSet(NotSeen(w))
      /\ EventOf(w) \in [accepted : Nat, dup : 0 .. U32 - 1]
      /\ EventOf(w).accepted = Cardinality(NotSeen(w))
      /\ ~Repeats(post[p].batch) => EventOf(w).accepted + EventOf(w).dup = Len(post[p].batch)
  BY <1>2, EventOfType DEF IInv, Batch
<1>4. \A x \in new : /\ x.ann \in NotSeen(w) /\ x.post = p /\ x.epoch = epoch[s]
                      /\ x.conf = wconf[w] /\ x.now = out[s].conf
  OBVIOUS
<1>5. \A a \in NotSeen(w) : \E x \in new : x.ann = a /\ x.conf = wconf[w]
  <2> SUFFICES ASSUME NEW a \in NotSeen(w)
               PROVE  \E x \in new : x.ann = a /\ x.conf = wconf[w]
    OBVIOUS
  <2> DEFINE x == [ann |-> a, post |-> p, epoch |-> epoch[s],
                   conf |-> wconf[w], now |-> out[s].conf]
  <2>1. x \in new /\ x.ann = a /\ x.conf = wconf[w]
    OBVIOUS
  <2> QED BY <2>1
<1>6. new \subseteq Acceptance
  BY <1>2, <1>3 DEF Acceptance, Output
<1>7. \A a \in NotSeen(w) : a \notin out[s].tbl
  BY DEF NotSeen
<1>8. s = Slot(wconf[w].height) /\ p = wpost[w]
  OBVIOUS
<1> HIDE DEF new, s, p
<1>9. /\ out'[s].conf = out[s].conf /\ out'[s].tbl = out[s].tbl \cup NotSeen(w)
      /\ \A t \in Slots \ {s} : out'[t] = out[t]
      /\ out' \in [Slots -> Output]
  BY <1>1, <1>2, <1>3 DEF IInv, TypeOK, Output
<1>10. /\ wpc'[w] = "spray" /\ fresh'[w] = NotSeen(w) /\ event'[p] = EventOf(w)
       /\ \A v \in Workers \ {w} : wpc'[v] = wpc[v] /\ fresh'[v] = fresh[v]
       /\ \A q \in Posts \ {p} : event'[q] = event[q]
  BY <1>1, <1>2 DEF IInv, TypeOK
<1>11. TypeOK'
  <2>1. acc' \subseteq Acceptance
    BY <1>1, <1>6 DEF IInv, TypeOK
  <2>2. event' \in [Posts -> [accepted : Nat, dup : 0 .. U32 - 1]]
    BY <1>1, <1>2, <1>3 DEF IInv, TypeOK
  <2>3. /\ fresh' \in [Workers -> SUBSET Anns]
        /\ wpc' \in [Workers -> {"updates", "recv", "batch", "spray", "reply", "error", "dead"}]
    BY <1>1, <1>3 DEF IInv, TypeOK
  <2> QED BY <1>1, <1>9, <2>1, <2>2, <2>3 DEF IInv, TypeOK
<1>12. OwnInv'
  <2>1. \A v \in Workers : Busy(v)' => Busy(v)
    BY <1>1, <1>10 DEF Busy
  <2> QED BY <1>1, <2>1, OwnFrame DEF IInv
<1>13. TableInv'
  <2>1. \A x \in acc :
          /\ x.epoch <= epoch[Slot(x.conf.height)]
          /\ x.epoch = epoch[Slot(x.conf.height)] =>
               x.ann \in out[Slot(x.conf.height)].tbl
          /\ Slot(x.conf.height) \in Slots
    BY SlotType, ConfHeight DEF IInv, TypeOK, TableInv, Acceptance
  <2>2. \A x \in acc' :
          /\ x.epoch <= epoch[Slot(x.conf.height)]
          /\ x.epoch = epoch[Slot(x.conf.height)] =>
               x.ann \in out'[Slot(x.conf.height)].tbl
    BY <1>1, <1>2, <1>4, <1>8, <1>9, <2>1
  <2>3. \A x \in acc, y \in new :
          ~(x.ann = y.ann /\ x.epoch = y.epoch /\ Slot(x.conf.height) = Slot(y.conf.height))
    BY <1>4, <1>7, <1>8, <2>1
  <2>4. AcceptedOnce'
    BY <1>1, <1>4, <2>3 DEF IInv, TableInv, AcceptedOnce
  <2>5. \A x \in acc' : x.conf.height = x.now.height
    BY <1>1, <1>4 DEF IInv, TableInv, LateBatchRefused
  <2>6. \A t \in Slots : \A a \in out'[t].tbl : out'[t].conf.height # -1 =>
          \E x \in acc' : x.ann = a /\ x.conf.height = out'[t].conf.height
    <3> SUFFICES ASSUME NEW t \in Slots, NEW a \in out'[t].tbl, out'[t].conf.height # -1
                 PROVE  \E x \in acc' : x.ann = a /\ x.conf.height = out'[t].conf.height
      OBVIOUS
    <3>1. out'[t].conf = out[t].conf
      BY <1>9
    <3>2. CASE a \in out[t].tbl
      BY <1>1, <3>1, <3>2 DEF IInv, TableInv, LateBatchRefused
    <3>3. CASE t = s /\ a \in NotSeen(w)
      BY <1>1, <1>5, <3>1, <3>3
    <3> QED BY <1>9, <3>2, <3>3
  <2> QED BY <1>1, <2>2, <2>4, <2>5, <2>6 DEF TableInv, LateBatchRefused
<1>14. PayInv'
  BY <1>1, <1>4, <1>8, <1>10 DEF IInv, PayInv
<1>15. EventInv'
  <2>1. \A v \in Workers \ {w} : wpc[v] \in {"spray", "reply"} =>
           wpost[v] # p /\ wpost[v] \in Posts
    BY <1>1, <1>8 DEF IInv, OwnInv, Busy
  <2>2. p \notin paylog
    BY <1>2 DEF IInv, EventInv
  <2> DEFINE Sum(q) == ~Repeats(post[q].batch) =>
                          event'[q].accepted + event'[q].dup = Len(post[q].batch)
  <2>3. \A q \in Posts \ {p} : Counted(q) => Sum(q)
    BY <1>10 DEF Counted
  <2>4. Sum(p)
    BY <1>3, <1>10
  <2> HIDE DEF Sum
  <2>5. \A q : SprayedOf(q)' = SprayedOf(q)
    BY <1>1 DEF SprayedOf
  <2>6. \A x \in sprayed :
          \/ \E v \in Workers : wpc'[v] = "reply" /\ wpost[v] = x[1]
          \/ pst[x[1]] \in {"replied", "done"}
    BY <1>1, <1>10 DEF IInv, EventInv
  <2>7. \A v \in Workers : wpc'[v] \in {"spray", "reply"} =>
          /\ IsFiniteSet(fresh'[v]) /\ event'[wpost[v]].accepted = Cardinality(fresh'[v])
          /\ Sum(wpost[v])
    BY <1>1, <1>3, <1>8, <1>10, <2>1, <2>3, <2>4 DEF IInv, EventInv
  <2>8. \A v \in Workers : wpc'[v] = "reply" =>
          SprayedOf(wpost[v])' = {wpost[v]} \X fresh'[v]
    BY <1>1, <1>10, <2>5 DEF IInv, EventInv
  <2>9. \A q \in Posts : pst[q] = "replied" \/ q \in paylog =>
          event'[q].accepted = Cardinality(SprayedOf(q)') /\ Sum(q)
    BY <1>2, <1>10, <2>2, <2>3, <2>5 DEF IInv, EventInv
  <2> QED BY <1>1, <2>6, <2>7, <2>8, <2>9 DEF IInv, EventInv, Counted, Sum
<1> QED BY <1>11, <1>12, <1>13, <1>14, <1>15 DEF IInv

\* The accepted announcements are sprayed, all at once.
LEMMA SprayStep == ASSUME IInv, NEW w \in Workers, Spray(w) PROVE IInv'
<1>1. /\ UNCHANGED <<out, queue, wpost, wconf, fresh, pst, post, conn, event, paylog, unlogged>>
      /\ UNCHANGED <<chain, updq, updates, epoch, acc>>
      /\ wpc[w] = "spray" /\ wpc' = [wpc EXCEPT ![w] = "reply"]
      /\ sprayed' = sprayed \cup ({wpost[w]} \X fresh[w])
  BY DEF Spray, posts, pool
<1>2. wpost[w] \in Posts /\ pst[wpost[w]] = "queued" /\ fresh[w] \subseteq Anns
  BY <1>1 DEF IInv, TypeOK, OwnInv, Busy
<1>3. wpc'[w] = "reply" /\ \A v \in Workers \ {w} : wpc'[v] = wpc[v]
  BY <1>1 DEF IInv, TypeOK
<1>4. TypeOK'
  BY <1>1, <1>2 DEF IInv, TypeOK
<1>5. OwnInv'
  <2>1. \A v \in Workers : Busy(v)' => Busy(v)
    BY <1>1, <1>3 DEF Busy
  <2> QED BY <1>1, <2>1, OwnFrame DEF IInv
<1>6. TableInv'
  BY <1>1, TableFrame DEF IInv
<1>7. PayInv'
  BY <1>1, <1>3, PayFrame DEF IInv
<1>8. EventInv'
  <2>1. \A x \in sprayed : x[1] # wpost[w]
    <3> SUFFICES ASSUME NEW x \in sprayed, x[1] = wpost[w] PROVE FALSE
      OBVIOUS
    <3>1. PICK v \in Workers : wpc[v] = "reply" /\ wpost[v] = wpost[w]
      BY <1>2 DEF IInv, EventInv
    <3> QED BY <1>1, <3>1 DEF IInv, OwnInv, Busy
  <2>2. \A x \in {wpost[w]} \X fresh[w] : x[1] = wpost[w]
    OBVIOUS
  <2>3. SprayedOf(wpost[w])' = {wpost[w]} \X fresh[w]
    BY <1>1, <2>1, <2>2 DEF SprayedOf
  <2>4. \A q : q # wpost[w] => SprayedOf(q)' = SprayedOf(q)
    BY <1>1, <2>2 DEF SprayedOf
  <2>5. \A x \in sprayed' :
          \/ \E v \in Workers : wpc'[v] = "reply" /\ wpost[v] = x[1]
          \/ pst[x[1]] \in {"replied", "done"}
    BY <1>1, <1>3, <2>2 DEF IInv, EventInv
  <2>6. \A v \in Workers \ {w} : wpc[v] = "reply" => wpost[v] # wpost[w]
    BY <1>1 DEF IInv, OwnInv, Busy
  <2>7. \A v \in Workers : wpc'[v] = "reply" =>
          {x \in sprayed' : x[1] = wpost[v]} = {wpost[v]} \X fresh[v]
    <3> SUFFICES ASSUME NEW v \in Workers, wpc'[v] = "reply"
                 PROVE  {x \in sprayed' : x[1] = wpost[v]} = {wpost[v]} \X fresh[v]
      OBVIOUS
    <3>1. CASE v = w
      BY <1>1, <2>3, <3>1 DEF SprayedOf
    <3>2. CASE v # w
      <4>1. wpc[v] = "reply" /\ wpost[v] # wpost[w]
        BY <1>3, <2>6, <3>2
      <4>2. {x \in sprayed : x[1] = wpost[v]} = {wpost[v]} \X fresh[v]
        BY <4>1 DEF IInv, EventInv, SprayedOf
      <4> QED BY <1>1, <2>2, <4>1, <4>2
    <3> QED BY <3>1, <3>2
  <2>8. wpost[w] \notin paylog
    BY <1>2 DEF IInv, EventInv
  <2>9. \A q \in Posts : pst[q] = "replied" \/ q \in paylog =>
          event[q].accepted = Cardinality(SprayedOf(q)')
    BY <1>2, <2>4, <2>8 DEF IInv, EventInv
  <2>10. \A v \in Workers : wpc'[v] \in {"spray", "reply"} => wpc[v] \in {"spray", "reply"}
    BY <1>1, <1>3
  <2> QED BY <1>1, <2>5, <2>7, <2>9, <2>10 DEF IInv, EventInv, Counted, SprayedOf
<1> QED BY <1>4, <1>5, <1>6, <1>7, <1>8 DEF IInv

\* The reply ends a worker's care for a post.
LEMMA RepliesStep ==
  ASSUME IInv, NEW w \in Workers, NEW how \in {"replied", "failed"}, Busy(w),
         Replies(w, how), how = "replied" => wpc[w] = "reply",
         how = "failed" => wpc[w] = "error"
  PROVE  IInv'
<1>1. PICK p : p = wpost[w]
  OBVIOUS
<1>2. /\ UNCHANGED <<out, queue, wconf, post, conn, event, paylog, unlogged>>
      /\ UNCHANGED <<chain, updq, updates, epoch, acc, sprayed>>
      /\ pst' = [pst EXCEPT ![p] = IF conn[p] THEN how ELSE "done"]
      /\ wpc' = [wpc EXCEPT ![w] = IF w = Worker0 THEN "updates" ELSE "recv"]
      /\ wpost' = [wpost EXCEPT ![w] = NoPost]
      /\ fresh' = [fresh EXCEPT ![w] = {}]
  BY <1>1 DEF Replies, pool
<1>3. p \in Posts /\ pst[p] = "queued" /\ p \notin paylog
  BY <1>1 DEF IInv, OwnInv, EventInv
<1>4. /\ pst'[p] = (IF conn[p] THEN how ELSE "done")
      /\ \A q \in Posts \ {p} : pst'[q] = pst[q]
      /\ ~Busy(w)' /\ wpc'[w] \notin {"spray", "reply"}
      /\ \A v \in Workers \ {w} :
           wpc'[v] = wpc[v] /\ wpost'[v] = wpost[v] /\ fresh'[v] = fresh[v]
  BY <1>2, <1>3 DEF IInv, TypeOK, Busy
<1>5. \A v \in Workers \ {w} : Busy(v) => wpost[v] \in Posts /\ wpost[v] # p
  BY <1>1 DEF IInv, OwnInv
<1>6. TypeOK'
  BY <1>2, <1>3 DEF IInv, TypeOK
<1>7. OwnInv'
  <2>1. \A i \in 1 .. Len(queue) : queue[i] \in Posts /\ queue[i] # p
    BY <1>1 DEF IInv, TypeOK, OwnInv
  <2>2. \A v \in Workers : Busy(v)' => v # w /\ Busy(v)
    BY <1>4 DEF Busy
  <2>3. /\ \A i, j \in 1 .. Len(queue') : queue'[i] = queue'[j] => i = j
        /\ \A i \in 1 .. Len(queue') : pst'[queue'[i]] = "queued"
    BY <1>2, <1>4, <2>1 DEF IInv, OwnInv
  <2>4. \A v \in Workers : Busy(v)' =>
          /\ wpost'[v] \in Posts /\ pst'[wpost'[v]] = "queued"
          /\ \A i \in 1 .. Len(queue') : queue'[i] # wpost'[v]
    BY <1>2, <1>4, <1>5, <2>2 DEF IInv, OwnInv
  <2>5. \A u, v \in Workers : Busy(u)' /\ Busy(v)' /\ wpost'[u] = wpost'[v] => u = v
    BY <1>4, <2>2 DEF IInv, OwnInv
  <2> QED BY <2>3, <2>4, <2>5 DEF OwnInv
<1>8. TableInv'
  BY <1>2, TableFrame DEF IInv
<1>9. PayInv'
  <2> SUFFICES ASSUME NEW x \in acc
               PROVE  \/ \E v \in Workers : wpc'[v] \in {"spray", "reply"} /\ wpost'[v] = x.post
                      \/ pst'[x.post] = "replied"
                      \/ pst'[x.post] = "done" /\ (conn[x.post] => x.post \in paylog \cup unlogged)
    BY <1>2 DEF PayInv
  <2>1. x.post \in Posts
    BY DEF IInv, TypeOK, Acceptance
  <2>2. CASE x.post = p
    <3>1. PICK v \in Workers : wpc[v] \in {"spray", "reply"} /\ wpost[v] = p
      BY <1>3, <2>2 DEF IInv, PayInv
    <3>2. v = w
      BY <1>5, <3>1 DEF Busy
    <3> QED BY <1>4, <2>2, <3>1, <3>2
  <2>3. CASE x.post # p
    BY <1>1, <1>4, <2>1, <2>3 DEF IInv, PayInv
  <2> QED BY <2>2, <2>3
<1>10. EventInv'
  <2>1. \A x \in sprayed :
          \/ \E v \in Workers : wpc'[v] = "reply" /\ wpost'[v] = x[1]
          \/ pst'[x[1]] \in {"replied", "done"}
    <3> SUFFICES ASSUME NEW x \in sprayed
                 PROVE  \/ \E v \in Workers : wpc'[v] = "reply" /\ wpost'[v] = x[1]
                        \/ pst'[x[1]] \in {"replied", "done"}
      OBVIOUS
    <3>1. x[1] \in Posts
      BY DEF IInv, TypeOK
    <3>2. CASE x[1] = p
      <4>1. PICK v \in Workers : wpc[v] = "reply" /\ wpost[v] = p
        BY <1>3, <3>2 DEF IInv, EventInv
      <4>2. v = w
        BY <1>5, <4>1 DEF Busy
      <4> QED BY <1>4, <3>2, <4>1, <4>2
    <3>3. CASE x[1] # p
      BY <1>1, <1>4, <3>1, <3>3 DEF IInv, EventInv
    <3> QED BY <3>2, <3>3
  <2>2. how = "replied" => event[p].accepted = Cardinality(SprayedOf(p)) /\ Counted(p)
    <3> SUFFICES ASSUME how = "replied"
                 PROVE  event[p].accepted = Cardinality(SprayedOf(p)) /\ Counted(p)
      OBVIOUS
    <3>1. /\ IsFiniteSet(fresh[w]) /\ event[p].accepted = Cardinality(fresh[w])
          /\ Counted(p) /\ SprayedOf(p) = {p} \X fresh[w]
      BY <1>1 DEF IInv, EventInv
    <3>2. IsFiniteSet({p}) /\ Cardinality({p}) = 1 /\ Cardinality(fresh[w]) \in Nat
      BY <3>1, FS_Singleton, FS_CardinalityType
    <3>3. Cardinality({p} \X fresh[w]) = Cardinality({p}) * Cardinality(fresh[w])
      BY <3>1, <3>2, FS_Product
    <3>4. Cardinality({p} \X fresh[w]) = Cardinality(fresh[w])
      BY <3>2, <3>3
    <3> QED BY <3>1, <3>4
  <2>3. \A q \in Posts : pst'[q] = "replied" \/ q \in paylog =>
          event[q].accepted = Cardinality(SprayedOf(q)) /\ Counted(q)
    BY <1>3, <1>4, <2>2 DEF IInv, EventInv
  <2>4. \A v \in Workers : wpc'[v] \in {"spray", "reply"} =>
          v # w /\ wpc'[v] = wpc[v] /\ wpost'[v] = wpost[v] /\ fresh'[v] = fresh[v]
    BY <1>4
  <2>5. paylog \subseteq Posts
    BY DEF IInv, TypeOK
  <2>6. \A q \in paylog : pst'[q] = "done"
    BY <1>3, <1>4, <2>5 DEF IInv, EventInv
  <2>7. \A q : Counted(q)' = Counted(q) /\ SprayedOf(q)' = SprayedOf(q)
    BY <1>2 DEF Counted, SprayedOf
  <2>8. \A v \in Workers : wpc'[v] \in {"spray", "reply"} =>
          /\ IsFiniteSet(fresh[v]) /\ event[wpost[v]].accepted = Cardinality(fresh[v])
          /\ Counted(wpost[v])
          /\ wpc'[v] = "reply" => SprayedOf(wpost[v]) = {wpost[v]} \X fresh[v]
    BY <2>4 DEF IInv, EventInv
  <2>9. \A v \in Workers : wpc'[v] \in {"spray", "reply"} =>
          /\ IsFiniteSet(fresh'[v]) /\ event'[wpost'[v]].accepted = Cardinality(fresh'[v])
          /\ Counted(wpost[v])'
          /\ wpc'[v] = "reply" => SprayedOf(wpost[v])' = {wpost'[v]} \X fresh'[v]
    BY <1>2, <2>4, <2>8 DEF Counted, SprayedOf
  <2> QED BY <1>2, <2>1, <2>3, <2>6, <2>7, <2>9 DEF EventInv
<1> QED BY <1>6, <1>7, <1>8, <1>9, <1>10 DEF IInv

-----------------------------------------------------------------------------
(* handle_submit.                                                          *)

\* A post is queued, or refused.
LEMMA SubmitStep ==
  ASSUME IInv, NEW p \in Posts, NEW r \in Requests, Submit(p, r)
  PROVE  IInv'
<1>1. /\ UNCHANGED <<out, wpc, wpost, wconf, fresh, conn, event, paylog, unlogged>>
      /\ UNCHANGED <<chain, updq, updates, epoch, acc, sprayed>>
      /\ pst[p] = "none" /\ post' = [post EXCEPT ![p] = r]
      /\ \/ /\ Len(queue) < QueueLen /\ queue' = Append(queue, p)
            /\ pst' = [pst EXCEPT ![p] = "queued"]
         \/ UNCHANGED queue /\ pst' = [pst EXCEPT ![p] = "done"]
  BY DEF Submit, Room, workers, pool
<1>2. /\ pst'[p] \in {"queued", "done"} /\ \A q \in Posts \ {p} : pst'[q] = pst[q]
      /\ \A q \in Posts \ {p} : post'[q] = post[q]
  BY <1>1 DEF IInv, TypeOK
<1>3. \A v \in Workers : Busy(v) => wpost[v] \in Posts /\ wpost[v] # p
  BY <1>1 DEF IInv, OwnInv
<1>4. \A i \in 1 .. Len(queue) : queue[i] \in Posts /\ queue[i] # p
  BY <1>1 DEF IInv, TypeOK, OwnInv
<1>5. TypeOK'
  <2>1. queue' \in Seq(Posts) /\ Len(queue') <= QueueLen
    <3>1. QueueLen \in Nat /\ queue \in Seq(Posts) /\ Len(queue) \in Nat
      BY AnnHandlerAssumption DEF IInv, TypeOK
    <3>2. CASE UNCHANGED queue
      BY <3>2 DEF IInv, TypeOK
    <3>3. CASE Len(queue) < QueueLen /\ queue' = Append(queue, p)
      BY <3>1, <3>3
    <3> QED BY <1>1, <3>2, <3>3
  <2>2. post' \in [Posts -> Requests \cup {NoRequest}]
    BY <1>1 DEF IInv, TypeOK
  <2> QED BY <1>1, <2>1, <2>2 DEF IInv, TypeOK
<1>6. OwnInv'
  <2>1. \A v \in Workers : Busy(v)' <=> Busy(v)
    BY <1>1 DEF Busy
  <2>2. CASE UNCHANGED queue
    BY <1>1, <1>2, <1>3, <1>4, <2>1, <2>2 DEF IInv, OwnInv
  <2>3. CASE queue' = Append(queue, p) /\ pst' = [pst EXCEPT ![p] = "queued"]
    <3>1. /\ Len(queue) \in Nat /\ Len(queue') = Len(queue) + 1
          /\ queue'[Len(queue) + 1] = p
          /\ \A i \in 1 .. Len(queue) : queue'[i] = queue[i]
          /\ pst'[p] = "queued"
      BY <2>3 DEF IInv, TypeOK
    <3>2. \A i \in 1 .. Len(queue') : i \in 1 .. Len(queue) \/ i = Len(queue) + 1
      BY <3>1
    <3>3. \A i, j \in 1 .. Len(queue') : queue'[i] = queue'[j] => i = j
      BY <1>4, <3>1, <3>2 DEF IInv, OwnInv
    <3>4. \A i \in 1 .. Len(queue') : pst'[queue'[i]] = "queued"
      BY <1>2, <1>4, <3>1, <3>2 DEF IInv, OwnInv
    <3>5. \A v \in Workers : Busy(v) =>
            /\ wpost[v] \in Posts /\ pst'[wpost[v]] = "queued"
            /\ \A i \in 1 .. Len(queue') : queue'[i] # wpost[v]
      BY <1>2, <1>3, <3>1, <3>2 DEF IInv, OwnInv
    <3> QED BY <1>1, <2>1, <3>3, <3>4, <3>5 DEF IInv, OwnInv
  <2> QED BY <1>1, <2>2, <2>3
<1>7. TableInv'
  BY <1>1, TableFrame DEF IInv
<1>8. PayInv'
  <2>1. \A x \in acc : x.post \in Posts
    BY DEF IInv, TypeOK, Acceptance
  <2>2. \A x \in acc : x.post # p
    BY <1>1, <1>3 DEF IInv, PayInv, Busy
  <2> QED BY <1>1, <1>2, <2>1, <2>2 DEF IInv, PayInv
<1>9. EventInv'
  <2>1. \A x \in sprayed : x[1] \in Posts /\ x[1] # p
    BY <1>1, <1>3, ZenonT(40) DEF IInv, TypeOK, EventInv, Busy
  <2>2. paylog \subseteq Posts \ {p}
    BY <1>1 DEF IInv, TypeOK, EventInv
  <2>3. \A v \in Workers : wpc[v] \in {"spray", "reply"} =>
          wpost[v] \in Posts /\ post'[wpost[v]] = post[wpost[v]]
    BY <1>2, <1>3 DEF Busy
  <2>4. /\ \A q \in Posts : pst'[q] = "replied" \/ q \in paylog =>
             q # p /\ (pst[q] = "replied" \/ q \in paylog) /\ post'[q] = post[q]
        /\ \A q \in paylog : pst'[q] = "done"
    BY <1>2, <2>2 DEF IInv, EventInv
  <2> QED BY <1>1, <1>2, <2>1, <2>3, <2>4 DEF IInv, EventInv, Counted, SprayedOf
<1> QED BY <1>5, <1>6, <1>7, <1>8, <1>9 DEF IInv

\* The client goes away.
LEMMA DisconnectStep == ASSUME IInv, NEW p \in Posts, Disconnect(p) PROVE IInv'
<1> USE DEF Disconnect, workers, pool
<1>1. TypeOK'
  BY DEF IInv, TypeOK
<1>2. OwnInv' /\ TableInv'
  BY OwnFrame, TableFrame DEF IInv, Busy
<1>3. PayInv'
  <2>1. \A q : conn'[q] => conn[q]
    BY DEF IInv, TypeOK
  <2> QED BY <2>1 DEF IInv, PayInv
<1>4. EventInv'
  BY EventFrame DEF IInv
<1> QED BY <1>1, <1>2, <1>3, <1>4 DEF IInv

\* The reply arrives: an event is logged.
LEMMA AnswerStep == ASSUME IInv, NEW p \in Posts, Answer(p) PROVE IInv'
<1>1. /\ UNCHANGED <<out, queue, wpc, wpost, wconf, fresh, post, conn, event>>
      /\ UNCHANGED <<chain, updq, updates, epoch, acc, sprayed>>
      /\ pst[p] \in {"replied", "failed"} /\ conn[p]
      /\ IF pst[p] = "replied"
           THEN \/ paylog' = paylog \cup {p} /\ UNCHANGED unlogged
                \/ unlogged' = unlogged \cup {p} /\ UNCHANGED paylog
           ELSE UNCHANGED <<paylog, unlogged>>
      /\ pst' = [pst EXCEPT ![p] = "done"]
  BY DEF Answer, workers, pool
<1>2. pst'[p] = "done" /\ \A q \in Posts \ {p} : pst'[q] = pst[q]
  BY <1>1 DEF IInv, TypeOK
<1>3. \A v \in Workers : Busy(v) => wpost[v] \in Posts /\ wpost[v] # p
  BY <1>1 DEF IInv, OwnInv
<1>4. TypeOK'
  BY <1>1 DEF IInv, TypeOK
<1>5. OwnInv'
  <2>1. \A i \in 1 .. Len(queue) : queue[i] \in Posts /\ queue[i] # p
    BY <1>1 DEF IInv, TypeOK, OwnInv
  <2>2. \A v \in Workers : Busy(v)' <=> Busy(v)
    BY <1>1 DEF Busy
  <2> QED BY <1>1, <1>2, <1>3, <2>1, <2>2 DEF IInv, OwnInv
<1>6. TableInv'
  BY <1>1, TableFrame DEF IInv
<1>7. PayInv'
  <2>1. \A x \in acc : x.post \in Posts
    BY DEF IInv, TypeOK, Acceptance
  <2>2. \A x \in acc : x.post = p => p \in paylog' \cup unlogged'
    BY <1>1, <1>3 DEF IInv, PayInv, Busy
  <2>3. paylog \subseteq paylog' /\ unlogged \subseteq unlogged'
    BY <1>1
  <2> QED BY <1>1, <1>2, <2>1, <2>2, <2>3 DEF IInv, PayInv
<1>8. EventInv'
  <2>1. \A x \in sprayed : x[1] \in Posts
    BY DEF IInv, TypeOK
  <2>2. \A q \in Posts : pst'[q] = "replied" \/ q \in paylog' =>
          pst[q] = "replied" \/ q \in paylog
    BY <1>1, <1>2
  <2>3. paylog' \subseteq Posts /\ \A q \in paylog' : pst'[q] = "done"
    BY <1>1, <1>2 DEF IInv, TypeOK, EventInv
  <2> QED BY <1>1, <1>2, <2>1, <2>2, <2>3 DEF IInv, EventInv, Counted, SprayedOf
<1> QED BY <1>4, <1>5, <1>6, <1>7, <1>8 DEF IInv

-----------------------------------------------------------------------------
\* IInv holds when the handler starts.
LEMMA InitInv == Init => IInv
<1> SUFFICES ASSUME Init PROVE IInv
  OBVIOUS
<1>1. TypeOK
  <2>1. /\ 0 \in 0 .. MaxUpdates /\ 0 \in 0 .. U32 - 1 /\ Len(<<>>) <= QueueLen
    BY AnnHandlerAssumption
  <2> QED BY <2>1 DEF Init, TypeOK, Output, Conf, NoEvent, PostHeights
<1>2. OwnInv /\ TableInv /\ PayInv
  BY DEF Init, OwnInv, Busy, TableInv, AcceptedOnce, LateBatchRefused, PayInv
<1>3. EventInv
  BY DEF Init, EventInv
<1> QED BY <1>1, <1>2, <1>3 DEF IInv

\* Every step keeps IInv.
LEMMA StepInv == ASSUME IInv, [Next]_vars PROVE IInv'
<1>1. ASSUME NEW h \in Heights, NEW hash \in Hashes, NEW l \in BOOLEAN, Discover(h, hash, l)
      PROVE  IInv'
  BY <1>1, DiscoverStep
<1>2. ASSUME NEW p \in Posts, NEW r \in Requests, Submit(p, r)
      PROVE  IInv'
  BY <1>2, SubmitStep
<1>3. ASSUME NEW p \in Posts, Disconnect(p) \/ Answer(p) PROVE IInv'
  BY <1>3, DisconnectStep, AnswerStep
<1>4. ASSUME Worker0Step PROVE IInv'
  BY <1>4, ProcessUpdateStep, NoMoreUpdatesStep, RecvTimeoutStep DEF Worker0Step
<1>5. ASSUME NEW w \in Workers, WorkerStep(w) PROVE IInv'
  <2>1. CASE Reply(w) \/ ReplyError(w)
    BY <2>1, RepliesStep DEF Reply, ReplyError, Busy
  <2>2. CASE Take(w) \/ Invalid(w) \/ NoHandlers(w) \/ TooLate(w) \/ ProcessBatch(w) \/ Spray(w)
    BY <2>2, TakeStep, InvalidStep, NoHandlersStep, TooLateStep, ProcessBatchStep, SprayStep
  <2> QED BY <1>5, <2>1, <2>2 DEF WorkerStep
<1>6. CASE UNCHANGED vars
  <2>1. TypeOK'
    BY <1>6 DEF vars, workers, posts, pool, IInv, TypeOK
  <2>2. OwnInv' /\ TableInv' /\ PayInv' /\ EventInv'
    BY <1>6, OwnFrame, TableFrame, PayFrame, EventFrame
       DEF vars, workers, posts, IInv, Busy
  <2> QED BY <2>1, <2>2 DEF IInv
<1> QED BY <1>1, <1>2, <1>3, <1>4, <1>5, <1>6 DEF Next

\* The inductive invariant holds in every reachable state.
LEMMA Invariant == Spec => []IInv
BY InitInv, StepInv, PTL DEF Spec

\* The variables have their types: the queue of posts never holds more than
\* input_queue_len, and the counters of an event are u32s.
THEOREM TypeCorrect == Spec => []TypeOK
<1>1. IInv => TypeOK
  BY DEF IInv
<1> QED BY <1>1, Invariant, PTL

\* No announcement is accepted in two posts while its slot keeps its parent
\* block, whatever the workers that validate it at the same time do.
THEOREM AcceptedInOnePost == Spec => []AcceptedOnce
<1>1. IInv => AcceptedOnce
  BY DEF IInv, TableInv
<1> QED BY <1>1, Invariant, PTL

\* A batch whose slot went to another height between the two locks is
\* refused: a dedup table has announcements of its own height only.
THEOREM LateIsRefused == Spec => []LateBatchRefused
<1>1. IInv => LateBatchRefused
  BY DEF IInv, TableInv
<1> QED BY <1>1, Invariant, PTL

\* The event that is paid for counts what was sprayed, and accounts for the
\* whole of a batch without repeats.
THEOREM EventsCount == Spec => []EventCounts
<1>1. IInv => EventCounts
  <2> SUFFICES ASSUME IInv PROVE EventCounts
    OBVIOUS
  <2>1. paylog \subseteq Posts
    BY DEF IInv, TypeOK
  <2> QED BY <2>1 DEF IInv, EventInv, EventCounts, SprayedOf, Counted
<1> QED BY <1>1, Invariant, PTL

\* Accepted announcements are in the pay log once their post is answered,
\* unless the client went away before or handle_paylog returned an error.
THEOREM AcceptedPaid == Spec => []AcceptedArePaid
<1>1. IInv => AcceptedArePaid
  <2> SUFFICES ASSUME IInv, NEW x \in acc, pst[x.post] = "done", conn[x.post]
               PROVE  x.post \in paylog \cup unlogged
    BY DEF AcceptedArePaid
  <2> QED BY DEF IInv, PayInv, OwnInv, Busy
<1> QED BY <1>1, Invariant, PTL
=============================================================================
