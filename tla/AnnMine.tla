------------------------------ MODULE AnnMine ------------------------------
(***************************************************************************)
(* The announcement miner's control, annmine.rs, on top of the pool client *)
(* and of a miner that is an AnnSource: update_work_loop takes the pool's  *)
(* updates and starts the miner, handle_ann_loop spreads what the miner    *)
(* finds over the pool's handlers, and the uploaders of each handler post  *)
(* it.  There is one pool, the primary one.                                *)
(*                                                                         *)
(* A step is a section of code under one lock.  An announcement is its     *)
(* parent block's height (all of its header that this code looks at) and   *)
(* an identity.  Clocks are left out: a batch may be old at any time.      *)
(***************************************************************************)
EXTENDS PoolClient, AnnSource, FiniteSets

CONSTANTS
    Ring,        \* RECENT_WORK_BUF, a power of 2
    Ids,         \* the identities of announcements: a bound on their number
    Uploaders,   \* cfg.uploaders
    MaxBatch,    \* MAX_ANN_BATCH_SIZE
    QueueLen     \* UPLOAD_CHANNEL_LEN

Urls == UNION {{u[i] : i \in DOMAIN u} : u \in UrlLists}

Anns == [hdr : Heights, id : Ids]
\* A URL that comes back gets a new handler.
Handlers == Urls \X (1 .. MaxChanges + 1)
Loops == Handlers \X (1 .. Uploaders)
Batch == [h : Int, anns : Seq(Anns)]

ASSUME AnnMineAssumption ==
    /\ Ring \in Nat /\ Depth < Ring
    /\ Olds \subseteq 0 .. Depth - 1
    /\ UrlLists \subseteq Seq(Urls)
    /\ \A u \in UrlLists : \A i, j \in DOMAIN u : u[i] = u[j] => i = j
    /\ Uploaders \in Nat \ {0} /\ MaxBatch \in Nat \ {0} /\ QueueLen \in Nat \ {0}
    /\ None \notin [ann : Anns, h : Handlers]

VARIABLES
    work,        \* PoolMut.recent_work
    mining,      \* PoolMut.currently_mining
    handlers,    \* PoolMut.handlers
    toStop,      \* dropped handlers that are not told yet
    shutdown,    \* Handler.shutdown is set
    job,         \* the block the miner was started with last
    results,     \* the channel from the miner's threads to handle_ann_loop
    hand,        \* an announcement and the handler handle_ann_loop has chosen
    htip,        \* Handler.tip
    queue,       \* Handler.queue, its back last
    loop,        \* where an uploader is, and the batch it posts
    \* history
    peak,        \* the highest block of an update that was not old
    made,        \* the handlers there have been
    over         \* the announcements that are done with: an end and the batch

workVars == <<work, mining, handlers, toStop, job, peak, made>>
uploadVars == <<htip, queue, loop, over>>
vars == <<poolVars, started, found, workVars, shutdown, results, hand, uploadVars>>

Ends == {"nohandler", "old", "lost", "overload", "replied"}

\* The variables have their types; an uploader runs for a handler that was made.
TypeOK ==
    /\ PoolTypeOK
    /\ started \subseteq Heights /\ IsABag(found) /\ BagToSet(found) \subseteq Anns
    /\ work \in [0 .. Ring - 1 -> Blocks \cup {None}]
    /\ mining \in Int /\ peak \in Nat
    /\ handlers \in Seq(Handlers) /\ toStop \subseteq made /\ shutdown \subseteq made
    /\ job \in Blocks \cup {None}
    /\ results \in Seq(Anns)
    /\ hand \in [ann : Anns, h : made] \cup {None}
    /\ htip \in [Handlers -> Batch]
    /\ queue \in [Handlers -> Seq(Batch)]
    /\ loop \in [Loops -> [at : {"none", "pop", "post", "exited"}, b : Batch]]
    /\ \A l \in Loops : loop[l].at /= "none" <=> l[1] \in made
    /\ made \subseteq Handlers
    /\ over \subseteq Ends \X Batch

NewBatch(h) == [h |-> h, anns |-> <<>>]
At(label) == [at |-> label, b |-> NewBatch(0)]

\* annmine::new and start.
Init ==
    /\ PoolInit /\ SourceInit
    /\ work = [s \in 0 .. Ring - 1 |-> None]
    /\ mining = -1 /\ handlers = <<>> /\ toStop = {} /\ shutdown = {}
    /\ job = None /\ peak = 0
    /\ results = <<>> /\ hand = None
    /\ htip = [h \in Handlers |-> NewBatch(0)]
    /\ queue = [h \in Handlers |-> <<>>]
    /\ loop = [l \in Loops |-> At("none")]
    /\ made = {} /\ over = {}

-----------------------------------------------------------------------------
(* update_work_cycle.                                                      *)

Slot(height) == height % Ring
Max2(a, b) == IF a > b THEN a ELSE b

\* Mutant: a block is entered whatever is in its place.
OldMutant(b) == FALSE
\* recent_work has a later block in the place of b.
Old(b) == work[Slot(Height[b])] /= None /\ Height[work[Slot(Height[b])]] > Height[b]

\* The blocks of an update that are entered: those before the first old one.
Entered(u) ==
    SubSeq(u.blocks, 1,
           CHOOSE n \in 0 .. Len(u.blocks) :
               /\ n < Len(u.blocks) => Old(u.blocks[n + 1])
               /\ \A i \in 1 .. n : ~Old(u.blocks[i]))
WithWork(u) ==
    LET entered == Entered(u)
        in(s) == {i \in DOMAIN entered : Slot(Height[entered[i]]) = s}
    IN  [s \in 0 .. Ring - 1 |->
            IF in(s) = {} THEN work[s] ELSE entered[CHOOSE i \in in(s) : TRUE]]

\* The highest block of an update, its first, decides, and the update's
\* mine_old_anns (with --mineold it is one number: Olds has no other).
TopOf(u) == IF u.blocks = <<>> THEN 0 ELSE Height[u.blocks[1]]
CurrentlyMining(u) == Max2(mining, TopOf(u) - u.conf.old)

UrlOf(h) == h[1]
Listed(u, h) == \E i \in DOMAIN u.conf.urls : u.conf.urls[i] = UrlOf(h)
Dropped(u) == {handlers[i] : i \in {j \in DOMAIN handlers : ~Listed(u, handlers[j])}}

\* The handler for a URL: the one there is, or a new one.
Current(url) == {handlers[i] : i \in {j \in DOMAIN handlers : UrlOf(handlers[j]) = url}}
Fresh(url) == <<url, Cardinality({h \in made : UrlOf(h) = url}) + 1>>
HandlerFor(url) ==
    IF Current(url) = {} THEN Fresh(url) ELSE CHOOSE h \in Current(url) : TRUE

\* The handlers are put in the order of their URLs if one is added or removed.
NewHandlers(u) ==
    LET listed == [i \in DOMAIN u.conf.urls |-> HandlerFor(u.conf.urls[i])]
    IN  IF Dropped(u) = {} /\ \A i \in DOMAIN listed : listed[i] \in made
        THEN handlers ELSE listed

SetHandlers(u, height) ==
    LET new == {NewHandlers(u)[i] : i \in DOMAIN NewHandlers(u)} \ made IN
    /\ handlers' = NewHandlers(u)
    /\ toStop' = Dropped(u)
    /\ made' = made \cup new
    /\ htip' = [h \in Handlers |-> IF h \in new THEN NewBatch(height) ELSE htip[h]]
    /\ loop' = [l \in Loops |-> IF l[1] \in new THEN At("pop") ELSE loop[l]]

\* An update with an old block is not looked at any further.
UpdateIsOld(u) ==
    /\ toStop = {} /\ Receive(u)
    /\ Len(Entered(u)) < Len(u.blocks)
    /\ work' = WithWork(u)
    /\ UNCHANGED <<missed, started, found, mining, handlers, toStop, job, peak, made,
                   shutdown, results, hand, uploadVars>>

\* The block to mine on.
JobOf(u) == WithWork(u)[Slot(CurrentlyMining(u))]

\* Neither is one that comes before it.
NoWorkYet(u) ==
    /\ toStop = {} /\ Receive(u)
    /\ Len(Entered(u)) = Len(u.blocks)
    /\ JobOf(u) = None
    /\ work' = WithWork(u)
    /\ mining' = CurrentlyMining(u) /\ peak' = Max2(peak, TopOf(u))
    /\ UNCHANGED <<missed, started, found, handlers, toStop, job, made, shutdown,
                   results, hand, uploadVars>>

\* Otherwise the handlers are updated.
TakeUpdate(u) ==
    /\ toStop = {} /\ Receive(u)
    /\ Len(Entered(u)) = Len(u.blocks)
    /\ JobOf(u) /= None
    /\ work' = WithWork(u)
    /\ mining' = CurrentlyMining(u) /\ peak' = Max2(peak, TopOf(u))
    /\ SetHandlers(u, Height[JobOf(u)])
    /\ UNCHANGED <<shutdown, results, hand, queue, over>>

\* The miner is started.
StartMining(u) ==
    /\ TakeUpdate(u)
    /\ job' = JobOf(u)
    /\ StartSource(Height[JobOf(u)])
    /\ UNCHANGED missed

\* "Pool did not provide ann_target, buggy pool": it is not.  Any update may lack it.
NoTarget(u) ==
    /\ TakeUpdate(u)
    /\ missed' = TRUE
    /\ UNCHANGED <<job, started, found>>

\* Mutant: the flag is never set.
TellMutant(h) == toStop' = toStop \ {h} /\ UNCHANGED shutdown
Tell(h) == toStop' = toStop \ {h} /\ shutdown' = shutdown \cup {h}
\* update_work_loop tells the dropped handlers.
ShutDown(h) ==
    /\ h \in toStop
    /\ Tell(h)
    /\ UNCHANGED <<poolVars, started, found, work, mining, handlers, job, peak, made,
                   results, hand, uploadVars>>

-----------------------------------------------------------------------------
(* handle_ann_loop.                                                        *)

\* on_ann_found, in a thread of the miner.
OnAnnFound(a) ==
    /\ \A b \in BagToSet(found) : b.id /= a.id
    /\ Find({a})
    /\ results' = Append(results, a)
    /\ UNCHANGED <<poolVars, workVars, shutdown, hand, uploadVars>>

\* submit_to_pool, under the lock of PoolMut.  dedup_hash may choose any handler.
ChooseHandler(h) ==
    /\ results /= <<>> /\ hand = None
    /\ \E i \in DOMAIN handlers : handlers[i] = h
    /\ hand' = [ann |-> Head(results), h |-> h]
    /\ results' = Tail(results)
    /\ UNCHANGED <<poolVars, started, found, workVars, shutdown, uploadVars>>

NoHandler ==
    /\ results /= <<>> /\ hand = None
    /\ handlers = <<>>
    /\ over' = over \cup {<<"nohandler", [h |-> Head(results).hdr, anns |-> <<Head(results)>>]>>}
    /\ results' = Tail(results)
    /\ UNCHANGED <<poolVars, started, found, workVars, shutdown, hand, htip,
                   queue, loop>>

\* submit_anns: what batches are added to a queue, and which one is given up.
Queued(q, b) ==
    IF b.anns = <<>> THEN q
    ELSE Append(IF Len(q) >= QueueLen THEN Tail(q) ELSE q, b)
GivenUp(q, b) ==
    IF b.anns /= <<>> /\ Len(q) >= QueueLen THEN {<<"lost", Head(q)>>} ELSE {}

\* Mutant: an announcement of a later block goes into the batch there is.
AnotherBlockMutant(b, a) == FALSE
AnotherBlock(b, a) == b.h < a.hdr

\* submit_to_pool, under the lock of the tip.  late: the batch is over 10 s old.
RefuseOld ==
    /\ hand /= None /\ htip[hand.h].h > hand.ann.hdr
    /\ over' = over \cup {<<"old", [h |-> hand.ann.hdr, anns |-> <<hand.ann>>]>>}
    /\ hand' = None
    /\ UNCHANGED <<poolVars, started, found, workVars, shutdown, results, htip,
                   queue, loop>>

Submit(late) ==
    LET h == hand.h
        a == hand.ann
        another == AnotherBlock(htip[h], a)
        q == IF another THEN Queued(queue[h], htip[h]) ELSE queue[h]
        gone == IF another THEN GivenUp(queue[h], htip[h]) ELSE {}
        b == [h |-> IF another THEN a.hdr ELSE htip[h].h,
              anns |-> IF another THEN <<a>> ELSE Append(htip[h].anns, a)]
        full == late \/ Len(b.anns) >= MaxBatch
    IN  /\ hand /= None /\ htip[h].h <= a.hdr
        /\ htip' = [htip EXCEPT ![h] = IF full THEN NewBatch(b.h) ELSE b]
        /\ queue' = [queue EXCEPT ![h] = IF full THEN Queued(q, b) ELSE q]
        /\ over' = over \cup gone \cup (IF full THEN GivenUp(q, b) ELSE {})
        /\ hand' = None
        /\ UNCHANGED <<poolVars, started, found, workVars, shutdown, results, loop>>

-----------------------------------------------------------------------------
(* uploader_loop and upload_batch.                                         *)

\* Mutant: the batch stays in the queue.
PoppedMutant(q) == q
Popped(q) == SubSeq(q, 1, Len(q) - 1)
\* The newest batch is posted first.
PopBatch(l) ==
    LET h == l[1] IN
    /\ loop[l].at = "pop"
    /\ h \notin shutdown /\ queue[h] /= <<>>
    /\ loop' = [loop EXCEPT ![l] = [at |-> "post", b |-> queue[h][Len(queue[h])]]]
    /\ queue' = [queue EXCEPT ![h] = Popped(@)]
    /\ UNCHANGED <<poolVars, started, found, workVars, shutdown, results, hand,
                   htip, over>>

\* A reply (which accepts some of the announcements and rejects the others),
\* a reply that says "overloaded", or an error, a timeout among them.
UploadEnds(l, end) ==
    /\ loop[l].at = "post"
    /\ over' = over \cup {<<end, loop[l].b>>}
    /\ loop' = [loop EXCEPT ![l] = At("pop")]
    /\ UNCHANGED <<poolVars, started, found, workVars, shutdown, results, hand,
                   htip, queue>>

UploaderExits(l) ==
    /\ loop[l].at = "pop" /\ l[1] \in shutdown
    /\ loop' = [loop EXCEPT ![l] = At("exited")]
    /\ UNCHANGED <<poolVars, started, found, workVars, shutdown, results, hand,
                   htip, queue, over>>

-----------------------------------------------------------------------------
annMineVars == <<started, found, workVars, shutdown, results, hand, uploadVars>>

UpdateStep ==
    \/ (Subscribe \/ Lag) /\ UNCHANGED annMineVars
    \/ \E i \in DOMAIN chan :
          \/ UpdateIsOld(chan[i]) \/ NoWorkYet(chan[i])
          \/ StartMining(chan[i]) \/ NoTarget(chan[i])
    \/ \E h \in toStop : ShutDown(h)
ClientStep == (FetchConf \/ DiscoverBlocks) /\ UNCHANGED annMineVars
AnnStep ==
    \/ \E h \in Handlers : ChooseHandler(h)
    \/ NoHandler \/ RefuseOld
    \/ \E late \in BOOLEAN : Submit(late)
UploaderStep(l) ==
    \/ PopBatch(l) \/ UploaderExits(l)
    \/ \E end \in {"lost", "overload", "replied"} : UploadEnds(l, end)

Next ==
    \/ \E c \in Confs : MasterChanges(c) /\ UNCHANGED annMineVars
    \/ \E a \in Anns : OnAnnFound(a)
    \/ ClientStep \/ UpdateStep \/ AnnStep
    \/ \E l \in Loops : UploaderStep(l)

Spec == Init /\ [][Next]_vars

\* The tasks run; a request that is made again and again succeeds, and a post
\* ends, by its timeout if by nothing else.
FairSpec ==
    /\ Spec
    /\ WF_vars(ClientStep) /\ WF_vars(UpdateStep) /\ WF_vars(AnnStep)
    /\ \A l \in Loops : WF_vars(UploaderStep(l))

-----------------------------------------------------------------------------
(* Properties.                                                             *)

\* The miner works on a block of the chain of the pool's tip, as far below it as
\* the pool has said, or between the least and the most it has said.
OnTip ==
    \E i \in 0 .. Depth - 1, lo, hi \in olds :
        lo <= i /\ i <= hi /\ job = Ancestor(tip, i)

\* Once nothing is on its way, the miner works on a block of the pool's chain, and
\* on the one mine_old_anns below its tip if the pool has not changed that number,
\* and there is a handler for every URL and no other, whatever forks there were,
\* unless an update was missed or had no ann_target, or the tip moved down.
InSync ==
    Quiet /\ ~missed /\ ~down =>
        /\ OnTip
        /\ {UrlOf(handlers[i]) : i \in DOMAIN handlers} = {urls[i] : i \in DOMAIN urls}

\* The block the miner works on is of the height currently_mining, also after a
\* rollback and after changes of mine_old_anns, unless an update was missed: no slot
\* of recent_work is taken for another.
JobAtHeight == job /= None /\ ~missed => Height[job] = mining

\* Where an announcement is: in a handler's tip or queue, with an uploader,
\* done with, in the channel or in hand.
Has(b, a) == \E i \in DOMAIN b.anns : b.anns[i] = a
InTips(a) == {<<"tip", h>> : h \in {g \in made : Has(htip[g], a)}}
InQueues(a) ==
    UNION {{<<"queue", h, n>> : n \in {k \in DOMAIN queue[h] : Has(queue[h][k], a)}} : h \in made}
InPosts(a) == {<<"post", l>> : l \in {k \in Loops : Has(loop[k].b, a)}}
Ended(a) == {o \in over : Has(o[2], a)}
InResults(a) == {<<"result", i>> : i \in {k \in DOMAIN results : results[k] = a}}
InHand(a) == IF hand /= None /\ hand.ann = a THEN {<<"hand">>} ELSE {}
Places(a) ==
    InTips(a) \cup InQueues(a) \cup InPosts(a) \cup Ended(a) \cup InResults(a) \cup InHand(a)

\* Every announcement found is in one place.  None is posted twice.
OnePlace == \A a \in BagToSet(found) : Cardinality(Places(a)) = 1

\* A batch is posted with the height its announcements were mined on, so that
\* the handler does not refuse them, and a queue holds the batches in the
\* order of their heights: the one given up is of the oldest block.
Batches(h) == {htip[h]} \cup {queue[h][i] : i \in DOMAIN queue[h]}
              \cup {loop[l].b : l \in {k \in Loops : k[1] = h}}
BatchHeights ==
    \A h \in made :
        /\ \A b \in Batches(h) : \A i \in DOMAIN b.anns : b.anns[i].hdr = b.h
        /\ \A i, j \in DOMAIN queue[h] : i < j => queue[h][i].h <= queue[h][j].h
        /\ \A i \in DOMAIN queue[h] : queue[h][i].h <= htip[h].h

\* The uploaders of a handler that is dropped come to their end, and what is
\* queued for the others is posted or given up.
UploadersEnd ==
    <>[](\A l \in Loops :
            /\ l[1] \in made /\ (\A i \in DOMAIN handlers : handlers[i] /= l[1])
                  => loop[l].at = "exited"
            /\ (\E i \in DOMAIN handlers : handlers[i] = l[1]) => queue[l[1]] = <<>>)

\* The pool client comes to rest, and with it the work of the miner.
Settles == <>[](Quiet /\ (OnTip \/ missed \/ down))

(* Statements of the code that do not hold.                                *)

\* The miner follows the pool's mine_old_anns.
FollowsMineOld == Quiet /\ ~missed /\ ~down => job = Ancestor(tip, old)

\* "returns a vector of blocks which have been changed": what the client has
\* changed in its chain it tells.
ChangedAreTold ==
    [][DiscoverBlocks /\ subscribed =>
        {chain'[h] : h \in {k \in Heights : chain'[k] /= chain[k]}}
            = {chan'[Len(chan')].blocks[i] : i \in DOMAIN chan'[Len(chan')].blocks}]_vars

\* "put them in the right order because order of handlers is used to determine
\* which ann should be sent where".
HandlersInOrder ==
    Quiet /\ ~missed /\ ~down => [i \in DOMAIN handlers |-> UrlOf(handlers[i])] = urls

\* "it updates the local state appropriately": the blocks up to the tip are a
\* chain.
ChainIsChain ==
    cpc = "poll" /\ mc /= None =>
        \A i \in 0 .. Depth - 1 : chain[Height[mc.tip] - i] = Ancestor(mc.tip, i)

\* No announcement stays in a handler that was dropped.
NothingLeftBehind ==
    \A h \in shutdown :
        (\A k \in 1 .. Uploaders : loop[<<h, k>>].at = "exited") =>
            htip[h].anns = <<>> /\ queue[h] = <<>>
=============================================================================
