------------------------------ MODULE AnnStore ------------------------------
(***************************************************************************)
(* The announcement store of the block miner: AnnStore (ann_store.rs), its *)
(* AnnClasses (ann_class.rs) and their AnnBufs (ann_buf.rs).               *)
(*                                                                         *)
(* Announcements arrive on many threads and are filed by HeightWork into   *)
(* classes.  A class fills one buffer at a time (its topbuf); a full one is *)
(* sealed (sorted and locked) and joins the class's bufs, which is what    *)
(* compute_tree mines.  The buffers are a fixed pool: to make room a thread *)
(* steals one from the least valuable class that is not being mined.       *)
(*                                                                         *)
(* A step is a stretch of code that other threads see as one: a section    *)
(* under an exclusive lock, or a single operation on an atomic.  Both locks *)
(* are RwLocks.  Who reads under a lock is told by pc and cpc; sections     *)
(* under a write lock are single steps whose guard asks for no reader.     *)
(***************************************************************************)
EXTENDS Integers, FiniteSets

CONSTANTS
    Threads,    \* the threads that call AnnStore::push_anns
    Trees,      \* the ProofTrees; at most one compute_tree runs on each
    Bufs,       \* the AnnBufs that AnnStore::new allocates
    HW,         \* HeightWorks, one class each
    StoreHW,    \* the HeightWork of the class that owns every AnnBuf at first
    Blocks,     \* heights that AnnStore::block is told of
    SZ,         \* ANNBUF_SZ
    MaxBatch,   \* the longest AnnChunk
    None

NoBlock == -1

ASSUME ConstantsAssumption ==
    /\ HW \subseteq [block_height : Nat, work : Nat]
    /\ StoreHW \in HW
    /\ StoreHW.block_height = 0
    /\ \A h \in HW \ {StoreHW} : h.block_height > 0 /\ h.work < StoreHW.work
    /\ Blocks \subseteq Nat
    /\ SZ \in Nat \ {0}
    /\ MaxBatch \in Nat \ {0}
    /\ None \notin Bufs /\ None \notin HW /\ None \notin Trees
    /\ Bufs # {}

PushHW == HW \ {StoreHW}

VARIABLES
    \* AnnStoreMut
    live,       \* the keys of classes
    tip,        \* the highest key of recent_blocks, or NoBlock
    \* AnnClassMut and AnnClass.mining, by HeightWork
    bufs,       \* the sealed buffers (the order in the Vec is left out)
    topbuf,     \* the buffer being filled, or None
    mining,
    \* AnnBuf
    next,       \* next_ann_index
    locked,
    data,       \* the class each slot's announcement belongs to
    \* the pushing threads
    pc,
    hw,         \* the HeightWork of the AnnChunk being pushed
    n,          \* how many of its announcements are still to be stored
    held,       \* ab, maybe_buf, newbuf and then oldtop of the call
    spare,      \* ThreadData.spare_buf
    from,       \* ann_index, the first slot claimed in topbuf
    todo,       \* classes that steal_non_mining_buf has not tried
    cand,       \* the class it is about to try a second time
    \* compute_tree, by tree
    cpc,
    best,       \* ClassSet.best_set
    scan,       \* classes not visited yet
    taken,      \* by class, what take_bufs gave
    index,      \* the buffers whose announcements are in index_table
    solo        \* history: the tree whose compute_tree began last, unless
                \* another one was running then

storeVars == <<live, tip>>
classVars == <<bufs, topbuf, mining>>
bufVars == <<next, locked, data>>
stealVars == <<todo, cand>>
pushVars == <<pc, hw, n, held, spare, from, todo, cand>>
treeVars == <<cpc, best, scan, taken, index, solo>>
vars == <<live, tip, bufs, topbuf, mining, next, locked, data, pc, hw, n,
          held, spare, from, todo, cand, cpc, best, scan, taken, index, solo>>

Slots == 0 .. SZ - 1

PushPC == {"idle", "loop", "steal", "find", "create", "read", "store",
           "write", "top", "recheck", "seal"}
TreePC == {"idle", "scan", "take", "return"}

\* The variables have their types: push_anns and compute_tree only handle known
\* buffers and classes, and no chunk grows while it is pushed.
TypeOK ==
    /\ live \subseteq HW
    /\ tip \in Blocks \cup {NoBlock}
    /\ bufs \in [HW -> SUBSET Bufs]
    /\ topbuf \in [HW -> Bufs \cup {None}]
    /\ mining \in [HW -> BOOLEAN]
    /\ next \in [Bufs -> Nat]
    /\ locked \in [Bufs -> BOOLEAN]
    /\ data \in [Bufs -> [Slots -> HW \cup {None}]]
    /\ pc \in [Threads -> PushPC]
    /\ hw \in [Threads -> HW]
    /\ n \in [Threads -> 0 .. MaxBatch]
    /\ held \in [Threads -> Bufs \cup {None}]
    /\ spare \in [Threads -> Bufs \cup {None}]
    /\ from \in [Threads -> Nat]
    /\ todo \in [Threads -> SUBSET HW]
    /\ cand \in [Threads -> HW \cup {None}]
    /\ cpc \in [Trees -> TreePC]
    /\ best \in [Trees -> SUBSET HW]
    /\ scan \in [Trees -> SUBSET HW]
    /\ taken \in [Trees -> [HW -> SUBSET Bufs]]
    /\ index \in [Trees -> SUBSET Bufs]
    /\ solo \in Trees \cup {None}

Init ==
    /\ live = {StoreHW}
    /\ tip = NoBlock
    /\ \E b \in Bufs :
          /\ topbuf = [h \in HW |-> IF h = StoreHW THEN b ELSE None]
          /\ bufs = [h \in HW |-> IF h = StoreHW THEN Bufs \ {b} ELSE {}]
    /\ mining = [h \in HW |-> FALSE]
    /\ next = [b \in Bufs |-> 0]
    /\ locked = [b \in Bufs |-> FALSE]
    /\ data = [b \in Bufs |-> [i \in Slots |-> None]]
    /\ pc = [t \in Threads |-> "idle"]
    /\ hw = [t \in Threads |-> StoreHW]
    /\ n = [t \in Threads |-> 0]
    /\ held = [t \in Threads |-> None]
    /\ spare = [t \in Threads |-> None]
    /\ from = [t \in Threads |-> 0]
    /\ todo = [t \in Threads |-> {}]
    /\ cand = [t \in Threads |-> None]
    /\ cpc = [k \in Trees |-> "idle"]
    /\ best = [k \in Trees |-> {}]
    /\ scan = [k \in Trees |-> {}]
    /\ taken = [k \in Trees |-> [h \in HW |-> {}]]
    /\ index = [k \in Trees |-> {}]
    /\ solo = None

-----------------------------------------------------------------------------
(* The locks.                                                              *)

\* Inside AnnClass::push_anns, which push_anns1 calls with the store's read
\* lock held.
InClass(t) == pc[t] \in {"read", "store", "write", "top", "recheck", "seal"}

\* Mutant of NoStoreReader: compute_tree runs without the store's read lock.
NoPushingReader == \A t \in Threads : ~InClass(t) /\ pc[t] # "steal"

NoStoreReader ==
    /\ \A t \in Threads : ~InClass(t) /\ pc[t] # "steal"
    /\ \A k \in Trees : cpc[k] = "idle"

\* Between fetch_add and the last write a pushing thread reads its class.
Claiming(t) == pc[t] \in {"store", "write"}

\* Mutant of NoClassReader: the write sections do not wait for the readers.
AnyClassReader(h) == h \in HW

NoClassReader(h) == \A t \in Threads : ~(Claiming(t) /\ hw[t] = h)

-----------------------------------------------------------------------------
(* AnnStore::push_anns and steal_non_mining_buf.                           *)

BeginPush(t) ==
    /\ pc[t] = "idle"
    /\ \E h \in PushHW, len \in 1 .. MaxBatch :
          /\ hw' = [hw EXCEPT ![t] = h]
          /\ n' = [n EXCEPT ![t] = len]
    /\ pc' = [pc EXCEPT ![t] = "loop"]
    /\ UNCHANGED <<held, spare, from, stealVars, storeVars, classVars,
                   bufVars, treeVars>>

TakeSpare(t) ==
    /\ pc[t] = "loop"
    /\ spare[t] # None
    /\ held' = [held EXCEPT ![t] = spare[t]]
    /\ spare' = [spare EXCEPT ![t] = None]
    /\ pc' = [pc EXCEPT ![t] = "find"]
    /\ UNCHANGED <<hw, n, from, stealVars, storeVars, classVars, bufVars,
                   treeVars>>

\* The classes old enough to be robbed; before the first block, only those of
\* height 0.
Stealable ==
    IF tip = NoBlock
    THEN {h \in live : h.block_height = 0}
    ELSE {h \in live : tip + 1 - h.block_height > 3}

\* ann_effective_work is min_ann_work for every class in Stealable: the ones
\* whose work it would degrade are the ones that are too new.
LeastValuable(S) == {h \in S : \A g \in S : g.work <= h.work}

StealStart(t) ==
    /\ pc[t] = "loop"
    /\ spare[t] = None
    /\ todo' = [todo EXCEPT ![t] = Stealable]
    /\ cand' = [cand EXCEPT ![t] = None]
    /\ pc' = [pc EXCEPT ![t] = "steal"]
    /\ UNCHANGED <<hw, n, held, spare, from, storeVars, classVars, bufVars,
                   treeVars>>

\* Mutant of StealableBufs: steal_buf does not look at mining.
StealableBufsOfMined(h) ==
    IF bufs[h] # {} THEN bufs[h] ELSE {topbuf[h]} \ {None}

\* What AnnClass::steal_buf may give.
StealableBufs(h) ==
    IF mining[h] THEN {}
    ELSE IF bufs[h] # {} THEN bufs[h]
    ELSE {topbuf[h]} \ {None}

NextVictim(t) ==
    IF cand[t] # None THEN {cand[t]} ELSE LeastValuable(todo[t])

\* Mutant of Steal: the stolen buffer is not reset.
StealNoReset(t) ==
    /\ pc[t] = "steal"
    /\ \E h \in NextVictim(t) :
          /\ NoClassReader(h)
          /\ \E b \in StealableBufs(h) :
                /\ IF b \in bufs[h]
                   THEN /\ bufs' = [bufs EXCEPT ![h] = @ \ {b}]
                        /\ UNCHANGED topbuf
                   ELSE /\ topbuf' = [topbuf EXCEPT ![h] = None]
                        /\ UNCHANGED bufs
                /\ held' = [held EXCEPT ![t] = b]
    /\ todo' = [todo EXCEPT ![t] = {}]
    /\ cand' = [cand EXCEPT ![t] = None]
    /\ pc' = [pc EXCEPT ![t] = "find"]
    /\ UNCHANGED <<hw, n, spare, from, mining, bufVars, storeVars, treeVars>>

\* steal_buf and AnnBuf::reset.
Steal(t) ==
    /\ pc[t] = "steal"
    /\ \E h \in NextVictim(t) :
          /\ NoClassReader(h)
          /\ \E b \in StealableBufs(h) :
                /\ IF b \in bufs[h]
                   THEN /\ bufs' = [bufs EXCEPT ![h] = @ \ {b}]
                        /\ UNCHANGED topbuf
                   ELSE /\ topbuf' = [topbuf EXCEPT ![h] = None]
                        /\ UNCHANGED bufs
                /\ next' = [next EXCEPT ![b] = 0]
                /\ locked' = [locked EXCEPT ![b] = FALSE]
                /\ held' = [held EXCEPT ![t] = b]
    /\ todo' = [todo EXCEPT ![t] = {}]
    /\ cand' = [cand EXCEPT ![t] = None]
    /\ pc' = [pc EXCEPT ![t] = "find"]
    /\ UNCHANGED <<hw, n, spare, from, mining, data, storeVars, treeVars>>

\* Once blocks are known every class is tried twice.
StealNothing(t) ==
    /\ pc[t] = "steal"
    /\ \E h \in NextVictim(t) :
          /\ NoClassReader(h)
          /\ StealableBufs(h) = {}
          /\ todo' = [todo EXCEPT ![t] = @ \ {h}]
          /\ cand' = [cand EXCEPT
                        ![t] = IF @ = None /\ tip # NoBlock THEN h ELSE None]
    /\ UNCHANGED <<pc, hw, n, held, spare, from, storeVars, classVars,
                   bufVars, treeVars>>

\* No buffer to be had: push_anns returns and the rest of the chunk is lost.
StealFailed(t) ==
    /\ pc[t] = "steal"
    /\ NextVictim(t) = {}
    /\ n' = [n EXCEPT ![t] = 0]
    /\ pc' = [pc EXCEPT ![t] = "idle"]
    /\ UNCHANGED <<hw, held, spare, from, stealVars, storeVars, classVars,
                   bufVars, treeVars>>

-----------------------------------------------------------------------------
(* AnnStore::push_anns1.                                                   *)

FindClass(t) ==
    /\ pc[t] = "find"
    /\ pc' = [pc EXCEPT ![t] = IF hw[t] \in live THEN "read" ELSE "create"]
    /\ UNCHANGED <<hw, n, held, spare, from, stealVars, storeVars, classVars,
                   bufVars, treeVars>>

IsDead(h) == bufs[h] = {} /\ topbuf[h] = None

CreateClass(t) ==
    /\ pc[t] = "create"
    /\ NoStoreReader
    /\ LET kept == {h \in live : ~IsDead(h)} IN
          /\ live' = kept \cup {hw[t]}
          /\ mining' = [h \in HW |-> mining[h] /\ h \in kept]
    /\ pc' = [pc EXCEPT ![t] = "find"]
    /\ UNCHANGED <<tip, bufs, topbuf, hw, n, held, spare, from, stealVars,
                   bufVars, treeVars>>

-----------------------------------------------------------------------------
(* AnnClass::push_anns and AnnBuf::push_anns.                              *)

\* Mutant of Return: the caller drops a buffer that was not needed.
ReturnDropsBuf(t, left) ==
    /\ n' = [n EXCEPT ![t] = left]
    /\ pc' = [pc EXCEPT ![t] = IF left = 0 THEN "idle" ELSE "loop"]
    /\ held' = [held EXCEPT ![t] = None]
    /\ UNCHANGED spare

\* AnnClass::push_anns returns with left announcements not stored: what is in
\* maybe_buf becomes the thread's spare, and push_anns goes round again unless
\* it is done.
Return(t, left) ==
    /\ n' = [n EXCEPT ![t] = left]
    /\ pc' = [pc EXCEPT ![t] = IF left = 0 THEN "idle" ELSE "loop"]
    /\ spare' = [spare EXCEPT ![t] = IF held[t] # None THEN held[t] ELSE @]
    /\ held' = [held EXCEPT ![t] = None]

\* The read section: fetch_add claims the space.
Claim(t) ==
    /\ pc[t] = "read"
    /\ topbuf[hw[t]] # None
    /\ LET b == topbuf[hw[t]] IN
          /\ from' = [from EXCEPT ![t] = next[b]]
          /\ next' = [next EXCEPT ![b] = @ + n[t]]
          /\ pc' = [pc EXCEPT
                      ![t] = IF next[b] + n[t] > SZ THEN "store" ELSE "write"]
    /\ UNCHANGED <<hw, n, held, spare, stealVars, locked, data, storeVars,
                   classVars, treeVars>>

NoTopbuf(t) ==
    /\ pc[t] = "read"
    /\ topbuf[hw[t]] = None
    /\ pc' = [pc EXCEPT ![t] = "top"]
    /\ UNCHANGED <<hw, n, held, spare, from, stealVars, storeVars, classVars,
                   bufVars, treeVars>>

\* Mutant of StoreSz: an overshoot is undone by putting the old index back.
StoreFrom(t) ==
    /\ pc[t] = "store"
    /\ next' = [next EXCEPT ![topbuf[hw[t]]] = from[t]]
    /\ IF from[t] >= SZ
       THEN /\ pc' = [pc EXCEPT ![t] = "top"]
            /\ from' = [from EXCEPT ![t] = 0]
       ELSE /\ pc' = [pc EXCEPT ![t] = "write"]
            /\ UNCHANGED from
    /\ UNCHANGED <<hw, n, held, spare, stealVars, locked, data, storeVars,
                   classVars, treeVars>>

\* The claim reaches past the end: next_ann_index is put back to ANNBUF_SZ.
StoreSz(t) ==
    /\ pc[t] = "store"
    /\ next' = [next EXCEPT ![topbuf[hw[t]]] = SZ]
    /\ IF from[t] >= SZ
       THEN /\ pc' = [pc EXCEPT ![t] = "top"]
            /\ from' = [from EXCEPT ![t] = 0]
       ELSE /\ pc' = [pc EXCEPT ![t] = "write"]
            /\ UNCHANGED from
    /\ UNCHANGED <<hw, n, held, spare, stealVars, locked, data, storeVars,
                   classVars, treeVars>>

\* Mutant of Fits: off by one at the end of the array.
FitsOneMore(start, len) == IF start >= SZ THEN 0
                           ELSE IF start + len >= SZ THEN SZ - start + 1
                           ELSE len

Fits(start, len) == IF start >= SZ THEN 0
                    ELSE IF start + len > SZ THEN SZ - start ELSE len

Fill(b, start, len, h) ==
    data' = [data EXCEPT ![b] = [i \in Slots |->
                IF start <= i /\ i < start + len THEN h ELSE @[i]]]

WriteAnns(t) ==
    /\ pc[t] = "write"
    /\ LET consumed == Fits(from[t], n[t])
           left == n[t] - consumed
       IN /\ Fill(topbuf[hw[t]], from[t], consumed, hw[t])
          /\ IF left = 0
             THEN Return(t, 0)
             ELSE /\ n' = [n EXCEPT ![t] = left]
                  /\ pc' = [pc EXCEPT ![t] = "top"]
                  /\ UNCHANGED <<held, spare>>
    /\ from' = [from EXCEPT ![t] = 0]
    /\ UNCHANGED <<hw, stealVars, next, locked, storeVars, classVars,
                   treeVars>>

\* Out of the read section with announcements left: a new topbuf is needed.
NeedTopbuf(t) ==
    /\ pc[t] = "top"
    /\ IF held[t] # None
       THEN /\ pc' = [pc EXCEPT ![t] = "recheck"]
            /\ UNCHANGED <<n, held, spare>>
       ELSE Return(t, n[t])
    /\ UNCHANGED <<hw, from, stealVars, storeVars, classVars, bufVars,
                   treeVars>>

\* The write section: another thread may have put a new topbuf in, so the push
\* is tried again before topbuf is replaced.
Recheck(t) ==
    /\ pc[t] = "recheck"
    /\ NoClassReader(hw[t])
    /\ LET b == topbuf[hw[t]]
           consumed == IF b = None THEN 0 ELSE Fits(next[b], n[t])
           left == n[t] - consumed
       IN /\ IF b = None
             THEN UNCHANGED <<next, data>>
             ELSE /\ next' = [next EXCEPT
                                ![b] = IF @ + n[t] > SZ THEN SZ ELSE @ + n[t]]
                  /\ Fill(b, next[b], consumed, hw[t])
          /\ IF left = 0
             THEN Return(t, 0) /\ UNCHANGED topbuf
             ELSE /\ topbuf' = [topbuf EXCEPT ![hw[t]] = held[t]]
                  /\ held' = [held EXCEPT ![t] = b]
                  /\ n' = [n EXCEPT ![t] = left]
                  /\ pc' = [pc EXCEPT ![t] = IF b = None THEN "read" ELSE "seal"]
                  /\ UNCHANGED spare
    /\ UNCHANGED <<hw, from, stealVars, bufs, mining, locked, storeVars,
                   treeVars>>

\* AnnBuf::lock on the old topbuf, which no one else can reach, and the write
\* section that adds it to bufs.
Seal(t) ==
    /\ pc[t] = "seal"
    /\ NoClassReader(hw[t])
    /\ locked' = [locked EXCEPT ![held[t]] = TRUE]
    /\ bufs' = [bufs EXCEPT ![hw[t]] = @ \cup {held[t]}]
    /\ held' = [held EXCEPT ![t] = None]
    /\ pc' = [pc EXCEPT ![t] = "read"]
    /\ UNCHANGED <<hw, n, spare, from, stealVars, topbuf, mining, next, data,
                   storeVars, treeVars>>

-----------------------------------------------------------------------------
(* AnnStore::block and AnnStore::compute_tree.                             *)

Block(height) ==
    /\ NoStoreReader
    /\ tip' = IF height > tip THEN height ELSE tip
    /\ UNCHANGED <<live, classVars, bufVars, pushVars, treeVars>>

ComputeTree(k, set) ==
    /\ cpc[k] = "idle"
    /\ cpc' = [cpc EXCEPT ![k] = "scan"]
    /\ best' = [best EXCEPT ![k] = set]
    /\ scan' = [scan EXCEPT ![k] = live]
    /\ solo' = IF \A j \in Trees : cpc[j] = "idle" THEN k ELSE None
    /\ UNCHANGED <<taken, index, storeVars, classVars, bufVars, pushVars>>

\* The BTreeMap's order.
FirstKey(S) ==
    {h \in S : \A g \in S :
        \/ h.block_height < g.block_height
        \/ h.block_height = g.block_height /\ h.work <= g.work}

\* begin_mining or stop_mining, neither under a lock of the class.
VisitClass(k) ==
    /\ cpc[k] = "scan"
    /\ \E h \in FirstKey(scan[k]) :
          /\ mining' = [mining EXCEPT ![h] = h \in best[k]]
          /\ IF h \in best[k]
             THEN cpc' = [cpc EXCEPT ![k] = "take"] /\ UNCHANGED scan
             ELSE /\ scan' = [scan EXCEPT ![k] = @ \ {h}]
                  /\ UNCHANGED cpc
    /\ UNCHANGED <<best, taken, index, solo, bufs, topbuf, storeVars, bufVars,
                   pushVars>>

TakeBufs(k) ==
    /\ cpc[k] = "take"
    /\ \E h \in FirstKey(scan[k]) :
          /\ NoClassReader(h)
          /\ taken' = [taken EXCEPT ![k][h] = bufs[h]]
          /\ bufs' = [bufs EXCEPT ![h] = {}]
          /\ scan' = [scan EXCEPT ![k] = @ \ {h}]
    /\ cpc' = [cpc EXCEPT ![k] = "scan"]
    /\ UNCHANGED <<best, index, solo, topbuf, mining, storeVars, bufVars,
                   pushVars>>

\* Counting, copying and sorting the taken buffers into index_table.
BuildIndex(k) ==
    /\ cpc[k] = "scan"
    /\ scan[k] = {}
    /\ index' = [index EXCEPT ![k] = UNION {taken[k][h] : h \in HW}]
    /\ scan' = [scan EXCEPT ![k] = live \cap best[k]]
    /\ cpc' = [cpc EXCEPT ![k] = "return"]
    /\ UNCHANGED <<best, taken, solo, storeVars, classVars, bufVars, pushVars>>

ReturnBufs(k) ==
    /\ cpc[k] = "return"
    /\ \E h \in FirstKey(scan[k]) :
          /\ NoClassReader(h)
          /\ bufs' = [bufs EXCEPT ![h] = @ \cup taken[k][h]]
          /\ taken' = [taken EXCEPT ![k][h] = {}]
          /\ scan' = [scan EXCEPT ![k] = @ \ {h}]
    /\ UNCHANGED <<cpc, best, index, solo, topbuf, mining, storeVars, bufVars,
                   pushVars>>

\* The store's read lock is dropped and ProofTree::compute locks the tree.
FinishTree(k) ==
    /\ cpc[k] = "return"
    /\ scan[k] = {}
    /\ cpc' = [cpc EXCEPT ![k] = "idle"]
    /\ UNCHANGED <<best, scan, taken, index, solo, storeVars, classVars, bufVars,
                   pushVars>>

-----------------------------------------------------------------------------
PushStep(t) ==
    \/ BeginPush(t) \/ TakeSpare(t) \/ StealStart(t) \/ Steal(t)
    \/ StealNothing(t) \/ StealFailed(t) \/ FindClass(t) \/ CreateClass(t)
    \/ Claim(t) \/ NoTopbuf(t) \/ StoreSz(t) \/ WriteAnns(t)
    \/ NeedTopbuf(t) \/ Recheck(t) \/ Seal(t)

ComputeStep(k) ==
    \/ VisitClass(k) \/ TakeBufs(k) \/ BuildIndex(k) \/ ReturnBufs(k)
    \/ FinishTree(k)

Next ==
    \/ \E t \in Threads : PushStep(t)
    \/ \E k \in Trees : ComputeStep(k)
    \/ \E k \in Trees : \E set \in (SUBSET PushHW) \ {{}} : ComputeTree(k, set)
    \/ \E height \in Blocks : Block(height)

Spec == Init /\ [][Next]_vars

-----------------------------------------------------------------------------
(* What must hold.                                                         *)

\* No buffer is in two places.  By pairs of places: classes among themselves,
ClassesApart ==
    /\ \A g, h \in HW : g # h => \A b \in bufs[g] : b \notin bufs[h]
    /\ \A g, h \in HW : topbuf[g] \notin bufs[h]
    /\ \A g, h \in HW : g # h /\ topbuf[g] # None => topbuf[g] # topbuf[h]

\* threads among themselves,
ThreadsApart ==
    /\ \A t, u \in Threads : held[t] # None => held[t] # spare[u]
    /\ \A t, u \in Threads : t # u /\ held[t] # None => held[t] # held[u]
    /\ \A t, u \in Threads : t # u /\ spare[t] # None => spare[t] # spare[u]

\* classes and threads,
ThreadsApartFromClasses ==
    \A t \in Threads, h \in HW :
        /\ spare[t] # None => spare[t] \notin bufs[h] /\ spare[t] # topbuf[h]
        /\ held[t] # None => held[t] \notin bufs[h] /\ held[t] # topbuf[h]

\* and a running compute_tree and all of these.
TakenApart ==
    \A k \in Trees, h \in HW : \A b \in taken[k][h] :
        /\ \A g \in HW : b \notin bufs[g] /\ b # topbuf[g]
        /\ \A t \in Threads : b # spare[t] /\ b # held[t]
        /\ \A j \in Trees, g \in HW : b \in taken[j][g] => j = k /\ g = h

NoBufShared ==
    ClassesApart /\ ThreadsApart /\ ThreadsApartFromClasses /\ TakenApart

NoBufLost ==
    \A b \in Bufs :
        \/ \E h \in HW : b \in bufs[h] \/ b = topbuf[h]
        \/ \E t \in Threads : b = spare[t] \/ b = held[t]
        \/ \E k \in Trees, h \in HW : b \in taken[k][h]

\* Every AnnBuf is in exactly one place: a class's bufs, its topbuf, a pushing
\* thread's spare or local, or the set compute_tree has taken.  The boxes are
\* moved by hand between threads (AnnStore::push_anns, AnnClass::push_anns,
\* steal_buf, take_bufs, return_bufs); one that is dropped is memory the miner
\* never fills again, one that is in two places is written by two classes.
BufOwnership == NoBufShared /\ NoBufLost

\* Threads that have claimed space in the same topbuf (AnnBuf::push_anns:
\* fetch_add, then the store that undoes an overshoot) never write the same
\* slot, whatever the order of their atomics.
ClaimsDisjoint ==
    \A t, u \in Threads :
        (t # u /\ Claiming(t) /\ Claiming(u) /\ hw[t] = hw[u]) =>
            \A i \in Slots : ~ (/\ from[t] <= i /\ i < from[t] + n[t]
                                /\ from[u] <= i /\ i < from[u] + n[u])

\* Sealed: locked, full, and every slot an announcement of class h.
Sealed(b, h) ==
    /\ locked[b]
    /\ next[b] = SZ
    /\ \A i \in Slots : data[b][i] = h

\* What compute_tree is given to mine has no hole and no announcement of
\* another class, even though the buffer was stolen from another class, filled
\* by several threads at once and sealed by one of them outside the lock.
SealedBufsPure ==
    \A h \in PushHW :
        /\ \A b \in bufs[h] : Sealed(b, h)
        /\ \A k \in Trees : \A b \in taken[k][h] : Sealed(b, h)

\* The assertions of ann_buf.rs cannot fail: push_anns and lock only meet
\* unlocked buffers, and lock finds next_ann_index back within the array.
AssertsHold ==
    /\ \A h \in live : topbuf[h] # None => ~locked[topbuf[h]]
    /\ \A t \in Threads :
          pc[t] = "seal" => ~locked[held[t]] /\ next[held[t]] <= SZ

\* A class is never dropped by CreateClass's retain while a thread is pushing
\* into it or compute_tree still has its buffers.
ClassInUseIsLive ==
    /\ \A t \in Threads : InClass(t) => hw[t] \in live
    /\ \A k \in Trees, h \in HW : taken[k][h] # {} => h \in live

TreeDone(k) == cpc[k] \in {"return", "idle"}

\* The buffers behind the index table of the tree that was computed last, and
\* not while another was, are neither stolen nor written until the next
\* compute_tree begins: that is what AnnClass.mining is for.
LastTreeIntact ==
    \A k \in Trees : solo = k /\ TreeDone(k) =>
        \A b \in index[k] : \E h \in best[k] :
            b \in bufs[h] \cup taken[k][h] /\ Sealed(b, h)

-----------------------------------------------------------------------------
(* The inductive invariant behind the properties (see AnnStoreProofs).     *)

\* What a pushing thread has in hand at each point of its call.
ThreadInv ==
    \A t \in Threads :
        /\ pc[t] \in {"find", "create", "recheck", "seal"} => held[t] # None
        /\ pc[t] \in {"idle", "loop", "steal"} => held[t] = None
        /\ pc[t] \notin {"idle", "loop"} => spare[t] = None
        /\ pc[t] # "idle" => hw[t] \in PushHW /\ n[t] > 0
        /\ InClass(t) => hw[t] \in live
        /\ Claiming(t) => topbuf[hw[t]] # None

\* Only live classes have buffers, and only of classes it still has to return
\* does a running compute_tree have any.
TreeInv ==
    /\ \A h \in HW : h \notin live => bufs[h] = {} /\ topbuf[h] = None
    /\ \A k \in Trees :
          /\ best[k] \subseteq PushHW
          /\ cpc[k] # "idle" => scan[k] \subseteq live
          /\ cpc[k] = "take" => FirstKey(scan[k]) \subseteq best[k]
          /\ \A h \in HW : taken[k][h] # {} =>
                /\ cpc[k] # "idle"
                /\ h \in live
                /\ h \in best[k]
                /\ cpc[k] = "return" <=> h \in scan[k]

\* A buffer that a thread is about to make a topbuf is empty and unlocked; an
\* old topbuf on its way to bufs is full.
HeldInv ==
    \A t \in Threads :
        /\ spare[t] # None => ~locked[spare[t]] /\ next[spare[t]] = 0
        /\ held[t] # None =>
              /\ ~locked[held[t]]
              /\ pc[t] # "seal" => next[held[t]] = 0
              /\ pc[t] = "seal" =>
                    /\ next[held[t]] = SZ
                    /\ \A i \in Slots : data[held[t]][i] = hw[t]

\* Claims in a topbuf lie below next_ann_index, or next_ann_index has run past
\* the end and nothing more can be claimed.
ClaimInv ==
    \A t \in Threads : Claiming(t) =>
        /\ pc[t] = "write" => from[t] < SZ
        /\ pc[t] = "store" => SZ <= next[topbuf[hw[t]]]
        /\ \/ from[t] + n[t] <= next[topbuf[hw[t]]]
           \/ SZ <= next[topbuf[hw[t]]]

\* Below next_ann_index every slot of a topbuf is written or claimed, and it is
\* past the end only while someone is about to put it back.
TopInv ==
    \A h \in HW : topbuf[h] # None =>
        /\ ~locked[topbuf[h]]
        /\ h \in PushHW =>
              /\ \A i \in Slots : i < next[topbuf[h]] =>
                    \/ data[topbuf[h]][i] = h
                    \/ \E t \in Threads : /\ Claiming(t) /\ hw[t] = h
                                          /\ from[t] <= i
                                          /\ i < from[t] + n[t]
              /\ next[topbuf[h]] > SZ =>
                    \E t \in Threads : pc[t] = "store" /\ hw[t] = h

IInv ==
    /\ TypeOK /\ ThreadInv /\ TreeInv
    /\ ClassesApart /\ ThreadsApart /\ ThreadsApartFromClasses /\ TakenApart
    /\ NoBufLost
    /\ HeldInv /\ ClaimInv /\ TopInv /\ ClaimsDisjoint /\ SealedBufsPure

\* No other compute_tree is running, and the classes behind the index table are
\* marked as mined.
MinedInv ==
    \A k \in Trees : solo = k =>
        /\ \A j \in Trees : j # k => cpc[j] = "idle"
        /\ \A h \in HW : taken[k][h] # {} => mining[h]
        /\ TreeDone(k) => \A b \in index[k] : \E h \in best[k] :
              h \in live /\ mining[h] /\ b \in bufs[h] \cup taken[k][h]
        /\ cpc[k] = "take" => \A h \in FirstKey(scan[k]) : mining[h]

=============================================================================
