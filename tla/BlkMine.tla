------------------------------ MODULE BlkMine ------------------------------
(***************************************************************************)
(* The block miner around its announcement store (blkmine.rs, prooftree.rs, *)
(* blkminer.rs).                                                           *)
(*                                                                         *)
(* There are two ProofTrees.  The workers mine one of them (the one named  *)
(* by current_mining) while the other, the off tree, is computed for the   *)
(* next block.  Two tasks call on_work2: update_work_loop, when the pool   *)
(* has new work, and stats_loop, when nothing is being mined or the same   *)
(* work has been mined for too long.  They are spawned on a multi-threaded *)
(* runtime and nothing keeps them apart.                                   *)
(*                                                                         *)
(* The worker threads of BlockMine.c are seen from outside: reqState, and  *)
(* whether a worker is mining, stopped, or inside the on_share callback.   *)
(*                                                                         *)
(* A panic ends the task that panics and poisons the lock it holds, as in  *)
(* a debug build; a release build (panic = "abort") ends the process, so   *)
(* its behaviours are those of the model up to the first panic.            *)
(***************************************************************************)
EXTENDS AnnStore

CONSTANTS
    Updater,    \* the task that runs update_work_loop
    Stats,      \* the task that runs stats_loop
    Workers,    \* the threads of the BlockMine
    Heights,    \* heights of the work the pool hands out
    MaxMining,  \* max_mining
    MaxTarget   \* the easiest announcement target; work is in the same unit

Tasks == {Updater, Stats}

ASSUME MineAssumption ==
    /\ Trees = {0, 1}
    /\ Heights \subseteq Nat \ {0}
    /\ {h - 1 : h \in Heights} \subseteq Blocks
    /\ MaxMining \in Nat /\ MaxTarget \in Nat
    /\ Updater # Stats /\ None \notin Tasks

NoMining == [tree |-> 0, commit |-> {}, height |-> NoBlock]

VARIABLES
    work,       \* the height of current_work, or NoBlock
    cur,        \* current_mining; its default is what get_tree makes of None
    owner,      \* by tree, the task that holds its Mutex
    poisoned,   \* trees whose Mutex was held by a task that panicked
    commit,     \* by tree, the announcements that the root hash in
                \* ProofTree.locked was computed from; none if that is None
    \* on_work2 and build_off_tree, by task
    wpc,
    height,     \* next_work.height
    off,        \* in build_off_tree
    tree,       \* tree_num
    set,        \* reload.best_set, until compute_tree has it
    new,        \* current_mining, the local, until it is moved there
    \* the BlockMine
    req,        \* reqState of every worker
    job,        \* Global_t.hai: the header's commit, and whose index_table
    vpc,        \* by worker
    vtree       \* the tree make_share asks for a proof

taskVars == <<wpc, height, off, tree, set, new>>
treeLockVars == <<owner, poisoned, commit>>
minerVars == <<req, job, vpc, vtree>>
mineVars == <<work, cur, owner, poisoned, commit, wpc, height, off, tree,
              set, new, req, job, vpc, vtree>>
blkVars == <<vars, mineVars>>

TaskPC == {"idle", "stop", "block", "tree", "lock", "check", "compute",
           "computing", "await", "mine", "wait", "set", "drop", "replace",
           "dry", "drylock", "reload", "dead"}
WorkerPC == {"stopped", "mining", "share", "header", "proof", "dead"}
Mining == [tree : Trees, commit : SUBSET Bufs, height : Heights \cup {NoBlock}]

\* The variables have their types: get_tree gives one of the two trees, and what
\* is mined is one of them.
MineTypeOK ==
    /\ work \in Heights \cup {NoBlock}
    /\ cur \in Mining
    /\ owner \in [Trees -> Tasks \cup {None}]
    /\ poisoned \subseteq Trees
    /\ commit \in [Trees -> SUBSET Bufs]
    /\ wpc \in [Tasks -> TaskPC]
    /\ height \in [Tasks -> Heights \cup {NoBlock}]
    /\ off \in [Tasks -> BOOLEAN]
    /\ tree \in [Tasks -> Trees]
    /\ set \in [Tasks -> SUBSET HW]
    /\ new \in [Tasks -> Mining]
    /\ req \in {"STOPPED", "RUNNING"}
    /\ job \in Mining
    /\ vpc \in [Workers -> WorkerPC]
    /\ vtree \in [Workers -> Trees]

MineInit ==
    /\ work = NoBlock
    /\ cur = NoMining
    /\ owner = [k \in Trees |-> None]
    /\ poisoned = {}
    /\ commit = [k \in Trees |-> {}]
    /\ wpc = [w \in Tasks |-> "idle"]
    /\ height = [w \in Tasks |-> NoBlock]
    /\ off = [w \in Tasks |-> FALSE]
    /\ tree = [w \in Tasks |-> 0]
    /\ set = [w \in Tasks |-> {}]
    /\ new = [w \in Tasks |-> NoMining]
    /\ req = "STOPPED"
    /\ job = NoMining
    /\ vpc = [v \in Workers |-> "stopped"]
    /\ vtree = [v \in Workers |-> 0]

BlkInit == Init /\ MineInit

-----------------------------------------------------------------------------
(* Choosing what to mine: AnnStore::classes and reload_classes.            *)

Unusable == MaxTarget + 1   \* 0xffffffff

\* pc_degrade_announcement_target: a target doubles with each block after the
\* third and is of no use before it, after 256 more, or past the easiest one.
Degrade(target, age) ==
    IF age < 3 \/ age > 259 THEN Unusable
    ELSE IF target * 2 ^ (age - 3) > MaxTarget THEN Unusable
    ELSE target * 2 ^ (age - 3)

Age(h, next_height) ==
    IF next_height > h.block_height THEN next_height - h.block_height ELSE 0

EffectiveWork(h, next_height) == Degrade(h.work, Age(h, next_height))

\* ready_anns_bufs.
AnnCount(S) == Cardinality({a \in S \X Bufs \X Slots :
                                a[2] \in bufs[a[1]] /\ a[3] < next[a[2]]})

\* Mutant of CanMine: a class without sealed announcements is ready.
CanMineEmpty(h, next_height) == EffectiveWork(h, next_height) # Unusable

\* ClassInfo::can_mine.
CanMine(h, next_height) ==
    EffectiveWork(h, next_height) # Unusable /\ AnnCount({h}) > 0

Ready(next_height) == {h \in live : CanMine(h, next_height)}

\* The sort by ann_effective_work.  It may leave equal ones in any order; up to
\* 20 classes it keeps that of the map.
Before(g, h, next_height) ==
    LET gw == EffectiveWork(g, next_height)
        hw_ == EffectiveWork(h, next_height)
    IN gw < hw_ \/ (gw = hw_ /\ g \in FirstKey({g, h}))

UpTo(h, next_height) ==
    {g \in Ready(next_height) : g = h \/ Before(g, h, next_height)}

\* pc_get_effective_target grows with the announcements' work and with the
\* square of their number; only its order matters here.
EffectiveTarget(target, count) == (MaxTarget \div (target + 1)) * count * count

\* The last of the best among the sets that are smaller than max_mining; no
\* ready class, or a first class that is too large, gives none.
ReloadClasses(next_height) ==
    LET small == {h \in Ready(next_height) :
                     AnnCount(UpTo(h, next_height)) < MaxMining}
        value(h) == EffectiveTarget(EffectiveWork(h, next_height),
                                    AnnCount(UpTo(h, next_height)))
        best_ == {h \in small : \A g \in small :
                     \/ value(g) < value(h)
                     \/ value(g) = value(h) /\ ~Before(h, g, next_height)
                     \/ g = h}
    IN UNION {UpTo(h, next_height) : h \in best_}

\* class_set_min_effective_work # u32::MAX.
StillUsable(S, next_height) ==
    \A h \in S : EffectiveWork(h, next_height) # Unusable

\* Mutant of OffTree: the other tree is not reduced to 0 or 1.
OffTreeUnbounded == cur.tree + 1

\* get_tree(false)
OffTree == 1 - cur.tree

-----------------------------------------------------------------------------
(* update_work_cycle and stats_loop.                                       *)

GoTo(w, label) == wpc' = [wpc EXCEPT ![w] = label]

\* The pool sends an update for every change of its configuration: a new height,
\* the same one, or, after a rollback, an older one.  A failed download changes
\* nothing.
UpdateWork(h) ==
    /\ wpc[Updater] = "idle"
    /\ work' = h
    /\ height' = [height EXCEPT ![Updater] = h]
    /\ GoTo(Updater, "stop")
    /\ UNCHANGED <<vars, cur, treeLockVars, minerVars, off, tree, set, new>>

StatsRestart ==
    /\ wpc[Stats] = "idle"
    /\ work # NoBlock
    /\ height' = [height EXCEPT ![Stats] = work]
    /\ GoTo(Stats, "stop")
    /\ UNCHANGED <<vars, work, cur, treeLockVars, minerVars, off, tree, set,
                   new>>

-----------------------------------------------------------------------------
(* on_work2.                                                               *)

RequestStop(w) ==
    /\ wpc[w] = "stop"
    /\ req' = "STOPPED"
    /\ GoTo(w, "block")
    /\ UNCHANGED <<vars, work, cur, treeLockVars, height, off, tree, set, new,
                   job, vpc, vtree>>

TellStore(w) ==
    /\ wpc[w] = "block"
    /\ Block(height[w] - 1)
    /\ GoTo(w, "tree")
    /\ UNCHANGED <<work, cur, treeLockVars, minerVars, height, off, tree, set,
                   new>>

\* get_tree(false), here and in build_off_tree: the number is read under
\* current_mining's lock, which is gone before the tree's own is taken.
GetOffTree(w) ==
    /\ wpc[w] = "tree"
    /\ tree' = [tree EXCEPT ![w] = OffTree]
    /\ GoTo(w, "lock")
    /\ UNCHANGED <<vars, work, cur, treeLockVars, minerVars, height, off, set,
                   new>>

\* ProofTree::reset
Reset(w) == commit' = [commit EXCEPT ![tree[w]] = {}]

\* tree.lock().unwrap(), which panics on a poisoned Mutex, and the reset that
\* build_off_tree does at once.
LockTree(w) ==
    /\ wpc[w] = "lock"
    /\ IF tree[w] \in poisoned
       THEN GoTo(w, "dead") /\ UNCHANGED <<owner, commit>>
       ELSE /\ owner[tree[w]] = None
            /\ owner' = [owner EXCEPT ![tree[w]] = w]
            /\ IF off[w]
               THEN Reset(w) /\ GoTo(w, "compute")
               ELSE GoTo(w, "check") /\ UNCHANGED commit
    /\ UNCHANGED <<vars, work, cur, poisoned, minerVars, height, off, tree, set,
                   new>>

Usable(w) == commit[tree[w]] # {} /\ StillUsable(best[tree[w]], height[w])

ReuseTree(w) ==
    /\ wpc[w] = "check"
    /\ Usable(w)
    /\ GoTo(w, "await")
    /\ UNCHANGED <<vars, work, cur, treeLockVars, minerVars, height, off, tree,
                   set, new>>

RebuildTree(w) ==
    /\ wpc[w] = "check"
    /\ ~Usable(w)
    /\ ReloadClasses(height[w]) # {}
    /\ set' = [set EXCEPT ![w] = ReloadClasses(height[w])]
    /\ Reset(w)
    /\ GoTo(w, "compute")
    /\ UNCHANGED <<vars, work, cur, owner, poisoned, minerVars, height, off, tree,
                   new>>

\* "Not mining, no anns ready": on_work2 returns with the workers stopped.
NothingToMine(w) ==
    /\ wpc[w] = "check"
    /\ ~Usable(w)
    /\ ReloadClasses(height[w]) = {}
    /\ owner' = [owner EXCEPT ![tree[w]] = None]
    /\ GoTo(w, "idle")
    /\ UNCHANGED <<vars, work, cur, poisoned, commit, minerVars, height,
                   off, tree, set, new>>

StartCompute(w) ==
    /\ wpc[w] = "compute"
    /\ ComputeTree(tree[w], set[w])
    /\ set' = [set EXCEPT ![w] = {}]
    /\ GoTo(w, "computing")
    /\ UNCHANGED <<work, cur, treeLockVars, minerVars, height, off, tree, new>>

\* Mutant of KeepsTree: the guard is gone once the header is made.
KeepsNoTree(w) == FALSE

\* on_work2 holds the tree until mine() has returned; build_off_tree and a panic
\* let it go.
KeepsTree(w) == ~off[w] /\ index[tree[w]] # {}

\* ProofTree::compute.  It fails if there are no announcements, the caller
\* unwraps the error, and the panic poisons the tree's Mutex.
FinishCompute(w) ==
    /\ wpc[w] = "computing"
    /\ FinishTree(tree[w])
    /\ IF index[tree[w]] = {}
       THEN /\ poisoned' = poisoned \cup {tree[w]}
            /\ GoTo(w, "dead")
            /\ UNCHANGED <<commit, off>>
       ELSE /\ commit' = [commit EXCEPT ![tree[w]] = index[tree[w]]]
            /\ GoTo(w, IF off[w] THEN "idle" ELSE "await")
            /\ off' = [off EXCEPT ![w] = FALSE]
            /\ UNCHANGED poisoned
    /\ owner' = [owner EXCEPT ![tree[w]] = IF KeepsTree(w) THEN @ ELSE None]
    /\ UNCHANGED <<work, cur, minerVars, height, tree, set, new>>

AllStopped == \A v \in Workers : vpc[v] = "stopped"

\* await_stop; the self-test that follows only reads.
AwaitStop(w) ==
    /\ wpc[w] = "await"
    /\ AllStopped
    /\ GoTo(w, "mine")
    /\ UNCHANGED <<vars, work, cur, treeLockVars, minerVars, height, off, tree,
                   set, new>>

\* BlockMine_mine: stop the workers, wait for them, set Global_t, go.
MineStop(w) ==
    /\ wpc[w] = "mine"
    /\ req' = "STOPPED"
    /\ GoTo(w, "wait")
    /\ UNCHANGED <<vars, work, cur, treeLockVars, height, off, tree, set, new,
                   job, vpc, vtree>>

MineWait(w) ==
    /\ wpc[w] = "wait"
    /\ AllStopped
    /\ GoTo(w, "set")
    /\ UNCHANGED <<vars, work, cur, treeLockVars, minerVars, height, off, tree,
                   set, new>>

NewMining(w) ==
    [tree |-> tree[w], commit |-> commit[tree[w]], height |-> height[w]]

MineSet(w) ==
    /\ wpc[w] = "set"
    /\ job' = NewMining(w)
    /\ new' = [new EXCEPT ![w] = NewMining(w)]
    /\ req' = "RUNNING"
    /\ GoTo(w, "drop")
    /\ UNCHANGED <<vars, work, cur, treeLockVars, height, off, tree, set, vpc,
                   vtree>>

DropTree(w) ==
    /\ wpc[w] = "drop"
    /\ owner' = [owner EXCEPT ![tree[w]] = None]
    /\ GoTo(w, "replace")
    /\ UNCHANGED <<vars, work, cur, poisoned, commit, minerVars, height,
                   off, tree, set, new>>

ReplaceMining(w) ==
    /\ wpc[w] = "replace"
    /\ cur' = new[w]
    /\ new' = [new EXCEPT ![w] = NoMining]
    /\ GoTo(w, "dry")
    /\ UNCHANGED <<vars, work, treeLockVars, minerVars, height, off, tree, set>>

\* The dry run of make_share on the self-test's result.  The header it reads
\* first is there by now; get_tree(true) looks at current_mining once more,
DryRun(w) ==
    /\ wpc[w] = "dry"
    /\ tree' = [tree EXCEPT ![w] = cur.tree]
    /\ GoTo(w, "drylock")
    /\ UNCHANGED <<vars, work, cur, treeLockVars, minerVars, height, off, set,
                   new>>

\* and that tree is locked for the proof.
DryProof(w) ==
    /\ wpc[w] = "drylock"
    /\ IF tree[w] \in poisoned
       THEN GoTo(w, "dead") /\ UNCHANGED off
       ELSE /\ owner[tree[w]] = None
            /\ GoTo(w, "reload")
            /\ off' = [off EXCEPT ![w] = TRUE]
    /\ UNCHANGED <<vars, work, cur, treeLockVars, minerVars, height, tree, set,
                   new>>

\* build_off_tree.
OffReload(w) ==
    /\ wpc[w] = "reload"
    /\ set' = [set EXCEPT ![w] = ReloadClasses(height[w] + 1)]
    /\ IF set'[w] = {}
       THEN GoTo(w, "idle") /\ off' = [off EXCEPT ![w] = FALSE]
       ELSE GoTo(w, "tree") /\ UNCHANGED off
    /\ UNCHANGED <<vars, work, cur, treeLockVars, minerVars, height, tree,
                   new>>

TaskStep(w) ==
    \/ RequestStop(w) \/ TellStore(w) \/ GetOffTree(w) \/ LockTree(w)
    \/ ReuseTree(w) \/ RebuildTree(w) \/ NothingToMine(w)
    \/ StartCompute(w) \/ FinishCompute(w) \/ AwaitStop(w)
    \/ MineStop(w) \/ MineWait(w) \/ MineSet(w) \/ DropTree(w)
    \/ ReplaceMining(w) \/ DryRun(w) \/ DryProof(w) \/ OffReload(w)

-----------------------------------------------------------------------------
(* The workers, and the on_share callback that runs on their threads.      *)

WorkerGoes(v, label) == vpc' = [vpc EXCEPT ![v] = label]

WorkerStart(v) ==
    /\ vpc[v] = "stopped"
    /\ req = "RUNNING"
    /\ WorkerGoes(v, "mining")
    /\ UNCHANGED <<vars, work, cur, treeLockVars, taskVars, req, job, vtree>>

WorkerStop(v) ==
    /\ vpc[v] = "mining"
    /\ req # "RUNNING"
    /\ WorkerGoes(v, "stopped")
    /\ UNCHANGED <<vars, work, cur, treeLockVars, taskVars, req, job, vtree>>

FindShare(v) ==
    /\ vpc[v] = "mining"
    /\ WorkerGoes(v, "share")
    /\ UNCHANGED <<vars, work, cur, treeLockVars, taskVars, req, job, vtree>>

\* make_share: without current_mining there is nothing to say,
MakeShare(v) ==
    /\ vpc[v] = "share"
    /\ WorkerGoes(v, IF cur = NoMining THEN "mining" ELSE "header")
    /\ UNCHANGED <<vars, work, cur, treeLockVars, taskVars, req, job, vtree>>

\* else get_tree(true) looks at it again for the tree that has the proof, which
\* by now need not be the one of the header.
ShareTree(v) ==
    /\ vpc[v] = "header"
    /\ vtree' = [vtree EXCEPT ![v] = cur.tree]
    /\ WorkerGoes(v, "proof")
    /\ UNCHANGED <<vars, work, cur, treeLockVars, taskVars, req, job>>

\* The tree's lock, mk_proof, the announcements, the check and the channel.
\* Unwrapping a poisoned lock panics in a callback from C.
MakeProof(v) ==
    /\ vpc[v] = "proof"
    /\ IF vtree[v] \in poisoned
       THEN WorkerGoes(v, "dead")
       ELSE owner[vtree[v]] = None /\ WorkerGoes(v, "mining")
    /\ vtree' = [vtree EXCEPT ![v] = 0]
    /\ UNCHANGED <<vars, work, cur, treeLockVars, taskVars, req, job>>

WorkerStep(v) ==
    \/ WorkerStart(v) \/ WorkerStop(v) \/ FindShare(v) \/ MakeShare(v)
    \/ ShareTree(v) \/ MakeProof(v)

-----------------------------------------------------------------------------
\* compute_tree up to the point where FinishCompute takes over.
FillTree(k) == VisitClass(k) \/ TakeBufs(k) \/ BuildIndex(k) \/ ReturnBufs(k)

StoreStep ==
    /\ (\E t \in Threads : PushStep(t)) \/ (\E k \in Trees : FillTree(k))
    /\ UNCHANGED mineVars

BlkNext ==
    \/ StoreStep
    \/ \E h \in Heights : UpdateWork(h)
    \/ StatsRestart
    \/ \E w \in Tasks : TaskStep(w)
    \/ \E v \in Workers : WorkerStep(v)

BlkSpec == BlkInit /\ [][BlkNext]_blkVars

-----------------------------------------------------------------------------
(* What must hold.                                                         *)

\* Seen from its store, the block miner does nothing the store does not allow:
\* the composed system implements AnnStore's specification, and everything
\* that holds of the store by itself holds of it here.
ImplementsStore == Spec

\* What the index table of a tree refers to is still there: every buffer is a
\* sealed buffer of one of the tree's classes.
Intact(k) ==
    \A b \in index[k] : \E h \in best[k] :
        b \in bufs[h] \cup taken[1 - k][h] \cup taken[k][h] /\ Sealed(b, h)

Busy(v) == vpc[v] \in {"mining", "share", "header", "proof"}

BeingMined(k) == job.tree = k /\ \E v \in Workers : Busy(v)

\* BlockMine.c, on Global_t.hai: "Altered only when workers are stopped".  Part
\* of it is a pointer to a tree's index_table, which must then stay as it is.
IndexFixedWhileMined ==
    [][\A k \in Trees : BeingMined(k) => index'[k] = index[k]]_blkVars

\* The header and the index table that mine() is given belong together: from the
\* moment the tree was found usable or computed until mine() has them, no other
\* on_work2 or build_off_tree computes that tree again.
HeaderFitsIndex ==
    \A w \in Tasks : wpc[w] \in {"await", "mine", "wait", "set"} =>
        commit[tree[w]] # {} /\ commit[tree[w]] = index[tree[w]]

\* An on_work2 that waits for a worker whose on_share callback waits for the
\* tree this on_work2 has locked.
Stuck(w) ==
    /\ wpc[w] \in {"await", "wait"}
    /\ \E v \in Workers : vpc[v] = "proof" /\ owner[vtree[v]] = w

\* An on_work2 that waits for workers which the other one has set to work.
Overtaken(w) == wpc[w] \in {"await", "wait"} /\ req = "RUNNING"

\* waitState asserts that the workers stop: "threads did not stop in 10 secs".
\* So no on_work2 waits for a worker that waits for it, or has been told to run.
NoHopelessWait ==
    \A w \in Tasks : ~Stuck(w) /\ (Overtaken(w) => AllStopped)

\* The tree that is about to be mined still describes the announcements in
\* memory: the off tree was computed some time before it is used.
MiningStartsIntact ==
    \A w \in Tasks : wpc[w] = "set" => Intact(tree[w])

\* BlockMine.c, on BlockMine_updateAnn: "you must not specify an ann index
\* which is currently being mined".
MinedAnnsIntact == \A k \in Trees : BeingMined(k) => Intact(k)

\* compute_tree's result is unwrapped: it never fails for want of
\* announcements.
NoPanic == \A w \in Tasks : wpc[w] # "dead"
=============================================================================
