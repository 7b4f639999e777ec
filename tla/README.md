# A TLA+ model of packetcrypt_rs

This directory models the concurrent core of packetcrypt_rs, checks it with TLC on
small instances and proves its safety with TLAPS for instances of any size. The
modules are translated from the code under `src/`; `PROJECT.json` maps every
definition to the lines it stands for.

## The system

PacketCrypt is a proof of work in two stages. Announcement miners produce 1024-byte
*announcements* on top of a recent block and post them to *announcement handlers*
of a pool. A handler checks them, removes duplicates, logs who is to be paid and
*sprays* them over UDP to *block miners*. A block miner keeps millions of them in
memory, commits to a set of them with a Merkle tree (*proof tree*) and searches for
a block whose hash touches four of them; the more announcements, and the newer, the
easier the block.

| Component | State | Operations | Interacts with | What is hard | What makes it correct |
|---|---|---|---|---|---|
| Announcement store (`ann_store.rs`, `ann_class.rs`, `ann_buf.rs`) | classes by height and work, each with sealed buffers, a buffer being filled and `mining`; a fixed pool of buffers | `push_anns`, `block`, `classes`, `compute_tree` | called by the receivers (push) and by `on_work2` | atomics and two levels of RwLocks; buffers stolen from other classes | every buffer in one place; sealed buffers full and of one class; mined buffers not stolen |
| Block miner control (`blkmine.rs`, `prooftree.rs`, `blkminer.rs`) | two proof trees, `current_mining`, `current_work` | `on_work2`, `build_off_tree`, `make_share`, `stats_loop` | store, mining threads (calls and callbacks), pool client | two tasks call `on_work2`; callbacks take the locks `on_work2` holds | header and index table belong together; what is mined does not change; it never stands still |
| Block mining threads (`BlockMine.c`) | `reqState`, `workerState`, the job | `mine`, `requestStop`, `awaitStop`, `destroy` | `blkminer.rs`, callback on a share | flags written without a lock, condition variable, no join | a job is seen whole; waits end; nothing is used after free |
| Announcement handler (`annhandler.rs`) | ring of configurations with dedup tables, queue of posts | `handle_submit`, `process_submit*`, `process_batch`, `process_update` | pool client (updates), sprayer, pay log client | configuration copied, used after an unlock; ring slots reused; clients that leave | accepted once, only if valid, and paid |
| Pay log client (`paymakerclient.rs`) | the open log file, its name, the next number, the directory | `handle_paylog`, `switch_paylogs`, `submit_paylogs`, `pc_update_loop` | handler, paymaker (HTTP), disk | a pass of many awaits next to switches; lost replies; restarts | no entry lost; files published when complete; the directory drains |
| Pool client (`poolclient.rs`) | known chain, subscribers | `discover_blocks`, `cfg_loop` | pool master (HTTP), all others by broadcast | rollbacks, lagging receivers | its users come to work on the tip, whatever forks and lags there are |
| Announcement miner (`annmine.rs`, `annminer.rs`, `AnnMiner.c`) | jobs, per-pool upload queues, mining threads | `update_work_cycle`, `submit_anns`, `upload_batch`, `AnnMiner_start/stop/free` | pools (HTTP) | a ring of blocks, handlers that come and go, queues at their limit, a job changed under the threads | no nonce is searched twice; an announcement goes to one handler once, with the height it was mined on |
| Sprayer (`packetcrypt-sprayer`) | chunk pool, send queues, subscriptions | `push_anns`, `get_to_send`, `return_to_send`, `incoming_subscription` | handler, other sprayers (UDP) | chunks sent in part, returned and recycled; threads that subscribe the same peer; overflow | nothing is sent twice to an address; queues bounded; they drain |
| Proofs and validation (`ProofTree.c`, `PacketCryptProof.c`, `Validate.c`, `AnnMerkle.c`, `difficulty.rs`) | none | pure functions | block miner, handler | off-by-one in tree shapes, compact numbers | proof and check agree |
| Crypto core, codecs, CLI, bindings | - | hashing, random programs, compression, UDP GSO, arguments | - | data only | not modelled |

## Modules

| Module | Models | Depends on |
|---|---|---|
| `AnnStore` | the announcement store | - |
| `BlkMine` | the block miner around its store | extends `AnnStore` |
| `BlockMine` | the mining threads of `BlockMine.c` | - |
| `PaymakerClient` | the pay log client | - |
| `AnnHandler` | the announcement handler, fed by the pool client | - |
| `Sprayer` | the sprayer | - |
| `PoolClient` | the pool client, its channel and the master it asks | - |
| `AnnSource` | what a miner of announcements promises (abstract) | - |
| `AnnMiner` | the mining threads of `AnnMiner.c` | implements `AnnSource` (INSTANCE) |
| `AnnMine` | the announcement miner around pool and threads | extends `PoolClient` and `AnnSource` |
| `AnnStoreProofs`, `BlockMineProofs`, `PaymakerClientProofs`, `AnnHandlerProofs`, `SprayerProofs`, `AnnMinerProofs`, `AnnMineProofs` | theorems about the module they name | that module, TLAPS |
| `BlkMineProofs` | theorems about `BlkMine` | `BlkMine`, `AnnStoreProofs` |
| `MCAnnStore`, `MCBlkMine`, `MCAnnHandler`, `MCSprayer`, `MCAnnMiner`, `MCAnnMine` | instances for TLC | the module they name |

Definitions marked *Mutant* or *Faulty* are wrong versions of the definition that
follows them. They are used in no specification; putting one in the place of the
right one breaks the property `PROJECT.json` pairs it with.

### AnnStore

A step is a section of code under a write lock, or one operation on an atomic.
`pc[t]` is where a pushing thread is; a read lock is held at certain labels
(`InClass` for the store, `Claiming` for the class), and the steps of a write lock
are guarded by the absence of readers. `AnnBuf::push_anns` is three steps:
`Claim` (`fetch_add`), `StoreSz` (the store after an overshoot) and `WriteAnns`.
`AnnClass::push_anns` adds `NeedTopbuf`, `Recheck` and `Seal`, `AnnStore::push_anns`
the spare buffer and the search of `steal_non_mining_buf` class by class.
`compute_tree` is `VisitClass`, `TakeBufs`, `BuildIndex`, `ReturnBufs`, `FinishTree`.
A slot of a buffer holds the class its announcement belongs to. The order of
announcements and of the buffers in a Vec is left out, so `steal_buf` gives any
sealed buffer.

### BlkMine

Extends `AnnStore` and drives it: `Trees = {0, 1}`. `update_work_loop` and `stats_loop` are
two tasks, `Updater` and `Stats`; both call `on_work2`, and nothing keeps them apart.
`wpc[w]` is where a task is in `on_work2` and, with `off[w]`, in `build_off_tree`. The
Mutex of a tree is `owner`; `commit` is what the root hash in `ProofTree.locked` was
computed from. `get_tree` is a step of its own before the tree is locked
(`GetOffTree`, `LockTree`), and `make_share` reads the header and then the tree under
separate locks of `current_mining` (`MakeShare`, `ShareTree`, `MakeProof`; for the dry run
at the end of `on_work2` `DryRun`, `DryProof`). The mining threads are seen from outside. A
panic ends the task and poisons the lock it holds (a debug build; a release build
aborts, and its behaviours are the prefixes up to the panic). `ReloadClasses` is
`reload_classes` with the code's ranking; targets are small integers whose order is
that of the compact targets.

### BlockMine

The worker loop with its lock and condition variable (spurious wakeups included),
`mineOpt` hash by hash, and the calls of one main thread, `reqState` written worker
by worker. `hai` and `count` are the two halves of the job, by number.

### PaymakerClient

What a tokio task does between two awaits, or under the mutex, is a step.
`write_all` hands its bytes to a blocking thread, so an entry is first in `flight`
and lands later (`Land`), or fails after `handle_paylog` has returned Ok (`LandFails`), with
a part of the line in the file or none; the next `write_all` on the same File returns
that error in place of writing (`HandlePaylogErr`). A submit pass is one step per
call; the paymaker answers rightly, wrongly or not at all, having taken the event or
not; local I/O may fail; the process may be killed and started again.

### AnnHandler

Posts are queued, taken by workers, validated against a copy of the slot's
configuration (no lock), and entered under the second lock; worker 0 applies the
pool's updates in between. `validate_anns` is modelled with its `zip`: only as many
announcements are examined as the batch has distinct hashes. `dup` is a u32 and
wraps. The event of an accepted batch goes to the pay log when `handle_submit`
resumes, unless hyper has dropped it or `handle_paylog` returns an error, which
is logged and changes nothing in the reply (`unlogged`). A post may name any height, those
of slots without a block (0) and of slots whose update did not list this handler (-1)
included; a batch that gets past the comparison of heights in a slot no update has set
divides by a `handler_count` of 0 (`annhandler.rs:99` or 112), which ends the
worker's thread (`NoHandlers`).

### Sprayer

A step is a section under one lock: `push_anns` read-locks the list of subscribers for
its second half (`Reading`) and a queue for each batch (`Locked`), `get_to_send` and
`return_to_send` are one step each. A chunk is the window between its two cursors,
`b` packets from the front; `push_ann` fills it in front of the window first, as the
code does, and `Advance` is what is left after a send the socket cut short. Emptied
chunks go to the pool with their cursors where they are. Timeouts of subscribers
(`TimeOut`) may happen at any time; a subscriber that is removed takes its queue along.
`Start` takes a thread's chunk from the pool that the threads before it already use.

### AnnSource and AnnMiner

`AnnSource` is the contract between the two halves of the announcement miner: what is
found is of a height that was asked for, and is found once. It says *neither* that it is
for the request made last *nor* that the rest of its header is of the same request: the
code ensures neither. `AnnMiner` is `checkStop` access by access
with the lock and condition variable (spurious wakeups included), `getNextJob`,
`searchOpt` cycle by cycle, and the calls of one caller, which reads the workers' states
one by one and never takes the lock. `ctx->hah` is written, compared and copied without a
lock: it has two pieces, the header up to the signing key, and the signing key with the
parent hash, and each is a step (`WriteHdr`, `WriteKey`; `CompareHdr`, `CompareKey`; `CopyHdr`,
`CopyKey`), so that a worker may have the height of one request with the key of another.
`Source` is the refinement mapping: `started` is the set of the first pieces
`AnnMiner_start` was called with, and `found` the bag of the nonces searched (any of which may be
an announcement). A nonce is told apart by header, key, hard and soft nonce and by how
often `ctx->hah` had been written when its job was copied (`gen`, the `tag` of a job): if the
caller goes back to an earlier request, the code searches it from the start again.

### PoolClient and AnnMine

`PoolClient` follows a tree of blocks: `FetchConf` is a poll with a new configuration,
`DiscoverBlocks` the back-fill down to a block that is known or `Depth` below, the
replacement of blocks of another chain, and the broadcast, which is lost without a
receiver and drops the oldest of a full channel. The block at the depth limit is
entered in the chain but not returned, as in the code. `AnnMine` composes it with
`AnnSource`: an update is `UpdateIsOld`, `NoWorkYet`, `NoTarget` or `StartMining`, by the returns of
`update_work_cycle`, and brings its own `mine_old_anns` (`--mineold` fixes the number: `Olds`
has then one member); dropped handlers are told afterwards, one by one (`ShutDown`). An announcement is
put in hand under the lock of the pool (`ChooseHandler`) and into the tip of its handler
under the tip's lock (`Submit`, which is both calls of `submit_anns`). A handler that is
dropped and listed again is a new one. That the miner finds announcements for an
earlier job is a behaviour of `AnnSource` and so occurs.

## Runs

| Run | Bounds | Distinct states | Shows |
|---|---|---|---|
| `store` | 2 threads, 2 buffers of 1 slot, 2 classes, chunks of 1 or 2, 1 tree | 1.91 M | `BufOwnership`, `ClaimsDisjoint`, `SealedBufsPure`, `AssertsHold`, `ClassInUseIsLive`, `LastTreeIntact` |
| `blkmine` | 2 tasks, 1 pushing thread, 1 worker, 2 buffers, 1 class besides the store's, heights 5 and 6 | 2.88 M (symmetry) | `HeaderFitsIndex`, `LastTreeIntact`, and that the composition implements `AnnStore` |
| `blockmine` | 2 workers, 2 jobs, cycles of 4 nonces, 2 at a time | 55 k | `JobNotTorn`, `NoUseAfterFree`, `WaitStateEnds` |
| `paymaker` | 2 entries, 1 kill | 320 k | `LostOnlyIfLate`, `NoFileTruncated`, `PaylogsDrain` |
| `annhandler` | 2 workers, 2 posts, 5 announcements, ring of 2, 2 updates | 1.83 M (symmetry) | `AcceptedOnce`, `LateBatchRefused`, `EventCounts`, `AcceptedArePaid` |
| `sprayer` | 2 threads, 1 caller, 2 peers, 2 announcements, chunks of 2, 1 chunk per queue | 247 k (symmetry) | `AtMostOnce`, `SubscribedOnce`, and that no cursor leaves its chunk |
| `sprayer_live` | 1 thread, 1 caller, 1 peer, 1 `spray_at` address, 3 announcements, chunks of 1 | 183 k | `QueueBound`, `QueuesDrain` |
| `annminer` | 2 workers, 2 calls of start with 2 requests, hard nonces 0 to 2, 1 cycle per job | 12.3 M (symmetry) | `ImplementsSource` |
| `annmine_work` | 9 blocks with a fork, depth 2, ring of 4, channel of 1, `mine_old_anns` 0 or 1, 3 changes | 165 k | `InSync`, `JobAtHeight`, `Settles` |
| `annmine_upload` | 3 announcements, 2 handlers or none, batches of 2, queue of 2 | 310 k | `OnePlace`, `BatchHeights`, `UploadersEnd` |

Some properties except behaviours in which the code does fail, so that they say that
there are no others. `LastTreeIntact` speaks of the tree computed last, if no other was
computed at the same time (`solo`): what `compute_tree` does to the classes of the other
tree is the finding below. `LostOnlyIfLate` excepts the entries that reach a file after a
pass has read it (`late`), die in flight (`killed`) or whose write fails after the Ok
(`failed`); `AcceptedArePaid` the clients that leave and the errors of the pay log.
`InSync` and `Settles` except the behaviours in which an update was missed or had no
`ann_target` (`missed`) or the tip moved to a lower block (`down`): in these the code does
stay behind until the next change. They say that the miner is on the pool's chain,
`mine_old_anns` below its tip if the pool has given one number, and between the least and
the most it has given otherwise: after a change of that number alone
`currently_mining` stays where it is. `JobAtHeight` excepts missed updates only.

Two runs end in a violation:

* `blkmine_index`, `IndexFixedWhileMined`: the two tasks compute an index table under the
  workers. One reads that tree 0 is off (`blkmine.rs:348`); the other gives tree 0 to the
  workers, lets it go and replaces `current_mining`; the first then locks it and computes
  it again. `BlockMine.c:41` says that what is mined is "Altered only when workers are
  stopped".
* `blkmine_mined_anns`, `MinedAnnsIntact`: the code lets buffers that are being mined be
  stolen, as computing the off tree clears `mining` of the mined classes.

More statements of the modules do not hold, each of them one a comment, an
assertion or a name in the code makes. They are kept out of the runs; TLC refutes
each when it takes the place of what the configuration named here checks:

| Property | Configuration | The code |
|---|---|---|
| `BlkMine!NoHopelessWait` | `BlkMineWait.cfg` | waits with the tree locked for a worker whose `on_share` callback waits for that tree (`mine()` starts the workers, `blkmine.rs:437`, before `current_mining` is replaced, 460), or for workers that the other task has started after this one's `request_stop`; either ends in "threads did not stop in 10 secs" (`BlockMine.c:285`) |
| `BlkMine!MiningStartsIntact` | `BlkMineMinedAnns.cfg` | mines an off tree whose announcements are gone: it was computed earlier, and nothing is ever added to `dependent_trees` (`ann_class.rs:36`) |
| `BlkMine!NoPanic` | `BlkMineMinedAnns.cfg` | unwraps "no anns, cannot compute tree" (`prooftree.rs:66`) when the buffers are stolen between `reload_classes` and `compute_tree` |
| `BlockMine!ShareToldAsFound` | `BlockMineNonce.cfg` | reports the nonce its loop started from (`BlockMine.c:172`) and not the one the share was found with |
| `PaymakerClient!NamedFileNotPublished` | `PaymakerClientOpen.cfg` | publishes the file that is open when a switch falls into a pass that has copied the name (`paymakerclient.rs:169`: "Don't try to publish the file we currently have open") |
| `PaymakerClient!OpenFileNotPublished` | `PaymakerClientOpen.cfg` | sets `current_file_name` before a `File::create` that may fail (`paymakerclient.rs:62-66`) |
| `AnnHandler!AcceptedAreValid` | `AnnHandlerValid.cfg` | walks the announcements of a batch and its distinct hashes together (`annhandler.rs:127`), so that a batch with repeats has its last ones accepted unchecked |
| `AnnHandler!ParentIsExpected` | `AnnHandler.cfg` | accepts announcements on a parent block that was replaced meanwhile: only the height is compared again (`annhandler.rs:197`) |
| `Sprayer!NeverMoreThanMax` | `SprayerLive.cfg` | `return_to_send` does not look at the limit: "Never store more tha 128MB to be sent to any given address" (`lib.rs:20`) |
| `Sprayer!CanReceive` | `Sprayer.cfg` | gives a thread a used chunk (`lib.rs:378`), which has no room and is never full: "keep polling until we have neatly a full buffer" (891) |
| `AnnMiner!RebuiltAtOnce` | `AnnMiner.cfg` | waits for workers that do not *say* they run; one that never set its state, or builds a job, goes on with the old one: "Trigger the workers to rebuild the work immediately" (`AnnMiner.c:315`) |
| `AnnMiner!HeaderWhole` | `AnnMiner.cfg` | copies the header (`AnnMiner.c:205`) while `AnnMiner_start` writes it (313): a worker searches with the height of one request and the signing key of another |
| `AnnMiner!JobWhole` | `AnnMiner.cfg` | copies header and hash while `AnnMiner_start` writes them: "if we don't read the most recent data, it doesn't matter" (`AnnMiner.c:243`) |
| `AnnMiner!NotLeftAsleep` | `AnnMiner.cfg` | broadcasts without the lock (`AnnMiner.c:324`): a wakeup is lost |
| `AnnMiner!FreeEnds` | `AnnMiner.cfg` with `FairSpec`, `MaxCalls = 1`, `MaxHard = 1` (a PROPERTY) | the same in `AnnMiner_free` (361), which then joins a thread that sleeps |
| `AnnMine!FollowsMineOld` | `AnnMineWork.cfg` | takes the larger of `currently_mining` and `top - mine_old`, where `top` is 0 without new blocks (`annmine.rs:145`): a change of the pool's `mine_old_anns` takes effect at a later block, or not before the chain has caught up; "-1 to let the pool decide" (`main.rs:383`) |
| `AnnMine!ChangedAreTold` | `AnnMineWork.cfg` (a PROPERTY) | enters the block at the depth limit but does not return it: "returns a vector of blocks which have been changed" (`poolclient.rs:101`) |
| `AnnMine!ChainIsChain` | `AnnMineWork.cfg` | stops the back-fill at the depth limit or at the first block it knows, and leaves blocks of another chain in place below: "updates the local state appropriately" (`poolclient.rs:103`) |
| `AnnMine!HandlersInOrder` | `AnnMineWork.cfg` with `Confs <- MCOrderConfs` | orders the handlers only when one is added or removed: "put them in the right order" (`annmine.rs:200`) |
| `AnnMine!NothingLeftBehind` | `AnnMineUpload.cfg` | leaves announcements in the tip and queue of a handler whose uploaders have ended |

Why the bounds are enough for the cases in question: two threads suffice for every
race on an atomic or a handed-over buffer (for safety the proofs below remove all
bounds); one slot and chunks of two give claims that fit, that overshoot and that
straddle the end; two classes besides the store's own give a thief and a victim. With
two tasks in `blkmine` every pair of points of `on_work2` meets, and with heights 5 and 6
the off tree is used, outdated and rebuilt and a class is usable, and no longer so for
the tree after it; the runs with a violation have three and four buffers, as a set that
is mined changes there. A ring of two with heights 1 and 3 reuses a slot, which -1 has
too. One
kill is enough for a file number to be chosen from a directory with gaps. `U32` is
2^32 in the code and 65536 in the instances, since TLC's integers have 32 bits; no
count comes near either.
In the sprayer two threads and a caller are every pair of roles that meet at a queue,
two peers give a list from which one is removed while another is added, and chunks
of two are sent in part, returned and filled in front of their window. Two calls of
`AnnMiner_start` are a start and a restart, with the same data or with new; in the second a
worker can still copy what the first has left. Ring 4
with heights 1 to 7 reuses three slots, depth 2 with a fork above height 2 makes
rollbacks both inside and at the limit of the back-fill, and a channel of one lags
at the second update. Three
announcements of two heights fill a queue of two and make it overflow, with batches of
different heights in it.
`BlockMine` is run without a deadlock check, as nothing is left to run after
`BlockMine_destroy`, and so is `AnnMiner` for `AnnMiner_free`, and `AnnMine`, where
the master's changes and the announcements are bounded, and `AnnHandler`, where
`NoHandlers` can end every worker; all other runs check for deadlock. Symmetry is used for buffers,
threads and posts, in runs without liveness properties only.

## Fairness

Safety runs assume none. The liveness runs assume:

* `BlockMine!FairSpec`: threads run and obtain the lock; no call is assumed.
* `PaymakerClient!FairSpec`: tasks run, blocking writes end, done or failed, the passes'
  own disk accesses stop failing some time, and a file posted again and again is acknowledged some time.
  `SwitchPaylogs` is fair because `switch_loop` repeats every 30 s.
* `Sprayer!FairSpec`: the threads run and end what they push, and a socket that is tried
  with a chunk again and again takes a whole one some time (strong fairness of that
  `Send`: between two tries the chunk is back in its queue). No arrival is assumed.
* `AnnMine!FairSpec`: the tasks run; a request that is repeated succeeds some time (`cfg_loop`
  and `discover_block` retry for ever); a post ends, by its timeout if by nothing else.
  That the configuration changes or announcements are found is not assumed.
* `AnnMiner` is checked for safety only; its `FairSpec` is there for `FreeEnds`.

## Proofs

Every safety property of the passing runs is a theorem, for all values of the constants
that satisfy the assumptions of the module. Each proof module states an inductive
invariant as a conjunction of named parts, proves that the initial states satisfy it
and, with a lemma per action, that each step preserves it; what the action does not
touch is left to frame lemmas.

| Module | Theorem | |
|---|---|---|
| `AnnStoreProofs` | `TypeCorrect`, `Ownership`, `DisjointClaims`, `PureBufs`, `NoAssertFails`, `ClassesStay` | `Spec => []P` for `TypeOK`, `BufOwnership`, `ClaimsDisjoint`, `SealedBufsPure`, `AssertsHold`, `ClassInUseIsLive` |
| | `LastTree` | `Spec => []LastTreeIntact`, with any number of trees |
| `BlkMineProofs` | `MineTypeCorrect` | `BlkSpec => []MineTypeOK` |
| | `StoreImplemented` | `BlkSpec => ImplementsStore`: the block miner implements `AnnStore!Spec` |
| | `OwnershipWhileMining`, `PureWhileMining` | `BlkSpec => []BufOwnership`, `[]SealedBufsPure`, by the refinement |
| | `HeaderFits` | `BlkSpec => []HeaderFitsIndex` |
| | `LastTreeWhileMining` | `BlkSpec => []LastTreeIntact`, by the refinement |
| `BlockMineProofs` | `TypeCorrect`, `JobIsWhole`, `FreedAfterExit` | `TypeOK`, `JobNotTorn`, `NoUseAfterFree` |
| `PaymakerClientProofs` | `TypeCorrect`, `LostOnlyLate`, `NothingTruncated` | `TypeOK`, `LostOnlyIfLate`, and the action property `NoFileTruncated` |
| `AnnHandlerProofs` | `TypeCorrect`, `AcceptedInOnePost`, `LateIsRefused`, `EventsCount`, `AcceptedPaid` | `TypeOK`, `AcceptedOnce`, `LateBatchRefused`, `EventCounts`, `AcceptedArePaid` |
| `SprayerProofs` | `TypeCorrect`, `ListedOnce` | `TypeOK`, `SubscribedOnce` |
| | `QueuesBounded`, `SprayedOnce` | `QueueBound`, `AtMostOnce`, if no `spray_at` address subscribes |
| `AnnMinerProofs` | `TypeCorrect`, `SourceImplemented` | `TypeOK`; the threads implement `AnnSource` |
| `AnnMineProofs` | `TypeCorrect`, `BatchesInOrder`, `InOnePlace`, `JobHeight`, `FollowsThePool` | `TypeOK`, `BatchHeights`, `OnePlace`, `JobAtHeight`, `InSync` |

### What the invariants say

**AnnStore.** That a sealed buffer is full needs that every
slot below `next_ann_index` of a topbuf is written *or claimed by a thread still in
the read section* (`TopInv`), that the index is past the end only while some thread
is about to put it back, and that claims lie below it or nothing can be claimed any
more (`ClaimInv`). That stolen buffers do not carry old announcements needs that a
buffer in a thread's hand is empty and unlocked (`HeldInv`), which in turn needs what
a thread has in hand at each label (`ThreadInv`) and that buffers are not shared
(`ClassesApart`, `ThreadsApart`, `ThreadsApartFromClasses`, `TakenApart`). That
`compute_tree` puts its buffers back into the class they came from needs that the
class is still live (`TreeInv`). `LastTree` adds `MinedInv`: of the tree computed last, with no
other meanwhile (`solo`), the classes behind the index table are marked as mined. Of
the tree before it that is false, which is the finding of `blkmine_mined_anns`.

**BlkMine.** The store leaves it to its caller which classes a tree is made of: not
none, and not the store's own class. `TaskInv` says what `on_work2` knows at each
point, and `StoreEmpty` that the buffers of the store's own class hold nothing, so that
`reload_classes`, which goes by the number of announcements, never chooses that class.
`HeaderFits` needs `LockInv`, that a task which is between locking a tree and dropping it
owns it, and `CommitInv`, that a root hash is that of the index table as it is and that
there is none while the table is computed, which only a task that owns the tree does.
Nothing is assumed of the order in which the two tasks run.

**BlockMine.** No lock protects the job. `RequestInv` gives the reason that it is
whole: while the job is written all workers are both asked to be and reported as
stopped, and a stopped worker cannot leave that state. That `destroy` frees nothing in
use needs that a worker reports `SHUTDOWN` only after its last access (`WorkerInv`).

**PaymakerClient.** `NumberInv`: the open file has the highest number, which is bounded
as each number was left behind by a switch away from a file some entry had reached, or
by a restart (entries that only a part of reached the file count too: `Here`, `Landed`).
`FlightInv`: an entry is written once; `PassInv`: what a pass has read it
has in its body, but for what came late, and a file still written to is in the
directory or was read.

**AnnHandler.** `OwnInv`: a post is in the queue once or with one worker; `TableInv`: what
was accepted in this life of a dedup table is in the table; `PayInv` and `EventInv`
follow a post with accepted announcements from the spray to the pay log or its error,
and its counts.

**Sprayer.** `QueueBound` is inductive once only the threads with a chunk of an address in
hand can put one back (`ThreadInv`). `AtMostOnce` needs that an announcement has one
place for an address (`SingleInv`), that it belongs to one pushing thread (`OwnInv`), and
that what the thread has still to put into a queue has no place for that address yet
(`DueInv`), although subscribers and queues come and go meanwhile.

**AnnMiner.** A nonce is not searched twice because a worker's hard nonces are its
own residue modulo the number of workers and grow, and what it searched lies behind
its hard nonce, or at it and behind its soft nonce (`SearchedInv`). That it does not begin
again needs `CopyInv`: since `ctx->hah` was last written a worker replaces its job only if it
is not what `ctx->hah` has now, and then by what it has now; while the second piece is
still to be written, no such job has the new key. So a job that is torn is replaced
once more, and by one with other nonces.

**AnnMine.** `MadeInv` bounds the handlers ever made by the updates under way. `PlaceInv`
says that an announcement found is in one place and any other in none; each action
moves it or leaves it. `HeightsKept`: unless an update was missed, the last `Depth` slots of
the ring hold blocks of the heights they should, and each update in the channel
reaches down to a height already seen or has all `Depth` blocks; `mining` is less than `Depth`
below the highest block seen (`peak`). `SyncInv`, while the tip has
never moved down: an update continues the chain of the one before it (`Linked`),
the client's chain is that of the tip it knows, and the miner is in step with the last
update it took, its job within what `mine_old_anns` has been (`olds`, `Within`). Both relate the updates in the channel to each other, as the property
speaks only of the end.

### What the theorems assume

The assumptions are checked by TLC in every instance. Besides the types of the
constants:

* `AnnHandler!BatchesFit`: a post has fewer than 2^32 announcements (4 TiB).
* `Sprayer!SprayerAssumption`: no address is twice in `spray_at`. The theorems about queues add
  `Apart`: no `spray_at` address subscribes too. The code does not check that; such an
  address has two queues, is sent everything twice, and has the chunks of both
  returned to the first (`lib.rs:417`), which can outgrow the bound.
* `PoolClient!TipsAreDeep`: at least `Depth` blocks lie below a tip, true of a chain
  older than its first `Depth` blocks.
* `AnnMine!AnnMineAssumption`: the back-fill is shorter than the ring (`Depth < Ring`, 6 and 8 in
  the code), the block mined on lies within it (`Olds \subseteq 0 .. Depth - 1`), and no URL is
  listed twice. `--mineold` and the pool's `mine_old_anns` can be set to more: with 6 or 7
  a miner that has just started waits until the ring has filled, and with 8
  (`RECENT_WORK_BUF`) or more it takes the slot of a later block.

### Only model-checked

The liveness properties `WaitStateEnds`, `PaylogsDrain`, `QueuesDrain`, `Settles` and
`UploadersEnd`: fairness and ENABLED are out of the prover's reach. Recursive functions occur in two
places, `Ancestor` and `Live`; their proofs need only what the defining equation says at one
index, or an induction over an explicit set of numbers in place of a predicate.

## Plan

Done: the store, the block miner, its threads, the pay log, the handler, the sprayer, the
announcement miner with its threads and the pool client, the last three composed over
an abstract specification; and the proofs of their safety. Next, in this order:

1. Pure algorithms against reference definitions over bounded inputs: difficulty
   (compact targets, degradation), `ProofTree.c` and `PacketCryptProof.c` (entry
   counts, which nodes a proof needs), the range sort of `ann_buf.rs` and
   `compute_tree`, `AnnMerkle.c`, the order of checks of `Validate.c`.
2. `AnnHandler` on top of `PoolClient`, in place of its own `Discover`.
3. For the statements that do not hold, the weakest conditions under which they do,
   as theorems (as `Apart` is for some).

## Not modelled

Hashing, the random program generator and its interpreter, the announcement codec
and UDP segmentation are data transformations without interleavings and with inputs
far beyond a model checker; the generated bindings, the command line, the benchmark
and the counters of the allocator have no state of interest. Time is left out
everywhere: a timeout is a step that may happen whenever the code waits. Within the
modelled parts, log messages, statistics and the contents of headers, proofs and
replies are left out, and so is the delivery of shares (`post_share`), which keeps no
state. In the sprayer `get_peer_stats` is left out (its `packets_sent_ever -
last_packets_sent`, `lib.rs:522`, goes below zero when a subscriber that was removed
comes back) and `send_subs`; in the announcement miner the secondary pools, whose updates
do all but start the miner, and `stats_loop`. The pool's HTTP server, its master and the
paymaker are external.
