----------------------------- MODULE AnnHandler -----------------------------
(***************************************************************************)
(* The announcement handler (packetcrypt-annhandler/src/annhandler.rs).    *)
(* Miners post batches of announcements over HTTP; handle_submit queues a  *)
(* post, a worker thread takes it, copies the configuration of its height  *)
(* out of the ring `outputs' under a lock, validates the announcements     *)
(* without the lock, takes the lock again to remove the duplicates and     *)
(* enter the rest into the dedup table, sprays them and replies; then      *)
(* handle_submit writes the pay log.  Worker 0 also applies the updates of *)
(* the pool client, between two posts.                                     *)
(*                                                                         *)
(* An announcement stands for its 64 bit dedup hash too.  What             *)
(* validate_anns asks of it is its height, the parent block it was mined   *)
(* on (check_ann) and `Sound', the rest: signing key, work, version and a  *)
(* correct proof.  What it asks of the hash is `Ours': neither 0 nor ff..f *)
(* and in this handler's share.  skip_check_chance is 0, which is what any *)
(* setting below 1.0 is converted to.                                      *)
(***************************************************************************)
EXTENDS Integers, Sequences, FiniteSets, Functions

CONSTANTS
  Workers,       \* the worker threads
  Worker0,       \* the one with thread_num = 0
  Posts,         \* the HTTP posts
  Anns,          \* the announcements
  Requests,      \* what a post may carry: a batch of announcements and the
                 \* height it names, x-pc-worknum - 1
  HeightOf,      \* parent_block_height of each announcement, an i32
  ParentOf,      \* the hash of the block each announcement was mined on
  Sound,         \* the announcements whose other fields and proof are good
  Ours,          \* the announcements whose hash is in this handler's share
  Heights,       \* the block heights
  Hashes,        \* the block hashes
  Tracking,      \* NUM_BLOCKS_TRACKING
  QueueLen,      \* input_queue_len
  U32,           \* the range of a u32 counter, 2^32
  USize,         \* the range of a usize, 2^64
  MaxUpdates     \* bound: how many blocks the pool client discovers

(* x-pc-worknum is any i32.  A slot without a block has the height 0, one   *)
(* whose update did not list this handler has -1; a post may name either.   *)
PostHeights == Heights \cup {0, -1}

ASSUME AnnHandlerAssumption ==
  /\ Worker0 \in Workers
  /\ USize \in Nat \ {0} /\ Heights \subseteq 1 .. USize - 1
  /\ Tracking \in Nat \ {0} /\ QueueLen \in Nat \ {0} /\ MaxUpdates \in Nat
  /\ U32 \in Nat \ {0}
  /\ HeightOf \in [Anns -> PostHeights] /\ ParentOf \in [Anns -> Hashes]
  /\ Requests \subseteq [batch : Seq(Anns), height : PostHeights]
  /\ Sound \subseteq Anns /\ Ours \subseteq Anns

(* A post is in memory: 2^32 announcements would be 4 TiB.                  *)
ASSUME BatchesFit == \A r \in Requests : Len(r.batch) < U32

Slots == 0 .. Tracking - 1

(* get_output: the height is cast to usize, so that -1 has the slot         *)
(* (2^64 - 1) % Tracking.                                                   *)
Slot(h) == (h % USize) % Tracking

NoHash == "none"
NoPost == "none"
NoRequest == [batch |-> <<>>, height |-> 0]

VARIABLES
  \* Global
  out,       \* outputs: the configuration and dedup_tbl of each slot
  queue,     \* submit_send / submit_recv
  \* the workers
  wpc,       \* where each worker is
  wpost,     \* the post it is working on
  wconf,     \* its copy of the configuration
  fresh,     \* dedup_set: the announcements it accepted
  \* the posts
  pst,       \* what has become of each post
  post,      \* what it carries
  conn,      \* the client is still connected
  event,     \* the AnnsEvent of the reply
  paylog,    \* the posts whose event handle_paylog has logged
  unlogged,  \* the posts for whose event it returned an error
  \* the pool client
  chain,     \* PoolClientM.chain: the block known at each height
  updq,      \* pc_update_send / pc_update_recv, one element per block
  updates,   \* how many blocks were discovered
  \* what the properties speak of
  epoch,     \* how often the dedup table of each slot was cleared
  acc,       \* the acceptances
  sprayed    \* <<post, announcement>>: what was given to the sprayer

workers == <<wpc, wpost, wconf, fresh>>
posts == <<pst, post, conn, event, paylog, unlogged>>
pool == <<chain, updq, updates>>
vars == <<out, queue, workers, posts, pool, epoch, acc, sprayed>>

Conf == [height : PostHeights, hash : Hashes \cup {NoHash}]
Output == [conf : Conf, tbl : SUBSET Anns]
Block == [height : Heights, hash : Hashes, listed : BOOLEAN]
Acceptance == [ann : Anns, post : Posts, epoch : Nat, conf : Conf, now : Conf]
NoEvent == [accepted |-> 0, dup |-> 0]

(* The variables have their types; at most QueueLen posts are queued, and   *)
(* the counters of an event are u32s.                                       *)
TypeOK ==
  /\ out \in [Slots -> Output]
  /\ queue \in Seq(Posts) /\ Len(queue) <= QueueLen
  /\ wpc \in [Workers -> {"updates", "recv", "batch", "spray", "reply", "error", "dead"}]
  /\ wpost \in [Workers -> Posts \cup {NoPost}]
  /\ wconf \in [Workers -> Conf]
  /\ fresh \in [Workers -> SUBSET Anns]
  /\ pst \in [Posts -> {"none", "queued", "replied", "failed", "done"}]
  /\ post \in [Posts -> Requests \cup {NoRequest}]
  /\ conn \in [Posts -> BOOLEAN]
  /\ event \in [Posts -> [accepted : Nat, dup : 0 .. U32 - 1]]
  /\ paylog \subseteq Posts /\ unlogged \subseteq Posts
  /\ chain \in [Heights -> Hashes \cup {NoHash}]
  /\ updq \in Seq(Block)
  /\ updates \in 0 .. MaxUpdates
  /\ epoch \in [Slots -> Nat]
  /\ acc \subseteq Acceptance
  /\ sprayed \subseteq Posts \X Anns

Init ==
  /\ out = [s \in Slots |-> [conf |-> [height |-> 0, hash |-> NoHash], tbl |-> {}]]
  /\ queue = <<>>
  /\ wpc = [w \in Workers |-> IF w = Worker0 THEN "updates" ELSE "recv"]
  /\ wpost = [w \in Workers |-> NoPost]
  /\ wconf = [w \in Workers |-> [height |-> 0, hash |-> NoHash]]
  /\ fresh = [w \in Workers |-> {}]
  /\ pst = [p \in Posts |-> "none"]
  /\ post = [p \in Posts |-> NoRequest]
  /\ conn = [p \in Posts |-> TRUE]
  /\ event = [p \in Posts |-> NoEvent]
  /\ paylog = {} /\ unlogged = {}
  /\ chain = [h \in Heights |-> NoHash] /\ updq = <<>> /\ updates = 0
  /\ epoch = [s \in Slots |-> 0]
  /\ acc = {} /\ sprayed = {}

-----------------------------------------------------------------------------
(* The pool client and process_update *)

(* discover_block: a block that differs from the one known at its height is *)
(* sent on; `listed' says whether the pool's list has this handler's URL.   *)
Discover(h, hash, listed) ==
  /\ updates < MaxUpdates
  /\ chain[h] # hash
  /\ chain' = [chain EXCEPT ![h] = hash]
  /\ updq' = Append(updq, [height |-> h, hash |-> hash, listed |-> listed])
  /\ updates' = updates + 1
  /\ UNCHANGED <<out, queue, workers, posts, epoch, acc, sprayed>>

(* The table is cleared for a new height, and for a new parent at the same  *)
(* height.                                                                  *)
Clears(o, b) == o.conf.height # b.height \/ o.conf.hash # b.hash

(* The configuration process_update leaves: without the URL in the pool's   *)
(* list only the height is set, to -1.                                      *)
Updated(o, b) ==
  [conf |-> IF b.listed THEN [height |-> b.height, hash |-> b.hash]
                        ELSE [o.conf EXCEPT !.height = -1],
   tbl |-> IF Clears(o, b) THEN {} ELSE o.tbl]

(* Worker 0 applies one block of an update; older work than what the slot   *)
(* has is ignored.                                                          *)
ProcessUpdate ==
  /\ wpc[Worker0] = "updates" /\ updq # <<>>
  /\ updq' = Tail(updq)
  /\ LET b == Head(updq)
         s == Slot(b.height)
     IN  IF b.height < out[s].conf.height
           THEN UNCHANGED <<out, epoch>>
           ELSE /\ out' = [out EXCEPT ![s] = Updated(@, b)]
                /\ epoch' = [epoch EXCEPT ![s] = @ + (IF Clears(out[s], b) THEN 1 ELSE 0)]
  /\ UNCHANGED <<queue, workers, posts, chain, updates, acc, sprayed>>

NoMoreUpdates ==
  /\ wpc[Worker0] = "updates" /\ updq = <<>>
  /\ wpc' = [wpc EXCEPT ![Worker0] = "recv"]
  /\ UNCHANGED <<out, queue, wpost, wconf, fresh, posts, pool, epoch, acc, sprayed>>

(* Nothing was posted for RECV_WAIT_MS: worker 0 looks for updates again.   *)
RecvTimeout ==
  /\ wpc[Worker0] = "recv" /\ queue = <<>>
  /\ wpc' = [wpc EXCEPT ![Worker0] = "updates"]
  /\ UNCHANGED <<out, queue, wpost, wconf, fresh, posts, pool, epoch, acc, sprayed>>

-----------------------------------------------------------------------------
(* handle_submit *)

(* Faulty: one more post is queued than there is room for.                  *)
RoomForOneMore == Len(queue) <= QueueLen

Room == Len(queue) < QueueLen

(* try_send: the post is queued, or refused as "overloaded".                *)
Submit(p, r) ==
  /\ pst[p] = "none"
  /\ post' = [post EXCEPT ![p] = r]
  /\ IF Room THEN queue' = Append(queue, p) /\ pst' = [pst EXCEPT ![p] = "queued"]
             ELSE UNCHANGED queue /\ pst' = [pst EXCEPT ![p] = "done"]
  /\ UNCHANGED <<out, workers, conn, event, paylog, unlogged, pool, epoch, acc, sprayed>>

(* The client goes away: the future of handle_submit is dropped wherever it *)
(* waits, and with it the receiver of the reply.                            *)
Disconnect(p) ==
  /\ pst[p] \in {"queued", "replied", "failed"} /\ conn[p]
  /\ conn' = [conn EXCEPT ![p] = FALSE]
  /\ UNCHANGED <<out, queue, workers, pst, post, event, paylog, unlogged, pool, epoch, acc,
                 sprayed>>

(* The reply is there: an event goes to the pay log and the reply to the    *)
(* client, whether handle_paylog returned Ok or an error.                   *)
Answer(p) ==
  /\ pst[p] \in {"replied", "failed"} /\ conn[p]
  /\ IF pst[p] = "replied"
       THEN \/ paylog' = paylog \cup {p} /\ UNCHANGED unlogged
            \/ unlogged' = unlogged \cup {p} /\ UNCHANGED paylog
       ELSE UNCHANGED <<paylog, unlogged>>
  /\ pst' = [pst EXCEPT ![p] = "done"]
  /\ UNCHANGED <<out, queue, workers, post, conn, event, pool, epoch, acc, sprayed>>

-----------------------------------------------------------------------------
(* The workers: process_submit0, process_submit1, process_batch *)

Batch(w) == post[wpost[w]].batch
Dedups(w) == Range(Batch(w))      \* mk_dedups

(* validate_anns: every hash is looked at, but of the announcements only as *)
(* many as there are hashes (zip), the first ones of the batch.             *)
Validated(w, conf) ==
  /\ Dedups(w) \subseteq Ours
  /\ \A i \in 1 .. Cardinality(Dedups(w)) :
       LET a == Batch(w)[i]
       IN  a \in Sound /\ HeightOf[a] = conf.height /\ ParentOf[a] = conf.hash

(* A post is taken from the queue and the configuration is copied: another  *)
(* height is refused, and so is any post with a bad payto or a length that  *)
(* is not a multiple of 1024.                                               *)
Take(w) ==
  /\ wpc[w] = "recv" /\ queue # <<>>
  /\ LET p == Head(queue)
         c == out[Slot(post[p].height)].conf
     IN  /\ queue' = Tail(queue)
         /\ wpost' = [wpost EXCEPT ![w] = p]
         /\ wconf' = [wconf EXCEPT ![w] = c]
         /\ \E wellformed \in BOOLEAN :
              wpc' = [wpc EXCEPT ![w] =
                        IF c.height = post[p].height /\ wellformed
                          THEN "batch" ELSE "error"]
  /\ UNCHANGED <<out, fresh, posts, pool, epoch, acc, sprayed>>

Invalid(w) ==
  /\ wpc[w] = "batch" /\ ~Validated(w, wconf[w])
  /\ wpc' = [wpc EXCEPT ![w] = "error"]
  /\ UNCHANGED <<out, queue, wpost, wconf, fresh, posts, pool, epoch, acc, sprayed>>

(* hash_num_ok divides by handler_count, which is 0 in a slot no update has *)
(* set: the first announcement of the batch is either refused before that,  *)
(* or ends the worker's thread.  No lock is held; the sender of the reply   *)
(* is dropped, which ends handle_submit too.                                *)
NoHandlers(w) ==
  /\ wpc[w] = "batch" /\ wconf[w].hash = NoHash
  /\ Batch(w) # <<>> /\ HeightOf[Batch(w)[1]] = wconf[w].height
  /\ wpc' = [wpc EXCEPT ![w] = "dead"]
  /\ wpost' = [wpost EXCEPT ![w] = NoPost]
  /\ pst' = [pst EXCEPT ![wpost[w]] = "done"]
  /\ UNCHANGED <<out, queue, wconf, fresh, post, conn, event, paylog, unlogged,
                 pool, epoch, acc, sprayed>>

(* Faulty: the configuration is trusted to be what it was.                  *)
InTimeAlways(w) == TRUE

(* Under the lock again: is the slot still that of the height?              *)
InTime(w) == out[Slot(wconf[w].height)].conf.height = wconf[w].height

TooLate(w) ==
  /\ wpc[w] = "batch" /\ Validated(w, wconf[w]) /\ ~InTime(w)
  /\ wpc' = [wpc EXCEPT ![w] = "error"]
  /\ UNCHANGED <<out, queue, wpost, wconf, fresh, posts, pool, epoch, acc, sprayed>>

(* Faulty: the announcements that are in the table stay in the set.         *)
NotSeenAny(w) == Dedups(w)

(* dedup_set without the announcements the table has already.               *)
NotSeen(w) == Dedups(w) \ out[Slot(wconf[w].height)].tbl

(* Faulty: what the table has is not counted.                               *)
EventOfBatch(w) ==
  [accepted |-> Cardinality(NotSeen(w)),
   dup |-> (Cardinality(Dedups(w)) - Len(Batch(w))) % U32]

(* The counters: dup starts as dedups.len() - anns.len(), which wraps when  *)
(* the batch repeats an announcement, and counts what the table had.        *)
EventOf(w) ==
  [accepted |-> Cardinality(NotSeen(w)),
   dup |-> ((Cardinality(Dedups(w)) - Len(Batch(w)))
             + Cardinality(Dedups(w) \ NotSeen(w))) % U32]

(* The part of process_batch under the second lock.                         *)
ProcessBatch(w) ==
  LET s == Slot(wconf[w].height)
      p == wpost[w]
  IN  /\ wpc[w] = "batch" /\ Validated(w, wconf[w]) /\ InTime(w)
      /\ out' = [out EXCEPT ![s].tbl = @ \cup NotSeen(w)]
      /\ fresh' = [fresh EXCEPT ![w] = NotSeen(w)]
      /\ event' = [event EXCEPT ![p] = EventOf(w)]
      /\ acc' = acc \cup [ann : NotSeen(w), post : {p}, epoch : {epoch[s]},
                          conf : {wconf[w]}, now : {out[s].conf}]
      /\ wpc' = [wpc EXCEPT ![w] = "spray"]
      /\ UNCHANGED <<queue, wpost, wconf, pst, post, conn, paylog, unlogged, pool, epoch,
                     sprayed>>

(* sprayer.push_anns *)
Spray(w) ==
  /\ wpc[w] = "spray"
  /\ sprayed' = sprayed \cup ({wpost[w]} \X fresh[w])
  /\ wpc' = [wpc EXCEPT ![w] = "reply"]
  /\ UNCHANGED <<out, queue, wpost, wconf, fresh, posts, pool, epoch, acc>>

Replies(w, how) ==
  /\ pst' = [pst EXCEPT ![wpost[w]] = IF conn[wpost[w]] THEN how ELSE "done"]
  /\ wpc' = [wpc EXCEPT ![w] = IF w = Worker0 THEN "updates" ELSE "recv"]
  /\ wpost' = [wpost EXCEPT ![w] = NoPost]
  /\ fresh' = [fresh EXCEPT ![w] = {}]
  /\ UNCHANGED <<out, queue, wconf, post, conn, event, paylog, unlogged, pool, epoch, acc,
                 sprayed>>

(* Faulty: the reply of a good batch is sent as an error.                   *)
ReplyFails(w) == wpc[w] = "reply" /\ Replies(w, "failed")

(* process_submit0 sends the reply; nobody may be there to receive it.      *)
Reply(w) == wpc[w] = "reply" /\ Replies(w, "replied")
ReplyError(w) == wpc[w] = "error" /\ Replies(w, "failed")

-----------------------------------------------------------------------------
WorkerStep(w) ==
  \/ Take(w) \/ Invalid(w) \/ NoHandlers(w) \/ TooLate(w) \/ ProcessBatch(w) \/ Spray(w)
  \/ Reply(w) \/ ReplyError(w)

Worker0Step == ProcessUpdate \/ NoMoreUpdates \/ RecvTimeout

Next ==
  \/ \E h \in Heights, hash \in Hashes, l \in BOOLEAN : Discover(h, hash, l)
  \/ \E p \in Posts, r \in Requests : Submit(p, r)
  \/ \E p \in Posts : Disconnect(p) \/ Answer(p)
  \/ Worker0Step
  \/ \E w \in Workers : WorkerStep(w)

Spec == Init /\ [][Next]_vars

-----------------------------------------------------------------------------
(* Properties *)

Repeats(b) == Cardinality(Range(b)) # Len(b)

(* Two workers with the same announcement, or one with it twice: as long as *)
(* the slot's parent block stays the same, process_batch accepts it in one  *)
(* post only.                                                               *)
AcceptedOnce ==
  \A x, y \in acc : (x.ann = y.ann /\ x.epoch = y.epoch
                       /\ Slot(x.conf.height) = Slot(y.conf.height))
                     => x.post = y.post

(* A slot of the ring may be given to a later height between the copy of    *)
(* the configuration and the second lock: then nothing is accepted, so the  *)
(* table only has announcements of the slot's height.                       *)
LateBatchRefused ==
  /\ \A x \in acc : x.conf.height = x.now.height
  /\ \A s \in Slots : \A a \in out[s].tbl :
       out[s].conf.height # -1 =>
         \E x \in acc : x.ann = a /\ x.conf.height = out[s].conf.height

(* What is paid for is what was sprayed: the event of a post says how many  *)
(* announcements went to the sprayer, and for a batch that repeats none,    *)
(* accepted and dup add up to its length.                                   *)
EventCounts ==
  \A p \in paylog :
    /\ event[p].accepted = Cardinality({x \in sprayed : x[1] = p})
    /\ ~Repeats(post[p].batch) =>
         event[p].accepted + event[p].dup = Len(post[p].batch)

(* Once a post is answered its accepted announcements are in the pay log,   *)
(* unless the client went away before handle_submit could log them or       *)
(* handle_paylog returned an error: the acceptance, the reply and the log   *)
(* are steps of two threads.                                                *)
AcceptedArePaid ==
  \A x \in acc : pst[x.post] = "done" /\ conn[x.post] =>
                    x.post \in paylog \cup unlogged

(* Config's comments: "Accept only this version of announcements", "Refuse  *)
(* any ann signed with a different key", "Height which must be used": every *)
(* announcement that is accepted passed validate_anns.                      *)
AcceptedAreValid ==
  \A x \in acc : x.ann \in Sound /\ HeightOf[x.ann] = x.conf.height
                   /\ ParentOf[x.ann] = x.conf.hash

(* Config's comment: "Hash of the parent block to expect for anns at this   *)
(* height": what is accepted was checked against the parent block the slot  *)
(* has at that moment.                                                      *)
ParentIsExpected == \A x \in acc : x.conf.hash = x.now.hash

=============================================================================
