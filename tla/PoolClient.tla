----------------------------- MODULE PoolClient -----------------------------
(***************************************************************************)
(* The pool client: cfg_loop asks the pool's master for its configuration  *)
(* again and again, fetches the blocks it does not know and tells a        *)
(* receiver through a broadcast channel.  The configuration is what the    *)
(* users look at: the tip of the chain, the URLs of the handlers and       *)
(* mine_old_anns.                                                          *)
(*                                                                         *)
(* The chain is read and written by cfg_loop only, so that discover_blocks *)
(* is one step, with the write of mc and the send that end the cycle.  A   *)
(* request that fails is made again; until it succeeds nothing changes.    *)
(* The master is not part of the repository.                               *)
(***************************************************************************)
EXTENDS Integers, Sequences

CONSTANTS
    Blocks,      \* the blocks of all chains the master may follow
    Height,      \* their heights
    Prev,        \* and previousblockhash
    Confs,       \* the configurations the master may have: a tip, a list of URLs
                 \* and mine_old_anns
    Depth,       \* history_depth
    ChanCap,     \* the capacity of the channel, 32
    MaxChanges,  \* bound on the changes of the configuration
    None

Heights == {Height[b] : b \in Blocks}
Tips == {c.tip : c \in Confs}
UrlLists == {c.urls : c \in Confs}
Olds == {c.old : c \in Confs}
Conf == [tip : Tips, urls : UrlLists, old : Olds]

ASSUME PoolClientAssumption ==
    /\ Height \in [Blocks -> Nat] /\ Prev \in [Blocks -> Blocks \cup {None}]
    /\ \A b \in Blocks : Prev[b] /= None => Height[Prev[b]] = Height[b] - 1
    /\ Tips \subseteq Blocks
    /\ Confs \subseteq Conf /\ None \notin Blocks /\ None \notin Conf
    /\ Depth \in Nat \ {0} /\ ChanCap \in Nat \ {0} /\ MaxChanges \in Nat

VARIABLES
    tip, urls, old,  \* the master's configuration
    changes,     \* how often it has changed
    cpc,         \* where cfg_loop is
    conf,        \* the configuration it has fetched
    mc, chain,   \* PoolClientM
    subscribed,  \* the receiver has called update_chan
    chan,        \* what it has not received, oldest first
    lagged,      \* it lags and will be told so
    \* history
    olds,        \* what mine_old_anns has been
    down,        \* the tip has moved to a lower block
    missed       \* an update was sent that the receiver will never see or cannot use

masterVars == <<tip, urls, old, changes, olds, down>>
clientVars == <<cpc, conf, mc, chain>>
chanVars == <<subscribed, chan, lagged, missed>>
poolVars == <<masterVars, clientVars, chanVars>>

Update == [conf : Conf, blocks : Seq(Blocks)]

\* What the master tells who asks.
Published == [tip |-> tip, urls |-> urls, old |-> old]

PoolTypeOK ==
    /\ tip \in Tips /\ urls \in UrlLists /\ old \in Olds /\ changes \in 0 .. MaxChanges
    /\ cpc \in {"poll", "discover"}
    /\ conf \in Conf \cup {None} /\ mc \in Conf \cup {None}
    /\ chain \in [Heights -> Blocks \cup {None}]
    /\ \A h \in Heights : chain[h] /= None => Height[chain[h]] = h
    /\ subscribed \in BOOLEAN /\ lagged \in BOOLEAN
    /\ chan \in Seq(Update) /\ Len(chan) <= ChanCap
    /\ olds \subseteq Olds /\ down \in BOOLEAN /\ missed \in BOOLEAN

\* poolclient::new.
PoolInit ==
    /\ \E c \in Confs : tip = c.tip /\ urls = c.urls /\ old = c.old
    /\ changes = 0
    /\ cpc = "poll" /\ conf = None
    /\ mc = None /\ chain = [h \in Heights |-> None]
    /\ subscribed = FALSE /\ chan = <<>> /\ lagged = FALSE
    /\ olds = {old} /\ down = FALSE /\ missed = FALSE

-----------------------------------------------------------------------------
\* The master follows another tip, lists other URLs or gives another mine_old_anns.
MasterChanges(c) ==
    /\ changes < MaxChanges
    /\ c /= Published
    /\ tip' = c.tip /\ urls' = c.urls /\ old' = c.old /\ changes' = changes + 1
    /\ olds' = olds \cup {c.old}
    /\ down' = (down \/ Height[c.tip] < Height[tip])
    /\ UNCHANGED <<clientVars, chanVars>>

\* cfg_loop: the configuration has arrived and is not the one we have.
FetchConf ==
    /\ cpc = "poll"
    /\ mc /= Published
    /\ conf' = Published
    /\ cpc' = "discover"
    /\ UNCHANGED <<masterVars, mc, chain, chanVars>>

\* The ancestor of a block i generations back.
Ancestor(b, i) ==
    LET anc[j \in 0 .. Depth] == IF j = 0 THEN b ELSE Prev[anc[j - 1]]
    IN  anc[i]

\* As many blocks lie below a tip as discover_blocks asks for: it does not look
\* for the first block of the chain.
ASSUME TipsAreDeep == \A t \in Tips, i \in 0 .. Depth : Ancestor(t, i) \in Blocks

\* Mutant: any block of that height will do.
KnownMutant(b) == chain[Height[b]] /= None
\* discover_block: "We already know about block".
Known(b) == chain[Height[b]] = b

\* How many blocks discover_blocks fetches from b downwards: up to one that is
\* known, or to the one Depth below b.
Fetched(b) ==
    CHOOSE n \in 0 .. Depth + 1 :
        /\ n = Depth + 1 \/ Known(Ancestor(b, n))
        /\ \A i \in 0 .. n - 1 : ~Known(Ancestor(b, i))

\* The last of them, if it is as deep as that, is not returned.
Returned(b) == IF Fetched(b) > Depth THEN Depth ELSE Fetched(b)

\* The broadcast channel (external): without a receiver an update is lost, and
\* a full channel loses its oldest one.
Send(u) ==
    LET full == Len(chan) = ChanCap IN
    /\ chan' = IF ~subscribed THEN chan
               ELSE IF full THEN Append(Tail(chan), u) ELSE Append(chan, u)
    /\ lagged' = (lagged \/ (subscribed /\ full))
    /\ missed' = (missed \/ ~subscribed \/ full)
    /\ UNCHANGED subscribed

\* Mutant: a block is entered at its parent's height.
DiscoveredMutant(b, h) ==
    {Ancestor(b, i) : i \in {j \in 0 .. Fetched(b) - 1 : Height[b] - j - 1 = h}}
\* The block of height h that is fetched for b, if there is one.
Discovered(b, h) ==
    {Ancestor(b, i) : i \in {j \in 0 .. Fetched(b) - 1 : Height[b] - j = h}}

\* discover_blocks, and the end of the cycle.
DiscoverBlocks ==
    LET b == conf.tip IN
    /\ cpc = "discover"
    /\ chain' = [h \in Heights |-> IF Discovered(b, h) = {} THEN chain[h]
                                   ELSE CHOOSE x \in Discovered(b, h) : TRUE]
    /\ mc' = conf
    /\ Send([conf |-> conf, blocks |-> [i \in 1 .. Returned(b) |-> Ancestor(b, i - 1)]])
    /\ conf' = None
    /\ cpc' = "poll"
    /\ UNCHANGED masterVars

\* update_chan.
Subscribe ==
    /\ ~subscribed
    /\ subscribed' = TRUE
    /\ UNCHANGED <<masterVars, clientVars, chan, lagged, missed>>

\* Mutant: the receiver ends.
LagMutant == FALSE /\ UNCHANGED poolVars
\* The receiver is told that it has lagged, and tries again.
Lag ==
    /\ lagged
    /\ lagged' = FALSE
    /\ UNCHANGED <<masterVars, clientVars, subscribed, chan, missed>>

\* The receiver takes the oldest update.
Receive(u) ==
    /\ chan /= <<>> /\ ~lagged
    /\ u = Head(chan)
    /\ chan' = Tail(chan)
    /\ UNCHANGED <<masterVars, clientVars, subscribed, lagged>>

\* Nothing is on its way to the receiver.
Quiet ==
    /\ mc = Published
    /\ cpc = "poll" /\ chan = <<>> /\ ~lagged
=============================================================================
