------------------------------ MODULE Indexer ------------------------------
(***************************************************************************)
(* The lightweight indexer: IndexerEngine (indexer/engine.rs) over its     *)
(* MemoryStore and RecentKeys (indexer/storage), behind the lock of        *)
(* IndexerApi (indexer/facade.rs), with its persistence contract.          *)
(*                                                                         *)
(* The application ingests records, follows the accepted chain of a node,  *)
(* adds and removes matchers, drains events, saves and restores.  A job is *)
(* an operation that holds the lock while it loops over records: batches   *)
(* work on a clone of the engine that replaces it at the end               *)
(* (with_atomic); a restore fills a new store.                             *)
(*                                                                         *)
(* A transaction's content is its id: Hits says which rules match it and   *)
(* Invalid whether validate_transaction refuses it.  Of the metrics only   *)
(* the three retained-record gauges are kept; of the event queue, the last *)
(* news of each transaction and the set of announced matches.              *)
(***************************************************************************)
EXTENDS Naturals, Sequences, FiniteSets, Functions

CONSTANTS
  None,
  Configs             \* the configurations a process may run with, one record each

Distinct(s) == \A i, j \in DOMAIN s : s[i] = s[j] => i = j

\* A state that an earlier process saved under configuration k, which had the
\* same limits: what a process may find in its storage.
SavedUnder(k, p) ==
  /\ p.txs \in Seq([txid : k.txids, block : k.hashes \cup {None}, at : 0..k.maxTime])
  /\ p.blocks \in Seq([hash : k.hashes, at : 0..k.maxTime])
  /\ p.matches \in Seq([matcher : 1..k.maxIds, txid : k.txids, at : 0..k.maxTime])
  /\ DOMAIN p.matchers \subseteq 1..k.maxIds
  /\ p.matchers \in [DOMAIN p.matchers -> k.rules]
  /\ p.cp \in k.hashes \cup {None}
  /\ Distinct([i \in DOMAIN p.txs |-> p.txs[i].txid])
  /\ Distinct([i \in DOMAIN p.blocks |-> p.blocks[i].hash])
  /\ Len(p.txs) <= k.maxTransactions /\ Len(p.blocks) <= k.maxBlocks
  /\ Len(p.matches) <= k.maxMatches
  /\ \A i \in DOMAIN p.matches : \E j \in DOMAIN p.txs : p.matches[i].txid = p.txs[j].txid

\* The chain of k that ends with block h.
ChainOf(k, h) == IF h = None THEN <<>> ELSE k.chainTo[h]

\* b is the first block of the chain C that holds transaction t.
FirstWith(k, C, t, b) ==
  \E i \in DOMAIN C :
    /\ C[i] = b /\ t \in Range(k.blockTxs[b])
    /\ \A j \in DOMAIN C : t \in Range(k.blockTxs[C[j]]) => i <= j

\* The saved state p is that of the chain to its checkpoint.
HoldsChain(k, p) ==
  LET C == ChainOf(k, p.cp) IN
  /\ {p.blocks[i].hash : i \in DOMAIN p.blocks} = Range(C)
  /\ \A b \in Range(C) : Range(k.blockTxs[b]) \subseteq {p.txs[i].txid : i \in DOMAIN p.txs}
  /\ \A i \in DOMAIN p.txs : FirstWith(k, C, p.txs[i].txid, p.txs[i].block)

\* No match comes back under an id that means another rule: no snapshot brings
\* matches of other matchers, and no id is given out after a restore.
KeepsIds(k) ==
  /\ "snapshot" \in k.uses => "save" \notin k.uses /\ \A p \in k.disks : p.matches = <<>>
  /\ "restore" \in k.uses => "match" \notin k.uses

\* All transactions are kept and the duplicate window covers them.
WindowCovers(k) == k.keepTxs /\ k.dedupeWindow >= k.maxTransactions

\* The matches in s are single.
SingleMatches(s) ==
  \A i, j \in DOMAIN s : s[i].matcher = s[j].matcher /\ s[i].txid = s[j].txid => i = j

\* The matches in s carry ids of matchers M whose rules made them.
Attributed(k, s, M) ==
  \A i \in DOMAIN s : s[i].matcher \in DOMAIN M => s[i].txid \in k.hits[M[s[i].matcher]]

ASSUME ConfigAssumption ==
  \A k \in Configs :
    /\ k.maxTransactions \in Nat \ {0} /\ k.maxBlocks \in Nat \ {0}
    /\ k.maxMatches \in Nat \ {0} /\ k.dedupeWindow \in Nat \ {0}
    /\ k.ttl \in Nat /\ k.counterMax \in Nat /\ k.maxMatchers \in Nat
    /\ k.maxTime \in Nat /\ k.skew \in Nat /\ k.maxIds \in Nat /\ k.maxSaves \in Nat
    /\ k.keepTxs \in BOOLEAN /\ k.keepMatches \in BOOLEAN /\ k.keepBlocks \in BOOLEAN
    /\ k.invalid \subseteq k.txids
    /\ k.hits \in [k.rules -> SUBSET k.txids]
    /\ k.blockTxs \in [k.hashes -> Seq(k.txids)]
    /\ k.chainTo \in [k.hashes -> Seq(k.hashes)]
    /\ \A h \in k.hashes : \A i \in DOMAIN k.chainTo[h] :
         k.chainTo[k.chainTo[h][i]] = SubSeq(k.chainTo[h], 1, i)
    /\ None \notin k.hashes
    /\ \A p \in k.disks :
         /\ SavedUnder(k, p)
         /\ WindowCovers(k) => SingleMatches(p.matches)
         /\ KeepsIds(k) => Attributed(k, p.matches, p.matchers)
         /\ k.skew = 0 => \A i \in DOMAIN p.txs : p.txs[i].at = 0

VARIABLES
  cfg,        \* the configuration of this process and the chain it sees
  eng,        \* the engine behind the lock
  job,        \* the operation that holds the lock, or None
  disk,       \* the persisted state, or None
  saves,      \* states captured by save_to and not stored yet
  loaded,     \* the state load_state returned to the application, or None
  now,        \* the clock
  view        \* what a consumer of drain_events knows

vars == <<cfg, eng, job, disk, saves, loaded, now, view>>

-----------------------------------------------------------------------------
(* The configuration *)

Txids           == cfg.txids        \* transaction ids
Hashes          == cfg.hashes       \* block hashes
Invalid         == cfg.invalid      \* transactions that validate_transaction refuses
Rules           == cfg.rules
Hits            == cfg.hits         \* Hits[r]: the transactions that rule r matches
BlockTxs        == cfg.blockTxs     \* BlockTxs[h]: the transactions of block h, in order
ChainTo         == cfg.chainTo      \* ChainTo[h]: the accepted chain that ends with block h
KeepTxs         == cfg.keepTxs      \* IndexingMode
KeepMatches     == cfg.keepMatches
KeepBlocks      == cfg.keepBlocks
MaxTransactions == cfg.maxTransactions\* IndexerConfig
MaxBlocks       == cfg.maxBlocks
MaxMatches      == cfg.maxMatches
DedupeWindow    == cfg.dedupeWindow
Ttl             == cfg.ttl
MaxMatchers     == cfg.maxMatchers  \* the limit of add_matcher
CounterMax      == cfg.counterMax   \* where saturating_add stops
Uses            == cfg.uses         \* the parts of the API the application uses
InitDisks       == cfg.disks        \* what earlier processes may have left in the storage
MaxTime         == cfg.maxTime      \* bound: the clock
Skew            == cfg.skew         \* bound: how old an ingested record may be
MaxIds          == cfg.maxIds       \* bound: matcher ids given out
MaxSaves        == cfg.maxSaves     \* bound: saves in flight

-----------------------------------------------------------------------------
(* Records *)

Times == 0..MaxTime
Ids == 1..MaxIds

IndexedTransaction == [txid : Txids, block : Hashes \cup {None}, at : Times]
IndexedBlock == [hash : Hashes, at : Times]
IndexedMatch == [matcher : Ids, txid : Txids, at : Times]

\* A HashMap from some elements of S to T.
Map(S, T) == UNION {[D -> T] : D \in SUBSET S}

Insert(m, k, v) == [x \in DOMAIN m \cup {k} |-> IF x = k THEN v ELSE m[x]]
Without(m, K) == [x \in DOMAIN m \ K |-> m[x]]

\* The elements of s that are not in G, in their order (VecDeque::retain).
Remove(s, G) ==
  LET kept[i \in 0..Len(s)] ==
        IF i = 0 THEN <<>>
        ELSE IF s[i] \in G THEN kept[i - 1] ELSE Append(kept[i - 1], s[i])
  IN kept[Len(s)]

\* The matches in s that are of transactions in G.
MatchesOf(s, G) == {m \in Range(s) : m.txid \in G}

\* Add to, or take from, a saturating counter.
Up(n) == IF n < CounterMax THEN n + 1 ELSE n
Down(n, k) == IF n < k THEN 0 ELSE n - k

\* The last n elements of s; the elements of s after the first n.
LastOf(s, n) == IF Len(s) <= n THEN s ELSE SubSeq(s, Len(s) - n + 1, Len(s))
After(s, n) == SubSeq(s, n + 1, Len(s))

Age(t, at) == IF at > t THEN 0 ELSE t - at

MaxNat(S) == CHOOSE n \in S : \A m \in S : m <= n

Counters == [tx : 0..CounterMax, block : 0..CounterMax, match : 0..CounterMax]

News == {"none", "added", "evicted"}

\* IndexerEngine with its store: tx_order, block_order and matches are
\* VecDeques, `recent` the order of RecentKeys (its set is the range of it).
Engine ==
  [ tx : Map(Txids, IndexedTransaction), txOrder : Seq(Txids),
    blocks : Map(Hashes, IndexedBlock), blockOrder : Seq(Hashes),
    matches : Seq(IndexedMatch), recent : Seq(Txids),
    matchers : Map(Ids, Rules), nextId : 1..(MaxIds + 1),
    running : BOOLEAN, last : Times \cup {None}, count : Counters,
    cp : Hashes \cup {None},
    news : [Txids -> News], announced : SUBSET (Ids \X Txids) ]

PersistedState ==
  [ txs : Seq(IndexedTransaction), blocks : Seq(IndexedBlock),
    matches : Seq(IndexedMatch), matchers : Map(Ids, Rules), cp : Hashes \cup {None} ]

Item ==
  [kind : {"tx"}, rec : IndexedTransaction] \cup [kind : {"block"}, rec : IndexedBlock]
    \cup [kind : {"match"}, rec : IndexedMatch]

Job ==
  [ kind : {"batch", "sync", "restore"}, staged : Engine, todo : Seq(Item),
    cp : Hashes \cup {None} ]

EmptyMap == [x \in {} |-> None]
NoNews == [t \in Txids |-> "none"]
NoCounts == [tx |-> 0, block |-> 0, match |-> 0]

New ==
  [ tx |-> EmptyMap, txOrder |-> <<>>, blocks |-> EmptyMap, blockOrder |-> <<>>,
    matches |-> <<>>, recent |-> <<>>, matchers |-> EmptyMap, nextId |-> 1,
    running |-> FALSE, last |-> None, count |-> NoCounts, cp |-> None,
    news |-> NoNews, announced |-> {} ]

EmptyView == [txs |-> {}, matches |-> {}]

Init ==
  /\ cfg \in Configs
  /\ eng = New /\ job = None
  /\ disk \in InitDisks \cup {None} /\ saves = {} /\ loaded = None
  /\ now = 0 /\ view = EmptyView

-----------------------------------------------------------------------------
(* MemoryStore and RecentKeys *)

\* Mutant: an eviction is not announced.
PopSilently(e, n) ==
  LET gone == Range(SubSeq(e.txOrder, 1, n)) IN
  [e EXCEPT !.tx = Without(@, gone), !.txOrder = After(@, n),
            !.matches = Remove(@, MatchesOf(@, gone))]

\* The first n transactions of the queue leave the store with their matches,
\* and events say so.
PopTransactions(e, n) ==
  LET gone == Range(SubSeq(e.txOrder, 1, n)) IN
  [e EXCEPT !.tx = Without(@, gone), !.txOrder = After(@, n),
            !.matches = Remove(@, MatchesOf(@, gone)),
            !.news = [t \in Txids |-> IF t \in gone THEN "evicted" ELSE @[t]]]

\* trim_transactions and record_size_evictions.  Every id in the order is in
\* the map, so the loop pops as many ids as there are too many.
TrimTransactions(e) == PopTransactions(e, Down(Cardinality(DOMAIN e.tx), MaxTransactions))

TrimBlocks(e) ==
  LET n == Down(Cardinality(DOMAIN e.blocks), MaxBlocks) IN
  [e EXCEPT !.blocks = Without(@, Range(SubSeq(e.blockOrder, 1, n))),
            !.blockOrder = After(@, n)]

HasTransaction(e, x) == x.txid \in DOMAIN e.tx

InsertTransaction(e, x) ==
  IF HasTransaction(e, x) THEN e
  ELSE TrimTransactions([e EXCEPT !.tx = Insert(@, x.txid, x),
                                  !.txOrder = Append(@, x.txid)])

InsertBlock(e, b) ==
  IF b.hash \in DOMAIN e.blocks THEN e
  ELSE TrimBlocks([e EXCEPT !.blocks = Insert(@, b.hash, b),
                            !.blockOrder = Append(@, b.hash)])

InsertMatch(e, m) == [e EXCEPT !.matches = LastOf(Append(@, m), MaxMatches)]

\* The front of the order that purge_expired pops: it stops at the first
\* transaction that is not expired.
Expired(e, t, id) == id \notin DOMAIN e.tx \/ Age(t, e.tx[id].at) > Ttl

ExpiredFront(e, t) ==
  CHOOSE n \in 0..Len(e.txOrder) :
    /\ \A i \in 1..n : Expired(e, t, e.txOrder[i])
    /\ n < Len(e.txOrder) => ~Expired(e, t, e.txOrder[n + 1])

PurgeExpired(e, t) == IF Ttl = 0 THEN e ELSE PopTransactions(e, ExpiredFront(e, t))

\* RecentKeys::observe, for a key that is not in the window.
Observe(e, txid) == [e EXCEPT !.recent = LastOf(Append(@, txid), DedupeWindow)]

\* rebuild_recent_txids
RebuildRecentTxids(e) == [e EXCEPT !.recent = LastOf(e.txOrder, DedupeWindow)]

\* Mutant: the orphaned transactions stay in the order.
RemoveFromMaps(e, R) ==
  LET gone == {t \in DOMAIN e.tx : e.tx[t].block \in R}
      kept == Remove(e.matches, MatchesOf(e.matches, gone))
  IN [e EXCEPT !.blocks = Without(@, R),
               !.blockOrder = Remove(@, R),
               !.tx = Without(@, gone), !.matches = kept]

\* remove_chain_blocks, with the gauges reconcile_virtual_chain lowers.
RemoveChainBlocks(e, R) ==
  LET gone == {t \in DOMAIN e.tx : e.tx[t].block \in R}
      kept == Remove(e.matches, MatchesOf(e.matches, gone))
  IN [e EXCEPT !.blocks = Without(@, R),
               !.blockOrder = Remove(@, R),
               !.tx = Without(@, gone),
               !.txOrder = Remove(@, gone),
               !.matches = kept,
               !.count = [tx |-> Down(@.tx, Cardinality(gone)),
                          block |-> Down(@.block, Cardinality(DOMAIN e.blocks \cap R)),
                          match |-> Down(@.match, Len(e.matches) - Len(kept))]]

-----------------------------------------------------------------------------
(* IndexerEngine: ingestion *)

\* scanner::scan; the HashMap of matchers is iterated in any order.
HitIds(e, x) == {i \in DOMAIN e.matchers : x.txid \in Hits[e.matchers[i]]}

IsScan(s, e, x) ==
  /\ Range(s) = HitIds(e, x)
  /\ \A i, j \in DOMAIN s : s[i] = s[j] => i = j

Scans(e, x) ==
  {s \in [1..Cardinality(HitIds(e, x)) -> HitIds(e, x)] : IsScan(s, e, x)}

RetainsTransaction(isMatch) == KeepTxs \/ (KeepMatches /\ isMatch)

\* retain_transaction
Retain(e, x, isMatch) ==
  IF ~RetainsTransaction(isMatch) \/ HasTransaction(e, x) THEN e
  ELSE [InsertTransaction([e EXCEPT !.news[x.txid] = "added"], x) EXCEPT !.count.tx = Up(@)]

\* publish_matches, for the matcher ids s in the order of the scan.  The queue
\* is trimmed after each of them, so its last MaxMatches elements remain.
Publish(e, x, s) ==
  LET new == [i \in DOMAIN s |-> [matcher |-> s[i], txid |-> x.txid, at |-> x.at]]
      told == [e EXCEPT !.announced = @ \cup {<<i, x.txid>> : i \in Range(s)}]
  IN IF ~KeepMatches THEN told
     ELSE [told EXCEPT !.matches = LastOf(@ \o new, MaxMatches),
                       !.count.match = IF @ + Len(s) < CounterMax THEN @ + Len(s)
                                       ELSE CounterMax]

\* ingest_transaction, for a transaction that passed validate_transaction.
IngestTransaction(e, x, s) ==
  LET fresh == PurgeExpired(e, x.at) IN
  IF x.txid \in Range(fresh.recent) THEN fresh
  ELSE Publish(Retain(Observe(fresh, x.txid), x, s # <<>>), x, s)

IngestBlock(e, b) ==
  LET fresh == [PurgeExpired(e, b.at) EXCEPT !.last = b.at] IN
  IF ~KeepBlocks \/ b.hash \in DOMAIN fresh.blocks THEN fresh
  ELSE [InsertBlock(fresh, b) EXCEPT !.count.block = Up(@)]

-----------------------------------------------------------------------------
(* Saving and restoring *)

\* persisted_state
Persisted(e) ==
  [ txs |-> [i \in DOMAIN e.txOrder |-> e.tx[e.txOrder[i]]],
    blocks |-> [i \in DOMAIN e.blockOrder |-> e.blocks[e.blockOrder[i]]],
    matches |-> e.matches, matchers |-> e.matchers, cp |-> e.cp ]

\* next_matcher_id
NextMatcherId(M) == MaxNat(DOMAIN M \cup {0}) + 1

\* validate_snapshot
Restorable(p) == \A i \in DOMAIN p.txs : p.txs[i].txid \notin Invalid

Items(kind, s) == [i \in DOMAIN s |-> [kind |-> kind, rec |-> s[i]]]

\* Mutant: the blocks of the saved state are not inserted.
RestoreWithoutBlocks(p) == Items("tx", p.txs) \o Items("match", p.matches)

\* What MemoryStore::restore inserts, in its order.
RestoreItems(p) == Items("tx", p.txs) \o Items("block", p.blocks) \o Items("match", p.matches)

EmptyStore(e) ==
  [e EXCEPT !.tx = EmptyMap, !.txOrder = <<>>, !.blocks = EmptyMap,
            !.blockOrder = <<>>, !.matches = <<>>]

\* rebuild_runtime_state and events.clear, once the store is filled.
Capped(n) == IF n < CounterMax THEN n ELSE CounterMax

RebuildRuntimeState(e) ==
  LET n == Len(e.blockOrder) IN
  [RebuildRecentTxids(e) EXCEPT
     !.count = [tx |-> Capped(Cardinality(DOMAIN e.tx)),
                block |-> Capped(Cardinality(DOMAIN e.blocks)),
                match |-> Capped(Len(e.matches))],
     !.last = IF n = 0 THEN None ELSE e.blocks[e.blockOrder[n]].at,
     !.news = NoNews, !.announced = {}]

\* IndexerEngine::clear keeps the matchers and the running flag.
Cleared(e) ==
  [New EXCEPT !.matchers = e.matchers, !.nextId = e.nextId, !.running = e.running]

-----------------------------------------------------------------------------
(* IndexerApi.  The lock is free when no job holds it. *)

Free == job = None

Set(e) == eng' = e /\ UNCHANGED <<job, disk, saves, loaded, now, view>>

Stamps == {t \in Times : t <= now /\ now - t <= Skew}

Start ==
  /\ "admin" \in Uses /\ Free
  /\ Set([eng EXCEPT !.running = TRUE, !.last = IF @ = None THEN now ELSE @])

Stop ==
  /\ "admin" \in Uses /\ Free
  /\ Set([eng EXCEPT !.running = FALSE])

Clear ==
  /\ "clear" \in Uses /\ Free
  /\ Set(Cleared(eng))

\* Mutant: the id is the number of matchers.
AddMatcherCounting(r) ==
  LET id == Cardinality(DOMAIN eng.matchers) + 1 IN
  /\ "match" \in Uses /\ Free
  /\ id <= MaxMatchers /\ id \in Ids
  /\ Set([eng EXCEPT !.matchers = Insert(@, id, r)])

AddMatcher(r) ==
  /\ "match" \in Uses /\ Free
  /\ Cardinality(DOMAIN eng.matchers) < MaxMatchers /\ eng.nextId \in Ids
  /\ Set([eng EXCEPT !.matchers = Insert(@, eng.nextId, r), !.nextId = @ + 1])

RemoveMatcher(i) ==
  /\ "match" \in Uses /\ Free
  /\ i \in DOMAIN eng.matchers
  /\ Set([eng EXCEPT !.matchers = Without(@, {i})])

\* Every query starts with with_fresh.
Query ==
  /\ "query" \in Uses /\ Free
  /\ Set(PurgeExpired(eng, now))

SetCheckpoint(h) ==
  /\ "checkpoint" \in Uses /\ Free
  /\ Set([eng EXCEPT !.cp = h])

\* A transaction from the mempool or from a block; a refused one changes only
\* statistics.
IngestOne(t, h, at) ==
  LET x == [txid |-> t, block |-> h, at |-> at] IN
  /\ "direct" \in Uses /\ Free
  /\ t \notin Invalid
  /\ \E s \in Scans(eng, x) : Set(IngestTransaction(eng, x, s))

IngestBareBlock(h, at) ==
  /\ "direct" \in Uses /\ Free
  /\ Set(IngestBlock(eng, [hash |-> h, at |-> at]))

\* The consumer applies the events it drains, in their order.
AfterEvents(v, e) ==
  [ txs |-> (v.txs \ {t \in Txids : e.news[t] = "evicted"})
              \cup {t \in Txids : e.news[t] = "added"},
    matches |-> v.matches \cup e.announced ]

DrainEvents ==
  LET fresh == PurgeExpired(eng, now) IN
  /\ "events" \in Uses /\ Free
  /\ view' = AfterEvents(view, fresh)
  /\ eng' = [fresh EXCEPT !.news = NoNews, !.announced = {}]
  /\ UNCHANGED <<job, disk, saves, loaded, now>>

-----------------------------------------------------------------------------
(* Jobs *)

\* The records of block h as one BlockBatch observed at time t.
BatchItems(h, t) ==
  <<[kind |-> "block", rec |-> [hash |-> h, at |-> t]]>> \o
    [i \in DOMAIN BlockTxs[h] |->
       [kind |-> "tx", rec |-> [txid |-> BlockTxs[h][i], block |-> h, at |-> t]]]

Hold(j) ==
  /\ Free
  /\ job' = j
  /\ UNCHANGED <<eng, disk, saves, now, view>>

\* ingest_block_batch
IngestBlockBatch(h, at) ==
  /\ "batch" \in Uses
  /\ Hold([kind |-> "batch", staged |-> eng, todo |-> BatchItems(h, at), cp |-> None])
  /\ UNCHANGED loaded

OnChain(h) == IF h = None THEN {} ELSE Range(ChainTo[h])

\* The batches of the chain to h that the chain to the checkpoint lacks.
ChainItems(h, t) ==
  LET todo == Remove(ChainTo[h], OnChain(eng.cp))
      flat[i \in 0..Len(todo)] ==
        IF i = 0 THEN <<>> ELSE flat[i - 1] \o BatchItems(todo[i], t)
  IN flat[Len(todo)]

\* apply_sync_batches: the node's chain extends the checkpoint.
ApplySyncBatches(h, at) ==
  /\ "sync" \in Uses
  /\ OnChain(eng.cp) \subseteq OnChain(h)
  /\ Hold([kind |-> "sync", staged |-> eng, todo |-> ChainItems(h, at), cp |-> h])
  /\ UNCHANGED loaded

\* reconcile_virtual_chain: removed blocks first, then the accepted ones.
ReconcileVirtualChain(h, at) ==
  LET removed == OnChain(eng.cp) \ OnChain(h) IN
  /\ "sync" \in Uses
  /\ Hold([kind |-> "sync", todo |-> ChainItems(h, at), cp |-> h,
           staged |-> RebuildRecentTxids(RemoveChainBlocks(eng, removed))])
  /\ UNCHANGED loaded

\* restore_state once a state is loaded: everything is validated first.
RestoreState ==
  /\ "restore" \in Uses /\ loaded # None /\ Restorable(loaded)
  /\ Hold([kind |-> "restore", todo |-> RestoreItems(loaded), cp |-> loaded.cp,
           staged |-> [EmptyStore(eng) EXCEPT
                         !.matchers = loaded.matchers,
                         !.nextId = NextMatcherId(loaded.matchers)]])
  /\ UNCHANGED loaded

\* restore_snapshot keeps the matchers and the checkpoint.
RestoreSnapshot ==
  /\ "snapshot" \in Uses /\ loaded # None /\ Restorable(loaded)
  /\ Hold([kind |-> "restore", todo |-> RestoreItems(loaded), cp |-> eng.cp,
           staged |-> EmptyStore(eng)])
  /\ UNCHANGED loaded

RestoreRefused ==
  /\ Free /\ loaded # None /\ ~Restorable(loaded)
  /\ loaded' = None
  /\ UNCHANGED <<eng, job, disk, saves, now, view>>

Keep(e) ==
  /\ job' = [job EXCEPT !.staged = e, !.todo = Tail(@)]
  /\ UNCHANGED <<eng, disk, saves, loaded, now, view>>

\* One turn of the loops of ingest_block_batch, apply_sync_batches and
\* reconcile_virtual_chain.
IngestNext ==
  /\ job # None /\ job.kind # "restore" /\ job.todo # <<>>
  /\ LET it == Head(job.todo) IN
     \/ /\ it.kind = "block"
        /\ Keep(IngestBlock(job.staged, it.rec))
     \/ /\ it.kind = "tx" /\ it.rec.txid \notin Invalid
        /\ \E s \in Scans(job.staged, it.rec) :
             Keep(IngestTransaction(job.staged, it.rec, s))

\* One turn of the loops of MemoryStore::restore.
RestoreNext ==
  /\ job # None /\ job.kind = "restore" /\ job.todo # <<>>
  /\ LET it == Head(job.todo) IN
     Keep(CASE it.kind = "tx" -> InsertTransaction(job.staged, it.rec)
            [] it.kind = "block" -> InsertBlock(job.staged, it.rec)
            [] it.kind = "match" -> InsertMatch(job.staged, it.rec))

\* Mutant: the operation works on the engine itself.
AbortInPlace ==
  /\ job # None /\ job.kind # "restore" /\ job.todo # <<>>
  /\ Head(job.todo).kind = "tx" /\ Head(job.todo).rec.txid \in Invalid
  /\ eng' = job.staged
  /\ job' = None
  /\ UNCHANGED <<disk, saves, loaded, now, view>>

\* A refused transaction fails the operation: the clone is dropped.
Abort ==
  /\ job # None /\ job.kind # "restore" /\ job.todo # <<>>
  /\ Head(job.todo).kind = "tx" /\ Head(job.todo).rec.txid \in Invalid
  /\ job' = None
  /\ UNCHANGED <<eng, disk, saves, loaded, now, view>>

\* set_checkpoint, or rebuild_runtime_state, and the lock is released.
Commit ==
  /\ job # None /\ job.todo = <<>>
  /\ eng' = CASE job.kind = "batch" -> job.staged
              [] job.kind = "sync" -> [job.staged EXCEPT !.cp = job.cp]
              [] job.kind = "restore" -> [RebuildRuntimeState(job.staged) EXCEPT !.cp = job.cp]
  /\ job' = None
  /\ loaded' = IF job.kind = "restore" THEN None ELSE loaded
  /\ UNCHANGED <<disk, saves, now, view>>

-----------------------------------------------------------------------------
(* Storage: the persistence futures may complete in any order *)

\* save_to takes the state under the lock, then awaits save_state.
BeginSave ==
  LET fresh == PurgeExpired(eng, now) IN
  /\ "save" \in Uses /\ Free /\ Cardinality(saves) < MaxSaves
  /\ eng' = fresh
  /\ saves' = saves \cup {Persisted(fresh)}
  /\ UNCHANGED <<job, disk, loaded, now, view>>

EndSave(p) ==
  /\ p \in saves
  /\ saves' = saves \ {p}
  /\ disk' \in {p, disk}          \* stored, or failed
  /\ UNCHANGED <<eng, job, loaded, now, view>>

ClearPersisted ==
  /\ "save" \in Uses /\ disk # None
  /\ disk' = None
  /\ UNCHANGED <<eng, job, saves, loaded, now, view>>

\* restore_from awaits load_state; other operations may run before it goes on.
LoadState ==
  /\ Uses \cap {"restore", "snapshot"} # {} /\ disk # None /\ loaded = None
  /\ loaded' = disk
  /\ UNCHANGED <<eng, job, disk, saves, now, view>>

\* The process dies and starts again; what it left in the storage stays.
Restart ==
  /\ "restart" \in Uses
  /\ eng' = New /\ job' = None /\ saves' = {} /\ loaded' = None /\ view' = EmptyView
  /\ UNCHANGED <<disk, now>>

Tick ==
  /\ now < MaxTime
  /\ now' = now + 1
  /\ UNCHANGED <<eng, job, disk, saves, loaded, view>>

-----------------------------------------------------------------------------

ApiNext ==
  \/ Start \/ Stop \/ Clear \/ Query \/ DrainEvents
  \/ \E r \in Rules : AddMatcher(r)
  \/ \E i \in Ids : RemoveMatcher(i)
  \/ \E h \in Hashes \cup {None} : SetCheckpoint(h)
  \/ \E t \in Txids, h \in Hashes \cup {None}, at \in Stamps :
       /\ h # None => t \in Range(BlockTxs[h])
       /\ IngestOne(t, h, at)
  \/ \E h \in Hashes, at \in Stamps :
       \/ IngestBareBlock(h, at)
       \/ IngestBlockBatch(h, at)
       \/ ApplySyncBatches(h, at)
       \/ ReconcileVirtualChain(h, at)
  \/ RestoreState \/ RestoreSnapshot \/ RestoreRefused

JobNext == IngestNext \/ RestoreNext \/ Abort \/ Commit

StorageNext ==
  \/ BeginSave \/ ClearPersisted \/ LoadState \/ Restart
  \/ \E p \in saves : EndSave(p)

\* No operation changes the configuration.
Next == (ApiNext \/ JobNext \/ StorageNext \/ Tick) /\ UNCHANGED cfg

Spec == Init /\ [][Next]_vars

-----------------------------------------------------------------------------
(* Safety *)

\* Every variable stays in its type.
TypeOK ==
  /\ cfg \in Configs
  /\ eng \in Engine
  /\ job = None \/ job \in Job
  /\ disk = None \/ disk \in PersistedState
  /\ saves \subseteq PersistedState
  /\ loaded = None \/ loaded \in PersistedState
  /\ now \in Times
  /\ view \in [txs : SUBSET Txids, matches : SUBSET (Ids \X Txids)]

\* The queues of the store list exactly the records of its maps, each once and
\* under its own key, so eviction in queue order can never miss one.
StoreAgrees(e) ==
  /\ Distinct(e.txOrder) /\ Range(e.txOrder) = DOMAIN e.tx
  /\ Distinct(e.blockOrder) /\ Range(e.blockOrder) = DOMAIN e.blocks
  /\ \A t \in DOMAIN e.tx : e.tx[t].txid = t
  /\ \A h \in DOMAIN e.blocks : e.blocks[h].hash = h

\* No operation leaves more records than IndexerConfig allows.
WithinLimits(e) ==
  /\ Len(e.txOrder) <= MaxTransactions /\ Len(e.blockOrder) <= MaxBlocks
  /\ Len(e.matches) <= MaxMatches /\ Len(e.recent) <= DedupeWindow

\* Whatever ingestion, eviction, expiry, reorganisation, restart and restore
\* do, the queues and the maps of the store agree and stay within the limits.
StoreConsistent == StoreAgrees(eng) /\ WithinLimits(eng)

\* A retained match never points at a transaction that is gone: eviction,
\* expiry and reorganisation take the matches with the transaction.
MatchesHaveTransactions ==
  \A i \in DOMAIN eng.matches : eng.matches[i].txid \in DOMAIN eng.tx

\* A retained match of an existing matcher was made by that matcher's rule, as
\* long as no saved state brings matches back under ids that mean another rule.
MatchesAreAttributed == KeepsIds(cfg) => Attributed(cfg, eng.matches, eng.matchers)

\* If all transactions are kept and the duplicate window covers the store, a
\* redelivered transaction adds no second copy of a match.
MatchesAreSingle == WindowCovers(cfg) => SingleMatches(eng.matches)

\* Every retained match is justified by what is retained beside it, whatever
\* eviction, expiry, reorganisation, redelivery and restore did.
MatchesAreJustified == MatchesHaveTransactions /\ MatchesAreAttributed /\ MatchesAreSingle

\* A consumer that applies every event knows, once it has drained them, which
\* transactions are retained, and has heard of every retained match, as long as
\* the application does not replace the store and the chain is not reorganised
\* (the event of a reorganisation names no transaction).
EventsTellTheStory ==
  Uses \cap {"clear", "restart", "restore", "snapshot", "sync"} = {} =>
  LET v == AfterEvents(view, eng) IN
  /\ v.txs = DOMAIN eng.tx
  /\ \A i \in DOMAIN eng.matches : <<eng.matches[i].matcher, eng.matches[i].txid>> \in v.matches

\* If records arrive with the clock's time, no query returns an expired one,
\* although purge_expired looks only at the front of the queue.
QueriesAreFresh ==
  Skew = 0 /\ Ttl # 0 =>
  \A t \in DOMAIN PurgeExpired(eng, now).tx : Age(now, eng.tx[t].at) <= Ttl

\* The store holds what its maps and queues agree on, within its limits, every
\* match in it is justified, and nothing expired reaches a query.
StoreIsSound == StoreConsistent /\ MatchesAreJustified /\ QueriesAreFresh

\* An application that only follows the node's chain, as the one before it did,
\* with room for every record of it for as long as it likes.
OnlyFollowsChain ==
  /\ Uses \cap {"direct", "batch", "checkpoint", "snapshot"} = {}
  /\ KeepTxs /\ KeepBlocks /\ Ttl = 0
  /\ \A p \in InitDisks : Restorable(p) => HoldsChain(cfg, p)
  /\ \A h \in Hashes : /\ Len(ChainTo[h]) <= MaxBlocks
                       /\ Cardinality((UNION {Range(BlockTxs[b]) : b \in Range(ChainTo[h])}) \ Invalid)
                            <= MaxTransactions

\* With room for every record, the retained blocks and transactions are those
\* of the accepted chain that ends at the checkpoint: after reorganisations
\* that move transactions between blocks, failed batches, crashes and saves
\* that land late.
IndexIsTheChain ==
  OnlyFollowsChain =>
  /\ DOMAIN eng.blocks = OnChain(eng.cp)
  /\ DOMAIN eng.tx = UNION {Range(BlockTxs[h]) : h \in OnChain(eng.cp)}
  /\ \A t \in DOMAIN eng.tx : t \in Range(BlockTxs[eng.tx[t].block])
                              /\ eng.tx[t].block \in OnChain(eng.cp)

\* A state saved under the same limits comes back record for record, in order:
\* refilling the store through its trimming inserts loses nothing.
RestoreIsFaithful ==
  [][Commit /\ job.kind = "restore" =>
       /\ Persisted(eng').txs = loaded.txs /\ Persisted(eng').blocks = loaded.blocks
       /\ Persisted(eng').matches = loaded.matches]_vars
=============================================================================
