----------------------------- MODULE MCIndexer -----------------------------
(* Instances of Indexer for TLC. *)
EXTENDS Indexer, TLC

CONSTANTS t1, t2, t3, t4, b1, b2, b3, b4, r1, r2

Two == {t1, t2}
Three == {t1, t2, t3}
Four == {t1, t2, t3, t4}

PairTxs == (b1 :> <<t1, t2>>)
EmptyBlock == (b1 :> <<>>)
PairChain == (b1 :> <<b1>>)

\* b2 and b3 are the tips of two branches above b1 and share t2; b4, above b2,
\* holds the refused t4 behind t3.
ForkTxs ==
  (b1 :> <<t1>>) @@ (b2 :> <<t2>>) @@ (b3 :> <<t2, t3>>) @@ (b4 :> <<t3, t4>>)
ForkChain ==
  (b1 :> <<b1>>) @@ (b2 :> <<b1, b2>>) @@ (b3 :> <<b1, b3>>) @@ (b4 :> <<b1, b2, b4>>)

\* DAG blocks that share t2.
SharedTxs == (b1 :> <<t1, t2>>) @@ (b2 :> <<t2, t3>>)
\* b2 holds the refused t4.
RefusedTxs == (b1 :> <<t1, t2>>) @@ (b2 :> <<t3, t4>>)
SharedChain == (b1 :> <<b1>>) @@ (b2 :> <<b2>>)

OneRule == (r1 :> {t1, t2})
TwoRules == (r1 :> {t1, t2}) @@ (r2 :> {t2, t3})

NoTxids == {}
NoRules == [r \in {} |-> NoTxids]
NoDisk == {}
Tx(t) == [txid |-> t, block |-> b1, at |-> 0]

\* Saved by a process that kept every transaction and had no matcher.
NoMatcher ==
  [txs |-> <<Tx(t1)>>, blocks |-> <<[hash |-> b1, at |-> 0]>>, matches |-> <<>>,
   matchers |-> EmptyMap, cp |-> b1]

\* Saved by a process with one matcher that had retained s.
OneMatcher(s) ==
  [txs |-> s, blocks |-> <<>>, matches |-> <<>>, matchers |-> (1 :> r1), cp |-> None]

\* An old snapshot.
Snapshots == {NoMatcher}

\* t4 is valid under a larger payload bound only.
Saved == {OneMatcher(<<>>), OneMatcher(<<Tx(t4)>>)}

\* Limits of one: every insertion evicts.
Store ==
  [txids |-> Three, hashes |-> {b1, b2}, invalid |-> {t3}, rules |-> {r1, r2},
   hits |-> TwoRules, blockTxs |-> SharedTxs, chainTo |-> SharedChain, keepTxs |-> FALSE,
   keepMatches |-> TRUE, keepBlocks |-> TRUE, maxTransactions |-> 1, maxBlocks |-> 1,
   maxMatches |-> 2, dedupeWindow |-> 1, ttl |-> 0, maxMatchers |-> 2, counterMax |-> 0,
   maxTime |-> 0, skew |-> 0, maxIds |-> 2, maxSaves |-> 0,
   uses |-> {"match", "direct", "batch", "sync", "clear", "checkpoint", "snapshot"},
   disks |-> Snapshots]

\* A lifetime of one and a block with a refused transaction.
Events ==
  [txids |-> Four, hashes |-> {b1, b2}, invalid |-> {t4}, rules |-> {r1}, hits |-> OneRule,
   blockTxs |-> RefusedTxs, chainTo |-> SharedChain, keepTxs |-> TRUE,
   keepMatches |-> TRUE, keepBlocks |-> FALSE, maxTransactions |-> 1, maxBlocks |-> 1,
   maxMatches |-> 2, dedupeWindow |-> 2, ttl |-> 1, maxMatchers |-> 1, counterMax |-> 0,
   maxTime |-> 2, skew |-> 0, maxIds |-> 1, maxSaves |-> 0,
   uses |-> {"match", "direct", "batch", "events", "query", "admin"}, disks |-> NoDisk]

\* A fork of the accepted chain, with saves and crashes.
Chain ==
  [txids |-> Four, hashes |-> {b1, b2, b3, b4}, invalid |-> {t4}, rules |-> {r1},
   hits |-> OneRule, blockTxs |-> ForkTxs, chainTo |-> ForkChain, keepTxs |-> TRUE,
   keepMatches |-> TRUE, keepBlocks |-> TRUE, maxTransactions |-> 3, maxBlocks |-> 3,
   maxMatches |-> 2, dedupeWindow |-> 2, ttl |-> 0, maxMatchers |-> 1, counterMax |-> 0,
   maxTime |-> 0, skew |-> 0, maxIds |-> 1, maxSaves |-> 2,
   uses |-> {"sync", "save", "restore", "restart", "clear"}, disks |-> Saved]

AllConfigs == {Store, Events, Chain}
=============================================================================
