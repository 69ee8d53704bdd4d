----------------------------- MODULE MCUnlock -----------------------------
(***************************************************************************)
(* Five transactions to co-sign and three devices: the keys of the         *)
(* covenant stand in two branches, of which the spend selects the second.  *)
(* Small contracts of every kind, with amounts at the edges of their terms.*)
(***************************************************************************)
EXTENDS Unlock

CONSTANTS ka, kb, kc, t1, t2

P2pk(key) ==
  [kind |-> "p2pk", keys |-> <<key>>, m |-> 1, ms45 |-> FALSE,
   exec |-> "absent", active |-> {}, plan |-> FALSE, path |-> <<>>]

Multisig(keys, m, ms45) ==
  [kind |-> "multisig", keys |-> keys, m |-> m, ms45 |-> ms45,
   exec |-> "absent", active |-> {}, plan |-> FALSE, path |-> <<>>]

Covenant(keys, exec, active, plan, path) ==
  [kind |-> "covenant", keys |-> keys, m |-> 0, ms45 |-> FALSE,
   exec |-> exec, active |-> active, plan |-> plan, path |-> path]

MCTemplates ==
  { << Multisig(<<ka, kb, kc>>, 2, FALSE) >>,
    << Multisig(<<kc, kb>>, 2, TRUE), P2pk(ka) >>,
    << P2pk(ka), Covenant(<<kb, kb>>, "full", {2}, TRUE, <<2>>) >>,
    << Covenant(<<>>, "full", {}, TRUE, <<>>), P2pk(ka) >>,
    << P2pk(kb), Covenant(<<ka, kb>>, "partial", {1, 2}, FALSE, <<>>) >> }

Seed(account, table, scan, far, stealth, ms45, kip22) ==
  [account |-> account, table |-> table, scan |-> scan, far |-> far,
   stealth |-> stealth, ms45 |-> ms45, kip22 |-> kip22]

(* The second device holds two cosigners of a multisig, the third an       *)
(* imported key, and signs with fresh entropy.                             *)
MCDevices ==
  { [seeds |-> << Seed(ka, {}, {ka}, {}, {}, NoKey, {}) >>, raw |-> NoKey, entropy |-> FALSE],
    [seeds |-> << Seed(kb, {}, {}, {kb}, {}, kb, {}), Seed(NoKey, {kc}, {}, {}, {ka}, kc, {kb}) >>,
     raw |-> NoKey, entropy |-> FALSE],
    [seeds |-> <<>>, raw |-> ka, entropy |-> TRUE] }

-----------------------------------------------------------------------------
salt8  == Named("salt", 8)
salt16 == Named("salt", 16)

To(k, amount)    == [to |-> k, amount |-> amount, tag |-> "none"]
Kept1(k, amount) == [to |-> k, amount |-> amount, tag |-> "own"]
Beat(amount)     == [to |-> "heartbeat", amount |-> amount, tag |-> "heartbeat"]
From(x, k, amount) == [from |-> x, key |-> k, amount |-> amount]

Alone == {<<>>}

M == 1000000

\* Split at, just under and just over a withdrawal cap of 15M from 40M.
ThreadOffers == { <<Kept1("self", 25 * M), To("other", 15 * M)>>,
                  <<Kept1("self", 25 * M - 1), To("other", 15 * M)>>,
                  <<Kept1("other", 25 * M)>>,
                  <<Kept1("self", 13 * M), Kept1("self", 13 * M)>>,
                  <<To("self", 30 * M)>>,
                  <<To("owner", 15 * M)>> }

Simple(k, f) == [kind |-> k, f |-> f, id |-> ZERO_HASH, amount |-> 20, horizon |-> 3, spends |-> 1, extras |-> Alone,
                 offers |-> { <<To("owner", 20)>>, <<To("other", 19)>>, <<To("self", 20)>>,
                              <<To("self", 5), To("other", 15)>>,
                              <<To("self", 4), To("other", 15)>> }]

Shipping == [salt |-> salt8, product |-> 9, fee |-> 3, deliverer |-> "owner",
             seller |-> "other", arbiter |-> "third", buyer |-> "fourth",
             pickup |-> 1, delivery |-> 2]

ContractTable ==
  [allowance |-> [kind |-> "allowance", id |-> "T", horizon |-> 5, spends |-> 3, amount |-> 40 * M, extras |-> Alone,
                  offers |-> ThreadOffers,
                  f |-> [salt |-> salt8, owner |-> "owner", beneficiary |-> "other",
                         max |-> 15 * M, cooldown |-> 1, start |-> 2]],
   free_allowance |-> [kind |-> "allowance", id |-> "T", horizon |-> 5, spends |-> 3, amount |-> 15 * M, extras |-> Alone,
                  offers |-> { <<To("other", 15 * M)>> },
                  f |-> [salt |-> salt8, owner |-> "owner", beneficiary |-> "other",
                         max |-> 15 * M, cooldown |-> 0, start |-> 0]],
   limit |-> [kind |-> "spending_limit", id |-> "T", horizon |-> 5, spends |-> 3, amount |-> 40 * M, extras |-> Alone,
              offers |-> ThreadOffers,
              f |-> [salt |-> salt8, owner |-> "owner", cooldown |-> 2, max |-> 15 * M]],
   deposit |-> [kind |-> "spending_limit", id |-> ZERO_HASH, horizon |-> 2, spends |-> 1, amount |-> 15 * M,
              extras |-> Alone, offers |-> { <<To("owner", 15 * M)>>, <<Kept1("self", 15 * M)>> },
              f |-> [salt |-> salt8, owner |-> "owner", cooldown |-> 2, max |-> 15 * M]],
   large_deposit |-> [kind |-> "spending_limit", id |-> ZERO_HASH, horizon |-> 2, spends |-> 1, amount |-> 40 * M,
              extras |-> Alone, offers |-> ThreadOffers,
              f |-> [salt |-> salt8, owner |-> "owner", cooldown |-> 2, max |-> 15 * M]],
   coin_allowance |-> Simple("coin_allowance",
              [owner |-> "owner", beneficiary |-> "other", max |-> 15, cooldown |-> 1, start |-> 2]),
   dms |-> [Simple("dms", [owner |-> "owner", heir |-> "other", inactivity |-> 2]) EXCEPT !.spends = 2],
   piggy |-> Simple("piggy_bank", [salt |-> salt8, owner |-> "owner", goal |-> 20, deadline |-> 2]),
   piggy_goal |-> Simple("piggy_bank", [salt |-> salt8, owner |-> "owner", goal |-> 20, deadline |-> 0]),
   piggy_date |-> Simple("piggy_bank", [salt |-> salt8, owner |-> "owner", goal |-> 0, deadline |-> 2]),
   piggy_free |-> Simple("piggy_bank", [salt |-> salt8, owner |-> "owner", goal |-> 0, deadline |-> 0]),
   savings |-> Simple("savings", [wallet1 |-> "owner", wallet2 |-> "other", lock |-> 2]),
   tagged |-> [Simple("tagged_vault", [owner |-> "owner"]) EXCEPT !.id = "V",
               !.offers = { <<Kept1("self", 20)>>, <<To("owner", 5), Kept1("self", 15)>> }],
   split |-> [Simple("split_vault", [owner |-> "owner"]) EXCEPT !.id = "V",
              !.offers = { <<Kept1("self", 10), Kept1("owner", 10)>>, <<Kept1("self", 20)>>,
                           <<Kept1("self", 5), To("self", 5), Kept1("self", 10)>> }],
   escrow |-> Simple("escrow", [salt |-> salt8, alice |-> "owner", bob |-> "other",
              arbiter |-> "third", alice_spk |-> P2PK("owner"), bob_spk |-> P2PK("other")]),
   timed_escrow |-> Simple("timed_escrow", [alice |-> "owner", bob |-> "other",
              alice_spk |-> P2PK("owner"), bob_spk |-> P2PK("other"), lock |-> 2]),
   shipping |-> [Simple("shipping", Shipping) EXCEPT !.amount = 12, !.spends = 2,
              !.offers = { <<To("self", 8), To("other", 4)>>, <<To("self", 7), To("other", 5)>>,
                           <<To("fourth", 12)>>, <<To("fourth", 8)>>,
                           <<To("other", 5), To("owner", 3)>>, <<To("other", 4), To("owner", 4)>>,
                           <<To("other", 3), To("owner", 3)>> }],
   oracle_v1 |-> Simple("oracle_v1", [salt |-> salt16, owner |-> "owner", lock |-> 2,
              beneficiary |-> "other", statement |-> Named("won", 32), oracle |-> "third"]),
   payjoin |-> [Simple("payjoin", [owner |-> "owner", lock |-> 2, beneficiary |-> "other",
                                   min_inputs |-> 2, min_outputs |-> 2])
              EXCEPT !.extras = { <<>>, <<From("wallet", "other", 5)>>, <<From("self", "other", 20)>> }],
   swap |-> [Simple("private_swap", [salt |-> salt16, claimer |-> "other", spk |-> P2PK("other"),
                                     owner |-> "owner", lock |-> 2])
              EXCEPT !.amount = 600 * M, !.extras = { <<>>, <<From("wallet", "other", 5)>> },
                     !.offers = { <<To("other", 100 * M)>>, <<To("other", 100 * M - 1)>>,
                                  <<To("owner", 600 * M)>>, <<To("other", 600 * M), To("other", 0)>> }],
   reveal |-> Simple("commit_reveal", [owner |-> "owner", lock |-> 2,
                                       commitment |-> Hash(PartA \o PartB)]),
   whitelist |-> Simple("whitelist", [owner |-> "owner", lock |-> 2,
                                      root |-> compute_merkle_root(Leaves), depth |-> 2]),
   crowdfund |-> [Simple("crowdfund", [salt |-> salt8, contributor |-> "other", goal |-> 700 * M,
                                       lock |-> 2, vk |-> Hash(VK), organizer |-> P2PK("owner")])
              EXCEPT !.amount = 400 * M,
                     !.extras = { <<>>, <<From("campaign", "third", 300 * M)>>,
                                  <<From("campaign", "third", 300 * M - 1)>>,
                                  <<From("wallet", "owner", 400 * M)>>,
                                  <<From("campaign", "third", 100 * M), From("campaign", "third", 200 * M)>>,
                                  <<From("campaign", "third", 100 * M), From("campaign", "owner", 200 * M),
                                    From("campaign", "third", 300 * M)>> },
                     !.offers = { <<To("owner", 200 * M)>>, <<To("owner", 200 * M - 1)>>,
                                  <<To("other", 600 * M)>>, <<To("owner", 600 * M), To("owner", 1)>> }],
   oracle |-> [kind |-> "oracle", id |-> "G", horizon |-> 0, spends |-> 2, amount |-> 5 * M,
               f |-> [price |-> 3, time |-> 1, heartbeat |-> "H", set_root |-> Named("feed", 32),
                      image |-> Named("image", 32), control |-> Named("control", 32),
                      hashfn |-> Named("sha", 1)],
               extras |-> { <<>>, <<From("heartbeat", "owner", 7)>> },
               offers |-> { <<Kept1("rolled", 4 * M), Beat(7)>>, <<Kept1("rolled", 4 * M - 1), Beat(7)>>,
                            <<Kept1("self", 4 * M), Beat(7)>>, <<Kept1("self", 4 * M)>>,
                            <<Kept1("rolled", 4 * M), Beat(6)>>, <<Kept1("rolled", 4 * M), To("owner", 1)>>,
                            <<Kept1("rolled", 4 * M), Kept1("self", 1), Beat(7)>> }],
   custom |-> [Simple("custom", [none |-> 0]) EXCEPT !.horizon = 0]]

Journal(p, t, r) == [price |-> p, time |-> t, root |-> Named(r, 32)]

MCJournals == { Journal(4, 1, "feed"), Journal(4, 2, "feed"), Journal(4, 0, "feed"),
                Journal(0, 2, "feed"), Journal(4, 2, "foreign") }

MCPieces ==
  { Ops(<<op>>) : op \in {"IF", "NOTIF", "ELSE", "ENDIF", "VERIFY"} }
  \cup { push_pubkey("k1") \o Ops(<<"CHECKSIGVERIFY">>), push_pubkey("k2") \o Ops(<<"CHECKSIG">>),
         push_int(1), push_int(0) }

MCContracts == [n \in DOMAIN ContractTable |-> ContractTable[n]]
=============================================================================
