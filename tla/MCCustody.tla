------------------------------ MODULE MCCustody ------------------------------
(* Instances of Custody for TLC. *)
EXTENDS Custody

-----------------------------------------------------------------------------
(* Scenes of Wallet *)

Scene(type, m, who, held, orders, makers, funds, shown) ==
  [kind |-> type, m |-> m, who |-> who, held |-> held, orders |-> orders, makers |-> makers,
   funds |-> funds, shown |-> shown]

\* The first index, the last one the searches reach and the first they miss.
Edges == {0, 3, 4}

Turned == {<<1, 2, 3>>, <<3, 1, 2>>}

MCScenes ==
  { Scene("account", 1, <<1>>, <<<<0, 1>>>>, {}, {}, 2, Edges),
    Scene("account", 1, <<4>>, <<<<4>>>>, {}, {}, 1, Edges),
    Scene("kip22", 1, <<1>>, <<<<2, 1>>>>, {}, {}, 2, Edges),
    Scene("multi", 2, <<1, 2, 3>>, <<<<1>>, <<0, 2, 3>>>>, Turned, {}, 1, {0}),
    Scene("multi_hd", 2, <<1, 2, 3>>, <<<<1>>, <<3>>>>, Turned, {1}, 1, Edges),
    Scene("multi_hd45", 2, <<1, 2, 3>>, <<<<1>>, <<2, 3>>>>, Turned, {1}, 2, {0, 3}) }

\* The account of seed 4 has no third change key: no extension of that chain succeeds.
MCUnderivable ==
  { [seed |-> 4, path |-> <<1044, 1011, 1000, 1, 2>>] }

-----------------------------------------------------------------------------
(* Rooms of Vault *)

Slip(slip, at, as) == [kind |-> slip, at |-> at, as |-> as]
Exact == Slip("none", 1, 0)

Entropy(n, k) == [i \in 1 .. EntropyBytes(n) |-> (k * i * i + 5 * i) % 256]

WordRoom(n, entropy, passes) ==
  [task |-> "words", n |-> n, entropy |-> entropy, passes |-> passes, seeds |-> 2,
   budgets |-> {0, 1, 2, U16_MAX}, children |-> {0, HARDENED_BIT - 1, HARDENED_BIT},
   slips |-> {Exact, Slip("swap", 1, 0), Slip("change", 2, 2048)}
               \cup { Slip("change", n, v) : v \in 0 .. 15 }]

Blank == [i \in 1 .. 16 |-> 0]
Full == [i \in 1 .. 32 |-> 255]

BackupRoom ==
  [task |-> "backup", purposes |-> {"portable", "transport"},
   passwords |-> {<<>>, <<1>>, <<1, 2>>, <<1, 2, 3>>}, bytes |-> {0, 1, 2, 64, 255}]

W(day, h, m, hh, mm) == [form |-> "window", day |-> day, from |-> <<h, m>>, till |-> <<hh, mm>>]
Odd(form) == [W("MON", 0, 0, 0, 1) EXCEPT !.form = form]
Typed(digits, parts) == [digits |-> digits, parts |-> parts]

ClockRoom(y, m, d, weekday, unix, typed) ==
  [task |-> "clock", civil |-> [year |-> y, month |-> m, day |-> d, weekday |-> weekday],
   unix |-> unix, minutes |-> <<0, 540, 600, 1438, 1439>>, days |-> 3,
   backs |-> {0, 1, MINUTES_PER_DAY}, typed |-> typed]

Hours == <<W("TUE", 9, 0, 10, 0), W("MON", 23, 0, 23, 59), W("TUE", 10, 0, 10, 1)>>

ClockRooms ==
  { ClockRoom(2000, 2, 28, 0, 15861600,
      { Typed(<<2, 0, 0, 0, 0, 2, 2, 9, 0, 9, 0, 0>>, <<>>),
        Typed(<<2, 0, 0, 0, 0, 2, 3, 0, 0, 9, 0, 0>>, <<>>),
        Typed(<<>>, Hours),
        Typed(<<2, 0, 0, 0, 0, 2, 2, 9, 0, 9, 0, 1>>, Hours),
        Typed(<<>>, <<W("TUE", 9, 0, 10, 0), W("MON", 9, 0, 10, 0), W("TUE", 9, 30, 9, 40)>>),
        Typed(<<>>, Hours \o Hours), Typed(<<>>, <<Odd("blank")>>), Typed(<<>>, <<Odd("bad")>>),
        Typed(<<>>, <<W("MON", 9, 0, 24, 0)>>), Typed(<<BAD>>, <<>>) }),
    ClockRoom(2004, 12, 30, 3, 18406080, { Typed(<<2, 0, 0, 5, 0, 1, 0, 1, 0, 0, 0, 0>>, <<>>) }),
    ClockRoom(2099, 2, 27, 4, 67930560, { Typed(<<>>, <<W("SAT", 9, 0, 10, 0)>>) }),
    ClockRoom(2099, 12, 30, 2, 68371200, { Typed(<<>>, <<W("FRI", 0, 0, 23, 59)>>) }) }

TextRoom ==
  [task |-> "texts", versions |-> {0, 1, 8}, payloads |-> {[i \in 1 .. 32 |-> (i * 7) % 256],
                                                           [i \in 1 .. 33 |-> 255 - i]},
   data |-> {<<0>>, <<0, 0, 5>>, <<255, 255, 255, 255>>, <<7>>, <<1, 2, 3, 4, 5>>},
   spares |-> {6, MAX_BASE58_CHARS},
   names |-> { Name(space, lower, base, dash, digits) :
                 space \in BOOLEAN, lower \in BOOLEAN, dash \in BOOLEAN,
                 base \in {"mainnet", "testnet", "kaspatest", "kaspa"},
                 digits \in {<<>>, <<0>>, <<1, 0>>, <<0, 7>>, <<1, 2, 7>>, <<1, 2, 8>>, <<99>>,
                             <<6, 5, 5, 3, 7>>} },
   slips |-> {Exact} \cup { Slip(slip, at, as) : slip \in {"swap", "drop", "double"},
                                                 at \in {1, 5, 30, 52, 53, 60, 61}, as \in {0} }
               \cup { Slip("change", at, as) : at \in {1, 2, 6, 52, 53, 54, 61},
                                               as \in {0, 1, 17, 31, 57, 99} }]

MCRooms ==
  { WordRoom(12, Blank, {<<>>}), WordRoom(12, Entropy(12, 3), {<<>>, <<4>>}),
    WordRoom(24, Full, {<<>>}), WordRoom(24, Entropy(24, 7), {<<1, 2>>}), BackupRoom, TextRoom,
    [task |-> "wallet"], [task |-> "plan"] }
  \cup ClockRooms

-----------------------------------------------------------------------------
(* Wallets of Builder.  Amounts are in units of 10 sompi: 1 KAS is 10^7. *)

Of(k, amounts) == [kind |-> k, amounts |-> amounts]

\* One large coin; three of different size; equal coins at the edge of dust;
\* more coins than one transaction takes; coins below dust.
Standard == {<<50000000>>, <<30000000, 2500000, 21000000>>, <<1500000, 1500000, 1500000>>,
             [i \in 1 .. 9 |-> 1200000], <<900000, 1000000, 800000, 1100000>>}

AllWallets == {Of("standard", s) : s \in Standard}
  \cup {Of(k, s) : k \in {"kip22", "static", "hd45"},
                  s \in {<<30000000, 2500000, 21000000>>, [i \in 1 .. 4 |-> 1200000]}}
  \cup {Of("thread", <<a>>) : a \in {100000000, 1500000, 500000}}

\* The smallest payment that is not dust, one that a single coin just covers
\* (leaving dust, then change at the edge of dust), one whose remainder is twice
\* the fee it needs, where the fee search crawls, one that needs several coins,
\* and one with which no fee can be paid.
SomeAmounts == {1000000, 2400000, 28500000, 47901382, 48600000, 49000500, U64}

SomeRates == {Failed, 10, 30}

SomePicks == {<<>>, <<1>>, <<2, 2>>, <<3, 1, 2>>}
=============================================================================
