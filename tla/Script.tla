------------------------------- MODULE Script -------------------------------
(***************************************************************************)
(* Kaspa redeem scripts as the contract code of kaspa-portal sees them: how *)
(* they are written (push_int, push_data), read back (elements, script     *)
(* integers), how the signer finds the keys and selectors of a covenant    *)
(* (covenant/branch.rs), which witness a chosen path consumes              *)
(* (covenant/execution.rs), and the consensus script engine that judges    *)
(* the result.  The engine is not in the repository: it is modelled from   *)
(* what the templates and their comments rely on, and marked external.     *)
(*                                                                         *)
(* A script is a sequence of tokens: <<"IF">> is an opcode, <<"PUSH", d>>  *)
(* pushes the byte string d.  A byte string is a sequence of atoms         *)
(* <<kind, value, width>>, so concatenation, substrings at byte offsets    *)
(* and hashes of script bytes keep their meaning without bytes.            *)
(***************************************************************************)
EXTENDS Integers, Sequences, FiniteSets, SequencesExt

MAX_COVENANT_BRANCH_DEPTH == 16
MAX_COVENANT_BRANCH_KEYS  == 16

\* Options: nothing, or one value.
None    == <<>>
Some(v) == <<v>>
Or(o, default) == IF o = None THEN default ELSE o[1]

-----------------------------------------------------------------------------
(* Byte strings. *)

ScriptIntWidth(v) == CASE v = 0         -> 0
                       [] v < 128       -> 1
                       [] v < 32768     -> 2
                       [] v < 8388608   -> 3
                       [] OTHER         -> 4

\* The price ceiling 2^60 + 1 of the oracle does not fit TLC's integers.
HUGE == 2147483647

Num(v)     == << <<"int", v, IF v = HUGE THEN 8 ELSE ScriptIntWidth(v)>> >>
U64(v)     == << <<"u64", v, 8>> >>
Key(k)     == << <<"key", k, 32>> >>
Hash(b)    == << <<"hash", b, 32>> >>
Named(x, w)== << <<"named", x, w>> >>
OpByte(op) == << <<"op", op, 1>> >>
Byte(n)    == << <<"byte", n, 1>> >>
Version0   == << <<"ver", 0, 2>> >>

True  == Num(1)
False == Num(0)

\* A number is at most one integer atom; the empty string is zero.
IsNumber(b) == \/ b = <<>>
               \/ Len(b) = 1 /\ b[1][1] \in {"int", "u64"}
Number(b)   == IF b = <<>> THEN 0 ELSE b[1][2]
Truth(b)    == ~IsNumber(b) \/ Number(b) # 0

\* The byte offsets at which the atoms end, from zero.
RECURSIVE Ends(_)
Ends(b) ==
  IF Len(b) = 0 THEN <<0>>
  ELSE IF Len(b) = 1 THEN <<0, b[1][3]>>
  ELSE LET half == Len(b) \div 2
           l == Ends(SubSeq(b, 1, half))
           r == Ends(SubSeq(b, half + 1, Len(b)))
       IN l \o [i \in 1 .. Len(r) - 1 |-> Last(l) + r[i + 1]]

ByteLen(b) == Last(Ends(b))

\* The bytes from offset s up to e; offsets inside an atom have no meaning.
Cut(b, s, e) ==
  LET ends == Ends(b)
      \* empty integers have no width: the longest prefix starts, the shortest ends
      lo == { i \in 1 .. Len(ends) : ends[i] = s }
      hi == { i \in 1 .. Len(ends) : ends[i] = e }
  IN IF lo = {} \/ hi = {} \/ s > e THEN Named("torn", e - s)
     ELSE SubSeq(b, CHOOSE i \in lo : \A j \in lo : i >= j,
                    (CHOOSE i \in hi : \A j \in hi : i <= j) - 1)

-----------------------------------------------------------------------------
(* Writing scripts. *)

Ops(names) == [i \in 1 .. Len(names) |-> <<names[i]>>]

push_int(v)    == << <<"PUSH", Num(v)>> >>
push_data(d)   == << <<"PUSH", d>> >>
push_pubkey(k) == << <<"PUSH", Key(k)>> >>

IsPush(t) == t[1] = "PUSH"

\* OP_0 and OP_1 .. OP_16 are one byte; longer data needs a length header.
IsSmallInt(d) == Len(d) = 1 /\ d[1][1] = "int" /\ d[1][2] <= 16

PushHeader(n) == CASE n <= 75    -> Byte(n)
                   [] n <= 255   -> << <<"pushdata1", n, 2>> >>
                   [] OTHER      -> << <<"pushdata2", n, 3>> >>

TokenBytes(t) == CASE ~IsPush(t)       -> OpByte(t[1])
                   [] IsSmallInt(t[2]) -> << <<"opint", t[2][1][2], 1>> >>
                   [] OTHER            -> PushHeader(ByteLen(t[2])) \o t[2]

RECURSIVE ScriptBytes(_)
ScriptBytes(script) ==
  CASE Len(script) = 0 -> <<>>
    [] Len(script) = 1 -> TokenBytes(script[1])
    [] OTHER -> LET half == Len(script) \div 2
                IN ScriptBytes(SubSeq(script, 1, half))
                   \o ScriptBytes(SubSeq(script, half + 1, Len(script)))

script_hash(script) == Hash(ScriptBytes(script))

\* What OP_TX_OUTPUT_SPK pushes: the version, then the script.
P2SH(script) == Version0 \o OpByte("BLAKE2B") \o Byte(32) \o script_hash(script)
                         \o OpByte("EQUAL")
P2PK(k)      == Version0 \o Byte(32) \o Key(k) \o OpByte("CHECKSIG")

-----------------------------------------------------------------------------
(* Reading scripts. Positions are those of the code: the first element is 0. *)

\* The bytes the element at a position pushes; an opcode carries none.
ElementData(script, at) ==
  CASE at >= Len(script) -> None
    [] at < Len(script) /\ IsPush(script[at + 1]) /\ ~IsSmallInt(script[at + 1][2]) ->
         Some(script[at + 1][2])
    [] OTHER -> Some(<<>>)

\* An element read as an array of a width, as a key, as an integer.
ArrayAt(script, at, width) ==
  LET d == ElementData(script, at) IN
  IF d # None /\ ByteLen(d[1]) = width THEN d ELSE None

KeyAt(script, at) ==
  LET d == ArrayAt(script, at, 32) IN
  IF d # None /\ d[1][1][1] = "key" THEN Some(d[1][1][2]) ELSE None

element_integer(script, at) ==
  IF at < Len(script) /\ IsPush(script[at + 1]) /\ IsNumber(script[at + 1][2])
  THEN Some(Number(script[at + 1][2])) ELSE None

\* The integer pushed directly before the first use of an opcode, if any.
find_preceding_script_integer(script, op) ==
  LET uses == { i \in 1 .. Len(script) : script[i] = <<op>> } IN
  IF uses = {} THEN None
  ELSE LET first == CHOOSE i \in uses : \A j \in uses : i <= j
       IN IF first = 1 THEN None ELSE element_integer(script, first - 2)

extract_cltv_locktime(script) == find_preceding_script_integer(script, "CHECKLOCKTIMEVERIFY")
extract_csv_sequence(script)  == find_preceding_script_integer(script, "CHECKSEQUENCEVERIFY")

-----------------------------------------------------------------------------
(* covenant/branch.rs: keys, each with the selectors that reach it. *)

IsKeyCheck(script, i) ==
  /\ i < Len(script)
  /\ IsPush(script[i]) /\ ByteLen(script[i][2]) = 32
  /\ script[i + 1] \in { <<"CHECKSIG">>, <<"CHECKSIGVERIFY">> }

Fresh == [err |-> "", keys |-> <<>>, frames |-> <<>>, next |-> 0, decision |-> {}, true |-> {}]

EnterBranch(p, op) ==
  IF p.next >= MAX_COVENANT_BRANCH_DEPTH THEN [p EXCEPT !.err = "BranchDepthExceeded"]
  ELSE [p EXCEPT !.next     = @ + 1,
                 !.frames   = Append(@, [bit |-> p.next, else |-> FALSE]),
                 !.decision = @ \cup {p.next},
                 !.true     = IF op = "IF" THEN @ \cup {p.next} ELSE @]

EnterElse(p) ==
  IF p.frames = <<>> \/ Last(p.frames).else THEN [p EXCEPT !.err = "MalformedScript"]
  ELSE LET bit == Last(p.frames).bit
       IN [p EXCEPT !.frames[Len(p.frames)].else = TRUE,
                    !.true = IF bit \in @ THEN @ \ {bit} ELSE @ \cup {bit}]

LeaveBranch(p) ==
  IF p.frames = <<>> THEN [p EXCEPT !.err = "MalformedScript"]
  ELSE LET bit == Last(p.frames).bit
       IN [p EXCEPT !.frames = Front(@), !.decision = @ \ {bit}, !.true = @ \ {bit}]

AddKey(p, key) ==
  LET item == [key |-> key, decision |-> p.decision, true |-> p.true]
  IN CASE item \in Range(p.keys) -> [p EXCEPT !.err = "AmbiguousKey"]
       [] Len(p.keys) >= MAX_COVENANT_BRANCH_KEYS -> [p EXCEPT !.err = "TooManyKeys"]
       [] OTHER -> [p EXCEPT !.keys = Append(@, item)]

RECURSIVE ResolveFrom(_, _, _)
ResolveFrom(script, i, p) ==
  IF p.err # "" \/ i > Len(script) THEN p
  ELSE ResolveFrom(script, i + 1,
         CASE script[i][1] \in {"IF", "NOTIF"} -> EnterBranch(p, script[i][1])
           [] script[i][1] = "ELSE"            -> EnterElse(p)
           [] script[i][1] = "ENDIF"           -> LeaveBranch(p)
           [] IsKeyCheck(script, i)            -> AddKey(p, script[i][2][1][2])
           [] OTHER                            -> p)

resolve_covenant_branches(script) ==
  LET p == ResolveFrom(script, 1, Fresh)
  IN [err      |-> IF p.err = "" /\ p.frames # <<>> THEN "MalformedScript" ELSE p.err,
      keys     |-> p.keys,
      selector |-> 0 .. (p.next - 1)]

matches_selectors(item, mask, true) ==
  /\ item.decision \subseteq mask
  /\ true \cap item.decision = item.true \cap item.decision

\* Positions are 0-based; several matches are ambiguous, none is KeyNotFound.
position_for_key_with_selectors(res, key, mask, true) ==
  LET found == { n \in 1 .. Len(res.keys) :
                   res.keys[n].key = key /\ matches_selectors(res.keys[n], mask, true) }
  IN CASE Cardinality(found) = 1 -> (CHOOSE n \in found : TRUE) - 1
       [] found = {}             -> -1
       [] OTHER                  -> -2

truth_reaching_key(res, position) ==
  res.keys[position + 1].true \cap res.keys[position + 1].decision

-----------------------------------------------------------------------------
(* covenant/execution.rs: the witness one fully selected path consumes. *)

\* Parsed elements: [kind, ...]; a branch holds its bit and its two arms.
PushNode        == [kind |-> "push"]
OpNode(op)      == [kind |-> "op", op |-> op]
KeyNode(n, ver) == [kind |-> "key", position |-> n, verify |-> ver]
BranchNode(b, notif, then, other) ==
  [kind |-> "branch", bit |-> b, notif |-> notif, then |-> then, other |-> other]

\* Add a node to the arm being read: the innermost open branch, or the program.
AddNode(q, node) ==
  IF q.open = <<>> THEN [q EXCEPT !.root = Append(@, node)]
  ELSE IF Last(q.open).else THEN [q EXCEPT !.open[Len(q.open)].other = Append(@, node)]
  ELSE [q EXCEPT !.open[Len(q.open)].then = Append(@, node)]

RECURSIVE ParseFrom(_, _, _)
ParseFrom(script, i, q) ==
  LET op  == script[i][1]
      top == Last(q.open)
  IN IF q.err # "" \/ i > Len(script) THEN q
     ELSE CASE op \in {"IF", "NOTIF"} ->
                 IF q.bits >= MAX_COVENANT_BRANCH_DEPTH THEN [q EXCEPT !.err = "BranchDepthExceeded"]
                 ELSE ParseFrom(script, i + 1,
                        [q EXCEPT !.bits = @ + 1,
                                  !.open = Append(@, [bit |-> q.bits, notif |-> op = "NOTIF",
                                                      then |-> <<>>, other |-> <<>>,
                                                      else |-> FALSE])])
            [] op = "ELSE" ->
                 IF q.open = <<>> \/ top.else THEN [q EXCEPT !.err = "MalformedScript"]
                 ELSE ParseFrom(script, i + 1, [q EXCEPT !.open[Len(q.open)].else = TRUE])
            [] op = "ENDIF" ->
                 IF q.open = <<>> THEN [q EXCEPT !.err = "MalformedScript"]
                 ELSE ParseFrom(script, i + 1,
                        AddNode([q EXCEPT !.open = Front(@)],
                                BranchNode(top.bit, top.notif, top.then, top.other)))
            [] IsKeyCheck(script, i) ->
                 IF q.keys >= MAX_COVENANT_BRANCH_KEYS THEN [q EXCEPT !.err = "TooManyKeys"]
                 ELSE ParseFrom(script, i + 2,
                        [AddNode(q, KeyNode(q.keys, script[i + 1] = <<"CHECKSIGVERIFY">>))
                           EXCEPT !.keys = @ + 1])
            [] IsPush(script[i]) -> ParseFrom(script, i + 1, AddNode(q, PushNode))
            [] OTHER -> ParseFrom(script, i + 1, AddNode(q, OpNode(op)))

ParseScript(script) ==
  LET q == ParseFrom(script, 1, [err |-> "", open |-> <<>>, root |-> <<>>, bits |-> 0, keys |-> 0])
  IN [q EXCEPT !.err = IF @ = "" /\ q.open # <<>> THEN "MalformedScript" ELSE @]

SIGNATURE_CHECKS == {"CHECKSIG", "CHECKSIGVERIFY", "CHECKSIGECDSA", "CHECKMULTISIG",
                     "CHECKMULTISIGVERIFY", "CHECKSIGFROMSTACK"}

\* <<pops, pushes>> of the opcodes whose effect is fixed.
stack_effect(op) ==
  CASE op = "NOP" -> <<0, 0>>
    [] op \in {"VERIFY", "DROP", "CHECKLOCKTIMEVERIFY", "CHECKSEQUENCEVERIFY"} -> <<1, 0>>
    [] op \in {"DUP", "SIZE"} -> <<1, 2>>
    [] op = "2DROP" -> <<2, 0>>
    [] op = "2DUP"  -> <<2, 4>>
    [] op = "NIP"   -> <<2, 1>>
    [] op \in {"OVER", "TUCK"} -> <<2, 3>>
    [] op = "ROT"   -> <<3, 3>>
    [] op = "SWAP"  -> <<2, 2>>
    [] op \in {"SUBSTR", "WITHIN", "TX_INPUT_SCRIPT_SIG_SUBSTR"} -> <<3, 1>>
    [] op \in {"EQUALVERIFY", "NUMEQUALVERIFY"} -> <<2, 0>>
    [] op \in {"NOT", "SHA256", "BLAKE2B"} -> <<1, 1>>
    [] op \in {"CAT", "EQUAL", "ADD", "SUB", "LESSTHANOREQUAL", "GREATERTHANOREQUAL"} -> <<2, 1>>
    [] op \in {"TX_INPUT_COUNT", "TX_OUTPUT_COUNT", "TX_INPUT_INDEX"} -> <<0, 1>>
    [] op \in {"TX_INPUT_AMOUNT", "TX_INPUT_SPK", "TX_OUTPUT_AMOUNT", "TX_OUTPUT_SPK",
               "TX_INPUT_SCRIPT_SIG_LEN", "AUTH_OUTPUT_COUNT", "INPUT_COVENANT_ID",
               "COV_INPUT_COUNT", "COV_OUTPUT_COUNT", "OUTPUT_COVENANT_ID"} -> <<1, 1>>
    [] op = "COV_OUTPUT_IDX" -> <<2, 1>>
    [] OTHER -> None

opcode_error(op) == IF op \in SIGNATURE_CHECKS THEN "UnsupportedSignatureCheck"
                    ELSE "UnsupportedOpcode"

Larger(a, b) == IF a > b THEN a ELSE b

\* The only member of a set: names a value that is used several times.
The(S) == CHOOSE x \in S : TRUE

RECURSIVE pure_effect(_)
\* Both arms of a computed branch must have the same net effect.
joined_effect(a, b) ==
  CASE a.err # "" -> a
    [] b.err # "" -> b
    [] a.delta # b.delta -> [a EXCEPT !.err = "DataDependentBranch"]
    [] OTHER -> [a EXCEPT !.need = Larger(@, b.need)]

arms_effect(then, other) ==
  The({ joined_effect(a, b) : a \in {pure_effect(then)}, b \in {pure_effect(other)} })

\* Items a block needs below it (need) and its net effect (delta).
pure_effect(nodes) ==
  LET at[n \in 0 .. Len(nodes)] ==
        IF n = 0 THEN [err |-> "", need |-> 0, delta |-> 0]
        ELSE LET e    == at[n - 1]
                 node == nodes[n]
                 moved(pops, pushes) ==
                   [e EXCEPT !.need  = Larger(@, pops - e.delta),
                             !.delta = @ - pops + pushes]
             IN IF e.err # "" THEN e
                ELSE CASE node.kind = "push" -> moved(0, 1)
                       [] node.kind = "key"  -> [e EXCEPT !.err = "DataDependentBranch"]
                       [] node.kind = "op"   ->
                            IF stack_effect(node.op) = None
                            THEN [e EXCEPT !.err = opcode_error(node.op)]
                            ELSE moved(stack_effect(node.op)[1], stack_effect(node.op)[2])
                       [] node.kind = "branch" ->
                            The({ [err   |-> arms.err,
                                   need  |-> Larger(e.need, arms.need - (e.delta - 1)),
                                   delta |-> e.delta - 1 + arms.delta] :
                                  arms \in {arms_effect(node.then, node.other)} })
  IN at[Len(nodes)]

RECURSIVE holds_key_check(_)
holds_key_check(nodes) ==
  \E n \in 1 .. Len(nodes) :
     \/ nodes[n].kind = "key"
     \/ nodes[n].kind = "branch"
        /\ (holds_key_check(nodes[n].then) \/ holds_key_check(nodes[n].other))

Selector(v)  == <<"selector", v>>
Signature(n) == <<"signature", n>>

\* Walk the nodes with the selectors in true set: w.produced counts the items
\* the script itself left on the stack, w.items the witness items consumed.
RECURSIVE Walk(_, _, _)
WalkBranch(node, true, w) ==
  LET value == node.bit \in true
      arm   == IF value # node.notif THEN node.then ELSE node.other
      below == [w EXCEPT !.produced = @ - 1]
  IN CASE w.produced = 0 ->
            Walk(arm, true, [w EXCEPT !.items = Append(@, Selector(value))])
       [] w.produced > 0 /\ (holds_key_check(node.then) \/ holds_key_check(node.other)) ->
            Walk(arm, true, below)
       [] OTHER ->
            The({ CASE arms.err # "" -> [w EXCEPT !.err = arms.err]
                    [] arms.err = "" /\ below.produced < arms.need ->
                         [w EXCEPT !.err = "WitnessDataRequired"]
                    [] OTHER -> [below EXCEPT !.produced = @ + arms.delta] :
                  arms \in {arms_effect(node.then, node.other)} })

WalkNode(node, true, w) ==
  CASE node.kind = "push" -> [w EXCEPT !.produced = @ + 1]
    [] node.kind = "key" ->
         IF w.produced # 0 THEN [w EXCEPT !.err = "UnsupportedSignatureCheck"]
         ELSE [w EXCEPT !.items = Append(@, Signature(node.position)),
                        !.produced = IF node.verify THEN 0 ELSE 1]
    [] node.kind = "op" ->
         LET e == stack_effect(node.op) IN
         CASE e = None -> [w EXCEPT !.err = opcode_error(node.op)]
           [] e # None /\ w.produced < e[1] -> [w EXCEPT !.err = "WitnessDataRequired"]
           [] OTHER -> [w EXCEPT !.produced = @ - e[1] + e[2]]
    [] node.kind = "branch" -> WalkBranch(node, true, w)

Walk(nodes, true, w) ==
  IF nodes = <<>> \/ w.err # "" THEN w
  ELSE Walk(Tail(nodes), true, WalkNode(Head(nodes), true, w))

walked(q, mask, true) ==
  CASE q.err # "" -> [err |-> q.err, items |-> <<>>, produced |-> 0]
    [] q.err = "" /\ (mask # 0 .. (q.bits - 1) \/ ~(true \subseteq mask)) ->
         [err |-> "IncompleteSelectors", items |-> <<>>, produced |-> 0]
    [] OTHER -> Walk(q.root, true, [err |-> "", items |-> <<>>, produced |-> 0])

trace_witness(script, mask, true) ==
  The({ walked(q, mask, true) : q \in {ParseScript(script)} })

-----------------------------------------------------------------------------
(* The consensus script engine (external), as far as the templates use it.  *)
(* A stack has its top first.  cx is the transaction and the input judged:  *)
(* inputs [spk, amount, id, sequence, sig], outputs [spk, amount, id], lock.*)

ZERO_HASH == "zero"
Id(c)     == Named(c, 32)

\* A signature by a key, and one by an oracle's key over a message.
TxSig(k)     == << <<"sig", k, 65>> >>
MsgSig(k, m) == << <<"msgsig", <<k, m>>, 64>> >>
Proof(x)     == << <<"proof", x, 256>> >>

SignedBy(sig, key) == Len(key) = 1 /\ key[1][1] = "key" /\ sig = TxSig(key[1][2])

EngineArity(op) ==
  CASE op \in {"NOP", "TX_INPUT_COUNT", "TX_OUTPUT_COUNT", "TX_INPUT_INDEX"} -> 0
    [] op \in {"VERIFY", "DROP", "DUP", "NOT", "SHA256", "BLAKE2B", "PICK", "IF", "NOTIF",
               "CHECKLOCKTIMEVERIFY", "CHECKSEQUENCEVERIFY", "TX_INPUT_AMOUNT",
               "TX_INPUT_SPK", "TX_OUTPUT_AMOUNT", "TX_OUTPUT_SPK",
               "TX_INPUT_SCRIPT_SIG_LEN", "AUTH_OUTPUT_COUNT", "INPUT_COVENANT_ID",
               "COV_INPUT_COUNT", "COV_OUTPUT_COUNT", "OUTPUT_COVENANT_ID"} -> 1
    [] op \in {"SUBSTR", "WITHIN", "TX_INPUT_SCRIPT_SIG_SUBSTR", "CHECKSIGFROMSTACK"} -> 3
    [] op = "ZK_PRECOMPILE" -> 5
    [] OTHER -> 2

Bool(b) == IF b THEN True ELSE False

Tagged(seq, c) == { n \in 1 .. Len(seq) : seq[n].id = c /\ c # ZERO_HASH }

\* The n-th (0-based) output of a covenant, as an output index.
CovOutputIdx(outs, c, n) ==
  CHOOSE i \in Tagged(outs, c) : Cardinality({ j \in Tagged(outs, c) : j < i }) = n

Drop(s, n) == SubSeq(s, n + 1, Len(s))

Good(stack) == [why |-> "", stack |-> stack]
Bad(why)    == [why |-> why, stack |-> <<>>]
Check(b, stack) == IF b THEN Good(stack) ELSE Bad("verify")

InRange(seq, b) == Number(b) \in 0 .. Len(seq) - 1

\* Groth16: tag, verifying key, proof, 1, public input.  RISC Zero: tag, hash
\* function, control id, image id, journal hash, seal and three claim items.
Precompile(s) ==
  IF s[1] = Named("groth16", 1)
  THEN Good(<<Bool(s[3] = Proof(s[2]))>> \o Drop(s, 5))
  ELSE IF Len(s) < 9 THEN Bad("underflow")
  ELSE Good(<<Bool(s[6] = Proof(<<s[4], s[5]>>))>> \o Drop(s, 9))

Apply(op, s, cx) ==
  LET a == s[1]  b == s[2]
      one(v) == Good(<<v>> \o Drop(s, 1))
      two(v) == Good(<<v>> \o Drop(s, 2))
      sig(i) == cx.ins[Number(i) + 1].sig
  IN CASE op = "NOP"    -> Good(s)
       [] op = "DROP"   -> Good(Drop(s, 1))
       [] op = "DUP"    -> Good(<<a>> \o s)
       [] op = "SWAP"   -> Good(<<b, a>> \o Drop(s, 2))
       [] op = "PICK"   -> IF Number(a) + 2 > Len(s) THEN Bad("underflow")
                           ELSE one(s[Number(a) + 2])
       [] op = "VERIFY" -> Check(Truth(a), Drop(s, 1))
       [] op = "NOT"    -> one(Bool(Number(a) = 0))
       [] op = "CAT"    -> two(b \o a)
       [] op = "ADD"    -> two(Num(Number(b) + Number(a)))
       [] op = "SUB"    -> two(Num(Number(b) - Number(a)))
       [] op = "EQUAL"  -> two(Bool(a = b))
       [] op = "EQUALVERIFY"        -> Check(a = b, Drop(s, 2))
       [] op = "NUMEQUALVERIFY"     -> Check(Number(a) = Number(b), Drop(s, 2))
       [] op = "LESSTHANOREQUAL"    -> two(Bool(Number(b) <= Number(a)))
       [] op = "GREATERTHANOREQUAL" -> two(Bool(Number(b) >= Number(a)))
       [] op = "WITHIN" -> Good(<<Bool(Number(b) <= Number(s[3]) /\ Number(s[3]) < Number(a))>>
                                \o Drop(s, 3))
       [] op = "SUBSTR" -> Good(<<Cut(s[3], Number(b), Number(a))>> \o Drop(s, 3))
       [] op \in {"BLAKE2B", "SHA256"} -> one(Hash(a))
       [] op = "CHECKLOCKTIMEVERIFY" -> Check(Number(a) <= cx.lock, Drop(s, 1))
       [] op = "CHECKSEQUENCEVERIFY" -> Check(Number(a) <= cx.ins[cx.index + 1].sequence, Drop(s, 1))
       [] op = "CHECKSIG"       -> two(Bool(SignedBy(b, a)))
       [] op = "CHECKSIGVERIFY" -> Check(SignedBy(b, a), Drop(s, 2))
       [] op = "CHECKSIGFROMSTACK" ->
            Good(<<Bool(s[3] = MsgSig(a[1][2], b))>> \o Drop(s, 3))
       [] op = "ZK_PRECOMPILE" -> Precompile(s)
       [] op = "TX_INPUT_COUNT"  -> Good(<<Num(Len(cx.ins))>> \o s)
       [] op = "TX_OUTPUT_COUNT" -> Good(<<Num(Len(cx.outs))>> \o s)
       [] op = "TX_INPUT_INDEX"  -> Good(<<Num(cx.index)>> \o s)
       [] op = "TX_INPUT_AMOUNT" -> IF ~InRange(cx.ins, a) THEN Bad("index")
                                    ELSE one(Num(cx.ins[Number(a) + 1].amount))
       [] op = "TX_INPUT_SPK"    -> IF ~InRange(cx.ins, a) THEN Bad("index")
                                    ELSE one(cx.ins[Number(a) + 1].spk)
       [] op = "TX_OUTPUT_AMOUNT" -> IF ~InRange(cx.outs, a) THEN Bad("index")
                                     ELSE one(Num(cx.outs[Number(a) + 1].amount))
       [] op = "TX_OUTPUT_SPK"   -> IF ~InRange(cx.outs, a) THEN Bad("index")
                                    ELSE one(cx.outs[Number(a) + 1].spk)
       [] op = "TX_INPUT_SCRIPT_SIG_LEN" -> one(Num(ByteLen(sig(a))))
       [] op = "TX_INPUT_SCRIPT_SIG_SUBSTR" ->
            Good(<<Cut(sig(s[3]), Number(b), Number(a))>> \o Drop(s, 3))
       [] op = "INPUT_COVENANT_ID"  -> one(Id(cx.ins[Number(a) + 1].id))
       [] op = "OUTPUT_COVENANT_ID" -> IF ~InRange(cx.outs, a) THEN Bad("index")
                                       ELSE one(Id(cx.outs[Number(a) + 1].id))
       [] op = "COV_INPUT_COUNT"  -> one(Num(Cardinality(Tagged(cx.ins, a[1][2]))))
       [] op = "COV_OUTPUT_COUNT" -> one(Num(Cardinality(Tagged(cx.outs, a[1][2]))))
       [] op = "AUTH_OUTPUT_COUNT" ->
            one(Num(Cardinality({ n \in 1 .. Len(cx.outs) :
                                    cx.outs[n].id = cx.ins[Number(a) + 1].id
                                    /\ cx.outs[n].by = Number(a) })))
       [] op = "COV_OUTPUT_IDX" ->
            IF Number(a) >= Cardinality(Tagged(cx.outs, b[1][2])) THEN Bad("index")
            ELSE two(Num(CovOutputIdx(cx.outs, b[1][2], Number(a)) - 1))
       [] OTHER -> Bad("opcode")

\* conds: for every open branch, whether its arm runs ("run"), its other arm
\* ran or will ("skip"), or it sits inside a skipped arm ("dead").
Flip(c) == CASE c = "run" -> "skip" [] c = "skip" -> "run" [] OTHER -> "dead"

\* chosen: the item every executed branch popped, by the branch's token.  at is
\* where the execution stands: the stack, or why it failed.
RECURSIVE ExecFrom(_, _, _, _, _, _)
ExecFrom(script, i, at, conds, chosen, cx) ==
  LET t     == script[i]
      op    == t[1]
      stack == at.stack
      live  == conds = <<>> \/ Head(conds) = "run"
      end(r) == [why |-> r.why, stack |-> r.stack, chosen |-> chosen]
  IN CASE at.why # "" -> end(at)
       [] at.why = "" /\ i > Len(script) ->
            end(IF conds = <<>> THEN at ELSE Bad("unbalanced"))
       [] at.why = "" /\ i <= Len(script) /\ op \in {"ELSE", "ENDIF"} ->
            IF conds = <<>> THEN end(Bad("unbalanced"))
            ELSE ExecFrom(script, i + 1, at,
                          (IF op = "ELSE" THEN <<Flip(Head(conds))>> ELSE <<>>) \o Tail(conds),
                          chosen, cx)
       [] at.why = "" /\ i <= Len(script) /\ ~live ->
            ExecFrom(script, i + 1, at,
                     IF op \in {"IF", "NOTIF"} THEN <<"dead">> \o conds ELSE conds, chosen, cx)
       [] at.why = "" /\ i <= Len(script) /\ live /\ IsPush(t) ->
            ExecFrom(script, i + 1, Good(<<t[2]>> \o stack), conds, chosen, cx)
       [] at.why = "" /\ i <= Len(script) /\ live /\ ~IsPush(t) /\ Len(stack) < EngineArity(op) ->
            end(Bad("underflow"))
       [] at.why = "" /\ i <= Len(script) /\ live /\ op \in {"IF", "NOTIF"} /\ stack # <<>> ->
            ExecFrom(script, i + 1, Good(Tail(stack)),
                     <<IF Truth(Head(stack)) = (op = "IF") THEN "run" ELSE "skip">> \o conds,
                     chosen \cup {<<i, Head(stack)>>}, cx)
       [] OTHER -> ExecFrom(script, i + 1, Apply(op, stack, cx), conds, chosen, cx)

\* The witness as the spender pushes it: the first item consumed is on top.
Exec(script, witness, cx) == ExecFrom(script, 1, Good(witness), <<>>, {}, cx)

\* A script accepts when it leaves exactly one true item.
Succeeds(end) == end.why = "" /\ Len(end.stack) = 1 /\ Truth(end.stack[1])

Accepts(script, witness, cx) == Succeeds(Exec(script, witness, cx))

=============================================================================
