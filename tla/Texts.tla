-------------------------------- MODULE Texts --------------------------------
(***************************************************************************)
(* The texts people copy: recovery words (wallet/mnemonic/bip39), Base58   *)
(* (wallet/key/xpub/base58.rs), Kaspa addresses (primitives/address) and   *)
(* network names (primitives/mod.rs), with their checksums and regroupings *)
(* of bits.                                                                *)
(*                                                                         *)
(* A byte string is a sequence of numbers; a character is its position in  *)
(* its alphabet, and any other character is the number 99.  The hash is an *)
(* arbitrary fixed function.  A 40-bit checksum is a sequence of eight     *)
(* five-bit symbols, since TLC's numbers end at 31 bits.                   *)
(***************************************************************************)
EXTENDS Integers, FiniteSets, SequencesExt

CONSTANTS
  MAX_BASE58_BYTES,     \* 128
  MAX_BASE58_CHARS      \* 175: digits that many bytes need

ASSUME TextsAssumption == MAX_BASE58_BYTES \in Nat \ {0} /\ MAX_BASE58_CHARS \in Nat

\* A sequence, each element computed once.
Eager(s) == SubSeq(s, 1, Len(s))

\* The first n bytes of the SHA-256 of data: any function will do.
Digest(data, n) ==
  LET mix[k \in 0 .. Len(data)] == IF k = 0 THEN 11 ELSE (mix[k - 1] * 37 + data[k] + k) % 30011
      all == mix[Len(data)]
  IN Eager([i \in 1 .. n |-> ((all * (i * i + 7)) % 30011) % 256])

\* The bits of a sequence of w-bit numbers, most significant first.
BitsOf(data, w) ==
  Eager([k \in 1 .. Len(data) * w |->
           (data[(k - 1) \div w + 1] \div 2 ^ (w - 1 - ((k - 1) % w))) % 2])

NumberOf(bits) ==
  LET value[k \in 0 .. Len(bits)] == IF k = 0 THEN 0 ELSE 2 * value[k - 1] + bits[k]
  IN value[Len(bits)]

\* Bits cut into w-bit numbers, without a shorter rest.
Regroup(bits, w) ==
  Eager([i \in 1 .. Len(bits) \div w |-> NumberOf(SubSeq(bits, (i - 1) * w + 1, i * w))])

-----------------------------------------------------------------------------
(* Recovery words: n is 12 or 24 *)

EntropyBytes(n) == (n * 4) \div 3
ChecksumBits(n) == n \div 3

sha256_first_byte(data) == Digest(data, 1)[1]

extract_bits(bits, offset, count) == NumberOf(SubSeq(bits, offset + 1, offset + count))

\* Words of the entropy followed by the first bits of its hash.
entropy_to_indices(n, entropy, checksumByte) ==
  LET kept == checksumByte - (checksumByte % 2 ^ (8 - ChecksumBits(n)))
      bits == BitsOf(Append(entropy, kept), 8)
  IN Eager([i \in 1 .. n |-> extract_bits(bits, (i - 1) * 11, 11)])

mnemonic_from_entropy(n, entropy) == entropy_to_indices(n, entropy, sha256_first_byte(entropy))

indices_to_entropy(n, indices) ==
  LET bits == BitsOf(indices, 11)
  IN [entropy |-> Regroup(SubSeq(bits, 1, 8 * EntropyBytes(n)), 8),
      checksum |-> NumberOf(SubSeq(bits, 8 * EntropyBytes(n) + 1, Len(bits)))]

\* validate_mnemonic_12 and validate_mnemonic_24
validate_mnemonic(n, indices) ==
  LET read == indices_to_entropy(n, indices)
  IN read.checksum = sha256_first_byte(read.entropy) \div 2 ^ (8 - ChecksumBits(n))

-----------------------------------------------------------------------------
(* Base58 *)

\* One division of a big-endian number by 58: the quotient and the remainder.
DivMod58(number) ==
  FoldLeft(LAMBDA a, byte : [q |-> Append(a.q, (a.r * 256 + byte) \div 58),
                             r |-> (a.r * 256 + byte) % 58],
           [q |-> <<>>, r |-> 0], number)

RECURSIVE StripZeros(_), base58_digits(_), Grow(_), MulAdd(_, _)
StripZeros(s) == IF s # <<>> /\ s[1] = 0 THEN StripZeros(Tail(s)) ELSE s

\* The base-58 digits of a number, most significant first.
base58_digits(number) ==
  LET n == StripZeros(number)
  IN IF n = <<>> THEN <<>> ELSE Append(base58_digits(DivMod58(n).q), DivMod58(n).r)

LeadingZeros(s) == Len(s) - Len(StripZeros(s))
Zeros(n) == [i \in 1 .. n |-> 0]

Refused == <<-1>>     \* no text or byte string

\* Writes data as Base58 into a buffer of `room` characters.
base58_encode(data, room) ==
  LET text == Zeros(LeadingZeros(data)) \o base58_digits(data)
  IN IF Len(data) > MAX_BASE58_BYTES \/ Len(text) > room THEN Refused ELSE text

\* A carry that runs out of the number lengthens it.
Grow(carry) == IF carry = 0 THEN <<>> ELSE Append(Grow(carry \div 256), carry % 256)

\* number * 58 + carry
MulAdd(number, carry) ==
  IF number = <<>> THEN Grow(carry)
  ELSE LET c == carry + Last(number) * 58
       IN Append(MulAdd(Front(number), c \div 256), c % 256)

mul_add_base58(number, digit) ==
  LET longer == MulAdd(number, digit)
  IN IF Len(longer) > MAX_BASE58_BYTES THEN Refused ELSE longer

base58_decode(text) ==
  LET number == FoldLeft(LAMBDA n, d : IF n = Refused \/ d >= 58 THEN Refused
                                       ELSE mul_add_base58(n, d), <<>>, text)
      zeros == LeadingZeros(text)
  IN IF text = <<>> \/ number = Refused THEN Refused
     ELSE IF zeros + Len(number) > MAX_BASE58_BYTES THEN Refused
     ELSE Zeros(zeros) \o number

sha256d(data) == Digest(Digest(data, 4), 4)

base58check_encode(data, room) ==
  IF Len(data) + 4 > MAX_BASE58_BYTES THEN Refused
  ELSE base58_encode(data \o sha256d(data), room)

base58check_decode(text) ==
  LET raw == base58_decode(text)
      payload == SubSeq(raw, 1, Len(raw) - 4)
  IN IF raw = Refused \/ Len(raw) <= 4 THEN Refused
     ELSE IF SubSeq(raw, Len(raw) - 3, Len(raw)) # sha256d(payload) THEN Refused
     ELSE payload

-----------------------------------------------------------------------------
(* Addresses *)

CHECKSUM_LEN == 8

\* The generators, as symbols.
GEN ==
  << <<19, 3, 25, 11, 25, 3, 19, 1>>, <<15, 6, 27, 22, 27, 6, 15, 2>>,
     <<30, 12, 31, 5, 31, 12, 30, 4>>, <<21, 24, 23, 10, 23, 24, 21, 8>>,
     <<3, 25, 7, 20, 7, 25, 3, 16>> >>

Xor5 == [a \in 0 .. 31, b \in 0 .. 31 |->
  NumberOf([k \in 1 .. 5 |-> (BitsOf(<<a>>, 5)[k] + BitsOf(<<b>>, 5)[k]) % 2])]

XorSymbols(s, t) == Eager([k \in DOMAIN s |-> Xor5[s[k], t[k]]])

\* What the five bits that leave the top of the checksum put back.
Feedback ==
  [top \in 0 .. 31 |->
     FoldLeft(LAMBDA c, g : IF (top \div 2 ^ (g - 1)) % 2 = 1 THEN XorSymbols(c, GEN[g]) ELSE c,
              Zeros(CHECKSUM_LEN), <<1, 2, 3, 4, 5>>)]

One == <<0, 0, 0, 0, 0, 0, 0, 1>>

\* A symbol enters the checksum and one leaves it.
Shift(c, symbol) ==
  IF c[1] = 0 THEN Append(Tail(c), symbol)
  ELSE XorSymbols(Append(Tail(c), symbol), Feedback[c[1]])

polymod(values) ==
  LET after[k \in 0 .. Len(values)] == IF k = 0 THEN One ELSE Shift(after[k - 1], values[k])
  IN after[Len(values)]

\* The low five bits of the letters of each prefix.
PREFIXES == {"kaspa", "kaspatest", "kaspadev", "kaspasim"}
PrefixSymbols(prefix) ==
  LET kaspa == <<11, 1, 19, 16, 1>>
  IN CASE prefix = "kaspa" -> kaspa
       [] prefix = "kaspatest" -> kaspa \o <<20, 5, 19, 20>>
       [] prefix = "kaspadev" -> kaspa \o <<4, 5, 22>>
       [] prefix = "kaspasim" -> kaspa \o <<19, 9, 13>>

create_checksum(prefix, payload) ==
  XorSymbols(polymod(PrefixSymbols(prefix) \o <<0>> \o payload \o Zeros(CHECKSUM_LEN)), One)

verify_checksum(prefix, values) ==
  polymod(PrefixSymbols(prefix) \o <<0>> \o values) = One

\* Regroups from-bit values into to-bit values; a rest is padded with zeros, or
\* has to be a short rest of zeros.
convert_bits(data, from, to, pad) ==
  LET bits == BitsOf(data, from)
      full == Regroup(bits, to)
      rest == SubSeq(bits, Len(full) * to + 1, Len(bits))
  IN IF \E v \in Range(data) : v >= 2 ^ from THEN Refused
     ELSE IF pad
          THEN full \o (IF rest = <<>> THEN <<>>
                        ELSE <<NumberOf(rest \o Zeros(to - Len(rest)))>>)
     ELSE IF Len(rest) >= from \/ 1 \in Range(rest) THEN Refused
     ELSE full

\* 0 for an unknown version.
payload_length_for_version(version) ==
  CASE version \in {0, 8} -> 32 [] version = 1 -> 33 [] OTHER -> 0

Address(prefix, data) == [prefix |-> prefix, data |-> data]

encode_address_bytes(payload, version, prefix) ==
  LET data == convert_bits(<<version>> \o payload, 8, 5, TRUE)
  IN Address(prefix, data \o create_checksum(prefix, data))

\* A network without a prefix, or a payload of another length, has no address.
NoAddress == Address("", <<>>)

encode_address_for_network(payload, version, network) ==
  IF network \notin PREFIXES \/ payload_length_for_version(version) # Len(payload)
  THEN NoAddress ELSE encode_address_bytes(payload, version, network)

\* The version and the payload, in one sequence.
decode_address_bytes(addr) ==
  IF addr.prefix \notin PREFIXES \/ Len(addr.data) < 9 THEN Refused
  ELSE IF \E v \in Range(addr.data) : v > 31 THEN Refused
  ELSE IF ~verify_checksum(addr.prefix, addr.data) THEN Refused
  ELSE LET read == convert_bits(SubSeq(addr.data, 1, Len(addr.data) - CHECKSUM_LEN), 5, 8, FALSE)
       IN IF read = Refused \/ read = <<>> THEN Refused
          ELSE IF payload_length_for_version(read[1]) # Len(read) - 1 THEN Refused
          ELSE read

\* The decoder of wallets: 32-byte payloads only.
decode_address(addr) ==
  LET read == decode_address_bytes(addr)
  IN IF read = Refused \/ read[1] \notin {0, 8} THEN Refused ELSE read

p2pk_script(key) == [lock |-> "p2pk", of |-> key]
p2sh_script(hash) == [lock |-> "p2sh", of |-> hash]
NoScript == [lock |-> "none", of |-> <<>>]

address_to_script_pubkey(addr) ==
  LET read == decode_address_bytes(addr)
  IN IF read = Refused \/ Len(read) # 33 THEN NoScript
     ELSE IF read[1] = 0 THEN p2pk_script(Tail(read))
     ELSE IF read[1] = 8 THEN p2sh_script(Tail(read))
     ELSE NoScript

\* An address of another network is refused, not converted.
address_to_script_pubkey_on(addr, expected) ==
  IF addr.prefix # expected THEN NoScript ELSE address_to_script_pubkey(addr)

script_address(script, prefix) ==
  CASE script.lock = "p2pk" -> encode_address_bytes(script.of, 0, prefix)
    [] script.lock = "p2sh" -> encode_address_bytes(script.of, 8, prefix)
    [] OTHER -> NoAddress

-----------------------------------------------------------------------------
(* Network names *)

\* A typed name: an optional "kaspa:", a base in lower case or not, an
\* optional dash and digits.
Name(space, lower, base, dash, digits) ==
  [space |-> space, lower |-> lower, base |-> base, dash |-> dash, digits |-> digits]

NoNetwork == [net |-> "none", suffix |-> 0]

\* NetworkId::parse
parse_network(name) ==
  LET suffix == FoldLeft(LAMBDA a, d : IF a > 65535 THEN a ELSE a * 10 + d, 0, name.digits)
  IN IF name.base \in {"mainnet", "simnet", "devnet"}
     THEN IF name.digits = <<>> /\ ~name.dash THEN [net |-> name.base, suffix |-> 0]
          ELSE NoNetwork
     ELSE IF name.base # "testnet" \/ name.digits = <<>> THEN NoNetwork
     ELSE IF \E d \in Range(name.digits) : d > 9 THEN NoNetwork
     ELSE IF suffix < 1 \/ suffix > 127 THEN NoNetwork
     ELSE [net |-> "testnet", suffix |-> suffix]

RECURSIVE DecimalDigits(_)
DecimalDigits(n) == IF n < 10 THEN <<n>> ELSE Append(DecimalDigits(n \div 10), n % 10)

canonical_name(id) ==
  IF id.net = "testnet" THEN Name(FALSE, TRUE, "testnet", TRUE, DecimalDigits(id.suffix))
  ELSE Name(FALSE, TRUE, id.net, FALSE, <<>>)

\* The serialized form: a capital letter and no dash.
debug_name(id) == [canonical_name(id) EXCEPT !.lower = FALSE, !.dash = FALSE]

NetworkPrefix(id) ==
  CASE id.net = "mainnet" -> "kaspa" [] id.net = "testnet" -> "kaspatest"
    [] id.net = "simnet" -> "kaspasim" [] id.net = "devnet" -> "kaspadev"
    [] OTHER -> "none"

\* KaspaNetwork::from_name, as the prefix of the network
from_name(name) ==
  LET plain == name = Name(FALSE, TRUE, name.base, FALSE, <<>>)
      id == parse_network(name)
  IN CASE plain /\ name.base = "testnet" -> "kaspatest"
       [] plain /\ name.base \in {"mainnet", "devnet", "simnet"} -> NetworkPrefix(id)
       [] plain /\ name.base \in PREFIXES \ {"kaspa"} -> name.base
       [] OTHER -> IF id.net = "testnet" /\ canonical_name(id) = name THEN "kaspatest" ELSE "none"
=============================================================================
