-------------------------------- MODULE Vault --------------------------------
(***************************************************************************)
(* What a signing device keeps and what its owner copies by hand: recovery *)
(* words and the seed derived from them step by step (wallet/mnemonic),    *)
(* child mnemonics (wallet/derivation/bip85.rs), password-protected        *)
(* backups (crypto/kdf/password.rs), the signing policy with its clock     *)
(* (transaction/policy/time.rs) and the texts of Texts.                    *)
(*                                                                         *)
(* The firmware around this library is external: it stores words, backups  *)
(* and the policy, reads a clock that may be set back but never runs       *)
(* ahead, and raises the policy's floor to the times it has read.          *)
(***************************************************************************)
EXTENDS Keys, Calendar, Texts

CONSTANTS
  BIP39_PBKDF2_ROUNDS,  \* 2048
  U16_MAX,              \* 65535, where saturating_add stops
  BLOCK_SIZE,           \* 128: a longer HMAC key is hashed first
  SALT_ROOM,            \* 256: room for "mnemonic" and the passphrase
  BIP85_PURPOSE,        \* 83696968
  MAX_PASSWORD_SIZE,    \* 128
  Rooms                 \* what the owner does, one record for each way to begin

ASSUME VaultAssumption ==
  /\ BIP39_PBKDF2_ROUNDS \in 1 .. U16_MAX /\ SALT_ROOM \in Nat \ {0}
  /\ BLOCK_SIZE \in Nat \ {0} /\ MAX_PASSWORD_SIZE \in Nat
  /\ BIP85_PURPOSE \in 0 .. HARDENED_BIT - 1

VARIABLES
  room,     \* the member of Rooms
  words,    \* the words on paper: [n, indices, from]
  job,      \* the SeedDerivation in progress, or NoJob
  seeds,    \* the seeds delivered: [indices, pass, seed, left]
  backup,   \* the last backup written and how reading it went
  clock,    \* real time, the device's clock, the policy and its last decision
  desk      \* the last text written, how it was copied and what was read

vaultVars == <<room, words, job, seeds, backup, clock, desk>>

-----------------------------------------------------------------------------
(* HMAC and PBKDF2 *)

HASH == 32

\* Xor with a pad byte is some injective change of the key.
hmac_sha512(key, message) ==
  LET short == IF Len(key) > BLOCK_SIZE THEN Digest(key, HASH) ELSE key
      Padded(pad) == [i \in 1 .. BLOCK_SIZE |-> (IF i <= Len(short) THEN short[i] ELSE 0) + pad]
  IN Digest(Padded(92) \o Digest(Padded(54) \o message, HASH), HASH)

XorBytes(a, b) ==
  LET x == BitsOf(a, 8)
      y == BitsOf(b, 8)
  IN Regroup([k \in DOMAIN x |-> (x[k] + y[k]) % 2], 8)

\* The words with their separators: one number for each word.
serialize_mnemonic(indices) == indices

\* "mnemonic" is one number.  A longer passphrase overruns the buffer.
SaltFits(pass) == 1 + Len(pass) <= SALT_ROOM
build_salt(pass) == <<109>> \o pass

\* Block index 1 follows the salt.
FirstBlock(phrase, salt) == hmac_sha512(phrase, Append(salt, 1))

pbkdf2_hmac_sha512(phrase, salt, rounds) ==
  LET first == FirstBlock(phrase, salt)
      Step(a, r) == LET u == hmac_sha512(phrase, a.u) IN [u |-> u, result |-> XorBytes(a.result, u)]
  IN FoldLeft(Step, [u |-> first, result |-> first], [r \in 1 .. rounds - 1 |-> r]).result

seed_from_indices(indices, pass) ==
  pbkdf2_hmac_sha512(serialize_mnemonic(indices), build_salt(pass), BIP39_PBKDF2_ROUNDS)

-----------------------------------------------------------------------------
(* SeedDerivation *)

Job(phrase, salt, u, result, rounds, finished) ==
  [phrase |-> phrase, salt |-> salt, u |-> u, result |-> result, rounds |-> rounds,
   finished |-> finished]

NoJob == Job(<<>>, <<>>, <<>>, <<>>, 0, FALSE)

new_derivation(indices, pass) ==
  Job(serialize_mnemonic(indices), build_salt(pass), Zeros(HASH), Zeros(HASH), 0, FALSE)

wipe(j) == Job(<<>>, <<>>, Zeros(HASH), Zeros(HASH), 0, j.finished)

\* The first round takes the salt, which is then cleared.
first_round(j) ==
  LET u == FirstBlock(j.phrase, j.salt) IN Job(j.phrase, <<>>, u, u, 1, FALSE)

next_round(j) ==
  LET u == hmac_sha512(j.phrase, j.u)
  IN [j EXCEPT !.u = u, !.result = XorBytes(@, u), !.rounds = @ + 1]

RECURSIVE RunTo(_, _)
RunTo(j, target) == IF j.rounds >= target THEN j ELSE RunTo(next_round(j), target)

\* Mutant: the first round is done over by every call that finds the salt cleared.
Mutant_SaltTwice(j, budget) ==
  LET begun == first_round(j)
      target == IF j.rounds + budget < BIP39_PBKDF2_ROUNDS THEN j.rounds + budget
                ELSE BIP39_PBKDF2_ROUNDS
      done == RunTo(begun, target)
  IN IF j.finished THEN [job |-> j, seed |-> <<>>]
     ELSE IF done.rounds # BIP39_PBKDF2_ROUNDS THEN [job |-> done, seed |-> <<>>]
     ELSE [job |-> [wipe(done) EXCEPT !.finished = TRUE], seed |-> done.result]

\* The job after at most `budget` rounds, and the seed if that was the last one.
advance(j, budget) ==
  LET sum == IF j.rounds + budget > U16_MAX THEN U16_MAX ELSE j.rounds + budget
      target == IF sum < BIP39_PBKDF2_ROUNDS THEN sum ELSE BIP39_PBKDF2_ROUNDS
      begun == IF j.rounds = 0 /\ target > 0 THEN first_round(j) ELSE j
      done == RunTo(begun, target)
  IN IF j.finished THEN [job |-> j, seed |-> <<>>]
     ELSE IF done.rounds # BIP39_PBKDF2_ROUNDS THEN [job |-> done, seed |-> <<>>]
     ELSE [job |-> [wipe(done) EXCEPT !.finished = TRUE], seed |-> done.result]

progress_percent(j) ==
  IF j.finished THEN 100
  ELSE IF j.rounds = 0 THEN 0
  ELSE LET percent == (j.rounds * 100) \div BIP39_PBKDF2_ROUNDS
       IN IF percent < 1 THEN 1 ELSE percent

-----------------------------------------------------------------------------
(* BIP85 *)

\* A number for a seed, apart from the seeds of other modules.
SeedNumber(seed) == 1000 + FoldLeft(LAMBDA a, b : (a * 41 + b) % 30011, 0, seed)

PrivateKeyBytes(key) == Digest(<<key.seed>> \o key.path, HASH)

BIP85_HMAC_KEY == <<98, 105, 112>>

derive_bip85_entropy(seed, n, index) ==
  LET path == <<Hardened(BIP85_PURPOSE), Hardened(39), Hardened(0), Hardened(n), Hardened(index)>>
      key == derive_path(SeedNumber(seed), path)
  IN IF index >= HARDENED_BIT \/ key = NoKey THEN Refused
     ELSE hmac_sha512(BIP85_HMAC_KEY, PrivateKeyBytes(key))

derive_mnemonic_12(seed, index) ==
  LET entropy == derive_bip85_entropy(seed, 12, index)
  IN IF entropy = Refused THEN Refused ELSE mnemonic_from_entropy(12, SubSeq(entropy, 1, 16))

derive_mnemonic_24(seed, index) ==
  LET entropy == derive_bip85_entropy(seed, 24, index)
  IN IF entropy = Refused THEN Refused ELSE mnemonic_from_entropy(24, SubSeq(entropy, 1, 32))

-----------------------------------------------------------------------------
(* Password-protected backups *)

Params(profile, argon, m, t, p) ==
  [profile |-> profile, argon |-> argon, m |-> m, t |-> t, p |-> p]

current_profile == Params(1, 19, 8192, 3, 1)
host_profile == [current_profile EXCEPT !.profile = 2, !.m = 65536]

is_supported(params) ==
  CASE params.profile = 1 -> params = current_profile
    [] params.profile = 2 -> params = host_profile
    [] OTHER -> FALSE

LittleEndian(v) == [k \in 1 .. 4 |-> (v \div 256 ^ (k - 1)) % 256]
FromLittleEndian(b) == b[1] + 256 * (b[2] + 256 * (b[3] + 256 * (b[4] % 128)))

encode_metadata(params) ==
  IF ~is_supported(params) THEN Refused
  ELSE <<2, params.profile, params.argon, params.p % 256>>
         \o LittleEndian(params.m) \o LittleEndian(params.t)

NoParams == Params(0, 0, 0, 0, 0)

parse_metadata(meta) ==
  LET read == Params(meta[2], meta[3], FromLittleEndian(SubSeq(meta, 5, 8)),
                     FromLittleEndian(SubSeq(meta, 9, 12)), meta[4])
  IN IF Len(meta) # 12 \/ meta[1] # 2 THEN NoParams
     ELSE IF is_supported(read) THEN read ELSE NoParams

NoSecret == [purpose |-> "", password |-> <<>>, params |-> NoParams]

\* The derived key, as what it depends on; the salt is that of the backup.
derive_key_32_with_params(purpose, password, params) ==
  IF password = <<>> \/ Len(password) > MAX_PASSWORD_SIZE \/ ~is_supported(params) THEN NoSecret
  ELSE [purpose |-> purpose, password |-> password, params |-> params]

\* derive_heap_backed: the workspace cannot always be had.
DerivedKeys(purpose, password, params) ==
  {derive_key_32_with_params(purpose, password, params), NoSecret}

-----------------------------------------------------------------------------
(* Copying by hand *)

\* A mistake is a kind and where it happens.
Copied(text, slip) ==
  CASE slip.kind = "none" -> text
    [] slip.kind = "change" -> [text EXCEPT ![slip.at] = slip.as]
    [] slip.kind = "swap" ->
         [text EXCEPT ![slip.at] = text[slip.at + 1], ![slip.at + 1] = text[slip.at]]
    [] slip.kind = "drop" -> SubSeq(text, 1, slip.at - 1) \o SubSeq(text, slip.at + 1, Len(text))
    [] slip.kind = "double" -> SubSeq(text, 1, slip.at) \o SubSeq(text, slip.at, Len(text))

Slips(text) ==
  { slip \in room.slips : slip.kind = "none" \/ slip.at < Len(text) \/
                          (slip.kind # "swap" /\ slip.at = Len(text)) }

\* word_to_index: a word of the list is its position.
WORDS == 2048
word_to_index(word) == IF word < WORDS THEN word ELSE -1

-----------------------------------------------------------------------------
(* Words and seeds *)

NoWords == [n |-> 0, indices |-> <<>>, from |-> <<>>, typed |-> <<>>, pass |-> <<>>]

CreateWords ==
  /\ room.task = "words" /\ words = NoWords
  /\ words' = [NoWords EXCEPT !.n = room.n, !.from = room.entropy,
                              !.indices = mnemonic_from_entropy(room.n, room.entropy)]
  /\ UNCHANGED <<room, job, seeds, backup, clock, desk>>

\* The owner types the words again; the device checks them and begins.
TypeWords ==
  /\ words # NoWords /\ job = NoJob /\ Cardinality(seeds) < room.seeds
  /\ \E slip \in Slips(words.indices), pass \in room.passes :
       LET typed == [i \in 1 .. words.n |-> word_to_index(Copied(words.indices, slip)[i])]
       IN /\ -1 \notin Range(typed)
          /\ validate_mnemonic(words.n, typed)
          /\ SaltFits(pass)
          /\ words' = [words EXCEPT !.typed = typed, !.pass = pass]
          /\ job' = new_derivation(typed, pass)
  /\ UNCHANGED <<room, seeds, backup, clock, desk>>

Advance ==
  /\ job # NoJob
  /\ \E budget \in room.budgets :
     \E next \in {advance(job, budget)} :
       /\ job' = next.job
       /\ seeds' = IF next.seed = <<>> THEN seeds
                   ELSE seeds \cup {[indices |-> words.typed, pass |-> words.pass,
                                     seed |-> next.seed, left |-> next.job]}
  /\ UNCHANGED <<room, words, backup, clock, desk>>

\* The work object is dropped, done or not.
DropJob ==
  /\ job # NoJob /\ job' = NoJob
  /\ UNCHANGED <<room, words, seeds, backup, clock, desk>>

\* The paper now holds the words of a child wallet.
DeriveChild ==
  /\ job = NoJob /\ words.from # <<>>
  /\ \E s \in seeds, index \in room.children, n \in {12, 24} :
       LET child == IF n = 12 THEN derive_mnemonic_12(s.seed, index)
                    ELSE derive_mnemonic_24(s.seed, index)
       IN /\ child # Refused
          /\ words' = [NoWords EXCEPT !.n = n, !.indices = child]
  /\ UNCHANGED <<room, job, seeds, backup, clock, desk>>

-----------------------------------------------------------------------------
(* Backups *)

NoBackup == [key |-> NoSecret, meta |-> <<>>, aad |-> <<>>, reader |-> "", asked |-> NoSecret,
             used |-> NoParams, failed |-> FALSE, open |-> FALSE]

Protect ==
  /\ room.task = "backup" /\ backup = NoBackup
  /\ \E purpose \in room.purposes, password \in room.passwords, params \in {current_profile, host_profile} :
     \E key \in DerivedKeys(purpose, password, params) :
       /\ key # NoSecret
       /\ backup' = [NoBackup EXCEPT !.key = key, !.meta = encode_metadata(params),
                                     !.aad = encode_metadata(params)]
  /\ UNCHANGED <<room, words, job, seeds, clock, desk>>

\* The stored bytes change.
Damage ==
  /\ backup # NoBackup /\ backup.meta = backup.aad /\ backup.reader = ""
  /\ \E meta \in { [backup.meta EXCEPT ![k] = v] : k \in 1 .. 12, v \in room.bytes }
                 \cup {encode_metadata(current_profile), encode_metadata(host_profile)} :
       backup' = [backup EXCEPT !.meta = meta]
  /\ UNCHANGED <<room, words, job, seeds, clock, desk>>

\* An embedded reader accepts the current profile only.  The cipher opens what
\* was sealed under the same key and the same metadata.
Open ==
  /\ backup # NoBackup /\ backup.reader = ""
  /\ \E reader \in {"device", "host"}, purpose \in room.purposes, password \in room.passwords :
     \E params \in {parse_metadata(backup.meta)} :
     \E key \in IF params = NoParams \/ (reader = "device" /\ params # current_profile) THEN {NoSecret}
                ELSE DerivedKeys(purpose, password, params) :
       backup' = [backup EXCEPT
         !.reader = reader, !.used = params,
         !.asked = [purpose |-> purpose, password |-> password, params |-> backup.key.params],
         !.failed = (key = NoSecret /\ params # NoParams /\ (reader = "host" \/ params = current_profile)),
         !.open = (key # NoSecret /\ key = backup.key /\ backup.meta = backup.aad)]
  /\ UNCHANGED <<room, words, job, seeds, clock, desk>>

-----------------------------------------------------------------------------
(* The clock and the policy *)

NoTyped == [digits |-> <<>>, parts |-> <<>>]

Rtc == clock.unix + room.minutes[clock.at] - clock.back

\* What the owner types becomes the policy if both parsers accept it; the
\* firmware adds the time it was set as the floor.
TypedPolicy(typed) ==
  LET date == parse_utc_yyyymmddhhmm(typed.digits)
      list == parse_weekly_windows(typed.parts)
      Padded(s) == [n \in 1 .. MAX_WEEKLY_WINDOWS |-> IF n <= Len(s) THEN s[n] ELSE EMPTY]
      lock == IF typed.digits = <<>> THEN Ok(0) ELSE IF date.ok THEN to_unix(date.v) ELSE date
      weekly == IF typed.parts = <<>> THEN Ok(<<>>) ELSE list
  IN IF ~lock.ok \/ ~weekly.ok THEN disabled
     ELSE Policy(lock.v, weekly.v # <<>>, Len(weekly.v), Padded(weekly.v), Rtc)

SetPolicy ==
  /\ room.task = "clock" /\ clock.typed = NoTyped /\ from_unix(Rtc).ok
  /\ \E typed \in room.typed :
     \E policy \in {TypedPolicy(typed)} \ {disabled} :
       clock' = [clock EXCEPT !.typed = typed, !.policy = policy, !.decision = ""]
  /\ UNCHANGED <<room, words, job, seeds, backup, desk>>

\* The day after, by the calendar.
NextDay(d) ==
  LET lastDay == IF d.month = 2 THEN IF d.year % 4 = 0 /\ d.year # 2100 THEN 29 ELSE 28
                 ELSE IF d.month \in {4, 6, 9, 11} THEN 30 ELSE 31
      later == [d EXCEPT !.weekday = (@ + 1) % 7]
  IN IF d.day < lastDay THEN [later EXCEPT !.day = @ + 1]
     ELSE IF d.month < 12 THEN [later EXCEPT !.day = 1, !.month = @ + 1]
     ELSE [later EXCEPT !.day = 1, !.month = 1, !.year = @ + 1]

PassTime ==
  /\ room.task = "clock"
  /\ \/ /\ clock.at < Len(room.minutes)
        /\ clock' = [clock EXCEPT !.at = @ + 1, !.decision = ""]
     \/ /\ clock.at = Len(room.minutes) /\ clock.days < room.days
        /\ clock' = [clock EXCEPT !.at = 1, !.days = @ + 1, !.civil = NextDay(@),
                                  !.unix = @ + MINUTES_PER_DAY, !.decision = ""]
  /\ UNCHANGED <<room, words, job, seeds, backup, desk>>

\* The device's clock loses time, or is set right again.
SetClock ==
  /\ room.task = "clock"
  /\ \E back \in room.backs \ {clock.back} :
       clock' = [clock EXCEPT !.back = back, !.decision = ""]
  /\ UNCHANGED <<room, words, job, seeds, backup, desk>>

\* The firmware remembers the latest time it has read.
RaiseFloor ==
  /\ room.task = "clock" /\ has_time_policy(clock.policy) /\ Rtc > clock.policy.floor
  /\ from_unix(Rtc).ok
  /\ clock' = [clock EXCEPT !.policy.floor = Rtc, !.decision = ""]
  /\ UNCHANGED <<room, words, job, seeds, backup, desk>>

\* A request to sign: the policy decides, at the clock's time while it needs one.
Request ==
  /\ room.task = "clock" /\ clock.typed # NoTyped
  /\ clock' = [clock EXCEPT !.decision =
       IF requires_clock(clock.policy) THEN evaluate(clock.policy, Rtc) ELSE "Allowed"]
  /\ UNCHANGED <<room, words, job, seeds, backup, desk>>

-----------------------------------------------------------------------------
(* Texts *)

NoDesk == [kind |-> "", given |-> <<>>, version |-> 0, net |-> "", text |-> <<>>,
           copied |-> <<>>, as |-> "", read |-> <<>>]

WriteAddress ==
  /\ room.task = "texts" /\ desk = NoDesk
  /\ \E version \in room.versions, net \in PREFIXES, payload \in room.payloads :
     \E addr \in {encode_address_for_network(payload, version, net)} \ {NoAddress} :
       desk' = [NoDesk EXCEPT !.kind = "address", !.given = payload, !.version = version,
                              !.net = net, !.text = addr.data]
  /\ UNCHANGED <<room, words, job, seeds, backup, clock>>

WriteBase58 ==
  /\ room.task = "texts" /\ desk = NoDesk
  /\ \E data \in room.data, spare \in room.spares :
     \E text \in {base58check_encode(data, spare)} \ {Refused} :
       desk' = [NoDesk EXCEPT !.kind = "base58", !.given = data, !.text = text]
  /\ UNCHANGED <<room, words, job, seeds, backup, clock>>

\* A user names a network.
NameNetwork ==
  /\ room.task = "texts" /\ desk = NoDesk
  /\ \E name \in room.names :
       desk' = [NoDesk EXCEPT !.kind = "name", !.given = <<name>>, !.net = from_name(name),
                              !.read = <<parse_network(name)>>]
  /\ UNCHANGED <<room, words, job, seeds, backup, clock>>

\* Someone reads the text from a copy, an address under any prefix.
ReadText ==
  /\ desk.kind \in {"address", "base58"} /\ desk.copied = <<>>
  /\ \E slip \in Slips(desk.text) :
     \E copied \in {Copied(desk.text, slip)} :
       \/ /\ desk.kind = "address"
          /\ \E net \in PREFIXES :
               desk' = [desk EXCEPT !.copied = copied, !.as = net,
                                    !.read = decode_address_bytes(Address(net, copied))]
       \/ /\ desk.kind = "base58"
          /\ desk' = [desk EXCEPT !.copied = copied, !.read = base58check_decode(copied)]
  /\ UNCHANGED <<room, words, job, seeds, backup, clock>>

-----------------------------------------------------------------------------

NoClock(r) ==
  [civil |-> r.civil, unix |-> r.unix, at |-> 1, days |-> 1, back |-> 0, typed |-> NoTyped,
   policy |-> disabled, decision |-> ""]

VaultInit ==
  /\ room \in Rooms
  /\ words = NoWords /\ job = NoJob /\ seeds = {} /\ backup = NoBackup /\ desk = NoDesk
  /\ clock = IF room.task = "clock" THEN NoClock(room)
             ELSE NoClock([civil |-> <<>>, unix |-> 0])

VaultNext ==
  \/ CreateWords \/ TypeWords \/ Advance \/ DropJob \/ DeriveChild
  \/ Protect \/ Damage \/ Open
  \/ SetPolicy \/ PassTime \/ SetClock \/ RaiseFloor \/ Request
  \/ WriteAddress \/ WriteBase58 \/ NameNetwork \/ ReadText

VaultSpec == VaultInit /\ [][VaultNext]_vaultVars

-----------------------------------------------------------------------------
(* Properties *)

\* The words on paper, and any words the device accepts, are the words of one entropy.
WordsAreExact ==
  words # NoWords =>
    /\ validate_mnemonic(words.n, words.indices)
    /\ words.from # <<>> => indices_to_entropy(words.n, words.indices).entropy = words.from
    /\ \A typed \in {words.indices, words.typed} \ {<<>>} :
         mnemonic_from_entropy(words.n, indices_to_entropy(words.n, typed).entropy) = typed

\* However the rounds were cut, a seed is the standard one, and the work object
\* that delivered it keeps nothing; progress is 100 exactly then.
SeedsAreStandard ==
  /\ \A s \in seeds :
       /\ s.seed = seed_from_indices(s.indices, s.pass)
       /\ s.left = [wipe(s.left) EXCEPT !.finished = TRUE]
  /\ progress_percent(job) = 100 <=> job.finished

\* A backup opens for the password and purpose it was made with, from the
\* bytes that were stored, and only under one of the two fixed profiles.
BackupsOpen ==
  backup.reader # "" =>
    LET right == backup.asked = backup.key /\ backup.meta = backup.aad
                   /\ (backup.reader = "device" => backup.key.params = current_profile)
    IN /\ backup.open = (right /\ ~backup.failed)
       /\ backup.used \in {NoParams, current_profile, host_profile}

\* What a device keeps comes back exactly (bip39/encoding.rs, bip39/seed.rs, kdf/password.rs).
RecoveryIsExact == WordsAreExact /\ SeedsAreStandard /\ BackupsOpen

\* The digits of a date.
DigitsOf(d, minute) ==
  LET Two(v) == <<v \div 10, v % 10>>
  IN <<d.year \div 1000, (d.year \div 100) % 10>> \o Two(d.year % 100) \o Two(d.month)
       \o Two(d.day) \o Two(minute \div 60) \o Two(minute % 60)

\* a comes before b or is b.
NotAfter(a, b) ==
  a = b \/ \E k \in DOMAIN a : a[k] < b[k] /\ \A i \in 1 .. k - 1 : a[i] = b[i]

\* The device's arithmetic follows the calendar until the end of 2099.
CalendarIsRight ==
  LET d == clock.civil
      minute == room.minutes[clock.at]
      read == from_unix(clock.unix + minute)
  IN IF d.year > MAX_YEAR THEN ~read.ok
     ELSE /\ read = Ok(Date(d.year, d.month, d.day, minute \div 60, minute % 60))
          /\ to_unix(read.v) = Ok(clock.unix + minute)
          /\ weekday_monday0(read.v) = Ok(d.weekday)

InTypedWindow(minute) ==
  \E part \in Range(clock.typed.parts) :
    /\ part.day = WEEKDAY_NAMES[clock.civil.weekday + 1]
    /\ part.from[1] * 60 + part.from[2] <= minute
    /\ minute < part.till[1] * 60 + part.till[2]

\* Nothing is signed before the typed date, by true time, even when the clock
\* was set back; by a clock that is right, nothing outside the typed windows;
\* an accepted policy is never invalid, and a lock that has matured stays open.
SigningKeepsHours ==
  room.task = "clock" =>
    LET p == clock.policy
        minute == room.minutes[clock.at]
    IN /\ CalendarIsRight
       /\ clock.decision = "Allowed" =>
            /\ clock.typed.digits # <<>> =>
                 NotAfter(clock.typed.digits, DigitsOf(clock.civil, minute))
            /\ clock.typed.parts # <<>> /\ clock.back = 0 => InTypedWindow(minute)
            /\ requires_clock(p) => Rtc >= p.floor
       /\ clock.decision # "PolicyInvalid"
       /\ has_time_policy(p) /\ ~requires_clock(p) => evaluate(p, p.floor) = "Allowed"

\* A text that is copied exactly gives back what was written; an address with
\* one slip, or under another network's prefix, is refused (primitives/address);
\* a text that is accepted is the one text of what it says (xpub/base58.rs);
\* a network's own names lead back to it (primitives/mod.rs).
TextsReadBack ==
  /\ desk.kind = "address" /\ desk.copied # <<>> =>
       LET exact == desk.copied = desk.text /\ desk.as = desk.net
           copy == Address(desk.as, desk.copied)
           script == address_to_script_pubkey_on(copy, desk.as)
       IN /\ desk.read = IF exact THEN <<desk.version>> \o desk.given ELSE Refused
          /\ decode_address(copy) = IF desk.version = 1 THEN Refused ELSE desk.read
          /\ script # NoScript => script_address(script, desk.as) = copy
          /\ script # NoScript <=> exact /\ desk.version # 1
          /\ \A net \in PREFIXES \ {desk.as} : address_to_script_pubkey_on(copy, net) = NoScript
  /\ desk.kind = "base58" =>
       /\ Len(desk.text) <= MAX_BASE58_CHARS
       /\ desk.copied # <<>> /\ desk.copied = desk.text => desk.read = desk.given
       /\ desk.read \notin {<<>>, Refused} =>
            base58check_encode(desk.read, MAX_BASE58_CHARS) = desk.copied
  /\ desk.kind = "name" /\ desk.read[1] # NoNetwork =>
       LET id == desk.read[1]
       IN /\ parse_network(canonical_name(id)) = id /\ parse_network(debug_name(id)) = id
          /\ from_name(canonical_name(id)) = NetworkPrefix(id)
          /\ desk.net \in {"none", NetworkPrefix(id)}

\* What is written down, stored or copied comes back as it was, or is refused: both.
CopiesReadBack == RecoveryIsExact /\ TextsReadBack
=============================================================================
