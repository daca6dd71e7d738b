------------------------------ MODULE NatProofs ------------------------------
(***************************************************************************)
(* For every size of a word, any hosts and ports, and a table of any       *)
(* length: types, checksums, and where packets and their answers go.       *)
(*                                                                         *)
(* Entries are found by a scan from the head, so the argument is about the *)
(* order of the list: a typed-in entry is the first with its external      *)
(* pair.                                                                   *)
(***************************************************************************)
EXTENDS Nat, ListProofs, TLAPS

-----------------------------------------------------------------------------
(* Checksums.  Words are counted modulo WORD - 1.                          *)

LEMMA WordNumbers ==
    /\ WORD \in Nat /\ WORD >= 2
    /\ WORD * WORD \in Nat /\ WORD * WORD >= 2 * WORD
<1>1. WORD \in Nat /\ WORD >= 2
  BY NatAssumption
<1> QED
  BY <1>1

\* A sum of two words has a carry of at most one.
LEMMA Carry ==
    ASSUME NEW x \in 0 .. 2 * WORD - 2
    PROVE  /\ x < WORD => x \div WORD = 0 /\ x % WORD = x
           /\ x >= WORD => x \div WORD = 1 /\ x % WORD = x - WORD
BY WordNumbers

LEMMA FoldedValue ==
    ASSUME NEW x \in 0 .. 2 * WORD - 2
    PROVE  Folded(x) \in Words /\ Folded(x) = IF x < WORD THEN x ELSE x - (WORD - 1)
<1> DEFINE once == (x \div WORD) + (x % WORD)
<1>1. once = IF x < WORD THEN x ELSE x - (WORD - 1)
  BY Carry, WordNumbers
<1>2. once \in 0 .. WORD - 1
  BY <1>1, WordNumbers
<1>3. once \div WORD = 0 /\ once % WORD = once
  BY <1>2, WordNumbers
<1>4. Folded(x) = (once + (once \div WORD)) % WORD
  BY DEF Folded
<1> HIDE DEF once
<1>5. Folded(x) = once
  BY <1>2, <1>3, <1>4
<1> QED
  BY <1>1, <1>2, <1>5 DEF Words

\* A checksum corrected by two words differs from the sum by a multiple.
LEMMA ChecksumValue ==
    ASSUME NEW old \in Words, NEW pos \in Words, NEW neg \in Words
    PROVE  /\ nat_checksum(old, pos, neg) \in Words
           /\ \E c \in {-1, 0, 1} :
                 nat_checksum(old, pos, neg) = old + pos - neg + c * (WORD - 1)
<1> DEFINE W       == WORD
           Q       == WORD * WORD
           carried == ((old + pos) \div WORD) + ((old + pos) % WORD)
           word    == (carried + WORD * WORD - neg) % (WORD * WORD)
           result  == IF carried >= neg THEN carried - neg ELSE carried - neg + (WORD - 1)
<1>1. old \in 0 .. WORD - 1 /\ pos \in 0 .. WORD - 1 /\ neg \in 0 .. WORD - 1
  BY DEF Words
<1>2. old + pos \in 0 .. 2 * WORD - 2
  BY <1>1, WordNumbers
<1>3. carried = IF old + pos < WORD THEN old + pos ELSE old + pos - (WORD - 1)
  BY <1>1, <1>2, Carry, WordNumbers
<1>4. carried \in 0 .. WORD - 1
  BY <1>1, <1>2, <1>3, WordNumbers
<1>5. nat_checksum(old, pos, neg) = (IF word > WORD - 1 THEN word - 1 ELSE word) % WORD
  BY DEF nat_checksum
<1> HIDE DEF carried
<1>6. (IF word > WORD - 1 THEN word - 1 ELSE word) % WORD = result
  <2>1. CASE carried >= neg
    <3>1. carried - neg \in 0 .. WORD - 1
      BY <1>1, <1>4, <2>1, WordNumbers
    <3>2. word = carried - neg
      <4>1. \A q \in Nat, d \in Nat : d < q => (d + q) % q = d
        OBVIOUS
      <4>2. carried + WORD * WORD - neg = (carried - neg) + WORD * WORD
        BY <1>1, <1>4, WordNumbers
      <4>3. carried - neg \in Nat /\ carried - neg < WORD * WORD /\ WORD * WORD \in Nat
        BY <3>1, WordNumbers
      <4> QED
        BY <4>1, <4>2, <4>3
    <3> HIDE DEF word
    <3> QED
      BY <2>1, <3>1, <3>2, WordNumbers
  <2>2. CASE ~(carried >= neg)
    <3> DEFINE e == carried - neg + (WORD - 1)
    <3>1. e \in 0 .. WORD - 2
      BY <1>1, <1>4, <2>2, WordNumbers
    <3>2. word = WORD * WORD - WORD + 1 + e
      <4>1. \A q \in Nat, d \in Nat : d < q => d % q = d
        OBVIOUS
      <4>2. carried + WORD * WORD - neg = WORD * WORD - WORD + 1 + e
        BY <1>1, <1>4, WordNumbers
      <4>3. /\ WORD * WORD - WORD + 1 + e \in Nat
            /\ WORD * WORD - WORD + 1 + e < WORD * WORD /\ WORD * WORD \in Nat
        BY <3>1, WordNumbers
      <4> QED
        BY <4>1, <4>2, <4>3
    <3>3. word > WORD - 1 /\ word - 1 = (WORD - 1) * WORD + e
      <4> HIDE DEF word, e
      <4>1. (WORD - 1) * WORD = WORD * WORD - WORD
        BY WordNumbers
      <4> QED
        BY <3>1, <3>2, <4>1, WordNumbers
    <3>4. \A q, k, d \in Nat : d < q => (k * q + d) % q = d
      OBVIOUS
    <3>5. ((WORD - 1) * WORD + e) % WORD = e
      <4> DEFINE k == WORD - 1
      <4>1. k \in Nat /\ WORD \in Nat /\ e \in Nat /\ e < WORD
        BY <3>1, WordNumbers
      <4> HIDE DEF k, e
      <4>2. (k * WORD + e) % WORD = e
        BY <3>4, <4>1, Zenon
      <4> QED
        BY <4>2 DEF k
    <3> HIDE DEF word, e
    <3>6. result = e
      BY <2>2 DEF e
    <3> QED
      BY <3>3, <3>5, <3>6
  <2> QED
    BY <2>1, <2>2
<1>7. result \in Words
  BY <1>1, <1>4, WordNumbers DEF Words
<1>8. \E c \in {-1, 0, 1} : result = old + pos - neg + c * (WORD - 1)
  <2>1. CASE carried >= neg
    <3>1. CASE old + pos < WORD
      <4>1. result = old + pos - neg + 0 * (WORD - 1)
        BY <1>1, <1>3, <2>1, <3>1, WordNumbers
      <4> QED
        BY <4>1
    <3>2. CASE ~(old + pos < WORD)
      <4>1. result = old + pos - neg + (-1) * (WORD - 1)
        BY <1>1, <1>3, <2>1, <3>2, WordNumbers
      <4> QED
        BY <4>1
    <3> QED
      BY <3>1, <3>2
  <2>2. CASE ~(carried >= neg)
    <3>1. CASE old + pos < WORD
      <4>1. result = old + pos - neg + 1 * (WORD - 1)
        BY <1>1, <1>3, <2>2, <3>1, WordNumbers
      <4> QED
        BY <4>1
    <3>2. CASE ~(old + pos < WORD)
      <4>1. result = old + pos - neg + 0 * (WORD - 1)
        BY <1>1, <1>3, <2>2, <3>2, WordNumbers
      <4> QED
        BY <4>1
    <3> QED
      BY <3>1, <3>2
  <2> QED
    BY <2>1, <2>2
<1> HIDE DEF result, word
<1> QED
  BY <1>5, <1>6, <1>7, <1>8

\* The sum of the words that are covered.
LEMMA CoveredValue ==
    ASSUME NEW kind \in {"tcp", "udp", "echo"}, NEW pair \in Pairs
    PROVE  /\ Covered(kind, pair) \in Nat
           /\ kind = "echo" => Covered(kind, pair) = pair.port
           /\ kind # "echo" => Covered(kind, pair) = pair.ip + pair.port
BY WordNumbers DEF Covered, Pairs, Words

\* What is cached of a pair stands for the words that are covered.
LEMMA CachedValue ==
    ASSUME NEW pair \in Pairs
    PROVE  /\ compute_nat_checksums(pair).checksum \in Words
           /\ compute_nat_checksums(pair).checksum_port \in Words
           /\ compute_nat_checksums(pair).checksum_port = WORD - 1 - pair.port
           /\ \E c \in {0, 1} : compute_nat_checksums(pair).checksum
                  = WORD - 1 - (pair.ip + pair.port) + c * (WORD - 1)
<1> DEFINE x == pair.ip + pair.port
           f == Folded(x)
<1>1. pair.ip \in 0 .. WORD - 1 /\ pair.port \in 0 .. WORD - 1
  BY DEF Pairs, Words
<1>2. /\ compute_nat_checksums(pair).checksum = WORD - 1 - f
      /\ compute_nat_checksums(pair).checksum_port = WORD - 1 - pair.port
  BY DEF compute_nat_checksums, Complement
<1>3. x \in 0 .. 2 * WORD - 2
  BY <1>1, WordNumbers
<1> HIDE DEF x
<1>4. f \in Words /\ f = IF x < WORD THEN x ELSE x - (WORD - 1)
  BY <1>3, FoldedValue
<1> HIDE DEF f
<1>5. f \in 0 .. WORD - 1
  BY <1>4 DEF Words
<1>6. /\ compute_nat_checksums(pair).checksum \in Words
      /\ compute_nat_checksums(pair).checksum_port \in Words
  <2>1. WORD - 1 - f \in Words /\ WORD - 1 - pair.port \in Words
    BY <1>1, <1>5, WordNumbers DEF Words
  <2> QED
    BY <1>2, <2>1
<1>7. \E c \in {0, 1} : WORD - 1 - f = WORD - 1 - x + c * (WORD - 1)
  <2>1. CASE x < WORD
    <3>1. WORD - 1 - f = WORD - 1 - x + 0 * (WORD - 1)
      BY <1>3, <1>4, <2>1, WordNumbers
    <3> QED
      BY <3>1
  <2>2. CASE ~(x < WORD)
    <3>1. WORD - 1 - f = WORD - 1 - x + 1 * (WORD - 1)
      BY <1>3, <1>4, <2>2, WordNumbers
    <3> QED
      BY <3>1
  <2> QED
    BY <2>1, <2>2
<1> QED
  BY <1>2, <1>6, <1>7 DEF x

\* Rewriting changes the covered words and the checksum by a multiple together.
LEMMA RewrittenValue ==
    ASSUME NEW kind \in {"tcp", "udp", "echo"}, NEW sum \in Words,
           NEW from \in Pairs, NEW to \in Pairs
    PROVE  /\ NewSum(kind, sum, from, to) \in Words
           /\ \E c \in {-2, -1, 0, 1, 2} :
                 Covered(kind, to) + NewSum(kind, sum, from, to)
                     = Covered(kind, from) + sum + c * (WORD - 1)
<1> DEFINE f == compute_nat_checksums(from)
           t == compute_nat_checksums(to)
<1>1. sum \in Nat /\ WORD \in Nat
  BY WordNumbers DEF Words
<1>2. CASE kind = "echo"
  <2> DEFINE r == nat_checksum(sum, t.checksum_port, f.checksum_port)
  <2>1. NewSum(kind, sum, from, to) = r
    BY <1>2 DEF NewSum
  <2>2. /\ f.checksum_port \in Words /\ t.checksum_port \in Words
        /\ f.checksum_port = WORD - 1 - from.port
        /\ t.checksum_port = WORD - 1 - to.port
    BY CachedValue
  <2>3. from.port \in Nat /\ to.port \in Nat
    BY WordNumbers DEF Pairs, Words
  <2> HIDE DEF f, t
  <2>4. /\ r \in Words
        /\ \E c \in {-1, 0,
                     1} : r = sum + t.checksum_port - f.checksum_port + c * (WORD - 1)
    BY <2>2, ChecksumValue
  <2> HIDE DEF r
  <2>5. PICK c \in {-1, 0,
                    1} : r = sum + t.checksum_port - f.checksum_port + c * (WORD - 1)
    BY <2>4
  <2>6. to.port + r = from.port + sum + c * (WORD - 1)
    BY <1>1, <2>2, <2>3, <2>5
  <2> QED
    BY <1>2, <2>1, <2>4, <2>6, CoveredValue
<1>3. CASE kind # "echo"
  <2> DEFINE r == nat_checksum(sum, t.checksum, f.checksum)
             x == from.ip + from.port
             y == to.ip + to.port
  <2>1. NewSum(kind, sum, from, to) = r
    BY <1>3 DEF NewSum
  <2>2. /\ f.checksum \in Words /\ t.checksum \in Words
        /\ \E c \in {0, 1} : f.checksum = WORD - 1 - x + c * (WORD - 1)
        /\ \E c \in {0, 1} : t.checksum = WORD - 1 - y + c * (WORD - 1)
    BY CachedValue
  <2>3. x \in Nat /\ y \in Nat
    BY WordNumbers DEF Pairs, Words
  <2>4. Covered(kind, from) = x /\ Covered(kind, to) = y
    BY <1>3, CoveredValue
  <2> HIDE DEF f, t, x, y
  <2>5. /\ r \in Words
        /\ \E c \in {-1, 0, 1} : r = sum + t.checksum - f.checksum + c * (WORD - 1)
    BY <2>2, ChecksumValue
  <2> HIDE DEF r
  <2>6. PICK a \in {-1, 0, 1} : r = sum + t.checksum - f.checksum + a * (WORD - 1)
    BY <2>5
  <2>7. PICK b \in {0, 1} : f.checksum = WORD - 1 - x + b * (WORD - 1)
    BY <2>2
  <2>8. PICK d \in {0, 1} : t.checksum = WORD - 1 - y + d * (WORD - 1)
    BY <2>2
  <2>9. y + r = x + sum + (a + d - b) * (WORD - 1)
    BY <1>1, <2>3, <2>6, <2>7, <2>8
  <2>10. a + d - b \in {-2, -1, 0, 1, 2}
    OBVIOUS
  <2> QED
    BY <2>1, <2>4, <2>5, <2>9, <2>10
<1> QED
  BY <1>2, <1>3

\* A multiple more or less makes no difference to the receiver.
LEMMA MultipleAdded ==
    ASSUME NEW m \in Nat, m >= 1, NEW x \in Nat, NEW y \in Nat, x % m = 0,
           NEW c \in {-2, -1, 0, 1, 2}, y = x + c * m
    PROVE  y % m = 0
<1> DEFINE q == x \div m
           k == q + c
<1>1. q \in Nat /\ x = q * m
  OBVIOUS
<1>2. k \in Int /\ y = k * m
  BY <1>1
<1>3. \A j \in Int : (j * m) % m = 0
  OBVIOUS
<1> HIDE DEF k
<1>4. (k * m) % m = 0
  BY <1>2, <1>3
<1> QED
  BY <1>2, <1>4, Zenon

\* The other words are not all 0, so neither is the sum.
LEMMA StaysAccepted ==
    ASSUME NEW kind \in {"tcp", "udp", "echo"}, NEW others \in Words \ {0},
           NEW sum \in Words, kind = "udp" => sum # 0,
           NEW from \in Pairs, NEW to \in Pairs, Accepted(kind, from, others, sum)
    PROVE  Accepted(kind, to, others, NewSum(kind, sum, from, to))
<1> DEFINE x == Covered(kind, from) + others + sum
           y == Covered(kind, to) + others + NewSum(kind, sum, from, to)
<1>1. /\ Covered(kind, from) \in Nat /\ Covered(kind, to) \in Nat
      /\ others \in Nat \ {0} /\ sum \in Nat /\ NewSum(kind, sum, from, to) \in Nat
  BY WordNumbers, CoveredValue, RewrittenValue DEF Words
<1>2. PICK c \in {-2, -1, 0, 1, 2} :
          Covered(kind, to) + NewSum(kind, sum, from, to)
              = Covered(kind, from) + sum + c * (WORD - 1)
  BY RewrittenValue
<1>3. x \in Nat /\ y \in Nat /\ y # 0 /\ y = x + c * (WORD - 1)
  BY <1>1, <1>2, WordNumbers
<1>4. x % (WORD - 1) = 0
  BY DEF Accepted
<1>5. WORD - 1 \in Nat /\ WORD - 1 >= 1
  BY WordNumbers
<1> HIDE DEF x, y
<1>6. y % (WORD - 1) = 0
  BY <1>3, <1>4, <1>5, MultipleAdded
<1> QED
  BY <1>3, <1>6 DEF Accepted, y

-----------------------------------------------------------------------------
(* The table.                                                              *)

LEMMA FirstProperties ==
    ASSUME NEW n \in Nat, NEW I \in SUBSET (1 .. n), I # {}
    PROVE  FirstOf(I) \in I /\ \A j \in I : FirstOf(I) <= j
BY LeastIndex DEF FirstOf

\* The first entry with a pair, and what is before it.
LEMMA MatchProperties ==
    ASSUME NEW table \in Seq(NatEntries), NEW side, NEW pair,
           NEW i \in DOMAIN table, table[i][side] = pair
    PROVE  LET f == FirstOf(Matches(table, side, pair)) IN
           /\ f \in DOMAIN table /\ f <= i /\ table[f][side] = pair
           /\ \A j \in DOMAIN table : j < f => table[j][side] # pair
<1> DEFINE I == Matches(table, side, pair)
           f == FirstOf(I)
<1>1. Len(table) \in Nat /\ DOMAIN table = 1 .. Len(table)
  OBVIOUS
<1>2. I \in SUBSET (1 .. Len(table)) /\ i \in I
  BY <1>1 DEF Matches
<1> HIDE DEF I
<1>3. f \in I /\ \A j \in I : f <= j
  BY <1>1, <1>2, FirstProperties
<1> HIDE DEF f
<1>4. \A j \in DOMAIN table : j < f => j \notin I
  BY <1>1, <1>2, <1>3
<1>5. /\ f \in DOMAIN table /\ f <= i /\ table[f][side] = pair
      /\ \A j \in DOMAIN table : j < f => table[j][side] # pair
  BY <1>2, <1>3, <1>4 DEF I, Matches
<1> QED
  BY <1>5 DEF f, I

\* A typed-in entry is the first with its external pair.
StaticFirst ==
    \A i, j \in DOMAIN nat_table :
        nat_table[i].is_static /\ j < i => nat_table[j].nat_ext # nat_table[i].nat_ext

IInv == TypeOK /\ StaticFirst

LEMMA InitInv == Init => IInv
<1> SUFFICES ASSUME Init PROVE IInv
  OBVIOUS
<1>1. nat_table = <<>> /\ nat_table \in Seq(NatEntries) /\ DOMAIN nat_table = {}
  BY DEF Init
<1>2. TypeOK
  BY <1>1 DEF Init, TypeOK
<1> QED
  BY <1>1, <1>2 DEF IInv, StaticFirst

\* Pairs that packets and commands bring are pairs of words.
LEMMA PairsTyped ==
    /\ Inside \subseteq Pairs /\ TypedExternals \subseteq Pairs
    /\ \A h \in Hosts, o \in OutsidePorts : Pair(h, o) \in Pairs
    /\ \A order \in ByteOrders, p \in DrawnPorts : Pair(Wan, order[p]) \in Pairs
BY NatAssumption DEF Inside, TypedExternals, Pairs, Pair, Words

\* A drawn entry is added behind the others.
LEMMA DrawnInv ==
    ASSUME IInv, NEW int \in Pairs, create_nat_table_entry(int), htons' = htons,
           is_wan' = is_wan
    PROVE  IInv'
<1>1. CASE nat_table' = nat_table
  <2>1. input_thread' \in {"runs", "faulted", "draws"}
    BY <1>1 DEF create_nat_table_entry, IInv, TypeOK
  <2>2. TypeOK'
    BY <1>1, <2>1 DEF IInv, TypeOK
  <2> QED
    BY <1>1, <2>2 DEF IInv, StaticFirst
<1>2. CASE nat_table' # nat_table
  <2>1. PICK port \in DrawnPorts : AddDynamic(Pair(Wan, htons[port]), int)
    BY <1>2 DEF create_nat_table_entry
  <2> DEFINE e == [nat_ext |-> Pair(Wan, htons[port]), nat_int |-> int,
                   is_static |-> FALSE]
             n == Len(nat_table)
  <2>2. nat_table' = Append(nat_table, e) /\ input_thread' = input_thread
    BY <1>2, <2>1 DEF AddDynamic, node_push_back, create_nat_table_entry
  <2>3. e \in NatEntries
    BY PairsTyped DEF IInv, TypeOK, NatEntries
  <2>4. nat_table \in Seq(NatEntries) /\ n \in Nat
    BY DEF IInv, TypeOK
  <2>5. e.is_static = FALSE
    OBVIOUS
  <2> HIDE DEF e
  <2>6. /\ nat_table' \in Seq(NatEntries) /\ DOMAIN nat_table' = 1 .. n + 1
        /\ DOMAIN nat_table = 1 .. n /\ nat_table'[n + 1] = e
        /\ \A i \in 1 .. n : nat_table'[i] = nat_table[i]
    BY <2>2, <2>3, <2>4
  <2> HIDE DEF n
  <2>7. \A i \in 1 .. n : i \in 1 .. n + 1 /\ i # n + 1 /\ i < n + 1
    BY <2>4
  <2>8. TypeOK'
    BY <2>2, <2>6 DEF IInv, TypeOK
  <2>9. StaticFirst'
    <3>1. SUFFICES ASSUME NEW i \in 1 .. n + 1, NEW j \in 1 .. n + 1,
                          nat_table'[i].is_static, j < i
                   PROVE  nat_table'[j].nat_ext # nat_table'[i].nat_ext
      BY <2>6 DEF StaticFirst
    <3>2. i # n + 1
      BY <2>5, <2>6, <3>1
    <3>3. i \in 1 .. n /\ j \in 1 .. n
      BY <2>4, <3>1, <3>2
    <3> QED
      BY <2>6, <3>1, <3>3 DEF IInv, StaticFirst
  <2> QED
    BY <2>8, <2>9 DEF IInv
<1> QED
  BY <1>1, <1>2

\* A typed-in entry takes the place of the first with its external pair, or
\* comes behind the others.
LEMMA TypedInInv ==
    ASSUME IInv, NEW ext \in TypedExternals, NEW int \in Inside, cli_nat_add(ext, int)
    PROVE  IInv'
<1> DEFINE I == Matches(nat_table, "nat_ext", ext)
           e == [nat_ext |-> ext, nat_int |-> int, is_static |-> TRUE]
           n == Len(nat_table)
<1>1. /\ nat_table \in Seq(NatEntries) /\ n \in Nat /\ DOMAIN nat_table = 1 .. n
      /\ \A i \in 1 .. n : nat_table[i].nat_ext = ext <=> i \in I
  BY DEF IInv, TypeOK, Matches
<1>2. e \in NatEntries /\ e.nat_ext = ext
  BY PairsTyped DEF NatEntries
<1>3. /\ is_wan' = is_wan /\ input_thread' = input_thread /\ htons' = htons
      /\ \/ I # {} /\ nat_table' = [nat_table EXCEPT ![FirstOf(I)] = e]
         \/ I = {} /\ nat_table' = Append(nat_table, e)
  BY DEF cli_nat_add, node_push_back
<1> HIDE DEF I, e
<1>4. CASE I # {} /\ nat_table' = [nat_table EXCEPT ![FirstOf(I)] = e]
  <2> DEFINE f == FirstOf(I)
  <2>1. PICK i \in 1 .. n : nat_table[i].nat_ext = ext
    <3>1. I \subseteq 1 .. n
      BY <1>1 DEF I, Matches
    <3> QED
      BY <1>1, <1>4, <3>1
  <2>2. /\ f \in DOMAIN nat_table /\ nat_table[f].nat_ext = ext
        /\ \A j \in DOMAIN nat_table : j < f => nat_table[j].nat_ext # ext
    <3>1. nat_table[i]["nat_ext"] = ext
      BY <2>1
    <3> QED
      BY <1>1, <3>1, MatchProperties DEF I
  <2> HIDE DEF f
  <2>3. nat_table' = [nat_table EXCEPT ![f] = e]
    BY <1>4 DEF f
  <2>4. /\ nat_table' \in Seq(NatEntries) /\ DOMAIN nat_table' = 1 .. n
        /\ nat_table'[f] = e /\ \A j \in 1 .. n : j # f => nat_table'[j] = nat_table[j]
    BY <1>1, <1>2, <2>2, <2>3
  <2>5. \A j \in 1 .. n : nat_table'[j].nat_ext = nat_table[j].nat_ext
    BY <1>2, <2>2, <2>4
  <2>6. TypeOK'
    BY <1>3, <2>4 DEF IInv, TypeOK
  <2>7. StaticFirst'
    <3>1. SUFFICES ASSUME NEW k \in 1 .. n, NEW j \in 1 .. n, nat_table'[k].is_static, j < k
                   PROVE  nat_table'[j].nat_ext # nat_table'[k].nat_ext
      BY <2>4 DEF StaticFirst
    <3>2. CASE k = f
      BY <1>1, <2>2, <2>5, <3>1, <3>2
    <3>3. CASE k # f
      BY <1>1, <2>4, <2>5, <3>1, <3>3 DEF IInv, StaticFirst
    <3> QED
      BY <3>2, <3>3
  <2> QED
    BY <2>6, <2>7 DEF IInv
<1>5. CASE I = {} /\ nat_table' = Append(nat_table, e)
  <2>1. /\ nat_table' \in Seq(NatEntries) /\ DOMAIN nat_table' = 1 .. n + 1
        /\ nat_table'[n + 1] = e /\ \A i \in 1 .. n : nat_table'[i] = nat_table[i]
    BY <1>1, <1>2, <1>5
  <2>2. \A i \in 1 .. n : nat_table'[i].nat_ext # ext
    BY <1>1, <1>5, <2>1
  <2> HIDE DEF n
  <2>3. TypeOK'
    BY <1>3, <2>1 DEF IInv, TypeOK
  <2>4. ASSUME NEW j \in 1 .. n + 1, NEW k \in 1 .. n + 1, j < k
        PROVE  j \in 1 .. n /\ (k = n + 1 \/ k \in 1 .. n)
    BY <1>1, <2>4
  <2>5. StaticFirst'
    <3>1. SUFFICES ASSUME NEW k \in 1 .. n + 1, NEW j \in 1 .. n + 1,
                          nat_table'[k].is_static, j < k
                   PROVE  nat_table'[j].nat_ext # nat_table'[k].nat_ext
      BY <2>1 DEF StaticFirst
    <3>2. j \in 1 .. n /\ (k = n + 1 \/ k \in 1 .. n)
      BY <2>4, <3>1
    <3>3. CASE k = n + 1
      BY <1>2, <2>1, <2>2, <3>2, <3>3
    <3>4. CASE k \in 1 .. n
      BY <1>1, <2>1, <3>1, <3>2, <3>4 DEF IInv, StaticFirst
    <3> QED
      BY <3>2, <3>3, <3>4
  <2> QED
    BY <2>3, <2>5 DEF IInv
<1> QED
  BY <1>3, <1>4, <1>5

\* What is left of the table keeps its order.
LEMMA DeletedInv ==
    ASSUME IInv, NEW ext, cli_nat_del(ext)
    PROVE  IInv'
<1> DEFINE K == DOMAIN nat_table \ {FirstOf(Matches(nat_table, "nat_ext", ext))}
<1>1. /\ nat_table' = Keep(nat_table, K)
      /\ is_wan' = is_wan /\ input_thread' = input_thread /\ htons' = htons
  BY DEF cli_nat_del, node_remove
<1>2. nat_table \in Seq(NatEntries) /\ K \in SUBSET (DOMAIN nat_table)
  BY DEF IInv, TypeOK
<1> HIDE DEF K
<1>3. nat_table' \in Seq(NatEntries)
  BY <1>1, <1>2, KeepProperties
<1>4. \A j, k \in DOMAIN nat_table' : j < k =>
          \E i, l \in K : i < l /\ nat_table'[j] = nat_table[i] /\ nat_table'[k] = nat_table[l]
  BY <1>1, <1>2, KeepOrder
<1>5. TypeOK'
  BY <1>1, <1>3 DEF IInv, TypeOK
<1>6. StaticFirst'
  BY <1>2, <1>4 DEF IInv, StaticFirst
<1> QED
  BY <1>5, <1>6 DEF IInv

LEMMA StepInv == IInv /\ [Next]_vars => IInv'
<1> SUFFICES ASSUME IInv, [Next]_vars PROVE IInv'
  OBVIOUS
<1>1. ASSUME NEW int \in Inside, process_nat_int_packet(int) PROVE IInv'
  BY <1>1, PairsTyped, DrawnInv DEF process_nat_int_packet
<1>2. ASSUME NEW h \in Hosts, NEW i \in InsidePorts, NEW o \in OutsidePorts, IcmpError(h,
                                                                                       i, o)
      PROVE  IInv'
  BY <1>2, PairsTyped, DrawnInv DEF IcmpError
<1>3. CASE OtherProtocol \/ (\E on \in BOOLEAN : cli_nat_set(on)) \/ UNCHANGED vars
  <2>1. /\ nat_table' = nat_table /\ htons' = htons
        /\ is_wan' \in BOOLEAN /\ input_thread' \in {"runs", "faulted", "draws"}
    BY <1>3 DEF OtherProtocol, cli_nat_set, vars, IInv, TypeOK
  <2>2. TypeOK'
    BY <2>1 DEF IInv, TypeOK
  <2> QED
    BY <2>1, <2>2 DEF IInv, StaticFirst
<1>4. CASE cli_nat_reset
  <2>1. /\ nat_table' = <<>> /\ DOMAIN nat_table' = {} /\ nat_table' \in Seq(NatEntries)
        /\ is_wan' = is_wan /\ input_thread' = input_thread /\ htons' = htons
    BY <1>4 DEF cli_nat_reset
  <2>2. TypeOK'
    BY <2>1 DEF IInv, TypeOK
  <2> QED
    BY <2>1, <2>2 DEF IInv, StaticFirst
<1>5. ASSUME NEW ext \in TypedExternals,
             cli_nat_del(ext) \/ \E int \in Inside : cli_nat_add(ext, int)
      PROVE  IInv'
  BY <1>5, DeletedInv, TypedInInv
<1> QED
  BY <1>1, <1>2, <1>3, <1>4, <1>5 DEF Next, PacketLeaves, Command

THEOREM Invariance == Spec => []IInv
BY InitInv, StepInv, PTL DEF Spec

\* Entries hold pairs of words, whatever was drawn, typed in or deleted.
THEOREM TypeCorrect == Spec => []TypeOK
<1>1. IInv => TypeOK
  BY DEF IInv
<1> QED
  BY <1>1, Invariance, PTL

\* What was typed in takes effect.
THEOREM TypedInAlwaysTakesEffect == Spec => []TypedInTakesEffect
<1>1. ASSUME IInv PROVE TypedInTakesEffect
  <2>1. SUFFICES ASSUME NEW i \in DOMAIN nat_table, nat_table[i].is_static
                 PROVE  process_nat_ext_packet(nat_table[i].nat_ext) = nat_table[i].nat_int
    BY DEF TypedInTakesEffect
  <2> DEFINE f == FirstOf(Matches(nat_table, "nat_ext", nat_table[i].nat_ext))
  <2>2. nat_table \in Seq(NatEntries) /\ Len(nat_table) \in Nat
        /\ DOMAIN nat_table = 1 .. Len(nat_table)
    BY <1>1 DEF IInv, TypeOK
  <2>3. f \in DOMAIN nat_table /\ f <= i /\ nat_table[f].nat_ext = nat_table[i].nat_ext
    BY <2>2, MatchProperties
  <2> HIDE DEF f
  <2>4. f = i
    BY <1>1, <2>1, <2>2, <2>3 DEF IInv, StaticFirst
  <2> QED
    BY <2>4 DEF process_nat_ext_packet, get_nat_table_entry, f
<1> QED
  BY <1>1, Invariance, PTL

\* Translation keeps the checksums of TCP and of ICMP echoes, and those of UDP
\* that are there, for any size of a word (nat_checksum).
THEOREM ChecksumsAlwaysCarryOver == Spec => []ChecksumsCarryOver
<1>1. ASSUME IInv PROVE ChecksumsCarryOver
  <2>1. \A i \in DOMAIN nat_table :
            nat_table[i].nat_ext \in Pairs /\ nat_table[i].nat_int \in Pairs
    <3>1. \A i \in DOMAIN nat_table : nat_table[i] \in NatEntries
      BY <1>1 DEF IInv, TypeOK
    <3>2. \A e \in NatEntries : e.nat_ext \in Pairs /\ e.nat_int \in Pairs
      BY DEF NatEntries
    <3> QED
      BY <3>1, <3>2
  <2> QED
    BY <2>1, StaysAccepted DEF ChecksumsCarryOver, CarriesOver
<1> QED
  BY <1>1, Invariance, PTL

\* An entry added behind the others is not found where one of them was.
LEMMA LongerMatch ==
    ASSUME NEW table \in Seq(NatEntries), NEW longer \in Seq(NatEntries),
           Len(table) <= Len(longer), \A j \in DOMAIN table : longer[j] = table[j],
           NEW side, NEW pair, NEW i \in DOMAIN table, table[i][side] = pair
    PROVE  longer[FirstOf(Matches(longer, side, pair))]
               = table[FirstOf(Matches(table, side, pair))]
<1> DEFINE n == Len(table)
           f == FirstOf(Matches(table, side, pair))
           g == FirstOf(Matches(longer, side, pair))
<1>1. /\ n \in Nat /\ Len(longer) \in Nat /\ n <= Len(longer) /\ DOMAIN table = 1 .. n
      /\ DOMAIN longer = 1 .. Len(longer) /\ \A j \in 1 .. n : longer[j] = table[j]
  OBVIOUS
<1> HIDE DEF n
<1>2. /\ f \in DOMAIN table /\ table[f][side] = pair
      /\ \A j \in DOMAIN table : j < f => table[j][side] # pair
  BY MatchProperties
<1> HIDE DEF f
<1>3. f \in DOMAIN longer /\ longer[f][side] = pair
  BY <1>1, <1>2
<1>4. g \in DOMAIN longer /\ g <= f /\ longer[g][side] = pair
  BY <1>1, <1>3, MatchProperties
<1> HIDE DEF g
<1>5. g \in DOMAIN table /\ table[g][side] = pair
  BY <1>1, <1>2, <1>4
<1>6. g = f
  BY <1>1, <1>2, <1>4, <1>5
<1> QED
  BY <1>1, <1>2, <1>6 DEF f, g

\* Packets of new connections leave the old ones alone.
THEOREM ConnectionsAlwaysKept == Spec => ConnectionsKeepTheirPairs
<1> DEFINE Kept ==
        /\ \A int \in {nat_table[i].nat_int : i \in DOMAIN nat_table} :
              Outward(int)' = Outward(int)
        /\ \A ext \in {nat_table[i].nat_ext : i \in DOMAIN nat_table} :
              process_nat_ext_packet(ext)' = process_nat_ext_packet(ext)
<1>1. ASSUME IInv, PacketLeaves PROVE Kept
  <2>1. nat_table \in Seq(NatEntries)
    BY <1>1 DEF IInv, TypeOK
  <2>2. \/ nat_table' = nat_table
        \/ \E e \in NatEntries : nat_table' = Append(nat_table, e)
    <3>1. ASSUME NEW int \in Pairs, create_nat_table_entry(int)
          PROVE  \/ nat_table' = nat_table
                 \/ \E e \in NatEntries : nat_table' = Append(nat_table, e)
      <4>1. CASE \E port \in DrawnPorts : AddDynamic(Pair(Wan, htons[port]), int)
        <5>1. PICK port \in DrawnPorts : AddDynamic(Pair(Wan, htons[port]), int)
          BY <4>1
        <5> DEFINE e == [nat_ext |-> Pair(Wan, htons[port]), nat_int |-> int,
                         is_static |-> FALSE]
        <5>2. e \in NatEntries
          BY <1>1, PairsTyped DEF IInv, TypeOK, NatEntries
        <5> QED
          BY <5>1, <5>2 DEF AddDynamic, node_push_back
      <4> QED
        BY <3>1, <4>1 DEF create_nat_table_entry
    <3>2. \/ \E int \in Pairs : create_nat_table_entry(int)
          \/ nat_table' = nat_table
      BY <1>1, PairsTyped
      DEF PacketLeaves, process_nat_int_packet, IcmpError, OtherProtocol
    <3> QED
      BY <3>1, <3>2
  <2>3. ASSUME NEW e \in NatEntries, nat_table' = Append(nat_table, e) PROVE Kept
    <3>1. ASSUME NEW side, NEW pair, NEW i \in DOMAIN nat_table, nat_table[i][side] = pair
          PROVE  get_nat_table_entry(side, pair)' = get_nat_table_entry(side, pair)
      <4>1. nat_table'[FirstOf(Matches(nat_table', side, pair))]
                = nat_table[FirstOf(Matches(nat_table, side, pair))]
        <5>1. /\ nat_table' \in Seq(NatEntries) /\ Len(nat_table) <= Len(nat_table')
              /\ \A j \in DOMAIN nat_table : nat_table'[j] = nat_table[j]
          BY <2>1, <2>3
        <5> QED
          BY <2>1, <3>1, <5>1, LongerMatch
      <4> QED
        BY <2>3, <4>1 DEF get_nat_table_entry
    <3>2. ASSUME NEW int \in {nat_table[i].nat_int : i \in DOMAIN nat_table}
          PROVE  Outward(int)' = Outward(int)
      <4>1. PICK i \in DOMAIN nat_table : nat_table[i].nat_int = int
        OBVIOUS
      <4>2. get_nat_table_entry("nat_int", int)' = get_nat_table_entry("nat_int", int)
        BY <3>1, <4>1
      <4> QED
        BY <4>2 DEF Outward
    <3>3. ASSUME NEW ext \in {nat_table[i].nat_ext : i \in DOMAIN nat_table}
          PROVE  process_nat_ext_packet(ext)' = process_nat_ext_packet(ext)
      <4>1. PICK i \in DOMAIN nat_table : nat_table[i].nat_ext = ext
        OBVIOUS
      <4>2. get_nat_table_entry("nat_ext", ext)' = get_nat_table_entry("nat_ext", ext)
        BY <3>1, <4>1
      <4> QED
        BY <4>2 DEF process_nat_ext_packet
    <3> QED
      BY <3>2, <3>3
  <2> QED
    BY <2>2, <2>3 DEF Outward, process_nat_ext_packet, get_nat_table_entry
<1> QED
  BY <1>1, Invariance, PTL DEF Spec, ConnectionsKeepTheirPairs
=============================================================================
