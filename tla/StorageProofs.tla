--------------------------- MODULE StorageProofs ----------------------------
(***************************************************************************)
(* Proofs about the storage of a batch, for every set of slots, values and  *)
(* bytecodes and any number of calls.                                       *)
(*                                                                         *)
(* StorageViewUsers: both users of one view get right answers, and its      *)
(* cache stays that of the storage.                                         *)
(*                                                                         *)
(* FastVmWorld: the world of the fast VM serves every bytecode a contract   *)
(* can reach, reports the EVM bytecodes that were kept and answers          *)
(* signatures rightly (CodeIsServed).  WorldInv says where the entries of   *)
(* the caches come from (CachesAreRight) and that whatever the storage, now *)
(* or after a rollback, says is known is in one of them (Covered).          *)
(***************************************************************************)
EXTENDS FastVmWorld, StorageViewUsers, FiniteSetTheorems, TLAPS

-----------------------------------------------------------------------------
(***************************************************************************)
(* The views of the storage.                                                *)
(***************************************************************************)
\* A view with these changes, reads, kinds of writes and misses.
ViewOf(m, r, i, n) ==
    [modified_storage_keys |-> m, read_storage_keys |-> r, initial_writes |-> i, storage_invocations_missed |-> n]

\* The reads are those of the storage and each was missed once, the kinds of writes are those of
\* the tree.
CacheIsFilled(r, i, n) ==
    /\ IsFiniteSet(DOMAIN r) /\ n = Cardinality(DOMAIN r)
    /\ \A key \in DOMAIN r : r[key] = InStorage(key)
    /\ \A key \in DOMAIN i : i[key] = SnapshotIsInitial(storage, key)

IsView(v, m) == \E r, i, n : v = ViewOf(m, r, i, n) /\ CacheIsFilled(r, i, n)

ViewInv == IsView(shared_view, changes) /\ ViewsAnswerRightly

\* A read past the changes returns what the storage has, from the cache or by filling it.
LEMMA CachedReadIsRight ==
    ASSUME NEW v, NEW m, IsView(v, m), NEW key
    PROVE  /\ CachedRead(storage, v, key).value = InStorage(key)
           /\ IsView(CachedRead(storage, v, key).view, m)
<1>1. PICK r, i, n : v = ViewOf(m, r, i, n) /\ CacheIsFilled(r, i, n)
  BY DEF IsView
<1> DEFINE reads == With(r, key, InStorage(key))
<1>2. CASE key \in DOMAIN r
  <2>1. CachedRead(storage, v, key) = [value |-> r[key], view |-> v]
    BY <1>1, <1>2 DEF CachedRead, ViewOf
  <2> QED
    BY <1>1, <1>2, <2>1 DEF CacheIsFilled
<1>3. CASE key \notin DOMAIN r
  <2>1. CachedRead(storage, v, key) = [value |-> InStorage(key), view |-> ViewOf(m, reads, i, n + 1)]
    BY Zenon, <1>1, <1>3 DEF CachedRead, ViewOf, InStorage
  <2>2. DOMAIN reads = DOMAIN r \union {key}
    BY DEF With
  <2>3. IsFiniteSet(DOMAIN reads) /\ n + 1 = Cardinality(DOMAIN reads)
    BY <1>1, <1>3, <2>2, FS_AddElement DEF CacheIsFilled
  <2>4. \A k \in DOMAIN reads : reads[k] = InStorage(k)
    BY <1>1 DEF With, CacheIsFilled
  <2>5. CacheIsFilled(reads, i, n + 1)
    BY <1>1, <2>3, <2>4 DEF CacheIsFilled
  <2>6. IsView(ViewOf(m, reads, i, n + 1), m)
    BY <2>5 DEF IsView
  <2> QED
    BY <2>1, <2>6
<1> QED
  BY <1>2, <1>3

\* A read through the view returns what was written last, or what the storage has.
LEMMA ReadIsRight ==
    ASSUME NEW v, IsView(v, changes), NEW key
    PROVE  /\ get_value_no_log(storage, v, key).value = InView(key)
           /\ IsView(get_value_no_log(storage, v, key).view, changes)
<1>1. v.modified_storage_keys = changes
  BY DEF IsView, ViewOf
<1>2. CASE key \in DOMAIN changes
  <2>1. get_value_no_log(storage, v, key) = [value |-> changes[key], view |-> v]
    BY <1>1, <1>2 DEF get_value_no_log
  <2> QED
    BY <1>2, <2>1 DEF InView
<1>3. CASE key \notin DOMAIN changes
  <2>1. get_value_no_log(storage, v, key) = CachedRead(storage, v, key)
    BY <1>1, <1>3 DEF get_value_no_log
  <2> QED
    BY <1>3, <2>1, CachedReadIsRight DEF InView
<1> QED
  BY <1>2, <1>3

\* The kind of a write does not change with the changes of the slot.
LEMMA IsInitialIsRight ==
    ASSUME NEW v, NEW m, IsView(v, m), NEW key
    PROVE  /\ ViewIsInitial(storage, v, key).value = SnapshotIsInitial(storage, key)
           /\ IsView(ViewIsInitial(storage, v, key).view, m)
<1>1. PICK r, i, n : v = ViewOf(m, r, i, n) /\ CacheIsFilled(r, i, n)
  BY DEF IsView
<1> DEFINE writes == With(i, key, SnapshotIsInitial(storage, key))
<1>2. CASE key \in DOMAIN i
  <2>1. ViewIsInitial(storage, v, key) = [value |-> i[key], view |-> v]
    BY <1>1, <1>2 DEF ViewIsInitial, ViewOf
  <2> QED
    BY <1>1, <1>2, <2>1 DEF CacheIsFilled
<1>3. CASE key \notin DOMAIN i
  <2>1. ViewIsInitial(storage, v, key)
          = [value |-> SnapshotIsInitial(storage, key), view |-> ViewOf(m, r, writes, n)]
    BY <1>1, <1>3 DEF ViewIsInitial, ViewOf
  <2>2. \A k \in DOMAIN writes : writes[k] = SnapshotIsInitial(storage, k)
    BY <1>1 DEF With, CacheIsFilled
  <2>3. CacheIsFilled(r, writes, n)
    BY <1>1, <2>2 DEF CacheIsFilled
  <2>4. IsView(ViewOf(m, r, writes, n), m)
    BY <2>3 DEF IsView
  <2> QED
    BY <2>1, <2>4
<1> QED
  BY <1>2, <1>3

LEMMA InitIsRight == ViewInit => ViewInv
<1> SUFFICES ASSUME ViewInit PROVE ViewInv
  OBVIOUS
<1>1. CacheIsFilled(NoKeys, NoKeys, 0)
  BY FS_EmptySet DEF CacheIsFilled, NoKeys
<1>2. shared_view = ViewOf(NoKeys, NoKeys, NoKeys, 0)
  BY DEF ViewInit, NewView, ViewOf
<1>3. changes = NoKeys /\ ViewsAnswerRightly
  BY DEF ViewInit, ViewsAnswerRightly
<1> QED
  BY <1>1, <1>2, <1>3 DEF ViewInv, IsView

LEMMA StepIsRight == ViewInv /\ [ViewNext]_view_vars => ViewInv'
<1> SUFFICES ASSUME ViewInv, [ViewNext]_view_vars PROVE ViewInv'
  OBVIOUS
<1>0. IsView(shared_view, changes)
  BY DEF ViewInv
<1>s. ASSUME UNCHANGED storage, NEW r, NEW due, Answers(r, due), r.value = due, IsView(r.view, changes')
      PROVE  ViewInv'
  <2>1. shared_view' = r.view /\ ViewsAnswerRightly'
    BY <1>s DEF Answers, ViewsAnswerRightly
  <2> QED
    BY <1>s, <2>1 DEF ViewInv, IsView, CacheIsFilled, InStorage
<1>1. CASE ViewNext /\ ReadValue
  BY <1>0, <1>1, <1>s, ReadIsRight DEF ViewNext, ReadValue, read_value
<1>2. CASE ViewNext /\ SetValue
  <2>1. PICK key \in ViewSlots, value \in ViewValues \union {0} :
          Answers(set_value(storage, shared_view, key, value), InView(key)) /\ changes' = With(changes, key, value)
    BY <1>2 DEF SetValue
  <2> DEFINE o == get_value_no_log(storage, shared_view, key)
  <2>2. PICK r, i, n : o.view = ViewOf(changes, r, i, n) /\ CacheIsFilled(r, i, n)
    BY <1>0, ReadIsRight DEF IsView
  <2>3. set_value(storage, shared_view, key, value) = [value |-> o.value, view |-> ViewOf(changes', r, i, n)]
    BY <2>1, <2>2 DEF set_value, ViewOf
  <2>4. IsView(ViewOf(changes', r, i, n), changes')
    BY <2>2 DEF IsView
  <2> QED
    BY <1>0, <1>2, <1>s, <2>1, <2>3, <2>4, ReadIsRight DEF ViewNext
<1>3. CASE ViewNext /\ IsWriteInitial
  <2>1. PICK key \in ViewSlots :
          Answers(ViewIsInitial(storage, shared_view, key), SnapshotIndex(storage, key) = <<>>) /\ UNCHANGED changes
    BY <1>3 DEF IsWriteInitial
  <2>2. SnapshotIsInitial(storage, key) = (SnapshotIndex(storage, key) = <<>>)
    BY DEF SnapshotIndex, SnapshotIsInitial
  <2> QED
    BY <1>0, <1>3, <1>s, <2>1, <2>2, IsInitialIsRight DEF ViewNext
<1>4. CASE ViewNext /\ ReadImmutable
  BY <1>0, <1>4, <1>s, CachedReadIsRight DEF ViewNext, ReadImmutable, ImmutableRead
<1>5. CASE ViewNext /\ IsBytecodeKnown
  <2>1. PICK key \in ViewSlots :
          Answers(is_bytecode_known(storage, shared_view, key), InStorage(key) # 0) /\ UNCHANGED changes
    BY <1>5 DEF IsBytecodeKnown
  <2> DEFINE read == CachedRead(storage, shared_view, key)
  <2>2. is_bytecode_known(storage, shared_view, key) = [value |-> read.value # 0, view |-> read.view]
    BY DEF is_bytecode_known, ImmutableRead
  <2>3. read.value = InStorage(key) /\ IsView(read.view, changes)
    BY <1>0, CachedReadIsRight
  <2> QED
    BY <1>5, <1>s, <2>1, <2>2, <2>3 DEF ViewNext
<1>6. CASE UNCHANGED view_vars
  BY <1>6 DEF view_vars, ViewInv, IsView, CacheIsFilled, ViewsAnswerRightly, InStorage
<1> QED
  BY <1>1, <1>2, <1>3, <1>4, <1>5, <1>6 DEF ViewNext

\* Both users of the view are answered rightly (get_value_no_log(), ImmutableStorageView,
\* is_write_initial()), for every storage and any sequence of calls.
THEOREM AnswersAreRight == ViewSpec => []ViewsAnswerRightly
<1>1. ViewInv => ViewsAnswerRightly
  BY DEF ViewInv
<1> QED
  BY <1>1, InitIsRight, StepIsRight, PTL DEF ViewSpec

\* What is reported as read is what the storage had, and is counted once for each slot
\* (read_storage_keys(), missed_storage_invocations()), for every storage and any calls.
THEOREM CacheIsRight == ViewSpec => []CacheIsOfTheStorage
<1>1. ViewInv => CacheIsOfTheStorage
  BY DEF ViewInv, IsView, ViewOf, CacheIsFilled, CacheIsOfTheStorage
<1> QED
  BY <1>1, InitIsRight, StepIsRight, PTL DEF ViewSpec

\* Both users of the view are answered rightly and its cache is right, together.
THEOREM ViewsStayRight == ViewSpec => []ViewsAreRight
<1>1. ViewsAnswerRightly /\ CacheIsOfTheStorage => ViewsAreRight
  BY DEF ViewsAreRight
<1> QED
  BY <1>1, AnswersAreRight, CacheIsRight, PTL

-----------------------------------------------------------------------------
(***************************************************************************)
(* The world of the fast VM: the invariant.                                 *)
(***************************************************************************)
Bytes == Seq(0..(CodeByte - 1))

AllEraCodes == EraCodes \union SnapshotCodes \union {DefaultAccount}

IsWorld(w) ==
    w = [dynamic_bytecodes |-> w.dynamic_bytecodes, program_cache |-> w.program_cache,
         bytecode_cache |-> w.bytecode_cache, expected_ecrecover_call |-> w.expected_ecrecover_call]

IsDiff(d) == d = [known |-> d.known, code |-> d.code]

FromTransactions(cache) ==
    \A h \in DOMAIN cache : cache[h] \in EraCodes /\ for_bytecode(cache[h]) = h

FromContracts(cache) ==
    \A h \in DOMAIN cache : \E raw \in EvmCodes : h = EvmHash(raw) /\ cache[h] = pad_evm_bytecode(raw)

Decoded(cache) ==
    \A h \in DOMAIN cache : \E c \in AllEraCodes : h = for_bytecode(c) /\ cache[h] = Program(c)

CachesAreRight(w) ==
    /\ IsWorld(w)
    /\ FromTransactions(w.bytecode_cache)
    /\ FromContracts(w.dynamic_bytecodes)
    /\ Decoded(w.program_cache)
    /\ for_bytecode(DefaultAccount) \in DOMAIN w.program_cache

StorageHashes == {for_bytecode(c) : c \in SnapshotCodes \union {DefaultAccount}}

\* What the changes d say is known or deployed can be loaded.
Covered(d, w) ==
    /\ IsDiff(d)
    /\ d.known \subseteq DOMAIN w.bytecode_cache \union DOMAIN w.dynamic_bytecodes
    /\ \A a \in DOMAIN d.code : d.code[a] \in d.known \union StorageHashes

IsCache(v) ==
    v = [modified_storage_keys |-> v.modified_storage_keys, read_storage_keys |-> v.read_storage_keys,
         initial_writes |-> v.initial_writes, storage_invocations_missed |-> v.storage_invocations_missed]

ReadsAreOfTheSnapshot(v) ==
    /\ IsCache(v)
    /\ \A k \in DOMAIN v.read_storage_keys : v.read_storage_keys[k] = SnapshotValue(Snapshot, k)

\* An answer is prepared only for an account that has no code, or had none before the batch.
Prepared(w, t) ==
    \/ w.expected_ecrecover_call = <<>>
    \/ /\ w.expected_ecrecover_call = <<[input |-> t.input, output |-> t.account]>>
       /\ t.input.signer = t.account \/ t.account \in DOMAIN t.before.code

MarksAreKnown(w, d, marks) ==
    /\ marks \subseteq d.known
    /\ \A h \in marks : h[2] = "Evm" => h \in DOMAIN w.dynamic_bytecodes

InTransaction(t, w, d, marks) ==
    /\ t.codes \subseteq EraCodes
    /\ \A c \in t.codes : for_bytecode(c) \in DOMAIN w.bytecode_cache
    /\ Covered(t.before, w)
    /\ DOMAIN t.before.code \subseteq DOMAIN d.code
    /\ t.input = [account |-> t.account, signer |-> t.input.signer]
    /\ Prepared(w, t)
    /\ MarksAreKnown(w, d, marks)

WorldInv ==
    /\ CachesAreRight(world)
    /\ ReadsAreOfTheSnapshot(view)
    /\ Covered(diff, world)
    /\ tx # NoWorldTx => InTransaction(tx, world, diff, marked)
    /\ ServedCodeHasItsHash
    /\ DynamicDepsAreKept

-----------------------------------------------------------------------------
(***************************************************************************)
(* Bytecodes.                                                               *)
(***************************************************************************)
LEMMA Widths == /\ CodeWordLen \in Nat \ {0} /\ LenModulus \in Nat \ {0}
                /\ MAX_BYTECODE_LENGTH_BYTES \in Nat
<1>1. CodeWordLen \in Nat \ {0} /\ LenModulus \in Nat \ {0}  BY BytecodesAssumption
<1>2. LenModulus - 1 \in Nat  BY <1>1
<1>3. PICK k \in Nat : k = LenModulus - 1  BY <1>2
<1>4. k * CodeWordLen \in Nat  BY <1>1
<1> QED BY <1>1, <1>3, <1>4 DEF MAX_BYTECODE_LENGTH_BYTES, MAX_BYTECODE_LENGTH_IN_WORDS

\* The bytecodes of the three sources are valid.
LEMMA EraCodesAreValid ==
    ASSUME NEW c \in AllEraCodes
    PROVE  c \in Bytes /\ validate_bytecode(c)
BY WorldAssumption DEF AllEraCodes, Bytes

\* A hash tells its kind.
LEMMA HashOfEraCode ==
    ASSUME NEW c, validate_bytecode(c)
    PROVE  /\ for_bytecode(c) = CodeHash("EraVm", (Len(c) \div CodeWordLen) % LenModulus, c)
           /\ for_bytecode(c)[2] = "EraVm"
BY DEF for_bytecode, for_generic_bytecode, CodeHash

\* The bytes of a decoded program are those of the bytecode.
LEMMA ProgramKeepsCode ==
    ASSUME NEW c \in Bytes, validate_bytecode(c)
    PROVE  code_page_bytes(Program(c)) = c
<1> DEFINE W == CodeWordLen
           n == Len(c) \div W
<1>1. W \in Nat \ {0} /\ Len(c) \in Nat  BY Widths DEF Bytes
<1>2. Len(c) % W = 0  BY DEF validate_bytecode
<1>3. n \in Nat /\ n * W = Len(c)  BY <1>1, <1>2
<1>4. Program(c) = [i \in 1..n |-> SubSeq(c, (i - 1) * W + 1, i * W)]  BY DEF Program, CodeChunks
<1>5. Len(Program(c)) = n  BY <1>3, <1>4
<1>6. \A i \in 1..Len(c) : Program(c)[((i - 1) \div W) + 1][((i - 1) % W) + 1] = c[i]
  <2> SUFFICES ASSUME NEW i \in 1..Len(c)
               PROVE  Program(c)[((i - 1) \div W) + 1][((i - 1) % W) + 1] = c[i]
    OBVIOUS
  <2>1. PICK q : q = (i - 1) \div W  OBVIOUS
  <2>2. PICK r : r = (i - 1) % W  OBVIOUS
  <2>3. q \in Nat /\ r \in 0..(W - 1) /\ i - 1 = W * q + r  BY <1>1, <2>1, <2>2
  <2>4. q + 1 <= n
    <3>1. W * q < W * n  BY <1>1, <1>3, <2>3
    <3>2. \A x, y, w \in Nat : w * x < w * y => x + 1 <= y
      <4> TAKE x, y, w \in Nat
      <4> HAVE w * x < w * y
      <4>1. CASE x >= y
        <5>1. PICK d \in Nat : x = y + d  BY <4>1
        <5>2. w * x = w * y + w * d /\ w * d \in Nat /\ w * y \in Nat  BY <5>1
        <5> QED BY <5>2
      <4> QED BY <4>1
    <3> HIDE DEF n, W
    <3> QED BY <1>1, <1>3, <2>3, <3>1, <3>2
  <2>5. Program(c)[q + 1] = SubSeq(c, q * W + 1, (q + 1) * W)
    <3>1. PICK p : p = q + 1  OBVIOUS
    <3>2. p \in 1..n /\ p - 1 = q  BY <1>3, <2>3, <2>4, <3>1
    <3>3. Program(c)[p] = SubSeq(c, (p - 1) * W + 1, p * W)  BY Zenon, <1>4, <3>2
    <3> QED BY Zenon, <3>1, <3>2, <3>3
  <2>6. /\ q * W \in Nat /\ (q + 1) * W \in Nat /\ (q + 1) * W = q * W + W
        /\ q * W + 1 >= 1 /\ i = q * W + (r + 1)
    BY <1>1, <2>3
  <2>7. SubSeq(c, q * W + 1, (q + 1) * W)[r + 1] = c[q * W + (r + 1)]
    <3>1. PICK a : a = q * W  OBVIOUS
    <3>2. a \in Nat /\ SubSeq(c, q * W + 1, (q + 1) * W) = SubSeq(c, a + 1, a + W)  BY ZenonT(20), <2>6, <3>1
    <3>3. SubSeq(c, a + 1, a + W) = [j \in 1..W |-> c[a + j]]
      BY <1>1, <3>2 DEF Bytes
    <3> QED BY <1>1, <2>3, <3>1, <3>2, <3>3
  <2> QED BY Zenon, <2>1, <2>2, <2>5, <2>6, <2>7
<1>7. code_page_bytes(Program(c)) = [i \in 1..Len(c) |-> c[i]]
  BY <1>3, <1>5, <1>6 DEF code_page_bytes, be_words_to_bytes
<1> QED BY <1>7 DEF Bytes

\* A valid bytecode consists of whole words.
LEMMA CodeIsWhole ==
    ASSUME NEW c \in Bytes, validate_bytecode(c)
    PROVE  SubSeq(c, 1, Len(c) - (Len(c) % CodeWordLen)) = c
<1>1. Len(c) \in Nat /\ Len(c) % CodeWordLen = 0  BY DEF Bytes, validate_bytecode
<1>2. Len(c) - (Len(c) % CodeWordLen) = Len(c)  BY <1>1
<1>3. SubSeq(c, 1, Len(c)) = c  BY DEF Bytes
<1> QED BY <1>2, <1>3

\* To the next multiple of a word, and by one word if their number is even.
LEMMA Padding ==
    ASSUME NEW n \in Nat, NEW w \in Nat \ {0}
    PROVE  /\ (w - (n % w)) % w \in 0..(w - 1)
           /\ (n + ((w - (n % w)) % w)) % w = 0
<1>1. PICK q, r : q = n \div w /\ r = n % w  OBVIOUS
<1>2. q \in Nat /\ r \in 0..(w - 1) /\ n = w * q + r  BY <1>1
<1>3. CASE r = 0
  <2>1. (w - r) % w = 0  BY <1>2, <1>3
  <2>2. (w - (n % w)) % w = 0 /\ n % w = 0  BY <1>1, <1>3, <2>1
  <2>3. n + 0 = n  OBVIOUS
  <2> QED BY <1>2, <2>2, <2>3
<1>4. CASE r > 0
  <2>1. (w - r) % w = w - r  BY <1>2, <1>4
  <2>2. n + (w - r) = w * (q + 1) /\ q + 1 \in Nat  BY <1>2
  <2>3. (w * (q + 1)) % w = 0  BY <2>2
  <2> QED BY <1>1, <1>2, <1>4, <2>1, <2>2, <2>3
<1> QED BY <1>2, <1>3, <1>4

\* A padded EVM bytecode is a valid one.
LEMMA PaddedIsValid ==
    ASSUME NEW raw \in EvmCodes
    PROVE  pad_evm_bytecode(raw) \in Bytes /\ validate_bytecode(pad_evm_bytecode(raw))
<1>1. PICK w : w = CodeWordLen  OBVIOUS
<1>2. PICK n : n = Len(raw)  BY Zenon
<1>3. raw \in Bytes /\ n \in Nat /\ w \in Nat \ {0}  BY <1>1, <1>2, Widths, WorldAssumption DEF Bytes
<1>4. PICK z : z = (w - (n % w)) % w  OBVIOUS
<1>5. z \in Nat /\ (n + z) % w = 0  BY <1>3, <1>4, Padding
<1>6. \A k \in Nat : Zeros(k) \in Bytes /\ Len(Zeros(k)) = k
  BY BytecodesAssumption DEF Zeros, Bytes
<1>7. PICK words : words = raw \o Zeros(z)  BY Zenon
<1>8. words \in Bytes /\ Len(words) = n + z  BY <1>2, <1>3, <1>5, <1>6, <1>7 DEF Bytes
<1>9. pad_evm_bytecode(raw) = IF (Len(words) \div w) % 2 = 0 THEN words \o Zeros(w) ELSE words
  BY <1>1, <1>2, <1>4, <1>7 DEF pad_evm_bytecode
<1>10. PICK k \in Nat : n + z = w * k
  <2>1. PICK s \in Nat : s = n + z  BY <1>3, <1>5
  <2>2. PICK q \in Nat : q = s \div w  BY <1>3, <2>1
  <2>3. s = w * q + (s % w) /\ s % w = 0  BY <1>3, <1>5, <2>1, <2>2
  <2>4. w * q \in Nat  BY <1>3, <2>2
  <2> QED BY <2>1, <2>2, <2>3, <2>4
<1>11. (n + z) \div w = k /\ (n + z + w) \div w = k + 1 /\ (n + z + w) % w = 0
  <2>1. (w * k) \div w = k  BY <1>3
  <2>2. n + z + w = w * (k + 1)  BY <1>3, <1>10
  <2>3. (w * (k + 1)) \div w = k + 1 /\ (w * (k + 1)) % w = 0  BY <1>3
  <2> QED BY <1>10, <2>1, <2>2, <2>3
<1>12. CASE k % 2 = 0
  <2>1. pad_evm_bytecode(raw) = words \o Zeros(w)  BY <1>8, <1>9, <1>11, <1>12
  <2>2. pad_evm_bytecode(raw) \in Bytes /\ Len(pad_evm_bytecode(raw)) = n + z + w
    <3>1. PICK zs : zs = Zeros(w)  OBVIOUS
    <3>2. zs \in Bytes /\ Len(zs) = w  BY <1>3, <1>6, <3>1
    <3>3. words \o zs \in Bytes /\ Len(words \o zs) = Len(words) + Len(zs)  BY <1>8, <3>2 DEF Bytes
    <3> QED BY <1>8, <2>1, <3>1, <3>2, <3>3
  <2>3. (k + 1) % 2 = 1  BY <1>12
  <2> QED BY <1>1, <1>11, <2>2, <2>3, WorldAssumption DEF validate_bytecode
<1>13. CASE k % 2 # 0
  <2>1. pad_evm_bytecode(raw) = words  BY Zenon, <1>8, <1>9, <1>11, <1>13
  <2>2. k % 2 = 1  BY <1>13
  <2> QED BY <1>1, <1>5, <1>8, <1>11, <2>1, <2>2, WorldAssumption DEF validate_bytecode
<1> QED BY <1>12, <1>13

\* The hash of an EVM bytecode holds its length, and the padded form has this hash.
LEMMA HashOfEvmCode ==
    ASSUME NEW raw \in EvmCodes, NEW h, h = EvmHash(raw)
    PROVE  /\ h = for_evm_bytecode(Len(raw), pad_evm_bytecode(raw))
           /\ h[2] = "Evm"
           /\ for_evm_bytecode(h[3], pad_evm_bytecode(raw)) = h
<1>1. PICK c : c = pad_evm_bytecode(raw)  OBVIOUS
<1>2. validate_bytecode(c)  BY <1>1, PaddedIsValid
<1>3. \A len : for_evm_bytecode(len, c) = CodeHash("Evm", len % LenModulus, c)
  BY <1>2 DEF for_evm_bytecode, for_generic_bytecode
<1>4. h = CodeHash("Evm", Len(raw) % LenModulus, c)  BY <1>1, <1>3 DEF EvmHash, for_raw_evm_bytecode
<1>5. h[2] = "Evm" /\ h[3] = Len(raw) % LenModulus  BY <1>4 DEF CodeHash
<1>6. Len(raw) \in Nat  BY WorldAssumption
<1>7. (Len(raw) % LenModulus) % LenModulus = Len(raw) % LenModulus  BY <1>6, Widths
<1> QED BY <1>1, <1>3, <1>4, <1>5, <1>7

-----------------------------------------------------------------------------
(***************************************************************************)
(* The operations of the world.                                             *)
(***************************************************************************)
\* Does this bytecode have this hash?
HasHash(c, h) ==
    IF h[2] = "EraVm" THEN for_bytecode(c) = h ELSE for_evm_bytecode(h[3], c) = h

Loadable(w) ==
    DOMAIN w.bytecode_cache \union DOMAIN w.dynamic_bytecodes \union {for_bytecode(c) : c \in SnapshotCodes}

LEMMA OkIsNoPanic == \A x : <<"ok", x>> # CodePanic
BY DEF CodePanic

\* The sources of bytecodes agree with the hashes they are asked for.
LEMMA RawBytecodeIsRight ==
    ASSUME NEW w, CachesAreRight(w), NEW h \in Loadable(w)
    PROVE  \E c \in Bytes : /\ raw_bytecode(w, h) = <<"ok", c>>
                            /\ validate_bytecode(c) /\ HasHash(c, h)
                            /\ h[2] = "EraVm" => c \in AllEraCodes
<1>1. CASE h \in DOMAIN w.bytecode_cache
  <2>1. PICK c : c = w.bytecode_cache[h]  OBVIOUS
  <2>2. c \in EraCodes /\ for_bytecode(c) = h  BY <1>1, <2>1 DEF CachesAreRight, FromTransactions
  <2>3. c \in AllEraCodes  BY <2>2 DEF AllEraCodes
  <2>4. c \in Bytes /\ validate_bytecode(c)  BY <2>3, EraCodesAreValid
  <2>5. h[2] = "EraVm"  BY <2>2, <2>4, HashOfEraCode
  <2>6. raw_bytecode(w, h) = <<"ok", c>>  BY <1>1, <2>1 DEF raw_bytecode
  <2> QED BY <2>2, <2>3, <2>4, <2>5, <2>6 DEF HasHash
<1>2. CASE h \notin DOMAIN w.bytecode_cache /\ h \in DOMAIN w.dynamic_bytecodes
  <2>1. PICK raw \in EvmCodes : h = EvmHash(raw) /\ w.dynamic_bytecodes[h] = pad_evm_bytecode(raw)
    BY <1>2 DEF CachesAreRight, FromContracts
  <2>2. PICK c : c = pad_evm_bytecode(raw)  OBVIOUS
  <2>3. c \in Bytes /\ validate_bytecode(c)  BY <2>2, PaddedIsValid
  <2>4. h[2] = "Evm" /\ for_evm_bytecode(h[3], c) = h  BY <2>1, <2>2, HashOfEvmCode
  <2>5. raw_bytecode(w, h) = <<"ok", c>>  BY <1>2, <2>1, <2>2 DEF raw_bytecode
  <2> QED BY <2>3, <2>4, <2>5 DEF HasHash
<1>3. CASE h \notin DOMAIN w.bytecode_cache /\ h \notin DOMAIN w.dynamic_bytecodes
  <2> DEFINE found == {c \in SnapshotCodes : for_bytecode(c) = h}
  <2>1. found # {}  BY <1>3 DEF Loadable
  <2>2. PICK c : c = CHOOSE x \in found : TRUE  OBVIOUS
  <2>3. c \in found  BY <2>1, <2>2
  <2>4. c \in SnapshotCodes /\ for_bytecode(c) = h  BY <2>3
  <2>5. load_factory_dep(h) = <<c>>  BY <2>1, <2>2 DEF load_factory_dep
  <2>6. <<c>> # <<>> /\ <<c>>[1] = c  OBVIOUS
  <2>7. raw_bytecode(w, h) = <<"ok", c>>  BY <1>3, <2>5, <2>6 DEF raw_bytecode
  <2>8. c \in AllEraCodes  BY <2>4 DEF AllEraCodes
  <2>9. c \in Bytes /\ validate_bytecode(c)  BY <2>8, EraCodesAreValid
  <2>10. h[2] = "EraVm"  BY <2>4, <2>9, HashOfEraCode
  <2> QED BY <2>4, <2>7, <2>8, <2>9, <2>10 DEF HasHash
<1> QED BY <1>1, <1>2, <1>3

\* So do the decoded programs.
LEMMA ProgramIsRight ==
    ASSUME NEW w, CachesAreRight(w), NEW h \in DOMAIN w.program_cache
    PROVE  \E c \in AllEraCodes : /\ w.program_cache[h] = Program(c)
                                  /\ h = for_bytecode(c) /\ h[2] = "EraVm"
                                  /\ code_page_bytes(w.program_cache[h]) = c
<1>1. PICK c \in AllEraCodes : h = for_bytecode(c) /\ w.program_cache[h] = Program(c)
  BY DEF CachesAreRight, Decoded
<1>2. c \in Bytes /\ validate_bytecode(c)  BY EraCodesAreValid
<1>3. code_page_bytes(Program(c)) = c  BY <1>2, ProgramKeepsCode
<1>4. h[2] = "EraVm"  BY <1>1, <1>2, HashOfEraCode
<1> QED BY <1>1, <1>3, <1>4

\* What is known or deployed can be loaded or is in the cache of programs.
LEMMA StorageIsCovered ==
    ASSUME NEW w, CachesAreRight(w), NEW d, Covered(d, w)
    PROVE  d.known \union StorageHashes \subseteq Loadable(w) \union DOMAIN w.program_cache
<1>1. d.known \subseteq Loadable(w)  BY DEF Covered, Loadable
<1>2. StorageHashes \subseteq {for_bytecode(c) : c \in SnapshotCodes} \union {for_bytecode(DefaultAccount)}
  BY DEF StorageHashes
<1>3. for_bytecode(DefaultAccount) \in DOMAIN w.program_cache  BY DEF CachesAreRight
<1> QED BY <1>1, <1>2, <1>3 DEF Loadable

\* decommit_code() finds it.
LEMMA CodeIsFound ==
    ASSUME NEW w, CachesAreRight(w), NEW h \in Loadable(w) \union DOMAIN w.program_cache
    PROVE  \E c : decommit_code(w, h) = <<"ok", c>> /\ HasHash(c, h)
<1>1. CASE h \in DOMAIN w.program_cache
  <2>1. PICK c \in AllEraCodes : h = for_bytecode(c) /\ h[2] = "EraVm" /\ code_page_bytes(w.program_cache[h]) = c
    BY <1>1, ProgramIsRight
  <2>2. decommit_code(w, h) = <<"ok", c>>  BY <1>1, <2>1 DEF decommit_code
  <2> QED BY <2>1, <2>2 DEF HasHash
<1>2. CASE h \notin DOMAIN w.program_cache
  <2>1. PICK c \in Bytes : raw_bytecode(w, h) = <<"ok", c>> /\ validate_bytecode(c) /\ HasHash(c, h)
    BY <1>2, RawBytecodeIsRight
  <2>2. SubSeq(c, 1, Len(c) - (Len(c) % CodeWordLen)) = c  BY <2>1, CodeIsWhole
  <2>3. raw_bytecode(w, h) # CodePanic /\ raw_bytecode(w, h)[2] = c  BY <2>1, OkIsNoPanic
  <2>4. decommit_code(w, h) = <<"ok", c>>  BY Zenon, <1>2, <2>2, <2>3 DEF decommit_code
  <2> QED BY <2>1, <2>4
<1> QED BY <1>1, <1>2

\* decommit() finds the same and caches it.
LEMMA ProgramIsFound ==
    ASSUME NEW w, CachesAreRight(w), NEW h \in Loadable(w) \union DOMAIN w.program_cache, h[2] = "EraVm",
           NEW d, d = decommit(w, h)
    PROVE  /\ d.result # CodePanic
           /\ for_bytecode(code_page_bytes(d.result[2])) = h
           /\ CachesAreRight(d.world)
           /\ d.world.bytecode_cache = w.bytecode_cache
           /\ d.world.dynamic_bytecodes = w.dynamic_bytecodes
           /\ d.world.expected_ecrecover_call = w.expected_ecrecover_call
<1>1. CASE h \in DOMAIN w.program_cache
  <2>1. d.result = <<"ok", w.program_cache[h]>> /\ d.world = w  BY <1>1 DEF decommit
  <2>2. for_bytecode(code_page_bytes(w.program_cache[h])) = h  BY <1>1, ProgramIsRight
  <2>3. d.result # CodePanic /\ d.result[2] = w.program_cache[h]  BY <2>1, OkIsNoPanic
  <2> QED BY <2>1, <2>2, <2>3
<1>2. CASE h \notin DOMAIN w.program_cache
  <2>1. PICK c \in Bytes : /\ raw_bytecode(w, h) = <<"ok", c>> /\ validate_bytecode(c)
                           /\ HasHash(c, h) /\ c \in AllEraCodes
    BY <1>2, RawBytecodeIsRight
  <2>2. raw_bytecode(w, h) # CodePanic /\ raw_bytecode(w, h)[2] = c  BY <2>1, OkIsNoPanic
  <2>3. PICK cache : cache = With(w.program_cache, h, Program(c))  OBVIOUS
  <2>4. d.result = <<"ok", Program(c)>> /\ d.world = [w EXCEPT !.program_cache = cache]
    BY <1>2, <2>2, <2>3 DEF decommit
  <2>5. for_bytecode(c) = h  BY <2>1 DEF HasHash
  <2>6. code_page_bytes(Program(c)) = c  BY <2>1, ProgramKeepsCode
  <2>7. d.result # CodePanic /\ d.result[2] = Program(c)  BY <2>4, OkIsNoPanic
  <2>8. IsWorld(w)  BY DEF CachesAreRight
  <2>9. /\ d.world.bytecode_cache = w.bytecode_cache /\ d.world.dynamic_bytecodes = w.dynamic_bytecodes
        /\ d.world.expected_ecrecover_call = w.expected_ecrecover_call /\ d.world.program_cache = cache
        /\ IsWorld(d.world)
    BY <2>4, <2>8 DEF IsWorld
  <2>10. DOMAIN cache = DOMAIN w.program_cache \union {h}  BY <2>3 DEF With
  <2>11. /\ cache[h] = Program(c)
         /\ \A k \in DOMAIN w.program_cache : k # h => cache[k] = w.program_cache[k]
    BY <2>3 DEF With
  <2>12. Decoded(cache)  BY <2>1, <2>5, <2>10, <2>11 DEF CachesAreRight, Decoded
  <2> QED BY <2>5, <2>6, <2>7, <2>9, <2>10, <2>12 DEF CachesAreRight
<1> QED BY <1>1, <1>2

\* The caches only grow.
Grows(w, n) ==
    /\ DOMAIN w.bytecode_cache \subseteq DOMAIN n.bytecode_cache
    /\ DOMAIN w.dynamic_bytecodes \subseteq DOMAIN n.dynamic_bytecodes

LEMMA StaysCovered ==
    ASSUME NEW w, NEW n, Grows(w, n), NEW d, Covered(d, w)
    PROVE  Covered(d, n)
BY DEF Covered, Grows

\* A push adds the factory dependencies of the transaction.
LEMMA InsertedBytecodes ==
    ASSUME NEW w, CachesAreRight(w), NEW codes, codes \subseteq EraCodes, NEW n, n = insert_bytecodes(w, codes)
    PROVE  /\ CachesAreRight(n) /\ Grows(w, n)
           /\ \A c \in codes : for_bytecode(c) \in DOMAIN n.bytecode_cache
<1> DEFINE hashes == {for_bytecode(c) : c \in codes}
<1>1. PICK cache : cache = [h \in DOMAIN w.bytecode_cache \union hashes |->
                               IF h \in hashes THEN CHOOSE c \in codes : for_bytecode(c) = h
                               ELSE w.bytecode_cache[h]]
  BY Zenon
<1>2. n = [w EXCEPT !.bytecode_cache = cache]  BY <1>1 DEF insert_bytecodes
<1>3. IsWorld(w)  BY DEF CachesAreRight
<1>4. /\ n.bytecode_cache = cache /\ n.dynamic_bytecodes = w.dynamic_bytecodes
      /\ n.program_cache = w.program_cache /\ IsWorld(n)
  BY <1>2, <1>3 DEF IsWorld
<1>5. DOMAIN cache = DOMAIN w.bytecode_cache \union hashes  BY <1>1
<1>6. FromTransactions(cache)
  <2> SUFFICES ASSUME NEW h \in DOMAIN cache
               PROVE  cache[h] \in EraCodes /\ for_bytecode(cache[h]) = h
    BY DEF FromTransactions
  <2>1. CASE h \in hashes
    <3>1. cache[h] = CHOOSE c \in codes : for_bytecode(c) = h  BY <1>1, <1>5, <2>1
    <3>2. \E c \in codes : for_bytecode(c) = h  BY <2>1
    <3>3. cache[h] \in codes /\ for_bytecode(cache[h]) = h  BY <3>1, <3>2
    <3> QED BY <3>3
  <2>2. CASE h \notin hashes
    <3>1. cache[h] = w.bytecode_cache[h] /\ h \in DOMAIN w.bytecode_cache  BY <1>1, <1>5, <2>2
    <3> QED BY <3>1 DEF CachesAreRight, FromTransactions
  <2> QED BY <2>1, <2>2
<1>7. CachesAreRight(n)  BY <1>4, <1>6 DEF CachesAreRight
<1> QED BY <1>4, <1>5, <1>7 DEF Grows

\* A call of publishEVMBytecode() adds the bytecode under its hash.
LEMMA PublishedBytecode ==
    ASSUME NEW w, CachesAreRight(w), NEW raw \in EvmCodes,
           NEW n, n = handle_far_call(w, Len(raw), pad_evm_bytecode(raw))
    PROVE  /\ CachesAreRight(n) /\ Grows(w, n)
           /\ n.bytecode_cache = w.bytecode_cache
           /\ n.expected_ecrecover_call = w.expected_ecrecover_call
           /\ EvmHash(raw) \in DOMAIN n.dynamic_bytecodes
<1>1. PICK h : h = EvmHash(raw)  OBVIOUS
<1>2. h = for_evm_bytecode(Len(raw), pad_evm_bytecode(raw))  BY <1>1, HashOfEvmCode
<1>3. PICK cache : cache = With(w.dynamic_bytecodes, h, pad_evm_bytecode(raw))  OBVIOUS
<1>4. n = [w EXCEPT !.dynamic_bytecodes = cache]  BY <1>2, <1>3 DEF handle_far_call
<1>5. IsWorld(w)  BY DEF CachesAreRight
<1>6. /\ n.dynamic_bytecodes = cache /\ n.bytecode_cache = w.bytecode_cache
      /\ n.program_cache = w.program_cache
      /\ n.expected_ecrecover_call = w.expected_ecrecover_call /\ IsWorld(n)
  BY <1>4, <1>5 DEF IsWorld
<1>7. /\ DOMAIN cache = DOMAIN w.dynamic_bytecodes \union {h}
      /\ cache[h] = pad_evm_bytecode(raw)
      /\ \A k \in DOMAIN w.dynamic_bytecodes : k # h => cache[k] = w.dynamic_bytecodes[k]
  BY <1>3 DEF With
<1>8. FromContracts(cache)  BY <1>1, <1>7 DEF CachesAreRight, FromContracts
<1>9. CachesAreRight(n)  BY <1>6, <1>8 DEF CachesAreRight
<1> QED BY <1>1, <1>6, <1>7, <1>9 DEF Grows

\* has_default_aa() tells the accounts that have code before the batch, from the cache or not.
LEMMA DefaultAccounts ==
    ASSUME NEW v, ReadsAreOfTheSnapshot(v), NEW a \in Accounts, NEW r, r = has_default_aa(v, a)
    PROVE  ReadsAreOfTheSnapshot(r.view) /\ (r.value = 0 => a \notin Contracts)
<1>1. PICK k : k = CodeSlot(a)  OBVIOUS
<1>2. Snapshot[k] = IF a \in Contracts THEN <<1, 1>> ELSE <<>>  BY <1>1 DEF Snapshot, CodeSlot
<1>3. PICK x : x = SnapshotValue(Snapshot, k)  OBVIOUS
<1>4. a \in Contracts => x = 1
  <2>1. <<1, 1>> # <<>> /\ <<1, 1>>[1] = 1  OBVIOUS
  <2> QED BY <1>2, <1>3, <2>1 DEF SnapshotValue
<1>5. CASE k \in DOMAIN v.read_storage_keys
  <2>1. r.value = v.read_storage_keys[k] /\ r.view = v
    BY <1>1, <1>5 DEF has_default_aa, ImmutableRead, CachedRead
  <2>2. v.read_storage_keys[k] = x  BY <1>3, <1>5 DEF ReadsAreOfTheSnapshot
  <2> QED BY <1>4, <2>1, <2>2
<1>6. CASE k \notin DOMAIN v.read_storage_keys
  <2>1. PICK cache : cache = With(v.read_storage_keys, k, x)  OBVIOUS
  <2>2. PICK u : u = [v EXCEPT !.read_storage_keys = cache,
                               !.storage_invocations_missed = v.storage_invocations_missed + 1]
    OBVIOUS
  <2>3. r.value = x /\ r.view = u
    BY <1>1, <1>3, <1>6, <2>1, <2>2 DEF has_default_aa, ImmutableRead, CachedRead
  <2>4. IsCache(v)  BY DEF ReadsAreOfTheSnapshot
  <2>5. u.read_storage_keys = cache /\ IsCache(u)  BY Zenon, <2>2, <2>4 DEF IsCache
  <2>6. /\ DOMAIN cache = DOMAIN v.read_storage_keys \union {k} /\ cache[k] = x
        /\ \A j \in DOMAIN v.read_storage_keys : j # k => cache[j] = v.read_storage_keys[j]
    BY <2>1 DEF With
  <2>7. ReadsAreOfTheSnapshot(u)  BY <1>3, <2>5, <2>6 DEF ReadsAreOfTheSnapshot
  <2> QED BY <1>4, <2>3, <2>7
<1> QED BY <1>5, <1>6

-----------------------------------------------------------------------------
(***************************************************************************)
(* The steps.                                                               *)
(***************************************************************************)
LEMMA InitiallyRight == WorldInit => WorldInv
<1> SUFFICES ASSUME WorldInit PROVE WorldInv  OBVIOUS
<1>1. PICK h : h = for_bytecode(DefaultAccount)  OBVIOUS
<1>2. PICK cache : cache = With(NoKeys, h, Program(DefaultAccount))  OBVIOUS
<1>3. DOMAIN NoKeys = {}  BY DEF NoKeys
<1>4. DOMAIN cache = {h} /\ cache[h] = Program(DefaultAccount)  BY <1>2, <1>3 DEF With
<1>5. world = [dynamic_bytecodes |-> NoKeys, program_cache |-> cache, bytecode_cache |-> NoKeys,
               expected_ecrecover_call |-> <<>>]
  BY <1>1, <1>2 DEF WorldInit, NewWorld
<1>6. CachesAreRight(world)
  <2>1. DefaultAccount \in AllEraCodes  BY DEF AllEraCodes
  <2>2. Decoded(cache)  BY <1>1, <1>4, <2>1 DEF Decoded
  <2>3. FromTransactions(NoKeys) /\ FromContracts(NoKeys)  BY <1>3 DEF FromTransactions, FromContracts
  <2>4. IsWorld(world)  BY <1>5 DEF IsWorld
  <2> QED BY <1>1, <1>4, <1>5, <2>2, <2>3, <2>4 DEF CachesAreRight
<1>7. ReadsAreOfTheSnapshot(view)  BY <1>3 DEF WorldInit, NewView, ReadsAreOfTheSnapshot, IsCache
<1>8. Covered(diff, world)  BY <1>3 DEF WorldInit, Covered, IsDiff
<1>9. ServedCodeHasItsHash  BY DEF WorldInit, NothingServed, ServedCodeHasItsHash
<1>10. DynamicDepsAreKept  BY <1>3 DEF WorldInit, DynamicDepsAreKept
<1>11. tx = NoWorldTx  BY DEF WorldInit
<1> QED BY <1>6, <1>7, <1>8, <1>9, <1>10, <1>11 DEF WorldInv

\* A transaction is not the absence of one.
LEMMA TransactionIsOne ==
    \A a, b, c, d : [account |-> a, codes |-> b, input |-> c, before |-> d] # NoWorldTx
<1>1. \A a, b, c, d : "account" \in DOMAIN [account |-> a, codes |-> b, input |-> c, before |-> d]  OBVIOUS
<1>2. DOMAIN NoWorldTx = {}  BY DEF NoWorldTx
<1> QED BY <1>1, <1>2

LEMMA PushKeeps ==
    ASSUME WorldInv, NEW account \in Accounts, NEW codes, codes \subseteq EraCodes, NEW signer, NEW skip \in BOOLEAN,
           PushTransaction(account, codes, signer, skip)
    PROVE  WorldInv'
<1>1. PICK input : input = [account |-> account, signer |-> signer]  BY Zenon
<1>2. PICK read : read = IF skip THEN has_default_aa(view, account) ELSE [value |-> 1, view |-> view]  BY Zenon
<1>3. PICK n : n = insert_bytecodes(world, codes)  OBVIOUS
<1>4. PICK e : e = ExpectedCall(skip, read.value, [input |-> input, output |-> account])  OBVIOUS
<1>5. /\ tx' = [account |-> account, codes |-> codes, input |-> input, before |-> diff]
      /\ world' = [n EXCEPT !.expected_ecrecover_call = e]
      /\ view' = read.view /\ marked' = {}
      /\ diff' = diff /\ served' = served /\ deps' = deps
      /\ signer # account => HasCode(account)
  BY <1>1, <1>2, <1>3, <1>4 DEF PushTransaction
<1>6. CachesAreRight(n) /\ Grows(world, n) /\ \A c \in codes : for_bytecode(c) \in DOMAIN n.bytecode_cache
  BY <1>3, InsertedBytecodes DEF WorldInv
<1>7. IsWorld(n)  BY <1>6 DEF CachesAreRight
<1>8. /\ world'.bytecode_cache = n.bytecode_cache /\ world'.dynamic_bytecodes = n.dynamic_bytecodes
      /\ world'.program_cache = n.program_cache /\ world'.expected_ecrecover_call = e
      /\ IsWorld(world')
  BY <1>5, <1>7 DEF IsWorld
<1>9. CachesAreRight(world') /\ Grows(world, world')
  BY <1>6, <1>8 DEF CachesAreRight, Grows
<1>10. ReadsAreOfTheSnapshot(read.view) /\ (skip /\ read.value = 0 => account \notin Contracts)
  <2>1. ReadsAreOfTheSnapshot(view)  BY DEF WorldInv
  <2>2. CASE skip
    <3>1. read = has_default_aa(view, account)  BY <1>2, <2>2
    <3> QED BY <2>1, <3>1, DefaultAccounts
  <2>3. CASE ~skip
    <3>1. read.view = view  BY <1>2, <2>3
    <3> QED BY <2>1, <2>3, <3>1
  <2> QED BY <2>2, <2>3
<1>11. Covered(diff, world')  BY <1>9, StaysCovered DEF WorldInv
<1>12. e = <<>> \/ (e = <<[input |-> input, output |-> account]>> /\ account \notin Contracts)
  BY <1>4, <1>10 DEF ExpectedCall
<1>13. account \notin Contracts /\ signer # account => account \in DOMAIN diff.code
  BY <1>5 DEF HasCode
<1>14. Prepared(world', tx')
  <2>1. tx'.input = input /\ tx'.account = account /\ tx'.before = diff /\ input.signer = signer
    BY <1>1, <1>5
  <2> QED BY <1>8, <1>12, <1>13, <2>1 DEF Prepared
<1>15. InTransaction(tx', world', diff', marked')
  <2>1. /\ tx'.codes = codes /\ tx'.before = diff /\ tx'.account = account /\ tx'.input = input
        /\ input = [account |-> account, signer |-> input.signer]
    BY <1>1, <1>5
  <2>2. MarksAreKnown(world', diff', marked')  BY <1>5 DEF MarksAreKnown
  <2> QED BY <1>5, <1>6, <1>8, <1>11, <1>14, <2>1, <2>2 DEF InTransaction
<1>16. tx' # NoWorldTx  BY <1>5, TransactionIsOne
<1>17. ServedCodeHasItsHash'  BY <1>5 DEF WorldInv, ServedCodeHasItsHash
<1>18. DynamicDepsAreKept'  BY <1>16 DEF DynamicDepsAreKept
<1>19. ReadsAreOfTheSnapshot(view') /\ Covered(diff', world')  BY ZenonT(20), <1>5, <1>10, <1>11
<1> QED BY <1>9, <1>15, <1>17, <1>18, <1>19 DEF WorldInv

\* What a step of a transaction leaves alone.
LEMMA StepKeeps ==
    ASSUME WorldInv, tx # NoWorldTx, tx' = tx, view' = view,
           CachesAreRight(world'), Grows(world, world'),
           world'.expected_ecrecover_call = world.expected_ecrecover_call,
           Covered(diff', world'), DOMAIN tx.before.code \subseteq DOMAIN diff'.code,
           MarksAreKnown(world', diff', marked'), ServedCodeHasItsHash'
    PROVE  WorldInv'
<1>1. InTransaction(tx, world, diff, marked)  BY DEF WorldInv
<1>2. Covered(tx.before, world')  BY ZenonT(20), <1>1, StaysCovered DEF InTransaction
<1>3. Prepared(world', tx)  BY ZenonT(20), <1>1 DEF InTransaction, Prepared
<1>4. \A c \in tx.codes : for_bytecode(c) \in DOMAIN world'.bytecode_cache
  BY <1>1 DEF InTransaction, Grows
<1>5. InTransaction(tx', world', diff', marked')  BY Zenon, <1>1, <1>2, <1>3, <1>4 DEF InTransaction
<1>6. DynamicDepsAreKept'  BY DEF DynamicDepsAreKept
<1>7. ReadsAreOfTheSnapshot(view')  BY DEF WorldInv
<1> QED BY <1>5, <1>6, <1>7 DEF WorldInv

LEMMA Unchanged == \A w : Grows(w, w)
BY DEF Grows

LEMMA MarkKeeps ==
    ASSUME WorldInv, NEW code, MarkAsKnown(code)
    PROVE  WorldInv'
<1>1. PICK h : h = for_bytecode(code)  OBVIOUS
<1>2. /\ tx # NoWorldTx /\ code \in tx.codes
      /\ diff' = [diff EXCEPT !.known = diff.known \union {h}] /\ marked' = marked \union {h}
      /\ world' = world /\ view' = view /\ tx' = tx /\ served' = served
  BY <1>1 DEF MarkAsKnown
<1>3. InTransaction(tx, world, diff, marked) /\ CachesAreRight(world) /\ Covered(diff, world)
  BY <1>2 DEF WorldInv
<1>4. diff'.known = diff.known \union {h} /\ diff'.code = diff.code /\ IsDiff(diff')
  BY <1>2, <1>3 DEF Covered, IsDiff
<1>5. h \in DOMAIN world.bytecode_cache /\ code \in EraCodes  BY <1>1, <1>2, <1>3 DEF InTransaction
<1>6. h[2] = "EraVm"
  <2>1. validate_bytecode(code)  BY <1>5, EraCodesAreValid DEF AllEraCodes
  <2> QED BY <1>1, <2>1, HashOfEraCode
<1>7. Covered(diff', world')  BY <1>2, <1>3, <1>4, <1>5 DEF Covered
<1>8. MarksAreKnown(world', diff', marked')
  BY <1>2, <1>3, <1>4, <1>6 DEF InTransaction, MarksAreKnown
<1>9. ServedCodeHasItsHash'  BY <1>2 DEF WorldInv, ServedCodeHasItsHash
<1>10. DOMAIN tx.before.code \subseteq DOMAIN diff'.code  BY <1>3, <1>4 DEF InTransaction
<1> QED BY <1>2, <1>3, <1>7, <1>8, <1>9, <1>10, StepKeeps, Unchanged

LEMMA PublishKeeps ==
    ASSUME WorldInv, NEW raw \in EvmCodes, PublishEvmBytecode(raw)
    PROVE  WorldInv'
<1>1. PICK h : h = EvmHash(raw)  OBVIOUS
<1>2. /\ tx # NoWorldTx
      /\ diff' = [diff EXCEPT !.known = diff.known \union {h}] /\ marked' = marked \union {h}
      /\ world' = handle_far_call(world, Len(raw), pad_evm_bytecode(raw))
      /\ view' = view /\ tx' = tx /\ served' = served
  BY <1>1 DEF PublishEvmBytecode
<1>3. InTransaction(tx, world, diff, marked) /\ CachesAreRight(world) /\ Covered(diff, world)
  BY <1>2 DEF WorldInv
<1>4. diff'.known = diff.known \union {h} /\ diff'.code = diff.code /\ IsDiff(diff')
  BY Zenon, <1>2, <1>3 DEF Covered, IsDiff
<1>5. /\ CachesAreRight(world') /\ Grows(world, world') /\ h \in DOMAIN world'.dynamic_bytecodes
      /\ world'.expected_ecrecover_call = world.expected_ecrecover_call
  BY <1>1, <1>2, <1>3, PublishedBytecode
<1>6. Covered(diff, world')  BY <1>3, <1>5, StaysCovered
<1>7. Covered(diff', world')  BY <1>4, <1>5, <1>6 DEF Covered
<1>8. MarksAreKnown(world', diff', marked')
  BY <1>2, <1>3, <1>4, <1>5 DEF InTransaction, MarksAreKnown, Grows
<1>9. ServedCodeHasItsHash'  BY <1>2 DEF WorldInv, ServedCodeHasItsHash
<1>10. DOMAIN tx.before.code \subseteq DOMAIN diff'.code  BY <1>3, <1>4 DEF InTransaction
<1> QED BY <1>2, <1>5, <1>7, <1>8, <1>9, <1>10, StepKeeps

LEMMA DeployKeeps ==
    ASSUME WorldInv, NEW account, NEW hash, Deploy(account, hash)
    PROVE  WorldInv'
<1>1. PICK code : code = With(diff.code, account, hash)  OBVIOUS
<1>2. /\ tx # NoWorldTx /\ IsKnown(hash)
      /\ diff' = [diff EXCEPT !.code = code]
      /\ world' = world /\ view' = view /\ tx' = tx /\ marked' = marked /\ served' = served
  BY <1>1 DEF Deploy
<1>3. InTransaction(tx, world, diff, marked) /\ CachesAreRight(world) /\ Covered(diff, world)
  BY <1>2 DEF WorldInv
<1>4. diff'.known = diff.known /\ diff'.code = code /\ IsDiff(diff')
  BY <1>2, <1>3 DEF Covered, IsDiff
<1>5. /\ DOMAIN code = DOMAIN diff.code \union {account} /\ code[account] = hash
      /\ \A a \in DOMAIN diff.code : a # account => code[a] = diff.code[a]
  BY <1>1 DEF With
<1>6. hash \in diff.known \union StorageHashes  BY <1>2 DEF IsKnown, StorageHashes
<1>7. Covered(diff', world')  BY <1>2, <1>3, <1>4, <1>5, <1>6 DEF Covered
<1>8. MarksAreKnown(world', diff', marked')
  BY <1>2, <1>3, <1>4 DEF InTransaction, MarksAreKnown
<1>9. ServedCodeHasItsHash'  BY ZenonT(20), <1>2 DEF WorldInv, ServedCodeHasItsHash
<1>10. DOMAIN tx.before.code \subseteq DOMAIN diff'.code  BY <1>3, <1>4, <1>5 DEF InTransaction
<1> QED BY <1>2, <1>3, <1>7, <1>8, <1>9, <1>10, StepKeeps, Unchanged

\* An account has code that is known, or that of the storage before the batch.
LEMMA CodesOfAccounts ==
    ASSUME WorldInv, NEW account
    PROVE  CodeOf(account) \in Loadable(world) \union DOMAIN world.program_cache
<1>1. Covered(diff, world) /\ CachesAreRight(world)  BY DEF WorldInv
<1>2. diff.known \union StorageHashes \subseteq Loadable(world) \union DOMAIN world.program_cache
  BY <1>1, StorageIsCovered
<1>3. CASE account \in DOMAIN diff.code
  BY <1>1, <1>2, <1>3 DEF CodeOf, Covered
<1>4. CASE account \notin DOMAIN diff.code /\ account \in Contracts
  <2>1. SnapshotCodes # {}  BY <1>4, WorldAssumption
  <2>2. (CHOOSE c \in SnapshotCodes : TRUE) \in SnapshotCodes  BY <2>1
  <2>3. ContractHash \in {for_bytecode(c) : c \in SnapshotCodes}  BY Zenon, <2>2 DEF ContractHash
  <2> QED BY <1>4, <2>3 DEF CodeOf, Loadable
<1>5. CASE account \notin DOMAIN diff.code /\ account \notin Contracts
  BY ZenonT(20), <1>1, <1>5 DEF CodeOf, CachesAreRight
<1> QED BY <1>3, <1>4, <1>5

LEMMA CallKeeps ==
    ASSUME WorldInv, NEW account, CallAccount(account)
    PROVE  WorldInv'
<1>1. PICK hash : hash = CodeOf(account)  OBVIOUS
<1>2. PICK d : d = decommit(world, hash)  OBVIOUS
<1>3. PICK bytes : bytes = code_page_bytes(d.result[2])  BY ZenonT(20)
<1>4. /\ tx # NoWorldTx /\ hash[2] = "EraVm" /\ world' = d.world
      /\ served' = [hash |-> hash, code |-> IF d.result = CodePanic THEN CodePanic ELSE <<"ok", bytes>>]
      /\ view' = view /\ diff' = diff /\ tx' = tx /\ marked' = marked
  BY <1>1, <1>2, <1>3 DEF CallAccount
<1>5. InTransaction(tx, world, diff, marked) /\ CachesAreRight(world) /\ Covered(diff, world)
  BY <1>4 DEF WorldInv
<1>6. hash \in Loadable(world) \union DOMAIN world.program_cache  BY ZenonT(20), <1>1, CodesOfAccounts
<1>7. /\ d.result # CodePanic /\ for_bytecode(bytes) = hash /\ CachesAreRight(world')
      /\ world'.bytecode_cache = world.bytecode_cache
      /\ world'.dynamic_bytecodes = world.dynamic_bytecodes
      /\ world'.expected_ecrecover_call = world.expected_ecrecover_call
  BY ZenonT(20), <1>2, <1>3, <1>4, <1>5, <1>6, ProgramIsFound
<1>8. Grows(world, world')  BY <1>7 DEF Grows
<1>9. Covered(diff', world')  BY Zenon, <1>4, <1>5, <1>8, StaysCovered
<1>10. MarksAreKnown(world', diff', marked')  BY ZenonT(20), <1>4, <1>5, <1>7 DEF InTransaction, MarksAreKnown
<1>11. ServedCodeHasItsHash'
  <2>1. served'.hash = hash /\ served'.code = <<"ok", bytes>>  BY <1>4, <1>7
  <2>2. served'.code # CodePanic /\ served'.code[2] = bytes  BY <2>1, OkIsNoPanic
  <2> QED BY ZenonT(20), <1>4, <1>7, <2>1, <2>2 DEF ServedCodeHasItsHash
<1>12. DOMAIN tx.before.code \subseteq DOMAIN diff'.code  BY ZenonT(20), <1>4, <1>5 DEF InTransaction
<1> QED BY <1>4, <1>7, <1>8, <1>9, <1>10, <1>11, <1>12, StepKeeps

LEMMA OracleKeeps ==
    ASSUME WorldInv, NEW hash, CodeOracle(hash)
    PROVE  WorldInv'
<1>1. /\ tx # NoWorldTx /\ IsKnown(hash)
      /\ served' = [hash |-> hash, code |-> decommit_code(world, hash)]
      /\ world' = world /\ view' = view /\ diff' = diff /\ tx' = tx /\ marked' = marked
  BY DEF CodeOracle
<1>2. InTransaction(tx, world, diff, marked) /\ CachesAreRight(world) /\ Covered(diff, world)
  BY <1>1 DEF WorldInv
<1>3. hash \in diff.known \union StorageHashes  BY Zenon, <1>1 DEF IsKnown, StorageHashes
<1>4. hash \in Loadable(world) \union DOMAIN world.program_cache  BY ZenonT(20), <1>2, <1>3, StorageIsCovered
<1>5. PICK c : decommit_code(world, hash) = <<"ok", c>> /\ HasHash(c, hash)  BY <1>2, <1>4, CodeIsFound
<1>6. ServedCodeHasItsHash'
  <2>1. served'.hash = hash /\ served'.code = <<"ok", c>>  BY <1>1, <1>5
  <2>2. served'.code # CodePanic /\ served'.code[2] = c  BY <2>1, OkIsNoPanic
  <2> QED BY <1>5, <2>1, <2>2 DEF ServedCodeHasItsHash, HasHash
<1>7. MarksAreKnown(world', diff', marked')  BY Zenon, <1>1, <1>2 DEF InTransaction
<1>8. DOMAIN tx.before.code \subseteq DOMAIN diff'.code  BY ZenonT(20), <1>1, <1>2 DEF InTransaction
<1> QED BY <1>1, <1>2, <1>6, <1>7, <1>8, StepKeeps, Unchanged

LEMMA RevertKeeps ==
    ASSUME WorldInv, Revert
    PROVE  WorldInv'
<1>1. /\ tx # NoWorldTx /\ diff' = tx.before /\ marked' = {}
      /\ world' = world /\ view' = view /\ tx' = tx /\ served' = served
  BY DEF Revert
<1>2. InTransaction(tx, world, diff, marked) /\ CachesAreRight(world)  BY ZenonT(20), <1>1 DEF WorldInv
<1>3. Covered(diff', world')  BY <1>1, <1>2 DEF InTransaction
<1>4. MarksAreKnown(world', diff', marked')  BY ZenonT(20), <1>1 DEF MarksAreKnown
<1>5. ServedCodeHasItsHash'  BY <1>1 DEF WorldInv, ServedCodeHasItsHash
<1> QED BY <1>1, <1>2, <1>3, <1>4, <1>5, StepKeeps, Unchanged

LEMMA EndKeeps ==
    ASSUME WorldInv, EndTransaction
    PROVE  WorldInv'
<1>1. PICK dynamic : dynamic = world.dynamic_bytecodes  OBVIOUS
<1>2. /\ tx # NoWorldTx /\ tx' = NoWorldTx
      /\ deps' = [h \in marked \intersect DOMAIN dynamic |-> dynamic[h]]
      /\ world' = world /\ view' = view /\ diff' = diff /\ marked' = marked /\ served' = served
  BY <1>1 DEF EndTransaction, decommit_dynamic_bytecodes
<1>3. MarksAreKnown(world, diff, marked) /\ FromContracts(dynamic)
  BY Zenon, <1>1, <1>2 DEF WorldInv, InTransaction, CachesAreRight
<1>4. \A h \in DOMAIN dynamic : h[2] = "Evm" /\ for_evm_bytecode(h[3], dynamic[h]) = h
  <2> TAKE h \in DOMAIN dynamic
  <2>1. PICK raw \in EvmCodes : h = EvmHash(raw) /\ dynamic[h] = pad_evm_bytecode(raw)
    BY <1>3 DEF FromContracts
  <2> QED BY <2>1, HashOfEvmCode
<1>5. DOMAIN deps' = {h \in marked : h[2] = "Evm"}
  BY <1>1, <1>2, <1>3, <1>4 DEF MarksAreKnown
<1>6. \A h \in DOMAIN deps' : h \in diff.known /\ for_evm_bytecode(h[3], deps'[h]) = h
  BY <1>1, <1>2, <1>3, <1>4 DEF MarksAreKnown
<1>7. DynamicDepsAreKept'  BY ZenonT(20), <1>2, <1>5, <1>6 DEF DynamicDepsAreKept
<1>8. ServedCodeHasItsHash'  BY ZenonT(20), <1>2 DEF WorldInv, ServedCodeHasItsHash
<1> QED BY <1>2, <1>7, <1>8 DEF WorldInv

-----------------------------------------------------------------------------
(***************************************************************************)
(* The theorem.                                                             *)
(***************************************************************************)
LEMMA WorldStep == WorldInv /\ [WorldNext]_world_vars => WorldInv'
<1> SUFFICES ASSUME WorldInv, [WorldNext]_world_vars PROVE WorldInv'  OBVIOUS
<1>1. CASE UNCHANGED world_vars
  <2>1. /\ world' = world /\ view' = view /\ diff' = diff /\ tx' = tx /\ marked' = marked
        /\ served' = served /\ deps' = deps
    BY ZenonT(20), <1>1 DEF world_vars
  <2>2. ServedCodeHasItsHash' /\ DynamicDepsAreKept'
    BY <2>1 DEF WorldInv, ServedCodeHasItsHash, DynamicDepsAreKept
  <2> QED BY <2>1, <2>2 DEF WorldInv
<1>2. ASSUME NEW account \in Accounts, NEW signer \in Accounts, NEW codes \in {{}} \union {{c} : c \in EraCodes},
             NEW skip \in BOOLEAN, PushTransaction(account, codes, signer, skip)
      PROVE  WorldInv'
  <2>1. codes \subseteq EraCodes  OBVIOUS
  <2> QED BY <1>2, <2>1, PushKeeps
<1>3. ASSUME NEW code \in EraCodes, MarkAsKnown(code) PROVE WorldInv'  BY <1>3, MarkKeeps
<1>4. ASSUME NEW raw \in EvmCodes, PublishEvmBytecode(raw) PROVE WorldInv'  BY <1>4, PublishKeeps
<1>5. ASSUME NEW account \in Accounts, NEW hash, Deploy(account, hash) PROVE WorldInv'  BY <1>5, DeployKeeps
<1>6. ASSUME NEW account \in Accounts, CallAccount(account) PROVE WorldInv'  BY <1>6, CallKeeps
<1>7. ASSUME NEW hash, CodeOracle(hash) PROVE WorldInv'  BY <1>7, OracleKeeps
<1>8. CASE Revert  BY <1>8, RevertKeeps
<1>9. CASE EndTransaction  BY <1>9, EndKeeps
<1> QED BY <1>1, <1>2, <1>3, <1>4, <1>5, <1>6, <1>7, <1>8, <1>9 DEF WorldNext

\* What can be reached can be decommitted.
LEMMA ReachableIsThere == WorldInv => ReachableCodeIsThere
<1> SUFFICES ASSUME WorldInv, NEW hash \in diff.known \union {CodeOf(a) : a \in Accounts}
             PROVE  decommit_code(world, hash) # CodePanic
  BY DEF ReachableCodeIsThere
<1>1. CachesAreRight(world) /\ Covered(diff, world)  BY DEF WorldInv
<1>2. hash \in Loadable(world) \union DOMAIN world.program_cache
  BY <1>1, StorageIsCovered, CodesOfAccounts
<1>3. PICK c : decommit_code(world, hash) = <<"ok", c>>  BY <1>1, <1>2, CodeIsFound
<1> QED BY <1>3, OkIsNoPanic

\* A prepared answer is used for the signature it was prepared for.
LEMMA RecoveryIsRight == WorldInv => PreparedRecoveryIsRight
<1> SUFFICES ASSUME WorldInv, tx # NoWorldTx, tx.account \notin DOMAIN diff.code, NEW signer \in Accounts
             PROVE  call_precompile(world, [tx.input EXCEPT !.signer = signer]) = signer
  BY DEF PreparedRecoveryIsRight
<1>1. PICK input : input = [tx.input EXCEPT !.signer = signer]  BY Zenon
<1>2. InTransaction(tx, world, diff, marked)  BY ZenonT(20) DEF WorldInv
<1>3. tx.input = [account |-> tx.account, signer |-> tx.input.signer]  BY <1>2 DEF InTransaction
<1>4. input.signer = signer  BY ZenonT(20), <1>1, <1>3
<1>5. tx.account \notin DOMAIN tx.before.code  BY <1>2 DEF InTransaction
<1>6. CASE world.expected_ecrecover_call = <<>>
  BY <1>1, <1>4, <1>6 DEF call_precompile, Recovered
<1>7. CASE world.expected_ecrecover_call # <<>>
  <2>1. /\ world.expected_ecrecover_call = <<[input |-> tx.input, output |-> tx.account]>>
        /\ tx.input.signer = tx.account
    BY <1>2, <1>5, <1>7 DEF InTransaction, Prepared
  <2>2. PICK call : call = world.expected_ecrecover_call[1]  OBVIOUS
  <2>3. call.input = tx.input /\ call.output = tx.account  BY <2>1, <2>2
  <2>4. CASE tx.input = input
    BY <1>1, <1>4, <1>7, <2>1, <2>2, <2>3, <2>4 DEF call_precompile
  <2>5. CASE tx.input # input
    BY <1>1, <1>4, <1>7, <2>2, <2>3, <2>5 DEF call_precompile, Recovered
  <2> QED BY ZenonT(20), <2>4, <2>5
<1> QED BY <1>6, <1>7

\* The caches are right and complete in every state (World, DynamicBytecodes).
THEOREM WorldInvariantHolds == WorldSpec => []WorldInv
<1>1. WorldInit => WorldInv  BY InitiallyRight
<1>2. WorldInv /\ [WorldNext]_world_vars => WorldInv'  BY WorldStep
<1> QED BY <1>1, <1>2, PTL DEF WorldSpec

\* Every bytecode that a contract can reach is served and has its hash, a result reports exactly
\* the EVM bytecodes that were published and kept, and signatures are answered with their signer
\* (raw_bytecode(), decommit(), decommit_code(), decommit_dynamic_bytecodes(), call_precompile()).
THEOREM CodeIsAlwaysServed == WorldSpec => []CodeIsServed
<1>1. WorldInv => CodeIsServed
  BY ReachableIsThere, RecoveryIsRight DEF WorldInv, CodeIsServed
<1> QED BY <1>1, WorldInvariantHolds, PTL
=============================================================================
