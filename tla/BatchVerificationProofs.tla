----------------------- MODULE BatchVerificationProofs ----------------------
(***************************************************************************)
(* Proofs about the verifier: for every chain, every program and any number *)
(* of fields of the input that differ, it panics only for input that no     *)
(* sealed batch has, what is settled was executed by the chain's own code, and,   *)
(* as long as the tree check is sound, follows the tree.                    *)
(***************************************************************************)
EXTENDS BatchVerification, TLAPS

-----------------------------------------------------------------------------
(***************************************************************************)
(* The inductive invariant: what each phase of execute() has established.   *)
(***************************************************************************)
SinceAccepted == {"accepted", "settled"}

SinceExecuted == {"executed", "proved"} \cup SinceAccepted

SinceViewed == {"viewed"} \cup SinceExecuted

SinceLoaded == {"loaded"} \cup SinceViewed

SincePinned == {"pinned"} \cup SinceLoaded

\* The contracts of the system are those of their hashes.
BaseIsVerified(in) ==
    \A i \in DOMAIN BaseContracts(in) :
        verify_bytecode_hash(BaseContracts(in)[i].hash, BaseContracts(in)[i].code) = "ok"

\* So are those of the users.
UsersAreVerified(in) ==
    \A h \in DOMAIN in.used_bytecodes : verify_bytecode_hash(h, in.used_bytecodes[h]) = "ok"

ViewIsComplete(in, v) == DOMAIN v = in.declared \cup KeysOf(in.merkle_paths)

\* The environment is the newest version's, and its first block is that of the input.
IsPinned(in) == EnvironmentIsPinned(in) /\ FirstBlockAgrees(in)

VmHasRun(in, run) == ~BlocksAreImpossible(in) /\ run.heap = HeapOf(in)

ResultOf(in, run, t) ==
    [hashes |-> CommitmentHash(SharedStates(t.index, t.root), MetaOf(in), AuxOf(in, run)),
     proof_public_input |->
        compute_proof_public_input(
            in.commitment_input.prev_batch_commitment,
            CommitmentHash(SharedStates(t.index, t.root), MetaOf(in), AuxOf(in, run)).commitment)]

IsChain(c) ==
    /\ c = [contents |-> c.contents, emulator |-> c.emulator, number |-> c.number, stored |-> c.stored,
            meta_hash |-> c.meta_hash, aux_hash |-> c.aux_hash]
    /\ c.emulator \in {NoContract, Contract(EmulatorCode)}

VerifierInv ==
    /\ IsChain(chain)
    /\ phase \in SincePinned => IsPinned(input)
    /\ phase \in SinceLoaded => BaseIsVerified(input)
    /\ phase \in SinceViewed => UsersAreVerified(input) /\ ViewIsComplete(input, view)
    /\ phase \in SinceExecuted => VmHasRun(input, vm)
    /\ phase \in SinceAccepted => PreviousIsBound(input) /\ result = ResultOf(input, vm, tree)
    /\ phase = "panicked" => IsImpossible(input)
    /\ phase = "settled" => IsCanonical(input, chain.emulator)

-----------------------------------------------------------------------------
(***************************************************************************)
(* Bytecodes and their hashes.                                              *)
(***************************************************************************)
\* A check of a bytecode panics only if the bytecode's length is impossible; then it never passes.
LEMMA OutcomesOfACheck ==
  ASSUME NEW hash, NEW code
  PROVE  /\ verify_bytecode_hash(hash, code) \in {"ok", "error", "panic"}
         /\ verify_bytecode_hash(hash, code) = "panic" => ~validate_bytecode(code)
         /\ verify_bytecode_hash(hash, code) = "ok" => validate_bytecode(code)
<1>1. ASSUME validate_bytecode(code)
      PROVE  for_bytecode(code) # CodePanic /\ for_evm_bytecode(len_in_bytes(hash), code) # CodePanic
  BY <1>1 DEF for_bytecode, for_evm_bytecode, for_generic_bytecode, CodeHash, CodePanic
<1>2. ASSUME ~validate_bytecode(code)
      PROVE  for_bytecode(code) = CodePanic /\ for_evm_bytecode(len_in_bytes(hash), code) = CodePanic
  BY <1>2 DEF for_bytecode, for_evm_bytecode, for_generic_bytecode
<1> QED
  BY <1>1, <1>2 DEF verify_bytecode_hash

\* A bytecode whose check against the hash of another one passes is that one.
LEMMA CheckBindsTheCode ==
  ASSUME NEW code, NEW other, verify_bytecode_hash(for_bytecode(code), other) = "ok"
  PROVE  other = code
<1>1. for_bytecode(code) # CodePanic
  BY DEF verify_bytecode_hash
<1>2. for_bytecode(code) = CodeHash("EraVm", (Len(code) \div CodeWordLen) % LenModulus, code)
  BY <1>1 DEF for_bytecode, for_generic_bytecode
<1>3. for_bytecode(code)[2] = "EraVm"
  BY <1>2 DEF CodeHash
<1>4. for_bytecode(other) = for_bytecode(code) /\ for_bytecode(other) # CodePanic
  BY <1>3 DEF verify_bytecode_hash
<1>5. for_bytecode(other) = CodeHash("EraVm", (Len(other) \div CodeWordLen) % LenModulus, other)
  BY <1>4 DEF for_bytecode, for_generic_bytecode
<1> QED
  BY <1>2, <1>4, <1>5 DEF CodeHash

\* No bytecode passes a check against a hash that is not one of a bytecode.
LEMMA NoCodeForOtherHashes ==
  ASSUME NEW code
  PROVE  verify_bytecode_hash(ZeroHash, code) # "ok" /\ verify_bytecode_hash(NoCode, code) # "ok"
<1>1. ASSUME NEW claimed, NEW computed \in {for_bytecode(code), for_evm_bytecode(len_in_bytes(claimed), code)},
             computed # CodePanic
      PROVE  computed # ZeroHash /\ computed # NoCode
  BY <1>1 DEF for_bytecode, for_evm_bytecode, for_generic_bytecode, CodeHash, ZeroHash, NoCode
<1>2. ASSUME NEW claimed, verify_bytecode_hash(claimed, code) = "ok"
      PROVE  \E computed \in {for_bytecode(code), for_evm_bytecode(len_in_bytes(claimed), code)} :
                computed # CodePanic /\ computed = claimed
  BY <1>2 DEF verify_bytecode_hash
<1> QED
  BY <1>1, <1>2

\* Steps in a row pass if all of them do, and panic only if one of them does.
LEMMA StepsInARow ==
  ASSUME NEW steps
  PROVE  /\ FirstFailure(steps) \in {"ok", "error", "panic"}
         /\ FirstFailure(steps) = "ok" <=> \A i \in DOMAIN steps : steps[i] = "ok"
         /\ FirstFailure(steps) = "panic" => \E i \in DOMAIN steps : steps[i] = "panic"
<1>1. CASE \A i \in DOMAIN steps : steps[i] = "ok"
  BY <1>1 DEF FirstFailure
<1>2. CASE ~\A i \in DOMAIN steps : steps[i] = "ok"
  <2>1. /\ FirstFailure(steps) \in {"error", "panic"}
        /\ FirstFailure(steps) = "panic" => \E i \in DOMAIN steps : steps[i] = "panic"
    BY <1>2 DEF FirstFailure
  <2> QED
    BY <1>2, <2>1
<1> QED
  BY <1>1, <1>2

\* The contracts of the system, one by one.
LEMMA BaseContractsAre ==
  ASSUME NEW in
  PROVE  /\ BaseContracts(in)[1] = in.bootloader /\ BaseContracts(in)[2] = in.default_aa
         /\ \/ in.evm_emulator = NoContract /\ DOMAIN BaseContracts(in) = 1..2
            \/ /\ in.evm_emulator # NoContract /\ DOMAIN BaseContracts(in) = 1..3
               /\ BaseContracts(in)[3] = in.evm_emulator
<1>1. CASE in.evm_emulator = NoContract
  BY <1>1 DEF BaseContracts
<1>2. CASE in.evm_emulator # NoContract
  BY <1>2 DEF BaseContracts
<1> QED
  BY <1>1, <1>2

-----------------------------------------------------------------------------
(***************************************************************************)
(* Commitments open to one value.                                           *)
(***************************************************************************)
LEMMA PublicInputIsBinding ==
  ASSUME NEW prev, NEW cur, NEW prev2, NEW cur2,
         WrapperPublicInput(compute_proof_public_input(prev, cur)) = L1PublicInput(prev2, cur2)
  PROVE  prev = prev2 /\ cur = cur2
<1>1. WrapperPublicInput(compute_proof_public_input(prev, cur))[1] = <<"byte", keccak256(Hashes(<<prev, cur>>)), 1>>
  BY DEF WrapperPublicInput, compute_proof_public_input, bytes32_to_u32x8, DigestBytes
<1>2. L1PublicInput(prev2, cur2)[1] = <<"byte", keccak256(Hashes(<<prev2, cur2>>)), 1>>
  BY DEF L1PublicInput, DigestBytes
<1>3. keccak256(Hashes(<<prev, cur>>)) = keccak256(Hashes(<<prev2, cur2>>))
  BY <1>1, <1>2
<1>4. Hashes(<<prev, cur>>) = Hashes(<<prev2, cur2>>)
  BY <1>3 DEF keccak256
<1>5. \A a, b : Hashes(<<a, b>>)[1] = <<32, a>> /\ Hashes(<<a, b>>)[2] = <<32, b>>
  BY DEF Hashes
<1>6. <<32, prev>> = <<32, prev2>> /\ <<32, cur>> = <<32, cur2>>
  BY <1>4, <1>5
<1> QED
  BY <1>6

LEMMA CommitmentIsBinding ==
  ASSUME NEW p, NEW m, NEW a, NEW p2, NEW m2, NEW a2,
         compute_commitment(p, m, a) = compute_commitment(p2, m2, a2)
  PROVE  p = p2 /\ m = m2 /\ a = a2
<1>1. Hashes(<<p, m, a>>) = Hashes(<<p2, m2, a2>>)
  BY DEF compute_commitment, keccak256
<1>2. \A x, y, z : Hashes(<<x, y, z>>)[1] = <<32, x>> /\ Hashes(<<x, y, z>>)[2] = <<32, y>>
                     /\ Hashes(<<x, y, z>>)[3] = <<32, z>>
  BY DEF Hashes
<1>3. <<32, p>> = <<32, p2>> /\ <<32, m>> = <<32, m2>> /\ <<32, a>> = <<32, a2>>
  BY <1>1, <1>2
<1> QED
  BY <1>3

\* A public input that the L1 accepts with its own meta parameters binds the previous commitment and them.
LEMMA AcceptedIsBound ==
  ASSUME NEW prev, NEW p, NEW m, NEW a, NEW prev2, NEW m2,
         WrapperPublicInput(compute_proof_public_input(prev, compute_commitment(p, m, a)))
            = L1PublicInput(prev2, compute_commitment(p, m2, a))
  PROVE  prev = prev2 /\ m = m2
<1>1. prev = prev2 /\ compute_commitment(p, m, a) = compute_commitment(p, m2, a)
  BY PublicInputIsBinding
<1> QED
  BY <1>1, CommitmentIsBinding

LEMMA PassThroughIsBinding ==
  ASSUME NEW index, NEW root, NEW index2, NEW root2,
         compute_pass_through_data_hash(index, root) = compute_pass_through_data_hash(index2, root2)
  PROVE  index = index2 /\ root = root2
<1>1. PassThroughBytes(SharedStates(index, root)) = PassThroughBytes(SharedStates(index2, root2))
  BY DEF compute_pass_through_data_hash, keccak256
<1>2. \A i, r : /\ PassThroughBytes(SharedStates(i, r))[1] = <<8, Num(i)>>
                /\ PassThroughBytes(SharedStates(i, r))[2] = <<32, r>>
  BY DEF PassThroughBytes, SharedStates, RootStateBytes
<1>3. <<8, Num(index)>> = <<8, Num(index2)>> /\ <<32, root>> = <<32, root2>>
  BY <1>1, <1>2
<1>4. Num(index) = Num(index2) /\ root = root2
  BY <1>3
<1> QED
  BY <1>4 DEF Num

\* Of the newest version.
LEMMA MetaIsBinding ==
  ASSUME NEW zk, NEW b, NEW d, NEW e, NEW zk2, NEW b2, NEW d2, NEW e2,
         MetaHash([zkporter_is_available |-> zk, bootloader_code_hash |-> b, default_aa_code_hash |-> d,
                   evm_emulator_code_hash |-> e, protocol_version |-> latest]) =
         MetaHash([zkporter_is_available |-> zk2, bootloader_code_hash |-> b2, default_aa_code_hash |-> d2,
                   evm_emulator_code_hash |-> e2, protocol_version |-> latest])
  PROVE  /\ b = b2 /\ d = d2
         /\ (IF e = NoCode THEN d ELSE e) = (IF e2 = NoCode THEN d2 ELSE e2)
<1> DEFINE M(z, x, y, w) == [zkporter_is_available |-> z, bootloader_code_hash |-> x, default_aa_code_hash |-> y,
                             evm_emulator_code_hash |-> w, protocol_version |-> latest]
<1>1. \A z, x, y, w : /\ MetaBytes(M(z, x, y, w))[2] = <<32, x>> /\ MetaBytes(M(z, x, y, w))[3] = <<32, y>>
                      /\ MetaBytes(M(z, x, y, w))[4] = <<32, IF w = NoCode THEN y ELSE w>>
  <2> TAKE z, x, y, w
  <2>1. is_post_1_5_0(M(z, x, y, w).protocol_version)
    BY DEF is_post_1_5_0, latest
  <2>2. PICK v : v = (IF w = NoCode THEN y ELSE w)
    OBVIOUS
  <2>3. PICK f : f = AsByte(z)
    OBVIOUS
  <2>4. MetaBytes(M(z, x, y, w)) = << <<1, f>>, <<32, x>>, <<32, y>> >> \o << <<32, v>> >>
    BY <2>1, <2>2, <2>3 DEF MetaBytes
  <2> HIDE DEF M
  <2> QED
    BY <2>2, <2>4
<1>2. MetaBytes(M(zk, b, d, e)) = MetaBytes(M(zk2, b2, d2, e2))
  BY DEF MetaHash, keccak256
<1>3. /\ <<32, b>> = <<32, b2>> /\ <<32, d>> = <<32, d2>>
      /\ <<32, IF e = NoCode THEN d ELSE e>> = <<32, IF e2 = NoCode THEN d2 ELSE e2>>
  <2> HIDE DEF M
  <2> QED
    BY <1>1, <1>2
<1> QED
  BY <1>3

-----------------------------------------------------------------------------
(***************************************************************************)
(* What the steps of execute() establish.                                   *)
(***************************************************************************)
\* The contracts of the system: all are right, or one that is not ends execute().
LEMMA BaseChecks ==
  ASSUME NEW in,
         NEW outcome, outcome = FirstFailure([i \in DOMAIN BaseContracts(in) |->
                         verify_bytecode_hash(BaseContracts(in)[i].hash, BaseContracts(in)[i].code)])
  PROVE  /\ outcome = "panic" => IsImpossible(in)
         /\ outcome \notin {"panic", "error"} => BaseIsVerified(in)
<1> DEFINE base == BaseContracts(in)
           checks == [i \in DOMAIN base |-> verify_bytecode_hash(base[i].hash, base[i].code)]
<1>1. DOMAIN checks = DOMAIN base
      /\ \A i \in DOMAIN base : checks[i] = verify_bytecode_hash(base[i].hash, base[i].code)
  OBVIOUS
<1>2. outcome = FirstFailure(checks)
  OBVIOUS
<1> HIDE DEF checks
<1>3. /\ outcome \in {"ok", "error", "panic"}
      /\ outcome = "ok" => \A i \in DOMAIN base : checks[i] = "ok"
      /\ outcome = "panic" => \E i \in DOMAIN base : checks[i] = "panic"
  BY Zenon, <1>1, <1>2, StepsInARow
<1>4. ASSUME outcome = "panic"
      PROVE  IsImpossible(in)
  <2>1. PICK i \in DOMAIN base : verify_bytecode_hash(base[i].hash, base[i].code) = "panic"
    BY <1>1, <1>3, <1>4
  <2> QED
    BY <2>1, OutcomesOfACheck DEF IsImpossible
<1>5. ASSUME outcome \notin {"panic", "error"}
      PROVE  BaseIsVerified(in)
  BY <1>1, <1>3, <1>5 DEF BaseIsVerified
<1> QED
  BY <1>4, <1>5

\* The contracts of the users, in any order.
LEMMA UserChecks ==
  ASSUME NEW in, NEW outcome \in UsedBytecodesChecked(in.used_bytecodes)
  PROVE  /\ outcome = "panic" => IsImpossible(in)
         /\ outcome \notin {"panic", "error"} => UsersAreVerified(in)
<1> DEFINE codes == in.used_bytecodes
           outcomes == {verify_bytecode_hash(hash, codes[hash]) : hash \in DOMAIN codes}
<1>1. outcome \in (IF outcomes \subseteq {"ok"} THEN {"ok"} ELSE outcomes \ {"ok"})
  BY DEF UsedBytecodesChecked
<1>2. CASE outcomes \subseteq {"ok"}
  <2>1. \A h \in DOMAIN codes : verify_bytecode_hash(h, codes[h]) = "ok"
    BY <1>2
  <2> QED
    BY <1>1, <1>2, <2>1 DEF UsersAreVerified
<1>3. CASE ~(outcomes \subseteq {"ok"})
  <2>1. PICK h \in DOMAIN codes : outcome = verify_bytecode_hash(h, codes[h]) /\ outcome # "ok"
    BY <1>1, <1>3
  <2>2. outcome \in {"error", "panic"} /\ (outcome = "panic" => ~validate_bytecode(codes[h]))
    BY <2>1, OutcomesOfACheck
  <2> QED
    BY <2>2 DEF IsImpossible
<1> QED
  BY <1>2, <1>3

\* A block that panics is impossible, and one that is impossible is not executed to its end, but
\* for what halts the end of the batch.
LEMMA RunsOfABlock ==
  ASSUME NEW in, NEW v, NEW i \in 1..(Len(in.blocks) - 1), IsPinned(in), ViewIsComplete(in, v)
  PROVE  /\ execute_block(in, v, i) \in {"ok", "error", "panic"}
         /\ execute_block(in, v, i) = "panic" => BlocksAreImpossible(in)
         /\ execute_block(in, v, i) = "ok" =>
              /\ in.blocks[i].txs # <<>>
              /\ assert_next_block(in.blocks[i].meta, in.blocks[i].txs, in.blocks[i + 1].meta)
              /\ \A j \in DOMAIN in.blocks[i].txs :
                    /\ UserHash \in DOMAIN in.used_bytecodes
                    /\ IsStorageOp(in.blocks[i].txs[j]) =>
                          in.blocks[i].txs[j].key \in in.declared \cup KeysOf(in.merkle_paths)
<1> DEFINE txs == in.blocks[i].txs
           steps == [j \in DOMAIN txs |-> execute_tx(in, v, txs[j])]
           Lacks(tx) == \/ UserHash \notin DOMAIN in.used_bytecodes
                        \/ IsStorageOp(tx) /\ tx.key \notin in.declared \cup KeysOf(in.merkle_paths)
           follows == txs # <<>> /\ assert_next_block(in.blocks[i].meta, txs, in.blocks[i + 1].meta)
<1>1. BlockEnv(in, i) = in.blocks[i].meta
  <2>1. CASE i = 1
    <3>1. in.blocks # <<>>
      BY <2>1
    <3> QED
      BY <2>1, <3>1 DEF BlockEnv, IsPinned, FirstBlockAgrees
  <2>2. CASE i # 1
    BY <2>2 DEF BlockEnv
  <2> QED
    BY <2>1, <2>2
<1>2. start_new_l2_block(in, i) = IF follows THEN "ok" ELSE "panic"
  BY Zenon, <1>1 DEF start_new_l2_block
<1>3. \A tx : execute_tx(in, v, tx) = IF Lacks(tx) THEN "panic" ELSE IF tx.kind = "halt" THEN "error" ELSE "ok"
  BY Zenon DEF execute_tx, ViewIsComplete
<1>4. ~follows \/ (\E j \in DOMAIN txs : Lacks(txs[j])) => BlocksAreImpossible(in)
  BY Zenon DEF BlocksAreImpossible
<1>5. DOMAIN steps = DOMAIN txs /\ \A j \in DOMAIN txs : steps[j] = execute_tx(in, v, txs[j])
  OBVIOUS
<1>6. execute_block(in, v, i) = IF FirstFailure(steps) # "ok" THEN FirstFailure(steps) ELSE start_new_l2_block(in, i)
  BY Zenon DEF execute_block
<1> HIDE DEF steps, Lacks, follows
<1>7. CASE FirstFailure(steps) # "ok"
  <2>1. execute_block(in, v, i) = FirstFailure(steps) /\ FirstFailure(steps) \in {"error", "panic"}
    BY <1>6, <1>7, StepsInARow
  <2>2. ASSUME FirstFailure(steps) = "panic"
        PROVE  BlocksAreImpossible(in)
    <3>1. PICK j \in DOMAIN txs : execute_tx(in, v, txs[j]) = "panic"
      BY <1>5, <2>2, StepsInARow
    <3>2. Lacks(txs[j])
      BY <1>3, <3>1
    <3> QED
      BY <1>4, <3>2
  <2> QED
    BY <2>1, <2>2
<1>8. CASE FirstFailure(steps) = "ok"
  <2>1. \A j \in DOMAIN txs : execute_tx(in, v, txs[j]) = "ok"
    BY Zenon, <1>5, <1>8, StepsInARow
  <2>2. \A j \in DOMAIN txs : ~Lacks(txs[j])
    BY <1>3, <2>1
  <2>3. execute_block(in, v, i) = IF follows THEN "ok" ELSE "panic"
    BY <1>2, <1>6, <1>8
  <2> QED
    BY ZenonT(20), <1>4, <2>2, <2>3 DEF Lacks, follows
<1> QED
  BY ZenonT(20), <1>7, <1>8

\* The VM panics only on what no sealed batch has, if its environment is pinned, and never ends
\* well on it.
LEMMA RunsOfTheVm ==
  ASSUME NEW in, NEW emulator, NEW v, IsPinned(in), ViewIsComplete(in, v),
         NEW run, run = VmRun(in, emulator, v)
  PROVE  /\ run.outcome \in {"ok", "error", "panic"}
         /\ run.outcome = "panic" => IsImpossible(in)
         /\ run.outcome = "ok" => VmHasRun(in, run)
<1> DEFINE blocks == 1..(Len(in.blocks) - 1)
           steps == [i \in blocks |-> execute_block(in, v, i)]
           Halts(kind) == \E i \in blocks : \E j \in DOMAIN in.blocks[i].txs : in.blocks[i].txs[j].kind = kind
<1>1. DOMAIN steps = blocks /\ \A i \in blocks : steps[i] = execute_block(in, v, i)
  OBVIOUS
<1>2. execute_vm(in, v) = IF FirstFailure(steps) # "ok" THEN FirstFailure(steps) ELSE finish_batch(in)
  BY Zenon DEF execute_vm
<1>3. finish_batch(in) = IF Halts("tip_halt") THEN "panic" ELSE IF Halts("late_tip_halt") THEN "error" ELSE "ok"
  <2>1. is_pre_medium_interop(in.version) = (in.validator = "Address")
    BY DEF IsPinned, EnvironmentIsPinned
  <2> QED
    BY Zenon, <2>1 DEF finish_batch
<1>4. Halts("tip_halt") => BlocksAreImpossible(in)
  BY Zenon DEF BlocksAreImpossible
<1>5. /\ execute_vm(in, v) \in {"ok", "error", "panic"}
      /\ execute_vm(in, v) = "panic" => BlocksAreImpossible(in)
      /\ execute_vm(in, v) = "ok" => ~BlocksAreImpossible(in)
  <2>1. CASE FirstFailure(steps) # "ok"
    <3> HIDE DEF steps
    <3>1. execute_vm(in, v) = FirstFailure(steps) /\ FirstFailure(steps) \in {"error", "panic"}
      BY <1>2, <2>1, StepsInARow
    <3>2. FirstFailure(steps) = "panic" => \E i \in blocks : execute_block(in, v, i) = "panic"
      BY Zenon, <1>1, StepsInARow
    <3>3. FirstFailure(steps) = "panic" => BlocksAreImpossible(in)
      BY Zenon, <3>2, RunsOfABlock
    <3> QED
      BY <3>1, <3>3
  <2>2. CASE FirstFailure(steps) = "ok"
    <3> HIDE DEF steps
    <3>1. \A i \in blocks : execute_block(in, v, i) = "ok"
      BY Zenon, <1>1, <2>2, StepsInARow
    <3>2. ~Halts("tip_halt") => ~BlocksAreImpossible(in)
      BY ZenonT(40), <3>1, RunsOfABlock DEF BlocksAreImpossible
    <3> HIDE DEF Halts
    <3>3. execute_vm(in, v) = finish_batch(in)
      BY Zenon, <1>2, <2>2
    <3> QED
      BY <1>3, <1>4, <3>2, <3>3
  <2> QED
    BY <2>1, <2>2
<1>6. CASE execute_vm(in, v) # "ok"
  <2>1. run = [outcome |-> execute_vm(in, v)]
    BY Zenon, <1>6 DEF VmRun
  <2> QED
    BY <1>5, <1>6, <2>1 DEF IsImpossible
<1>7. CASE execute_vm(in, v) = "ok"
  <2>1. \E logs, system_logs, diffs, pubdata :
           run = [outcome |-> "ok", logs |-> logs, system_logs |-> system_logs, state_diffs |-> diffs,
                  pubdata |-> pubdata, heap |-> HeapOf(in)]
    BY Zenon, <1>7 DEF VmRun
  <2> QED
    BY <1>5, <1>7, <2>1 DEF VmHasRun
<1> QED
  BY <1>6, <1>7

LEMMA HeapOfTheVmFits ==
  ASSUME NEW in
  PROVE  HeapFits(HeapOf(in), HeapWords)
<1>1. PICK a, b, c : HeapOf(in) = << <<0, a>>, <<1, b>>, <<2, c>> >>
  BY Zenon DEF HeapOf
<1> QED
  BY <1>1, BatchVerificationAssumption DEF HeapFits

\* Accepted input whose meta parameters are those that L1 expects is what the chain has
\* agreed on.
LEMMA BoundInputIsCanonical ==
  ASSUME NEW in, NEW emulator \in {NoContract, Contract(EmulatorCode)},
         NEW expected,
         expected = [zkporter_is_available |-> ZKPORTER_IS_AVAILABLE,
                     bootloader_code_hash |-> for_bytecode(BootloaderCode),
                     default_aa_code_hash |-> for_bytecode(AccountCode),
                     evm_emulator_code_hash |-> IF emulator = NoContract THEN ZeroHash ELSE emulator.hash,
                     protocol_version |-> latest],
         IsPinned(in), BaseIsVerified(in), UsersAreVerified(in),
         MetaHash(MetaOf(in)) = MetaHash(expected)
  PROVE  IsCanonical(in, emulator)
<1> DEFINE given == IF in.evm_emulator = NoContract THEN ZeroHash ELSE in.evm_emulator.hash
           wanted == IF emulator = NoContract THEN ZeroHash ELSE emulator.hash
<1>1. in.version = latest
  BY DEF IsPinned, EnvironmentIsPinned
<1>2. PICK e, e2 : e = given /\ e2 = wanted
  BY ZenonT(20)
<1>3. /\ in.bootloader.hash = for_bytecode(BootloaderCode) /\ in.default_aa.hash = for_bytecode(AccountCode)
      /\ (IF e = NoCode THEN in.default_aa.hash ELSE e)
           = (IF e2 = NoCode THEN for_bytecode(AccountCode) ELSE e2)
  <2>1. MetaOf(in) = [zkporter_is_available |-> in.zk_porter, bootloader_code_hash |-> in.bootloader.hash,
                      default_aa_code_hash |-> in.default_aa.hash, evm_emulator_code_hash |-> e,
                      protocol_version |-> latest]
    BY <1>1, <1>2 DEF MetaOf
  <2>2. expected = [zkporter_is_available |-> ZKPORTER_IS_AVAILABLE,
                    bootloader_code_hash |-> for_bytecode(BootloaderCode),
                    default_aa_code_hash |-> for_bytecode(AccountCode), evm_emulator_code_hash |-> e2,
                    protocol_version |-> latest]
    BY ZenonT(20), <1>2
  <2> QED
    BY <2>1, <2>2, MetaIsBinding
<1>4. /\ verify_bytecode_hash(in.bootloader.hash, in.bootloader.code) = "ok"
      /\ verify_bytecode_hash(in.default_aa.hash, in.default_aa.code) = "ok"
      /\ in.evm_emulator # NoContract =>
            verify_bytecode_hash(in.evm_emulator.hash, in.evm_emulator.code) = "ok"
  BY SMTT(20), BaseContractsAre DEF BaseIsVerified
<1>5. in.bootloader.code = BootloaderCode /\ in.default_aa.code = AccountCode
  BY ZenonT(40), <1>3, <1>4, CheckBindsTheCode
<1>6. in.evm_emulator.code = emulator.code
  <2>1. NoContract.code = <<>> /\ ZeroHash # NoCode
    BY ZenonT(40) DEF NoContract, ZeroHash, NoCode
  <2>2. in.evm_emulator # NoContract => e \notin {ZeroHash, NoCode}
    BY ZenonT(40), <1>2, <1>4, NoCodeForOtherHashes
  <2>3. in.evm_emulator = NoContract => e = ZeroHash
    BY <1>2
  <2>4. /\ \A code : for_bytecode(code) \notin {ZeroHash, NoCode}
        /\ Contract(EmulatorCode).hash = for_bytecode(EmulatorCode)
        /\ Contract(EmulatorCode).code = EmulatorCode
    BY ZenonT(40) DEF for_bytecode, for_generic_bytecode, CodeHash, CodePanic, ZeroHash, NoCode, Contract
  <2>5. e = e2 /\ e2 # NoCode
    BY ZenonT(40), <1>2, <1>3, <2>1, <2>2, <2>3, <2>4
  <2>6. CASE emulator = NoContract
    BY ZenonT(40), <1>2, <2>1, <2>2, <2>3, <2>5, <2>6
  <2>7. CASE emulator # NoContract
    <3>1. emulator = Contract(EmulatorCode) /\ e = for_bytecode(EmulatorCode)
      BY ZenonT(40), <1>2, <2>4, <2>5, <2>7
    <3>2. in.evm_emulator # NoContract /\ in.evm_emulator.hash = for_bytecode(EmulatorCode)
      BY ZenonT(40), <1>2, <2>3, <2>4, <3>1
    <3> QED
      BY ZenonT(40), <1>4, <2>4, <3>1, <3>2, CheckBindsTheCode
  <2> QED
    BY Zenon, <2>6, <2>7
<1>7. UserHash \in DOMAIN in.used_bytecodes => in.used_bytecodes[UserHash] = UserCode
  <2>1. UserHash \in DOMAIN in.used_bytecodes =>
           verify_bytecode_hash(for_bytecode(UserCode), in.used_bytecodes[UserHash]) = "ok"
    BY DEF UsersAreVerified, UserHash
  <2> QED
    BY ZenonT(40), <2>1, CheckBindsTheCode
<1> QED
  BY ZenonT(20), <1>5, <1>6, <1>7 DEF IsCanonical, IsPinned, EnvironmentIsPinned

-----------------------------------------------------------------------------
(***************************************************************************)
(* The invariant is inductive.                                              *)
(***************************************************************************)
\* What accepts an L1 that expects the chain's own meta parameters: the batch is the chain's.
LEMMA SettlingBinds ==
  ASSUME IsChain(chain), result = ResultOf(input, vm, tree),
         IsPinned(input), BaseIsVerified(input), UsersAreVerified(input),
         WrapperPublicInput(result.proof_public_input) = L1PublicInput(chain.stored, L1Commitment)
  PROVE  /\ input.commitment_input.prev_batch_commitment = chain.stored
         /\ IsCanonical(input, chain.emulator)
<1>1. PICK p, m, a : /\ p = keccak256(PassThroughBytes(SharedStates(tree.index, tree.root)))
                     /\ m = MetaHash(MetaOf(input)) /\ a = AuxHash(AuxOf(input, vm))
  OBVIOUS
<1>2. /\ result.hashes = [pass_through_data |-> p, meta_parameters |-> m, aux_output |-> a,
                          commitment |-> compute_commitment(p, m, a)]
      /\ result.proof_public_input =
            compute_proof_public_input(input.commitment_input.prev_batch_commitment, compute_commitment(p, m, a))
  BY ZenonT(40), <1>1 DEF ResultOf, CommitmentHash
<1>3. /\ result.hashes.pass_through_data = p /\ result.hashes.aux_output = a
      /\ L1Commitment = compute_commitment(p, MetaHash(L1Meta), a)
  <2>1. result.hashes.pass_through_data = p /\ result.hashes.aux_output = a
    <3>1. PICK h : h = result.hashes
      OBVIOUS
    <3>2. h = [pass_through_data |-> p, meta_parameters |-> m, aux_output |-> a,
               commitment |-> compute_commitment(p, m, a)]
      BY Zenon, <1>2, <3>1
    <3>3. h.pass_through_data = p /\ h.aux_output = a
      BY Zenon, <3>2
    <3> QED
      BY Zenon, <3>1, <3>3
  <2> QED
    BY ZenonT(40), <2>1 DEF L1Commitment
<1>4. input.commitment_input.prev_batch_commitment = chain.stored /\ m = MetaHash(L1Meta)
  <2>1. WrapperPublicInput(compute_proof_public_input(input.commitment_input.prev_batch_commitment,
                                                     compute_commitment(p, m, a)))
          = L1PublicInput(chain.stored, compute_commitment(p, MetaHash(L1Meta), a))
    BY Zenon, <1>2, <1>3
  <2> QED
    BY <2>1, AcceptedIsBound
<1>5. MetaHash(MetaOf(input)) = MetaHash(L1Meta)
  BY Zenon, <1>1, <1>4
<1>6. IsCanonical(input, chain.emulator)
  BY Zenon, <1>5, BoundInputIsCanonical DEF L1Meta, IsChain
<1> QED
  BY <1>4, <1>6

\* The steps of the node, and those before the environment is pinned.
LEMMA OpeningSteps ==
  ASSUME VerifierInv, ProduceBatch \/ (\E f \in DOMAIN Fields : Deviate(f)) \/ Begin
  PROVE  VerifierInv'
<1>1. phase' \in {"received", "normalized", "rejected"} /\ chain' = chain
  BY DEF ProduceBatch, Deviate, Begin, locals
<1>2. IsChain(chain')
  BY ZenonT(40), <1>1 DEF VerifierInv
<1> QED
  BY <1>1, <1>2 DEF VerifierInv, SincePinned, SinceLoaded, SinceViewed, SinceExecuted, SinceAccepted

LEMMA CheckEnvironmentStep ==
  ASSUME VerifierInv, CheckEnvironment
  PROVE  VerifierInv'
<1>1. /\ chain' = chain /\ input' = input
      /\ phase' \in {"pinned", "rejected"} /\ (phase' = "pinned" => IsPinned(input))
  BY DEF CheckEnvironment, IsPinned
<1>2. IsChain(chain') /\ (phase' = "pinned" => IsPinned(input'))
  BY ZenonT(40), <1>1 DEF VerifierInv
<1> QED
  BY <1>1, <1>2 DEF VerifierInv, SincePinned, SinceLoaded, SinceViewed, SinceExecuted, SinceAccepted

LEMMA CheckBytecodesStep ==
  ASSUME VerifierInv, CheckBytecodes
  PROVE  VerifierInv'
<1> DEFINE checks == [i \in DOMAIN BaseContracts(input) |->
                        verify_bytecode_hash(BaseContracts(input)[i].hash, BaseContracts(input)[i].code)]
<1>1. PICK outcome : outcome = FirstFailure(checks)
  OBVIOUS
<1>2. /\ chain' = chain /\ input' = input
      /\ phase' \in {"panicked", "rejected", "loaded"}
      /\ phase' = "panicked" => outcome = "panic"
      /\ phase' = "loaded" => outcome \notin {"panic", "error"}
  <2> HIDE DEF checks
  <2>1. phase' = CASE outcome = "panic" -> "panicked"
                   [] outcome = "error" -> "rejected"
                   [] OTHER -> IF CopiesAgree(input) THEN "loaded" ELSE "rejected"
    BY <1>1 DEF CheckBytecodes, checks
  <2>2. chain' = chain /\ input' = input
    BY DEF CheckBytecodes
  <2> QED
    BY <2>1, <2>2
<1>3. (phase' = "panicked" => IsImpossible(input)) /\ (phase' = "loaded" => BaseIsVerified(input))
  BY <1>1, <1>2, BaseChecks
<1>4. IsChain(chain) /\ IsPinned(input)
  BY DEF VerifierInv, CheckBytecodes, SincePinned
<1>5. /\ IsChain(chain') /\ IsPinned(input')
      /\ phase' = "panicked" => IsImpossible(input')
      /\ phase' = "loaded" => BaseIsVerified(input')
  BY ZenonT(40), <1>2, <1>3, <1>4
<1> QED
  BY ZenonT(40), <1>2, <1>5 DEF VerifierInv, SincePinned, SinceLoaded, SinceViewed, SinceExecuted, SinceAccepted

LEMMA BuildViewStep ==
  ASSUME VerifierInv, BuildView
  PROVE  VerifierInv'
<1>1. PICK outcome \in UsedBytecodesChecked(input.used_bytecodes) :
         phase' = CASE ~ViewIsBuilt(input.merkle_paths) -> "rejected"
                    [] ViewIsBuilt(input.merkle_paths) /\ outcome = "panic" -> "panicked"
                    [] ViewIsBuilt(input.merkle_paths) /\ outcome = "error" -> "rejected"
                    [] OTHER -> "viewed"
  BY DEF BuildView
<1>2. /\ phase' \in {"panicked", "rejected", "viewed"}
      /\ phase' = "panicked" => outcome = "panic"
      /\ phase' = "viewed" => outcome \notin {"panic", "error"}
  BY <1>1
<1>3. (phase' = "panicked" => IsImpossible(input)) /\ (phase' = "viewed" => UsersAreVerified(input))
  BY <1>2, UserChecks
<1>4. phase' = "viewed" => ViewIsComplete(input, view')
  <2>1. SUFFICES ASSUME phase' = "viewed"
                 PROVE  DOMAIN view' = input.declared \cup KeysOf(input.merkle_paths)
    BY DEF ViewIsComplete
  <2>2. view' = ViewOf(input)
    BY <2>1 DEF BuildView
  <2>3. DOMAIN WitnessedView(input.merkle_paths) = KeysOf(input.merkle_paths)
    BY DEF WitnessedView
  <2> QED
    BY <2>2, <2>3 DEF ViewOf
<1>5. chain' = chain /\ input' = input
  BY DEF BuildView
<1>6. IsChain(chain) /\ IsPinned(input) /\ BaseIsVerified(input)
  BY DEF VerifierInv, BuildView, SincePinned, SinceLoaded
<1>7. /\ IsChain(chain') /\ IsPinned(input') /\ BaseIsVerified(input')
      /\ phase' = "panicked" => IsImpossible(input')
      /\ phase' = "viewed" => UsersAreVerified(input') /\ ViewIsComplete(input', view')
  BY ZenonT(40), <1>3, <1>4, <1>5, <1>6
<1> QED
  BY ZenonT(40), <1>2, <1>7 DEF VerifierInv, SincePinned, SinceLoaded, SinceViewed, SinceExecuted, SinceAccepted

LEMMA RunVmStep ==
  ASSUME VerifierInv, RunVm
  PROVE  VerifierInv'
<1>1. /\ IsChain(chain) /\ IsPinned(input) /\ BaseIsVerified(input)
      /\ UsersAreVerified(input) /\ ViewIsComplete(input, view)
  BY DEF VerifierInv, RunVm, SincePinned, SinceLoaded, SinceViewed
<1>2. PICK run : run = VmRun(input, chain.emulator, view)
  OBVIOUS
<1>3. /\ run.outcome \in {"ok", "error", "panic"}
      /\ run.outcome = "panic" => IsImpossible(input)
      /\ run.outcome = "ok" => VmHasRun(input, run)
  BY <1>1, <1>2, RunsOfTheVm
<1>4. \/ phase' = "rejected"
      \/ /\ vm' = run
         /\ phase' = CASE run.outcome = "ok" -> "executed"
                       [] run.outcome = "error" -> "rejected"
                       [] run.outcome = "panic" -> "panicked"
  BY ZenonT(40), <1>2 DEF RunVm
<1>5. /\ phase' \in {"rejected", "executed", "panicked"}
      /\ phase' = "executed" => VmHasRun(input, vm')
      /\ phase' = "panicked" => IsImpossible(input)
  BY <1>3, <1>4
<1>6. chain' = chain /\ input' = input /\ view' = view
  BY DEF RunVm
<1>7. /\ IsChain(chain') /\ IsPinned(input') /\ BaseIsVerified(input')
      /\ UsersAreVerified(input') /\ ViewIsComplete(input', view')
      /\ phase' = "executed" => VmHasRun(input', vm')
      /\ phase' = "panicked" => IsImpossible(input')
  BY ZenonT(40), <1>1, <1>5, <1>6
<1> QED
  BY <1>5, <1>7 DEF VerifierInv, SincePinned, SinceLoaded, SinceViewed, SinceExecuted, SinceAccepted

LEMMA CheckTreeStep ==
  ASSUME VerifierInv, CheckTree
  PROVE  VerifierInv'
<1>1. /\ IsChain(chain) /\ IsPinned(input) /\ BaseIsVerified(input)
      /\ UsersAreVerified(input) /\ ViewIsComplete(input, view) /\ VmHasRun(input, vm)
  BY DEF VerifierInv, CheckTree, SincePinned, SinceLoaded, SinceViewed, SinceExecuted
<1>2. HeapFits(vm.heap, HeapWords)
  BY <1>1, HeapOfTheVmFits DEF VmHasRun
<1>3. phase' \in {"rejected", "proved"}
  BY <1>2 DEF CheckTree
<1>4. chain' = chain /\ input' = input /\ view' = view /\ vm' = vm
  BY DEF CheckTree
<1>5. /\ IsChain(chain') /\ IsPinned(input') /\ BaseIsVerified(input')
      /\ UsersAreVerified(input') /\ ViewIsComplete(input', view') /\ VmHasRun(input', vm')
  BY ZenonT(40), <1>1, <1>4
<1> QED
  BY <1>3, <1>5 DEF VerifierInv, SincePinned, SinceLoaded, SinceViewed, SinceExecuted, SinceAccepted

LEMMA VerifyCommitmentStep ==
  ASSUME VerifierInv, VerifyCommitment
  PROVE  VerifierInv'
<1>1. /\ IsChain(chain) /\ IsPinned(input) /\ BaseIsVerified(input)
      /\ UsersAreVerified(input) /\ ViewIsComplete(input, view) /\ VmHasRun(input, vm)
  BY ZenonT(40) DEF VerifierInv, VerifyCommitment, SincePinned, SinceLoaded, SinceViewed, SinceExecuted
<1>2. /\ phase' \in {"rejected", "accepted"}
      /\ phase' = "accepted" => PreviousIsBound(input) /\ result' = ResultOf(input, vm, tree)
  BY DEF VerifyCommitment, CommitmentInputIsValid, ResultOf
<1>3. chain' = chain /\ input' = input /\ view' = view /\ vm' = vm /\ tree' = tree
  BY DEF VerifyCommitment
<1>4. /\ IsChain(chain') /\ IsPinned(input') /\ BaseIsVerified(input')
      /\ UsersAreVerified(input') /\ ViewIsComplete(input', view') /\ VmHasRun(input', vm')
      /\ phase' = "accepted" => PreviousIsBound(input') /\ result' = ResultOf(input', vm', tree')
  BY ZenonT(40), <1>1, <1>2, <1>3
<1> QED
  BY ZenonT(40), <1>2, <1>4 DEF VerifierInv, SincePinned, SinceLoaded, SinceViewed, SinceExecuted, SinceAccepted

\* L1 accepts the batch, or nothing of the chain changes.
LEMMA SettledChain ==
  ASSUME IsChain(chain), Settle
  PROVE  \/ phase' = "refused" /\ chain' = chain
         \/ /\ phase' = "settled"
            /\ WrapperPublicInput(result.proof_public_input) = L1PublicInput(chain.stored, L1Commitment)
            /\ chain' = [contents |-> After(chain.contents, StorageOps(ProgramOf(input.blocks))),
                         emulator |-> chain.emulator, number |-> chain.number + 1, stored |-> L1Commitment,
                         meta_hash |-> MetaHash(L1Meta), aux_hash |-> result.hashes.aux_output]
<1> DEFINE accepted == WrapperPublicInput(result.proof_public_input) = L1PublicInput(chain.stored, L1Commitment)
<1>1. CASE ~accepted
  BY <1>1 DEF Settle
<1>2. CASE accepted
  <2>1. PICK contents, stored, meta_hash, aux_hash, number :
           /\ contents = After(chain.contents, StorageOps(ProgramOf(input.blocks))) /\ stored = L1Commitment
           /\ meta_hash = MetaHash(L1Meta) /\ aux_hash = result.hashes.aux_output /\ number = chain.number + 1
    OBVIOUS
  <2>2. /\ phase' = "settled"
        /\ chain' = [chain EXCEPT !.contents = contents, !.stored = stored, !.meta_hash = meta_hash,
                                  !.aux_hash = aux_hash, !.number = number]
    BY <1>2, <2>1 DEF Settle
  <2>3. chain' = [contents |-> contents, emulator |-> chain.emulator, number |-> number, stored |-> stored,
                  meta_hash |-> meta_hash, aux_hash |-> aux_hash]
    BY Zenon, <2>2 DEF IsChain
  <2> QED
    BY Zenon, <1>2, <2>1, <2>2, <2>3
<1> QED
  BY <1>1, <1>2

LEMMA SettleStep ==
  ASSUME VerifierInv, Settle
  PROVE  VerifierInv'
<1>1. /\ IsChain(chain) /\ IsPinned(input) /\ BaseIsVerified(input)
      /\ UsersAreVerified(input) /\ ViewIsComplete(input, view) /\ VmHasRun(input, vm)
      /\ PreviousIsBound(input) /\ result = ResultOf(input, vm, tree)
  BY DEF VerifierInv, Settle, SincePinned, SinceLoaded, SinceViewed, SinceExecuted, SinceAccepted
<1>2. /\ phase' \in {"settled", "refused"}
      /\ input' = input /\ view' = view /\ vm' = vm /\ tree' = tree /\ result' = result
  BY ZenonT(40) DEF Settle, locals
<1>3. IsChain(chain') /\ chain'.emulator = chain.emulator
  <2>1. CASE chain' = chain
    BY ZenonT(40), <1>1, <2>1
  <2>2. CASE \E contents, number, stored, meta_hash, aux_hash :
               chain' = [contents |-> contents, emulator |-> chain.emulator, number |-> number, stored |-> stored,
                         meta_hash |-> meta_hash, aux_hash |-> aux_hash]
    <3>1. PICK c, contents, number, stored, meta_hash, aux_hash :
             c = chain' /\ c = [contents |-> contents, emulator |-> chain.emulator, number |-> number,
                                stored |-> stored, meta_hash |-> meta_hash, aux_hash |-> aux_hash]
      BY Zenon, <2>2
    <3>2. /\ c = [contents |-> c.contents, emulator |-> c.emulator, number |-> c.number, stored |-> c.stored,
                  meta_hash |-> c.meta_hash, aux_hash |-> c.aux_hash]
          /\ c.emulator = chain.emulator
      BY <3>1
    <3> QED
      BY Zenon, <1>1, <3>1, <3>2 DEF IsChain
  <2> QED
    BY ZenonT(40), <1>1, <2>1, <2>2, SettledChain
<1>4. phase' = "settled" => IsCanonical(input, chain.emulator)
  <2>1. phase' = "settled" =>
           WrapperPublicInput(result.proof_public_input) = L1PublicInput(chain.stored, L1Commitment)
    BY <1>1, SettledChain
  <2> QED
    BY ZenonT(40), <1>1, <2>1, SettlingBinds
<1>5. /\ IsPinned(input') /\ BaseIsVerified(input')
      /\ UsersAreVerified(input') /\ ViewIsComplete(input', view') /\ VmHasRun(input', vm')
      /\ PreviousIsBound(input') /\ result' = ResultOf(input', vm', tree')
      /\ phase' = "settled" => IsCanonical(input', chain'.emulator)
  BY ZenonT(40), <1>1, <1>2, <1>3, <1>4
<1> QED
  BY <1>2, <1>3, <1>5 DEF VerifierInv, SincePinned, SinceLoaded, SinceViewed, SinceExecuted, SinceAccepted

LEMMA VerifierInitially ==
  ASSUME Init
  PROVE  VerifierInv
<1>1. phase = "idle" /\ IsChain(chain)
  BY DEF Init, IsChain
<1> QED
  BY ZenonT(40), <1>1 DEF VerifierInv, SincePinned, SinceLoaded, SinceViewed, SinceExecuted, SinceAccepted

LEMMA VerifierStep ==
  ASSUME VerifierInv, [Next]_vars
  PROVE  VerifierInv'
<1>1. CASE UNCHANGED vars
  <2>1. /\ phase' = phase /\ chain' = chain /\ input' = input /\ view' = view /\ vm' = vm
        /\ tree' = tree /\ result' = result
    BY ZenonT(40), <1>1 DEF vars
  <2> QED
    BY <2>1 DEF VerifierInv
<1>2. CASE NextBatch
  <2>1. phase' = "idle" /\ chain' = chain
    BY <1>2 DEF NextBatch
  <2>2. IsChain(chain')
    BY <2>1 DEF VerifierInv
  <2> QED
    BY <2>1, <2>2 DEF VerifierInv, SincePinned, SinceLoaded, SinceViewed, SinceExecuted, SinceAccepted
<1>3. CASE Finished
  BY <1>1, <1>3 DEF Finished
<1> QED
  BY <1>1, <1>2, <1>3, OpeningSteps, CheckEnvironmentStep, CheckBytecodesStep, BuildViewStep, RunVmStep,
     CheckTreeStep, VerifyCommitmentStep, SettleStep DEF Next

\* The inductive invariant holds in every reachable state: every phase of execute() and
\* verify_commitment() starts from what the phases before it have established.
THEOREM VerifierInvariantHolds == Spec => []VerifierInv
<1>1. Init => VerifierInv
  BY VerifierInitially
<1>2. VerifierInv /\ [Next]_vars => VerifierInv'
  BY VerifierStep
<1> QED
  BY <1>1, <1>2, PTL DEF Spec

\* Whatever the input, the verifier panics only on what no sealed batch has: a bytecode of an
\* impossible length, a slot or a bytecode that is missing, blocks that are no chain, or a batch
\* that cannot be finished; everything else that is wrong with it is an error.  And none of these
\* gets through the VM (execute(), execute_vm()).
THEOREM PanicsAreForImpossibleInput == Spec => []PanicsOnlyOnImpossibleInput
<1>1. VerifierInv => PanicsOnlyOnImpossibleInput
  <2> SUFFICES ASSUME VerifierInv
               PROVE  PanicsOnlyOnImpossibleInput
    OBVIOUS
  <2>1. phase = "panicked" => IsImpossible(input)
    BY ZenonT(40) DEF VerifierInv
  <2>2. ASSUME phase \in {"executed", "proved", "accepted", "settled"}
        PROVE  ~IsImpossible(input)
    <3>1. BaseIsVerified(input) /\ UsersAreVerified(input) /\ ~BlocksAreImpossible(input)
      BY <2>2 DEF VerifierInv, SinceLoaded, SinceViewed, SinceExecuted, SinceAccepted, VmHasRun
    <3> QED
      BY ZenonT(40), <3>1, OutcomesOfACheck DEF IsImpossible, BaseIsVerified, UsersAreVerified
  <2> QED
    BY <2>1, <2>2 DEF PanicsOnlyOnImpossibleInput
<1> QED
  BY <1>1, VerifierInvariantHolds, PTL

-----------------------------------------------------------------------------
(***************************************************************************)
(* The chain follows the tree, as long as the tree check does.              *)
(***************************************************************************)
LEMMA GenesisOpens ==
  ASSUME Init
  PROVE  StoredOpensToTheTree
<1>1. PICK emulator : chain = [contents |-> GenesisTree, emulator |-> emulator, number |-> 1,
                               stored |-> Genesis(emulator).commitment,
                               meta_hash |-> Genesis(emulator).meta_parameters,
                               aux_hash |-> Genesis(emulator).aux_output]
  BY DEF Init
<1> DEFINE root == RootHash(GenesisTree)
           index == Cardinality(DOMAIN GenesisTree) + 1
<1>2. PICK batch : batch = for_genesis_batch(root, index, for_bytecode(BootloaderCode),
                                             for_bytecode(AccountCode), emulator.hash, latest)
  BY ZenonT(40)
<1>3. batch.rollup_last_leaf_index = index /\ batch.rollup_root_hash = root
  BY ZenonT(40), <1>2 DEF for_genesis_batch
<1>4. PICK m, a : Genesis(emulator) = CommitmentHash(SharedStates(index, root), m, a)
  <2>1. Genesis(emulator) = NodeCommitment(batch, FALSE).hash
    BY ZenonT(40), <1>2 DEF Genesis
  <2>2. NodeCommitment(batch, FALSE).hash =
           CommitmentHash(SharedStates(index, root), NodeMeta(batch), AuxOutput(batch, FALSE))
    BY <1>3 DEF NodeCommitment
  <2> QED
    BY Zenon, <2>1, <2>2
<1>5. PICK p : p = keccak256(PassThroughBytes(SharedStates(index, root)))
  OBVIOUS
<1>6. Genesis(emulator) = [pass_through_data |-> p, meta_parameters |-> MetaHash(m), aux_output |-> AuxHash(a),
                           commitment |-> compute_commitment(p, MetaHash(m), AuxHash(a))]
  BY ZenonT(40), <1>4, <1>5 DEF CommitmentHash
<1>7. /\ chain.stored = compute_commitment(p, MetaHash(m), AuxHash(a))
      /\ chain.meta_hash = MetaHash(m) /\ chain.aux_hash = AuxHash(a) /\ chain.contents = GenesisTree
  <2>1. /\ Genesis(emulator).commitment = compute_commitment(p, MetaHash(m), AuxHash(a))
        /\ Genesis(emulator).meta_parameters = MetaHash(m) /\ Genesis(emulator).aux_output = AuxHash(a)
    <3>1. PICK h : h = Genesis(emulator)
      OBVIOUS
    <3>2. h = [pass_through_data |-> p, meta_parameters |-> MetaHash(m), aux_output |-> AuxHash(a),
               commitment |-> compute_commitment(p, MetaHash(m), AuxHash(a))]
      BY Zenon, <1>6, <3>1
    <3>3. /\ h.commitment = compute_commitment(p, MetaHash(m), AuxHash(a))
          /\ h.meta_parameters = MetaHash(m) /\ h.aux_output = AuxHash(a)
      BY Zenon, <3>2
    <3> QED
      BY Zenon, <3>1, <3>3
  <2>2. /\ chain.contents = GenesisTree /\ chain.stored = Genesis(emulator).commitment
        /\ chain.meta_hash = Genesis(emulator).meta_parameters /\ chain.aux_hash = Genesis(emulator).aux_output
    BY ZenonT(40), <1>1
  <2> QED
    BY ZenonT(40), <2>1, <2>2
<1> QED
  BY ZenonT(40), <1>5, <1>7 DEF StoredOpensToTheTree, compute_pass_through_data_hash

LEMMA SettlingFollows ==
  ASSUME VerifierInv, StoredOpensToTheTree, TreeCheckIsSound, Settle
  PROVE  StoredOpensToTheTree'
<1>1. /\ IsChain(chain) /\ IsPinned(input) /\ BaseIsVerified(input)
      /\ UsersAreVerified(input)
      /\ PreviousIsBound(input) /\ result = ResultOf(input, vm, tree) /\ phase = "accepted"
  BY DEF VerifierInv, Settle, SincePinned, SinceLoaded, SinceViewed, SinceExecuted, SinceAccepted
<1>2. CASE chain' = chain
  BY ZenonT(40), <1>2 DEF StoredOpensToTheTree
<1>3. CASE chain' # chain
  <2> DEFINE after == After(chain.contents, StorageOps(ProgramOf(input.blocks)))
             index == Cardinality(DOMAIN chain.contents) + 1
             root == RootHash(chain.contents)
  <2>1. /\ WrapperPublicInput(result.proof_public_input) = L1PublicInput(chain.stored, L1Commitment)
        /\ chain' = [contents |-> after, emulator |-> chain.emulator, number |-> chain.number + 1,
                     stored |-> L1Commitment, meta_hash |-> MetaHash(L1Meta),
                     aux_hash |-> result.hashes.aux_output]
    BY <1>1, <1>3, SettledChain
  <2>2. input.commitment_input.prev_batch_commitment = chain.stored /\ IsCanonical(input, chain.emulator)
    BY Zenon, <1>1, <2>1, SettlingBinds
  <2>3. compute_commitment(compute_pass_through_data_hash(input.next_enumeration_index, input.previous_batch_hash),
                           input.commitment_input.prev_meta_hash, input.commitment_input.prev_aux_hash)
        = compute_commitment(compute_pass_through_data_hash(index, root), chain.meta_hash, chain.aux_hash)
    BY Zenon, <1>1, <2>2 DEF PreviousIsBound, StoredOpensToTheTree
  <2>4. compute_pass_through_data_hash(input.next_enumeration_index, input.previous_batch_hash)
        = compute_pass_through_data_hash(index, root)
    BY <2>3, CommitmentIsBinding
  <2>5. input.next_enumeration_index = index /\ input.previous_batch_hash = root
    BY <2>4, PassThroughIsBinding
  <2>6. tree.index = Cardinality(DOMAIN after) + 1 /\ tree.root = RootHash(after)
    BY Zenon, <1>1, <2>2, <2>5 DEF TreeCheckIsSound
  <2>7. result.hashes.pass_through_data = compute_pass_through_data_hash(tree.index, tree.root)
    BY ZenonT(40), <1>1 DEF ResultOf, CommitmentHash, compute_pass_through_data_hash
  <2>8. L1Commitment = compute_commitment(compute_pass_through_data_hash(Cardinality(DOMAIN after) + 1, RootHash(after)),
                                          MetaHash(L1Meta), result.hashes.aux_output)
    BY Zenon, <2>6, <2>7 DEF L1Commitment
  <2>9. /\ chain'.contents = after /\ chain'.stored = L1Commitment /\ chain'.meta_hash = MetaHash(L1Meta)
        /\ chain'.aux_hash = result.hashes.aux_output
    BY <2>1
  <2> HIDE DEF after
  <2> QED
    BY ZenonT(40), <2>8, <2>9 DEF StoredOpensToTheTree
<1> QED
  BY <1>2, <1>3

\* Whatever is wrong with the inputs, the chain never leaves the tree, provided that the
\* tree check of a batch is right about the root and the next index: the previous
\* commitment, the code, the mode and the public input bind everything else (execute(),
\* verify_commitment()).
THEOREM SettledBatchesFollowTheTree == Spec /\ []TreeCheckIsSound => []SettledFollowsTheTree
<1>1. Init => StoredOpensToTheTree
  BY GenesisOpens
<1>2. VerifierInv /\ TreeCheckIsSound /\ StoredOpensToTheTree /\ [Next]_vars => StoredOpensToTheTree'
  <2> SUFFICES ASSUME VerifierInv, TreeCheckIsSound, StoredOpensToTheTree, [Next]_vars
               PROVE  StoredOpensToTheTree'
    OBVIOUS
  <2>1. CASE Settle
    BY <2>1, SettlingFollows
  <2>2. CASE ~Settle
    <3>1. chain' = chain
      BY ZenonT(40), <2>2 DEF Next, vars, locals, ProduceBatch, Deviate, Begin, CheckEnvironment, CheckBytecodes, BuildView,
                  RunVm, CheckTree, VerifyCommitment, NextBatch, Finished
    <3> QED
      BY ZenonT(40), <3>1 DEF StoredOpensToTheTree
  <2> QED
    BY <2>1, <2>2
<1>3. VerifierInv /\ TreeCheckIsSound /\ StoredOpensToTheTree => SettledFollowsTheTree
  BY DEF VerifierInv, SettledFollowsTheTree
<1> QED
  BY <1>1, <1>2, <1>3, VerifierInvariantHolds, PTL DEF Spec
=============================================================================
