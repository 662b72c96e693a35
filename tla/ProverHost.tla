----------------------------- MODULE ProverHost -----------------------------
(***************************************************************************)
(* The commands of the prover host and the files they leave: verification   *)
(* keys, the trusted setup, FRI proofs and SNARK proofs (host/src/main.rs,  *)
(* lib.rs, fri.rs, gpu_fri.rs, snark.rs, setup_download.rs).  Every file is *)
(* created first and filled later, and a command may stop between any two   *)
(* steps: it is killed, or an operation on a file fails.  The next command  *)
(* finds what is left.  The guest may be built anew between two commands.   *)
(* Provers, wrapper and network are external.  `run` writes no file and is  *)
(* left out, as are directories, which are created as needed.               *)
(***************************************************************************)
EXTENDS Integers, Sequences

CONSTANTS
    Batches,            \* numbers of batches, other than any string
    RefusedBatches,     \* batches for which the guest returns zeros
    SecurityLevels,
    BatchLists,         \* the batches a prove-fri may be given, in order
    FileLists,          \* the proof files a prove-snark may be given, in order
    Folders,            \* the operator's own directories
    FolderNumber,       \* folder |-> the batch its name gives, or "none"
    MovedProofs,        \* where the operator may move proofs to: folder and file name
    Moves,              \* the moves the operator may make: the batch, and where its proof goes
    DOWNLOAD_RETRIES,
    MaxGuests,          \* bound: versions of the guest
    MaxCommands         \* bound: commands given

VARIABLES
    guest,      \* the version of app.bin and app.text
    files,      \* path |-> contents
    cmd,        \* the command that runs
    last,       \* the last command and its result, until the next one or a new guest
    commands    \* how many were given

host_vars == <<guest, files, cmd, last, commands>>

-----------------------------------------------------------------------------
(***************************************************************************)
(* Files.  Contents name what they are of; a file that was created and not  *)
(* filled is Torn, and no decoder accepts a part of what was encoded.       *)
(***************************************************************************)
Torn == <<>>

FriVk == <<"vks", "fri_vk.bin">>
SnarkVk == <<"vks", "snark_vk.json">>
TrustedSetup == <<"keys", "setup.key">>
FRI_PROOF_FILE_NAME == "fri_proof.json"

VerificationKey(security) == <<"fri_vk", guest, security>>
SnarkWrapperVK == <<"snark_vk", guest>>
FriProof(security, b, valid) == <<"fri_proof", guest, security, b, valid>>
Wrapped(kind, b) == <<kind, guest, b>>

Exists(path) == path \in DOMAIN files

IsWhole(path) == Exists(path) /\ files[path] # Torn

WithFile(fs, path, contents) ==
    [p \in DOMAIN fs \union {path} |-> IF p = path THEN contents ELSE fs[p]]

Without(fs, path) == [p \in DOMAIN fs \ {path} |-> fs[p]]

ProofFiles == (Batches \X {FRI_PROOF_FILE_NAME}) \union MovedProofs

batch_output_dir(b) == b

\* What the name of the parent directory is parsed to: "batch-7" and "batch-007" give one number.
batch_number_from_exported_fri_proof_path(path) ==
    IF path[2] # FRI_PROOF_FILE_NAME THEN "none"
    ELSE IF path[1] \in Batches THEN path[1] ELSE FolderNumber[path[1]]

file_stem(name) == IF name = FRI_PROOF_FILE_NAME THEN "fri_proof" ELSE "mine"

\* Neither part tells all files apart: several may have one output directory.
proof_file_output_dir(path) ==
    IF batch_number_from_exported_fri_proof_path(path) \in Batches
    THEN batch_output_dir(batch_number_from_exported_fri_proof_path(path))
    ELSE file_stem(path[2])

-----------------------------------------------------------------------------
(***************************************************************************)
(* Commands.  `writes` are the files the command is about to write, in      *)
(* order; its next step waits for them.                                     *)
(***************************************************************************)
NoCommand == [name |-> "none"]

Command(name, pc, security, todo, given, intermediates) ==
    [name |-> name, pc |-> pc, security |-> security, todo |-> todo, asked |-> todo, given |-> given,
     save_intermediates |-> intermediates, vk |-> <<>>, writes |-> <<>>, created |-> FALSE, attempts |-> 0]

\* Moved proofs keep the standard name or have another one; commands are given batches and proof
\* files.
ASSUME HostAssumption ==
    /\ MovedProofs \subseteq Folders \X {FRI_PROOF_FILE_NAME, "mine.json"}
    /\ Moves \subseteq Batches \X MovedProofs
    /\ BatchLists \subseteq Seq(Batches)
    /\ FileLists \subseteq Seq(ProofFiles)

Requested ==
    \/ \E s \in SecurityLevels, todo \in BatchLists :
          cmd' = Command("prove-fri", "vk", s, todo, FALSE, FALSE)
    \/ \E s \in SecurityLevels : cmd' = Command("gen-vks", "remove", s, <<>>, FALSE, FALSE)
    \/ cmd' = Command("download", "exists", "none", <<>>, FALSE, FALSE)
    \/ \E todo \in FileLists, given \in BOOLEAN, intermediates \in BOOLEAN :
          cmd' = Command("prove-snark", "wrapper", "none", todo, given, intermediates)

\* Only the steps of a command that has nothing left to write.
At(pc) == cmd.name # "none" /\ cmd.pc = pc /\ cmd.writes = <<>>

Becomes(c) == cmd' = c /\ UNCHANGED <<guest, files, last, commands>>

Ends(ok) ==
    /\ cmd' = NoCommand
    /\ last' = [ok |-> ok, cmd |-> cmd]
    /\ UNCHANGED <<guest, files, commands>>

NoLast == [ok |-> FALSE]

Invoke ==
    /\ cmd = NoCommand /\ commands < MaxCommands
    /\ Requested
    /\ last' = NoLast
    /\ commands' = commands + 1
    /\ UNCHANGED <<guest, files>>

\* std::fs::write(), File::create(): the file is there before its contents are.
CreateFile ==
    /\ cmd.name # "none" /\ cmd.writes # <<>> /\ ~cmd.created
    /\ files' = WithFile(files, Head(cmd.writes)[1], Torn)
    /\ cmd' = [cmd EXCEPT !.created = TRUE]
    /\ UNCHANGED <<guest, last, commands>>

FillFile ==
    /\ cmd.name # "none" /\ cmd.writes # <<>> /\ cmd.created
    /\ files' = WithFile(files, Head(cmd.writes)[1], Head(cmd.writes)[2])
    /\ cmd' = [cmd EXCEPT !.writes = Tail(@), !.created = FALSE]
    /\ UNCHANGED <<guest, last, commands>>

Finish == At("end") /\ Ends(TRUE)

\* The process is killed, or an operation on a file or a prover fails.
Interrupt == cmd.name # "none" /\ Ends(FALSE)

-----------------------------------------------------------------------------
(***************************************************************************)
(* Verification keys.                                                       *)
(***************************************************************************)
\* The file must decode and be of the level asked for; of which guest it is cannot be seen.
LoadsVk(security) == IsWhole(FriVk) /\ files[FriVk][3] = security

RemoveStaleVk ==
    /\ At("remove")
    /\ files' = Without(files, FriVk)
    /\ cmd' = [cmd EXCEPT !.pc = "vk"]
    /\ UNCHANGED <<guest, last, commands>>

AfterVk == IF cmd.name = "gen-vks" THEN "snark_vk" ELSE "prove"

LoadOrGenerateVk_Heals ==
    /\ At("vk")
    /\ IF IsWhole(FriVk)
       THEN IF LoadsVk(cmd.security) THEN Becomes([cmd EXCEPT !.vk = files[FriVk], !.pc = AfterVk])
            ELSE Ends(FALSE)
       ELSE Becomes([cmd EXCEPT !.vk = VerificationKey(cmd.security),
                                !.writes = << <<FriVk, VerificationKey(cmd.security)>> >>, !.pc = AfterVk])

LoadOrGenerateVk ==
    /\ At("vk")
    /\ IF Exists(FriVk)
       THEN IF LoadsVk(cmd.security) THEN Becomes([cmd EXCEPT !.vk = files[FriVk], !.pc = AfterVk])
            ELSE Ends(FALSE)
       ELSE Becomes([cmd EXCEPT !.vk = VerificationKey(cmd.security),
                                !.writes = << <<FriVk, VerificationKey(cmd.security)>> >>, !.pc = AfterVk])

GenerateSnarkVk ==
    /\ At("snark_vk")
    /\ IF IsWhole(TrustedSetup)
       THEN Becomes([cmd EXCEPT !.writes = << <<SnarkVk, SnarkWrapperVK>> >>, !.pc = "end"])
       ELSE Ends(FALSE)

-----------------------------------------------------------------------------
(***************************************************************************)
(* prove-fri: each batch is proved, its proof checked, then saved.          *)
(***************************************************************************)
VerifiesProof_AnyKey(proof) == proof[4] \notin RefusedBatches /\ proof[5]

\* The output is not zero, and the proof is one of the guest and level of the key.
VerifiesProof(proof) ==
    /\ proof[4] \notin RefusedBatches
    /\ proof[5] /\ cmd.vk = <<"fri_vk", proof[2], proof[3]>>

\* The prover's proof may be wrong.
ProveBatch ==
    /\ At("prove") /\ cmd.todo # <<>>
    /\ \E valid \in BOOLEAN :
          \E proof \in {FriProof(cmd.security, Head(cmd.todo), valid)} :
             IF VerifiesProof(proof)
             THEN Becomes([cmd EXCEPT
                      !.todo = Tail(@),
                      !.writes = << <<<<batch_output_dir(Head(cmd.todo)), FRI_PROOF_FILE_NAME>>, proof>> >>])
             ELSE Ends(FALSE)

ProvedAll == At("prove") /\ cmd.todo = <<>> /\ Ends(TRUE)

-----------------------------------------------------------------------------
(***************************************************************************)
(* The trusted setup.                                                       *)
(***************************************************************************)
CheckPresent ==
    /\ At("exists")
    /\ IF Exists(TrustedSetup) THEN Ends(TRUE) ELSE Becomes([cmd EXCEPT !.pc = "fetch"])

Fetch ==
    /\ At("fetch")
    /\ \/ Becomes([cmd EXCEPT !.writes = << <<TrustedSetup, <<"setup">>>> >>, !.pc = "end"])
       \/ IF cmd.attempts + 1 < DOWNLOAD_RETRIES THEN Becomes([cmd EXCEPT !.attempts = @ + 1])
          ELSE Ends(FALSE)

-----------------------------------------------------------------------------
(***************************************************************************)
(* prove-snark: every proof is wrapped and saved with the key.              *)
(***************************************************************************)
\* A key that was given is used as it is; or else it is derived.
PrepareWrapper ==
    /\ At("wrapper")
    /\ IF (cmd.given => IsWhole(SnarkVk)) /\ IsWhole(TrustedSetup)
       THEN Becomes([cmd EXCEPT !.vk = IF cmd.given THEN files[SnarkVk] ELSE SnarkWrapperVK, !.pc = "wrap"])
       ELSE Ends(FALSE)

\* run_phases() and prove_and_save_outcome(): what is saved, in this order.
Artifacts(dir, b) ==
    (IF cmd.save_intermediates
     THEN << <<<<dir, "risc_wrapper_proof.json">>, Wrapped("risc", b)>>,
             <<<<dir, "risc_wrapper_vk.json">>, <<"risc_vk", guest>>>>,
             <<<<dir, "compression_proof.json">>, Wrapped("compression", b)>>,
             <<<<dir, "compression_vk.json">>, <<"compression_vk", guest>>>> >>
     ELSE <<>>)
    \o << <<<<dir, "snark_proof.json">>, Wrapped("snark", b)>>, <<<<dir, "snark_vk.json">>, cmd.vk>> >>

\* The first phase checks the proof for the guest.
Wraps(path) == IsWhole(path) /\ files[path][2] = guest

WrapProof ==
    /\ At("wrap") /\ cmd.todo # <<>>
    /\ IF Wraps(Head(cmd.todo))
       THEN Becomes([cmd EXCEPT
                !.todo = Tail(@),
                !.writes = Artifacts(proof_file_output_dir(Head(cmd.todo)), files[Head(cmd.todo)][4])])
       ELSE Ends(FALSE)

WrappedAll == At("wrap") /\ cmd.todo = <<>> /\ Ends(TRUE)

-----------------------------------------------------------------------------
\* The operator builds the guest from other sources, or moves a proof.
Rebuild ==
    /\ cmd = NoCommand /\ guest < MaxGuests
    /\ guest' = guest + 1
    /\ last' = NoLast
    /\ UNCHANGED <<files, cmd, commands>>

MoveProof ==
    /\ cmd = NoCommand
    /\ \E b \in Batches, moved \in MovedProofs :
          /\ <<b, moved>> \in Moves
          /\ Exists(<<b, FRI_PROOF_FILE_NAME>>) /\ ~Exists(moved)
          /\ files' = WithFile(Without(files, <<b, FRI_PROOF_FILE_NAME>>), moved,
                            files[<<b, FRI_PROOF_FILE_NAME>>])
    /\ last' = NoLast
    /\ UNCHANGED <<guest, cmd, commands>>

HostInit ==
    /\ guest = 1 /\ files = [p \in {} |-> Torn]
    /\ cmd = NoCommand /\ last = NoLast /\ commands = 0

HostNext ==
    \/ Invoke \/ CreateFile \/ FillFile \/ Finish \/ Interrupt \/ Rebuild \/ MoveProof
    \/ RemoveStaleVk \/ LoadOrGenerateVk \/ GenerateSnarkVk \/ ProveBatch \/ ProvedAll
    \/ CheckPresent \/ Fetch \/ PrepareWrapper \/ WrapProof \/ WrappedAll

HostSpec == HostInit /\ [][HostNext]_host_vars

-----------------------------------------------------------------------------
(***************************************************************************)
(* Properties.                                                              *)
(***************************************************************************)
Succeeded(name) == last.ok /\ last.cmd.name = name

\* A FRI proof on disk that can be read is a valid one, of a batch the guest accepts, wherever
\* commands stopped and whatever key or proof they found (prove_input(), save_raw_proof()).
SavedProofsAreValid ==
    \A path \in DOMAIN files :
        path \in ProofFiles /\ IsWhole(path) => files[path][5] /\ files[path][4] \notin RefusedBatches

\* When prove-fri succeeds, every batch asked for has its proof, by the present guest and at
\* the level asked for, and the key on disk verifies it: a key left by an interrupted
\* command, by another guest or at another level is never worked around
\* (prove_batches_fri(), load_or_generate_vk(), load_vk_from_disk()).
ProveFriDelivers ==
    Succeeded("prove-fri") =>
        \A i \in DOMAIN last.cmd.asked :
            \E path \in {<<last.cmd.asked[i], FRI_PROOF_FILE_NAME>>} :
                /\ Exists(path)
                /\ files[path] = FriProof(last.cmd.security, last.cmd.asked[i], TRUE)
                /\ Exists(FriVk) /\ files[FriVk] = VerificationKey(last.cmd.security)

\* When gen-vks succeeds, both keys are those of the present guest, whatever was there before
\* (generate_fri_vk(), generate_snark_vk()).
GenVksDelivers ==
    Succeeded("gen-vks") =>
        /\ Exists(FriVk) /\ files[FriVk] = VerificationKey(last.cmd.security)
        /\ Exists(SnarkVk) /\ files[SnarkVk] = SnarkWrapperVK

\* The last of the inputs that lead to its output directory.
IsLastInto(asked, n, i) ==
    \A j \in (i + 1)..n : proof_file_output_dir(asked[j]) # proof_file_output_dir(asked[i])

\* When prove-snark succeeds, an output directory holds the SNARK of the last of the proof files
\* that lead to it, with the key used: files that share a directory (the same stem, "batch-7" and
\* "batch-007") overwrite one another, in the order given, and no other file is overwritten.  A
\* key that was not given is that of the present guest (wrap_to_snark(), proof_file_output_dir()).
ProveSnarkDelivers ==
    Succeeded("prove-snark") =>
        \A i \in DOMAIN last.cmd.asked :
            \E path \in {last.cmd.asked[i]} : \E dir \in {proof_file_output_dir(path)} :
                /\ IsLastInto(last.cmd.asked, Len(last.cmd.asked), i) =>
                       /\ Exists(<<dir, "snark_proof.json">>)
                       /\ files[<<dir, "snark_proof.json">>] = Wrapped("snark", files[path][4])
                /\ Exists(<<dir, "snark_vk.json">>)
                /\ files[<<dir, "snark_vk.json">>] = last.cmd.vk
                /\ ~last.cmd.given => last.cmd.vk = SnarkWrapperVK

\* When a download succeeds there is a trusted setup, and a whole one if this command fetched it:
\* one that is found is taken as it is, torn or not (download_trusted_setup_if_not_present()).
DownloadDelivers ==
    Succeeded("download") =>
        /\ Exists(TrustedSetup)
        /\ last.cmd.pc = "end" => IsWhole(TrustedSetup)

\* A key is being filled by the command that has created it.
FillsKey == cmd.name # "none" /\ cmd.created /\ cmd.writes[1][1] = FriVk

\* A key file that is there, torn or of another guest, is created anew, filled or removed by no
\* command but gen-vks; every other command uses it or fails, unless it has created the file
\* itself where there was none (load_or_generate_vk(): "silently regenerate").
OnlyGenVksReplacesKeys ==
    [][Exists(FriVk) /\ cmd.name # "gen-vks" /\ ~FillsKey =>
           /\ ~FillsKey'
           /\ FriVk \in DOMAIN files'
           /\ files'[FriVk] = files[FriVk]]_host_vars

\* A proof on disk is a valid one, and a command that succeeds has left what it promises, wherever
\* earlier commands stopped: keys and proofs of this guest, the SNARKs of its inputs except where
\* a later one shares the directory, a trusted setup though perhaps a torn one that was there
\* (prove_batches_fri(), generate_fri_vk(), wrap_to_snark(), download_trusted_setup_if_not_present()).
CommandsDeliver ==
    /\ SavedProofsAreValid
    /\ ProveFriDelivers
    /\ GenVksDelivers
    /\ ProveSnarkDelivers
    /\ DownloadDelivers
=============================================================================
