-------------------------- MODULE ProverHostProofs --------------------------
(***************************************************************************)
(* Proofs about the commands of the prover host, for any batches, levels,   *)
(* lists of inputs and numbers of commands and guests: wherever a command   *)
(* stops, what a later one reports as done is on disk.                      *)
(***************************************************************************)
EXTENDS ProverHost, TLAPS

(***************************************************************************)
(* The inductive invariant.                                                 *)
(***************************************************************************)
\* cmd has the fields of a command.
IsCommand(c) ==
    c = [name |-> c.name, pc |-> c.pc, security |-> c.security, todo |-> c.todo, asked |-> c.asked,
         given |-> c.given, save_intermediates |-> c.save_intermediates, vk |-> c.vk,
         writes |-> c.writes, created |-> c.created, attempts |-> c.attempts]

IsSeq(s) == s \in Seq({s[i] : i \in DOMAIN s})

Pending(writes, path) == \E i \in DOMAIN writes : writes[i][1] = path

\* The file will have these contents once these writes are done.
RightAfter(writes, fs, path, contents) ==
    IF Pending(writes, path)
    THEN \A i \in DOMAIN writes : writes[i][1] = path => writes[i][2] = contents
    ELSE path \in DOMAIN fs /\ fs[path] = contents

Right(path, contents) == RightAfter(cmd.writes, files, path, contents)

GoodProof(contents) == contents # Torn => contents[5] /\ contents[4] \notin RefusedBatches

\* What is left to do is the end of what was asked for.
LeftOf(todo, asked) ==
    /\ Len(todo) <= Len(asked)
    /\ \A i \in 1..Len(todo) : todo[i] = asked[Len(asked) - Len(todo) + i]

\* How many of the inputs are done.
Finished == Len(cmd.asked) - Len(cmd.todo)

FriState ==
    /\ cmd.name = "prove-fri"
    /\ cmd.asked \in Seq(Batches) /\ cmd.todo \in Seq(Batches)
    /\ Len(cmd.writes) <= 1
    /\ \/ cmd.pc = "vk" /\ cmd.writes = <<>> /\ Finished = 0
       \/ /\ cmd.pc = "prove"
          /\ Right(FriVk, cmd.vk)
          /\ Finished > 0 => cmd.vk = VerificationKey(cmd.security)
    /\ \A i \in 1..Finished :
          Right(<<cmd.asked[i], FRI_PROOF_FILE_NAME>>, FriProof(cmd.security, cmd.asked[i], TRUE))
    /\ Pending(cmd.writes, FriVk) /\ ~cmd.created => ~Exists(FriVk)

VksState ==
    /\ cmd.name = "gen-vks"
    /\ cmd.asked = <<>> /\ cmd.todo = <<>>
    /\ \/ cmd.pc = "remove" /\ cmd.writes = <<>>
       \/ cmd.pc = "vk" /\ cmd.writes = <<>> /\ ~Exists(FriVk)
       \/ cmd.pc = "snark_vk" /\ Right(FriVk, VerificationKey(cmd.security))
       \/ cmd.pc = "end" /\ Right(FriVk, VerificationKey(cmd.security)) /\ Right(SnarkVk, SnarkWrapperVK)

DownloadState ==
    /\ cmd.name = "download"
    /\ cmd.asked = <<>> /\ cmd.todo = <<>>
    /\ \/ cmd.pc \in {"exists", "fetch"} /\ cmd.writes = <<>>
       \/ cmd.pc = "end" /\ Right(TrustedSetup, <<"setup">>)
    /\ ~Pending(cmd.writes, FriVk)

SnarkState ==
    /\ cmd.name = "prove-snark"
    /\ cmd.asked \in Seq(ProofFiles) /\ cmd.todo \in Seq(ProofFiles)
    /\ \/ cmd.pc = "wrapper" /\ cmd.writes = <<>> /\ Finished = 0
       \/ cmd.pc = "wrap" /\ (~cmd.given => cmd.vk = SnarkWrapperVK)
    /\ \A i \in DOMAIN cmd.writes : cmd.writes[i][1] \notin ProofFiles \cup {FriVk}
    /\ \A i \in 1..Finished :
          /\ Exists(cmd.asked[i])
          /\ IsLastInto(cmd.asked, Finished, i) =>
                 Right(<<proof_file_output_dir(cmd.asked[i]), "snark_proof.json">>,
                       Wrapped("snark", files[cmd.asked[i]][4]))
          /\ Right(<<proof_file_output_dir(cmd.asked[i]), "snark_vk.json">>, cmd.vk)

\* What holds while a command runs.
CommandState ==
    /\ IsCommand(cmd)
    /\ IsSeq(cmd.writes)
    /\ \A i \in DOMAIN cmd.writes : cmd.writes[i][1] \in ProofFiles => GoodProof(cmd.writes[i][2])
    /\ LeftOf(cmd.todo, cmd.asked)
    /\ cmd.writes = <<>> => ~cmd.created
    /\ FriState \/ VksState \/ DownloadState \/ SnarkState

HostInv ==
    /\ cmd = NoCommand \/ CommandState
    /\ last.ok => cmd = NoCommand
    /\ \A path \in DOMAIN files : path \in ProofFiles => GoodProof(files[path])
    /\ ProveFriDelivers /\ GenVksDelivers /\ ProveSnarkDelivers /\ DownloadDelivers

\* A command that is filed under another name is none.
LEMMA RunningCommand ==
    ASSUME HostInv, cmd.name # "none"
    PROVE  CommandState /\ ~last.ok
BY DEF HostInv, NoCommand

\* Paths of different kinds differ.
LEMMA PathsDiffer ==
    /\ FriVk \notin ProofFiles /\ SnarkVk \notin ProofFiles /\ TrustedSetup \notin ProofFiles
    /\ FriVk # SnarkVk /\ FriVk # TrustedSetup
    /\ \A b \in Batches : <<b, FRI_PROOF_FILE_NAME>> \in ProofFiles /\ <<b, FRI_PROOF_FILE_NAME>> # FriVk
    /\ \A moved \in MovedProofs : moved # FriVk
<1>1. \A path \in ProofFiles : path[2] \in {"fri_proof.json", "mine.json"}
  BY HostAssumption DEF ProofFiles, FRI_PROOF_FILE_NAME
<1>2. FriVk[2] = "fri_vk.bin" /\ SnarkVk[2] = "snark_vk.json" /\ TrustedSetup[2] = "setup.key"
  BY DEF FriVk, SnarkVk, TrustedSetup
<1>3. MovedProofs \subseteq ProofFiles /\ \A b \in Batches : <<b, FRI_PROOF_FILE_NAME>> \in ProofFiles
  BY DEF ProofFiles
<1> QED BY <1>1, <1>2, <1>3

\* The elements of a sequence without its first one.
LEMMA TailOf ==
    ASSUME NEW S, NEW w \in Seq(S), w # <<>>
    PROVE  /\ Tail(w) \in Seq(S) /\ Len(w) \in Nat \ {0} /\ Len(Tail(w)) = Len(w) - 1
           /\ DOMAIN w = 1..Len(w) /\ DOMAIN Tail(w) = 1..(Len(w) - 1) /\ Head(w) = w[1]
           /\ \A i \in 1..(Len(w) - 1) : i + 1 \in DOMAIN w /\ Tail(w)[i] = w[i + 1]
OBVIOUS

\* A sequence is one of its own elements.
LEMMA OwnElements ==
    ASSUME NEW S, NEW t \in Seq(S)
    PROVE  IsSeq(t)
<1> DEFINE T == {t[i] : i \in DOMAIN t}
<1>1. Len(t) \in Nat /\ DOMAIN t = 1..Len(t) /\ \A i \in 1..Len(t) : t[i] \in T  OBVIOUS
<1>2. t = [i \in 1..Len(t) |-> t[i]]  OBVIOUS
<1> HIDE DEF T
<1>3. [i \in 1..Len(t) |-> t[i]] \in Seq(T)  BY <1>1
<1> QED BY <1>2, <1>3 DEF T, IsSeq

\* Creating and filling files leaves what is to become right so.
LEMMA WritingKeepsRight ==
    ASSUME CommandState, CreateFile \/ FillFile, NEW path, NEW contents,
           RightAfter(cmd.writes, files, path, contents)
    PROVE  RightAfter(cmd'.writes, files', path, contents)
<1> DEFINE w == cmd.writes
<1>1. /\ w \in Seq({w[i] : i \in DOMAIN w}) /\ w # <<>> /\ Len(w) \in Nat \ {0}
      /\ DOMAIN w = 1..Len(w) /\ Head(w) = w[1] /\ 1 \in DOMAIN w
  BY DEF CommandState, IsSeq, CreateFile, FillFile
<1>2. CASE CreateFile
  <2>1. cmd'.writes = w  BY <1>2 DEF CreateFile, CommandState, IsCommand
  <2>2. CASE Pending(w, path)  BY <2>1, <2>2 DEF RightAfter
  <2>3. CASE ~Pending(w, path)
    <3>1. w[1][1] # path  BY <1>1, <2>3 DEF Pending
    <3>2. files' = WithFile(files, w[1][1], Torn)  BY <1>1, <1>2 DEF CreateFile
    <3>3. path \in DOMAIN files /\ files[path] = contents  BY <2>3 DEF RightAfter
    <3>4. path \in DOMAIN files' /\ files'[path] = contents  BY <3>1, <3>2, <3>3 DEF WithFile
    <3> QED BY <2>1, <2>3, <3>4 DEF RightAfter
  <2> QED BY <2>2, <2>3
<1>3. CASE FillFile
  <2>1. cmd'.writes = Tail(w)  BY <1>3 DEF FillFile, CommandState, IsCommand
  <2>2. /\ DOMAIN Tail(w) = 1..(Len(w) - 1)
        /\ \A i \in DOMAIN Tail(w) : i + 1 \in DOMAIN w /\ Tail(w)[i] = w[i + 1]
    <3> HIDE DEF w
    <3> QED BY <1>1, TailOf
  <2>3. files' = WithFile(files, w[1][1], w[1][2])  BY <1>1, <1>3 DEF FillFile
  <2>4. CASE Pending(Tail(w), path)
    <3>1. Pending(w, path)  BY <2>2, <2>4 DEF Pending
    <3>2. \A i \in DOMAIN w : w[i][1] = path => w[i][2] = contents  BY <3>1 DEF RightAfter
    <3> QED BY <2>1, <2>2, <2>4, <3>2 DEF RightAfter
  <2>5. CASE ~Pending(Tail(w), path) /\ w[1][1] = path
    <3>1. Pending(w, path)  BY <1>1, <2>5 DEF Pending
    <3>2. w[1][2] = contents  BY <1>1, <2>5, <3>1 DEF RightAfter
    <3>3. path \in DOMAIN files' /\ files'[path] = contents  BY <2>3, <2>5, <3>2 DEF WithFile
    <3> QED BY <2>1, <2>5, <3>3 DEF RightAfter
  <2>6. CASE ~Pending(Tail(w), path) /\ w[1][1] # path
    <3>1. ~Pending(w, path)
      <4>1. SUFFICES ASSUME NEW i \in DOMAIN w, w[i][1] = path PROVE FALSE  BY DEF Pending
      <4>2. i # 1  BY <2>6, <4>1
      <4>3. i - 1 \in DOMAIN Tail(w) /\ (i - 1) + 1 = i  BY <1>1, <2>2, <4>2
      <4>4. Tail(w)[i - 1] = w[i]  BY <2>2, <4>3
      <4> QED BY <2>6, <4>1, <4>3, <4>4 DEF Pending
    <3>2. path \in DOMAIN files /\ files[path] = contents  BY <3>1 DEF RightAfter
    <3>3. path \in DOMAIN files' /\ files'[path] = contents  BY <2>3, <2>6, <3>2 DEF WithFile
    <3> QED BY <2>1, <2>6, <3>3 DEF RightAfter
  <2> QED BY <2>4, <2>5, <2>6
<1> QED BY <1>2, <1>3

\* So does the beginning of other writes, unless they give the file other contents.
LEMMA StartingKeepsRight ==
    ASSUME NEW path, NEW contents, NEW writes, NEW fs, RightAfter(<<>>, fs, path, contents),
           \A i \in DOMAIN writes : writes[i][1] = path => writes[i][2] = contents
    PROVE  RightAfter(writes, fs, path, contents)
<1>1. ~Pending(<<>>, path)  BY DEF Pending
<1> QED BY <1>1 DEF RightAfter, Pending

\* With nothing left to write, what is to become right is right.
LEMMA WrittenMeansRight ==
    ASSUME NEW path, NEW contents, NEW fs
    PROVE  RightAfter(<<>>, fs, path, contents) <=> path \in DOMAIN fs /\ fs[path] = contents
BY DEF RightAfter, Pending

-----------------------------------------------------------------------------
(***************************************************************************)
(* The steps.                                                               *)
(***************************************************************************)
\* Creating and filling a file preserves the invariant.
LEMMA WritingInv ==
    ASSUME HostInv, CreateFile \/ FillFile
    PROVE  HostInv'
<1> DEFINE w == cmd.writes
<1>1. CommandState /\ ~last.ok  BY RunningCommand DEF CreateFile, FillFile
<1>2. UNCHANGED <<guest, last>> /\ ~last'.ok  BY <1>1 DEF CreateFile, FillFile
<1>3. /\ w \in Seq({w[i] : i \in DOMAIN w}) /\ w # <<>> /\ Len(w) \in Nat \ {0}
      /\ DOMAIN w = 1..Len(w) /\ Head(w) = w[1] /\ 1 \in DOMAIN w
  BY <1>1 DEF CommandState, IsSeq, CreateFile, FillFile
<1>4. /\ IsCommand(cmd')
      /\ UNCHANGED <<cmd.name, cmd.pc, cmd.security, cmd.todo, cmd.asked, cmd.given, cmd.vk>>
      /\ cmd'.writes = IF CreateFile THEN w ELSE Tail(w)
      /\ CreateFile => cmd'.created
      /\ FillFile => ~cmd'.created
  BY Zenon, <1>1 DEF CreateFile, FillFile, CommandState, IsCommand
<1>5. /\ IsSeq(cmd'.writes) /\ Len(cmd'.writes) \in Nat /\ Len(cmd'.writes) <= Len(w)
      /\ \A i \in DOMAIN cmd'.writes : \E j \in DOMAIN w : cmd'.writes[i] = w[j]
      /\ FillFile => Len(cmd'.writes) = Len(w) - 1
  <2>1. CASE CreateFile
    <3>1. cmd'.writes = w /\ ~FillFile  BY <1>1, <1>4, <2>1 DEF CreateFile, FillFile
    <3>2. IsSeq(w) /\ Len(w) \in Nat /\ Len(w) <= Len(w)  BY <1>3 DEF IsSeq
    <3> HIDE DEF w
    <3> QED BY <3>1, <3>2
  <2>2. CASE ~CreateFile
    <3>1. cmd'.writes = Tail(w)  BY <1>4, <2>2
    <3> DEFINE S == {w[i] : i \in DOMAIN w}
    <3> HIDE DEF w, S
    <3>2. /\ Tail(w) \in Seq(S) /\ Len(Tail(w)) = Len(w) - 1
          /\ DOMAIN Tail(w) = 1..(Len(w) - 1)
          /\ \A i \in 1..(Len(w) - 1) : i + 1 \in DOMAIN w /\ Tail(w)[i] = w[i + 1]
      BY <1>3, TailOf DEF S
    <3>3. IsSeq(Tail(w))  BY Zenon, <3>2, OwnElements
    <3>4. IsSeq(cmd'.writes)  BY <3>1, <3>3
    <3> QED BY <1>3, <3>1, <3>2, <3>4
  <2> QED BY <2>1, <2>2
<1>6. \E contents \in {Torn, w[1][2]} : files' = WithFile(files, w[1][1], contents)
  BY <1>3 DEF CreateFile, FillFile
<1>7. \A i \in DOMAIN cmd'.writes : cmd'.writes[i][1] \in ProofFiles => GoodProof(cmd'.writes[i][2])
  BY <1>1, <1>5 DEF CommandState
<1>8. \A path \in DOMAIN files' : path \in ProofFiles => GoodProof(files'[path])
  <2>1. w[1][1] \in ProofFiles => GoodProof(w[1][2])  BY <1>1, <1>3 DEF CommandState
  <2>2. GoodProof(Torn)  BY DEF GoodProof
  <2> QED BY <1>6, <2>1, <2>2 DEF HostInv, WithFile
<1>9. \A path, contents :
         RightAfter(cmd.writes, files, path, contents) => RightAfter(cmd'.writes, files', path, contents)
  BY <1>1, WritingKeepsRight
<1>10. \A path : Pending(cmd'.writes, path) => Pending(w, path)  BY <1>5 DEF Pending
<1>11. ASSUME FriState PROVE FriState'
  <2>1. Finished' = Finished  BY <1>4 DEF Finished
  <2>2. Len(cmd'.writes) <= 1  BY <1>3, <1>5, <1>11 DEF FriState
  <2>3. cmd.pc = "prove"  BY <1>3, <1>11 DEF FriState
  <2>4. RightAfter(cmd'.writes, files', FriVk, cmd.vk) /\ (Finished > 0 => cmd.vk = VerificationKey(cmd.security))
    BY <1>9, <1>11, <2>3 DEF FriState, Right
  <2>5. \A i \in 1..Finished :
           RightAfter(cmd'.writes, files', <<cmd.asked[i], FRI_PROOF_FILE_NAME>>,
                      FriProof(cmd.security, cmd.asked[i], TRUE))
    BY Zenon, <1>9, <1>11 DEF FriState, Right
  <2>6. ~Pending(cmd'.writes, FriVk) \/ cmd'.created
    <3>1. CASE CreateFile  BY <1>4, <3>1
    <3>2. CASE FillFile
      <4>1. Len(cmd'.writes) = 0 /\ DOMAIN cmd'.writes = {}  BY <1>3, <1>5, <1>11, <3>2 DEF FriState, IsSeq
      <4> QED BY <4>1 DEF Pending
    <3> QED BY <3>1, <3>2
  <2> QED BY Zenon, <1>2, <1>4, <1>11, <2>1, <2>2, <2>3, <2>4, <2>5, <2>6
          DEF FriState, Right, VerificationKey, FriProof
<1>12. ASSUME VksState PROVE VksState'
  BY <1>2, <1>3, <1>4, <1>9, <1>12 DEF VksState, Right, VerificationKey, SnarkWrapperVK
<1>13. ASSUME DownloadState PROVE DownloadState'
  BY <1>3, <1>4, <1>9, <1>10, <1>13 DEF DownloadState, Right
<1>14. ASSUME SnarkState PROVE SnarkState'
  <2>1. Finished' = Finished  BY <1>4 DEF Finished
  <2>2. cmd.pc = "wrap"  BY <1>3, <1>14 DEF SnarkState
  <2>3. \A path \in ProofFiles \cap DOMAIN files : files'[path] = files[path]
    <3>1. w[1][1] \notin ProofFiles  BY <1>3, <1>14 DEF SnarkState
    <3>2. \A path \in DOMAIN files : path # w[1][1] => files'[path] = files[path]  BY <1>6 DEF WithFile
    <3> QED BY <3>1, <3>2
  <2>4. \A i \in DOMAIN cmd'.writes : cmd'.writes[i][1] \notin ProofFiles \cup {FriVk}
    BY <1>5, <1>14 DEF SnarkState
  <2>5. ASSUME NEW i \in 1..Finished
        PROVE  /\ cmd.asked[i] \in DOMAIN files' /\ files'[cmd.asked[i]] = files[cmd.asked[i]]
               /\ IsLastInto(cmd.asked, Finished, i) =>
                      RightAfter(cmd'.writes, files', <<proof_file_output_dir(cmd.asked[i]), "snark_proof.json">>,
                                 Wrapped("snark", files[cmd.asked[i]][4]))
               /\ RightAfter(cmd'.writes, files', <<proof_file_output_dir(cmd.asked[i]), "snark_vk.json">>, cmd.vk)
    <3>1. cmd.asked[i] \in ProofFiles  BY <1>1, <1>14 DEF SnarkState, CommandState, Finished
    <3>2. cmd.asked[i] \in DOMAIN files  BY Zenon, <1>14 DEF SnarkState, Exists
    <3>3. DOMAIN files \subseteq DOMAIN files'  BY <1>6 DEF WithFile
    <3> QED BY <1>9, <1>14, <2>3, <3>1, <3>2, <3>3 DEF SnarkState, Right
  <2> QED BY Zenon, <1>2, <1>4, <1>14, <2>1, <2>2, <2>4, <2>5 DEF SnarkState, Right, Exists, Wrapped, SnarkWrapperVK
<1>15. CommandState'
  <2>1. Finished' = Finished  BY <1>4 DEF Finished
  <2>2. cmd'.writes = <<>> => ~cmd'.created  BY <1>3, <1>4
  <2> QED BY <1>1, <1>4, <1>5, <1>7, <1>11, <1>12, <1>13, <1>14, <2>1, <2>2 DEF CommandState
<1> QED BY Zenon, <1>2, <1>8, <1>15
        DEF HostInv, ProveFriDelivers, GenVksDelivers, ProveSnarkDelivers, DownloadDelivers, Succeeded

\* A command that ends leaves the files alone; when it succeeds, what it was asked for is there.
LEMMA EndingInv ==
    ASSUME HostInv, NEW ok \in BOOLEAN, Ends(ok), CommandState,
           ok => /\ cmd.writes = <<>>
                 /\ cmd.name \in {"prove-fri", "prove-snark"} => cmd.todo = <<>> /\ cmd.pc \in {"prove", "wrap"}
                 /\ cmd.name = "gen-vks" => cmd.pc = "end"
                 /\ cmd.name = "download" => cmd.pc = "end" \/ Exists(TrustedSetup)
    PROVE  HostInv'
<1> USE DEF Ends
<1>1. last'.ok = ok /\ last'.cmd = cmd /\ UNCHANGED <<files, guest>> /\ cmd' = NoCommand  OBVIOUS
<1>2. ASSUME ok, cmd.name = "prove-fri" PROVE ProveFriDelivers'
  <2>1. FriState  BY Zenon, <1>2 DEF CommandState, FriState, VksState, DownloadState, SnarkState
  <2>2. /\ Finished = Len(cmd.asked) /\ DOMAIN cmd.asked = 1..Len(cmd.asked)
        /\ Len(cmd.asked) \in Nat /\ cmd.writes = <<>> /\ cmd.pc = "prove"
    <3>1. cmd.todo = <<>> /\ cmd.writes = <<>> /\ cmd.pc = "prove"  BY <1>2, <2>1 DEF FriState
    <3>2. DOMAIN cmd.asked = 1..Len(cmd.asked) /\ Len(cmd.asked) \in Nat  BY <2>1 DEF FriState
    <3>3. Len(<<>>) = 0  OBVIOUS
    <3>4. Finished = Len(cmd.asked)  BY <3>1, <3>2, <3>3 DEF Finished
    <3> QED BY <3>1, <3>2, <3>4
  <2>3. ASSUME NEW i \in DOMAIN cmd.asked
        PROVE  /\ <<cmd.asked[i], FRI_PROOF_FILE_NAME>> \in DOMAIN files
               /\ files[<<cmd.asked[i], FRI_PROOF_FILE_NAME>>] = FriProof(cmd.security, cmd.asked[i], TRUE)
               /\ FriVk \in DOMAIN files /\ files[FriVk] = VerificationKey(cmd.security)
    <3>1. i \in 1..Finished /\ Finished > 0  BY <2>2
    <3>2. RightAfter(<<>>, files, <<cmd.asked[i], FRI_PROOF_FILE_NAME>>, FriProof(cmd.security, cmd.asked[i], TRUE))
      BY Zenon, <2>1, <2>2, <3>1 DEF FriState, Right
    <3>3. RightAfter(<<>>, files, FriVk, VerificationKey(cmd.security))
      BY <2>1, <2>2, <3>1 DEF FriState, Right
    <3> QED BY Zenon, <3>2, <3>3, WrittenMeansRight
  <2> QED BY Zenon, <1>1, <2>3 DEF ProveFriDelivers, Exists, FriProof, VerificationKey
<1>3. ASSUME ok, cmd.name = "gen-vks" PROVE GenVksDelivers'
  <2>1. VksState /\ cmd.pc = "end" /\ cmd.writes = <<>>
    BY <1>3 DEF CommandState, FriState, VksState, DownloadState, SnarkState
  <2>2. RightAfter(<<>>, files, FriVk, VerificationKey(cmd.security)) /\ RightAfter(<<>>, files, SnarkVk, SnarkWrapperVK)
    BY <2>1 DEF VksState, Right
  <2>3. /\ FriVk \in DOMAIN files /\ files[FriVk] = VerificationKey(cmd.security)
        /\ SnarkVk \in DOMAIN files /\ files[SnarkVk] = SnarkWrapperVK
    BY <2>2, WrittenMeansRight
  <2> QED BY <1>1, <2>3 DEF GenVksDelivers, Exists, SnarkWrapperVK, VerificationKey
<1>4. ASSUME ok, cmd.name = "prove-snark" PROVE ProveSnarkDelivers'
  <2>1. SnarkState  BY <1>4 DEF CommandState, FriState, VksState, DownloadState, SnarkState
  <2>2. /\ Finished = Len(cmd.asked) /\ DOMAIN cmd.asked = 1..Len(cmd.asked)
        /\ Len(cmd.asked) \in Nat /\ cmd.writes = <<>> /\ cmd.pc = "wrap"
    <3>1. cmd.todo = <<>> /\ cmd.writes = <<>> /\ cmd.pc = "wrap"  BY <1>4, <2>1 DEF SnarkState
    <3>2. DOMAIN cmd.asked = 1..Len(cmd.asked) /\ Len(cmd.asked) \in Nat  BY <2>1 DEF SnarkState
    <3>3. Len(<<>>) = 0  OBVIOUS
    <3>4. Finished = Len(cmd.asked)  BY <3>1, <3>2, <3>3 DEF Finished
    <3> QED BY <3>1, <3>2, <3>4
  <2>3. ASSUME NEW i \in DOMAIN cmd.asked, NEW dir, dir = proof_file_output_dir(cmd.asked[i])
        PROVE  /\ IsLastInto(cmd.asked, Len(cmd.asked), i) =>
                      /\ <<dir, "snark_proof.json">> \in DOMAIN files
                      /\ files[<<dir, "snark_proof.json">>] = Wrapped("snark", files[cmd.asked[i]][4])
               /\ <<dir, "snark_vk.json">> \in DOMAIN files
               /\ files[<<dir, "snark_vk.json">>] = cmd.vk
               /\ ~cmd.given => cmd.vk = SnarkWrapperVK
    <3>1. i \in 1..Finished  BY <2>2
    <3>2. /\ IsLastInto(cmd.asked, Len(cmd.asked), i) =>
                 RightAfter(<<>>, files, <<dir, "snark_proof.json">>, Wrapped("snark", files[cmd.asked[i]][4]))
          /\ RightAfter(<<>>, files, <<dir, "snark_vk.json">>, cmd.vk)
      BY <2>1, <2>2, <2>3, <3>1 DEF SnarkState, Right
    <3>3. ~cmd.given => cmd.vk = SnarkWrapperVK  BY <2>1, <2>2 DEF SnarkState
    <3> QED BY <3>2, <3>3, WrittenMeansRight
  <2> QED BY <1>1, <2>3 DEF ProveSnarkDelivers, Exists, Wrapped, SnarkWrapperVK
<1>9. ASSUME ok, cmd.name = "download" PROVE DownloadDelivers'
  <2>1. Exists(TrustedSetup) /\ (cmd.pc = "end" => IsWhole(TrustedSetup))
    <3>1. CASE cmd.pc = "end"
      <4>1. RightAfter(<<>>, files, TrustedSetup, <<"setup">>)
        BY <1>9, <3>1 DEF CommandState, FriState, VksState, DownloadState, SnarkState, Right
      <4>2. TrustedSetup \in DOMAIN files /\ files[TrustedSetup] = <<"setup">>  BY <4>1, WrittenMeansRight
      <4>3. <<"setup">> # Torn  BY DEF Torn
      <4> QED BY <4>2, <4>3 DEF IsWhole, Exists
    <3> QED BY <1>9, <3>1
  <2> QED BY <1>1, <2>1 DEF DownloadDelivers, Exists, IsWhole, Succeeded
<1>5. /\ last'.ok /\ last'.cmd.name = "prove-fri" => ok /\ cmd.name = "prove-fri"
      /\ last'.ok /\ last'.cmd.name = "gen-vks" => ok /\ cmd.name = "gen-vks"
      /\ last'.ok /\ last'.cmd.name = "prove-snark" => ok /\ cmd.name = "prove-snark"
      /\ last'.ok /\ last'.cmd.name = "download" => ok /\ cmd.name = "download"
  BY <1>1
<1>6. ProveFriDelivers'  BY Zenon, <1>2, <1>5 DEF ProveFriDelivers, Succeeded
<1>7. GenVksDelivers'  BY <1>3, <1>5 DEF GenVksDelivers, Succeeded
<1>8. ProveSnarkDelivers'  BY <1>4, <1>5 DEF ProveSnarkDelivers, Succeeded
<1>10. DownloadDelivers'  BY <1>5, <1>9 DEF DownloadDelivers, Succeeded
<1> QED BY <1>1, <1>6, <1>7, <1>8, <1>10 DEF HostInv

\* A step that leaves the files alone and goes on with the command.
LEMMA RunningInv ==
    ASSUME HostInv, ~last.ok, UNCHANGED last, CommandState',
           \A path \in DOMAIN files' : path \in DOMAIN files /\ files'[path] = files[path]
    PROVE  HostInv'
BY Zenon DEF HostInv, ProveFriDelivers, GenVksDelivers, ProveSnarkDelivers, DownloadDelivers, Succeeded

\* The next input of a command is the first one that is not done.
LEMMA NextInput ==
    ASSUME NEW S, NEW asked \in Seq(S), NEW todo \in Seq(S), todo # <<>>, LeftOf(todo, asked)
    PROVE  /\ Len(asked) - Len(todo) \in Nat /\ LeftOf(Tail(todo), asked)
           /\ Tail(todo) \in Seq(S) /\ Len(asked) - Len(Tail(todo)) = Len(asked) - Len(todo) + 1
           /\ Head(todo) \in S /\ Head(todo) = asked[Len(asked) - Len(todo) + 1]
<1> USE DEF LeftOf
<1>1. /\ Tail(todo) \in Seq(S) /\ Len(todo) \in Nat \ {0} /\ Len(Tail(todo)) = Len(todo) - 1
      /\ Head(todo) = todo[1] /\ todo[1] \in S /\ Len(asked) \in Nat
      /\ \A i \in 1..(Len(todo) - 1) : i + 1 \in 1..Len(todo) /\ Tail(todo)[i] = todo[i + 1]
  BY TailOf
<1>2. ASSUME NEW i \in 1..Len(Tail(todo)) PROVE Tail(todo)[i] = asked[Len(asked) - Len(Tail(todo)) + i]
  <2>1. Tail(todo)[i] = todo[i + 1] /\ i + 1 \in 1..Len(todo)  BY <1>1
  <2>2. Len(asked) - Len(todo) + (i + 1) = Len(asked) - Len(Tail(todo)) + i  BY <1>1
  <2> QED BY <2>1, <2>2
<1>3. 1 \in 1..Len(todo) /\ Head(todo) = asked[Len(asked) - Len(todo) + 1]  BY <1>1
<1>4. Len(asked) - Len(todo) \in Nat /\ Len(Tail(todo)) <= Len(asked)
      /\ Len(asked) - Len(Tail(todo)) = Len(asked) - Len(todo) + 1
  BY <1>1
<1> QED BY <1>1, <1>2, <1>3, <1>4

\* The elements of a concatenation.
LEMMA ConcatOf ==
    ASSUME NEW S, NEW s \in Seq(S), NEW t \in Seq(S)
    PROVE  /\ s \o t \in Seq(S) /\ Len(s) \in Nat /\ Len(s \o t) = Len(s) + Len(t)
           /\ DOMAIN (s \o t) = 1..Len(s \o t)
           /\ \A i \in 1..Len(t) : (s \o t)[Len(s) + i] = t[i]
OBVIOUS

ArtifactNames ==
    {"risc_wrapper_proof.json", "risc_wrapper_vk.json", "compression_proof.json", "compression_vk.json",
     "snark_proof.json", "snark_vk.json"}

\* Writes of artifacts into a directory, with this SNARK and this key.
AreArtifacts(a, dir, snark, key) ==
    /\ IsSeq(a)
    /\ \A i \in DOMAIN a :
          /\ a[i][1] \in {<<dir, name>> : name \in ArtifactNames}
          /\ a[i][1] = <<dir, "snark_proof.json">> => a[i][2] = snark
          /\ a[i][1] = <<dir, "snark_vk.json">> => a[i][2] = key
    /\ Pending(a, <<dir, "snark_proof.json">>) /\ Pending(a, <<dir, "snark_vk.json">>)

\* What prove-snark writes for a proof: into its directory, with one SNARK and one key.
LEMMA ArtifactsAre ==
    ASSUME NEW dir, NEW b, NEW a, a = Artifacts(dir, b)
    PROVE  AreArtifacts(a, dir, Wrapped("snark", b), cmd.vk)
<1> DEFINE e1 == <<<<dir, "risc_wrapper_proof.json">>, Wrapped("risc", b)>>
           e2 == <<<<dir, "risc_wrapper_vk.json">>, <<"risc_vk", guest>>>>
           e3 == <<<<dir, "compression_proof.json">>, Wrapped("compression", b)>>
           e4 == <<<<dir, "compression_vk.json">>, <<"compression_vk", guest>>>>
           e5 == <<<<dir, "snark_proof.json">>, Wrapped("snark", b)>>
           e6 == <<<<dir, "snark_vk.json">>, cmd.vk>>
           S == {e1, e2, e3, e4, e5, e6}
<1>1. a = <<e1, e2, e3, e4>> \o <<e5, e6>> \/ a = <<>> \o <<e5, e6>>  BY Zenon DEF Artifacts
<1>2. /\ \A i \in DOMAIN a : a[i] \in S
      /\ \E i \in DOMAIN a : a[i] = e5
      /\ \E i \in DOMAIN a : a[i] = e6
      /\ IsSeq(a)
  <2>1. PICK s \in Seq(S) : a = s \o <<e5, e6>>
    <3> HIDE DEF e1, e2, e3, e4, e5, e6
    <3>1. <<e1, e2, e3, e4>> \in Seq(S) /\ <<>> \in Seq(S)  OBVIOUS
    <3> QED BY Zenon, <1>1, <3>1
  <2>2. /\ <<e5, e6>> \in Seq(S) /\ Len(<<e5, e6>>) = 2 /\ 1 \in 1..2 /\ 2 \in 1..2
        /\ <<e5, e6>>[1] = e5 /\ <<e5, e6>>[2] = e6
    <3> HIDE DEF e1, e2, e3, e4, e5, e6
    <3> QED OBVIOUS
  <2> HIDE DEF S, e1, e2, e3, e4, e5, e6
  <2>3. /\ a \in Seq(S) /\ Len(s) \in Nat /\ Len(a) = Len(s) + 2 /\ DOMAIN a = 1..Len(a)
        /\ a[Len(s) + 1] = e5 /\ a[Len(s) + 2] = e6
    <3> DEFINE t == <<e5, e6>>
    <3>1. a = s \o t /\ t \in Seq(S) /\ Len(t) = 2 /\ t[1] = e5 /\ t[2] = e6  BY <2>1, <2>2
    <3> HIDE DEF t
    <3>2. /\ s \o t \in Seq(S) /\ Len(s) \in Nat /\ Len(s \o t) = Len(s) + Len(t)
          /\ DOMAIN (s \o t) = 1..Len(s \o t)
          /\ \A i \in 1..Len(t) : (s \o t)[Len(s) + i] = t[i]
      BY <2>1, <3>1, ConcatOf
    <3>3. 1 \in 1..Len(t) /\ 2 \in 1..Len(t)  BY <3>1
    <3>4. (s \o t)[Len(s) + 1] = e5 /\ (s \o t)[Len(s) + 2] = e6  BY <3>1, <3>2, <3>3
    <3> QED BY <3>1, <3>2, <3>4
  <2>4. Len(s) + 1 \in DOMAIN a /\ Len(s) + 2 \in DOMAIN a  BY <2>3
  <2>5. \A i \in DOMAIN a : a[i] \in S  BY <2>3
  <2>6. IsSeq(a)  BY <2>3, OwnElements
  <2> QED BY <2>3, <2>4, <2>5, <2>6
<1>3. \A e \in S :
         /\ e[1] \in {<<dir, name>> : name \in ArtifactNames}
         /\ e[1] = <<dir, "snark_proof.json">> => e[2] = Wrapped("snark", b)
         /\ e[1] = <<dir, "snark_vk.json">> => e[2] = cmd.vk
  BY DEF ArtifactNames
<1>4. e5[1] = <<dir, "snark_proof.json">> /\ e6[1] = <<dir, "snark_vk.json">>  OBVIOUS
<1> HIDE DEF e1, e2, e3, e4, e5, e6, S
<1> QED BY <1>2, <1>3, <1>4 DEF Pending, AreArtifacts

\* load_or_generate_vk() preserves the invariant: a key that is there is used or refused, and
\* only a missing one is generated.
LEMMA LoadOrGenerateVkInv ==
    ASSUME HostInv, LoadOrGenerateVk
    PROVE  HostInv'
<1>1. CommandState /\ ~last.ok /\ cmd.pc = "vk" /\ cmd.writes = <<>>
  BY RunningCommand DEF LoadOrGenerateVk, At
<1>2. FriState \/ VksState
  BY <1>1 DEF CommandState, DownloadState, SnarkState
<1> DEFINE key == VerificationKey(cmd.security)
           w == << <<FriVk, key>> >>
<1>3. CASE Ends(FALSE)  BY Zenon, <1>1, <1>3, EndingInv
<1>4. ASSUME NEW vk, NEW writes, cmd' = [cmd EXCEPT !.vk = vk, !.writes = writes, !.pc = AfterVk],
             UNCHANGED <<guest, files, last>>,
             \/ writes = <<>> /\ Exists(FriVk) /\ vk = files[FriVk]
             \/ writes = w /\ vk = key /\ ~Exists(FriVk)
      PROVE  HostInv'
  <2>1. /\ IsCommand(cmd') /\ cmd'.vk = vk /\ cmd'.writes = writes /\ cmd'.pc = AfterVk
        /\ UNCHANGED <<cmd.name, cmd.security, cmd.todo, cmd.asked, cmd.given, cmd.created>>
    BY Zenon, <1>1, <1>4 DEF CommandState, IsCommand
  <2>2. /\ IsSeq(writes) /\ Len(writes) <= 1
        /\ \A i \in DOMAIN writes : writes[i] = <<FriVk, key>>
    <3>1. CASE writes = <<>>  BY <3>1 DEF IsSeq
    <3>2. CASE writes = w
      <4> HIDE DEF key
      <4>1. w \in Seq({w[1]}) /\ DOMAIN w = {1} /\ w[1] = <<FriVk, key>> /\ Len(w) = 1  OBVIOUS
      <4> QED BY <3>2, <4>1 DEF IsSeq
    <3> QED BY <1>4, <3>1, <3>2
  <2>3. RightAfter(writes, files, FriVk, vk)
    <3>1. CASE writes = <<>> /\ Exists(FriVk) /\ vk = files[FriVk]
      BY <3>1, WrittenMeansRight DEF Exists
    <3>2. CASE writes = w /\ vk = key
      <4>1. Pending(writes, FriVk)  BY <3>2 DEF Pending
      <4> QED BY <2>2, <3>2, <4>1 DEF RightAfter
    <3> QED BY <1>4, <3>1, <3>2
  <2>4. \A i \in DOMAIN writes : writes[i][1] \notin ProofFiles  BY <2>2, PathsDiffer
  <2>5. Finished' = Finished  BY <2>1 DEF Finished
  <2>6. ASSUME FriState PROVE FriState'
    <3>1. Finished = 0 /\ cmd.name = "prove-fri" /\ cmd'.pc = "prove"
      BY <1>1, <2>1, <2>6 DEF FriState, AfterVk
    <3>2. 1..Finished = {} /\ ~(Finished > 0)  BY <3>1
    <3>3. Pending(writes, FriVk) => ~Exists(FriVk)  BY <1>4 DEF Pending
    <3>4. Pending(cmd'.writes, FriVk) /\ ~cmd'.created => ~Exists(FriVk)'  BY <1>4, <2>1, <3>3 DEF Exists
    <3> QED BY <2>1, <2>2, <2>3, <2>5, <2>6, <3>1, <3>2, <3>4, <1>4 DEF FriState, Right
  <2>7. ASSUME VksState PROVE VksState'
    <3>1. cmd.name = "gen-vks" /\ ~Exists(FriVk) /\ cmd'.pc = "snark_vk"
      BY <1>1, <2>1, <2>7 DEF VksState, AfterVk
    <3>2. vk = key  BY <1>4, <3>1
    <3> QED BY <1>4, <2>1, <2>3, <2>7, <3>1, <3>2 DEF VksState, Right, VerificationKey
  <2>8. CommandState'
    BY <1>1, <1>2, <2>1, <2>2, <2>4, <2>5, <2>6, <2>7 DEF CommandState
  <2> QED BY <1>1, <1>4, <2>8, RunningInv
<1>5. ASSUME Exists(FriVk), Becomes([cmd EXCEPT !.vk = files[FriVk], !.pc = AfterVk]) PROVE HostInv'
  <2>1. cmd' = [cmd EXCEPT !.vk = files[FriVk], !.writes = <<>>, !.pc = AfterVk]
    BY Zenon, <1>1, <1>5 DEF Becomes, CommandState, IsCommand
  <2> QED BY Zenon, <1>4, <1>5, <2>1 DEF Becomes
<1>6. ASSUME ~Exists(FriVk), Becomes([cmd EXCEPT !.vk = key, !.writes = w, !.pc = AfterVk]) PROVE HostInv'
  <2>1. cmd' = [cmd EXCEPT !.vk = key, !.writes = w, !.pc = AfterVk] /\ UNCHANGED <<guest, files, last>>
    BY <1>6 DEF Becomes
  <2> QED BY Zenon, <1>4, <1>6, <2>1
<1> QED BY Zenon, <1>3, <1>5, <1>6 DEF LoadOrGenerateVk

\* prove-fri preserves the invariant: a proof is saved only when the key verifies it.
LEMMA ProveBatchInv ==
    ASSUME HostInv, ProveBatch
    PROVE  HostInv'
<1>1. CommandState /\ ~last.ok /\ cmd.pc = "prove" /\ cmd.writes = <<>> /\ cmd.todo # <<>>
  BY RunningCommand DEF ProveBatch, At
<1>2. FriState  BY <1>1 DEF CommandState, VksState, DownloadState, SnarkState
<1>3. CASE Ends(FALSE)  BY Zenon, <1>1, <1>3, EndingInv
<1>4. ASSUME NEW valid \in BOOLEAN, NEW proof, proof = FriProof(cmd.security, Head(cmd.todo), valid),
             VerifiesProof(proof),
             Becomes([cmd EXCEPT !.todo = Tail(@),
                                 !.writes = << <<<<batch_output_dir(Head(cmd.todo)), FRI_PROOF_FILE_NAME>>, proof>> >>])
      PROVE  HostInv'
  <2> DEFINE b == Head(cmd.todo)
             path == <<b, FRI_PROOF_FILE_NAME>>
             w == << <<path, proof>> >>
  <2>1. valid = TRUE /\ b \notin RefusedBatches /\ cmd.vk = VerificationKey(cmd.security)
    BY <1>4 DEF VerifiesProof, FriProof, VerificationKey
  <2>2. proof = FriProof(cmd.security, b, TRUE) /\ GoodProof(proof)
    BY Zenon, <1>4, <2>1 DEF GoodProof, FriProof
  <2>3. cmd' = [cmd EXCEPT !.todo = Tail(cmd.todo), !.writes = w] /\ UNCHANGED <<guest, files, last>>
    BY <1>1, <1>4 DEF Becomes, batch_output_dir, CommandState, IsCommand
  <2>4. /\ IsCommand(cmd') /\ cmd'.todo = Tail(cmd.todo) /\ cmd'.writes = w
        /\ UNCHANGED <<cmd.name, cmd.pc, cmd.security, cmd.asked, cmd.given, cmd.vk, cmd.created>>
    BY Zenon, <1>1, <2>3 DEF CommandState, IsCommand
  <2>5. /\ cmd.asked \in Seq(Batches) /\ cmd.todo \in Seq(Batches) /\ cmd.todo # <<>>
        /\ LeftOf(cmd.todo, cmd.asked)
    BY <1>1, <1>2 DEF FriState, CommandState, Finished
  <2>6. /\ Finished \in Nat /\ LeftOf(cmd'.todo, cmd'.asked)
        /\ cmd'.todo \in Seq(Batches) /\ Finished' = Finished + 1
        /\ b \in Batches /\ b = cmd.asked[Finished + 1]
    <3>1. /\ Len(cmd.asked) - Len(cmd.todo) \in Nat /\ LeftOf(Tail(cmd.todo), cmd.asked)
          /\ Tail(cmd.todo) \in Seq(Batches)
          /\ Len(cmd.asked) - Len(Tail(cmd.todo)) = Len(cmd.asked) - Len(cmd.todo) + 1
          /\ Head(cmd.todo) \in Batches /\ Head(cmd.todo) = cmd.asked[Len(cmd.asked) - Len(cmd.todo) + 1]
      BY Zenon, <2>5, NextInput
    <3> QED BY Zenon, <2>4, <3>1 DEF Finished
  <2>7. /\ IsSeq(w) /\ Len(w) <= 1 /\ DOMAIN w = {1} /\ w[1][1] = path /\ w[1][2] = proof
    <3> HIDE DEF path
    <3>1. w \in Seq({w[1]}) /\ DOMAIN w = {1} /\ w[1] = <<path, proof>> /\ Len(w) = 1  OBVIOUS
    <3> QED BY <3>1 DEF IsSeq
  <2>8. path \in ProofFiles /\ path # FriVk  BY <2>6, PathsDiffer
  <2>9. RightAfter(w, files, FriVk, cmd.vk)
    <3>1. RightAfter(<<>>, files, FriVk, cmd.vk)  BY <1>1, <1>2 DEF FriState, Right
    <3>2. \A i \in DOMAIN w : w[i][1] = FriVk => w[i][2] = cmd.vk  BY <2>7, <2>8
    <3> HIDE DEF w
    <3> QED BY <3>1, <3>2, StartingKeepsRight
  <2>10. ASSUME NEW i \in 1..(Finished + 1)
         PROVE  RightAfter(w, files, <<cmd.asked[i], FRI_PROOF_FILE_NAME>>,
                           FriProof(cmd.security, cmd.asked[i], TRUE))
    <3> DEFINE q == <<cmd.asked[i], FRI_PROOF_FILE_NAME>>
               c == FriProof(cmd.security, cmd.asked[i], TRUE)
    <3>1. \A j \in DOMAIN w : w[j][1] = q => w[j][2] = c
      <4>1. path = q => b = cmd.asked[i]  OBVIOUS
      <4>2. path = q => proof = c  BY Zenon, <2>2, <4>1
      <4> HIDE DEF w, q, c, path
      <4> QED BY <2>7, <4>2
    <3>2. CASE i = Finished + 1
      <4>1. q = path  BY <2>6, <3>2
      <4>2. Pending(w, q)  BY <2>7, <4>1 DEF Pending
      <4> QED BY Zenon, <3>1, <4>2 DEF RightAfter
    <3>3. CASE i # Finished + 1
      <4>1. i \in 1..Finished  BY <2>6, <3>3
      <4>2. RightAfter(<<>>, files, q, c)  BY Zenon, <1>1, <1>2, <4>1 DEF FriState, Right
      <4> HIDE DEF w, q, c
      <4> QED BY Zenon, <3>1, <4>2, StartingKeepsRight DEF q, c
    <3> QED BY Zenon, <3>2, <3>3
  <2>11. ~Pending(w, FriVk)  BY <2>7, <2>8 DEF Pending
  <2>12. FriState'
    <3> HIDE DEF w
    <3> QED BY Zenon, <1>1, <1>2, <2>1, <2>3, <2>4, <2>6, <2>7, <2>9, <2>10, <2>11
            DEF FriState, Right, FriProof, VerificationKey
  <2>13. CommandState'
    <3> HIDE DEF w
    <3>1. \A i \in DOMAIN w : w[i][1] \in ProofFiles => GoodProof(w[i][2])  BY Zenon, <2>2, <2>7
    <3> QED BY <1>1, <2>4, <2>6, <2>7, <2>12, <3>1 DEF CommandState
  <2> QED BY <1>1, <2>3, <2>13, RunningInv
<1> QED BY Zenon, <1>3, <1>4 DEF ProveBatch

\* prove-snark preserves the invariant: it writes to the directory of one proof, and the earlier
\* proofs that lead to the same directory are no longer the last ones.
LEMMA WrapProofInv ==
    ASSUME HostInv, WrapProof
    PROVE  HostInv'
<1>1. CommandState /\ ~last.ok /\ cmd.pc = "wrap" /\ cmd.writes = <<>> /\ cmd.todo # <<>>
  BY RunningCommand DEF WrapProof, At
<1>2. SnarkState  BY <1>1 DEF CommandState, FriState, VksState, DownloadState
<1>3. CASE Ends(FALSE)  BY Zenon, <1>1, <1>3, EndingInv
<1>4. ASSUME NEW p, p = Head(cmd.todo), Wraps(p),
             NEW dir, dir = proof_file_output_dir(p), NEW w, w = Artifacts(dir, files[p][4]),
             Becomes([cmd EXCEPT !.todo = Tail(@), !.writes = w])
      PROVE  HostInv'
  <2>1. cmd' = [cmd EXCEPT !.todo = Tail(cmd.todo), !.writes = w] /\ UNCHANGED <<guest, files, last>>
    BY <1>1, <1>4 DEF Becomes, CommandState, IsCommand
  <2>2. /\ IsCommand(cmd') /\ cmd'.todo = Tail(cmd.todo) /\ cmd'.writes = w
        /\ UNCHANGED <<cmd.name, cmd.pc, cmd.security, cmd.asked, cmd.given, cmd.vk, cmd.created>>
    BY Zenon, <1>1, <2>1 DEF CommandState, IsCommand
  <2>3. /\ cmd.asked \in Seq(ProofFiles) /\ cmd.todo \in Seq(ProofFiles) /\ cmd.todo # <<>>
        /\ LeftOf(cmd.todo, cmd.asked)
    BY <1>1, <1>2 DEF SnarkState, CommandState
  <2>4. /\ Finished \in Nat /\ LeftOf(cmd'.todo, cmd'.asked)
        /\ cmd'.todo \in Seq(ProofFiles) /\ Finished' = Finished + 1
        /\ p \in ProofFiles /\ p = cmd.asked[Finished + 1]
        /\ \A i \in 1..(Finished + 1) : cmd.asked[i] \in ProofFiles
    <3>1. /\ Len(cmd.asked) - Len(cmd.todo) \in Nat /\ LeftOf(Tail(cmd.todo), cmd.asked)
          /\ Tail(cmd.todo) \in Seq(ProofFiles)
          /\ Len(cmd.asked) - Len(Tail(cmd.todo)) = Len(cmd.asked) - Len(cmd.todo) + 1
          /\ Head(cmd.todo) \in ProofFiles /\ Head(cmd.todo) = cmd.asked[Len(cmd.asked) - Len(cmd.todo) + 1]
      BY Zenon, <2>3, NextInput
    <3>2. Len(Tail(cmd.todo)) \in Nat /\ Len(cmd.asked) \in Nat  BY <2>3, <3>1
    <3>3. \A i \in 1..(Finished + 1) : i \in 1..Len(cmd.asked)  BY <3>1, <3>2 DEF Finished
    <3>4. \A i \in 1..(Finished + 1) : cmd.asked[i] \in ProofFiles  BY <2>3, <3>3
    <3> QED BY Zenon, <1>4, <2>2, <3>1, <3>4 DEF Finished
  <2>5. AreArtifacts(w, dir, Wrapped("snark", files[p][4]), cmd.vk)
    BY <1>4, ArtifactsAre
  <2>6. \A i \in DOMAIN w : w[i][1] \notin ProofFiles \cup {FriVk}
    <3>1. \A name \in ArtifactNames : <<dir, name>> \notin ProofFiles \cup {FriVk}
      BY HostAssumption DEF ProofFiles, FRI_PROOF_FILE_NAME, FriVk, ArtifactNames
    <3> QED BY <2>5, <3>1 DEF AreArtifacts
  <2>7. ASSUME NEW i \in 1..(Finished + 1), NEW d, d = proof_file_output_dir(cmd.asked[i])
        PROVE  /\ Exists(cmd.asked[i])
               /\ IsLastInto(cmd.asked, Finished + 1, i) =>
                      RightAfter(w, files, <<d, "snark_proof.json">>, Wrapped("snark", files[cmd.asked[i]][4]))
               /\ RightAfter(w, files, <<d, "snark_vk.json">>, cmd.vk)
    <3> DEFINE q == <<d, "snark_proof.json">>
               k == <<d, "snark_vk.json">>
               c == Wrapped("snark", files[cmd.asked[i]][4])
               isLast == IsLastInto(cmd.asked, Finished + 1, i)
    <3>1. d = dir /\ isLast => cmd.asked[i] = p
      <4>1. CASE i = Finished + 1  BY <2>4, <4>1
      <4>2. CASE i # Finished + 1
        <5>1. Finished + 1 \in (i + 1)..(Finished + 1)  BY <2>4, <4>2
        <5> QED BY <1>4, <2>4, <2>7, <5>1 DEF IsLastInto
      <4> QED BY <4>1, <4>2
    <3>2. \A j \in DOMAIN w : w[j][1] \in {q, k} => d = dir
      BY <2>5 DEF AreArtifacts
    <3>3. \A j \in DOMAIN w : (isLast /\ w[j][1] = q => w[j][2] = c) /\ (w[j][1] = k => w[j][2] = cmd.vk)
      <4> HIDE DEF isLast
      <4> QED BY <2>5, <3>1, <3>2 DEF AreArtifacts
    <3>4. CASE i = Finished + 1
      <4>1. cmd.asked[i] = p /\ d = dir  BY <1>4, <2>4, <2>7, <3>4
      <4>2. Exists(p)  BY <1>4 DEF Wraps, IsWhole
      <4>3. Pending(w, q) /\ Pending(w, k)  BY <2>5, <4>1 DEF AreArtifacts
      <4> HIDE DEF q, k, c, isLast
      <4>4. (isLast => RightAfter(w, files, q, c)) /\ RightAfter(w, files, k, cmd.vk)  BY <3>3, <4>3 DEF RightAfter
      <4> QED BY <4>1, <4>2, <4>4 DEF q, k, c, isLast
    <3>5. CASE i # Finished + 1
      <4>1. i \in 1..Finished  BY <2>4, <3>5
      <4>2. isLast => IsLastInto(cmd.asked, Finished, i)
        <5>1. \A j \in (i + 1)..Finished : j \in (i + 1)..(Finished + 1)  BY <2>4, <4>1
        <5> QED BY <5>1 DEF IsLastInto
      <4> HIDE DEF isLast
      <4>3. Exists(cmd.asked[i]) /\ (isLast => RightAfter(<<>>, files, q, c)) /\ RightAfter(<<>>, files, k, cmd.vk)
        BY <1>1, <1>2, <2>7, <4>1, <4>2 DEF SnarkState, Right
      <4> HIDE DEF q, k, c
      <4>4. (isLast => RightAfter(w, files, q, c)) /\ RightAfter(w, files, k, cmd.vk)
        BY <3>3, <4>3, StartingKeepsRight
      <4> QED BY <4>3, <4>4 DEF q, k, c, isLast
    <3> QED BY <3>4, <3>5
  <2>8. SnarkState'
    BY <1>1, <1>2, <2>1, <2>2, <2>4, <2>6, <2>7 DEF SnarkState, Right, Wrapped, SnarkWrapperVK, Exists
  <2>9. CommandState'
    BY <1>1, <2>2, <2>4, <2>5, <2>6, <2>8 DEF CommandState, AreArtifacts
  <2> QED BY <1>1, <2>1, <2>9, RunningInv
<1> QED BY Zenon, <1>3, <1>4 DEF WrapProof

\* A command begins with nothing done and nothing to write.
LEMMA InvokeInv ==
    ASSUME HostInv, Invoke
    PROVE  HostInv'
<1>1. ~last'.ok /\ UNCHANGED files  BY DEF Invoke, NoLast
<1>2. ASSUME NEW name, NEW pc, NEW security, NEW todo, NEW given, NEW intermediates,
             cmd' = Command(name, pc, security, todo, given, intermediates),
             \/ name = "prove-fri" /\ pc = "vk" /\ todo \in Seq(Batches)
             \/ name = "gen-vks" /\ pc = "remove" /\ todo = <<>>
             \/ name = "download" /\ pc = "exists" /\ todo = <<>>
             \/ name = "prove-snark" /\ pc = "wrapper" /\ todo \in Seq(ProofFiles)
      PROVE  CommandState'
  <2>1. /\ cmd'.name = name /\ cmd'.pc = pc /\ cmd'.todo = todo /\ cmd'.asked = todo /\ cmd'.writes = <<>>
        /\ IsCommand(cmd') /\ ~cmd'.created
    BY <1>2 DEF Command, IsCommand
  <2>2. Len(todo) \in Nat /\ Len(<<>>) = 0  BY <1>2
  <2>3. IsSeq(<<>>) /\ DOMAIN <<>> = {} /\ ~Pending(<<>>, FriVk)  BY DEF IsSeq, Pending
  <2>4. LeftOf(todo, todo)
    <3>1. \A i \in 1..Len(todo) : Len(todo) - Len(todo) + i = i  BY <2>2
    <3> QED BY <2>2, <3>1 DEF LeftOf
  <2>5. Finished' = 0 /\ 1..Finished' = {}  BY <2>1, <2>2 DEF Finished
  <2>6. FriState' \/ VksState' \/ DownloadState' \/ SnarkState'
    BY <1>2, <2>1, <2>2, <2>3, <2>5 DEF FriState, VksState, DownloadState, SnarkState
  <2> QED BY <2>1, <2>3, <2>4, <2>6 DEF CommandState
<1>3. CommandState'
  <2>2. CASE \E security \in SecurityLevels, todo \in BatchLists :
               cmd' = Command("prove-fri", "vk", security, todo, FALSE, FALSE)
    BY Zenon, <1>2, <2>2, HostAssumption
  <2>3. CASE \E security \in SecurityLevels : cmd' = Command("gen-vks", "remove", security, <<>>, FALSE, FALSE)
    BY Zenon, <1>2, <2>3
  <2>4. CASE cmd' = Command("download", "exists", "none", <<>>, FALSE, FALSE)
    BY Zenon, <1>2, <2>4
  <2>5. CASE \E todo \in FileLists, given \in BOOLEAN, intermediates \in BOOLEAN :
               cmd' = Command("prove-snark", "wrapper", "none", todo, given, intermediates)
    BY <1>2, <2>5, HostAssumption
  <2> QED BY Zenon, <2>2, <2>3, <2>4, <2>5 DEF Invoke, Requested
<1> QED BY Zenon, <1>1, <1>3
        DEF HostInv, ProveFriDelivers, GenVksDelivers, ProveSnarkDelivers, DownloadDelivers, Succeeded

\* gen-vks removes the old key first, then writes the new ones.
LEMMA GenVksInv ==
    ASSUME HostInv, RemoveStaleVk \/ GenerateSnarkVk
    PROVE  HostInv'
<1>1. CommandState /\ ~last.ok /\ cmd.writes = <<>> /\ cmd.pc \in {"remove", "snark_vk"}
  BY Zenon, RunningCommand DEF RemoveStaleVk, GenerateSnarkVk, At
<1>2. VksState  BY Zenon, <1>1 DEF CommandState, FriState, DownloadState, SnarkState
<1>3. CASE RemoveStaleVk
  <2>1. /\ IsCommand(cmd') /\ cmd'.pc = "vk" /\ cmd'.writes = <<>> /\ cmd'.name = "gen-vks"
        /\ UNCHANGED <<cmd.todo, cmd.asked, cmd.created, last>>
    BY <1>1, <1>2, <1>3 DEF RemoveStaleVk, CommandState, IsCommand, VksState
  <2>2. files' = Without(files, FriVk)  BY <1>3 DEF RemoveStaleVk
  <2>3. ~Exists(FriVk)' /\ \A path \in DOMAIN files' : path \in DOMAIN files /\ files'[path] = files[path]
    BY <2>2 DEF Without, Exists
  <2>4. VksState'  BY <1>2, <2>1, <2>3 DEF VksState
  <2>5. CommandState'  BY <1>1, <2>1, <2>4 DEF CommandState
  <2> QED BY <1>1, <2>1, <2>3, <2>5, RunningInv
<1>4. CASE GenerateSnarkVk /\ Ends(FALSE)  BY Zenon, <1>1, <1>4, EndingInv
<1>5. CASE GenerateSnarkVk /\ ~Ends(FALSE)
  <2> DEFINE w == << <<SnarkVk, SnarkWrapperVK>> >>
  <2>1. cmd' = [cmd EXCEPT !.writes = w, !.pc = "end"] /\ UNCHANGED <<guest, files, last>>
    BY Zenon, <1>5 DEF GenerateSnarkVk, Becomes
  <2>2. /\ IsCommand(cmd') /\ cmd'.pc = "end" /\ cmd'.writes = w /\ cmd'.name = "gen-vks"
        /\ UNCHANGED <<cmd.todo, cmd.asked, cmd.security, cmd.created>>
    BY Zenon, <1>1, <1>2, <2>1 DEF CommandState, IsCommand, VksState
  <2>3. IsSeq(w) /\ DOMAIN w = {1} /\ w[1][1] = SnarkVk /\ w[1][2] = SnarkWrapperVK
    <3> DEFINE key == SnarkWrapperVK
    <3> HIDE DEF key
    <3>1. w \in Seq({w[1]}) /\ DOMAIN w = {1} /\ w[1] = <<SnarkVk, key>> /\ Len(w) = 1  BY DEF key
    <3> QED BY <3>1 DEF IsSeq, key
  <2> HIDE DEF w
  <2>4. Pending(w, SnarkVk) /\ RightAfter(w, files, SnarkVk, SnarkWrapperVK)
    BY <2>3 DEF Pending, RightAfter
  <2>5. RightAfter(w, files, FriVk, VerificationKey(cmd.security))
    <3>1. cmd.pc = "snark_vk"  BY <1>5 DEF GenerateSnarkVk, At
    <3>2. RightAfter(<<>>, files, FriVk, VerificationKey(cmd.security))
      BY <1>1, <1>2, <3>1 DEF VksState, Right
    <3>3. \A i \in DOMAIN w : w[i][1] = FriVk => w[i][2] = VerificationKey(cmd.security)
      BY <2>3, PathsDiffer
    <3> QED BY <3>2, <3>3, StartingKeepsRight
  <2>6. VksState'
    BY <1>2, <2>1, <2>2, <2>4, <2>5 DEF VksState, Right, VerificationKey, SnarkWrapperVK
  <2>7. CommandState'  BY <1>1, <2>2, <2>3, <2>6, PathsDiffer DEF CommandState
  <2> QED BY <1>1, <2>1, <2>7, RunningInv
<1> QED BY Zenon, <1>3, <1>4, <1>5

\* The download of the trusted setup writes no other file.
LEMMA DownloadInv ==
    ASSUME HostInv, CheckPresent \/ Fetch
    PROVE  HostInv'
<1>1. CommandState /\ ~last.ok /\ cmd.writes = <<>> /\ cmd.pc \in {"exists", "fetch"}
  BY Zenon, RunningCommand DEF CheckPresent, Fetch, At
<1>2. DownloadState  BY Zenon, <1>1 DEF CommandState, FriState, VksState, SnarkState
<1>3. ASSUME NEW ok \in BOOLEAN, Ends(ok), ok => Exists(TrustedSetup) PROVE HostInv'
  BY <1>1, <1>2, <1>3, EndingInv DEF DownloadState
<1>4. ASSUME NEW pc, NEW writes, NEW attempts,
             \/ pc \in {"exists", "fetch"} /\ writes = <<>>
             \/ pc = "end" /\ writes = << <<TrustedSetup, <<"setup">>>> >>,
             cmd' = [cmd EXCEPT !.pc = pc, !.writes = writes, !.attempts = attempts], UNCHANGED <<guest, files, last>>
      PROVE  HostInv'
  <2>1. /\ IsCommand(cmd') /\ cmd'.pc = pc /\ cmd'.writes = writes /\ cmd'.name = "download"
        /\ UNCHANGED <<cmd.todo, cmd.asked, cmd.created>>
    BY Zenon, <1>1, <1>2, <1>4 DEF CommandState, IsCommand, DownloadState
  <2>2. /\ IsSeq(writes) /\ \A i \in DOMAIN writes : writes[i][1] = TrustedSetup
        /\ pc = "end" => RightAfter(writes, files, TrustedSetup, <<"setup">>)
    <3>1. CASE writes = <<>>
      <4>1. writes # << <<TrustedSetup, <<"setup">>>> >>  BY <3>1
      <4> QED BY <1>4, <3>1, <4>1 DEF IsSeq
    <3>2. CASE writes = << <<TrustedSetup, <<"setup">>>> >>
      <4>1. /\ writes \in Seq({writes[1]}) /\ DOMAIN writes = {1}
            /\ writes[1][1] = TrustedSetup /\ writes[1][2] = <<"setup">>
        BY <3>2
      <4> QED BY <4>1 DEF IsSeq, RightAfter, Pending
    <3> QED BY <1>4, <3>1, <3>2
  <2>3. DownloadState'  BY <1>2, <1>4, <2>1, <2>2, PathsDiffer DEF DownloadState, Pending, Right
  <2>4. CommandState'  BY <1>1, <2>1, <2>2, <2>3, PathsDiffer DEF CommandState
  <2> QED BY <1>1, <1>4, <2>4, RunningInv
<1>5. CASE CheckPresent
  <2>1. CASE Exists(TrustedSetup)  BY Zenon, <1>3, <1>5, <2>1 DEF CheckPresent
  <2>2. CASE ~Exists(TrustedSetup)
    <3>1. /\ cmd' = [cmd EXCEPT !.pc = "fetch", !.writes = <<>>, !.attempts = cmd.attempts]
          /\ UNCHANGED <<guest, files, last>>
      BY Zenon, <1>1, <1>5, <2>2 DEF CheckPresent, Becomes, CommandState, IsCommand
    <3> QED BY Zenon, <1>4, <3>1
  <2> QED BY <2>1, <2>2
<1>6. CASE Fetch
  <2>1. CASE Ends(FALSE)  BY Zenon, <1>3, <2>1
  <2>2. CASE Becomes([cmd EXCEPT !.writes = << <<TrustedSetup, <<"setup">>>> >>, !.pc = "end"])
    <3>1. /\ cmd' = [cmd EXCEPT !.pc = "end", !.writes = << <<TrustedSetup, <<"setup">>>> >>, !.attempts = cmd.attempts]
          /\ UNCHANGED <<guest, files, last>>
      BY Zenon, <1>1, <2>2 DEF Becomes, CommandState, IsCommand
    <3> QED BY Zenon, <1>4, <3>1
  <2>3. CASE Becomes([cmd EXCEPT !.attempts = @ + 1])
    <3>1. /\ cmd' = [cmd EXCEPT !.pc = cmd.pc, !.writes = <<>>, !.attempts = cmd.attempts + 1]
          /\ UNCHANGED <<guest, files, last>>
      BY Zenon, <1>1, <2>3 DEF Becomes, CommandState, IsCommand
    <3> QED BY Zenon, <1>1, <1>4, <3>1
  <2> QED BY Zenon, <1>6, <2>1, <2>2, <2>3 DEF Fetch
<1> QED BY <1>5, <1>6

\* The key of the wrapper is the one given or that of the present guest.
LEMMA PrepareWrapperInv ==
    ASSUME HostInv, PrepareWrapper
    PROVE  HostInv'
<1>1. CommandState /\ ~last.ok /\ cmd.writes = <<>> /\ cmd.pc = "wrapper"
  BY RunningCommand DEF PrepareWrapper, At
<1>2. SnarkState  BY <1>1 DEF CommandState, FriState, VksState, DownloadState
<1>3. CASE Ends(FALSE)  BY Zenon, <1>1, <1>3, EndingInv
<1>4. CASE ~Ends(FALSE)
  <2> DEFINE vk == IF cmd.given THEN files[SnarkVk] ELSE SnarkWrapperVK
  <2>1. cmd' = [cmd EXCEPT !.vk = vk, !.pc = "wrap"] /\ UNCHANGED <<guest, files, last>>
    BY Zenon, <1>4 DEF PrepareWrapper, Becomes
  <2>2. ~cmd.given => vk = SnarkWrapperVK  OBVIOUS
  <2> HIDE DEF vk
  <2>3. /\ IsCommand(cmd') /\ cmd'.pc = "wrap" /\ cmd'.writes = <<>> /\ cmd'.vk = vk
        /\ UNCHANGED <<cmd.name, cmd.todo, cmd.asked, cmd.given, cmd.created>>
    BY Zenon, <1>1, <2>1 DEF CommandState, IsCommand
  <2>4. Finished' = 0 /\ 1..Finished' = {}
    <3>1. Finished = 0  BY <1>1, <1>2 DEF SnarkState
    <3>2. Finished' = Finished  BY <2>3 DEF Finished
    <3> QED BY <3>1, <3>2
  <2>5. SnarkState'  BY <1>2, <2>1, <2>2, <2>3, <2>4 DEF SnarkState, SnarkWrapperVK
  <2>6. CommandState'  BY <1>1, <2>3, <2>5 DEF CommandState
  <2> QED BY <1>1, <2>1, <2>6, RunningInv
<1> QED BY Zenon, <1>3, <1>4

\* A command ends when all is done, or at any moment without success.
LEMMA CompletionInv ==
    ASSUME HostInv, Finish \/ ProvedAll \/ WrappedAll \/ Interrupt
    PROVE  HostInv'
<1>1. CommandState  BY Zenon, RunningCommand DEF Finish, ProvedAll, WrappedAll, Interrupt, At
<1>2. CASE Finish
  <2>1. cmd.writes = <<>> /\ cmd.pc = "end" /\ Ends(TRUE)  BY Zenon, <1>2 DEF Finish, At
  <2>2. cmd.name \notin {"prove-fri", "prove-snark"}
    BY <1>1, <2>1 DEF CommandState, FriState, VksState, DownloadState, SnarkState
  <2> QED BY Zenon, <1>1, <2>1, <2>2, EndingInv
<1>3. CASE ProvedAll \/ WrappedAll
  <2>1. cmd.writes = <<>> /\ cmd.pc \in {"prove", "wrap"} /\ cmd.todo = <<>> /\ Ends(TRUE)
    BY Zenon, <1>3 DEF ProvedAll, WrappedAll, At
  <2>2. cmd.name # "gen-vks" /\ cmd.name # "download"
    BY Zenon, <1>1, <2>1 DEF CommandState, FriState, VksState, DownloadState, SnarkState
  <2> QED BY Zenon, <1>1, <2>1, <2>2, EndingInv
<1>4. CASE Interrupt  BY Zenon, <1>1, <1>4, EndingInv DEF Interrupt
<1> QED BY <1>2, <1>3, <1>4

\* What the operator does between two commands keeps every proof as it is.
LEMMA OperatorInv ==
    ASSUME HostInv, Rebuild \/ MoveProof
    PROVE  HostInv'
<1>1. cmd' = NoCommand /\ ~last'.ok  BY DEF Rebuild, MoveProof, NoLast
<1>2. \A path \in DOMAIN files' : path \in ProofFiles => GoodProof(files'[path])
  <2>1. CASE Rebuild  BY <2>1 DEF Rebuild, HostInv
  <2>2. CASE MoveProof
    <3>1. PICK b \in Batches, moved \in MovedProofs :
             /\ Exists(<<b, FRI_PROOF_FILE_NAME>>)
             /\ files' = WithFile(Without(files, <<b, FRI_PROOF_FILE_NAME>>), moved,
                               files[<<b, FRI_PROOF_FILE_NAME>>])
      BY <2>2 DEF MoveProof
    <3>2. GoodProof(files[<<b, FRI_PROOF_FILE_NAME>>])  BY <3>1, PathsDiffer DEF HostInv, Exists
    <3> QED BY <3>1, <3>2 DEF WithFile, Without, HostInv
  <2> QED BY <2>1, <2>2
<1> QED BY Zenon, <1>1, <1>2
        DEF HostInv, ProveFriDelivers, GenVksDelivers, ProveSnarkDelivers, DownloadDelivers, Succeeded

\* Every step preserves the invariant.
LEMMA HostNextInv == HostInv /\ [HostNext]_host_vars => HostInv'
<1> SUFFICES ASSUME HostInv, [HostNext]_host_vars PROVE HostInv'  OBVIOUS
<1>1. CASE UNCHANGED host_vars
  <2>1. UNCHANGED <<guest, files, cmd, last>>  BY <1>1 DEF host_vars
  <2>2. FriState' = FriState
    BY <2>1 DEF FriState, Finished, Right, Exists, VerificationKey, FriProof
  <2>3. VksState' = VksState  BY <2>1 DEF VksState, Right, Exists, VerificationKey, SnarkWrapperVK
  <2>4. DownloadState' = DownloadState  BY <2>1 DEF DownloadState, Right
  <2>5. SnarkState' = SnarkState
    BY <2>1 DEF SnarkState, Finished, Right, Exists, SnarkWrapperVK, Wrapped
  <2>6. CommandState' = CommandState  BY <2>1, <2>2, <2>3, <2>4, <2>5 DEF CommandState
  <2>7. /\ ProveFriDelivers' = ProveFriDelivers /\ GenVksDelivers' = GenVksDelivers
        /\ ProveSnarkDelivers' = ProveSnarkDelivers /\ DownloadDelivers' = DownloadDelivers
    BY <2>1 DEF ProveFriDelivers, GenVksDelivers, ProveSnarkDelivers, DownloadDelivers, Succeeded, Exists, IsWhole,
                VerificationKey, SnarkWrapperVK, FriProof, Wrapped
  <2> QED BY <2>1, <2>6, <2>7 DEF HostInv
<1> QED BY <1>1, InvokeInv, WritingInv, CompletionInv, OperatorInv, GenVksInv, LoadOrGenerateVkInv, ProveBatchInv,
           DownloadInv, PrepareWrapperInv, WrapProofInv DEF HostNext

\* The invariant holds before the first command.
LEMMA HostInitInv == HostInit => HostInv
BY DEF HostInit, HostInv, NoLast, ProveFriDelivers, GenVksDelivers, ProveSnarkDelivers, DownloadDelivers, Succeeded

THEOREM HostInvariantHolds == HostSpec => []HostInv
BY HostInitInv, HostNextInv, PTL DEF HostSpec

\* A proof on disk that can be read is a valid one, and a command that succeeds has left what it
\* promises, for every list of inputs, whichever of them share an output directory, and wherever
\* earlier commands were stopped (prove_batches_fri(), generate_fri_vk(), wrap_to_snark(),
\* download_trusted_setup_if_not_present()).
THEOREM CommandsAlwaysDeliver == HostSpec => []CommandsDeliver
<1>1. HostInv => CommandsDeliver
  <2> SUFFICES ASSUME HostInv PROVE CommandsDeliver  OBVIOUS
  <2>1. SavedProofsAreValid  BY DEF HostInv, SavedProofsAreValid, IsWhole, GoodProof
  <2> QED BY <2>1 DEF HostInv, CommandsDeliver
<1> QED BY <1>1, HostInvariantHolds, PTL

\* A key file that is there, torn or not, is created anew, filled or removed by gen-vks only: every
\* other command uses it or fails (load_or_generate_vk(), generate_fri_vk()).
THEOREM KeysAreOnlyReplacedByGenVks == HostSpec => OnlyGenVksReplacesKeys
<1> DEFINE Kept == Exists(FriVk) /\ cmd.name # "gen-vks" /\ ~FillsKey =>
                      /\ ~FillsKey'
                      /\ FriVk \in DOMAIN files'
                      /\ files'[FriVk] = files[FriVk]
<1>1. HostInv /\ [HostNext]_host_vars => [Kept]_host_vars
  <2> SUFFICES ASSUME HostInv, HostNext, FriVk \in DOMAIN files, cmd.name # "gen-vks", ~FillsKey
               PROVE  ~FillsKey' /\ FriVk \in DOMAIN files' /\ files'[FriVk] = files[FriVk]
    BY Zenon DEF Exists
  <2>1. CASE CreateFile \/ FillFile
    <3>1. CommandState /\ cmd.writes # <<>>  BY <2>1, RunningCommand DEF CreateFile, FillFile
    <3>2. 1 \in DOMAIN cmd.writes /\ Head(cmd.writes) = cmd.writes[1]
      BY <3>1 DEF CommandState, IsSeq
    <3>3. CASE CreateFile
      <4>1. ~cmd.created  BY <3>3 DEF CreateFile
      <4>2. ~Pending(cmd.writes, FriVk)
        BY Zenon, <3>1, <4>1 DEF CommandState, FriState, VksState, DownloadState, SnarkState, Pending, Exists
      <4>3. cmd.writes[1][1] # FriVk  BY <3>2, <4>2 DEF Pending
      <4>4. cmd'.writes = cmd.writes  BY <3>1, <3>3 DEF CreateFile, CommandState, IsCommand
      <4> QED BY <3>2, <3>3, <4>3, <4>4 DEF CreateFile, WithFile, FillsKey
    <3>4. CASE FillFile
      <4>1. cmd.writes[1][1] # FriVk  BY <3>4 DEF FillFile, FillsKey
      <4>2. ~cmd'.created  BY <3>1, <3>4 DEF FillFile, CommandState, IsCommand
      <4> QED BY <3>2, <3>4, <4>1, <4>2 DEF FillFile, WithFile, FillsKey
    <3> QED BY <2>1, <3>3, <3>4
  <2>2. CASE RemoveStaleVk
    <3>1. CommandState /\ cmd.pc = "remove"  BY <2>2, RunningCommand DEF RemoveStaleVk, At
    <3> QED BY <3>1 DEF CommandState, FriState, VksState, DownloadState, SnarkState
  <2>3. CASE MoveProof
    <3>1. ~FillsKey'  BY <2>3 DEF MoveProof, FillsKey, NoCommand
    <3> QED BY <2>3, <3>1, PathsDiffer DEF MoveProof, WithFile, Without
  <2>4. ASSUME NEW pc, At(pc), UNCHANGED files,
               Ends(TRUE) \/ Ends(FALSE) \/ UNCHANGED cmd.created
        PROVE  ~FillsKey' /\ FriVk \in DOMAIN files' /\ files'[FriVk] = files[FriVk]
    <3>1. ~cmd.created  BY Zenon, <2>4, RunningCommand DEF At, CommandState
    <3>2. CASE Ends(TRUE) \/ Ends(FALSE)
      <4>1. cmd' = NoCommand  BY Zenon, <3>2 DEF Ends
      <4>2. ~FillsKey'  BY <4>1 DEF NoCommand, FillsKey
      <4> QED BY <2>4, <4>2
    <3>3. CASE UNCHANGED cmd.created
      <4>1. ~FillsKey'  BY <3>1, <3>3 DEF FillsKey
      <4> QED BY <2>4, <4>1
    <3> QED BY Zenon, <2>4, <3>2, <3>3
  <2>5. CASE Finish \/ ProvedAll \/ WrappedAll
    BY Zenon, <2>4, <2>5 DEF Finish, ProvedAll, WrappedAll, Ends
  <2>6. CASE Interrupt \/ Invoke \/ Rebuild
    <3>1. UNCHANGED files  BY Zenon, <2>6 DEF Interrupt, Invoke, Rebuild, Ends
    <3>2. CASE Interrupt \/ Rebuild  BY <3>1, <3>2 DEF Interrupt, Rebuild, Ends, NoCommand, FillsKey
    <3>3. CASE Invoke
      <4>1. ~cmd'.created  BY <3>3 DEF Invoke, Requested, Command
      <4> QED BY <3>1, <4>1 DEF FillsKey
    <3> QED BY <2>6, <3>2, <3>3
  <2>7. CASE LoadOrGenerateVk \/ GenerateSnarkVk \/ ProveBatch \/ CheckPresent \/ Fetch \/ PrepareWrapper \/ WrapProof
    <3>1. PICK pc : At(pc)
      BY Zenon, <2>7 DEF LoadOrGenerateVk, GenerateSnarkVk, ProveBatch, CheckPresent, Fetch, PrepareWrapper, WrapProof
    <3>2. IsCommand(cmd)  BY Zenon, <3>1, RunningCommand DEF At, CommandState
    <3>3. UNCHANGED files
      BY Zenon, <2>7 DEF LoadOrGenerateVk, GenerateSnarkVk, ProveBatch, CheckPresent, Fetch, PrepareWrapper, WrapProof,
                         Becomes, Ends
    <3>4. Ends(FALSE) \/ Ends(TRUE) \/ UNCHANGED cmd.created
      <4>1. CASE LoadOrGenerateVk \/ GenerateSnarkVk
        BY Zenon, <3>2, <4>1 DEF LoadOrGenerateVk, GenerateSnarkVk, Becomes, IsCommand
      <4>2. CASE ProveBatch \/ WrapProof
        BY Zenon, <3>2, <4>2 DEF ProveBatch, WrapProof, Becomes, IsCommand
      <4>3. CASE CheckPresent \/ Fetch \/ PrepareWrapper
        BY Zenon, <3>2, <4>3 DEF CheckPresent, Fetch, PrepareWrapper, Becomes, IsCommand
      <4> QED BY Zenon, <2>7, <4>1, <4>2, <4>3
    <3> QED BY Zenon, <2>4, <3>1, <3>3, <3>4
  <2> QED BY <2>1, <2>2, <2>3, <2>5, <2>6, <2>7 DEF HostNext
<1> QED BY <1>1, HostInvariantHolds, PTL DEF HostSpec, OnlyGenVksReplacesKeys
=============================================================================
