---------------------- MODULE MerkleTreeRecoveryProofs ----------------------
(***************************************************************************)
(* Proofs about tree recovery with background persistence, for any number  *)
(* of patches, sessions, node keys and any channel capacity.               *)
(***************************************************************************)
EXTENDS MerkleTreeRecovery, WellFoundedInduction, FiniteSetTheorems, TLAPS

\* A non-empty set of naturals with an upper bound has a greatest element.
LEMMA MaxExists ==
  ASSUME NEW T \in SUBSET Nat, NEW n \in Nat, \A x \in T : x <= n, T # {}
  PROVE  \E m \in T : \A x \in T : x <= m
<1> DEFINE R == OpToRel(<, Nat)
           U == {k \in Nat : n - k \in T}
<1>1. U \subseteq Nat /\ U # {}
  <2>1. PICK x \in T : TRUE  BY Zenon
  <2>2. n - x \in Nat /\ n - (n - x) = x  OBVIOUS
  <2> QED BY Zenon, <2>1, <2>2
<1>2. IsWellFoundedOn(R, Nat)  BY Zenon, NatLessThanWellFounded
<1> HIDE DEF R, U
<1>3. PICK k \in U : \A j \in U : ~(<<j, k>> \in R)
  BY Zenon, <1>1, <1>2, WFMin
<1> USE DEF U
<1>4. \A j \in U : k <= j
  <2>1. SUFFICES ASSUME NEW j \in U, j < k PROVE FALSE  OBVIOUS
  <2>2. <<j, k>> \in Nat \X Nat /\ <<j, k>>[1] < <<j, k>>[2]  BY <2>1
  <2>3. <<j, k>> \in R  BY <2>2 DEF R, OpToRel
  <2> QED BY <2>3, <1>3
<1>5. \A x \in T : x <= n - k
  <2>1. TAKE x \in T
  <2>2. n - x \in Nat /\ n - (n - x) = x /\ n \in Nat /\ x \in Nat /\ k \in Nat  OBVIOUS
  <2>3. k <= n - x  BY Zenon, <2>2, <1>4
  <2> QED BY <2>2, <2>3
<1> QED BY <1>3, <1>5

\* The latest command of a non-empty set of accepted patches is one of them.
LEMMA LatestIsMember ==
  ASSUME TypeOK, Numbered, NEW S \in SUBSET commands, S # {}
  PROVE  Latest(S) \in S /\ \A d \in S : d.id <= Latest(S).id
<1> DEFINE T == {c.id : c \in S}
<1>1. T \in SUBSET Nat /\ T # {}  BY DEF TypeOK, Command
<1>2. \A x \in T : x <= Len(accepted)
  BY DEF TypeOK, Numbered
<1>3. PICK m \in T : \A x \in T : x <= m
  <2>1. Len(accepted) \in Nat  BY DEF TypeOK
  <2> HIDE DEF T
  <2> QED BY Zenon, <1>1, <1>2, <2>1, MaxExists
<1>4. PICK c \in S : c.id = m  OBVIOUS
<1>5. \A d \in S : d.id <= c.id  BY <1>3, <1>4
<1> QED BY <1>5 DEF Latest

\* Before finalize() sends its last patch, the manifest read through the buffer says
\* that the tree is being recovered.
LEMMA ManifestIsRecovering ==
  ASSUME IndInv, Idle, db # "closed"
  PROVE  try_manifest = TRUE
<1>1. CASE commands # {}
  <2>1. Latest(commands) \in commands  BY <1>1, LatestIsMember DEF IndInv
  <2>2. Latest(commands).recovering = TRUE
    BY <2>1 DEF IndInv, EndsLast, Idle, TypeOK, Command
  <2> QED BY <1>1, <2>2 DEF try_manifest
<1>2. CASE commands = {}
  <2>1. disk \in Seq(Command) /\ accepted \in Seq(Command) /\ disk # <<>>
    BY DEF IndInv, TypeOK, CallState
  <2>2. Len(disk) \in 1..Len(accepted) /\ disk[Len(disk)] = accepted[Len(disk)]
    BY <2>1 DEF IndInv, PersistedInOrder
  <2>3. accepted[Len(disk)].recovering
    BY <2>1, <2>2 DEF IndInv, EndsLast, Idle, Final
  <2>4. accepted[Len(disk)].recovering = TRUE
    BY <2>1, <2>2, <2>3 DEF Command
  <2> QED BY <1>2, <2>2, <2>4 DEF try_manifest, Final
<1> QED BY Zenon, <1>1, <1>2

\* While an accepted patch is missing from the store, the store is marked as being
\* recovered.
LEMMA UnwrittenMeansRecovering ==
  ASSUME IndInv, Len(disk) < Len(accepted)
  PROVE  ~Recovered
<1>1. SUFFICES ASSUME disk # <<>> PROVE Final(disk).recovering  BY DEF Recovered
<1>2. Len(disk) \in 1..Len(accepted) - 1 /\ Len(disk) \in DOMAIN disk
  BY <1>1 DEF IndInv, TypeOK
<1> QED BY <1>2 DEF IndInv, PersistedInOrder, EndsLast, Final

\* The invariant holds in the initial state.
LEMMA InitIndInv == Init => IndInv
<1> SUFFICES ASSUME Init PROVE IndInv  OBVIOUS
<1>1. TypeOK
  <2>1. finalized \in BOOLEAN /\ sessions \in Nat  BY Zenon DEF Init
  <2> QED BY <2>1 DEF Init, TypeOK
<1>2. Numbered /\ PersistedInOrder  BY DEF Init, Numbered, PersistedInOrder
<1>3. QueueInOrder  BY DEF Init, QueueInOrder, Healthy
<1>4. CallState  BY DEF Init, CallState
<1>5. EndsLast  BY DEF Init, EndsLast
<1>6. FinalizedMeansRecovered  BY DEF Init, FinalizedMeansRecovered
<1> QED BY <1>1, <1>2, <1>3, <1>4, <1>5, <1>6 DEF IndInv

\* The persistence thread preserves the invariant: what it takes from the channel is
\* the next accepted patch, and it stops at the first failure.
LEMMA ThreadIndInv ==
  ASSUME IndInv, Thread \/ StopProcessing
  PROVE  IndInv'
<1> USE NoCmdAssumption DEF IndInv, Thread, StopProcessing, mainVars
<1>1. CASE Recv
  <2>1. TypeOK'  BY <1>1 DEF Recv, TypeOK
  <2>2. Numbered'  BY <1>1 DEF Recv, Numbered
  <2>3. PersistedInOrder'  BY <1>1 DEF Recv, PersistedInOrder, TypeOK
  <2>4. QueueInOrder'
    <3>1. Len(chan) \in Nat \ {0} /\ Len(accepted) = Len(disk) + Len(chan)
      BY <1>1 DEF Recv, TypeOK, QueueInOrder, Healthy, Writing
    <3>2. current' = chan[1] /\ current' # NoCmd /\ Len(chan') = Len(chan) - 1
      BY <1>1, <3>1 DEF Recv, TypeOK
    <3>3. accepted[Len(disk) + 1] = chan[1]
      BY <1>1, <3>1 DEF Recv, QueueInOrder, Healthy, Writing
    <3>4. \A i \in 1..Len(chan') : accepted[Len(disk) + 1 + i] = chan'[i]
      <4>1. TAKE i \in 1..Len(chan')
      <4>2. i + 1 \in 1..Len(chan) /\ chan'[i] = chan[i + 1]
        BY <1>1, <3>1, <3>2 DEF Recv, TypeOK
      <4>3. accepted[Len(disk) + (i + 1)] = chan[i + 1]
        BY <1>1, <4>2 DEF Recv, TypeOK, QueueInOrder, Healthy, Writing
      <4> QED BY <4>2, <4>3 DEF TypeOK
    <3> QED BY <1>1, <3>1, <3>2, <3>3, <3>4 DEF Recv, TypeOK, QueueInOrder, Healthy, Writing
  <2>5. CallState'  BY <1>1 DEF Recv, CallState, TypeOK, QueueInOrder
  <2>6. EndsLast'  BY <1>1 DEF Recv, EndsLast, TypeOK
  <2>7. FinalizedMeansRecovered'  BY Zenon, <1>1 DEF Recv, FinalizedMeansRecovered, Recovered
  <2> QED BY <2>1, <2>2, <2>3, <2>4, <2>5, <2>6, <2>7
<1>2. CASE Persist
  <2>1. TypeOK'  BY <1>2 DEF Persist, TypeOK, QueueInOrder
  <2>2. Numbered'  BY <1>2 DEF Persist, Numbered
  <2>3. PersistedInOrder'
    BY <1>2 DEF Persist, PersistedInOrder, TypeOK, QueueInOrder, Healthy, Writing
  <2>4. QueueInOrder'  BY <1>2 DEF Persist, QueueInOrder, TypeOK, PersistedInOrder, Healthy, Writing
  <2>5. CallState'  BY <1>2 DEF Persist, CallState, TypeOK, QueueInOrder
  <2>6. EndsLast'  BY <1>2 DEF Persist, EndsLast, TypeOK
  <2>7. FinalizedMeansRecovered'
    <3>1. ~Recovered
      <4>1. Len(disk) < Len(accepted)
        BY <1>2 DEF Persist, TypeOK, QueueInOrder, Healthy, Writing
      <4> QED BY <4>1, UnwrittenMeansRecovering
    <3> QED BY Zenon, <1>2, <3>1 DEF Persist, FinalizedMeansRecovered
  <2> QED BY <2>1, <2>2, <2>3, <2>4, <2>5, <2>6, <2>7
<1>3. CASE PersistFails
  <2>1. TypeOK'  BY <1>3 DEF PersistFails, TypeOK
  <2>2. Numbered'  BY <1>3 DEF PersistFails, Numbered
  <2>3. PersistedInOrder'  BY <1>3 DEF PersistFails, PersistedInOrder, TypeOK
  <2>4. QueueInOrder'  BY <1>3 DEF PersistFails, QueueInOrder, TypeOK, PersistedInOrder, Healthy, Writing
  <2>5. CallState'  BY <1>3 DEF PersistFails, CallState, TypeOK, QueueInOrder
  <2>6. EndsLast'  BY <1>3 DEF PersistFails, EndsLast, TypeOK
  <2>7. FinalizedMeansRecovered'  BY Zenon, <1>3 DEF PersistFails, FinalizedMeansRecovered, Recovered
  <2> QED BY <2>1, <2>2, <2>3, <2>4, <2>5, <2>6, <2>7
<1>4. CASE DropReceiver
  <2>1. TypeOK'  BY <1>4 DEF DropReceiver, TypeOK
  <2>2. Numbered'  BY <1>4 DEF DropReceiver, Numbered
  <2>3. PersistedInOrder'  BY <1>4 DEF DropReceiver, PersistedInOrder, TypeOK
  <2>4. QueueInOrder'  BY <1>4 DEF DropReceiver, QueueInOrder, TypeOK, PersistedInOrder, Healthy, Writing
  <2>5. CallState'  BY <1>4 DEF DropReceiver, CallState, TypeOK, QueueInOrder
  <2>6. EndsLast'  BY <1>4 DEF DropReceiver, EndsLast, TypeOK
  <2>7. FinalizedMeansRecovered'  BY Zenon, <1>4 DEF DropReceiver, FinalizedMeansRecovered, Recovered
  <2> QED BY <2>1, <2>2, <2>3, <2>4, <2>5, <2>6, <2>7
<1>5. CASE DiscardQueued
  <2>1. TypeOK'  BY <1>5 DEF DiscardQueued, TypeOK
  <2>2. Numbered'  BY <1>5 DEF DiscardQueued, Numbered
  <2>3. PersistedInOrder'  BY <1>5 DEF DiscardQueued, PersistedInOrder, TypeOK
  <2>4. QueueInOrder'  BY <1>5 DEF DiscardQueued, QueueInOrder, TypeOK, PersistedInOrder, Healthy, Writing
  <2>5. CallState'  BY <1>5 DEF DiscardQueued, CallState, TypeOK, QueueInOrder
  <2>6. EndsLast'  BY <1>5 DEF DiscardQueued, EndsLast, TypeOK
  <2>7. FinalizedMeansRecovered'  BY Zenon, <1>5 DEF DiscardQueued, FinalizedMeansRecovered, Recovered
  <2> QED BY <2>1, <2>2, <2>3, <2>4, <2>5, <2>6, <2>7
<1>6. CASE ExitWithError
  <2>1. TypeOK'  BY <1>6 DEF ExitWithError, TypeOK
  <2>2. Numbered'  BY <1>6 DEF ExitWithError, Numbered
  <2>3. PersistedInOrder'  BY <1>6 DEF ExitWithError, PersistedInOrder, TypeOK
  <2>4. QueueInOrder'  BY <1>6 DEF ExitWithError, QueueInOrder, TypeOK, PersistedInOrder, Healthy, Writing
  <2>5. CallState'  BY <1>6 DEF ExitWithError, CallState, TypeOK, QueueInOrder
  <2>6. EndsLast'  BY <1>6 DEF ExitWithError, EndsLast, TypeOK
  <2>7. FinalizedMeansRecovered'  BY Zenon, <1>6 DEF ExitWithError, FinalizedMeansRecovered, Recovered
  <2> QED BY <2>1, <2>2, <2>3, <2>4, <2>5, <2>6, <2>7
<1>7. CASE ExitNormally
  <2>1. TypeOK'  BY <1>7 DEF ExitNormally, TypeOK
  <2>2. Numbered'  BY <1>7 DEF ExitNormally, Numbered
  <2>3. PersistedInOrder'  BY <1>7 DEF ExitNormally, PersistedInOrder, TypeOK
  <2>4. QueueInOrder'  BY <1>7 DEF ExitNormally, QueueInOrder, TypeOK, PersistedInOrder, Healthy, Writing
  <2>5. CallState'  BY <1>7 DEF ExitNormally, CallState, TypeOK, QueueInOrder
  <2>6. EndsLast'  BY <1>7 DEF ExitNormally, EndsLast, TypeOK
  <2>7. FinalizedMeansRecovered'  BY Zenon, <1>7 DEF ExitNormally, FinalizedMeansRecovered, Recovered
  <2> QED BY <2>1, <2>2, <2>3, <2>4, <2>5, <2>6, <2>7
<1>8. CASE test_stop_processing
  <2>1. TypeOK'  BY <1>8 DEF test_stop_processing, TypeOK
  <2>2. Numbered'  BY <1>8 DEF test_stop_processing, Numbered
  <2>3. PersistedInOrder'  BY <1>8 DEF test_stop_processing, PersistedInOrder, TypeOK
  <2>4. QueueInOrder'  BY <1>8 DEF test_stop_processing, QueueInOrder, TypeOK, PersistedInOrder, Healthy, Writing
  <2>5. CallState'  BY <1>8 DEF test_stop_processing, CallState, TypeOK, QueueInOrder
  <2>6. EndsLast'  BY <1>8 DEF test_stop_processing, EndsLast, TypeOK
  <2>7. FinalizedMeansRecovered'  BY Zenon, <1>8 DEF test_stop_processing, FinalizedMeansRecovered, Recovered
  <2> QED BY <2>1, <2>2, <2>3, <2>4, <2>5, <2>6, <2>7
<1> QED BY <1>1, <1>2, <1>3, <1>4, <1>5, <1>6, <1>7, <1>8 DEF run_persistence

\* What apply_patch submits is a command numbered after the accepted ones.
LEMMA NewCommandIsNext ==
  ASSUME TypeOK, NEW kind \in Kinds, NEW nodes \in SUBSET NodeKeys, NEW recovering \in BOOLEAN
  PROVE  /\ NewCommand(kind, nodes, recovering) \in Command
         /\ NewCommand(kind, nodes, recovering).id = Len(accepted) + 1
         /\ NewCommand(kind, nodes, recovering).recovering = recovering
BY DEF NewCommand, Command, TypeOK

\* Accepting a patch while the tree is being recovered extends the log by it.
LEMMA AppendAccepted ==
  ASSUME IndInv, NEW c \in Command, c.id = Len(accepted) + 1, db # "closed", pc # "final_join",
         accepted' = Append(accepted, c)
  PROVE  /\ accepted' \in Seq(Command)
         /\ Len(accepted) \in Nat /\ Len(accepted') = Len(accepted) + 1
         /\ \A i \in 1..Len(accepted) : accepted'[i] = accepted[i]
         /\ accepted'[Len(accepted) + 1] = c
         /\ \A i \in 1..Len(accepted') : accepted'[i].id = i
         /\ \A i \in 1..Len(accepted') - 1 : accepted'[i].recovering
<1>1. /\ accepted' \in Seq(Command)
      /\ Len(accepted) \in Nat /\ Len(accepted') = Len(accepted) + 1
      /\ \A i \in 1..Len(accepted) : accepted'[i] = accepted[i]
      /\ accepted'[Len(accepted) + 1] = c
  BY DEF IndInv, TypeOK
<1>2. \A i \in 1..Len(accepted') : accepted'[i].id = i
  BY <1>1 DEF IndInv, Numbered
<1>3. \A i \in 1..Len(accepted) : accepted[i].recovering
  <2>1. TAKE i \in 1..Len(accepted)
  <2>2. CASE i = Len(accepted)
    BY <1>1, <2>2 DEF IndInv, EndsLast, Final, TypeOK
  <2>3. CASE i # Len(accepted)
    BY <1>1, <2>3 DEF IndInv, EndsLast
  <2> QED BY <2>2, <2>3
<1> QED BY <1>1, <1>2, <1>3

\* A write of the sequential database preserves the invariant.
LEMMA SeqWriteIndInv ==
  ASSUME IndInv, NEW c \in Command, c.id = Len(accepted) + 1, c.recovering,
         db = "seq", Idle, SeqWrite(c), pc' \in {"idle", "final_write"},
         UNCHANGED <<db, cmd, commands, persistence_handle, senders, threadVars, sessions, finalized>>,
         result' \in {"none", "ok", "err"}
  PROVE  IndInv'
<1> USE DEF IndInv, threadVars, SeqWrite, Idle
<1> DEFINE A == Append(accepted, c)
<1>1. disk = accepted /\ disk' = accepted' /\ thread \in {"none", "exited_ok", "exited_err"}
  BY DEF CallState
<1>2. /\ accepted' \in Seq(Command)
      /\ Len(accepted) \in Nat /\ Len(accepted') = Len(accepted) + 1
      /\ \A i \in 1..Len(accepted) : accepted'[i] = accepted[i]
      /\ accepted'[Len(accepted) + 1] = c
      /\ \A i \in 1..Len(accepted') : accepted'[i].id = i
      /\ \A i \in 1..Len(accepted') - 1 : accepted'[i].recovering
  BY AppendAccepted
<1>3. TypeOK'  BY <1>1, <1>2 DEF TypeOK
<1>4. commands = {} /\ cmd = NoCmd  BY DEF CallState
<1>5. Numbered'  BY <1>2, <1>4 DEF Numbered
<1>6. PersistedInOrder'  BY <1>1, <1>2 DEF PersistedInOrder
<1>7. QueueInOrder'  BY <1>1 DEF QueueInOrder, Healthy
<1>8. CallState'  BY <1>1, <1>2, <1>4 DEF CallState
<1>9. EndsLast'  BY <1>2, <1>4 DEF EndsLast, Final
<1>10. FinalizedMeansRecovered'
  <2>1. ~Recovered  BY <1>1 DEF Recovered, EndsLast
  <2> QED BY <2>1 DEF FinalizedMeansRecovered
<1> QED BY <1>3, <1>5, <1>6, <1>7, <1>8, <1>9, <1>10

\* Collecting the buffer and starting to send preserve the invariant.
LEMMA ApplyPatchIndInv ==
  ASSUME IndInv, NEW c \in Command, c.id = Len(accepted) + 1, NEW sending,
         \/ sending = "send" /\ c.recovering
         \/ sending = "final_send" /\ ~c.recovering,
         db = "par", pc # "final_join", apply_patch(c, sending),
         UNCHANGED <<sessions, result, finalized>>
  PROVE  IndInv'
<1> USE NoCmdAssumption DEF IndInv, apply_patch, threadVars
<1>1. commands' \subseteq commands  BY DEF Retained
<1>2. TypeOK'  BY <1>1 DEF TypeOK
<1>3. Numbered'  BY <1>1 DEF Numbered
<1>4. PersistedInOrder'  BY DEF PersistedInOrder
<1>5. QueueInOrder'  BY DEF QueueInOrder, Healthy, Writing
<1>6. CallState'  BY DEF CallState
<1>7. EndsLast'  BY <1>1 DEF EndsLast, Final
<1>8. FinalizedMeansRecovered'  BY DEF FinalizedMeansRecovered, Recovered
<1> QED BY <1>2, <1>3, <1>4, <1>5, <1>6, <1>7, <1>8

\* Handing a patch to the persistence thread preserves the invariant.
LEMMA SendIndInv ==
  ASSUME IndInv, NEW sending, NEW next,
         \/ sending = "send" /\ next = "idle"
         \/ sending = "final_send" /\ next = "final_join",
         SendOk(sending, next), UNCHANGED <<sessions, finalized>>, result' \in {"none", "ok", "err"}
  PROVE  IndInv'
<1> USE NoCmdAssumption DEF IndInv, SendOk
<1>1. /\ cmd \in Command /\ cmd.id = Len(accepted) + 1
      /\ db = "par" /\ disk # <<>>
      /\ thread \in {"recv", "apply", "failing"}
  BY DEF TypeOK, CallState, Numbered, Connected
<1>2. /\ accepted' \in Seq(Command)
      /\ Len(accepted) \in Nat /\ Len(accepted') = Len(accepted) + 1
      /\ \A i \in 1..Len(accepted) : accepted'[i] = accepted[i]
      /\ accepted'[Len(accepted) + 1] = cmd
      /\ \A i \in 1..Len(accepted') : accepted'[i].id = i
      /\ \A i \in 1..Len(accepted') - 1 : accepted'[i].recovering
  BY <1>1, AppendAccepted
<1>3. TypeOK'  BY <1>1, <1>2 DEF TypeOK
<1>4. Numbered'
  <2>1. \A d \in commands' : \E i \in 1..Len(accepted') : d = accepted'[i]
    <3>1. TAKE d \in commands'
    <3>2. CASE d = cmd  BY <1>2, <3>2
    <3>3. CASE d \in commands
      <4>1. PICK i \in 1..Len(accepted) : d = accepted[i]  BY <3>3 DEF Numbered
      <4> QED BY <1>2, <4>1
    <3> QED BY <3>2, <3>3
  <2> QED BY <1>2, <2>1 DEF Numbered
<1>5. PersistedInOrder'
  BY <1>2 DEF PersistedInOrder, TypeOK
<1>6. QueueInOrder'
  <2>1. CASE Healthy
    <3>1. /\ Writing \in 0..1 /\ Len(disk) \in Nat /\ Len(chan) \in Nat
          /\ Len(accepted) = Len(disk) + Writing + Len(chan)
          /\ Writing' = Writing
      BY <2>1 DEF QueueInOrder, TypeOK, Writing
    <3>2. chan' = Append(chan, cmd) /\ Len(chan') = Len(chan) + 1  BY DEF TypeOK
    <3>3. Len(accepted') = Len(disk') + Writing' + Len(chan')  BY <1>2, <3>1, <3>2
    <3>4. \A i \in 1..Len(chan') : accepted'[Len(disk') + Writing' + i] = chan'[i]
      <4>1. TAKE i \in 1..Len(chan')
      <4>2. CASE i = Len(chan) + 1
        BY <1>2, <3>1, <3>2, <4>2 DEF TypeOK
      <4>3. CASE i \in 1..Len(chan)
        <5>1. Len(disk) + Writing + i \in 1..Len(accepted) /\ chan'[i] = chan[i]
          BY <3>1, <3>2, <4>3 DEF TypeOK
        <5> QED BY <1>2, <2>1, <3>1, <4>3, <5>1 DEF QueueInOrder
      <4>4. i = Len(chan) + 1 \/ i \in 1..Len(chan)
        <5> DEFINE n == Len(chan)
        <5>1. n \in Nat /\ i \in 1..n + 1  BY <3>1, <3>2
        <5> QED BY <5>1
      <4> QED BY Zenon, <4>2, <4>3, <4>4
    <3>5. thread' = "apply" => accepted'[Len(disk') + 1] = current'
      <4>1. SUFFICES ASSUME thread = "apply" PROVE accepted'[Len(disk) + 1] = current  BY Zenon
      <4>2. Len(disk) + 1 \in 1..Len(accepted)  BY <3>1, <4>1 DEF Writing
      <4> QED BY <1>2, <2>1, <4>1, <4>2 DEF QueueInOrder
    <3> QED BY Zenon, <1>1, <3>3, <3>4, <3>5 DEF QueueInOrder
  <2>2. CASE ~Healthy
    BY <1>1, <2>2 DEF QueueInOrder, Healthy
  <2> QED BY <2>1, <2>2
<1>7. CallState'  BY <1>1 DEF CallState
<1>8. EndsLast'
  <2>1. accepted' # <<>> /\ Final(accepted') = cmd  BY <1>2 DEF Final
  <2>2. pc' # "final_join" => \A d \in commands' : d.recovering  BY DEF EndsLast
  <2> QED BY <1>2, <2>1, <2>2 DEF EndsLast
<1>9. FinalizedMeansRecovered'  BY DEF FinalizedMeansRecovered, Recovered
<1> QED BY <1>3, <1>4, <1>5, <1>6, <1>7, <1>8, <1>9

\* Dropping the recovery object, as every failed consuming call does, preserves the
\* invariant.
LEMMA DropIndInv ==
  ASSUME IndInv, Drop, UNCHANGED <<disk, accepted, threadVars, sessions>>,
         result' \in {"none", "ok", "err"}, finalized' \in BOOLEAN, finalized' => Recovered
  PROVE  IndInv'
<1> USE DEF IndInv, Drop, threadVars
<1>1. TypeOK'
  <2>1. finalized' \in BOOLEAN  OBVIOUS
  <2> QED BY <2>1 DEF TypeOK
<1>2. Numbered' /\ PersistedInOrder'  BY DEF Numbered, PersistedInOrder
<1>3. QueueInOrder'  BY DEF QueueInOrder, Healthy, Writing
<1>4. CallState'  BY DEF CallState
<1>5. EndsLast'  BY DEF EndsLast, Final
<1>6. FinalizedMeansRecovered'  BY DEF FinalizedMeansRecovered, Recovered
<1> QED BY <1>1, <1>2, <1>3, <1>4, <1>5, <1>6

\* A step that changes neither the store, nor the log, nor what is submitted.
LEMMA QuietIndInv ==
  ASSUME IndInv, UNCHANGED <<disk, accepted, db, cmd, threadVars, sessions, finalized>>,
         commands' \subseteq commands, senders' \subseteq senders,
         persistence_handle' \in {persistence_handle, "err"}, persistence_handle = "nothing" => persistence_handle' = "nothing",
         result' \in {"none", "ok", "err"},
         \/ pc' = pc
         \/ db = "seq" /\ pc = "idle" /\ pc' = "final_write"
         \/ db = "par" /\ pc = "idle" /\ pc' \in {"prune", "join"}
  PROVE  IndInv'
<1> USE DEF IndInv, threadVars
<1>1. TypeOK'  BY DEF TypeOK
<1>2. Numbered' /\ PersistedInOrder'  BY DEF Numbered, PersistedInOrder
<1>3. QueueInOrder'  BY DEF QueueInOrder, Healthy, Writing
<1>4. CallState'  BY DEF CallState
<1>5. EndsLast'  BY DEF EndsLast, Final
<1>6. FinalizedMeansRecovered'  BY DEF FinalizedMeansRecovered, Recovered
<1> QED BY <1>1, <1>2, <1>3, <1>4, <1>5, <1>6

\* Opening the database preserves the invariant: what was not persisted is forgotten.
LEMMA OpenIndInv ==
  ASSUME IndInv, with_hasher
  PROVE  IndInv'
<1> USE NoCmdAssumption DEF IndInv, threadVars, with_hasher, Idle
<1> DEFINE first == [id |-> Len(disk) + 1, kind |-> "manifest", nodes |-> {}, recovering |-> TRUE]
<1>1. /\ disk \in Seq(Command) /\ Len(disk) \in Nat /\ Len(disk) <= Len(accepted)
      /\ \A i \in 1..Len(disk) : disk[i] = accepted[i]
      /\ \A i \in 1..Len(disk) : disk[i].id = i
      /\ \A i \in 1..Len(disk) - 1 : disk[i].recovering
      /\ commands = {} /\ cmd = NoCmd /\ ~Healthy /\ thread # "apply"
  <2>1. disk \in Seq(Command) /\ Len(disk) \in Nat /\ Len(accepted) \in Nat  BY DEF TypeOK
  <2>2. Len(disk) <= Len(accepted) /\ \A i \in 1..Len(disk) : disk[i] = accepted[i]
    BY <2>1 DEF PersistedInOrder
  <2>3. \A i \in 1..Len(disk) : disk[i].id = i  BY <2>1, <2>2 DEF Numbered
  <2>4. \A i \in 1..Len(disk) - 1 : disk[i].recovering  BY <2>1, <2>2 DEF EndsLast
  <2>5. commands = {} /\ cmd = NoCmd  BY DEF CallState
  <2>6. ~Healthy /\ thread # "apply"  BY DEF Healthy, ThreadFinished
  <2> QED BY <2>1, <2>2, <2>3, <2>4, <2>5, <2>6
<1>2. sessions' \in Nat /\ result' \in {"none", "ok", "err"}  BY DEF TypeOK
<1>3. CASE disk # <<>> /\ ~Final(disk).recovering
  <2>1. UNCHANGED <<disk, accepted, mainVars, threadVars, finalized>>  BY <1>3 DEF mainVars
  <2>2. TypeOK'  BY <1>2, <2>1 DEF mainVars, TypeOK
  <2> QED BY <2>1, <2>2 DEF mainVars, Numbered, PersistedInOrder, QueueInOrder, Healthy, Writing,
                            CallState, EndsLast, Final, FinalizedMeansRecovered, Recovered
<1>4. CASE ~(disk # <<>> /\ ~Final(disk).recovering)
  <2>0. \A i \in 1..Len(disk) : disk[i].recovering
    <3>1. TAKE i \in 1..Len(disk)
    <3>2. CASE i = Len(disk)  BY <1>1, <1>4, <3>2 DEF Final
    <3>3. CASE i # Len(disk)  BY <1>1, <3>3
    <3> QED BY <3>2, <3>3
  <2>1. ~finalized /\ UNCHANGED finalized  BY <1>4 DEF FinalizedMeansRecovered, Recovered
  <2>2. CASE disk' = Append(disk, first) /\ accepted' = Append(disk, first) /\ db' = "seq"
    <3>1. first \in Command /\ first.id = Len(disk) + 1 /\ first.recovering
      BY <1>1 DEF Command, Kinds
    <3> HIDE DEF first
    <3>2. /\ accepted' \in Seq(Command) /\ disk' = accepted' /\ disk' # <<>>
          /\ Len(accepted') = Len(disk) + 1
          /\ \A i \in 1..Len(disk) : accepted'[i] = disk[i]
          /\ accepted'[Len(disk) + 1] = first
      BY <1>1, <2>2, <3>1
    <3>3. TypeOK'  BY <1>2, <2>2, <3>2 DEF TypeOK
    <3>4. Numbered' /\ PersistedInOrder'
      BY <1>1, <3>1, <3>2 DEF Numbered, PersistedInOrder
    <3>5. QueueInOrder'  BY <1>1, <3>2 DEF QueueInOrder, Healthy
    <3>6. CallState'  BY <1>1, <2>2, <3>2 DEF CallState, ThreadFinished
    <3>7. EndsLast'  BY <1>1, <2>0, <3>1, <3>2 DEF EndsLast, Final
    <3> QED BY <2>1, <3>3, <3>4, <3>5, <3>6, <3>7 DEF FinalizedMeansRecovered
  <2>3. CASE disk' = disk /\ accepted' = disk /\ db' = db
    <3>1. TypeOK'  BY <1>2, <2>3 DEF TypeOK
    <3>2. Numbered' /\ PersistedInOrder'  BY <1>1, <2>3 DEF Numbered, PersistedInOrder
    <3>3. QueueInOrder'  BY <1>1, <2>3 DEF QueueInOrder, Healthy
    <3>4. CallState'  BY <1>1, <2>3 DEF CallState
    <3>5. EndsLast'  BY <1>1, <2>3, <2>0 DEF EndsLast, Final
    <3> QED BY <2>1, <3>1, <3>2, <3>3, <3>4, <3>5 DEF FinalizedMeansRecovered
  <2> QED BY <1>4, <2>2, <2>3
<1> QED BY <1>3, <1>4

\* The calls of the application preserve the invariant.
LEMMA CallIndInv ==
  ASSUME IndInv, Call
  PROVE  IndInv'
<1> USE DEF mainVars, Return
<1>1. CASE with_hasher  BY <1>1, OpenIndInv
<1>2. CASE db = "seq" /\ Idle /\ parallelize /\ Return("ok")
  <2> USE <1>2 DEF parallelize, Idle, IndInv
  <2>1. disk = accepted /\ disk # <<>> /\ cmd = NoCmd  BY DEF CallState
  <2>2. TypeOK'  BY DEF TypeOK
  <2>3. Numbered' /\ PersistedInOrder'  BY DEF Numbered, PersistedInOrder
  <2>4. QueueInOrder'  BY <2>1 DEF QueueInOrder, Healthy, Writing, TypeOK
  <2>5. CallState'  BY <2>1 DEF CallState
  <2>6. EndsLast'  BY DEF EndsLast, Final
  <2>7. FinalizedMeansRecovered'  BY DEF FinalizedMeansRecovered, Recovered
  <2> QED BY <2>2, <2>3, <2>4, <2>5, <2>6, <2>7
<1>3. ASSUME NEW nodes \in SUBSET NodeKeys, NEW kind \in Kinds, Idle,
             NEW c, c = NewCommand(kind, nodes, try_manifest), db # "closed",
             \/ /\ db = "seq" /\ SeqWrite(c)
                /\ UNCHANGED <<mainVars, threadVars>> /\ Return("ok")
             \/ SeqWriteFails
             \/ /\ db = "par" /\ apply_patch(c, "send")
                /\ UNCHANGED <<sessions, result, finalized>>
             \/ /\ db = "par" /\ UNCHANGED <<disk, accepted, mainVars, threadVars>>
                /\ Return("err")
      PROVE  IndInv'
  <2>1. try_manifest = TRUE  BY <1>3, ManifestIsRecovering
  <2>2. c \in Command /\ c.id = Len(accepted) + 1 /\ c.recovering
    <3>1. TypeOK /\ TRUE \in BOOLEAN  BY DEF IndInv
    <3> QED BY Zenon, <1>3, <2>1, <3>1, NewCommandIsNext
  <2>3. CASE db = "seq" /\ SeqWrite(c) /\ UNCHANGED <<mainVars, threadVars>> /\ Return("ok")
    <3>1. pc' \in {"idle", "final_write"}  BY <1>3, <2>3 DEF Idle
    <3> QED BY <1>3, <2>2, <2>3, <3>1, SeqWriteIndInv
  <2>4. CASE SeqWriteFails  BY <2>4, QuietIndInv DEF SeqWriteFails
  <2>5. CASE db = "par" /\ apply_patch(c, "send") /\ UNCHANGED <<sessions, result, finalized>>
    BY <1>3, <2>2, <2>5, ApplyPatchIndInv DEF Idle
  <2>6. CASE UNCHANGED <<disk, accepted, mainVars, threadVars>> /\ Return("err")
    BY <2>6, QuietIndInv
  <2> QED BY <1>3, <2>3, <2>4, <2>5, <2>6
<1>4. CASE update_custom_tags
  <2>1. {} \in SUBSET NodeKeys /\ "manifest" \in Kinds  BY DEF Kinds
  <2>2. Idle /\ db # "closed"  BY <1>4 DEF update_custom_tags, SeqWriteFails
  <2> QED BY <1>3, <1>4, <2>1, <2>2 DEF update_custom_tags
<1>5. ASSUME NEW nodes \in SUBSET NodeKeys, extend(nodes) PROVE IndInv'
  <2>1. ChunkKind(nodes) \in Kinds  BY DEF ChunkKind, Kinds
  <2>2. Idle /\ db # "closed"  BY <1>5 DEF extend, SeqWriteFails
  <2> QED BY <1>3, <1>5, <2>1, <2>2 DEF extend
<1>6. CASE finalize
  <2>1. CASE UNCHANGED <<disk, accepted, db, cmd, commands, persistence_handle, senders, threadVars, sessions, result, finalized>>
    <3>1. result' \in {"none", "ok", "err"}  BY <2>1 DEF IndInv, TypeOK
    <3>2. pc = "idle" /\ pc' = (IF db = "seq" THEN "final_write" ELSE "prune") /\ db \in {"seq", "par"}
      BY Zenon, <1>6, <2>1 DEF finalize, Idle, SeqWrite, FailConsuming, Drop, IndInv, TypeOK
    <3> QED BY <2>1, <3>1, <3>2, QuietIndInv
  <2>2. CASE /\ db = "seq" /\ SeqWrite(NewCommand("empty_root", {}, TRUE)) /\ pc' = "final_write"
             /\ UNCHANGED <<db, cmd, commands, persistence_handle, senders, threadVars, sessions, result, finalized>>
    <3> DEFINE c == NewCommand("empty_root", {}, TRUE)
    <3>1. TypeOK /\ TRUE \in BOOLEAN /\ {} \in SUBSET NodeKeys /\ "empty_root" \in Kinds
      BY DEF IndInv, Kinds
    <3>2. c \in Command /\ c.id = Len(accepted) + 1 /\ c.recovering  BY Zenon, <3>1, NewCommandIsNext
    <3>3. Idle /\ result' \in {"none", "ok", "err"}  BY <1>6, <2>2 DEF finalize, IndInv, TypeOK
    <3> HIDE DEF c
    <3> QED BY Zenon, <2>2, <3>2, <3>3, SeqWriteIndInv DEF c
  <2>3. CASE FailConsuming /\ UNCHANGED <<disk, accepted, threadVars>>
    BY <2>3, DropIndInv DEF FailConsuming, IndInv, TypeOK, FinalizedMeansRecovered
  <2> QED BY Zenon, <1>6, <2>1, <2>2, <2>3 DEF finalize
<1>7. CASE wait_for_persistence
  <2>1. CASE db = "seq"
    BY <1>7, <2>1, DropIndInv DEF wait_for_persistence, IndInv, TypeOK, FinalizedMeansRecovered
  <2>2. CASE db = "par"
    <3>1. pc' = "join" /\ result' \in {"none", "ok", "err"}
      BY <1>7, <2>2 DEF wait_for_persistence, IndInv, TypeOK
    <3> QED BY <1>7, <2>2, <3>1, QuietIndInv DEF wait_for_persistence, Idle
  <2> QED BY <1>7, <2>1, <2>2 DEF wait_for_persistence
<1>8. CASE Abandon
  BY <1>8, DropIndInv DEF Abandon, IndInv, TypeOK, FinalizedMeansRecovered
<1>9. CASE parallelize_persistence
  <2>1. CASE db = "par"  BY <1>9, <2>1, QuietIndInv DEF parallelize_persistence
  <2> QED BY <1>2, <1>9, <2>1 DEF parallelize_persistence
<1> QED BY <1>1, <1>4, <1>5, <1>6, <1>7, <1>8, <1>9 DEF Call

\* The steps that carry a call to its end preserve the invariant.
LEMMA ContinueIndInv ==
  ASSUME IndInv, Continue
  PROVE  IndInv'
<1> USE DEF mainVars, Return
<1>1. CASE Send  BY <1>1, SendIndInv DEF Send
<1>2. CASE FinalSend
  <2>1. result' \in {"none", "ok", "err"}  BY <1>2 DEF FinalSend, IndInv, TypeOK
  <2> QED BY <1>2, <2>1, SendIndInv DEF FinalSend
<1>3. CASE SendFails
  <2> USE <1>3 DEF SendFails, SendErr, FailBorrowing, IndInv, threadVars
  <2>1. db = "par"  BY DEF CallState
  <2>2. TypeOK'  BY DEF TypeOK
  <2>3. Numbered' /\ PersistedInOrder'  BY DEF Numbered, PersistedInOrder
  <2>4. QueueInOrder'  BY DEF QueueInOrder, Healthy, Writing
  <2>5. CallState'  BY <2>1 DEF CallState
  <2>6. EndsLast'  BY DEF EndsLast, Final
  <2>7. FinalizedMeansRecovered'  BY DEF FinalizedMeansRecovered, Recovered
  <2> QED BY <2>2, <2>3, <2>4, <2>5, <2>6, <2>7
<1>4. CASE FailConsuming /\ UNCHANGED <<disk, accepted, threadVars>>
  BY <1>4, DropIndInv DEF FailConsuming, IndInv, TypeOK, FinalizedMeansRecovered
<1>5. CASE FinalWriteFails \/ PruneFails \/ InnerPruneFails \/ FinalSendFails
  BY <1>4, <1>5 DEF FinalWriteFails, PruneFails, InnerPruneFails, FinalSendFails, SyncErr, SendErr
<1>6. CASE FinalWrite
  <2> USE <1>6 DEF FinalWrite, SeqWrite, Drop, threadVars
  <2> DEFINE c == FinalCommand
  <2>1. c \in Command /\ c.id = Len(accepted) + 1 /\ c.recovering = FALSE
    <3>1. TypeOK /\ FALSE \in BOOLEAN /\ {} \in SUBSET NodeKeys /\ "manifest" \in Kinds
      BY DEF IndInv, Kinds
    <3> QED BY Zenon, <3>1, NewCommandIsNext DEF FinalCommand
  <2> HIDE DEF c
  <2>2. db = "seq" /\ disk' = accepted' /\ thread \in {"none", "exited_ok", "exited_err"}
    BY DEF IndInv, CallState, c
  <2>3. /\ accepted' \in Seq(Command)
        /\ Len(accepted) \in Nat /\ Len(accepted') = Len(accepted) + 1
        /\ accepted'[Len(accepted) + 1] = c
        /\ \A i \in 1..Len(accepted') : accepted'[i].id = i
        /\ \A i \in 1..Len(accepted') - 1 : accepted'[i].recovering
    <3>1. accepted' = Append(accepted, c) /\ db # "closed" /\ pc # "final_join"  BY <2>2 DEF c
    <3> QED BY <2>1, <3>1, AppendAccepted
  <2>4. disk' # <<>> /\ Final(disk') = c  BY <2>2, <2>3 DEF Final
  <2>5. TypeOK'
    <3>1. finalized' \in BOOLEAN  OBVIOUS
    <3> QED BY <2>2, <2>3, <3>1 DEF IndInv, TypeOK
  <2>6. Numbered' /\ PersistedInOrder'  BY <2>2, <2>3 DEF Numbered, PersistedInOrder
  <2>7. QueueInOrder'  BY <2>2 DEF IndInv, QueueInOrder, Healthy
  <2>8. CallState'  BY DEF CallState
  <2>9. EndsLast'  BY <2>1, <2>2, <2>3, <2>4 DEF EndsLast
  <2>10. FinalizedMeansRecovered'  BY <2>1, <2>4 DEF FinalizedMeansRecovered, Recovered
  <2> QED BY <2>5, <2>6, <2>7, <2>8, <2>9, <2>10 DEF IndInv
<1>7. CASE PruneWaits
  <2>1. result' \in {"none", "ok", "err"} /\ commands' \subseteq commands
    BY <1>7 DEF PruneWaits, WaitSync, Retained, IndInv, TypeOK
  <2> QED BY <1>7, <2>1, QuietIndInv DEF PruneWaits, WaitSync
<1>8. CASE Prune
  <2>1. TypeOK /\ FALSE \in BOOLEAN /\ {} \in SUBSET NodeKeys /\ "manifest" \in Kinds
    BY DEF IndInv, Kinds
  <2>2. FinalCommand \in Command /\ FinalCommand.id = Len(accepted) + 1 /\ ~FinalCommand.recovering
    BY Zenon, <2>1, NewCommandIsNext DEF FinalCommand
  <2>3. db = "par" /\ pc = "prune"  BY <1>8 DEF Prune, SyncOk, IndInv, CallState
  <2> QED BY <1>8, <2>2, <2>3, ApplyPatchIndInv DEF Prune
<1>9. CASE DropSender
  <2>1. result' \in {"none", "ok", "err"} /\ commands' \subseteq commands /\ senders' \subseteq senders
    BY <1>9 DEF DropSender, IndInv, TypeOK
  <2> QED BY <1>9, <2>1, QuietIndInv DEF DropSender
<1>10. CASE Join
  <2>1. CASE persistence_handle = "handle" /\ thread = "exited_ok" /\ pc = "final_join"
    <3>1. Recovered  BY <2>1 DEF IndInv, QueueInOrder, EndsLast, Recovered
    <3>2. finalized' \in BOOLEAN /\ result' \in {"none", "ok", "err"}  BY <1>10, <2>1 DEF Join
    <3> QED BY <1>10, <3>1, <3>2, DropIndInv DEF Join
  <2>2. CASE ~(persistence_handle = "handle" /\ thread = "exited_ok" /\ pc = "final_join")
    <3>1. finalized' = finalized /\ result' \in {"none", "ok", "err"}
      BY <1>10, <2>2 DEF Join, IndInv, TypeOK
    <3>2. finalized' \in BOOLEAN /\ (finalized' => Recovered)
      BY <3>1 DEF IndInv, TypeOK, FinalizedMeansRecovered
    <3> QED BY <1>10, <3>1, <3>2, DropIndInv DEF Join
  <2> QED BY <2>1, <2>2
<1> QED BY <1>1, <1>2, <1>3, <1>5, <1>6, <1>7, <1>8, <1>9, <1>10 DEF Continue

\* A crash leaves a prefix of the accepted patches, whatever the threads were doing.
LEMMA CrashIndInv ==
  ASSUME IndInv, Crash
  PROVE  IndInv'
<1> USE DEF IndInv, Crash
<1>1. disk \in Seq(Command) /\ Len(disk) \in Nat /\ Len(accepted) \in Nat  BY DEF TypeOK
<1>2. Len(disk) <= Len(accepted) /\ \A i \in 1..Len(disk) : disk[i] = accepted[i]
  BY <1>1 DEF PersistedInOrder
<1>3. TypeOK'  BY DEF TypeOK
<1>4. Numbered'  BY <1>1, <1>2 DEF Numbered
<1>5. PersistedInOrder' /\ QueueInOrder' /\ CallState'
  BY <1>1 DEF PersistedInOrder, QueueInOrder, Healthy, CallState
<1>6. EndsLast'  BY <1>1, <1>2 DEF EndsLast
<1>7. FinalizedMeansRecovered'  BY DEF FinalizedMeansRecovered, Recovered
<1> QED BY <1>3, <1>4, <1>5, <1>6, <1>7

\* Every step preserves the invariant.
LEMMA NextIndInv == IndInv /\ [Next]_vars => IndInv'
<1> SUFFICES ASSUME IndInv, [Next]_vars PROVE IndInv'  OBVIOUS
<1>1. CASE DropHandle
  <2>1. result' \in {"none", "ok", "err"} /\ senders' \subseteq senders
    BY <1>1 DEF DropHandle, IndInv, TypeOK
  <2> QED BY <1>1, <2>1, QuietIndInv DEF DropHandle
<1>2. CASE UNCHANGED vars
  <2>1. result' \in {"none", "ok", "err"}  BY <1>2 DEF vars, IndInv, TypeOK
  <2> QED BY <1>2, <2>1, QuietIndInv DEF vars, mainVars
<1> QED BY <1>1, <1>2, CallIndInv, ContinueIndInv, ThreadIndInv, CrashIndInv DEF Next, Done

\* The invariant holds in every reachable state.
THEOREM InvariantHolds == Spec => []IndInv
BY InitIndInv, NextIndInv, PTL DEF Spec

\* The variables of tree recovery always have their types.
THEOREM TypeCorrect == Spec => []TypeOK
<1>1. IndInv => TypeOK  BY DEF IndInv
<1> QED BY <1>1, InvariantHolds, PTL

\* For every number of patches and every channel capacity, and after every failure or
\* crash, the store holds a prefix of the patches that apply_patch accepted.
THEOREM OrderedPersistence == Spec => []PersistedInOrder
<1>1. IndInv => PersistedInOrder  BY DEF IndInv
<1> QED BY <1>1, InvariantHolds, PTL

\* A sequence is determined by its length and its elements.
LEMMA SameElements ==
  ASSUME NEW S, NEW s \in Seq(S), NEW t \in Seq(S), Len(s) = Len(t),
         \A i \in 1..Len(s) : s[i] = t[i]
  PROVE  s = t
OBVIOUS

\* A store that is marked as recovered is complete.
LEMMA RecoveredIsComplete == IndInv => RecoveredMeansComplete
<1> SUFFICES ASSUME IndInv, Recovered PROVE disk = accepted  BY DEF RecoveredMeansComplete
<1>1. disk \in Seq(Command) /\ accepted \in Seq(Command) /\ Len(disk) \in Nat /\ Len(accepted) \in Nat
  BY DEF IndInv, TypeOK
<1>2. Len(disk) = Len(accepted)
  BY <1>1, UnwrittenMeansRecovering DEF IndInv, PersistedInOrder
<1> QED BY <1>1, <1>2, SameElements DEF IndInv, PersistedInOrder

\* A store whose manifest says that recovery is over holds every accepted patch.
THEOREM RecoveryIsComplete == Spec => []RecoveredMeansComplete
BY RecoveredIsComplete, InvariantHolds, PTL

\* finalize() returns Ok only for a store that is marked as recovered.
THEOREM FinalizeIsHonest == Spec => []FinalizedMeansRecovered
<1>1. IndInv => FinalizedMeansRecovered  BY DEF IndInv
<1> QED BY <1>1, InvariantHolds, PTL

\* Every step of recovery is a step of the durable log.
LEMMA StepsOfDurableLog ==
  ASSUME IndInv, [Next]_vars
  PROVE  [Log!Next]_<<accepted, disk>>
<1>1. /\ disk \in Seq(Command) /\ accepted \in Seq(Command)
      /\ Len(disk) \in Nat /\ Len(accepted) \in Nat
  BY DEF IndInv, TypeOK
<1>2. CASE UNCHANGED <<disk, accepted>>  BY <1>2
<1>3. ASSUME NEW c, SeqWrite(c), db = "seq", pc # "final_join"
      PROVE  Log!Write
  <2>1. disk = accepted  BY <1>3 DEF IndInv, CallState
  <2>2. ~Log!Closed(disk)
    BY <1>3, <2>1 DEF IndInv, EndsLast, Log!Closed, Final
  <2> QED BY <1>1, <1>3, <2>1, <2>2 DEF Log!Write, Log!OneMore, SeqWrite
<1>4. CASE with_hasher
  <2>1. CASE disk # <<>> /\ ~Final(disk).recovering  BY <1>2, <1>4, <2>1 DEF with_hasher
  <2>2. CASE ~(disk # <<>> /\ ~Final(disk).recovering)
    <3> DEFINE first == [id |-> Len(disk) + 1, kind |-> "manifest", nodes |-> {}, recovering |-> TRUE]
    <3>1. CASE disk' = Append(disk, first) /\ accepted' = Append(disk, first)
      <4> HIDE DEF first
      <4>1. Log!OneMore(disk', disk) /\ accepted' = disk'
        BY <1>1, <3>1 DEF Log!OneMore
      <4> QED BY <2>2, <4>1 DEF Log!Next, Log!Write, Log!Closed, Final
    <3>2. CASE accepted' = disk /\ disk' = disk  BY <3>2 DEF Log!Next, Log!Forget
    <3> QED BY <1>4, <2>2, <3>1, <3>2 DEF with_hasher
  <2> QED BY <2>1, <2>2
<1>5. CASE update_custom_tags \/ (\E nodes \in SUBSET NodeKeys : extend(nodes)) \/ finalize
  BY Zenon, <1>2, <1>3, <1>5 DEF update_custom_tags, extend, finalize, SeqWriteFails, apply_patch, Idle, Log!Next
<1>6. CASE FinalWrite
  BY <1>3, <1>6 DEF FinalWrite, IndInv, CallState, Log!Next
<1>7. CASE Send \/ FinalSend
  <2>1. db = "par" /\ pc # "final_join" /\ disk' = disk /\ accepted' = Append(accepted, cmd)
    BY <1>7 DEF Send, FinalSend, SendOk, IndInv, CallState
  <2>2. ~Log!Closed(accepted)  BY <2>1 DEF IndInv, EndsLast, Log!Closed, Final
  <2> QED BY <1>1, <2>1, <2>2 DEF Log!Next, Log!Accept, Log!OneMore
<1>8. CASE Persist
  BY <1>1, <1>8 DEF Persist, IndInv, QueueInOrder, Healthy, Writing, TypeOK, Log!Next, Log!Persist
<1>9. CASE Crash  BY <1>9 DEF Crash, Log!Next, Log!Forget
<1>10. CASE parallelize_persistence \/ wait_for_persistence \/ Abandon
  BY <1>2, <1>10 DEF parallelize_persistence, parallelize, wait_for_persistence, Abandon
<1>11. CASE SendFails \/ FinalWriteFails \/ PruneWaits \/ Prune \/ PruneFails \/ InnerPruneFails
            \/ FinalSendFails \/ DropSender \/ Join
  BY <1>2, <1>11 DEF SendFails, FinalWriteFails, PruneWaits, WaitSync, Prune, PruneFails, InnerPruneFails,
     FinalSendFails, DropSender, Join, SendErr, SyncErr, apply_patch
<1>12. CASE Thread \/ StopProcessing
  BY <1>2, <1>8, <1>12 DEF Thread, StopProcessing, run_persistence, Recv, PersistFails, DropReceiver,
     DiscardQueued, ExitWithError, ExitNormally, test_stop_processing
<1>13. CASE DropHandle \/ Done \/ UNCHANGED vars
  BY <1>2, <1>13 DEF DropHandle, Done, vars
<1> QED BY <1>4, <1>5, <1>6, <1>7, <1>9, <1>10, <1>11, <1>12, <1>13 DEF Next, Call, Continue

\* Recovery implements the durable log, with or without background persistence.
THEOREM Refinement == Spec => ImplementsDurableLog
<1>1. Init => Log!Init  BY DEF Init, Log!Init
<1>2. IndInv /\ [Next]_vars => [Log!Next]_<<accepted, disk>>  BY StepsOfDurableLog
<1> QED BY <1>1, <1>2, InvariantHolds, PTL DEF Spec, ImplementsDurableLog, Log!Spec

\* Nothing is written to a store once it is marked as recovered.
THEOREM RecoveredStaysFrozen == Spec => RecoveredIsFrozen
<1>1. IndInv /\ [Next]_vars => [Recovered => disk' = disk]_vars
  <2> SUFFICES ASSUME IndInv, [Next]_vars, Recovered PROVE disk' = disk  OBVIOUS
  <2>1. disk = accepted  BY RecoveredIsComplete DEF RecoveredMeansComplete
  <2>2. Log!Closed(disk) /\ Log!Closed(accepted)  BY <2>1 DEF Recovered, Log!Closed, Final
  <2>3. [Log!Next]_<<accepted, disk>>  BY StepsOfDurableLog
  <2> QED BY <2>1, <2>2, <2>3 DEF Log!Next, Log!Accept, Log!Persist, Log!Write, Log!Forget
<1> QED BY <1>1, InvariantHolds, PTL DEF Spec, RecoveredIsFrozen

\* What is in the store is right, for every number of patches and every channel capacity.
THEOREM PersistenceStaysSound == Spec => []PersistenceIsSound
<1>1. PersistedInOrder /\ RecoveredMeansComplete /\ FinalizedMeansRecovered => PersistenceIsSound
  BY DEF PersistenceIsSound
<1> QED BY <1>1, OrderedPersistence, RecoveryIsComplete, FinalizeIsHonest, PTL

(***************************************************************************)
(* The buffer in front of the store.                                       *)
(***************************************************************************)
\* A set of accepted patches has a latest one, and only one.
LEMMA LatestIsUnique ==
  ASSUME TypeOK, Numbered, NEW S \in SUBSET Range(accepted), S # {}
  PROVE  /\ Latest(S) \in S
         /\ \A d \in S : d.id <= Latest(S).id
         /\ \A c \in S : (\A d \in S : d.id <= c.id) => c = Latest(S)
<1> DEFINE T == {c.id : c \in S}
<1>1. \A c \in S : \E i \in 1..Len(accepted) : c = accepted[i] /\ c.id = i /\ c \in Command
  BY DEF TypeOK, Numbered, Range
<1>2. T \in SUBSET Nat /\ T # {} /\ Len(accepted) \in Nat  BY <1>1 DEF TypeOK, Command
<1>3. \A x \in T : x <= Len(accepted)  BY <1>1
<1>4. PICK m \in T : \A x \in T : x <= m
  <2> HIDE DEF T
  <2> QED BY Zenon, <1>2, <1>3, MaxExists
<1>5. PICK c \in S : c.id = m  OBVIOUS
<1>6. \A d \in S : d.id <= c.id  BY <1>4, <1>5
<1>7. Latest(S) \in S /\ \A d \in S : d.id <= Latest(S).id  BY <1>6 DEF Latest
<1>8. ASSUME NEW e \in S, \A d \in S : d.id <= e.id PROVE e = Latest(S)
  <2>1. e.id <= Latest(S).id /\ Latest(S).id <= e.id  BY <1>7, <1>8
  <2>2. e.id \in Nat /\ Latest(S).id \in Nat  BY <1>1, <1>7 DEF Command
  <2>3. e.id = Latest(S).id  BY <2>1, <2>2
  <2> QED BY <1>1, <1>7, <2>3
<1> QED BY <1>7, <1>8

\* While the thread works, the patches it still shares with the buffer are the
\* accepted ones that are not in the store.
LEMMA SharedIsUnwritten ==
  ASSUME IndInv, Healthy, NEW i \in 1..Len(accepted)
  PROVE  Shared(accepted[i]) <=> i > Len(disk)
<1> USE DEF IndInv
<1>1. /\ Len(accepted) \in Nat /\ Len(disk) \in Nat /\ Len(chan) \in Nat
      /\ Len(accepted) = Len(disk) + Writing + Len(chan) /\ Writing \in {0, 1}
      /\ accepted[i].id = i /\ accepted[i] \in Command
  BY DEF TypeOK, QueueInOrder, Writing, Numbered
<1>2. Range(chan) = {chan[j] : j \in 1..Len(chan)}  BY DEF TypeOK, Range
<1>3. ASSUME accepted[i] = current PROVE i > Len(disk)
  <2>1. thread = "apply"  BY <1>1, <1>3, NoCmdAssumption DEF QueueInOrder
  <2>2. accepted[Len(disk) + 1] = current /\ Len(disk) + 1 \in 1..Len(accepted)
    BY <1>1, <2>1 DEF QueueInOrder, Healthy, Writing
  <2>3. accepted[Len(disk) + 1].id = Len(disk) + 1  BY <2>2 DEF Numbered
  <2> QED BY <1>1, <1>3, <2>2, <2>3
<1>4. ASSUME NEW j \in 1..Len(chan), accepted[i] = chan[j] PROVE i > Len(disk)
  <2>1. accepted[Len(disk) + Writing + j] = chan[j] /\ Len(disk) + Writing + j \in 1..Len(accepted)
    BY <1>1 DEF QueueInOrder
  <2>2. accepted[Len(disk) + Writing + j].id = Len(disk) + Writing + j  BY <2>1 DEF Numbered
  <2>3. i = Len(disk) + Writing + j  BY <1>1, <1>4, <2>1, <2>2
  <2> QED BY <1>1, <2>3
<1>5. ASSUME i > Len(disk), thread = "apply", i = Len(disk) + 1 PROVE accepted[i] = current
  BY <1>5 DEF QueueInOrder
<1>6. ASSUME i > Len(disk), ~(thread = "apply" /\ i = Len(disk) + 1) PROVE accepted[i] \in Range(chan)
  <2>1. PICK j \in 1..Len(chan) : i = Len(disk) + Writing + j
    <3>1. i - Len(disk) - Writing \in 1..Len(chan)  BY <1>1, <1>6 DEF Writing
    <3>2. i = Len(disk) + Writing + (i - Len(disk) - Writing)  BY <1>1
    <3> QED BY <3>1, <3>2
  <2>2. accepted[i] = chan[j]  BY <1>1, <2>1 DEF QueueInOrder
  <2> QED BY <1>2, <2>2
<1> QED BY <1>2, <1>3, <1>4, <1>5, <1>6 DEF Shared

\* A collection of the buffer leaves the accepted patches that are not in the store.
LEMMA RetainedIsSuffix ==
  ASSUME IndInv, BufferIsSuffix, db = "par", "db" \in senders, Healthy
  PROVE  \A i \in 1..Len(accepted) : accepted[i] \in Retained <=> i > Len(disk)
<1>1. PICK m \in 0..Len(disk) : \A i \in 1..Len(accepted) : accepted[i] \in commands <=> i > m
  BY DEF BufferIsSuffix
<1>2. Len(disk) \in Nat /\ Len(accepted) \in Nat  BY DEF IndInv, TypeOK
<1> QED BY <1>1, <1>2, SharedIsUnwritten DEF Retained

\* The latest writer among the accepted patches is found in the buffer, if the buffer
\* has a writer at all; if not, all the writers are in the store.
LEMMA LatestIsBuffered ==
  ASSUME IndInv, BufferIsSuffix, db = "par", "db" \in senders, Healthy,
         NEW W \in SUBSET Range(accepted)
  PROVE  /\ W \cap commands # {} => W # {} /\ Latest(W \cap commands) = Latest(W)
         /\ W \cap commands = {} => W \subseteq Range(disk)
<1>1. PICK m \in 0..Len(disk) : \A i \in 1..Len(accepted) : accepted[i] \in commands <=> i > m
  BY DEF BufferIsSuffix
<1>2. /\ Len(disk) \in Nat /\ Len(accepted) \in Nat /\ Len(disk) <= Len(accepted)
      /\ disk \in Seq(Command) /\ accepted \in Seq(Command)
      /\ TypeOK /\ Numbered
  BY DEF IndInv, TypeOK, PersistedInOrder
<1>3. \A c \in W : \E i \in 1..Len(accepted) : c = accepted[i] /\ c.id = i
  BY <1>2 DEF Numbered, Range
<1>4. ASSUME W \cap commands # {} PROVE W # {} /\ Latest(W \cap commands) = Latest(W)
  <2>1. /\ Latest(W) \in W /\ \A d \in W : d.id <= Latest(W).id
        /\ \A c \in W : (\A d \in W : d.id <= c.id) => c = Latest(W)
    BY <1>2, <1>4, LatestIsUnique
  <2>2. PICK c \in W : c \in commands  BY <1>4
  <2>3. PICK i \in 1..Len(accepted) : c = accepted[i] /\ c.id = i  BY <1>3
  <2>4. PICK j \in 1..Len(accepted) : Latest(W) = accepted[j] /\ Latest(W).id = j  BY <1>3, <2>1
  <2>5. i > m  BY <1>1, <2>2, <2>3
  <2>6. i <= j  BY <2>1, <2>3, <2>4
  <2>7. j > m  BY <1>2, <2>5, <2>6
  <2>8. Latest(W) \in W \cap commands  BY <1>1, <2>1, <2>4, <2>7
  <2>9. W \cap commands \in SUBSET Range(accepted)  OBVIOUS
  <2>10. \A e \in W \cap commands : (\A d \in W \cap commands : d.id <= e.id) => e = Latest(W \cap commands)
    BY Zenon, <1>2, <1>4, <2>9, LatestIsUnique
  <2> QED BY Zenon, <1>4, <2>1, <2>8, <2>10
<1>5. ASSUME W \cap commands = {}, NEW c \in W PROVE c \in Range(disk)
  <2>1. PICK i \in 1..Len(accepted) : c = accepted[i] /\ c.id = i  BY <1>3
  <2>2. i <= m  BY <1>1, <1>2, <1>5, <2>1
  <2>3. i \in DOMAIN disk /\ disk[i] = accepted[i]
    BY <1>2, <2>2 DEF IndInv, PersistedInOrder
  <2> QED BY <2>1, <2>3 DEF Range
<1> QED BY <1>4, <1>5

\* A read through the buffer returns what the latest accepted patch wrote.
LEMMA SuffixMeansReadsSeeAccepted == IndInv /\ BufferIsSuffix => ReadsSeeAccepted
<1> SUFFICES ASSUME IndInv, BufferIsSuffix, db = "par", "db" \in senders, Healthy
             PROVE  /\ \A k \in NodeKeys : try_tree_node(k) = Written(Range(accepted), k)
                    /\ try_root = RootOf(Range(accepted))
  BY DEF ReadsSeeAccepted
<1>1. /\ disk \in Seq(Command) /\ accepted \in Seq(Command) /\ TypeOK /\ Numbered
      /\ Len(disk) \in Nat /\ Len(accepted) \in Nat /\ Len(disk) <= Len(accepted)
      /\ \A i \in 1..Len(disk) : disk[i] = accepted[i]
  BY DEF IndInv, TypeOK, PersistedInOrder
<1>2. Range(disk) \subseteq Range(accepted)  BY <1>1 DEF Range
<1>3. commands \subseteq Range(accepted)  BY <1>1 DEF Numbered, Range
<1>4. \A c \in Range(accepted) : c.id \in Nat \ {0} /\ c \in Command  BY <1>1 DEF Numbered, Range
<1>5. ASSUME NEW k \in NodeKeys PROVE try_tree_node(k) = Written(Range(accepted), k)
  <2> DEFINE W == {c \in Range(accepted) : k \in c.nodes}
  <2>1. {c \in commands : k \in c.nodes} = W \cap commands  BY <1>3
  <2>2. W \in SUBSET Range(accepted)  OBVIOUS
  <2>3. CASE W \cap commands # {}
    <3>1. W # {} /\ Latest(W \cap commands) = Latest(W)
      <4> HIDE DEF W
      <4> QED BY <2>2, <2>3, LatestIsBuffered
    <3>2. Latest(W).id # 0
      <4> HIDE DEF W
      <4> QED BY <1>1, <1>4, <2>2, <3>1, LatestIsUnique
    <3> QED BY Zenon, <2>1, <2>3, <3>1, <3>2 DEF try_tree_node, Written
  <2>4. CASE W \cap commands = {}
    <3>1. W \subseteq Range(disk)
      <4> HIDE DEF W
      <4> QED BY Zenon, <2>2, <2>4, LatestIsBuffered
    <3>2. {c \in Range(disk) : k \in c.nodes} = W  BY <1>2, <3>1
    <3> QED BY Zenon, <2>1, <2>4, <3>2 DEF try_tree_node, Written
  <2> QED BY <2>3, <2>4
<1>6. try_root = RootOf(Range(accepted))
  <2> DEFINE W == {c \in Range(accepted) : c.kind # "manifest"}
  <2>1. {c \in commands : c.kind # "manifest"} = W \cap commands  BY <1>3
  <2>2. W \in SUBSET Range(accepted)  OBVIOUS
  <2>3. CASE W \cap commands # {}
    <3>1. W # {} /\ Latest(W \cap commands) = Latest(W)
      <4> HIDE DEF W
      <4> QED BY <2>2, <2>3, LatestIsBuffered
    <3>2. Latest(W) \in W
      <4> HIDE DEF W
      <4> QED BY <1>1, <2>2, <3>1, LatestIsUnique
    <3>3. Latest(W).kind # "none"  BY <1>4, <3>2 DEF Command, Kinds
    <3> QED BY Zenon, <2>1, <2>3, <3>1, <3>3 DEF try_root, RootOf
  <2>4. CASE W \cap commands = {}
    <3>1. W \subseteq Range(disk)
      <4> HIDE DEF W
      <4> QED BY Zenon, <2>2, <2>4, LatestIsBuffered
    <3>2. {c \in Range(disk) : c.kind # "manifest"} = W  BY <1>2, <3>1
    <3> QED BY Zenon, <2>1, <2>4, <3>2 DEF try_root, RootOf
  <2> QED BY <2>3, <2>4
<1> QED BY <1>5, <1>6

\* The patches that the thread holds are no more than the channel and the one being written.
LEMMA SharedIsBounded ==
  ASSUME IndInv, Len(chan) <= BufferCapacity
  PROVE  /\ IsFiniteSet(Retained)
         /\ Cardinality(Chunks(Retained)) <= BufferCapacity + 1
<1> DEFINE n == Len(chan)
           H == Range(chan) \cup {current}
<1>1. n \in Nat /\ chan \in [1..n -> Range(chan)] /\ BufferCapacity \in Nat
  BY BufferCapacityAssumption DEF IndInv, TypeOK, Range
<1>2. IsFiniteSet(1..n) /\ Cardinality(1..n) = n
  <2>1. 1 \in Int /\ n \in Int /\ (IF 1 > n THEN 0 ELSE n - 1 + 1) = n  BY <1>1
  <2> HIDE DEF n
  <2>2. IsFiniteSet(1..n) /\ Cardinality(1..n) = IF 1 > n THEN 0 ELSE n - 1 + 1
    BY ONLY <2>1, FS_Interval, Zenon
  <2> QED BY <2>1, <2>2
<1>3. chan \in Surjection(1..n, Range(chan))
  BY <1>1 DEF Surjection, Range
<1>4. IsFiniteSet(Range(chan)) /\ Cardinality(Range(chan)) <= n
  BY <1>2, <1>3, FS_Surjection
<1>5. IsFiniteSet(H) /\ Cardinality(H) <= n + 1
  <2>1. Cardinality(Range(chan)) \in Nat  BY <1>4, FS_CardinalityType
  <2>2. IsFiniteSet(H) /\ Cardinality(H) \in {Cardinality(Range(chan)), Cardinality(Range(chan)) + 1}
    BY <1>4, FS_AddElement
  <2> QED BY <1>1, <1>4, <2>1, <2>2
<1>6. Retained \subseteq H /\ Chunks(Retained) \subseteq H  BY DEF Retained, Shared, Chunks
<1>7. IsFiniteSet(Retained) /\ IsFiniteSet(Chunks(Retained)) /\ Cardinality(Chunks(Retained)) <= Cardinality(H)
  <2> HIDE DEF H
  <2> QED BY <1>5, <1>6, FS_Subset
<1>8. Cardinality(Chunks(Retained)) \in Nat /\ Cardinality(H) \in Nat  BY <1>5, <1>7, FS_CardinalityType
<1> QED BY <1>1, <1>5, <1>7, <1>8

\* A smaller buffer has fewer chunks.
LEMMA FewerChunks ==
  ASSUME NEW S, IsFiniteSet(S), NEW T \in SUBSET S
  PROVE  /\ IsFiniteSet(T)
         /\ Cardinality(Chunks(T)) \in Nat /\ Cardinality(Chunks(S)) \in Nat
         /\ Cardinality(Chunks(T)) <= Cardinality(Chunks(S))
<1>1. Chunks(T) \subseteq Chunks(S) /\ Chunks(S) \subseteq S  BY DEF Chunks
<1>2. IsFiniteSet(T) /\ IsFiniteSet(Chunks(S))  BY <1>1, FS_Subset
<1>3. IsFiniteSet(Chunks(T)) /\ Cardinality(Chunks(T)) <= Cardinality(Chunks(S))
  BY <1>1, <1>2, FS_Subset
<1> QED BY <1>2, <1>3, FS_CardinalityType

\* A step that only shrinks the buffer and the channel, and starts no send, keeps the bounds.
LEMMA ShrinkingKeepsBounds ==
  ASSUME BufferInv, commands' \subseteq commands, Len(chan') <= BufferCapacity,
         pc' \notin {"send", "final_send"} \/ UNCHANGED <<pc, cmd>>
  PROVE  /\ Len(chan') <= BufferCapacity /\ IsFiniteSet(commands')
         /\ BufferedChunksBounded' /\ RoomForChunk'
<1>1. /\ IsFiniteSet(commands')
      /\ Cardinality(Chunks(commands')) \in Nat /\ Cardinality(Chunks(commands)) \in Nat
      /\ Cardinality(Chunks(commands')) <= Cardinality(Chunks(commands))
  BY FewerChunks DEF BufferInv
<1>2. BufferCapacity \in Nat  BY BufferCapacityAssumption
<1>3. BufferedChunksBounded'  BY <1>1, <1>2 DEF BufferInv, BufferedChunksBounded
<1>4. RoomForChunk'  BY <1>1, <1>2 DEF BufferInv, RoomForChunk
<1> QED BY <1>1, <1>3, <1>4

\* apply_patch keeps the buffer invariant up to its send.
LEMMA ApplyPatchBufferInv ==
  ASSUME IndInv, BufferInv, NEW c, NEW sending, apply_patch(c, sending), db = "par"
  PROVE  BufferInv'
<1>1. CASE c.kind = "chunk"
  <2>1. commands' = Retained /\ cmd' = c /\ UNCHANGED <<disk, accepted, db, senders, chan, thread>>
    BY <1>1 DEF apply_patch, threadVars
  <2>2. BufferIsSuffix'
    <3>1. Len(disk) \in 0..Len(disk)  BY DEF IndInv, TypeOK
    <3>2. SUFFICES ASSUME db = "par", "db" \in senders, Healthy
                   PROVE  \A i \in 1..Len(accepted) : accepted[i] \in Retained <=> i > Len(disk)
      BY <2>1, <3>1 DEF BufferIsSuffix, Healthy
    <3> QED BY <3>2, RetainedIsSuffix DEF BufferInv
  <2>3. IsFiniteSet(commands') /\ Cardinality(Chunks(commands')) <= BufferCapacity + 1
    BY <2>1, SharedIsBounded DEF BufferInv
  <2>4. Cardinality(Chunks(commands')) \in Nat  BY <2>3, FewerChunks
  <2>5. BufferedChunksBounded' /\ RoomForChunk'
    BY <2>3, <2>4, BufferCapacityAssumption DEF BufferedChunksBounded, RoomForChunk
  <2> QED BY <2>1, <2>2, <2>3, <2>5 DEF BufferInv
<1>2. CASE c.kind # "chunk"
  BY <1>2 DEF apply_patch, threadVars, BufferInv, BufferIsSuffix, Healthy, BufferedChunksBounded, RoomForChunk
<1> QED BY <1>1, <1>2

\* A successful send keeps the buffer invariant: there was room for the chunk.
LEMMA SendBufferInv ==
  ASSUME IndInv, BufferInv, NEW sending \in {"send", "final_send"}, NEW next \in {"idle", "final_join"},
         SendOk(sending, next)
  PROVE  BufferInv'
<1> USE DEF SendOk
<1>1. /\ cmd \in Command /\ cmd.id = Len(accepted) + 1
      /\ Len(accepted) \in Nat /\ Len(chan) \in Nat /\ BufferCapacity \in Nat
      /\ accepted \in Seq(Command) /\ Len(disk) \in Nat
  BY BufferCapacityAssumption DEF IndInv, TypeOK, CallState, Numbered
<1>2. Len(chan') <= BufferCapacity  BY <1>1 DEF IndInv, TypeOK
<1>3. BufferIsSuffix'
  <2>1. SUFFICES ASSUME db = "par", "db" \in senders, Healthy
                 PROVE  \E m \in 0..Len(disk) :
                          \A i \in 1..Len(accepted') : accepted'[i] \in commands' <=> i > m
    BY DEF BufferIsSuffix, Healthy
  <2>2. PICK m \in 0..Len(disk) : \A i \in 1..Len(accepted) : accepted[i] \in commands <=> i > m
    BY <2>1 DEF BufferInv, BufferIsSuffix
  <2>3. /\ Len(accepted') = Len(accepted) + 1 /\ accepted'[Len(accepted) + 1] = cmd
        /\ \A i \in 1..Len(accepted) : accepted'[i] = accepted[i]
    BY <1>1
  <2>4. \A i \in 1..Len(accepted) : accepted[i] # cmd  BY <1>1 DEF IndInv, Numbered
  <2>5. m < Len(accepted) + 1  BY <1>1, <2>2 DEF IndInv, PersistedInOrder
  <2>6. ASSUME NEW i \in 1..Len(accepted') PROVE accepted'[i] \in commands' <=> i > m
    <3>1. CASE i = Len(accepted) + 1  BY <2>3, <2>5, <3>1
    <3>2. CASE i # Len(accepted) + 1
      <4>1. i \in 1..Len(accepted)  BY <1>1, <2>3, <3>2
      <4> QED BY <2>2, <2>3, <2>4, <4>1
    <3> QED BY <3>1, <3>2
  <2> QED BY <2>2, <2>6
<1>4. IsFiniteSet(commands')  BY FS_AddElement DEF BufferInv
<1>5. BufferedChunksBounded'
  <2>1. CASE cmd.kind = "chunk"
    <3>1. Chunks(commands') = Chunks(commands) \cup {cmd}  BY <2>1 DEF Chunks
    <3>2. Chunks(commands) \subseteq commands  BY DEF Chunks
    <3>3. IsFiniteSet(Chunks(commands)) /\ Cardinality(Chunks(commands)) \in Nat
      BY <3>2, FS_Subset, FS_CardinalityType DEF BufferInv
    <3>4. Cardinality(Chunks(commands')) <= Cardinality(Chunks(commands)) + 1
      <4>1. Cardinality(Chunks(commands) \cup {cmd})
              = IF cmd \in Chunks(commands) THEN Cardinality(Chunks(commands)) ELSE Cardinality(Chunks(commands)) + 1
        BY <3>3, FS_AddElement, Zenon
      <4>2. Cardinality(Chunks(commands')) \in {Cardinality(Chunks(commands)), Cardinality(Chunks(commands)) + 1}
        BY <3>1, <4>1, Zenon
      <4> QED BY <3>3, <4>2
    <3>5. Cardinality(Chunks(commands)) <= BufferCapacity + 1  BY <2>1 DEF BufferInv, RoomForChunk
    <3>6. Cardinality(Chunks(commands')) \in Nat  BY <1>4, FewerChunks
    <3> QED BY <1>1, <3>3, <3>4, <3>5, <3>6 DEF BufferedChunksBounded
  <2>2. CASE cmd.kind # "chunk"
    <3>1. Chunks(commands') = Chunks(commands)  BY <2>2 DEF Chunks
    <3> QED BY <3>1 DEF BufferInv, BufferedChunksBounded
  <2> QED BY <2>1, <2>2
<1>6. RoomForChunk'  BY DEF RoomForChunk
<1> QED BY <1>2, <1>3, <1>4, <1>5, <1>6 DEF BufferInv

\* A step that leaves the buffer and the accepted patches alone keeps BufferIsSuffix, also when
\* the store grows, the thread stops or a sender is dropped.
LEMMA QuietBufferIsSuffix ==
  ASSUME IndInv, BufferIsSuffix, UNCHANGED <<accepted, commands, db>>,
         Len(disk') \in Nat, Len(disk) <= Len(disk'), senders' \subseteq senders, Healthy' => Healthy
  PROVE  BufferIsSuffix'
<1>1. SUFFICES ASSUME db = "par", "db" \in senders, Healthy
               PROVE  \E m \in 0..Len(disk') : \A i \in 1..Len(accepted) : accepted[i] \in commands <=> i > m
  BY DEF BufferIsSuffix
<1>2. PICK m \in 0..Len(disk) : \A i \in 1..Len(accepted) : accepted[i] \in commands <=> i > m
  BY <1>1 DEF BufferIsSuffix
<1>3. m \in 0..Len(disk')  BY DEF IndInv, TypeOK
<1> QED BY <1>2, <1>3

\* Every step preserves the buffer invariant.
LEMMA NextBufferInv ==
  ASSUME IndInv, IndInv', BufferInv, [Next]_vars
  PROVE  BufferInv'
<1> USE DEF BufferInv
<1>1. Len(disk) \in Nat /\ Len(disk') \in Nat /\ BufferCapacity \in Nat /\ Len(<<>>) = 0
  BY BufferCapacityAssumption DEF IndInv, TypeOK
<1>2. ASSUME commands' \subseteq commands, UNCHANGED chan, db' # "par" \/ "db" \notin senders' \/ ~Healthy',
             pc' \notin {"send", "final_send"} \/ UNCHANGED <<pc, cmd>>
      PROVE  BufferInv'
  <2>1. BufferIsSuffix'  BY <1>2 DEF BufferIsSuffix
  <2> QED BY <1>2, <2>1, ShrinkingKeepsBounds
<1>3. ASSUME UNCHANGED <<accepted, commands, db, chan, thread>>, Len(disk') = Len(disk), senders' \subseteq senders,
             pc' \notin {"send", "final_send"} \/ UNCHANGED <<pc, cmd>>
      PROVE  BufferInv'
  <2>1. BufferIsSuffix'
    <3>1. Len(disk) <= Len(disk') /\ (Healthy' => Healthy)  BY <1>1, <1>3 DEF Healthy
    <3> QED BY <1>1, <1>3, <3>1, QuietBufferIsSuffix
  <2> QED BY <1>3, <2>1, ShrinkingKeepsBounds
<1>4. ASSUME Drop, UNCHANGED threadVars PROVE BufferInv'
  BY <1>2, <1>4 DEF Drop, threadVars
<1>5. CASE with_hasher
  <2>1. db' # "par" /\ UNCHANGED <<commands, chan, pc, cmd>>  BY <1>5 DEF with_hasher, threadVars
  <2> QED BY <1>2, <2>1
<1>6. CASE parallelize_persistence
  <2>1. CASE db = "seq"
    <3>1. commands' = {} /\ chan' = <<>> /\ UNCHANGED <<disk, accepted, pc, cmd>>
      BY <1>6, <2>1 DEF parallelize_persistence, parallelize
    <3>2. disk = accepted  BY <2>1 DEF IndInv, CallState
    <3>3. BufferIsSuffix'
      <4>1. Len(disk) \in 0..Len(disk)  BY <1>1
      <4>2. \A i \in 1..Len(accepted) : accepted[i] \in commands' <=> i > Len(disk)
        BY <1>1, <3>1, <3>2
      <4> QED BY <3>1, <4>1, <4>2 DEF BufferIsSuffix
    <3> QED BY <1>1, <3>1, <3>3, ShrinkingKeepsBounds
  <2>2. CASE db # "seq"
    BY <1>3, <1>6, <2>2 DEF parallelize_persistence, mainVars, threadVars
  <2> QED BY <2>1, <2>2
<1>7. CASE update_custom_tags \/ \E nodes \in SUBSET NodeKeys : extend(nodes)
  <2>1. CASE db = "par"
    <3>1. ASSUME UNCHANGED <<disk, accepted, mainVars, threadVars>> PROVE BufferInv'
      BY <1>3, <3>1 DEF mainVars, threadVars
    <3>2. ASSUME NEW c, apply_patch(c, "send") PROVE BufferInv'
      BY <2>1, <3>2, ApplyPatchBufferInv
    <3> QED BY <1>7, <2>1, <3>1, <3>2 DEF update_custom_tags, extend, SeqWriteFails
  <2>2. CASE db # "par"
    <3>1. UNCHANGED <<mainVars, threadVars>>
      BY <1>7, <2>2 DEF update_custom_tags, extend, SeqWriteFails
    <3> QED BY <1>2, <2>2, <3>1 DEF mainVars, threadVars
  <2> QED BY <2>1, <2>2
<1>8. CASE finalize
  <2>1. CASE FailConsuming /\ UNCHANGED threadVars  BY <1>4, <2>1 DEF FailConsuming
  <2>2. CASE UNCHANGED <<commands, db, threadVars, senders, accepted, disk>> /\ pc' \in {"final_write", "prune"}
    BY <1>3, <2>2 DEF threadVars
  <2>3. CASE db = "seq" /\ UNCHANGED <<db, commands, threadVars>> /\ pc' = "final_write"
    BY <1>2, <2>3 DEF threadVars
  <2> QED BY Zenon, <1>8, <2>1, <2>2, <2>3 DEF finalize
<1>9. CASE wait_for_persistence
  <2>1. CASE db = "seq"  BY <1>4, <1>9, <2>1 DEF wait_for_persistence
  <2>2. CASE db # "seq"
    BY <1>3, <1>9, <2>2 DEF wait_for_persistence, threadVars
  <2> QED BY <2>1, <2>2
<1>10. CASE Abandon \/ FinalWrite \/ FinalWriteFails \/ PruneFails \/ InnerPruneFails \/ FinalSendFails \/ Join
  BY <1>4, <1>10 DEF Abandon, FinalWrite, FinalWriteFails, PruneFails, InnerPruneFails, FinalSendFails, Join,
     SyncErr, SendErr, FailConsuming
<1>11. CASE Send  BY <1>11, SendBufferInv DEF Send
<1>12. CASE FinalSend  BY <1>12, SendBufferInv DEF FinalSend
<1>13. CASE SendFails
  BY <1>2, <1>13 DEF SendFails, SendErr, FailBorrowing, threadVars, Connected, Healthy
<1>14. CASE PruneWaits
  <2>1. commands' = Retained /\ UNCHANGED <<disk, accepted, db, pc, cmd, senders, chan, thread>>
    BY <1>14 DEF PruneWaits, WaitSync, threadVars
  <2>2. BufferIsSuffix'
    <3>1. Len(disk) \in 0..Len(disk)  BY <1>1
    <3>2. SUFFICES ASSUME db = "par", "db" \in senders, Healthy
                   PROVE  \A i \in 1..Len(accepted) : accepted[i] \in Retained <=> i > Len(disk)
      BY <2>1, <3>1 DEF BufferIsSuffix, Healthy
    <3> QED BY <3>2, RetainedIsSuffix
  <2>3. commands' \subseteq commands  BY <2>1 DEF Retained
  <2> QED BY <2>1, <2>2, <2>3, ShrinkingKeepsBounds
<1>15. CASE Prune
  <2>1. db = "par"  BY <1>15 DEF Prune, SyncOk, IndInv, CallState
  <2> QED BY <1>15, <2>1, ApplyPatchBufferInv DEF Prune
<1>16. CASE DropSender
  BY <1>2, <1>16 DEF DropSender, threadVars
<1>17. CASE Thread \/ StopProcessing
  <2>1. UNCHANGED <<accepted, db, pc, cmd, commands>> /\ senders' \subseteq senders /\ (Healthy' => Healthy)
    BY <1>17 DEF Thread, StopProcessing, run_persistence, Recv, Persist, PersistFails, DropReceiver, DiscardQueued,
       ExitWithError, ExitNormally, test_stop_processing, mainVars, Healthy
  <2>2. Len(disk) <= Len(disk')
    <3>1. CASE Persist
      BY <3>1 DEF Persist, IndInv, TypeOK, QueueInOrder
    <3>2. CASE ~Persist
      <4>1. disk' = disk
        BY <1>17, <3>2 DEF Thread, StopProcessing, run_persistence, Recv, PersistFails, DropReceiver, DiscardQueued,
           ExitWithError, ExitNormally, test_stop_processing
      <4> QED BY <1>1, <4>1
    <3> QED BY <3>1, <3>2
  <2>3. Len(chan') <= BufferCapacity
    <3>1. CASE Recv
      <4>1. Len(chan') = Len(chan) - 1 /\ Len(chan) \in Nat  BY <3>1 DEF Recv, IndInv, TypeOK
      <4> QED BY <1>1, <4>1
    <3>2. CASE ~Recv
      <4>1. chan' = chan \/ chan' = <<>>
        BY <1>17, <3>2 DEF Thread, StopProcessing, run_persistence, Persist, PersistFails, DropReceiver, DiscardQueued,
           ExitWithError, ExitNormally, test_stop_processing
      <4> QED BY <1>1, <4>1
    <3> QED BY <3>1, <3>2
  <2>4. BufferIsSuffix'  BY <1>1, <2>1, <2>2, QuietBufferIsSuffix
  <2> QED BY <2>1, <2>3, <2>4, ShrinkingKeepsBounds
<1>18. CASE DropHandle  BY <1>3, <1>18 DEF DropHandle, threadVars
<1>19. CASE Crash
  <2>1. BufferIsSuffix'  BY <1>19 DEF Crash, BufferIsSuffix
  <2> QED BY <1>1, <1>19, <2>1, ShrinkingKeepsBounds DEF Crash
<1>20. CASE Done \/ UNCHANGED vars  BY <1>3, <1>20 DEF Done, vars, mainVars, threadVars
<1> QED BY <1>5, <1>6, <1>7, <1>8, <1>9, <1>10, <1>11, <1>12, <1>13, <1>14, <1>15, <1>16, <1>17, <1>18, <1>19, <1>20
       DEF Next, Call, Continue

\* While the persistence thread works, a read through the buffer of ParallelDatabase returns
\* what the latest accepted patch wrote, and the buffer holds at most two chunks more than the
\* channel, for every channel capacity.
THEOREM BufferStaysRight == Spec => []BufferIsRight
<1>1. Init => BufferInv
  <2> SUFFICES ASSUME Init PROVE BufferInv  OBVIOUS
  <2>1. Chunks(commands) = {} /\ commands = {} /\ chan = <<>> /\ Len(chan) = 0  BY DEF Init, Chunks
  <2>2. IsFiniteSet(commands) /\ Cardinality(Chunks(commands)) = 0  BY <2>1, FS_EmptySet
  <2> QED BY <2>1, <2>2, BufferCapacityAssumption
          DEF Init, BufferInv, BufferIsSuffix, BufferedChunksBounded, RoomForChunk
<1>2. IndInv /\ IndInv' /\ BufferInv /\ [Next]_vars => BufferInv'  BY NextBufferInv
<1>3. IndInv /\ BufferInv => BufferIsRight
  BY SuffixMeansReadsSeeAccepted DEF BufferInv, BufferIsRight
<1> QED BY <1>1, <1>2, <1>3, InvariantHolds, PTL DEF Spec
=============================================================================
