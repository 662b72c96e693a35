------------------------- MODULE MerkleTreeRecovery -------------------------
(***************************************************************************)
(* Tree recovery (merkle_tree/src/recovery/mod.rs) on top of a database    *)
(* with sequential or background persistence.  The main thread's calls     *)
(* interleave with the persistence thread, and the process may crash       *)
(* between any two steps.                                                  *)
(***************************************************************************)
EXTENDS ParallelDatabase, FiniteSets

CONSTANTS MaxCommands,  \* bound: patches the application submits
          MaxSessions   \* bound: times the application opens the database

ASSUME BoundsAssumption == MaxCommands \in Nat /\ MaxSessions \in Nat

VARIABLES sessions,   \* times with_hasher() was called
          result,     \* what the last call returned
          finalized   \* finalize() returned Ok

vars == <<disk, accepted, mainVars, threadVars, sessions, result, finalized>>

Idle == pc = "idle"

NewCommand(kind, nodes, recovering) ==
  [id |-> Len(accepted) + 1, kind |-> kind, nodes |-> nodes, recovering |-> recovering]

Return(res) == result' = res /\ UNCHANGED <<sessions, finalized>>

\* A call that borrows the recovery object ends; check(true) stored the error.
FailBorrowing ==
  /\ pc' = "idle"
  /\ cmd' = NoCmd
  /\ persistence_handle' = "err"
  /\ UNCHANGED <<db, commands, senders>>
  /\ Return("err")

\* The recovery object is dropped: the buffer and the sender go, and a thread
\* that is still running is detached.
Drop ==
  /\ db' = "closed"
  /\ pc' = "idle"
  /\ cmd' = NoCmd
  /\ commands' = {}
  /\ persistence_handle' = "nothing"
  /\ senders' = senders \ {"db"}

FailConsuming == Drop /\ Return("err")

(***************************************************************************)
(* Opening the database.                                                   *)
(***************************************************************************)

\* with_hasher.  Restarting while a persistence thread is active is declared
\* unsound, so the application does not do it.
with_hasher ==
  /\ db = "closed"
  /\ Idle
  /\ thread = "none" \/ ThreadFinished
  /\ sessions < MaxSessions
  /\ sessions' = sessions + 1
  /\ IF disk # <<>> /\ ~Final(disk).recovering
     THEN \* ensure_consistency(&hasher, true)
          /\ result' = "err"
          /\ UNCHANGED <<disk, accepted, db>>
     ELSE LET first == [id |-> Len(disk) + 1, kind |-> "manifest", nodes |-> {}, recovering |-> TRUE]
          IN  \/ /\ disk' = Append(disk, first)
                 /\ accepted' = Append(disk, first)
                 /\ db' = "seq"
                 /\ result' = "ok"
              \/ \* another version is being recovered, or an I/O error
                 /\ accepted' = disk
                 /\ result' = "err"
                 /\ UNCHANGED <<disk, db>>
  /\ UNCHANGED <<pc, cmd, commands, persistence_handle, senders, threadVars, finalized>>

parallelize_persistence ==
  /\ Idle
  /\ \/ /\ db = "seq"
        /\ parallelize
        /\ Return("ok")
     \/ \* "persistence is already parallelized"
        /\ db = "par"
        /\ UNCHANGED <<disk, accepted, mainVars, threadVars>>
        /\ Return("err")

(***************************************************************************)
(* Extending the tree.  A chunk replaces the root and some nodes; without  *)
(* entries and without a filled root it is the empty-root patch instead.   *)
(***************************************************************************)
ChunkKind(nodes) ==
  IF nodes = {} /\ try_root # "chunk" THEN "empty_root" ELSE "chunk"

SeqWrite(c) ==
  /\ disk' = Append(disk, c)
  /\ accepted' = Append(accepted, c)

\* A RocksDB I/O error.
SeqWriteFails ==
  /\ db = "seq"
  /\ UNCHANGED <<disk, accepted, mainVars, threadVars>>
  /\ Return("err")

extend(nodes) ==
  /\ Idle
  /\ Len(accepted) < MaxCommands
  /\ LET c == NewCommand(ChunkKind(nodes), nodes, try_manifest)
     IN  \/ /\ db = "seq"
            /\ SeqWrite(c)
            /\ UNCHANGED <<mainVars, threadVars>>
            /\ Return("ok")
         \/ SeqWriteFails
         \/ /\ db = "par"
            /\ c.kind = "chunk"
            /\ apply_patch(c, "send")
            /\ UNCHANGED <<sessions, result, finalized>>
         \/ \* "Invalid update": an inserted version is not supported
            /\ db = "par"
            /\ c.kind = "empty_root"
            /\ UNCHANGED <<disk, accepted, mainVars, threadVars>>
            /\ Return("err")

update_custom_tags ==
  /\ Idle
  /\ Len(accepted) < MaxCommands
  /\ LET c == NewCommand("manifest", {}, try_manifest)
     IN  \/ /\ db = "seq"
            /\ SeqWrite(c)
            /\ UNCHANGED <<mainVars, threadVars>>
            /\ Return("ok")
         \/ SeqWriteFails
         \/ /\ db = "par"
            /\ apply_patch(c, "send")
            /\ UNCHANGED <<sessions, result, finalized>>

Send == SendOk("send", "idle") /\ Return("ok")

SendFails == SendErr("send", FailBorrowing)

(***************************************************************************)
(* Finalizing.  All stale keys of the recovered version are empty lists,   *)
(* so that pruning them changes nothing in the store.                      *)
(***************************************************************************)
FinalCommand == NewCommand("manifest", {}, FALSE)

finalize ==
  /\ Idle
  /\ db \in {"seq", "par"}
  /\ \/ /\ try_root # "none"
        /\ pc' = IF db = "seq" THEN "final_write" ELSE "prune"
        /\ UNCHANGED <<disk, accepted, db, cmd, commands, persistence_handle, senders,
                       threadVars, sessions, result, finalized>>
     \/ \* the empty tree, sequential
        /\ try_root = "none"
        /\ db = "seq"
        /\ SeqWrite(NewCommand("empty_root", {}, TRUE))
        /\ pc' = "final_write"
        /\ UNCHANGED <<db, cmd, commands, persistence_handle, senders, threadVars,
                       sessions, result, finalized>>
     \/ \* the empty tree: an I/O error, or "Invalid update" in parallel
        /\ try_root = "none"
        /\ FailConsuming
        /\ UNCHANGED <<disk, accepted, threadVars>>

\* Sequential: prune, write the manifest, return the database.
FinalWrite ==
  /\ pc = "final_write"
  /\ SeqWrite(FinalCommand)
  /\ Drop
  /\ result' = "ok"
  /\ finalized' = TRUE
  /\ UNCHANGED <<threadVars, sessions>>

\* One of the sequential writes fails.
FinalWriteFails ==
  /\ pc = "final_write"
  /\ FailConsuming
  /\ UNCHANGED <<disk, accepted, threadVars>>

PruneWaits == WaitSync("prune") /\ UNCHANGED <<sessions, result, finalized>>

\* Parallel: the inner database is pruned and the last manifest is submitted.
Prune ==
  /\ SyncOk("prune")
  /\ apply_patch(FinalCommand, "final_send")
  /\ UNCHANGED <<sessions, result, finalized>>

PruneFails == SyncErr("prune", FailConsuming)

\* The inner database fails to prune.
InnerPruneFails ==
  /\ SyncOk("prune")
  /\ FailConsuming
  /\ UNCHANGED <<disk, accepted, threadVars>>

FinalSend == SendOk("final_send", "final_join") /\ UNCHANGED <<sessions, result, finalized>>

FinalSendFails == SendErr("final_send", FailConsuming)

\* MaybeParallel::join returns at once for a sequential database;
\* ParallelDatabase::join drops the sender and the buffer, then waits.
wait_for_persistence ==
  /\ Idle
  /\ \/ /\ db = "seq"
        /\ Drop
        /\ Return("ok")
        /\ UNCHANGED <<disk, accepted, threadVars>>
     \/ /\ db = "par"
        /\ pc' = "join"
        /\ UNCHANGED <<disk, accepted, db, cmd, commands, persistence_handle, senders,
                       threadVars, sessions, result, finalized>>

DropSender ==
  /\ pc \in {"join", "final_join"}
  /\ "db" \in senders
  /\ senders' = senders \ {"db"}
  /\ commands' = {}
  /\ UNCHANGED <<disk, accepted, db, pc, cmd, persistence_handle, threadVars,
                 sessions, result, finalized>>

Join ==
  /\ pc \in {"join", "final_join"}
  /\ "db" \notin senders
  /\ ThreadFinished \/ persistence_handle = "err"
  /\ Drop
  /\ LET ok == persistence_handle = "handle" /\ thread = "exited_ok"
     IN  /\ result' = IF ok THEN "ok" ELSE "err"
         /\ finalized' = (finalized \/ (ok /\ pc = "final_join"))
  /\ UNCHANGED <<disk, accepted, threadVars, sessions>>

(***************************************************************************)
(* The environment.                                                        *)
(***************************************************************************)
\* The application abandons the recovery object.
Abandon ==
  /\ Idle
  /\ db # "closed"
  /\ Drop
  /\ UNCHANGED <<disk, accepted, threadVars, sessions, result, finalized>>

\* The application drops its PersistenceThreadHandle.
DropHandle ==
  /\ "handle" \in senders
  /\ senders' = senders \ {"handle"}
  /\ UNCHANGED <<disk, accepted, db, pc, cmd, commands, persistence_handle, threadVars,
                 sessions, result, finalized>>

\* The process dies; only the store survives.
Crash ==
  /\ db # "closed" \/ thread \notin {"none", "exited_ok", "exited_err"}
  /\ accepted' = disk
  /\ db' = "closed"
  /\ pc' = "idle"
  /\ cmd' = NoCmd
  /\ commands' = {}
  /\ persistence_handle' = "nothing"
  /\ senders' = {}
  /\ chan' = <<>>
  /\ current' = NoCmd
  /\ thread' = "none"
  /\ result' = "none"
  /\ UNCHANGED <<disk, sessions, finalized>>

\* Nothing is left to do within the bounds.
Done ==
  /\ db = "closed"
  /\ thread = "none" \/ ThreadFinished
  /\ sessions = MaxSessions
  /\ UNCHANGED vars

(***************************************************************************)
(* The specification.                                                      *)
(***************************************************************************)
Init ==
  /\ disk = <<>> /\ accepted = <<>>
  /\ db = "closed" /\ pc = "idle" /\ cmd = NoCmd /\ commands = {}
  /\ persistence_handle = "nothing" /\ senders = {}
  /\ chan = <<>> /\ current = NoCmd /\ thread = "none"
  /\ sessions = 0 /\ result = "none" /\ finalized = FALSE

Call ==
  \/ with_hasher \/ parallelize_persistence \/ update_custom_tags
  \/ \E nodes \in SUBSET NodeKeys : extend(nodes)
  \/ finalize \/ wait_for_persistence \/ Abandon

\* The steps that carry a call of the main thread to its end.
Continue ==
  \/ Send \/ SendFails \/ FinalWrite \/ FinalWriteFails \/ PruneWaits \/ Prune \/ PruneFails \/ InnerPruneFails
  \/ FinalSend \/ FinalSendFails \/ DropSender \/ Join

Thread == run_persistence /\ UNCHANGED <<sessions, result, finalized>>

StopProcessing == test_stop_processing /\ UNCHANGED <<sessions, result, finalized>>

Next == Call \/ Continue \/ Thread \/ StopProcessing \/ DropHandle \/ Crash \/ Done

Spec == Init /\ [][Next]_vars

\* The operating system runs both threads, and a channel or join wait ends when its
\* condition holds.  Nothing is assumed of the application: it may keep its handle.
Fairness == WF_vars(Continue) /\ WF_vars(Thread)

FairSpec == Spec /\ Fairness

(***************************************************************************)
(* Properties.                                                             *)
(***************************************************************************)
Healthy == thread \in {"recv", "apply"}

Recovered == disk # <<>> /\ ~Final(disk).recovering

\* The type invariant of the recovery state.
TypeOK ==
  /\ disk \in Seq(Command) /\ accepted \in Seq(Command)
  /\ db \in {"closed", "seq", "par"}
  /\ pc \in {"idle", "send", "final_write", "prune", "final_send", "join", "final_join"}
  /\ cmd \in Command \cup {NoCmd}
  /\ commands \in SUBSET Command
  /\ persistence_handle \in {"nothing", "handle", "err"}
  /\ senders \in SUBSET {"db", "handle"}
  /\ chan \in Seq(Command)
  /\ current \in Command \cup {NoCmd}
  /\ thread \in {"none", "recv", "apply", "failing", "disconnected", "returning",
                 "exited_ok", "exited_err"}
  /\ sessions \in Nat
  /\ result \in {"none", "ok", "err"}
  /\ finalized \in BOOLEAN

\* Chunks are persisted atomically and in order (parallelize_persistence): at any
\* moment, after any failure or crash, the store holds a prefix of what apply_patch
\* accepted.
PersistedInOrder ==
  /\ Len(disk) <= Len(accepted)
  /\ \A i \in DOMAIN disk : disk[i] = accepted[i]

\* A store whose manifest says that recovery is over holds every chunk that was
\* accepted, however the write of the manifest raced with failures of the thread.
RecoveredMeansComplete == Recovered => disk = accepted

\* finalize() returns Ok only when the store is marked as recovered.
FinalizedMeansRecovered == finalized => Recovered

\* While the persistence thread works, a read through the buffer returns what the
\* latest accepted patch wrote, although the buffer's head may already be applied.
ReadsSeeAccepted ==
  db = "par" /\ "db" \in senders /\ Healthy =>
    /\ \A k \in NodeKeys : try_tree_node(k) = Written(Range(accepted), k)
    /\ try_root = RootOf(Range(accepted))

Chunks(S) == {c \in S : c.kind = "chunk"}

\* Back-pressure: the buffer never keeps more chunks than the channel holds, the one
\* being written and the one that was just sent.
BufferedChunksBounded == Cardinality(Chunks(commands)) <= BufferCapacity + 2

\* Nothing is written to a store once it is marked as recovered, not even by a
\* detached persistence thread.
RecoveredIsFrozen == [][Recovered => disk' = disk]_vars

Log == INSTANCE DurableLog WITH log <- accepted, durable <- disk

\* Recovery implements the durable log.
ImplementsDurableLog == Log!Spec

\* A join waits for a thread that has written everything and whose channel is only
\* kept open by the application's PersistenceThreadHandle.
OnlyHandleIsLeft ==
  /\ pc \in {"join", "final_join"}
  /\ senders = {"handle"}
  /\ thread = "recv" /\ chan = <<>> /\ disk = accepted

\* Every call returns: a blocked send, the wait_sync loop and the join end even when
\* the thread fails.  The one exception is a join while the application keeps its
\* handle, whose clone of the sender keeps the thread waiting (join(), recv()): it gets
\* as far as having everything written.  A call that begins or goes on without the
\* handle is no exception, since only an idle application gets another one.
CallsReturn == (pc # "idle") ~> (pc = "idle" \/ OnlyHandleIsLeft)

(***************************************************************************)
(* The inductive invariant behind PersistedInOrder, RecoveredMeansComplete *)
(* and the refinement.                                                     *)
(***************************************************************************)
Writing == IF thread = "apply" THEN 1 ELSE 0

\* The accepted patches are the written ones, the one being written and the queued
\* ones, in this order, for as long as the thread works.
QueueInOrder ==
  /\ thread = "apply" <=> current # NoCmd
  /\ Healthy =>
       /\ Len(accepted) = Len(disk) + Writing + Len(chan)
       /\ thread = "apply" => accepted[Len(disk) + 1] = current
       /\ \A i \in 1..Len(chan) : accepted[Len(disk) + Writing + i] = chan[i]
  /\ thread = "exited_ok" => disk = accepted

\* Where a call may be, and what the thread is then.
CallState ==
  /\ pc = "final_write" => db = "seq"
  /\ pc \notin {"idle", "final_write"} => db = "par"
  /\ db = "seq" => thread \in {"none", "exited_ok", "exited_err"} /\ disk = accepted
  /\ db = "par" => thread # "none" /\ persistence_handle \in {"handle", "err"}
  /\ db # "closed" => disk # <<>>
  /\ db # "par" => commands = {}
  /\ pc \in {"send", "final_send"} <=> cmd # NoCmd

\* The patch that ends recovery is the last one, and only finalize() sends it.
EndsLast ==
  /\ \A i \in 1..Len(accepted) - 1 : accepted[i].recovering
  /\ accepted # <<>> /\ ~Final(accepted).recovering => db = "closed" \/ pc = "final_join"
  /\ pc = "final_join" => accepted # <<>> /\ ~Final(accepted).recovering
  /\ pc # "final_join" => \A c \in commands : c.recovering
  /\ pc = "send" => cmd.recovering
  /\ pc = "final_send" => ~cmd.recovering

\* Patches are numbered in the order of their acceptance, and the buffer keeps
\* accepted patches only.
Numbered ==
  /\ \A i \in 1..Len(accepted) : accepted[i].id = i
  /\ \A c \in commands : \E i \in 1..Len(accepted) : c = accepted[i]
  /\ cmd # NoCmd => cmd.id = Len(accepted) + 1

IndInv ==
  /\ TypeOK
  /\ Numbered
  /\ PersistedInOrder
  /\ QueueInOrder
  /\ CallState
  /\ EndsLast
  /\ FinalizedMeansRecovered

(***************************************************************************)
(* The inductive invariant behind BufferIsRight.                           *)
(***************************************************************************)
\* The buffer is a suffix of the accepted patches that starts no later than the
\* first one that is not in the store: the collector of apply_patch and wait_sync
\* leaves no gap that would make a read return an overwritten value.
BufferIsSuffix ==
  db = "par" /\ "db" \in senders /\ Healthy =>
    \E m \in 0..Len(disk) : \A i \in 1..Len(accepted) : accepted[i] \in commands <=> i > m

\* There is room for the chunk that is being sent.
RoomForChunk ==
  pc \in {"send", "final_send"} /\ cmd.kind = "chunk" =>
    Cardinality(Chunks(commands)) <= BufferCapacity + 1

BufferInv ==
  /\ BufferIsSuffix
  /\ Len(chan) <= BufferCapacity
  /\ IsFiniteSet(commands)
  /\ BufferedChunksBounded
  /\ RoomForChunk

(***************************************************************************)
(* What comments and docs say and the code does not do.                    *)
(***************************************************************************)
\* finalize: "Marginal case: an empty tree is recovered": without an I/O failure the
\* call does not fail on an empty tree.
EmptyTreeIsFinalized == [][finalize /\ db = "par" /\ Healthy => db' = "par"]_vars

\* What is in the store is right after any failure or crash: a prefix of what was accepted, all of
\* it once the manifest says so, and finalize() says no more than the manifest
\* (parallelize_persistence, finalize).
PersistenceIsSound ==
  /\ PersistedInOrder
  /\ RecoveredMeansComplete
  /\ FinalizedMeansRecovered

\* The buffer in front of the store shows what was accepted and is no longer than the channel
\* allows (ParallelDatabase).
BufferIsRight ==
  /\ ReadsSeeAccepted
  /\ BufferedChunksBounded
=============================================================================
