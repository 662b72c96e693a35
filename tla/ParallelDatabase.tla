-------------------------- MODULE ParallelDatabase --------------------------
(***************************************************************************)
(* `ParallelDatabase` of merkle_tree/src/storage/parallel.rs: a database   *)
(* whose patches are written by a background persistence thread.  The main *)
(* thread keeps every patch it handed over in `commands` until the patch's *)
(* `Arc` is no longer shared with the thread, and reads through that       *)
(* buffer.                                                                 *)
(*                                                                         *)
(* A patch is a command record; the key-value store is the sequence of the *)
(* commands written to it (a RocksDB write batch is atomic), and a read    *)
(* returns what the last command touching the key wrote.  The main         *)
(* thread's call in progress is `pc`; the callers of these operations are  *)
(* in MerkleTreeRecovery.                                                  *)
(***************************************************************************)
EXTENDS Integers, Sequences, Functions

CONSTANTS NodeKeys,        \* keys of non-root tree nodes
          BufferCapacity,  \* capacity of the command channel
          NoCmd            \* no command

ASSUME BufferCapacityAssumption == BufferCapacity \in Nat \ {0}

VARIABLES disk,                \* the store: the commands written, in order
          accepted,            \* the patches whose apply_patch returned Ok
          db,                  \* MaybeParallel: "closed", "seq" or "par"
          pc,                  \* where the main thread's current call is
          cmd,                 \* the command it is sending
          commands,            \* ParallelDatabase::commands, as a set
          persistence_handle,  \* HandleOrError: "nothing", "handle", "err"
          senders,             \* live clones of the command sender
          chan,                \* commands in the channel
          current,             \* the command the thread is writing
          thread               \* where the persistence thread is

threadVars == <<chan, current, thread>>
mainVars == <<db, pc, cmd, commands, persistence_handle, senders>>

(***************************************************************************)
(* Commands and reads.                                                     *)
(***************************************************************************)
Kinds == {"manifest", "empty_root", "chunk"}

Command == [id : Nat, kind : Kinds, nodes : SUBSET NodeKeys, recovering : BOOLEAN]

ASSUME NoCmdAssumption == NoCmd \notin Command

Final(log) == log[Len(log)]

\* Commands are pushed in the order of their ids, so that a deque of commands is
\* determined by the set of its elements.
Latest(S) == CHOOSE c \in S : \A d \in S : d.id <= c.id

\* An unwritten key reads as 0, a written one as the id of its last writer.
Written(S, k) ==
  LET writers == {c \in S : k \in c.nodes}
  IN  IF writers = {} THEN 0 ELSE Latest(writers).id

\* A chunk writes a filled root, a manifest update no root.
RootOf(S) ==
  LET writers == {c \in S : c.kind # "manifest"}
  IN  IF writers = {} THEN "none" ELSE Latest(writers).kind

\* Only Manifest::tags.is_recovering matters.
try_manifest == IF commands # {} THEN Latest(commands).recovering ELSE Final(disk).recovering

try_root == IF RootOf(commands) # "none" THEN RootOf(commands) ELSE RootOf(Range(disk))

\* Mutant: the store is consulted before the buffer.
try_tree_node_StoreFirst(k) ==
  IF Written(Range(disk), k) # 0 THEN Written(Range(disk), k) ELSE Written(commands, k)

try_tree_node(k) ==
  IF Written(commands, k) # 0 THEN Written(commands, k) ELSE Written(Range(disk), k)

\* Arc::strong_count(&command.patch) > 1: the thread still holds a clone.
Shared(c) == c = current \/ c \in Range(chan)

Retained == {c \in commands : Shared(c)}

(***************************************************************************)
(* The persistence thread.                                                 *)
(***************************************************************************)
\* The receiver, an argument of run_persistence, has not been dropped.
Connected == thread \in {"recv", "apply", "failing"}

ThreadFinished == thread \in {"exited_ok", "exited_err"}

Recv ==
  /\ thread = "recv"
  /\ chan # <<>>
  /\ current' = Head(chan)
  /\ chan' = Tail(chan)
  /\ thread' = "apply"
  /\ UNCHANGED <<disk, accepted, mainVars>>

\* Mutant: a write that took effect may be retried.
PersistRetried ==
  /\ thread = "apply"
  /\ disk' = Append(disk, current)
  /\ \/ current' = NoCmd /\ thread' = "recv"
     \/ UNCHANGED <<current, thread>>
  /\ UNCHANGED <<accepted, mainVars, chan>>

Persist ==
  /\ thread = "apply"
  /\ disk' = Append(disk, current)
  /\ current' = NoCmd
  /\ thread' = "recv"
  /\ UNCHANGED <<accepted, mainVars, chan>>

\* Mutant: the thread logs the error and goes on with the next command.
PersistFailsIgnored ==
  /\ thread = "apply"
  /\ current' = NoCmd
  /\ thread' = "recv"
  /\ UNCHANGED <<disk, accepted, mainVars, chan>>

\* Mutant: the failed patch stays shared with the main thread.
PersistFailsLeaking ==
  /\ thread = "apply"
  /\ thread' = "failing"
  /\ UNCHANGED <<disk, accepted, mainVars, chan, current>>

\* `database.apply_patch(patch)?` fails: `command` and its Arc are dropped
\* before the receiver, an argument of the function.
PersistFails ==
  /\ thread = "apply"
  /\ current' = NoCmd
  /\ thread' = "failing"
  /\ UNCHANGED <<disk, accepted, mainVars, chan>>

\* test_stop_processing and the Command::Stop it sends: the receiver goes first.
\* The stop message itself is not kept in chan; its sender waits for this step
\* and then drops the handle.
test_stop_processing ==
  /\ thread = "recv"
  /\ "handle" \in senders
  /\ thread' = "disconnected"
  /\ senders' = senders \ {"handle"}
  /\ UNCHANGED <<disk, accepted, db, pc, cmd, commands, persistence_handle, chan, current>>

DropReceiver ==
  /\ thread = "failing"
  /\ thread' = "disconnected"
  /\ UNCHANGED <<disk, accepted, mainVars, chan, current>>

DiscardQueued ==
  /\ thread = "disconnected"
  /\ chan' = <<>>
  /\ thread' = "returning"
  /\ UNCHANGED <<disk, accepted, mainVars, current>>

ExitWithError ==
  /\ thread = "returning"
  /\ thread' = "exited_err"
  /\ UNCHANGED <<disk, accepted, mainVars, chan, current>>

\* recv() fails: every sender is gone and the channel is drained.
ExitNormally ==
  /\ thread = "recv"
  /\ senders = {}
  /\ chan = <<>>
  /\ thread' = "exited_ok"
  /\ UNCHANGED <<disk, accepted, mainVars, chan, current>>

run_persistence ==
  \/ Recv \/ Persist \/ PersistFails \/ DropReceiver
  \/ DiscardQueued \/ ExitWithError \/ ExitNormally

(***************************************************************************)
(* The main thread's side.  `next` is where the caller goes on after an    *)
(* Ok; a failed call ends with `fail`, which the caller defines.           *)
(***************************************************************************)

\* apply_patch up to the send; the buffer is collected only for node updates.
apply_patch(c, sending) ==
  /\ commands' = IF c.kind = "chunk" THEN Retained ELSE commands
  /\ cmd' = c
  /\ pc' = sending
  /\ UNCHANGED <<disk, accepted, db, persistence_handle, senders, threadVars>>

\* send() blocks while the channel is full.
SendOk(sending, next) ==
  /\ pc = sending
  /\ Connected
  /\ Len(chan) < BufferCapacity
  /\ chan' = Append(chan, cmd)
  /\ commands' = commands \cup {cmd}
  /\ accepted' = Append(accepted, cmd)
  /\ cmd' = NoCmd
  /\ pc' = next
  /\ UNCHANGED <<disk, db, persistence_handle, senders, current, thread>>

\* send() fails, and check(true) joins a thread that is about to exit.
SendErr(sending, fail) ==
  /\ pc = sending
  /\ ~Connected
  /\ ThreadFinished \/ persistence_handle = "err"
  /\ fail
  /\ UNCHANGED <<disk, accepted, threadVars>>

\* One iteration of wait_sync's loop.
WaitSync(waiting) ==
  /\ pc = waiting
  /\ commands # {}
  /\ commands' = Retained
  /\ UNCHANGED <<disk, accepted, db, pc, cmd, persistence_handle, senders, threadVars>>

\* The loop is over and check(false) finds no finished thread.
SyncOk(waiting) ==
  /\ pc = waiting
  /\ commands = {}
  /\ persistence_handle = "handle"
  /\ ~ThreadFinished

SyncErr(waiting, fail) ==
  /\ pc = waiting
  /\ commands = {}
  /\ persistence_handle = "err" \/ ThreadFinished
  /\ fail
  /\ UNCHANGED <<disk, accepted, threadVars>>

\* ParallelDatabase::new: the thread is spawned with a clone of the store.
parallelize ==
  /\ db' = "par"
  /\ persistence_handle' = "handle"
  /\ senders' = {"db", "handle"}
  /\ chan' = <<>>
  /\ current' = NoCmd
  /\ thread' = "recv"
  /\ commands' = {}
  /\ UNCHANGED <<disk, accepted, pc, cmd>>
=============================================================================
