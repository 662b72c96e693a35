----------------------------- MODULE DurableLog -----------------------------
(***************************************************************************)
(* What tree recovery promises about its patches, with or without          *)
(* background persistence: `log` is the sequence of the accepted patches,  *)
(* `durable` the sequence of the patches in the store.  Patches become     *)
(* durable one by one and in order; patches that are not durable may be    *)
(* lost; a patch that ends recovery is the last one.                       *)
(***************************************************************************)
EXTENDS Integers, Sequences

VARIABLES log, durable

Closed(s) == s # <<>> /\ ~s[Len(s)].recovering

\* s is the sequence r and one more patch.
OneMore(s, r) ==
  /\ Len(s) = Len(r) + 1
  /\ \A i \in 1..Len(r) : s[i] = r[i]

Init == log = <<>> /\ durable = <<>>

Accept ==
  /\ ~Closed(log)
  /\ OneMore(log', log)
  /\ UNCHANGED durable

Persist ==
  /\ Len(durable) < Len(log)
  /\ durable' = Append(durable, log[Len(durable) + 1])
  /\ UNCHANGED log

\* A patch is accepted once it is in the store.
Write ==
  /\ ~Closed(durable)
  /\ OneMore(durable', durable)
  /\ log' = durable'

\* Everything that is not durable is forgotten.
Forget ==
  /\ log' = durable
  /\ UNCHANGED durable

Next == Accept \/ Persist \/ Write \/ Forget

Spec == Init /\ [][Next]_<<log, durable>>
=============================================================================
