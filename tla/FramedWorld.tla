----------------------------- MODULE FramedWorld -----------------------------
(***************************************************************************)
(* What the reference virtual machine promises about the state its oracles *)
(* keep: a world of persistent and transient values and events, nested     *)
(* calls that undo their changes when they panic, and snapshots that       *)
(* restore everything, the open calls included.  The actions are relations *)
(* between a state s and a state t, so that a refinement mapping is        *)
(* evaluated once for each.                                                *)
(***************************************************************************)
EXTENDS Integers, Sequences, SequencesExt

CONSTANTS Slots, Values

\* [world: the values and events, frames: the world at the start of each
\* open call, saved: the [world, frames] of each snapshot]
VARIABLE state

ZeroValues == [k \in Slots |-> 0]

Init ==
  \E world \in [storage : [Slots -> Values], transient : {ZeroValues}, events : {{}}] :
    state = [world |-> world, frames |-> <<world>>, saved |-> <<>>]

Write(s, t) ==
  \E k \in Slots, v \in Values :
    \/ t = [s EXCEPT !.world.storage[k] = v]
    \/ t = [s EXCEPT !.world.transient[k] = v]

\* One more event.
Emit(s, t) ==
  /\ \E e \in t.world.events \ s.world.events :
       t = [s EXCEPT !.world.events = @ \cup {e}]

NewTransaction(s, t) == t = [s EXCEPT !.world.transient = ZeroValues]

Call(s, t) == t = [s EXCEPT !.frames = Append(@, s.world)]

Return(s, t) ==
  /\ s.frames # <<>>
  /\ t = [s EXCEPT !.frames = Front(@)]

\* Only the events of the bootloader survive.
Panic(s, t) ==
  /\ s.frames # <<>>
  /\ t = [s EXCEPT
            !.frames = Front(@),
            !.world = [Last(s.frames) EXCEPT
                         !.events = @ \cup {e \in s.world.events :
                                              e.from_bootloader /\ e.is_event}]]

Snapshot(s, t) ==
  t = [s EXCEPT !.saved = Append(@, [world |-> s.world, frames |-> s.frames])]

Restore(s, t) ==
  /\ s.saved # <<>>
  /\ t = [world |-> Last(s.saved).world, frames |-> Last(s.saved).frames,
          saved |-> Front(s.saved)]

Forget(s, t) ==
  /\ s.saved # <<>>
  /\ t.saved \in {Front(s.saved), Tail(s.saved)}
  /\ t = [s EXCEPT !.saved = t.saved]

Next ==
  \E s \in {state}, t \in {state'} :
    \/ Write(s, t) \/ Emit(s, t) \/ NewTransaction(s, t)
    \/ Call(s, t) \/ Return(s, t) \/ Panic(s, t)
    \/ Snapshot(s, t) \/ Restore(s, t) \/ Forget(s, t)

Spec == Init /\ [][Next]_state
=============================================================================
