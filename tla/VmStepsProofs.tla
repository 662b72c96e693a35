---------------------------- MODULE VmStepsProofs -----------------------------
(***************************************************************************)
(* Proofs about the steps of VmRuns: what an event makes of a machine, that *)
(* two machines do the same with it, and that a step of the fast VM's loop  *)
(* keeps the invariant of that VM.  VmLatestProofs has the reference VM,    *)
(* and VmRunsProofs puts the two together.                                  *)
(***************************************************************************)
EXTENDS VmRuns, TLAPS

-----------------------------------------------------------------------------
(***************************************************************************)
(* Machines, and what an event makes of them.                              *)
(***************************************************************************)
OneFrame(gas) == \E a \in Nat : gas = <<a>>
TwoFrames(gas) == \E a \in Nat, b \in Nat : gas = <<a, b>>

IsHeap(h) == h = [refund |-> h.refund, success |-> h.success, fictive |-> h.fictive, pubdata |-> h.pubdata]

IsNotes(bs) == bs = [refund |-> bs.refund, fictive |-> bs.fictive, pubdata |-> bs.pubdata]

IsMachine(m) ==
    /\ m = [gas |-> m.gas, phase |-> m.phase, heap |-> m.heap, counter |-> m.counter, ended |-> m.ended]
    /\ OneFrame(m.gas) \/ TwoFrames(m.gas)
    /\ IsHeap(m.heap)
    /\ m.counter \in Int

\* n differs from m in its gas only.
SameButGas(m, n) ==
    n.phase = m.phase /\ n.heap = m.heap /\ n.counter = m.counter /\ n.ended = m.ended

\* The last entry of the gas is that of the running frame.
LEMMA Frames ==
    ASSUME NEW m, IsMachine(m)
    PROVE  /\ InBootloader(m) <=> OneFrame(m.gas)
           /\ OneFrame(m.gas) => /\ m.gas = <<m.gas[1]>> /\ m.gas[1] \in Nat /\ Remaining(m) = m.gas[1]
                                 /\ Total(m.gas) = m.gas[1] /\ Depth(m) = 1
           /\ TwoFrames(m.gas) => /\ m.gas = <<m.gas[1], m.gas[2]>> /\ m.gas[1] \in Nat /\ m.gas[2] \in Nat
                                  /\ Remaining(m) = m.gas[2] /\ Total(m.gas) = m.gas[1] + m.gas[2] /\ Depth(m) = 2
           /\ Remaining(m) \in Nat /\ Total(m.gas) \in Nat
<1>1. CASE OneFrame(m.gas)
  <2>1. PICK a \in Nat : m.gas = <<a>>  BY <1>1 DEF OneFrame
  <2>2. Len(m.gas) = 1 /\ m.gas[1] = a  BY <2>1
  <2>3. ~TwoFrames(m.gas)  BY <2>1 DEF TwoFrames
  <2> QED BY <1>1, <2>1, <2>2, <2>3 DEF InBootloader, Depth, Remaining, Total
<1>2. CASE TwoFrames(m.gas)
  <2>1. PICK a \in Nat, b \in Nat : m.gas = <<a, b>>  BY <1>2 DEF TwoFrames
  <2>2. Len(m.gas) = 2 /\ m.gas[1] = a /\ m.gas[2] = b  BY <2>1
  <2>3. ~OneFrame(m.gas)  BY <2>1 DEF OneFrame
  <2> QED BY <1>2, <2>1, <2>2, <2>3 DEF InBootloader, Depth, Remaining, Total
<1> QED BY <1>1, <1>2 DEF IsMachine

\* The gas of the running frame is replaced.
LEMMA GasIsSet ==
    ASSUME NEW m, IsMachine(m), NEW gas \in Nat
    PROVE  /\ IsMachine(SetGas(m, gas)) /\ SameButGas(m, SetGas(m, gas))
           /\ OneFrame(m.gas) => SetGas(m, gas).gas = <<gas>>
           /\ TwoFrames(m.gas) => SetGas(m, gas).gas = <<m.gas[1], gas>>
<1>1. CASE OneFrame(m.gas)
  <2>1. m.gas = <<m.gas[1]>> /\ Depth(m) = 1  BY <1>1, Frames
  <2>2. [m.gas EXCEPT ![1] = gas] = <<gas>>  BY <2>1
  <2>3. SetGas(m, gas).gas = <<gas>>  BY <2>1, <2>2 DEF SetGas, IsMachine
  <2>4. ~TwoFrames(m.gas)  BY <2>1 DEF TwoFrames
  <2> QED BY <2>3, <2>4 DEF SetGas, IsMachine, SameButGas, OneFrame
<1>2. CASE TwoFrames(m.gas)
  <2>1. m.gas = <<m.gas[1], m.gas[2]>> /\ Depth(m) = 2 /\ m.gas[1] \in Nat  BY <1>2, Frames
  <2>2. [m.gas EXCEPT ![2] = gas] = <<m.gas[1], gas>>  BY <2>1
  <2>3. SetGas(m, gas).gas = <<m.gas[1], gas>>  BY <2>1, <2>2 DEF SetGas, IsMachine
  <2>4. ~OneFrame(m.gas)  BY <2>1 DEF OneFrame
  <2> QED BY <2>1, <2>3, <2>4 DEF SetGas, IsMachine, SameButGas, TwoFrames
<1> QED BY <1>1, <1>2 DEF IsMachine

\* What is left to a caller, and what its callee gets, grows with the gas.
LEMMA KeptIsMonotonic ==
    ASSUME NEW a \in Nat, NEW b \in Nat, a <= b
    PROVE  /\ Kept(a) \in Nat /\ Kept(a) <= a
           /\ Kept(a) <= Kept(b) /\ a - Kept(a) <= b - Kept(b)
BY RunAssumption DEF Kept

\* Short sequences.
LEMMA SingleFrame ==
    ASSUME NEW s \in Seq(Nat), Len(s) = 1
    PROVE  s = <<s[1]>>
OBVIOUS

LEMMA PairOfFrames ==
    ASSUME NEW s \in Seq(Nat), Len(s) = 2
    PROVE  s = <<s[1], s[2]>>
OBVIOUS

LEMMA SecondFrame ==
    ASSUME NEW a \in Nat, NEW b \in Nat
    PROVE  Append(<<a>>, b) = <<a, b>>
<1> DEFINE s == Append(<<a>>, b)
<1>1. s \in Seq(Nat) /\ Len(s) = 2 /\ s[1] = a /\ s[2] = b  OBVIOUS
<1> QED BY Zenon, <1>1, PairOfFrames

\* A frame that panics is lost; the bootloader's is the last.
LEMMA Panics ==
    ASSUME NEW m, IsMachine(m)
    PROVE  /\ IsMachine(Panicked(m))
           /\ Panicked(m).phase = m.phase /\ Panicked(m).heap = m.heap /\ Panicked(m).counter = m.counter
           /\ OneFrame(m.gas) => Panicked(m).gas = m.gas /\ Panicked(m).ended = "Panic"
           /\ TwoFrames(m.gas) => Panicked(m).gas = <<m.gas[1]>> /\ Panicked(m).ended = m.ended
<1>1. CASE OneFrame(m.gas)
  <2>1. ~TwoFrames(m.gas) /\ InBootloader(m)  BY <1>1, Frames DEF TwoFrames, OneFrame
  <2> QED BY <1>1, <2>1 DEF Panicked, IsMachine
<1>2. CASE TwoFrames(m.gas)
  <2>1. ~OneFrame(m.gas) /\ ~InBootloader(m)  BY <1>2, Frames DEF TwoFrames, OneFrame
  <2>2. PICK a \in Nat, b \in Nat : m.gas = <<a, b>>  BY <1>2 DEF TwoFrames
  <2>3. Callers(m.gas) = <<a>>
    <3>1. m.gas \in Seq(Nat) /\ Len(m.gas) = 2 /\ m.gas[1] = a  BY <2>2
    <3>2. Callers(m.gas) = SubSeq(m.gas, 1, 1)  BY <3>1 DEF Callers
    <3>3. SubSeq(m.gas, 1, 1) \in Seq(Nat) /\ Len(SubSeq(m.gas, 1, 1)) = 1 /\ SubSeq(m.gas, 1, 1)[1] = a
      BY <3>1
    <3> QED BY Zenon, <3>2, <3>3, SingleFrame
  <2> QED BY <2>1, <2>2, <2>3 DEF Panicked, IsMachine, OneFrame
<1> QED BY <1>1, <1>2 DEF IsMachine

\* A call divides the gas of the bootloader, a return gives back what is left.
LEMMA Calls ==
    ASSUME NEW m, IsMachine(m), OneFrame(m.gas)
    PROVE  /\ IsMachine(Called(m)) /\ SameButGas(m, Called(m))
           /\ Called(m).gas = <<Kept(m.gas[1]), m.gas[1] - Kept(m.gas[1])>>
<1>1. /\ m.gas = <<m.gas[1]>> /\ m.gas[1] \in Nat /\ Remaining(m) = m.gas[1]
      /\ Kept(m.gas[1]) \in Nat /\ m.gas[1] - Kept(m.gas[1]) \in Nat
  BY Frames, KeptIsMonotonic
<1> DEFINE n == SetGas(m, Kept(Remaining(m)))
           given == Remaining(m) - Kept(Remaining(m))
<1>2. IsMachine(n) /\ SameButGas(m, n) /\ n.gas = <<Kept(m.gas[1])>>  BY <1>1, GasIsSet
<1>3. Called(m) = [n EXCEPT !.gas = Append(@, given)]  BY DEF Called
<1>8. given = m.gas[1] - Kept(m.gas[1])  BY <1>1
<1> HIDE DEF n, given
<1>4. Append(<<Kept(m.gas[1])>>, given) = <<Kept(m.gas[1]), given>>  BY <1>1, <1>8, SecondFrame
<1>5. Called(m).gas = <<Kept(m.gas[1]), given>>  BY <1>2, <1>3, <1>4 DEF IsMachine
<1>6. TwoFrames(Called(m).gas)  BY <1>1, <1>5, <1>8 DEF TwoFrames
<1>7. IsMachine(Called(m)) /\ SameButGas(m, Called(m))  BY <1>2, <1>3, <1>6 DEF IsMachine, SameButGas
<1> QED BY <1>5, <1>7, <1>8

LEMMA Returns ==
    ASSUME NEW m, IsMachine(m), TwoFrames(m.gas)
    PROVE  /\ IsMachine(Returned(m)) /\ SameButGas(m, Returned(m))
           /\ Returned(m).gas = <<m.gas[1] + m.gas[2]>>
<1>1. /\ m.gas = <<m.gas[1], m.gas[2]>> /\ m.gas[1] \in Nat /\ m.gas[2] \in Nat
      /\ Remaining(m) = m.gas[2] /\ Depth(m) = 2
  BY Frames
<1>2. Callers(m.gas) = <<m.gas[1]>>
  <2>1. m.gas \in Seq(Nat) /\ Len(m.gas) = 2
    <3>1. PICK a \in Nat, b \in Nat : m.gas = <<a, b>>  BY DEF TwoFrames
    <3> QED BY <3>1
  <2>2. Callers(m.gas) = SubSeq(m.gas, 1, 1)  BY <2>1 DEF Callers
  <2>3. /\ SubSeq(m.gas, 1, 1) \in Seq(Nat) /\ Len(SubSeq(m.gas, 1, 1)) = 1
        /\ SubSeq(m.gas, 1, 1)[1] = m.gas[1]
    BY <2>1
  <2> QED BY Zenon, <2>2, <2>3, SingleFrame
<1>3. [Callers(m.gas) EXCEPT ![Depth(m) - 1] = @ + Remaining(m)] = <<m.gas[1] + m.gas[2]>>
  BY <1>1, <1>2
<1> DEFINE gas == [Callers(m.gas) EXCEPT ![Depth(m) - 1] = @ + Remaining(m)]
<1>6. Returned(m) = [m EXCEPT !.gas = gas]  BY DEF Returned
<1> HIDE DEF gas
<1>4. Returned(m) = [m EXCEPT !.gas = <<m.gas[1] + m.gas[2]>>]  BY <1>3, <1>6 DEF gas
<1>5. OneFrame(<<m.gas[1] + m.gas[2]>>)  BY <1>1 DEF OneFrame
<1> QED BY <1>4, <1>5 DEF IsMachine, SameButGas

\* The gas of n is that of m less what the running frame has spent.
Spent(m, n, gas) ==
    /\ OneFrame(m.gas) => n.gas = <<m.gas[1] - gas>>
    /\ TwoFrames(m.gas) => n.gas = <<m.gas[1], m.gas[2] - gas>>

LEMMA PaidGas ==
    ASSUME NEW m, IsMachine(m), NEW cost \in Nat \X Nat, Pays(m, cost)
    PROVE  /\ IsMachine(Charged(m, cost)) /\ SameButGas(m, Charged(m, cost)) /\ Spent(m, Charged(m, cost), cost[2])
           /\ OneFrame(m.gas) => OneFrame(Charged(m, cost).gas)
           /\ TwoFrames(m.gas) => TwoFrames(Charged(m, cost).gas)
<1>1. Remaining(m) - cost[2] \in Nat  BY Frames DEF Pays
<1>2. Charged(m, cost) = SetGas(m, Remaining(m) - cost[2])  BY DEF Charged
<1>3. OneFrame(m.gas) => Remaining(m) = m.gas[1]  BY Frames
<1>4. TwoFrames(m.gas) => Remaining(m) = m.gas[2] /\ m.gas[1] \in Nat  BY Frames
<1> DEFINE n == Charged(m, cost)
<1>5. /\ IsMachine(n) /\ SameButGas(m, n)
      /\ OneFrame(m.gas) => n.gas = <<Remaining(m) - cost[2]>>
      /\ TwoFrames(m.gas) => n.gas = <<m.gas[1], Remaining(m) - cost[2]>>
  BY Zenon, <1>1, <1>2, GasIsSet
<1> HIDE DEF n
<1>6. Spent(m, n, cost[2])  BY <1>3, <1>4, <1>5 DEF Spent
<1>7. OneFrame(m.gas) => OneFrame(n.gas)  BY <1>1, <1>5 DEF OneFrame
<1>8. TwoFrames(m.gas) => TwoFrames(n.gas)  BY <1>1, <1>4, <1>5 DEF TwoFrames
<1> QED BY <1>5, <1>6, <1>7, <1>8 DEF n

\* An event, by what it is.
IsEvent(m, e) ==
    /\ e.what \in {"op", "call", "return", "panic", "hook", "store", "end"}
    /\ e.cost \in Nat \X Nat /\ e.cost[1] <= e.cost[2]
    /\ e.what \notin {"op", "hook"} => e.cost = <<0, 0>>
    /\ e.what = "op" => e.param \in Int
    /\ e.what \in {"call", "hook", "store", "end"} => OneFrame(m.gas)
    /\ e.what = "return" => TwoFrames(m.gas)

Effect(m, n, e) ==
    /\ e.what \in {"op", "hook"} => Spent(m, n, e.cost[2])
    /\ e.what \in {"store", "end"} => n.gas = m.gas
    /\ e.what = "call" => n.gas = <<Kept(m.gas[1]), m.gas[1] - Kept(m.gas[1])>>
    /\ e.what = "return" => n.gas = <<m.gas[1] + m.gas[2]>>
    /\ e.what = "panic" => n.gas = <<m.gas[1]>>
    /\ n.counter = IF e.what = "op" THEN m.counter + e.param ELSE m.counter
    /\ n.phase = CASE e.what = "hook" -> e.next [] e.what = "store" -> "executed" [] OTHER -> m.phase
    /\ n.heap = IF e.what = "store" \/ (e.what = "hook" /\ e.hook = "PostResult")
                THEN [m.heap EXCEPT !.success = e.param] ELSE m.heap
    /\ n.ended = CASE e.what = "end" -> e.hook
                   [] e.what = "panic" /\ OneFrame(m.gas) -> "Panic"
                   [] OTHER -> m.ended

\* What a machine is after an event that it can pay, and after one that it cannot.
LEMMA PaidEvents ==
    ASSUME NEW m, IsMachine(m), NEW e, IsEvent(m, e), Pays(m, e.cost)
    PROVE  IsMachine(Executed(m, e)) /\ Effect(m, Executed(m, e), e)
<1> DEFINE paid == Charged(m, e.cost)
           n == Executed(m, e)
<1>1. /\ IsMachine(paid) /\ SameButGas(m, paid) /\ Spent(m, paid, e.cost[2])
      /\ OneFrame(m.gas) => OneFrame(paid.gas)
      /\ TwoFrames(m.gas) => TwoFrames(paid.gas)
  BY PaidGas DEF IsEvent
<1>2. OneFrame(m.gas) => /\ m.gas = <<m.gas[1]>> /\ m.gas[1] \in Nat
                         /\ ~TwoFrames(m.gas)
  BY Frames DEF TwoFrames
<1>3. TwoFrames(m.gas) => /\ m.gas = <<m.gas[1], m.gas[2]>> /\ m.gas[1] \in Nat /\ m.gas[2] \in Nat
                          /\ ~OneFrame(m.gas)
  BY Frames DEF OneFrame
<1>4. e.what \notin {"op", "hook"} => paid.gas = m.gas
  BY <1>1, <1>2, <1>3 DEF Spent, IsEvent, IsMachine
<1>5. CASE e.what = "op"
  <2>1. n = [paid EXCEPT !.counter = @ + e.param]  BY <1>5 DEF Executed
  <2> HIDE DEF n, paid
  <2> QED BY <1>1, <1>5, <2>1 DEF IsMachine, Effect, SameButGas, IsEvent, n, Spent
<1>6. CASE e.what = "call"
  <2>1. n = Called(paid)  BY <1>6 DEF Executed
  <2>2. OneFrame(paid.gas) /\ paid.gas = m.gas  BY <1>1, <1>4, <1>6 DEF IsEvent
  <2>3. IsMachine(n) /\ SameButGas(paid, n) /\ n.gas = <<Kept(m.gas[1]), m.gas[1] - Kept(m.gas[1])>>
    BY <1>1, <2>1, <2>2, Calls
  <2> HIDE DEF n, paid
  <2> QED BY <1>1, <1>6, <2>3 DEF Effect, SameButGas, n
<1>7. CASE e.what = "return"
  <2>1. n = Returned(paid)  BY <1>7 DEF Executed
  <2>2. TwoFrames(paid.gas) /\ paid.gas = m.gas  BY <1>1, <1>4, <1>7 DEF IsEvent
  <2>3. IsMachine(n) /\ SameButGas(paid, n) /\ n.gas = <<m.gas[1] + m.gas[2]>>
    BY <1>1, <2>1, <2>2, Returns
  <2> HIDE DEF n, paid
  <2> QED BY <1>1, <1>7, <2>3 DEF Effect, SameButGas, n
<1>8. CASE e.what = "panic"
  <2>1. n = Panicked(paid)  BY <1>8 DEF Executed
  <2>2. paid.gas = m.gas  BY <1>4, <1>8
  <2> HIDE DEF n, paid
  <2>3. IsMachine(n) /\ n.phase = paid.phase /\ n.heap = paid.heap /\ n.counter = paid.counter
    BY <1>1, <2>1, Panics
  <2>4. OneFrame(m.gas) => n.gas = m.gas /\ n.ended = "Panic"  BY <1>1, <2>1, <2>2, Panics
  <2>5. TwoFrames(m.gas) => n.gas = <<m.gas[1]>> /\ n.ended = paid.ended  BY <1>1, <2>1, <2>2, Panics
  <2>6. n.gas = <<m.gas[1]>>  BY <1>2, <2>4, <2>5 DEF IsMachine
  <2>7. n.ended = IF OneFrame(m.gas) THEN "Panic" ELSE m.ended
    BY <1>1, <2>4, <2>5 DEF IsMachine, SameButGas
  <2> QED BY <1>1, <1>8, <2>3, <2>6, <2>7 DEF Effect, SameButGas, n
<1>9. CASE e.what = "hook"
  <2>1. n = [paid EXCEPT !.phase = e.next, !.heap.success = IF e.hook = "PostResult" THEN e.param ELSE @]
    BY <1>9 DEF Executed
  <2> HIDE DEF n, paid
  <2>2. n.heap = IF e.hook = "PostResult" THEN [paid.heap EXCEPT !.success = e.param] ELSE paid.heap
    BY <1>1, <2>1 DEF IsMachine, IsHeap
  <2>3. IsHeap(n.heap)  BY <1>1, <2>2 DEF IsMachine, IsHeap
  <2>4. /\ n.gas = paid.gas /\ n.phase = e.next /\ n.counter = paid.counter /\ n.ended = paid.ended
        /\ n = [gas |-> n.gas, phase |-> n.phase, heap |-> n.heap, counter |-> n.counter, ended |-> n.ended]
    BY Zenon, <1>1, <2>1 DEF IsMachine
  <2> QED BY <1>1, <1>9, <2>2, <2>3, <2>4 DEF IsMachine, Effect, SameButGas, n, Spent
<1>10. CASE e.what = "store"
  <2>1. n = [paid EXCEPT !.phase = "executed", !.heap.success = e.param]  BY <1>10 DEF Executed
  <2>2. paid.gas = m.gas  BY <1>4, <1>10
  <2> HIDE DEF n, paid
  <2>3. IsHeap(n.heap) /\ n.heap = [paid.heap EXCEPT !.success = e.param]
    BY <1>1, <2>1 DEF IsMachine, IsHeap
  <2> QED BY Zenon, <1>1, <1>10, <2>1, <2>2, <2>3 DEF IsMachine, Effect, SameButGas, n
<1>11. CASE e.what = "end"
  <2>1. n = [paid EXCEPT !.ended = e.hook]  BY <1>11 DEF Executed
  <2>2. paid.gas = m.gas  BY <1>4, <1>11
  <2> HIDE DEF n, paid
  <2> QED BY <1>1, <1>11, <2>1, <2>2 DEF IsMachine, Effect, SameButGas, n
<1> QED BY <1>5, <1>6, <1>7, <1>8, <1>9, <1>10, <1>11 DEF IsEvent

LEMMA UnpaidEvents ==
    ASSUME NEW m, IsMachine(m), NEW e, IsEvent(m, e), ~ Pays(m, e.cost)
    PROVE  /\ IsMachine(Executed(m, e))
           /\ Executed(m, e).phase = m.phase /\ Executed(m, e).heap = m.heap /\ Executed(m, e).counter = m.counter
           /\ OneFrame(m.gas) => Executed(m, e).gas = <<0>> /\ Executed(m, e).ended = "Panic"
           /\ TwoFrames(m.gas) => Executed(m, e).gas = <<m.gas[1]>> /\ Executed(m, e).ended = m.ended
<1> DEFINE n == SetGas(m, 0)
<1>1. Executed(m, e) = Panicked(n)  BY DEF Executed, Charged
<1>2. /\ IsMachine(n) /\ SameButGas(m, n)
      /\ OneFrame(m.gas) => n.gas = <<0>>
      /\ TwoFrames(m.gas) => n.gas = <<m.gas[1], 0>>
  BY GasIsSet
<1> HIDE DEF n
<1>3. OneFrame(m.gas) => OneFrame(n.gas)  BY <1>2 DEF OneFrame
<1>4. TwoFrames(m.gas) => TwoFrames(n.gas) /\ n.gas[1] = m.gas[1]
  <2>1. TwoFrames(m.gas) => m.gas[1] \in Nat  BY Frames
  <2> QED BY <1>2, <2>1 DEF TwoFrames
<1> QED BY <1>1, <1>2, <1>3, <1>4, Panics DEF SameButGas

\* No event makes gas.
LEMMA GasIsSpent ==
    ASSUME NEW m, IsMachine(m), NEW e, IsEvent(m, e), NEW n, n = Executed(m, e)
    PROVE  IsMachine(n) /\ Total(n.gas) <= Total(m.gas)
<1>1. IsMachine(n)  BY PaidEvents, UnpaidEvents
<1>2. /\ OneFrame(m.gas) => Total(m.gas) = m.gas[1] /\ m.gas = <<m.gas[1]>> /\ m.gas[1] \in Nat
      /\ TwoFrames(m.gas) => Total(m.gas) = m.gas[1] + m.gas[2] /\ m.gas[1] \in Nat /\ m.gas[2] \in Nat
      /\ OneFrame(m.gas) \/ TwoFrames(m.gas)
  BY Frames DEF IsMachine
<1>3. /\ \A a : n.gas = <<a>> => Total(n.gas) = a
      /\ \A a, b : n.gas = <<a, b>> => Total(n.gas) = a + b
  <2>1. /\ OneFrame(n.gas) => Total(n.gas) = n.gas[1]
        /\ TwoFrames(n.gas) => Total(n.gas) = n.gas[1] + n.gas[2]
        /\ OneFrame(n.gas) \/ TwoFrames(n.gas)
    BY <1>1, Frames DEF IsMachine
  <2>2. \A a : n.gas = <<a>> => n.gas[1] = a /\ ~TwoFrames(n.gas)  BY DEF TwoFrames
  <2>3. \A a, b : n.gas = <<a, b>> => n.gas[1] = a /\ n.gas[2] = b /\ ~OneFrame(n.gas)  BY DEF OneFrame
  <2> QED BY <2>1, <2>2, <2>3
<1>4. CASE ~Pays(m, e.cost)
  <2>1. /\ OneFrame(m.gas) => n.gas = <<0>>
        /\ TwoFrames(m.gas) => n.gas = <<m.gas[1]>>
    BY <1>4, UnpaidEvents
  <2> QED BY <1>1, <1>2, <1>3, <2>1
<1>5. CASE Pays(m, e.cost)
  <2>1. Effect(m, n, e)  BY <1>5, PaidEvents
  <2>2. CASE e.what \in {"op", "hook"}
    <3>1. Spent(m, n, e.cost[2]) /\ e.cost[2] \in Nat  BY <2>1, <2>2 DEF Effect, IsEvent
    <3>2. CASE OneFrame(m.gas)
      <4>1. n.gas = <<m.gas[1] - e.cost[2]>> /\ m.gas[1] - e.cost[2] \in Int  BY <1>2, <3>1, <3>2 DEF Spent
      <4> QED BY <1>1, <1>2, <1>3, <3>1, <3>2, <4>1
    <3>3. CASE TwoFrames(m.gas)
      <4>1. n.gas = <<m.gas[1], m.gas[2] - e.cost[2]>> /\ m.gas[2] - e.cost[2] \in Int  BY <1>2, <3>1, <3>3 DEF Spent
      <4> QED BY <1>1, <1>2, <1>3, <3>1, <3>3, <4>1
    <3> QED BY <1>2, <3>2, <3>3
  <2>3. CASE e.what \in {"store", "end"}  BY <1>1, <1>2, <2>1, <2>3 DEF Effect
  <2>4. CASE e.what = "call"
    <3>1. OneFrame(m.gas) /\ n.gas = <<Kept(m.gas[1]), m.gas[1] - Kept(m.gas[1])>>  BY <2>1, <2>4 DEF Effect, IsEvent
    <3>2. Kept(m.gas[1]) \in Nat  BY <1>2, <3>1, KeptIsMonotonic
    <3> QED BY <1>1, <1>2, <1>3, <3>1, <3>2
  <2>5. CASE e.what = "return"
    <3>1. TwoFrames(m.gas) /\ n.gas = <<m.gas[1] + m.gas[2]>>  BY <2>1, <2>5 DEF Effect, IsEvent
    <3> QED BY <1>1, <1>2, <1>3, <3>1
  <2>6. CASE e.what = "panic"
    <3>1. n.gas = <<m.gas[1]>>  BY <2>1, <2>6 DEF Effect
    <3> QED BY <1>1, <1>2, <1>3, <3>1
  <2> QED BY <2>2, <2>3, <2>4, <2>5, <2>6 DEF IsEvent
<1> QED BY <1>1, <1>4, <1>5

\* m has the gas of n in every frame, but for a part that is hidden from it.
HasLess(m, n, hidden) ==
    /\ OneFrame(m.gas) <=> OneFrame(n.gas)
    /\ m.gas[1] <= n.gas[1]
    /\ TwoFrames(m.gas) => m.gas[2] <= n.gas[2]
    /\ Total(m.gas) + hidden = Total(n.gas)
    /\ hidden = 0 => m.gas = n.gas

AsOne(m, n) == m.phase = n.phase /\ m.heap = n.heap /\ m.counter = n.counter /\ m.ended = n.ended

\* Both machines do the same with an event that the one with less gas can pay.
LEMMA EventsAreShared ==
    ASSUME NEW m, IsMachine(m), NEW n, IsMachine(n), NEW hidden \in Nat, HasLess(m, n, hidden), AsOne(m, n),
           NEW e, IsEvent(m, e), hidden > 0 => e.what # "panic" /\ Pays(m, e.cost),
           NEW p, p = Executed(m, e), NEW q, q = Executed(n, e)
    PROVE  /\ IsEvent(n, e) /\ IsMachine(p) /\ IsMachine(q) /\ HasLess(p, q, hidden) /\ AsOne(p, q)
           /\ Pays(m, e.cost) <=> Pays(n, e.cost)
           /\ Pays(m, e.cost) => Total(p.gas) + e.cost[2] <= Total(m.gas)
           /\ Total(p.gas) <= Total(m.gas)
<1>1. /\ OneFrame(m.gas) \/ TwoFrames(m.gas)
      /\ OneFrame(m.gas) => /\ m.gas = <<m.gas[1]>> /\ m.gas[1] \in Nat /\ Remaining(m) = m.gas[1] /\ Total(m.gas) = m.gas[1]
                            /\ ~TwoFrames(m.gas)
      /\ TwoFrames(m.gas) => /\ m.gas = <<m.gas[1], m.gas[2]>> /\ m.gas[1] \in Nat /\ m.gas[2] \in Nat
                             /\ Remaining(m) = m.gas[2] /\ Total(m.gas) = m.gas[1] + m.gas[2]
                             /\ ~OneFrame(m.gas)
  <2>1. ~(OneFrame(m.gas) /\ TwoFrames(m.gas))  BY DEF OneFrame, TwoFrames
  <2> QED BY <2>1, Frames DEF IsMachine
<1>2. /\ OneFrame(n.gas) \/ TwoFrames(n.gas)
      /\ OneFrame(n.gas) => /\ n.gas = <<n.gas[1]>> /\ n.gas[1] \in Nat /\ Remaining(n) = n.gas[1] /\ Total(n.gas) = n.gas[1]
                            /\ ~TwoFrames(n.gas)
      /\ TwoFrames(n.gas) => /\ n.gas = <<n.gas[1], n.gas[2]>> /\ n.gas[1] \in Nat /\ n.gas[2] \in Nat
                             /\ Remaining(n) = n.gas[2] /\ Total(n.gas) = n.gas[1] + n.gas[2]
                             /\ ~OneFrame(n.gas)
  <2>1. ~(OneFrame(n.gas) /\ TwoFrames(n.gas))  BY DEF OneFrame, TwoFrames
  <2> QED BY <2>1, Frames DEF IsMachine
<1>3. (OneFrame(m.gas) <=> OneFrame(n.gas)) /\ (TwoFrames(m.gas) <=> TwoFrames(n.gas))
  BY <1>1, <1>2 DEF HasLess
<1>4. IsEvent(n, e)  BY <1>3 DEF IsEvent
<1>5. IsMachine(p) /\ IsMachine(q) /\ Total(p.gas) <= Total(m.gas)  BY <1>4, GasIsSpent
<1>6. e.cost[2] \in Nat /\ (e.what \notin {"op", "hook"} => e.cost[2] = 0)  BY DEF IsEvent
<1>7. Pays(m, e.cost) => Total(p.gas) + e.cost[2] <= Total(m.gas)
  <2>1. CASE e.what \notin {"op", "hook"}
    <3>1. Total(p.gas) \in Nat /\ Total(m.gas) \in Nat  BY <1>5, Frames
    <3> QED BY <1>5, <1>6, <2>1, <3>1
  <2>2. CASE e.what \in {"op", "hook"} /\ Pays(m, e.cost)
    <3>1. Spent(m, p, e.cost[2])  BY Zenon, <2>2, PaidEvents DEF Effect
    <3>2. CASE OneFrame(m.gas)
      <4>1. p.gas = <<m.gas[1] - e.cost[2]>> /\ Len(p.gas) = 1  BY <3>1, <3>2 DEF Spent
      <4>2. Total(p.gas) = m.gas[1] - e.cost[2]  BY <1>1, <1>6, <3>2, <4>1 DEF Total
      <4> QED BY <1>1, <1>6, <3>2, <4>2
    <3>3. CASE TwoFrames(m.gas)
      <4>1. p.gas = <<m.gas[1], m.gas[2] - e.cost[2]>> /\ Len(p.gas) = 2  BY <3>1, <3>3 DEF Spent
      <4>2. Total(p.gas) = m.gas[1] + (m.gas[2] - e.cost[2])  BY <1>1, <1>6, <3>3, <4>1 DEF Total
      <4> QED BY <1>1, <1>6, <3>3, <4>2
    <3> QED BY <1>1, <3>2, <3>3
  <2> QED BY <2>1, <2>2
<1>8. CASE hidden = 0
  <2>1. m = n  BY <1>8 DEF HasLess, AsOne, IsMachine
  <2>2. p = q  BY <2>1
  <2>3. p.gas[1] <= q.gas[1] /\ (TwoFrames(p.gas) => p.gas[2] <= q.gas[2]) /\ Total(p.gas) + 0 = Total(q.gas)
    <3>1. p.gas[1] \in Nat /\ (TwoFrames(p.gas) => p.gas[2] \in Nat) /\ Total(p.gas) \in Nat
      BY <1>5, Frames DEF IsMachine
    <3> QED BY <2>2, <3>1
  <2> QED BY <1>4, <1>5, <1>7, <1>8, <2>1, <2>2, <2>3 DEF HasLess, AsOne
<1>9. CASE hidden > 0
  <2>1. Pays(m, e.cost) /\ Pays(n, e.cost)  BY <1>1, <1>2, <1>3, <1>6, <1>9 DEF HasLess, Pays
  <2>2. Effect(m, p, e) /\ Effect(n, q, e)  BY <1>4, <2>1, PaidEvents
  <2>3. AsOne(p, q)
    <3>1. p.phase = q.phase /\ p.heap = q.heap /\ p.counter = q.counter  BY <2>2 DEF Effect, AsOne
    <3>2. p.ended = q.ended  BY <1>9, <2>2 DEF Effect, AsOne
    <3> QED BY <3>1, <3>2 DEF AsOne
  <2>4. HasLess(p, q, hidden)
    <3>1. \A a, b : p.gas = <<a>> /\ q.gas = <<b>> /\ a <= b /\ a + hidden = b => HasLess(p, q, hidden)
      <4>1. SUFFICES ASSUME NEW a, NEW b, p.gas = <<a>>, q.gas = <<b>>, a <= b, a + hidden = b
                     PROVE  HasLess(p, q, hidden)
        OBVIOUS
      <4>2. p.gas[1] = a /\ q.gas[1] = b /\ Len(p.gas) = 1 /\ Len(q.gas) = 1  BY <4>1
      <4>3. OneFrame(p.gas) /\ OneFrame(q.gas) /\ ~TwoFrames(p.gas)
        BY <1>5, <4>1 DEF IsMachine, OneFrame, TwoFrames
      <4>4. Total(p.gas) = a /\ Total(q.gas) = b  BY <1>5, <4>2, <4>3, Frames
      <4> QED BY <1>9, <4>1, <4>2, <4>3, <4>4 DEF HasLess
    <3>2. \A a, b, c, d : /\ p.gas = <<a, b>> /\ q.gas = <<c, d>> /\ a <= c /\ b <= d /\ a + b + hidden = c + d
                          => HasLess(p, q, hidden)
      <4>1. SUFFICES ASSUME NEW a, NEW b, NEW c, NEW d, p.gas = <<a, b>>, q.gas = <<c, d>>, a <= c, b <= d,
                            a + b + hidden = c + d
                     PROVE  HasLess(p, q, hidden)
        OBVIOUS
      <4>2. p.gas[1] = a /\ q.gas[1] = c /\ p.gas[2] = b /\ q.gas[2] = d /\ Len(p.gas) = 2 /\ Len(q.gas) = 2
        BY <4>1
      <4>3. TwoFrames(p.gas) /\ TwoFrames(q.gas) /\ ~OneFrame(p.gas) /\ ~OneFrame(q.gas)
        BY <1>5, <4>1 DEF IsMachine, OneFrame, TwoFrames
      <4>4. Total(p.gas) = a + b /\ Total(q.gas) = c + d  BY <1>5, <4>2, <4>3, Frames
      <4> QED BY <1>9, <4>1, <4>2, <4>3, <4>4 DEF HasLess
    <3>3. CASE e.what \in {"op", "hook"} /\ OneFrame(m.gas)
      <4>1. p.gas = <<m.gas[1] - e.cost[2]>> /\ q.gas = <<n.gas[1] - e.cost[2]>>
        BY <1>3, <2>2, <3>3 DEF Effect, Spent
      <4>2. /\ m.gas[1] - e.cost[2] <= n.gas[1] - e.cost[2]
            /\ (m.gas[1] - e.cost[2]) + hidden = n.gas[1] - e.cost[2]
        BY <1>1, <1>2, <1>3, <1>6, <3>3 DEF HasLess
      <4> QED BY <3>1, <4>1, <4>2
    <3>4. CASE e.what \in {"op", "hook"} /\ TwoFrames(m.gas)
      <4>1. p.gas = <<m.gas[1], m.gas[2] - e.cost[2]>> /\ q.gas = <<n.gas[1], n.gas[2] - e.cost[2]>>
        BY <1>3, <2>2, <3>4 DEF Effect, Spent
      <4>2. /\ m.gas[1] <= n.gas[1] /\ m.gas[2] - e.cost[2] <= n.gas[2] - e.cost[2]
            /\ m.gas[1] + (m.gas[2] - e.cost[2]) + hidden = n.gas[1] + (n.gas[2] - e.cost[2])
        BY <1>1, <1>2, <1>3, <1>6, <3>4 DEF HasLess
      <4> QED BY <3>2, <4>1, <4>2
    <3>5. CASE e.what \in {"store", "end"}
      <4>1. p.gas = m.gas /\ q.gas = n.gas  BY <2>2, <3>5 DEF Effect
      <4> QED BY <4>1 DEF HasLess
    <3>6. CASE e.what = "call"
      <4>1. OneFrame(m.gas) /\ OneFrame(n.gas)  BY <1>3, <3>6 DEF IsEvent
      <4>2. PICK a \in Nat, b \in Nat : a = m.gas[1] /\ b = n.gas[1]  BY <1>1, <1>2, <4>1
      <4>3. a <= b /\ a + hidden = b  BY <1>1, <1>2, <4>1, <4>2 DEF HasLess
      <4>4. Kept(a) \in Nat /\ Kept(b) \in Nat /\ Kept(a) <= Kept(b) /\ a - Kept(a) <= b - Kept(b)
        BY <4>3, KeptIsMonotonic
      <4>5. p.gas = <<Kept(a), a - Kept(a)>> /\ q.gas = <<Kept(b), b - Kept(b)>>  BY <2>2, <3>6, <4>2 DEF Effect
      <4>6. Kept(a) + (a - Kept(a)) + hidden = Kept(b) + (b - Kept(b))  BY <4>3, <4>4
      <4> QED BY <3>2, <4>4, <4>5, <4>6
    <3>7. CASE e.what = "return"
      <4>1. TwoFrames(m.gas) /\ TwoFrames(n.gas)  BY <1>3, <3>7 DEF IsEvent
      <4>2. p.gas = <<m.gas[1] + m.gas[2]>> /\ q.gas = <<n.gas[1] + n.gas[2]>>  BY <2>2, <3>7 DEF Effect
      <4>3. /\ m.gas[1] + m.gas[2] <= n.gas[1] + n.gas[2]
            /\ (m.gas[1] + m.gas[2]) + hidden = n.gas[1] + n.gas[2]
        BY <1>1, <1>2, <4>1 DEF HasLess
      <4> QED BY <3>1, <4>2, <4>3
    <3> QED BY <1>1, <1>9, <3>3, <3>4, <3>5, <3>6, <3>7 DEF IsEvent
  <2> QED BY <1>4, <1>5, <1>7, <2>1, <2>3, <2>4
<1> QED BY <1>8, <1>9

-----------------------------------------------------------------------------
(***************************************************************************)
(* The events of a program.                                                *)
(***************************************************************************)
\* A hook of a transaction, with the phases it may come in.
TxHook(m, e) ==
    \/ e.hook = "AccountValidationEntered" /\ m.phase \in {"begin", "validated"} /\ e.next = "validation"
    \/ e.hook = "ValidationExited" /\ m.phase = "validation" /\ e.next = "validated"
    \/ /\ e.hook = "PostResult" /\ m.phase \in {"begin", "validated"} /\ e.next = "executed"
       /\ e.param \in {0, 1}
    \/ e.hook = "AskOperatorForRefund" /\ m.phase = "executed" /\ e.next = "asked" /\ e.param \in Proposals
    \/ e.hook = "NotifyAboutRefund" /\ m.phase = "asked" /\ e.next = "refunded"
    \/ e.hook = "TxHasEnded" /\ m.phase = "refunded" /\ e.next = "ended"

TipHook(m, e) ==
    \/ e.hook = "FinalBatchInfo" /\ m.phase = "begin" /\ e.next = "tip"
    \/ e.hook = "PubdataRequested" /\ m.phase = "tip" /\ e.next = "pubdata"

\* An event in a run of mode md.
InOrder(m, e, md) ==
    /\ e.what \notin {"hook", "end"} => e.hook = "none"
    /\ e.what = "hook" => (md = "OneTx" /\ TxHook(m, e)) \/ (md = "Batch" /\ TipHook(m, e))
    /\ e.what = "store" => md = "OneTx" /\ m.phase \in {"begin", "validated"} /\ e.param \in {0, 1}
    /\ e.what = "end" => \/ e.hook = "Revert" /\ e.param \in BootloaderErrors
                         \/ e.hook = "Ok" /\ md = "Batch" /\ m.phase = "pubdata"

\* The prices of events.
LEMMA Prices ==
    /\ <<0, 0>> \in Nat \X Nat /\ <<0, 0>>[1] <= <<0, 0>>[2]
    /\ \A cost \in Costs \union {HookCost} : cost \in Nat \X Nat /\ cost[1] <= cost[2]
BY RunAssumption

LEMMA HookKinds ==
    ASSUME NEW m, OneFrame(m.gas), NEW e, NEW name, NEW param, NEW next, e = Hook(name, param, next)
    PROVE  /\ IsEvent(m, e) /\ e.what = "hook" /\ e.hook = name /\ e.param = param /\ e.next = next
BY Prices DEF Hook, Op, IsEvent

LEMMA InstructionKinds ==
    ASSUME NEW m, IsMachine(m), NEW e \in Instructions(m) \union {Simply("panic")}
    PROVE  IsEvent(m, e) /\ \A md : InOrder(m, e, md)
<1>1. CASE \E c \in Costs, p \in {1, -1} : e = [Op(c) EXCEPT !.param = p]
  BY <1>1, Prices DEF Op, IsEvent, InOrder
<1>2. CASE e = Simply(IF InBootloader(m) THEN "call" ELSE "return")
  <2>1. InBootloader(m) => OneFrame(m.gas)  BY Frames
  <2>2. ~InBootloader(m) => TwoFrames(m.gas)  BY Frames DEF IsMachine
  <2> QED BY <1>2, <2>1, <2>2, Prices DEF Simply, Op, IsEvent, InOrder
<1>3. CASE e = Simply("panic")  BY <1>3, Prices DEF Simply, Op, IsEvent, InOrder
<1> QED BY <1>1, <1>2, <1>3 DEF Instructions

LEMMA EndKinds ==
    ASSUME NEW m, OneFrame(m.gas), NEW e, NEW how, NEW param, e = Ends(how, param)
    PROVE  IsEvent(m, e) /\ e.what = "end" /\ e.hook = how /\ e.param = param
BY Prices DEF Ends, Simply, Op, IsEvent

\* Every event of a program is of its kind and comes in its phase.
LEMMA EventKinds ==
    ASSUME NEW m, IsMachine(m), NEW e \in Events(m), mode \in {"OneTx", "Batch"}
    PROVE  IsEvent(m, e) /\ InOrder(m, e, mode)
<1>1. CASE e \in Instructions(m) \union {Simply("panic")}  BY <1>1, InstructionKinds
<1>2. CASE InBootloader(m) /\ \E code \in BootloaderErrors : e = Ends("Revert", code)
  <2>1. PICK code \in BootloaderErrors : e = Ends("Revert", code)  BY <1>2
  <2>2. OneFrame(m.gas)  BY <1>2, Frames
  <2>3. IsEvent(m, e) /\ e.what = "end" /\ e.hook = "Revert" /\ e.param = code  BY <2>1, <2>2, EndKinds
  <2> QED BY <2>3 DEF InOrder
<1>3. CASE InBootloader(m) /\ mode = "OneTx" /\ e \in OneTxEvents(m)
  <2>2. OneFrame(m.gas)  BY <1>3, Frames
  <2>3. CASE \E name, param, next : e = Hook(name, param, next) /\ TxHook(m, e)
    <3>1. PICK name, param, next : e = Hook(name, param, next) /\ TxHook(m, e)  BY <2>3
    <3>2. IsEvent(m, e) /\ e.what = "hook"  BY <2>2, <3>1, HookKinds
    <3> QED BY <1>3, <3>1, <3>2 DEF InOrder
  <2>4. CASE /\ m.phase \in {"begin", "validated"}
             /\ e \in [what : {"store"}, cost : {<<0, 0>>}, hook : {"none"}, param : {0, 1}, next : {"executed"}]
    BY <1>3, <2>2, <2>4, Prices DEF IsEvent, InOrder
  <2>5. \A name, param, next : e = Hook(name, param, next) => e.hook = name /\ e.param = param /\ e.next = next
    BY DEF Hook, Op
  <2>6. CASE m.phase \in {"begin", "validated"}
    <3>1. \/ e = Hook("AccountValidationEntered", 0, "validation")
          \/ e \in [what : {"store"}, cost : {<<0, 0>>}, hook : {"none"}, param : {0, 1}, next : {"executed"}]
          \/ \E ok \in {0, 1} : e = Hook("PostResult", ok, "executed")
      BY <1>3, <2>6 DEF OneTxEvents
    <3> QED BY <2>3, <2>4, <2>5, <2>6, <3>1 DEF TxHook
  <2>7. CASE m.phase = "validation"
    <3>1. e = Hook("ValidationExited", 0, "validated")  BY <1>3, <2>7 DEF OneTxEvents
    <3> QED BY <2>3, <2>5, <2>7, <3>1 DEF TxHook
  <2>8. CASE m.phase = "executed"
    <3>1. \E p \in Proposals : e = Hook("AskOperatorForRefund", p, "asked")  BY <1>3, <2>8 DEF OneTxEvents
    <3> QED BY <2>3, <2>5, <2>8, <3>1 DEF TxHook
  <2>9. CASE m.phase = "asked"
    <3>1. e = Hook("NotifyAboutRefund", 1, "refunded")  BY <1>3, <2>9 DEF OneTxEvents
    <3> QED BY <2>3, <2>5, <2>9, <3>1 DEF TxHook
  <2>10. CASE m.phase = "refunded"
    <3>1. e = Hook("TxHasEnded", 0, "ended")  BY <1>3, <2>10 DEF OneTxEvents
    <3> QED BY <2>3, <2>5, <2>10, <3>1 DEF TxHook
  <2> QED BY <1>3, <2>6, <2>7, <2>8, <2>9, <2>10 DEF OneTxEvents
<1>4. CASE InBootloader(m) /\ mode = "Batch" /\ e \in BatchEvents(m)
  <2>2. OneFrame(m.gas)  BY <1>4, Frames
  <2>3. CASE \E name, param, next : e = Hook(name, param, next) /\ TipHook(m, e)
    <3>1. PICK name, param, next : e = Hook(name, param, next) /\ TipHook(m, e)  BY <2>3
    <3>2. IsEvent(m, e) /\ e.what = "hook"  BY <2>2, <3>1, HookKinds
    <3> QED BY <1>4, <3>1, <3>2 DEF InOrder
  <2>4. \A name, param, next : e = Hook(name, param, next) => e.hook = name /\ e.param = param /\ e.next = next
    BY DEF Hook, Op
  <2>5. CASE m.phase = "begin"
    <3>1. e = Hook("FinalBatchInfo", 0, "tip")  BY <1>4, <2>5 DEF BatchEvents
    <3> QED BY <2>3, <2>4, <2>5, <3>1 DEF TipHook
  <2>6. CASE m.phase = "tip"
    <3>1. e = Hook("PubdataRequested", 0, "pubdata")  BY <1>4, <2>6 DEF BatchEvents
    <3> QED BY <2>3, <2>4, <2>6, <3>1 DEF TipHook
  <2>7. CASE m.phase = "pubdata"
    <3>1. e = Ends("Ok", 0)  BY <1>4, <2>7 DEF BatchEvents
    <3>2. IsEvent(m, e) /\ e.what = "end" /\ e.hook = "Ok"  BY <2>2, <3>1, EndKinds
    <3> QED BY <1>4, <2>7, <3>2 DEF InOrder
  <2> QED BY <1>4, <2>5, <2>6, <2>7 DEF BatchEvents
<1> QED BY <1>1, <1>2, <1>3, <1>4 DEF Events, BootloaderEvents

-----------------------------------------------------------------------------
(***************************************************************************)
(* The fast VM.                                                            *)
(***************************************************************************)
IsFast(f) ==
    /\ f = [m |-> f.m, bs |-> f.bs, left |-> f.left, split |-> f.split, track |-> f.track, out |-> f.out,
            last |-> f.last, before |-> f.before, published |-> f.published, suggested |-> f.suggested,
            refunded |-> f.refunded, result |-> f.result]
    /\ IsMachine(f.m) /\ IsNotes(f.bs)

\* A step that is no hook, or that is not paid.
LEMMA FastPlainStep ==
    ASSUME NEW f, IsFast(f), f.m.ended = "no", NEW e, IsEvent(f.m, e), e.what # "hook" \/ ~ Pays(f.m, e.cost),
           NEW g, g = FastStep(f, e), NEW n, n = Executed(f.m, e)
    PROVE  /\ IsFast(g) /\ g.m = n
           /\ g.bs = f.bs /\ g.left = f.left /\ g.split = f.split /\ g.track = f.track /\ g.last = f.last
           /\ g.before = f.before /\ g.published = f.published /\ g.suggested = f.suggested /\ g.refunded = f.refunded
           /\ g.out = (f.out \/ (f.track /\ PanicsWithoutGas(f.m, e)))
           /\ n.ended = "no" => g.result = f.result
           /\ n.ended = "Ok" => g.result = "Success"
           /\ n.ended = "Revert" => g.result = RevertResult(e.param)
           /\ n.ended = "Panic" => g.result \in {"BootloaderOutOfGas", "VMPanic"}
<1> DEFINE out == f.out \/ (f.track /\ PanicsWithoutGas(f.m, e))
<1>0. PICK after : after = [f EXCEPT !.m = n, !.out = out]  OBVIOUS
<1>1. IsMachine(n)  BY PaidEvents, UnpaidEvents DEF IsFast
<1>2. g = CASE after.m.ended # "no" -> [after EXCEPT !.result = FastEnd(after, e)]
            [] after.m.ended = "no" /\ e.what = "hook" /\ Pays(f.m, e.cost) -> FastHook(after, e)
            [] OTHER -> after
  BY <1>0 DEF FastStep
<1> HIDE DEF out
<1>3. /\ after.m = n /\ after.bs = f.bs /\ after.left = f.left /\ after.split = f.split /\ after.track = f.track
      /\ after.last = f.last /\ after.before = f.before /\ after.published = f.published
      /\ after.suggested = f.suggested /\ after.refunded = f.refunded /\ after.result = f.result
      /\ after.out = out /\ IsFast(after)
  BY Zenon, <1>0, <1>1 DEF IsFast
<1>4. n.ended = "Ok" => FastEnd(after, e) = "Success"  BY <1>3 DEF FastEnd
<1>5. n.ended = "Revert" => FastEnd(after, e) = RevertResult(e.param)  BY <1>3 DEF FastEnd
<1>6. n.ended = "Panic" => FastEnd(after, e) \in {"BootloaderOutOfGas", "VMPanic"}  BY <1>3 DEF FastEnd
<1>7. CASE n.ended = "no"
  <2>1. g = after  BY <1>2, <1>3, <1>7
  <2> QED BY <1>3, <1>7, <2>1 DEF out
<1>8. CASE n.ended # "no"
  <2>1. g = [after EXCEPT !.result = FastEnd(after, e)]  BY <1>2, <1>3, <1>8
  <2>2. /\ g.m = n /\ g.bs = f.bs /\ g.left = f.left /\ g.split = f.split /\ g.track = f.track
        /\ g.last = f.last /\ g.before = f.before /\ g.published = f.published
        /\ g.suggested = f.suggested /\ g.refunded = f.refunded /\ g.result = FastEnd(after, e)
        /\ g.out = after.out /\ IsFast(g)
    BY <1>3, <2>1 DEF IsFast
  <2> QED BY <1>3, <1>4, <1>5, <1>6, <1>8, <2>2 DEF out
<1> QED BY <1>7, <1>8

\* What a hook makes of the fast VM; n is the machine after the write that calls it.
RefundAt(n, e, before) == RefundFor(e.param, saturating_sub(n.counter, before))

FastHooked(f, g, n, e) ==
    /\ IsFast(g) /\ g.m.phase = n.phase /\ g.m.counter = n.counter /\ g.m.ended = n.ended
    /\ e.hook = "AccountValidationEntered" =>
          \E given \in Nat, rest \in Nat :
              /\ given <= f.left /\ given + rest = n.gas[1] /\ (n.gas[1] <= f.left => rest = 0)
              /\ g.m.gas = <<given>> /\ g.split = <<given, rest>> /\ g.track = (rest > 0) /\ g.left = f.left
    /\ e.hook = "ValidationExited" =>
          /\ g.m.gas = <<n.gas[1] + f.split[2]>> /\ g.left = f.left - (f.split[1] - n.gas[1])
          /\ g.split = <<>> /\ g.track = FALSE
    /\ e.hook \notin {"AccountValidationEntered", "ValidationExited"} =>
          g.m.gas = n.gas /\ g.split = f.split /\ g.track = f.track /\ g.left = f.left
    /\ g.result = CASE e.hook = "ValidationExited" -> (IF f.out THEN "ValidationOutOfGas" ELSE f.result)
                    [] e.hook = "TxHasEnded" -> (IF f.last # "none" THEN f.last ELSE UnpostedResult(n))
                    [] OTHER -> f.result
    /\ g.last = IF e.hook = "PostResult" THEN PostedResult(e.param) ELSE f.last
    /\ g.m.heap = CASE e.hook = "AskOperatorForRefund" -> [n.heap EXCEPT !.refund = <<RefundAt(n, e, f.before)>>]
                    [] e.hook = "FinalBatchInfo" -> [n.heap EXCEPT !.fictive = @ + 1]
                    [] e.hook = "PubdataRequested" -> [n.heap EXCEPT !.pubdata = @ + 1]
                    [] OTHER -> n.heap
    /\ g.bs = CASE e.hook = "AskOperatorForRefund" -> [f.bs EXCEPT !.refund = <<RefundAt(n, e, f.before)>>]
                [] e.hook = "FinalBatchInfo" -> [f.bs EXCEPT !.fictive = @ + 1]
                [] e.hook = "PubdataRequested" -> [f.bs EXCEPT !.pubdata = @ + 1]
                [] OTHER -> f.bs
    /\ IF e.hook = "AskOperatorForRefund"
       THEN /\ g.suggested = <<RefundAt(n, e, f.before)>>
            /\ g.published = saturating_sub(n.counter, f.before)
            /\ g.before = n.counter
       ELSE g.suggested = f.suggested /\ g.published = f.published /\ g.before = f.before
    /\ g.refunded = IF e.hook = "NotifyAboutRefund" THEN e.param ELSE f.refunded

HookNames ==
    {"AccountValidationEntered", "ValidationExited", "PostResult", "AskOperatorForRefund", "NotifyAboutRefund",
     "TxHasEnded", "FinalBatchInfo", "PubdataRequested"}

\* The hooks themselves.
LEMMA FastHooks ==
    ASSUME NEW f, IsFast(f), OneFrame(f.m.gas), f.left \in Nat, NEW e, e.hook \in HookNames,
           e.hook = "ValidationExited" => f.split[1] \in Nat /\ f.split[2] \in Nat,
           NEW g, g = FastHook(f, e)
    PROVE  FastHooked(f, g, f.m, e) /\ g.out = f.out
<1>1. IsMachine(f.m) /\ f.m.gas = <<f.m.gas[1]>> /\ f.m.gas[1] \in Nat /\ Remaining(f.m) = f.m.gas[1]
  BY Frames DEF IsFast
<1>2. CASE e.hook = "AccountValidationEntered"
  <2>1. PICK given : given = IF f.m.gas[1] <= f.left THEN f.m.gas[1] ELSE f.left  OBVIOUS
  <2>2. PICK rest : rest = f.m.gas[1] - given  OBVIOUS
  <2>3. /\ given \in Nat /\ rest \in Nat /\ given <= f.left /\ given + rest = f.m.gas[1]
        /\ f.m.gas[1] <= f.left => rest = 0
    BY <1>1, <2>1, <2>2
  <2>4. PICK track : track = (f.m.gas[1] > given)  OBVIOUS
  <2>5. track = (rest > 0)  BY <1>1, <2>2, <2>3, <2>4
  <2>6. g = [f EXCEPT !.split = <<given, rest>>, !.track = track, !.m = SetGas(f.m, given)]
    BY <1>1, <1>2, <2>1, <2>2, <2>4 DEF FastHook, AccountValidationEntered
  <2>7. PICK m : m = SetGas(f.m, given)  OBVIOUS
  <2>8. IsMachine(m) /\ SameButGas(f.m, m) /\ m.gas = <<given>>  BY Zenon, <1>1, <2>3, <2>7, GasIsSet
  <2>9. /\ g.m = m /\ g.bs = f.bs /\ g.left = f.left /\ g.split = <<given, rest>> /\ g.track = track /\ g.out = f.out
        /\ g.last = f.last /\ g.before = f.before /\ g.published = f.published
        /\ g.suggested = f.suggested /\ g.refunded = f.refunded /\ g.result = f.result /\ IsFast(g)
    BY Zenon, <2>6, <2>7, <2>8 DEF IsFast
  <2> QED BY <1>2, <2>3, <2>5, <2>8, <2>9 DEF FastHooked, SameButGas
<1>3. CASE e.hook = "ValidationExited"
  <2>0. PICK gas : gas = Remaining(f.m) + f.split[2]  OBVIOUS
  <2>1. PICK m : m = SetGas(f.m, gas)  OBVIOUS
  <2>2. IsMachine(m) /\ SameButGas(f.m, m) /\ m.gas = <<f.m.gas[1] + f.split[2]>>
    <3>1. gas \in Nat /\ gas = f.m.gas[1] + f.split[2]  BY <1>1, <1>3, <2>0
    <3>2. IsMachine(m) /\ SameButGas(f.m, m) /\ m.gas = <<gas>>  BY Zenon, <1>1, <2>1, <3>1, GasIsSet
    <3> QED BY <3>1, <3>2
  <2>3. PICK h : h = GasAfterValidation(f)  OBVIOUS
  <2>4. h = [f EXCEPT !.left = @ - (f.split[1] - Remaining(f.m)), !.m = m, !.split = <<>>]
    BY <2>0, <2>1, <2>3 DEF GasAfterValidation
  <2>5. /\ h.m = m /\ h.bs = f.bs /\ h.left = f.left - (f.split[1] - f.m.gas[1]) /\ h.split = <<>>
        /\ h.track = f.track /\ h.out = f.out
        /\ h.last = f.last /\ h.before = f.before /\ h.published = f.published
        /\ h.suggested = f.suggested /\ h.refunded = f.refunded /\ h.result = f.result /\ IsFast(h)
    BY Zenon, <1>1, <2>2, <2>4 DEF IsFast
  <2>6. PICK result : result = IF f.out THEN "ValidationOutOfGas" ELSE f.result  OBVIOUS
  <2>7. g = [h EXCEPT !.track = FALSE, !.result = result]
    BY <1>3, <2>3, <2>5, <2>6 DEF FastHook, ValidationExited
  <2>8. /\ g.m = m /\ g.bs = f.bs /\ g.left = h.left /\ g.split = <<>> /\ g.track = FALSE /\ g.out = f.out
        /\ g.last = f.last /\ g.before = f.before /\ g.published = f.published
        /\ g.suggested = f.suggested /\ g.refunded = f.refunded /\ g.result = result /\ IsFast(g)
    BY ZenonT(40), <2>5, <2>7 DEF IsFast
  <2> QED BY <1>3, <2>2, <2>5, <2>6, <2>8 DEF FastHooked, SameButGas
<1>4. CASE e.hook \in {"PostResult", "NotifyAboutRefund", "TxHasEnded"}
  <2>1. g = CASE e.hook = "PostResult" -> [f EXCEPT !.last = PostedResult(e.param)]
              [] e.hook = "NotifyAboutRefund" -> [f EXCEPT !.refunded = e.param]
              [] e.hook = "TxHasEnded" -> [f EXCEPT !.result = IF f.last # "none" THEN f.last ELSE UnpostedResult(f.m)]
    BY <1>4 DEF FastHook, TxHasEnded
  <2>2. CASE e.hook = "PostResult"
    <3>1. g = [f EXCEPT !.last = PostedResult(e.param)]  BY <2>1, <2>2
    <3> QED BY <2>2, <3>1 DEF IsFast, FastHooked
  <2>3. CASE e.hook = "NotifyAboutRefund"
    <3>1. g = [f EXCEPT !.refunded = e.param]  BY <2>1, <2>3
    <3> QED BY <2>3, <3>1 DEF IsFast, FastHooked
  <2>4. CASE e.hook = "TxHasEnded"
    <3>1. PICK result : result = IF f.last # "none" THEN f.last ELSE UnpostedResult(f.m)  OBVIOUS
    <3>2. g = [f EXCEPT !.result = result]  BY <2>1, <2>4, <3>1
    <3> QED BY <2>4, <3>1, <3>2 DEF IsFast, FastHooked
  <2> QED BY <1>4, <2>2, <2>3, <2>4
<1>5. CASE e.hook = "AskOperatorForRefund"
  <2>1. PICK refund : refund = RefundAt(f.m, e, f.before)  OBVIOUS
  <2>2. PICK published : published = saturating_sub(f.m.counter, f.before)  OBVIOUS
  <2>3. PICK h : h = Refunded(f, refund)  OBVIOUS
  <2>4. g = [h EXCEPT !.published = published, !.before = f.m.counter, !.suggested = <<refund>>]
    BY <1>5, <2>1, <2>2, <2>3 DEF FastHook, AskOperatorForRefund, RefundAt
  <2>5. h = [f EXCEPT !.m.heap.refund = <<refund>>, !.bs.refund = <<refund>>]  BY <2>3 DEF Refunded
  <2>6. /\ h.m.heap = [f.m.heap EXCEPT !.refund = <<refund>>] /\ h.bs = [f.bs EXCEPT !.refund = <<refund>>]
        /\ h.m.phase = f.m.phase /\ h.m.gas = f.m.gas /\ h.m.counter = f.m.counter /\ h.m.ended = f.m.ended
        /\ h.left = f.left /\ h.split = f.split /\ h.track = f.track /\ h.out = f.out /\ h.last = f.last
        /\ h.refunded = f.refunded /\ h.result = f.result /\ IsFast(h)
    BY Zenon, <1>1, <2>5 DEF IsFast, IsMachine, IsHeap, IsNotes
  <2>7. /\ g.m = h.m /\ g.bs = h.bs /\ g.left = h.left /\ g.split = h.split /\ g.track = h.track /\ g.out = h.out
        /\ g.last = h.last /\ g.before = f.m.counter /\ g.published = published
        /\ g.suggested = <<refund>> /\ g.refunded = h.refunded /\ g.result = h.result /\ IsFast(g)
    BY Zenon, <2>4, <2>6 DEF IsFast
  <2> QED BY <1>5, <2>1, <2>2, <2>6, <2>7 DEF FastHooked
<1>6. CASE e.hook = "FinalBatchInfo"
  <2>0. PICK a, b : a = f.m.heap.fictive + 1 /\ b = f.bs.fictive + 1  OBVIOUS
  <2>1. g = [f EXCEPT !.m.heap.fictive = a, !.bs.fictive = b]
    BY <1>6, <2>0 DEF FastHook, WithFictiveBlock
  <2>2. PICK heap, bs : heap = [f.m.heap EXCEPT !.fictive = a] /\ bs = [f.bs EXCEPT !.fictive = b]  BY Zenon
  <2>3. PICK m : m = [f.m EXCEPT !.heap = heap]  BY Zenon
  <2>4. /\ m.heap = heap /\ m.phase = f.m.phase /\ m.gas = f.m.gas /\ m.counter = f.m.counter /\ m.ended = f.m.ended
        /\ IsMachine(m) /\ IsNotes(bs)
    <3>1. IsHeap(heap) /\ IsNotes(bs)  BY <1>1, <2>2 DEF IsFast, IsMachine, IsHeap, IsNotes
    <3> QED BY <1>1, <2>3, <3>1 DEF IsMachine
  <2>5. g = [f EXCEPT !.m = m, !.bs = bs]  BY <2>1, <2>2, <2>3
  <2>6. /\ g.m = m /\ g.bs = bs
        /\ g.left = f.left /\ g.split = f.split /\ g.track = f.track /\ g.out = f.out /\ g.last = f.last
        /\ g.before = f.before /\ g.published = f.published /\ g.suggested = f.suggested
        /\ g.refunded = f.refunded /\ g.result = f.result /\ IsFast(g)
    BY Zenon, <2>4, <2>5 DEF IsFast
  <2> QED BY <1>6, <2>0, <2>2, <2>4, <2>6 DEF FastHooked
<1>7. CASE e.hook = "PubdataRequested"
  <2>0. PICK a, b : a = f.m.heap.pubdata + 1 /\ b = f.bs.pubdata + 1  OBVIOUS
  <2>1. g = [f EXCEPT !.m.heap.pubdata = a, !.bs.pubdata = b]
    BY <1>7, <2>0 DEF FastHook, WithPubdata
  <2>2. PICK heap, bs : heap = [f.m.heap EXCEPT !.pubdata = a] /\ bs = [f.bs EXCEPT !.pubdata = b]  BY Zenon
  <2>3. PICK m : m = [f.m EXCEPT !.heap = heap]  BY ZenonT(20)
  <2>4. /\ m.heap = heap /\ m.phase = f.m.phase /\ m.gas = f.m.gas /\ m.counter = f.m.counter /\ m.ended = f.m.ended
        /\ IsMachine(m) /\ IsNotes(bs)
    <3>1. IsHeap(heap) /\ IsNotes(bs)  BY <1>1, <2>2 DEF IsFast, IsMachine, IsHeap, IsNotes
    <3> QED BY <1>1, <2>3, <3>1 DEF IsMachine
  <2>5. g = [f EXCEPT !.m = m, !.bs = bs]  BY <2>1, <2>2, <2>3
  <2>6. /\ g.m = m /\ g.bs = bs
        /\ g.left = f.left /\ g.split = f.split /\ g.track = f.track /\ g.out = f.out /\ g.last = f.last
        /\ g.before = f.before /\ g.published = f.published /\ g.suggested = f.suggested
        /\ g.refunded = f.refunded /\ g.result = f.result /\ IsFast(g)
    BY ZenonT(20), <2>4, <2>5 DEF IsFast
  <2> QED BY <1>7, <2>0, <2>2, <2>4, <2>6 DEF FastHooked
<1> QED BY <1>2, <1>3, <1>4, <1>5, <1>6, <1>7 DEF HookNames

\* A step that calls a hook.
LEMMA FastHookStep ==
    ASSUME NEW f, IsFast(f), f.m.ended = "no", f.left \in Nat, f.out \in BOOLEAN,
           NEW e, IsEvent(f.m, e), e.what = "hook", Pays(f.m, e.cost), e.hook \in HookNames,
           e.hook = "ValidationExited" => f.split[1] \in Nat /\ f.split[2] \in Nat,
           NEW g, g = FastStep(f, e), NEW n, n = Executed(f.m, e)
    PROVE  /\ IsMachine(n) /\ Effect(f.m, n, e) /\ OneFrame(n.gas) /\ n.gas[1] = f.m.gas[1] - e.cost[2]
           /\ FastHooked(f, g, n, e) /\ g.out = f.out
<1>1. IsMachine(n) /\ Effect(f.m, n, e)  BY PaidEvents DEF IsFast
<1>2. OneFrame(n.gas) /\ n.gas[1] = f.m.gas[1] - e.cost[2]
  <2>1. /\ OneFrame(f.m.gas) /\ Remaining(f.m) = f.m.gas[1] /\ f.m.gas[1] \in Nat
        /\ e.cost[2] \in Nat /\ f.m.gas[1] >= e.cost[2]
    BY Frames DEF IsEvent, IsFast, Pays
  <2>2. n.gas = <<f.m.gas[1] - e.cost[2]>>  BY <1>1, <2>1 DEF Effect, Spent
  <2>3. f.m.gas[1] - e.cost[2] \in Nat  BY <2>1
  <2> QED BY <2>2, <2>3 DEF OneFrame
<1>3. ~PanicsWithoutGas(f.m, e)  BY DEF PanicsWithoutGas
<1>4. PICK out : out = (f.out \/ (f.track /\ PanicsWithoutGas(f.m, e)))  OBVIOUS
<1>5. out = f.out  BY <1>3, <1>4
<1>6. PICK after : after = [f EXCEPT !.m = n, !.out = out]  OBVIOUS
<1>7. g = CASE after.m.ended # "no" -> [after EXCEPT !.result = FastEnd(after, e)]
            [] after.m.ended = "no" /\ e.what = "hook" /\ Pays(f.m, e.cost) -> FastHook(after, e)
            [] OTHER -> after
  BY <1>4, <1>6 DEF FastStep
<1>8. /\ after.m = n /\ after.bs = f.bs /\ after.left = f.left /\ after.split = f.split /\ after.track = f.track
      /\ after.last = f.last /\ after.before = f.before /\ after.published = f.published
      /\ after.suggested = f.suggested /\ after.refunded = f.refunded /\ after.result = f.result
      /\ after.out = f.out /\ IsFast(after)
  BY Zenon, <1>1, <1>5, <1>6 DEF IsFast
<1>9. n.ended = "no"  BY <1>1 DEF Effect
<1>10. g = FastHook(after, e)  BY <1>7, <1>8, <1>9
<1>11. FastHooked(after, g, n, e) /\ g.out = f.out  BY <1>2, <1>8, <1>10, FastHooks
<1>12. FastHooked(f, g, n, e)  BY <1>8, <1>11 DEF FastHooked
<1> QED BY <1>1, <1>2, <1>11, <1>12

-----------------------------------------------------------------------------
Phases(md) ==
    IF md = "OneTx" THEN {"begin", "validation", "validated", "executed", "asked", "refunded", "ended"}
    ELSE {"begin", "tip", "pubdata"}

\* A machine with its notes: the refund is where it should be, and so is the end of the batch.
Provided(m, bs, suggested, result, md) ==
    /\ m.phase \in Phases(md)
    /\ m.heap.refund = suggested /\ bs.refund = suggested
    /\ m.heap.fictive = (IF m.phase \in {"tip", "pubdata"} THEN 1 ELSE 0) /\ bs.fictive = m.heap.fictive
    /\ m.heap.pubdata = (IF m.phase = "pubdata" THEN 1 ELSE 0) /\ bs.pubdata = m.heap.pubdata
    /\ result = "none" => m.ended = "no"
    /\ md = "Batch" /\ result = "Success" => m.phase = "pubdata"

\* The gas of a validation: it was given no more than is left of the limit, and has no more.
FastGas(f) ==
    IF f.m.phase = "validation"
    THEN /\ \E given \in Nat, rest \in Nat :
               /\ f.split = <<given, rest>> /\ given <= f.left /\ Total(f.m.gas) <= given
               /\ f.track = (rest > 0)
    ELSE f.split = <<>> /\ f.track = FALSE

FastInv(f, lim, md) ==
    /\ IsFast(f)
    /\ Provided(f.m, f.bs, f.suggested, f.result, md)
    /\ f.left \in 0..lim
    /\ FastGas(f)
    /\ f.out \in BOOLEAN
    /\ f.out => f.result \in Halts \union {"none"}
    /\ f.out /\ f.result = "none" => f.m.phase = "validation"
    /\ f.last \in {"none", "Success", "Revert"}

IsLatest(l) ==
    /\ l = [m |-> l.m, bs |-> l.bs, used |-> l.used, validating |-> l.validating, processed |-> l.processed,
            final_info |-> l.final_info, posted |-> l.posted, out_of_gas |-> l.out_of_gas, pending |-> l.pending,
            suggested |-> l.suggested, refunded |-> l.refunded, published |-> l.published, before |-> l.before,
            pubdata_requested |-> l.pubdata_requested, result |-> l.result]
    /\ IsMachine(l.m) /\ IsNotes(l.bs)

\* Between two cycles no request is pending.
LatestInv(l, lim, md) ==
    /\ IsLatest(l)
    /\ Provided(l.m, l.bs, l.suggested, l.result, md)
    /\ l.validating = (l.m.phase = "validation")
    /\ l.used \in Nat
    /\ l.result \notin Halts => l.used <= lim
    /\ l.result = "none" => l.processed = FALSE /\ l.out_of_gas = FALSE
    /\ l.final_info = FALSE /\ l.pubdata_requested = FALSE /\ l.pending = <<>>
    /\ l.posted \in {"none", "Success", "Revert"}

\* Gas is hidden from the fast VM only, and what the reference VM has counted was taken there.
CoupledGas(f, l, lim) ==
    /\ OneFrame(f.m.gas) <=> OneFrame(l.m.gas)
    /\ f.m.gas[1] <= l.m.gas[1]
    /\ TwoFrames(f.m.gas) => f.m.gas[2] <= l.m.gas[2]
    /\ Total(f.m.gas) + Hidden(f) = Total(l.m.gas)
    /\ Hidden(f) = 0 => f.m.gas = l.m.gas
    /\ l.used <= (lim - f.left) + (IF f.m.phase = "validation" THEN f.split[1] - Total(f.m.gas) ELSE 0)

Coupled(f, l, lim) ==
    /\ ~f.out
    /\ SameResult(f.result, l.result)
    /\ f.m.phase = l.m.phase /\ f.m.heap = l.m.heap /\ f.m.counter = l.m.counter
    /\ f.bs = l.bs /\ f.suggested = l.suggested /\ f.refunded = l.refunded /\ f.published = l.published
    /\ f.last = l.posted
    /\ f.m.phase \in {"begin", "validation", "validated", "executed"} => f.before = l.before
    /\ CoupledGas(f, l, lim)

RunInv ==
    /\ mode \in {"OneTx", "Batch"} /\ limit \in Nat
    /\ FastInv(fast, limit, mode)
    /\ LatestInv(latest, limit, mode)
    /\ apart = "no" => Coupled(fast, latest, limit)

-----------------------------------------------------------------------------
\* The errors of the bootloader halt a transaction.
LEMMA ErrorsHalt ==
    ASSUME NEW code \in BootloaderErrors
    PROVE  RevertResult(code) = "Halt"
<1>1. code \in Nat /\ code # 0  BY RunAssumption
<1>2. BootloaderErrorCode(code) # "EthCall"
  <2>1. Len(BootloaderErrorCodes) = 30  BY DEF BootloaderErrorCodes
  <2>2. \A i \in 2..30 : BootloaderErrorCodes[i] # "EthCall"  BY DEF BootloaderErrorCodes
  <2> QED BY <1>1, <2>1, <2>2 DEF BootloaderErrorCode
<1>3. <<code>> # <<>> /\ <<code>>[1] = code  OBVIOUS
<1>4. parse_error(<<code>>)[1] # "TxReverted"  BY <1>2, <1>3 DEF parse_error
<1> QED BY <1>4 DEF RevertResult

\* What a step that calls no hook leaves of a machine.
LEMMA PlainStep ==
    ASSUME NEW m, IsMachine(m), m.ended = "no", NEW e, IsEvent(m, e), NEW md, InOrder(m, e, md),
           e.what # "hook" \/ ~ Pays(m, e.cost), NEW n, n = Executed(m, e)
    PROVE  /\ n.heap.refund = m.heap.refund /\ n.heap.fictive = m.heap.fictive /\ n.heap.pubdata = m.heap.pubdata
           /\ \/ n.phase = m.phase
              \/ md = "OneTx" /\ m.phase \in {"begin", "validated"} /\ n.phase = "executed" /\ n.ended = "no"
           /\ \/ n.ended \in {"no", "Panic"}
              \/ n.ended = "Revert" /\ e.param \in BootloaderErrors
              \/ n.ended = "Ok" /\ md = "Batch" /\ m.phase = "pubdata"
<1>1. CASE ~Pays(m, e.cost)
  <2>1. n.phase = m.phase /\ n.heap = m.heap  BY <1>1, UnpaidEvents
  <2>2. n.ended \in {"no", "Panic"}  BY <1>1, UnpaidEvents DEF IsMachine
  <2> QED BY <2>1, <2>2
<1>2. CASE Pays(m, e.cost) /\ e.what # "hook"
  <2>1. Effect(m, n, e)  BY <1>2, PaidEvents
  <2>2. n.heap = m.heap \/ n.heap = [m.heap EXCEPT !.success = e.param]  BY <2>1 DEF Effect
  <2>3. n.heap.refund = m.heap.refund /\ n.heap.fictive = m.heap.fictive /\ n.heap.pubdata = m.heap.pubdata
    BY <2>2 DEF IsMachine, IsHeap
  <2>4. CASE e.what = "store"
    <3>1. n.phase = "executed" /\ n.ended = "no"  BY <2>1, <2>4 DEF Effect
    <3> QED BY <2>3, <2>4, <3>1 DEF InOrder
  <2>5. CASE e.what = "end"
    <3>1. n.phase = m.phase /\ n.ended = e.hook  BY <2>1, <2>5 DEF Effect
    <3> QED BY <2>3, <2>5, <3>1 DEF InOrder
  <2>6. CASE e.what \notin {"store", "end"}
    <3>1. n.phase = m.phase /\ n.ended \in {"no", "Panic"}  BY ZenonT(20), <1>2, <2>1, <2>6 DEF Effect
    <3> QED BY <2>3, <3>1
  <2> QED BY <2>4, <2>5, <2>6
<1> QED BY <1>1, <1>2

LEMMA FastPlainInv ==
    ASSUME NEW lim \in Nat, NEW md \in {"OneTx", "Batch"}, NEW f, FastInv(f, lim, md), f.result = "none",
           NEW e, IsEvent(f.m, e), InOrder(f.m, e, md), e.what # "hook" \/ ~ Pays(f.m, e.cost),
           NEW g, g = FastStep(f, e)
    PROVE  FastInv(g, lim, md)
<1>1. IsFast(f) /\ IsMachine(f.m) /\ f.m.ended = "no"  BY DEF FastInv, IsFast, Provided
<1>2. PICK n : n = Executed(f.m, e)  BY ZenonT(20)
<1>3. IsMachine(n) /\ Total(n.gas) <= Total(f.m.gas) /\ Total(n.gas) \in Nat /\ Total(f.m.gas) \in Nat
  BY ZenonT(20), <1>1, <1>2, GasIsSpent, Frames
<1>4. /\ n.heap.refund = f.m.heap.refund /\ n.heap.fictive = f.m.heap.fictive /\ n.heap.pubdata = f.m.heap.pubdata
      /\ \/ n.phase = f.m.phase
         \/ md = "OneTx" /\ f.m.phase \in {"begin", "validated"} /\ n.phase = "executed" /\ n.ended = "no"
      /\ \/ n.ended \in {"no", "Panic"}
         \/ n.ended = "Revert" /\ e.param \in BootloaderErrors
         \/ n.ended = "Ok" /\ md = "Batch" /\ f.m.phase = "pubdata"
  BY <1>1, <1>2, PlainStep
<1>5. /\ IsFast(g) /\ g.m = n
      /\ g.bs = f.bs /\ g.left = f.left /\ g.split = f.split /\ g.track = f.track /\ g.last = f.last
      /\ g.suggested = f.suggested
      /\ g.out = (f.out \/ (f.track /\ PanicsWithoutGas(f.m, e)))
  BY <1>1, <1>2, FastPlainStep
<1>6. /\ n.ended = "no" => g.result = "none"
      /\ n.ended = "Ok" => g.result = "Success"
      /\ n.ended = "Revert" => g.result = "Halt"
      /\ n.ended = "Panic" => g.result \in {"BootloaderOutOfGas", "VMPanic"}
  BY <1>1, <1>2, <1>4, FastPlainStep, ErrorsHalt
<1>7. Provided(g.m, g.bs, g.suggested, g.result, md)
  <2>1. g.m.phase \in Phases(md)  BY <1>4, <1>5 DEF FastInv, Provided, Phases
  <2>2. /\ g.m.phase \in {"tip", "pubdata"} <=> f.m.phase \in {"tip", "pubdata"}
        /\ g.m.phase = "pubdata" <=> f.m.phase = "pubdata"
    BY ZenonT(20), <1>4, <1>5
  <2>3. g.result = "none" => g.m.ended = "no"  BY ZenonT(20), <1>4, <1>5, <1>6
  <2>4. md = "Batch" /\ g.result = "Success" => g.m.phase = "pubdata"  BY <1>4, <1>5, <1>6
  <2> QED BY ZenonT(20), <1>4, <1>5, <2>1, <2>2, <2>3, <2>4 DEF FastInv, Provided
<1>8. FastGas(g)
  <2>1. CASE f.m.phase = "validation"
    <3>1. PICK given \in Nat, rest \in Nat : /\ f.split = <<given, rest>> /\ given <= f.left /\ Total(f.m.gas) <= given
                                             /\ f.track = (rest > 0)
      BY ZenonT(20), <2>1 DEF FastInv, FastGas
    <3>2. g.m.phase = "validation" /\ Total(g.m.gas) <= given  BY <1>3, <1>4, <1>5, <2>1, <3>1
    <3> QED BY <1>5, <3>1, <3>2 DEF FastGas
  <2>2. CASE f.m.phase # "validation"
    <3>1. g.m.phase # "validation"  BY ZenonT(20), <1>4, <1>5, <2>2
    <3>2. f.split = <<>> /\ f.track = FALSE  BY <2>2 DEF FastInv, FastGas
    <3> QED BY <1>5, <3>1, <3>2 DEF FastGas
  <2> QED BY <2>1, <2>2
<1>9. g.out \in BOOLEAN  BY <1>5 DEF FastInv
<1>10. g.out => f.m.phase = "validation"  BY ZenonT(20), <1>5 DEF FastInv, FastGas
<1>11. g.out => g.m.phase = "validation" /\ g.result \in Halts \union {"none"}
  BY <1>4, <1>5, <1>6, <1>10 DEF Halts
<1> QED BY <1>5, <1>7, <1>8, <1>9, <1>11 DEF FastInv

LEMMA FastHookInv ==
    ASSUME NEW lim \in Nat, NEW md \in {"OneTx", "Batch"}, NEW f, FastInv(f, lim, md), f.result = "none",
           NEW e, IsEvent(f.m, e), InOrder(f.m, e, md), e.what = "hook", Pays(f.m, e.cost),
           NEW g, g = FastStep(f, e)
    PROVE  FastInv(g, lim, md)
<1>1. IsFast(f) /\ IsMachine(f.m) /\ f.m.ended = "no" /\ f.left \in Nat /\ f.left <= lim /\ f.out \in BOOLEAN
  BY DEF FastInv, IsFast, Provided
<1>2. (md = "OneTx" /\ TxHook(f.m, e)) \/ (md = "Batch" /\ TipHook(f.m, e))  BY DEF InOrder
<1>3. e.hook \in HookNames  BY ZenonT(20), <1>2 DEF TxHook, TipHook, HookNames
<1>4. CASE f.m.phase = "validation"
  <2>1. e.hook = "ValidationExited" /\ e.next = "validated" /\ md = "OneTx"  BY ZenonT(20), <1>2, <1>4 DEF TxHook, TipHook
  <2>2. PICK given \in Nat, rest \in Nat : /\ f.split = <<given, rest>> /\ given <= f.left /\ Total(f.m.gas) <= given
                                           /\ f.track = (rest > 0)
    BY <1>4 DEF FastInv, FastGas
  <2>3. f.split[1] = given /\ f.split[2] = rest  BY <2>2
  <2>4. PICK n : n = Executed(f.m, e)  BY ZenonT(20)
  <2>5. /\ IsMachine(n) /\ Effect(f.m, n, e) /\ OneFrame(n.gas) /\ n.gas[1] = f.m.gas[1] - e.cost[2]
        /\ FastHooked(f, g, n, e) /\ g.out = f.out
    BY <1>1, <1>3, <2>3, <2>4, FastHookStep
  <2>6. n.phase = "validated" /\ n.heap = f.m.heap /\ n.ended = "no"  BY <1>1, <2>1, <2>5 DEF Effect
  <2>7. /\ IsFast(g) /\ g.m.phase = "validated" /\ g.m.heap = f.m.heap /\ g.m.ended = "no" /\ g.bs = f.bs
        /\ g.suggested = f.suggested /\ g.last = f.last /\ g.split = <<>> /\ g.track = FALSE
        /\ g.left = f.left - (given - n.gas[1])
        /\ g.result = IF f.out THEN "ValidationOutOfGas" ELSE "none"
    BY ZenonT(20), <2>1, <2>3, <2>5, <2>6 DEF FastHooked
  <2>8. g.left \in 0..lim
    <3>1. n.gas[1] \in Nat  BY Zenon, <2>5, Frames
    <3>2. n.gas[1] <= given
      <4>1. OneFrame(f.m.gas) /\ Total(f.m.gas) = f.m.gas[1] /\ f.m.gas[1] \in Nat /\ e.cost[2] \in Nat
        BY Zenon, <1>1, Frames DEF IsEvent
      <4> QED BY <2>2, <2>5, <4>1
    <3> QED BY <1>1, <2>2, <2>7, <3>1, <3>2
  <2>9. Provided(g.m, g.bs, g.suggested, g.result, md)
    BY ZenonT(20), <1>4, <2>1, <2>7 DEF FastInv, Provided, Phases
  <2>10. FastGas(g)  BY ZenonT(20), <2>7 DEF FastGas
  <2>11. (g.out => g.result = "ValidationOutOfGas") /\ g.out \in BOOLEAN  BY <1>1, <2>5, <2>7
  <2> QED BY ZenonT(20), <2>7, <2>8, <2>9, <2>10, <2>11 DEF FastInv, Halts
<1>5. CASE f.m.phase # "validation"
  <2>1. f.split = <<>> /\ f.track = FALSE /\ f.out = FALSE  BY <1>1, <1>5 DEF FastInv, FastGas
  <2>2. e.hook # "ValidationExited"  BY <1>2, <1>5 DEF TxHook, TipHook
  <2>3. PICK n : n = Executed(f.m, e)  BY ZenonT(20)
  <2>4. /\ IsMachine(n) /\ Effect(f.m, n, e) /\ OneFrame(n.gas) /\ n.gas[1] = f.m.gas[1] - e.cost[2]
        /\ FastHooked(f, g, n, e) /\ g.out = FALSE
    BY <1>1, <1>3, <2>1, <2>2, <2>3, FastHookStep
  <2>5. n.phase = e.next /\ n.ended = "no"  BY <1>1, <2>4 DEF Effect
  <2>6. n.heap.refund = f.m.heap.refund /\ n.heap.fictive = f.m.heap.fictive /\ n.heap.pubdata = f.m.heap.pubdata
    BY <1>1, <2>4 DEF Effect, IsMachine, IsHeap
  <2>7. IsFast(g) /\ g.m.phase = e.next /\ g.m.ended = "no" /\ g.left = f.left
    BY <2>2, <2>4, <2>5 DEF FastHooked
  <2>8. g.last \in {"none", "Success", "Revert"}
    BY <2>4 DEF FastInv, FastHooked, PostedResult
  <2>9. FastGas(g)
    <3>1. CASE e.hook = "AccountValidationEntered"
      <4>1. PICK given \in Nat, rest \in Nat :
                /\ given <= f.left /\ g.m.gas = <<given>> /\ g.split = <<given, rest>> /\ g.track = (rest > 0)
        BY <2>4, <3>1 DEF FastHooked
      <4>2. Total(g.m.gas) = given  BY <4>1 DEF Total
      <4>3. g.m.phase = "validation"  BY ZenonT(20), <1>2, <2>7, <3>1 DEF TxHook, TipHook
      <4> QED BY <2>7, <4>1, <4>2, <4>3 DEF FastGas
    <3>2. CASE e.hook # "AccountValidationEntered"
      <4>1. g.split = <<>> /\ g.track = FALSE  BY ZenonT(20), <2>1, <2>2, <2>4, <3>2 DEF FastHooked
      <4>2. g.m.phase # "validation"  BY <1>2, <2>7, <3>2 DEF TxHook, TipHook
      <4> QED BY <4>1, <4>2 DEF FastGas
    <3> QED BY <3>1, <3>2
  <2>10. Provided(g.m, g.bs, g.suggested, g.result, md)
    <3>1. g.m.phase \in Phases(md)  BY <1>2, <2>7 DEF TxHook, TipHook, Phases
    <3>2. IsHeap(n.heap) /\ IsNotes(f.bs)  BY <1>1, <2>4 DEF IsMachine, IsFast
    <3>3. CASE e.hook = "AskOperatorForRefund"
      <4>1. PICK refund : refund = <<RefundAt(n, e, f.before)>>  BY Zenon
      <4>2. /\ g.m.heap = [n.heap EXCEPT !.refund = refund] /\ g.bs = [f.bs EXCEPT !.refund = refund]
            /\ g.suggested = refund /\ g.result = "none" /\ g.m.phase = "asked" /\ f.m.phase = "executed" /\ md = "OneTx"
        BY <1>2, <2>4, <2>7, <3>3, <4>1 DEF FastHooked, TxHook, TipHook
      <4>3. /\ g.m.heap.refund = refund /\ g.m.heap.fictive = n.heap.fictive /\ g.m.heap.pubdata = n.heap.pubdata
            /\ g.bs.refund = refund /\ g.bs.fictive = f.bs.fictive /\ g.bs.pubdata = f.bs.pubdata
        BY <3>2, <4>2 DEF IsHeap, IsNotes
      <4> QED BY <2>6, <2>7, <3>1, <4>2, <4>3 DEF FastInv, Provided
    <3>4. CASE e.hook = "FinalBatchInfo"
      <4>1. /\ g.m.heap = [n.heap EXCEPT !.fictive = @ + 1] /\ g.bs = [f.bs EXCEPT !.fictive = @ + 1]
            /\ g.suggested = f.suggested /\ g.result = "none" /\ g.m.phase = "tip" /\ f.m.phase = "begin"
        BY <1>2, <2>4, <2>7, <3>4 DEF FastHooked, TxHook, TipHook
      <4>2. /\ g.m.heap.refund = n.heap.refund /\ g.m.heap.fictive = n.heap.fictive + 1 /\ g.m.heap.pubdata = n.heap.pubdata
            /\ g.bs.refund = f.bs.refund /\ g.bs.fictive = f.bs.fictive + 1 /\ g.bs.pubdata = f.bs.pubdata
        BY <3>2, <4>1 DEF IsHeap, IsNotes
      <4> QED BY <2>6, <2>7, <3>1, <4>1, <4>2 DEF FastInv, Provided
    <3>5. CASE e.hook = "PubdataRequested"
      <4>1. /\ g.m.heap = [n.heap EXCEPT !.pubdata = @ + 1] /\ g.bs = [f.bs EXCEPT !.pubdata = @ + 1]
            /\ g.suggested = f.suggested /\ g.result = "none" /\ g.m.phase = "pubdata" /\ f.m.phase = "tip"
        BY <1>2, <2>4, <2>7, <3>5 DEF FastHooked, TxHook, TipHook
      <4>2. /\ g.m.heap.refund = n.heap.refund /\ g.m.heap.fictive = n.heap.fictive /\ g.m.heap.pubdata = n.heap.pubdata + 1
            /\ g.bs.refund = f.bs.refund /\ g.bs.fictive = f.bs.fictive /\ g.bs.pubdata = f.bs.pubdata + 1
        BY <3>2, <4>1 DEF IsHeap, IsNotes
      <4> QED BY <2>6, <2>7, <3>1, <4>1, <4>2 DEF FastInv, Provided
    <3>6. CASE e.hook \notin {"AskOperatorForRefund", "FinalBatchInfo", "PubdataRequested"}
      <4>1. g.m.heap = n.heap /\ g.bs = f.bs /\ g.suggested = f.suggested  BY <2>4, <3>6 DEF FastHooked
      <4>2. md = "OneTx"  BY <1>2, <3>6 DEF TipHook
      <4>3. {g.m.phase, f.m.phase} \cap {"tip", "pubdata"} = {}  BY <1>2, <2>7, <3>6 DEF TxHook, TipHook
      <4> QED BY ZenonT(40), <2>6, <2>7, <3>1, <4>1, <4>2, <4>3 DEF FastInv, Provided
    <3> QED BY ZenonT(20), <3>3, <3>4, <3>5, <3>6
  <2> QED BY Zenon, <1>1, <2>4, <2>7, <2>8, <2>9, <2>10 DEF FastInv
<1> QED BY <1>4, <1>5

LEMMA FastStepInv ==
    ASSUME NEW lim \in Nat, NEW md \in {"OneTx", "Batch"}, NEW f, FastInv(f, lim, md), f.result = "none",
           NEW e, IsEvent(f.m, e), InOrder(f.m, e, md)
    PROVE  FastInv(FastStep(f, e), lim, md)
BY FastPlainInv, FastHookInv

=============================================================================
