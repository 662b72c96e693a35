---------------------------- MODULE VmRunsProofs ------------------------------
(***************************************************************************)
(* Proofs about VmRuns: the two VMs run a transaction alike, for every     *)
(* amount of gas, limit of validations, table of prices, number of         *)
(* instructions and share of gas that a caller keeps.                      *)
(***************************************************************************)
EXTENDS VmLatestProofs

-----------------------------------------------------------------------------
(***************************************************************************)
(* Both VMs.                                                               *)
(***************************************************************************)
\* What both VMs are before a step that they take as one.
BothRun(f, l, lim, md, e) ==
    /\ FastInv(f, lim, md) /\ LatestInv(l, lim, md) /\ f.result = "none" /\ l.result = "none" /\ Coupled(f, l, lim)
    /\ IsEvent(f.m, e) /\ InOrder(f.m, e, md)
    /\ Hidden(f) > 0 => e.what # "panic" /\ Pays(f.m, e.cost)

\* The step of both, p and q the machines after it.
Shared(f, l, md, e, p, q) ==
    /\ Hidden(f) \in Nat /\ (f.m.phase # "validation" => Hidden(f) = 0)
    /\ f.track => Hidden(f) > 0
    /\ IsEvent(l.m, e) /\ InOrder(l.m, e, md) /\ IsMachine(p) /\ IsMachine(q)
    /\ HasLess(p, q, Hidden(f)) /\ AsOne(p, q)
    /\ Pays(f.m, e.cost) <=> Pays(l.m, e.cost)
    /\ Pays(f.m, e.cost) => Total(p.gas) + e.cost[2] <= Total(f.m.gas)
    /\ Total(p.gas) <= Total(f.m.gas)
    /\ Total(p.gas) \in Nat /\ Total(f.m.gas) \in Nat

LEMMA StepIsShared ==
    ASSUME NEW lim \in Nat, NEW md \in {"OneTx", "Batch"}, NEW f, NEW l, NEW e, BothRun(f, l, lim, md, e),
           NEW p, p = Executed(f.m, e), NEW q, q = Executed(l.m, e)
    PROVE  Shared(f, l, md, e, p, q)
<1>1. IsMachine(f.m) /\ IsMachine(l.m) /\ f.m.ended = "no" /\ l.m.ended = "no"
  BY DEF BothRun, FastInv, LatestInv, IsFast, IsLatest, Provided
<1>2. Hidden(f) \in Nat /\ (f.m.phase # "validation" => Hidden(f) = 0) /\ (f.track => Hidden(f) > 0)
  <2>1. CASE f.m.phase = "validation"
    <3>1. PICK given \in Nat, rest \in Nat : f.split = <<given, rest>> /\ f.track = (rest > 0)
      BY <2>1 DEF BothRun, FastInv, FastGas
    <3>2. Hidden(f) = rest  BY <3>1 DEF Hidden
    <3> QED BY Zenon, <2>1, <3>1, <3>2
  <2>2. CASE f.m.phase # "validation"
    <3>1. f.split = <<>> /\ f.track = FALSE  BY <2>2 DEF BothRun, FastInv, FastGas
    <3> QED BY <3>1 DEF Hidden
  <2> QED BY <2>1, <2>2
<1>3. HasLess(f.m, l.m, Hidden(f)) /\ AsOne(f.m, l.m)
  BY <1>1 DEF BothRun, Coupled, CoupledGas, HasLess, AsOne
<1>4. InOrder(l.m, e, md)
  <2>1. f.m.phase = l.m.phase  BY <1>3 DEF AsOne
  <2> QED BY <2>1 DEF BothRun, InOrder, TxHook, TipHook
<1>5. IsEvent(f.m, e) /\ (Hidden(f) > 0 => e.what # "panic" /\ Pays(f.m, e.cost))  BY DEF BothRun
<1>6. PICK hidden \in Nat : hidden = Hidden(f)  BY <1>2
<1>7. /\ IsEvent(l.m, e) /\ IsMachine(p) /\ IsMachine(q) /\ HasLess(p, q, hidden) /\ AsOne(p, q)
      /\ Pays(f.m, e.cost) <=> Pays(l.m, e.cost)
      /\ Pays(f.m, e.cost) => Total(p.gas) + e.cost[2] <= Total(f.m.gas)
      /\ Total(p.gas) <= Total(f.m.gas)
  BY <1>1, <1>3, <1>5, <1>6, EventsAreShared
<1>8. Total(p.gas) \in Nat /\ Total(f.m.gas) \in Nat  BY Zenon, <1>1, <1>7, Frames
<1> QED BY <1>2, <1>4, <1>6, <1>7, <1>8 DEF Shared

\* The reference VM has counted no more than the fast VM has taken.
LEMMA CountsLess ==
    ASSUME NEW lim \in Nat, NEW md \in {"OneTx", "Batch"}, NEW f, NEW l, NEW e, BothRun(f, l, lim, md, e),
           NEW p, p = Executed(f.m, e),
           NEW used, used = IF Pays(l.m, e.cost) /\ l.validating THEN l.used + e.cost[1] ELSE l.used
    PROVE  /\ used \in Nat /\ used <= lim
           /\ f.m.phase = "validation" => used <= (lim - f.left) + (f.split[1] - Total(p.gas))
           /\ f.m.phase # "validation" => used <= lim - f.left
<1>1. PICK q : q = Executed(l.m, e)  OBVIOUS
<1>2. /\ Pays(f.m, e.cost) <=> Pays(l.m, e.cost)
      /\ Pays(f.m, e.cost) => Total(p.gas) + e.cost[2] <= Total(f.m.gas)
      /\ Total(p.gas) <= Total(f.m.gas) /\ Total(p.gas) \in Nat /\ Total(f.m.gas) \in Nat
  <2>1. Shared(f, l, md, e, p, q)  BY Zenon, <1>1, StepIsShared
  <2> QED BY <2>1 DEF Shared
<1>3. e.cost[1] \in Nat /\ e.cost[2] \in Nat /\ e.cost[1] <= e.cost[2]  BY DEF BothRun, IsEvent
<1>4. f.left \in Nat /\ f.left <= lim /\ l.used \in Nat  BY DEF BothRun, FastInv, LatestInv
<1>5. CASE f.m.phase = "validation"
  <2>1. PICK given \in Nat, rest \in Nat : f.split = <<given, rest>> /\ given <= f.left
    BY <1>5 DEF BothRun, FastInv, FastGas
  <2>2. f.split[1] = given  BY <2>1
  <2>3. l.used <= (lim - f.left) + (given - Total(f.m.gas))
    BY <1>5, <2>2 DEF BothRun, Coupled, CoupledGas
  <2>4. CASE used = l.used  BY <1>2, <1>4, <1>5, <2>1, <2>2, <2>3, <2>4
  <2>5. CASE used = l.used + e.cost[1] /\ Pays(l.m, e.cost)  BY <1>2, <1>3, <1>4, <1>5, <2>1, <2>2, <2>3, <2>5
  <2> QED BY <2>4, <2>5
<1>6. CASE f.m.phase # "validation"
  <2>1. l.used <= (lim - f.left) + 0  BY <1>6 DEF BothRun, Coupled, CoupledGas
  <2>2. l.m.phase # "validation"  BY <1>6 DEF BothRun, Coupled
  <2>3. l.validating = FALSE  BY Zenon, <2>2 DEF BothRun, LatestInv
  <2>4. used = l.used  BY <2>3
  <2> QED BY <1>4, <1>6, <2>1, <2>4
<1> QED BY <1>5, <1>6

\* Both VMs stay alike over a step without a hook.
LEMMA PlainStepCouples ==
    ASSUME NEW lim \in Nat, lim = limit, NEW md \in {"OneTx", "Batch"}, md = mode,
           NEW f, NEW l, NEW e, BothRun(f, l, lim, md, e), e.what # "hook" \/ ~ Pays(f.m, e.cost),
           NEW g, g = FastStep(f, e), NEW h, h = LatestStep(l, e)
    PROVE  Coupled(g, h, lim) /\ h.result # "ValidationOutOfGas"
<1>1. /\ IsFast(f) /\ IsMachine(f.m) /\ f.m.ended = "no" /\ f.result = "none" /\ ~f.out /\ IsEvent(f.m, e)
      /\ InOrder(f.m, e, md) /\ LatestInv(l, lim, md) /\ l.result = "none"
  BY DEF BothRun, FastInv, IsFast, Provided, Coupled
<1>2. PICK p, q : p = Executed(f.m, e) /\ q = Executed(l.m, e)  OBVIOUS
<1>3. /\ f.track => Hidden(f) > 0
      /\ IsEvent(l.m, e) /\ InOrder(l.m, e, md) /\ HasLess(p, q, Hidden(f)) /\ AsOne(p, q)
      /\ Pays(f.m, e.cost) <=> Pays(l.m, e.cost)
  <2>1. Shared(f, l, md, e, p, q)  BY Zenon, <1>2, StepIsShared
  <2> QED BY <2>1 DEF Shared
<1>4. /\ IsFast(g) /\ g.m = p
      /\ g.bs = f.bs /\ g.left = f.left /\ g.split = f.split /\ g.last = f.last
      /\ g.before = f.before /\ g.published = f.published /\ g.suggested = f.suggested /\ g.refunded = f.refunded
      /\ g.out = (f.out \/ (f.track /\ PanicsWithoutGas(f.m, e)))
      /\ p.ended = "no" => g.result = "none"
      /\ p.ended = "Ok" => g.result = "Success"
      /\ p.ended = "Revert" => g.result = RevertResult(e.param)
      /\ p.ended = "Panic" => g.result \in {"BootloaderOutOfGas", "VMPanic"}
  BY <1>1, <1>2, FastPlainStep
<1>5. LatestPlain(l, h, q, e, lim)
  <2>1. e.what # "hook" \/ ~ Pays(l.m, e.cost)  BY <1>3
  <2> QED BY Zenon, <1>1, <1>2, <1>3, <2>1, LatestPlainInv
<1>6. /\ \/ p.phase = f.m.phase
         \/ md = "OneTx" /\ f.m.phase \in {"begin", "validated"} /\ p.phase = "executed" /\ p.ended = "no"
      /\ \/ p.ended \in {"no", "Panic"}
         \/ p.ended = "Revert" /\ e.param \in BootloaderErrors
         \/ p.ended = "Ok" /\ md = "Batch" /\ f.m.phase = "pubdata"
  BY <1>1, <1>2, PlainStep
<1>7. ~g.out
  <2>1. Hidden(f) > 0 => e.what # "panic" /\ Pays(f.m, e.cost)  BY DEF BothRun
  <2>2. f.track => ~PanicsWithoutGas(f.m, e)  BY <1>3, <2>1 DEF PanicsWithoutGas
  <2> QED BY Zenon, <1>1, <1>4, <2>2
<1>8. /\ h.used \in Nat /\ h.used <= lim
      /\ f.m.phase = "validation" => h.used <= (lim - f.left) + (f.split[1] - Total(p.gas))
      /\ f.m.phase # "validation" => h.used <= lim - f.left
  <2>1. h.used = IF Pays(l.m, e.cost) /\ l.validating THEN l.used + e.cost[1] ELSE l.used  BY <1>5 DEF LatestPlain
  <2> QED BY <1>2, <2>1, CountsLess
<1>9. SameResult(g.result, h.result) /\ h.result # "ValidationOutOfGas"
  <2>1. ~(h.used > lim) /\ p.ended = q.ended  BY <1>3, <1>8 DEF AsOne
  <2>2. p.ended = "Revert" => g.result = "Halt"  BY <1>4, <1>6, ErrorsHalt
  <2>3. CASE p.ended = "Panic"
    <3>1. g.result \in {"BootloaderOutOfGas", "VMPanic"} /\ h.result \in {"BootloaderOutOfGas", "VMPanic"}
      BY <1>4, <1>5, <2>1, <2>3 DEF LatestPlain
    <3> QED BY <3>1 DEF SameResult
  <2>4. CASE p.ended # "Panic"
    <3>1. g.result = h.result /\ h.result # "ValidationOutOfGas"
      BY <1>4, <1>5, <1>6, <2>1, <2>2, <2>4 DEF LatestPlain
    <3> QED BY <3>1 DEF SameResult
  <2> QED BY <2>3, <2>4
<1>10. CoupledGas(g, h, lim)
  <2>1. Hidden(g) = Hidden(f)  BY <1>4 DEF Hidden
  <2>2. g.m.gas = p.gas /\ h.m.gas = q.gas  BY <1>4, <1>5 DEF LatestPlain
  <2>3. h.used <= (lim - g.left) + (IF g.m.phase = "validation" THEN g.split[1] - Total(g.m.gas) ELSE 0)
    <3>1. g.m.phase = "validation" <=> f.m.phase = "validation"  BY <1>4, <1>6
    <3>2. lim - f.left \in Int /\ (lim - f.left) + 0 = lim - f.left
      BY DEF BothRun, FastInv
    <3> QED BY <1>4, <1>8, <3>1, <3>2
  <2> QED BY Zenon, <1>3, <2>1, <2>2, <2>3 DEF CoupledGas, HasLess
<1>11. /\ g.m.phase = h.m.phase /\ g.m.heap = h.m.heap /\ g.m.counter = h.m.counter
       /\ g.bs = h.bs /\ g.suggested = h.suggested /\ g.refunded = h.refunded /\ g.published = h.published
       /\ g.last = h.posted
       /\ g.m.phase \in {"begin", "validation", "validated", "executed"} => g.before = h.before
  BY <1>3, <1>4, <1>5, <1>6 DEF LatestPlain, AsOne, BothRun, Coupled
<1> QED BY <1>7, <1>9, <1>10, <1>11 DEF Coupled

\* Both VMs stay alike over a hook.
LEMMA HookStepCouples ==
    ASSUME NEW lim \in Nat, lim = limit, NEW md \in {"OneTx", "Batch"}, md = mode,
           NEW f, NEW l, NEW e, BothRun(f, l, lim, md, e), e.what = "hook", Pays(f.m, e.cost),
           NEW g, g = FastStep(f, e), NEW h, h = LatestStep(l, e)
    PROVE  Coupled(g, h, lim) /\ h.result # "ValidationOutOfGas"
<1>1. /\ IsFast(f) /\ IsMachine(f.m) /\ f.m.ended = "no" /\ f.result = "none" /\ f.out = FALSE /\ IsEvent(f.m, e)
      /\ InOrder(f.m, e, md) /\ LatestInv(l, lim, md) /\ l.result = "none" /\ f.left \in Nat /\ f.left <= lim
      /\ Coupled(f, l, lim)
  BY DEF BothRun, FastInv, IsFast, Provided, Coupled
<1>2. PICK p, q : p = Executed(f.m, e) /\ q = Executed(l.m, e)  BY Zenon
<1>3. /\ f.m.phase # "validation" => Hidden(f) = 0
      /\ IsEvent(l.m, e) /\ InOrder(l.m, e, md) /\ HasLess(p, q, Hidden(f)) /\ AsOne(p, q)
      /\ Pays(l.m, e.cost) /\ IsMachine(p) /\ IsMachine(q)
  <2>1. Shared(f, l, md, e, p, q)  BY Zenon, <1>2, StepIsShared
  <2> QED BY <2>1 DEF Shared
<1>4. (md = "OneTx" /\ TxHook(f.m, e)) \/ (md = "Batch" /\ TipHook(f.m, e))  BY Zenon, <1>1 DEF InOrder
<1>5. e.hook \in HookNames /\ (e.hook = "ValidationExited" <=> f.m.phase = "validation")
  BY <1>4 DEF TxHook, TipHook, HookNames
<1>6. f.m.phase = "validation" =>
          \E given \in Nat, rest \in Nat :
              /\ f.split = <<given, rest>> /\ f.split[1] = given /\ f.split[2] = rest /\ Hidden(f) = rest
              /\ given <= f.left
  <2>1. ASSUME f.m.phase = "validation"
        PROVE  \E given \in Nat, rest \in Nat : f.split = <<given, rest>> /\ given <= f.left
    BY <2>1 DEF BothRun, FastInv, FastGas
  <2> QED BY <2>1 DEF Hidden
<1>7. /\ OneFrame(p.gas) /\ p.gas[1] = f.m.gas[1] - e.cost[2] /\ FastHooked(f, g, p, e) /\ g.out = f.out
      /\ p.phase = e.next
  <2>1. e.hook = "ValidationExited" => f.split[1] \in Nat /\ f.split[2] \in Nat  BY <1>5, <1>6
  <2>2. /\ OneFrame(p.gas) /\ p.gas[1] = f.m.gas[1] - e.cost[2] /\ FastHooked(f, g, p, e) /\ g.out = f.out
        /\ Effect(f.m, p, e)
    BY ZenonT(40), <1>1, <1>2, <1>5, <2>1, FastHookStep
  <2>3. p.phase = e.next  BY <2>2 DEF Effect
  <2> QED BY <2>2, <2>3
<1>8. LatestHooked(l, h, q, e, lim)  BY Zenon, <1>1, <1>2, <1>3, LatestHookInv
<1>9. /\ OneFrame(q.gas) /\ p.gas = <<p.gas[1]>> /\ q.gas = <<q.gas[1]>> /\ p.gas[1] \in Nat /\ q.gas[1] \in Nat
      /\ Total(p.gas) = p.gas[1] /\ Total(q.gas) = q.gas[1] /\ p.gas[1] + Hidden(f) = q.gas[1]
      /\ Hidden(f) = 0 => p.gas = q.gas
  <2>1. OneFrame(q.gas)  BY Zenon, <1>3, <1>7 DEF HasLess
  <2>2. /\ p.gas = <<p.gas[1]>> /\ p.gas[1] \in Nat /\ Total(p.gas) = p.gas[1]
        /\ q.gas = <<q.gas[1]>> /\ q.gas[1] \in Nat /\ Total(q.gas) = q.gas[1]
    BY Zenon, <1>3, <1>7, <2>1, Frames
  <2> QED BY Zenon, <1>3, <2>1, <2>2 DEF HasLess
<1>10. /\ h.used \in Nat /\ h.used <= lim
       /\ f.m.phase = "validation" => h.used <= (lim - f.left) + (f.split[1] - p.gas[1])
       /\ f.m.phase # "validation" => h.used <= lim - f.left
  <2>1. h.used = IF Pays(l.m, e.cost) /\ l.validating THEN l.used + e.cost[1] ELSE l.used  BY <1>8 DEF LatestHooked
  <2>2. /\ h.used \in Nat /\ h.used <= lim
        /\ f.m.phase = "validation" => h.used <= (lim - f.left) + (f.split[1] - Total(p.gas))
        /\ f.m.phase # "validation" => h.used <= lim - f.left
    BY <1>2, <2>1, CountsLess
  <2> QED BY Zenon, <1>9, <2>2
<1>11. g.result = h.result /\ h.result # "ValidationOutOfGas"
  <2>1. CASE e.hook = "TxHasEnded"
    <3>1. f.last = l.posted /\ l.posted \in {"none", "Success", "Revert"}  BY Zenon, <1>1 DEF Coupled, LatestInv
    <3>2. UnpostedResult(p) = UnpostedResult(q) /\ UnpostedResult(q) # "ValidationOutOfGas"
      BY Zenon, <1>3 DEF AsOne, UnpostedResult
    <3>3. g.result = IF f.last # "none" THEN f.last ELSE UnpostedResult(p)  BY <1>7, <2>1 DEF FastHooked
    <3>4. h.result = IF l.posted # "none" THEN l.posted ELSE UnpostedResult(q)  BY <1>8, <2>1 DEF LatestHooked
    <3> QED BY <3>1, <3>2, <3>3, <3>4
  <2>2. CASE e.hook # "TxHasEnded"
    <3>1. h.result = "none"  BY <1>8, <1>10, <2>2 DEF LatestHooked
    <3>2. g.result = "none"  BY <1>1, <1>7, <2>2 DEF FastHooked
    <3> QED BY <3>1, <3>2
  <2> QED BY <2>1, <2>2
<1>12. CoupledGas(g, h, lim)
  <2>1. h.m.gas = q.gas /\ g.m.phase = e.next  BY <1>7, <1>8 DEF LatestHooked, FastHooked
  <2>2. \A a \in Nat : g.m.gas = <<a>> =>
            /\ OneFrame(g.m.gas) /\ ~TwoFrames(g.m.gas) /\ g.m.gas[1] = a /\ Total(g.m.gas) = a
    BY DEF OneFrame, TwoFrames, Total
  <2>3. CASE e.hook = "AccountValidationEntered"
    <3>1. f.m.phase # "validation" /\ e.next = "validation"  BY <1>4, <1>5, <2>3 DEF TxHook, TipHook
    <3>2. PICK given \in Nat, rest \in Nat :
              /\ given + rest = p.gas[1] /\ g.m.gas = <<given>> /\ g.split = <<given, rest>> /\ g.left = f.left
      BY <1>7, <2>3 DEF FastHooked
    <3>3. Hidden(g) = rest /\ g.split[1] = given  BY <3>2 DEF Hidden
    <3>4. p.gas = q.gas /\ q.gas[1] = p.gas[1]  BY <1>3, <1>9, <3>1
    <3>5. rest = 0 => g.m.gas = h.m.gas  BY <1>9, <2>1, <3>2, <3>4
    <3>6. OneFrame(g.m.gas) /\ ~TwoFrames(g.m.gas) /\ g.m.gas[1] = given /\ Total(g.m.gas) = given  BY <2>2, <3>2
    <3>7. h.used <= (lim - g.left) + (given - given)  BY <1>1, <1>10, <3>1, <3>2
    <3> QED BY <1>9, <2>1, <3>1, <3>2, <3>3, <3>4, <3>5, <3>6, <3>7 DEF CoupledGas
  <2>4. CASE e.hook = "ValidationExited"
    <3>1. f.m.phase = "validation" /\ g.m.phase # "validation"  BY <1>4, <1>5, <2>1, <2>4 DEF TxHook, TipHook
    <3>2. PICK given \in Nat, rest \in Nat : f.split[1] = given /\ f.split[2] = rest /\ Hidden(f) = rest
      BY <1>6, <3>1
    <3>3. g.m.gas = <<p.gas[1] + rest>> /\ g.left = f.left - (given - p.gas[1]) /\ g.split = <<>>
      BY <1>7, <2>4, <3>2 DEF FastHooked
    <3>4. Hidden(g) = 0  BY <3>3 DEF Hidden
    <3>5. PICK a \in Nat : a = p.gas[1] + rest  BY <1>9
    <3>6. g.m.gas = h.m.gas  BY <1>9, <2>1, <3>2, <3>3
    <3>7. OneFrame(g.m.gas) /\ ~TwoFrames(g.m.gas) /\ g.m.gas[1] = a /\ Total(g.m.gas) = a  BY ZenonT(20), <2>2, <3>3, <3>5
    <3>8. h.used <= (lim - g.left) + 0  BY <1>1, <1>9, <1>10, <3>1, <3>2, <3>3
    <3> QED BY <3>1, <3>4, <3>6, <3>7, <3>8 DEF CoupledGas
  <2>5. CASE e.hook \notin {"AccountValidationEntered", "ValidationExited"}
    <3>1. f.m.phase # "validation" /\ g.m.phase # "validation"  BY <1>4, <1>5, <2>1, <2>5 DEF TxHook, TipHook
    <3>2. g.m.gas = p.gas /\ g.split = f.split /\ g.left = f.left  BY <1>7, <2>5 DEF FastHooked
    <3>3. Hidden(g) = 0  BY <1>3, <3>1, <3>2 DEF Hidden
    <3>4. g.m.gas = h.m.gas  BY ZenonT(20), <1>3, <1>9, <2>1, <3>1, <3>2
    <3>5. PICK a \in Nat : a = p.gas[1]  BY <1>9
    <3>6. OneFrame(g.m.gas) /\ ~TwoFrames(g.m.gas) /\ g.m.gas[1] = a /\ Total(g.m.gas) = a
      BY ZenonT(20), <1>9, <2>2, <3>2, <3>5
    <3>7. h.used <= (lim - g.left) + 0  BY <1>1, <1>10, <3>1, <3>2
    <3> QED BY <3>1, <3>3, <3>4, <3>6, <3>7 DEF CoupledGas
  <2> QED BY <2>3, <2>4, <2>5
<1>13. f.bs = l.bs /\ p.heap = q.heap /\ p.counter = q.counter /\ p.phase = q.phase
  BY Zenon, <1>1, <1>3 DEF Coupled, AsOne
<1>14. e.hook = "AskOperatorForRefund" => f.before = l.before /\ RefundAt(p, e, f.before) = RefundAt(q, e, l.before)
  <2>1. e.hook = "AskOperatorForRefund" => f.before = l.before  BY Zenon, <1>1, <1>4 DEF Coupled, TxHook, TipHook
  <2> QED BY Zenon, <1>13, <2>1 DEF RefundAt
<1>15. g.m.heap = h.m.heap /\ g.bs = h.bs  BY <1>7, <1>8, <1>13, <1>14 DEF FastHooked, LatestHooked
<1>16. g.suggested = h.suggested /\ g.published = h.published
  BY <1>1, <1>7, <1>8, <1>13, <1>14 DEF FastHooked, LatestHooked, Coupled
<1>17. /\ g.m.phase = h.m.phase /\ g.m.counter = h.m.counter /\ g.refunded = h.refunded /\ g.last = h.posted
  BY <1>1, <1>7, <1>8, <1>13 DEF FastHooked, LatestHooked, Coupled
<1>18. g.m.phase \in {"begin", "validation", "validated", "executed"} => g.before = h.before
  <2>1. e.hook = "AskOperatorForRefund" => g.m.phase = "asked"
    BY <1>4, <1>7 DEF FastHooked, TxHook, TipHook
  <2>2. g.m.phase \in {"begin", "validation", "validated", "executed"} =>
            f.m.phase \in {"begin", "validation", "validated", "executed"}
    BY <1>4, <1>7 DEF FastHooked, TxHook, TipHook
  <2>3. h.before = l.before /\ (e.hook # "AskOperatorForRefund" => g.before = f.before)
    BY <1>7, <1>8 DEF FastHooked, LatestHooked
  <2> QED BY Zenon, <1>1, <2>1, <2>2, <2>3 DEF Coupled
<1> QED BY Zenon, <1>1, <1>7, <1>11, <1>12, <1>15, <1>16, <1>17, <1>18 DEF Coupled, SameResult

\* The reference VM aborts a transaction only when an instruction that it counts passes the limit.
LEMMA AbortsWhenCounted ==
    ASSUME NEW lim \in Nat, lim = limit, NEW md \in {"OneTx", "Batch"}, md = mode,
           NEW l, LatestInv(l, lim, md), l.result = "none",
           NEW e, IsEvent(l.m, e), InOrder(l.m, e, md),
           LatestStep(l, e).result = "ValidationOutOfGas"
    PROVE  Pays(l.m, e.cost) /\ l.used + e.cost[1] > lim
<1>1. PICK g, n : g = LatestStep(l, e) /\ n = Executed(l.m, e)  OBVIOUS
<1>2. IsMachine(l.m) /\ l.m.ended = "no" /\ l.used \in Nat /\ l.used <= lim
  BY DEF LatestInv, IsLatest, Provided, Halts
<1>3. g.used > lim /\ g.used = IF Pays(l.m, e.cost) /\ l.validating THEN l.used + e.cost[1] ELSE l.used
  <2>1. CASE e.what # "hook" \/ ~ Pays(l.m, e.cost)
    <3>1. LatestPlain(l, g, n, e, lim)  BY ZenonT(20), <1>1, <2>1, LatestPlainInv
    <3>2. n.ended \in {"no", "Panic", "Revert", "Ok"}  BY <1>1, <1>2, <2>1, PlainStep
    <3> QED BY Zenon, <1>1, <3>1, <3>2 DEF LatestPlain
  <2>2. CASE e.what = "hook" /\ Pays(l.m, e.cost)
    <3>1. LatestHooked(l, g, n, e, lim)  BY <1>1, <2>2, LatestHookInv
    <3>2. (IF l.posted # "none" THEN l.posted ELSE UnpostedResult(n)) # "ValidationOutOfGas"
      BY DEF LatestInv, UnpostedResult
    <3> QED BY <1>1, <3>1, <3>2 DEF LatestHooked
  <2> QED BY <2>1, <2>2
<1> QED BY <1>2, <1>3

LEMMA InitialRun ==
    ASSUME Init
    PROVE  RunInv
<1>1. mode \in {"OneTx", "Batch"} /\ limit \in Nat  BY RunAssumption DEF Init
<1>2. PICK gas \in Gas : fast = NewFast(gas) /\ latest = NewLatest(gas)  BY DEF Init
<1>3. gas \in Nat  BY RunAssumption
<1>4. PICK m : m = Machine(gas)  OBVIOUS
<1>5. /\ IsMachine(m) /\ m.gas = <<gas>> /\ OneFrame(m.gas) /\ ~TwoFrames(m.gas) /\ Total(m.gas) = gas
      /\ m.phase = "begin" /\ m.ended = "no" /\ m.heap = NoHeap /\ m.counter = CounterAtStart
  <2>1. m.gas = <<gas>> /\ OneFrame(m.gas) /\ ~TwoFrames(m.gas)
    BY <1>3, <1>4 DEF Machine, OneFrame, TwoFrames
  <2>2. /\ m.phase = "begin" /\ m.ended = "no" /\ m.heap = NoHeap /\ m.counter = CounterAtStart
        /\ m = [gas |-> m.gas, phase |-> m.phase, heap |-> m.heap, counter |-> m.counter, ended |-> m.ended]
    BY <1>4 DEF Machine
  <2>3. Total(m.gas) = gas  BY <1>3, <2>1 DEF Total
  <2> QED BY <2>1, <2>2, <2>3 DEF IsMachine, IsHeap, NoHeap, CounterAtStart
<1>6. IsNotes(NoNotes) /\ NoNotes.refund = <<>> /\ NoNotes.fictive = 0 /\ NoNotes.pubdata = 0
  BY DEF IsNotes, NoNotes
<1>7. NoHeap.refund = <<>> /\ NoHeap.fictive = 0 /\ NoHeap.pubdata = 0  BY DEF NoHeap
<1>8. /\ fast.m = m /\ fast.bs = NoNotes /\ fast.left = limit /\ fast.split = <<>> /\ fast.track = FALSE
      /\ fast.out = FALSE /\ fast.last = "none" /\ fast.before = CounterAtStart /\ fast.published = 0
      /\ fast.suggested = <<>> /\ fast.refunded = 0 /\ fast.result = "none" /\ IsFast(fast)
  BY Zenon, <1>2, <1>4, <1>5, <1>6 DEF NewFast, IsFast
<1>9. /\ latest.m = m /\ latest.bs = NoNotes /\ latest.used = 0 /\ latest.validating = FALSE
      /\ latest.processed = FALSE /\ latest.final_info = FALSE /\ latest.posted = "none" /\ latest.out_of_gas = FALSE
      /\ latest.pending = <<>> /\ latest.suggested = <<>> /\ latest.refunded = 0 /\ latest.published = 0
      /\ latest.before = CounterAtStart /\ latest.pubdata_requested = FALSE /\ latest.result = "none"
      /\ IsLatest(latest)
  BY Zenon, <1>2, <1>4, <1>5, <1>6 DEF NewLatest, IsLatest
<1>10. Provided(m, NoNotes, <<>>, "none", mode)
  <2>1. m.phase \in Phases(mode)  BY <1>1, <1>5 DEF Phases
  <2>2. m.phase \notin {"tip", "pubdata"}  BY <1>5
  <2>3. /\ m.heap.refund = <<>> /\ NoNotes.refund = <<>>
        /\ m.heap.fictive = 0 /\ NoNotes.fictive = 0 /\ m.heap.pubdata = 0 /\ NoNotes.pubdata = 0
    BY <1>5, <1>6, <1>7
  <2> QED BY <1>5, <2>1, <2>2, <2>3 DEF Provided
<1>11. FastInv(fast, limit, mode)
  <2>1. FastGas(fast)  BY <1>5, <1>8 DEF FastGas
  <2>2. fast.left \in 0..limit  BY <1>1, <1>8
  <2>3. Provided(fast.m, fast.bs, fast.suggested, fast.result, mode)  BY Zenon, <1>8, <1>10
  <2> QED BY Zenon, <1>5, <1>8, <2>1, <2>2, <2>3 DEF FastInv
<1>12. LatestInv(latest, limit, mode)
  <2>1. latest.validating = (latest.m.phase = "validation")  BY Zenon, <1>5, <1>9
  <2> QED BY <1>1, <1>9, <1>10, <2>1 DEF LatestInv
<1>13. CoupledGas(fast, latest, limit)
  <2>1. Hidden(fast) = 0  BY <1>8 DEF Hidden
  <2>2. fast.m.gas[1] = gas /\ latest.m.gas[1] = gas  BY <1>5, <1>8, <1>9
  <2>3. latest.used <= (limit - fast.left) + 0  BY <1>1, <1>8, <1>9
  <2> QED BY <1>3, <1>5, <1>8, <1>9, <2>1, <2>2, <2>3 DEF CoupledGas
<1>14. Coupled(fast, latest, limit)  BY <1>8, <1>9, <1>13 DEF Coupled, SameResult
<1> QED BY <1>1, <1>11, <1>12, <1>14 DEF RunInv

\* A step of both VMs: they stay alike, or gas was hidden from an account that panicked or could not
\* pay.
LEMMA TogetherKeeps ==
    ASSUME RunInv, Together
    PROVE  RunInv' /\ (latest'.result = "ValidationOutOfGas" => fast'.out)
<1>1. /\ mode \in {"OneTx", "Batch"} /\ limit \in Nat /\ FastInv(fast, limit, mode) /\ LatestInv(latest, limit, mode)
      /\ Coupled(fast, latest, limit) /\ fast.result = "none" /\ latest.result = "none"
      /\ mode' = mode /\ limit' = limit
  BY DEF RunInv, Together, Running
<1>2. PICK e \in Events(fast.m) : /\ fast' = FastStep(fast, e) /\ latest' = LatestStep(latest, e)
                                  /\ apart' \in IF ParcelsOut(e) THEN {"fast", "latest"} ELSE {"no"}
  BY DEF Together
<1>3. PICK f, l, g, h : f = fast /\ l = latest /\ g = fast' /\ h = latest'  OBVIOUS
<1>4. IsMachine(f.m) /\ IsMachine(l.m)  BY ZenonT(20), <1>1, <1>3 DEF FastInv, LatestInv, IsFast, IsLatest
<1>5. IsEvent(f.m, e) /\ InOrder(f.m, e, mode)  BY <1>1, <1>2, <1>3, <1>4, EventKinds
<1>6. IsEvent(l.m, e) /\ InOrder(l.m, e, mode)
  <2>1. f.m.phase = l.m.phase /\ (OneFrame(f.m.gas) <=> OneFrame(l.m.gas))  BY Zenon, <1>1, <1>3 DEF Coupled, CoupledGas
  <2>2. /\ OneFrame(f.m.gas) \/ TwoFrames(f.m.gas)
        /\ OneFrame(l.m.gas) \/ TwoFrames(l.m.gas)
        /\ ~(OneFrame(f.m.gas) /\ TwoFrames(f.m.gas)) /\ ~(OneFrame(l.m.gas) /\ TwoFrames(l.m.gas))
    BY <1>4 DEF IsMachine, OneFrame, TwoFrames
  <2>3. TwoFrames(f.m.gas) => TwoFrames(l.m.gas)  BY <1>4, <2>1, <2>2 DEF IsMachine
  <2> QED BY Zenon, <1>5, <2>1, <2>3 DEF IsEvent, InOrder, TxHook, TipHook
<1>7. FastInv(g, limit, mode)  BY <1>1, <1>2, <1>3, <1>5, FastStepInv
<1>8. LatestInv(h, limit, mode)  BY <1>1, <1>2, <1>3, <1>6, LatestStepInv
<1>9. CASE ParcelsOut(e)
  <2>1. apart' # "no"  BY <1>2, <1>9
  <2>2. RunInv'  BY <1>1, <1>3, <1>7, <1>8, <2>1 DEF RunInv
  <2>3. ASSUME h.result = "ValidationOutOfGas" PROVE g.out
    <3>1. f.track = TRUE /\ Hidden(f) > 0
      <4>1. Hidden(f) > 0  BY ZenonT(20), <1>3, <1>9 DEF ParcelsOut
      <4>2. f.m.phase = "validation"
        <5>1. f.split # <<>>  BY <4>1 DEF Hidden
        <5> QED BY <1>1, <1>3, <5>1 DEF FastInv, FastGas
      <4>3. PICK given \in Nat, rest \in Nat : f.split = <<given, rest>> /\ f.track = (rest > 0)
        BY <1>1, <1>3, <4>2 DEF FastInv, FastGas
      <4>4. Hidden(f) = rest  BY <4>3 DEF Hidden
      <4> QED BY Zenon, <4>1, <4>3, <4>4
    <3>2. Pays(l.m, e.cost) /\ l.used + e.cost[1] > limit
      BY Zenon, <1>1, <1>2, <1>3, <1>6, <2>3, AbortsWhenCounted
    <3>3. ~ Pays(f.m, e.cost)
      <4>1. SUFFICES ASSUME Pays(f.m, e.cost) PROVE FALSE  OBVIOUS
      <4>2. e.what = "panic"  BY <1>3, <1>9, <4>1 DEF ParcelsOut
      <4>3. e.cost = <<0, 0>> /\ e.cost[1] = 0  BY <1>5, <4>2 DEF IsEvent
      <4>4. l.used \in Nat /\ l.used <= limit  BY ZenonT(20), <1>1, <1>3 DEF LatestInv, Halts
      <4> QED BY <1>1, <3>2, <4>3, <4>4
    <3>4. IsFast(f) /\ f.m.ended = "no"  BY <1>1, <1>3 DEF FastInv, Provided
    <3>5. g = FastStep(f, e)  BY ZenonT(20), <1>2, <1>3
    <3>6. g.out = (f.out \/ (f.track /\ PanicsWithoutGas(f.m, e)))  BY <1>5, <3>3, <3>4, <3>5, FastPlainStep
    <3> QED BY Zenon, <3>1, <3>3, <3>6 DEF PanicsWithoutGas
  <2> QED BY <1>3, <2>2, <2>3
<1>10. CASE ~ParcelsOut(e)
  <2>1. BothRun(f, l, limit, mode, e)  BY <1>1, <1>3, <1>5, <1>10 DEF BothRun, ParcelsOut
  <2>2. g = FastStep(f, e) /\ h = LatestStep(l, e)  BY <1>2, <1>3
  <2>3. Coupled(g, h, limit) /\ h.result # "ValidationOutOfGas"
    BY <1>1, <2>1, <2>2, PlainStepCouples, HookStepCouples
  <2> QED BY <1>1, <1>3, <1>7, <1>8, <2>3 DEF RunInv
<1> QED BY <1>9, <1>10

LEMMA RunKeeps ==
    ASSUME RunInv, [Next]_vars
    PROVE  RunInv'
<1>1. CASE Together  BY <1>1, TogetherKeeps
<1>2. CASE FastAlone
  <2>1. PICK e \in Events(fast.m) : fast' = FastStep(fast, e)  BY <1>2 DEF FastAlone
  <2>2. /\ mode \in {"OneTx", "Batch"} /\ limit \in Nat /\ FastInv(fast, limit, mode) /\ fast.result = "none"
        /\ LatestInv(latest, limit, mode) /\ apart' # "no" /\ latest' = latest /\ mode' = mode /\ limit' = limit
    BY <1>2 DEF RunInv, FastAlone, Running
  <2>3. IsEvent(fast.m, e) /\ InOrder(fast.m, e, mode)  BY <2>1, <2>2, EventKinds DEF FastInv, IsFast
  <2>4. FastInv(fast', limit, mode)  BY <2>1, <2>2, <2>3, FastStepInv
  <2> QED BY <2>2, <2>4 DEF RunInv
<1>3. CASE LatestAlone
  <2>1. PICK e \in Events(latest.m) : latest' = LatestStep(latest, e)  BY <1>3 DEF LatestAlone
  <2>2. /\ mode \in {"OneTx", "Batch"} /\ limit \in Nat /\ FastInv(fast, limit, mode) /\ latest.result = "none"
        /\ LatestInv(latest, limit, mode) /\ apart' # "no" /\ fast' = fast /\ mode' = mode /\ limit' = limit
    BY <1>3 DEF RunInv, LatestAlone, Running
  <2>3. IsEvent(latest.m, e) /\ InOrder(latest.m, e, mode)  BY <2>1, <2>2, EventKinds DEF LatestInv, IsLatest
  <2>4. LatestInv(latest', limit, mode)  BY <2>1, <2>2, <2>3, LatestStepInv
  <2> QED BY <2>2, <2>4 DEF RunInv
<1>4. CASE UNCHANGED vars
  <2>1. mode' = mode /\ limit' = limit /\ fast' = fast /\ latest' = latest /\ apart' = apart  BY <1>4 DEF vars
  <2> QED BY <2>1 DEF RunInv
<1> QED BY <1>1, <1>2, <1>3, <1>4 DEF Next

\* What the inductive invariant says of the results.
LEMMA RunsAreAlike ==
    ASSUME RunInv
    PROVE  RunsAgree
<1>1. FastInv(fast, limit, mode) /\ LatestInv(latest, limit, mode) /\ limit \in Nat /\ mode \in {"OneTx", "Batch"}
  BY DEF RunInv
<1>2. ResultsAgree
  <2>1. CASE apart = "no"
    <3>1. Coupled(fast, latest, limit)  BY <2>1 DEF RunInv
    <3> QED BY Zenon, <3>1 DEF ResultsAgree, Coupled, CoupledGas
  <2>2. CASE apart # "no"  BY <2>2 DEF ResultsAgree
  <2> QED BY <2>1, <2>2
<1>3. ValidationIsBounded
  <2>1. latest.result \notin Halts \union {"none"} => latest.used <= limit  BY <1>1 DEF LatestInv
  <2>2. fast.left \in 0..limit  BY <1>1 DEF FastInv
  <2>3. fast.split # <<>> => fast.split[1] <= fast.left
    <3>1. CASE fast.m.phase = "validation"
      <4>1. PICK given \in Nat, rest \in Nat : fast.split = <<given, rest>> /\ given <= fast.left
        BY <1>1, <3>1 DEF FastInv, FastGas
      <4> QED BY <4>1
    <3>2. CASE fast.m.phase # "validation"  BY <1>1, <3>2 DEF FastInv, FastGas
    <3> QED BY <3>1, <3>2
  <2>4. fast.out => fast.result \in Halts \union {"none"}  BY <1>1 DEF FastInv
  <2> QED BY <2>1, <2>2, <2>3, <2>4 DEF ValidationIsBounded
<1>4. /\ Provided(fast.m, fast.bs, fast.suggested, fast.result, mode)
      /\ Provided(latest.m, latest.bs, latest.suggested, latest.result, mode)
  BY <1>1 DEF FastInv, LatestInv
<1>5. RefundIsStored  BY <1>4 DEF RefundIsStored, Provided
<1>6. TipIsProvidedOnce
  <2>1. ASSUME NEW m, NEW bs, NEW suggested, NEW result, Provided(m, bs, suggested, result, mode)
        PROVE  /\ \E once \in {0, 1}, twice \in {0, 1} :
                     /\ m.heap.fictive = once /\ bs.fictive = once
                     /\ m.heap.pubdata = twice /\ bs.pubdata = twice
               /\ mode = "Batch" /\ result = "Success" => m.heap.fictive = 1 /\ m.heap.pubdata = 1
    BY <2>1 DEF Provided
  <2>2. SUFFICES ASSUME NEW vm \in {[bs |-> fast.bs, heap |-> fast.m.heap, result |-> fast.result],
                                    [bs |-> latest.bs, heap |-> latest.m.heap, result |-> latest.result]}
                 PROVE  /\ \E once \in {0, 1}, twice \in {0, 1} :
                              /\ vm.heap.fictive = once /\ vm.bs.fictive = once
                              /\ vm.heap.pubdata = twice /\ vm.bs.pubdata = twice
                        /\ mode = "Batch" /\ vm.result = "Success" => vm.heap.fictive = 1 /\ vm.heap.pubdata = 1
    BY Zenon DEF TipIsProvidedOnce
  <2>3. CASE vm.bs = fast.bs /\ vm.heap = fast.m.heap /\ vm.result = fast.result  BY <1>4, <2>1, <2>3
  <2>4. CASE vm.bs = latest.bs /\ vm.heap = latest.m.heap /\ vm.result = latest.result  BY <1>4, <2>1, <2>4
  <2> QED BY <2>2, <2>3, <2>4
<1> QED BY <1>2, <1>3, <1>5, <1>6 DEF RunsAgree

\* The inductive invariant of the runs: each VM for itself, and both while they see the same.
THEOREM RunInvariantHolds == Spec => []RunInv
<1>1. Init => RunInv  BY InitialRun
<1>2. RunInv /\ [Next]_vars => RunInv'  BY RunKeeps
<1> QED BY <1>1, <1>2, PTL DEF Spec

\* FastVm::run() and the tracers of vm_latest run every transaction and every end of a batch alike,
\* whatever the gas, the limit of validations and the prices are.
THEOREM RunsAlwaysAgree == Spec => []RunsAgree
<1>1. RunInv => RunsAgree  BY RunsAreAlike
<1> QED BY <1>1, RunInvariantHolds, PTL

\* validation_run_out_of_gas() of vm_latest never aborts a transaction whose validation the fast VM's
\* FastValidationTracer takes for one within the limit.
THEOREM LimitIsAlwaysNoticed == Spec => LimitIsNoticed
<1>1. RunInv /\ [Next]_vars => [apart = "no" /\ latest'.result = "ValidationOutOfGas" => fast'.out]_vars
  <2>1. SUFFICES ASSUME RunInv, [Next]_vars, apart = "no", latest'.result = "ValidationOutOfGas"
                 PROVE  fast'.out \/ UNCHANGED vars
    OBVIOUS
  <2>2. CASE Together  BY <2>1, <2>2, TogetherKeeps
  <2>3. CASE FastAlone \/ LatestAlone  BY <2>1, <2>3 DEF FastAlone, LatestAlone
  <2> QED BY <2>1, <2>2, <2>3 DEF Next
<1> QED BY <1>1, RunInvariantHolds, PTL DEF Spec, LimitIsNoticed
=============================================================================
