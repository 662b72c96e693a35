---------------------------- MODULE VmLatestProofs ----------------------------
(***************************************************************************)
(* Proofs about the reference VM of VmRuns: a cycle of it, with what its    *)
(* tracers do before and after, keeps the invariant of that VM.             *)
(***************************************************************************)
EXTENDS VmStepsProofs

\* The hook that the tracers are told of.
Announced(l, e) == IF Pays(l.m, e.cost) THEN e.hook ELSE "none"

\* The bootloader cannot pay for the instruction.
Unpaid(l, e) == InBootloader(l.m) /\ ~ Pays(l.m, e.cost)

\* The VM at the end of a cycle, before the tracers decide whether it was the last; n is the machine
\* after the instruction.
Cycled(l, c, n, e) ==
    /\ IsLatest(c) /\ c.m.gas = n.gas /\ c.m.phase = n.phase /\ c.m.counter = n.counter /\ c.m.ended = n.ended
    /\ c.used = IF Pays(l.m, e.cost) /\ l.validating THEN l.used + e.cost[1] ELSE l.used
    /\ c.out_of_gas = Unpaid(l, e)
    /\ c.validating = IF Announced(l, e) = "AccountValidationEntered" THEN TRUE
                      ELSE IF Announced(l, e) = "ValidationExited" THEN FALSE ELSE l.validating
    /\ c.processed = IF Announced(l, e) = "TxHasEnded" THEN TRUE ELSE FALSE
    /\ c.final_info = FALSE /\ c.pubdata_requested = FALSE /\ c.pending = <<>> /\ c.result = l.result
    /\ c.posted = IF Announced(l, e) = "PostResult" THEN PostedResult(e.param) ELSE l.posted
    /\ c.refunded = IF Announced(l, e) = "NotifyAboutRefund" THEN e.param ELSE l.refunded
    /\ c.m.heap = CASE Announced(l, e) = "AskOperatorForRefund" ->
                          [n.heap EXCEPT !.refund = <<RefundAt(n, e, l.before)>>]
                    [] Announced(l, e) = "FinalBatchInfo" -> [n.heap EXCEPT !.fictive = @ + 1]
                    [] Announced(l, e) = "PubdataRequested" -> [n.heap EXCEPT !.pubdata = @ + 1]
                    [] OTHER -> n.heap
    /\ c.bs = CASE Announced(l, e) = "AskOperatorForRefund" ->
                      [l.bs EXCEPT !.refund = <<RefundAt(n, e, l.before)>>]
                [] Announced(l, e) = "FinalBatchInfo" -> [l.bs EXCEPT !.fictive = @ + 1]
                [] Announced(l, e) = "PubdataRequested" -> [l.bs EXCEPT !.pubdata = @ + 1]
                [] OTHER -> l.bs
    /\ IF Announced(l, e) = "AskOperatorForRefund"
       THEN c.suggested = <<RefundAt(n, e, l.before)>> /\ c.published = saturating_sub(n.counter, l.before)
       ELSE c.suggested = l.suggested /\ c.published = l.published
    /\ c.before = l.before

\* What the tracers note before the instruction is executed.
Noted(l, a, e) ==
    /\ IsLatest(a) /\ a.m = l.m /\ a.bs = l.bs /\ a.result = l.result
    /\ a.suggested = l.suggested /\ a.published = l.published /\ a.before = l.before
    /\ a.used = IF Pays(l.m, e.cost) /\ l.validating THEN l.used + e.cost[1] ELSE l.used
    /\ a.out_of_gas = Unpaid(l, e)
    /\ a.validating = IF Announced(l, e) = "AccountValidationEntered" THEN TRUE
                      ELSE IF Announced(l, e) = "ValidationExited" THEN FALSE ELSE l.validating
    /\ a.processed = IF Announced(l, e) = "TxHasEnded" THEN TRUE ELSE FALSE
    /\ a.final_info = IF Announced(l, e) = "FinalBatchInfo" THEN TRUE ELSE FALSE
    /\ a.pubdata_requested = IF Announced(l, e) = "PubdataRequested" THEN TRUE ELSE FALSE
    /\ a.pending = IF Announced(l, e) = "AskOperatorForRefund" THEN <<e.param>> ELSE <<>>
    /\ a.posted = IF Announced(l, e) = "PostResult" THEN PostedResult(e.param) ELSE l.posted
    /\ a.refunded = IF Announced(l, e) = "NotifyAboutRefund" THEN e.param ELSE l.refunded

\* No request is pending.
Idle(l) ==
    /\ l.processed = FALSE /\ l.out_of_gas = FALSE /\ l.final_info = FALSE /\ l.pubdata_requested = FALSE
    /\ l.pending = <<>>

LEMMA TracersNote ==
    ASSUME NEW l, IsLatest(l), Idle(l), NEW e, NEW a,
           a = IF Pays(l.m, e.cost) THEN before_execution(Counted(after_decoding(l, e), e), e)
               ELSE after_decoding(l, e)
    PROVE  Noted(l, a, e)
<1>1. PICK out : out = Unpaid(l, e)  OBVIOUS
<1>2. PICK d : d = after_decoding(l, e)  OBVIOUS
<1>3. d = [l EXCEPT !.out_of_gas = out]
  <2>1. out = (l.out_of_gas \/ (InBootloader(l.m) /\ ~ Pays(l.m, e.cost)))  BY <1>1 DEF Idle, Unpaid
  <2> QED BY <1>2, <2>1 DEF after_decoding
<1>4. /\ IsLatest(d) /\ d.out_of_gas = out
      /\ d.m = l.m /\ d.bs = l.bs /\ d.used = l.used /\ d.validating = l.validating
      /\ d.processed = l.processed /\ d.final_info = l.final_info /\ d.posted = l.posted
      /\ d.pending = l.pending /\ d.suggested = l.suggested /\ d.refunded = l.refunded
      /\ d.published = l.published /\ d.before = l.before /\ d.pubdata_requested = l.pubdata_requested
      /\ d.result = l.result
  BY <1>3 DEF IsLatest
<1>5. CASE ~Pays(l.m, e.cost)
  <2>1. a = d /\ Announced(l, e) = "none"  BY <1>2, <1>5 DEF Announced
  <2> QED BY Zenon, <1>1, <1>4, <1>5, <2>1 DEF Noted, Idle
<1>6. CASE Pays(l.m, e.cost)
  <2>1. PICK used : used = IF l.validating THEN l.used + e.cost[1] ELSE l.used  OBVIOUS
  <2>2. PICK k : k = Counted(d, e)  OBVIOUS
  <2>3. k = [d EXCEPT !.used = used]  BY <1>4, <2>1, <2>2 DEF Counted
  <2>4. /\ IsLatest(k) /\ k.out_of_gas = out /\ k.used = used
        /\ k.m = l.m /\ k.bs = l.bs /\ k.validating = l.validating /\ k.processed = l.processed
        /\ k.final_info = l.final_info /\ k.posted = l.posted /\ k.pending = l.pending
        /\ k.suggested = l.suggested /\ k.refunded = l.refunded /\ k.published = l.published
        /\ k.before = l.before /\ k.pubdata_requested = l.pubdata_requested /\ k.result = l.result
    BY <1>4, <2>3 DEF IsLatest
  <2>5. Announced(l, e) = e.hook /\ a = before_execution(k, e)  BY <1>2, <1>6, <2>2 DEF Announced
  <2>6. /\ k.used = IF Pays(l.m, e.cost) /\ l.validating THEN l.used + e.cost[1] ELSE l.used
        /\ k.out_of_gas = Unpaid(l, e)
    BY <1>1, <1>6, <2>1, <2>4
  <2>7. CASE e.hook = "TxHasEnded"
    <3>1. a = [k EXCEPT !.processed = TRUE]  BY Zenon, <2>5, <2>7 DEF before_execution
    <3>2. /\ IsLatest(a) /\ a.processed = TRUE
          /\ a.m = k.m /\ a.bs = k.bs /\ a.used = k.used /\ a.validating = k.validating
          /\ a.final_info = k.final_info /\ a.posted = k.posted /\ a.out_of_gas = k.out_of_gas
          /\ a.pending = k.pending /\ a.suggested = k.suggested /\ a.refunded = k.refunded
          /\ a.published = k.published /\ a.before = k.before /\ a.pubdata_requested = k.pubdata_requested
          /\ a.result = k.result
      BY <2>4, <3>1 DEF IsLatest
    <3> QED BY Zenon, <2>4, <2>5, <2>6, <2>7, <3>2 DEF Noted, Idle
  <2>8. CASE e.hook = "AccountValidationEntered"
    <3>1. a = [k EXCEPT !.validating = TRUE]  BY Zenon, <2>5, <2>8 DEF before_execution
    <3>2. /\ IsLatest(a) /\ a.validating = TRUE
          /\ a.m = k.m /\ a.bs = k.bs /\ a.used = k.used /\ a.processed = k.processed
          /\ a.final_info = k.final_info /\ a.posted = k.posted /\ a.out_of_gas = k.out_of_gas
          /\ a.pending = k.pending /\ a.suggested = k.suggested /\ a.refunded = k.refunded
          /\ a.published = k.published /\ a.before = k.before /\ a.pubdata_requested = k.pubdata_requested
          /\ a.result = k.result
      BY <2>4, <3>1 DEF IsLatest
    <3> QED BY Zenon, <2>4, <2>5, <2>6, <2>8, <3>2 DEF Noted, Idle
  <2>9. CASE e.hook = "ValidationExited"
    <3>1. a = [k EXCEPT !.validating = FALSE]  BY Zenon, <2>5, <2>9 DEF before_execution
    <3>2. /\ IsLatest(a) /\ a.validating = FALSE
          /\ a.m = k.m /\ a.bs = k.bs /\ a.used = k.used /\ a.processed = k.processed
          /\ a.final_info = k.final_info /\ a.posted = k.posted /\ a.out_of_gas = k.out_of_gas
          /\ a.pending = k.pending /\ a.suggested = k.suggested /\ a.refunded = k.refunded
          /\ a.published = k.published /\ a.before = k.before /\ a.pubdata_requested = k.pubdata_requested
          /\ a.result = k.result
      BY <2>4, <3>1 DEF IsLatest
    <3> QED BY Zenon, <2>4, <2>5, <2>6, <2>9, <3>2 DEF Noted, Idle
  <2>10. CASE e.hook = "FinalBatchInfo"
    <3>1. a = [k EXCEPT !.final_info = TRUE]  BY Zenon, <2>5, <2>10 DEF before_execution
    <3>2. /\ IsLatest(a) /\ a.final_info = TRUE
          /\ a.m = k.m /\ a.bs = k.bs /\ a.used = k.used /\ a.validating = k.validating
          /\ a.processed = k.processed /\ a.posted = k.posted /\ a.out_of_gas = k.out_of_gas
          /\ a.pending = k.pending /\ a.suggested = k.suggested /\ a.refunded = k.refunded
          /\ a.published = k.published /\ a.before = k.before /\ a.pubdata_requested = k.pubdata_requested
          /\ a.result = k.result
      BY <2>4, <3>1 DEF IsLatest
    <3> QED BY Zenon, <2>4, <2>5, <2>6, <2>10, <3>2 DEF Noted, Idle
  <2>11. CASE e.hook = "PostResult"
    <3>1. a = [k EXCEPT !.posted = PostedResult(e.param)]  BY <2>5, <2>11 DEF before_execution
    <3>2. /\ IsLatest(a) /\ a.posted = PostedResult(e.param)
          /\ a.m = k.m /\ a.bs = k.bs /\ a.used = k.used /\ a.validating = k.validating
          /\ a.processed = k.processed /\ a.final_info = k.final_info /\ a.out_of_gas = k.out_of_gas
          /\ a.pending = k.pending /\ a.suggested = k.suggested /\ a.refunded = k.refunded
          /\ a.published = k.published /\ a.before = k.before /\ a.pubdata_requested = k.pubdata_requested
          /\ a.result = k.result
      BY <2>4, <3>1 DEF IsLatest
    <3> QED BY Zenon, <2>4, <2>5, <2>6, <2>11, <3>2 DEF Noted, Idle
  <2>12. CASE e.hook = "NotifyAboutRefund"
    <3>1. a = [k EXCEPT !.refunded = e.param]  BY <2>5, <2>12 DEF before_execution
    <3>2. /\ IsLatest(a) /\ a.refunded = e.param
          /\ a.m = k.m /\ a.bs = k.bs /\ a.used = k.used /\ a.validating = k.validating
          /\ a.processed = k.processed /\ a.final_info = k.final_info /\ a.posted = k.posted
          /\ a.out_of_gas = k.out_of_gas /\ a.pending = k.pending /\ a.suggested = k.suggested
          /\ a.published = k.published /\ a.before = k.before /\ a.pubdata_requested = k.pubdata_requested
          /\ a.result = k.result
      BY <2>4, <3>1 DEF IsLatest
    <3> QED BY Zenon, <2>4, <2>5, <2>6, <2>12, <3>2 DEF Noted, Idle
  <2>13. CASE e.hook = "AskOperatorForRefund"
    <3>1. a = [k EXCEPT !.pending = <<e.param>>]  BY <2>5, <2>13 DEF before_execution
    <3>2. /\ IsLatest(a) /\ a.pending = <<e.param>>
          /\ a.m = k.m /\ a.bs = k.bs /\ a.used = k.used /\ a.validating = k.validating
          /\ a.processed = k.processed /\ a.final_info = k.final_info /\ a.posted = k.posted
          /\ a.out_of_gas = k.out_of_gas /\ a.suggested = k.suggested /\ a.refunded = k.refunded
          /\ a.published = k.published /\ a.before = k.before /\ a.pubdata_requested = k.pubdata_requested
          /\ a.result = k.result
      BY <2>4, <3>1 DEF IsLatest
    <3> QED BY Zenon, <2>4, <2>5, <2>6, <2>13, <3>2 DEF Noted, Idle
  <2>14. CASE e.hook = "PubdataRequested"
    <3>1. a = [k EXCEPT !.pubdata_requested = TRUE]  BY Zenon, <2>5, <2>14 DEF before_execution
    <3>2. /\ IsLatest(a) /\ a.pubdata_requested = TRUE
          /\ a.m = k.m /\ a.bs = k.bs /\ a.used = k.used /\ a.validating = k.validating
          /\ a.processed = k.processed /\ a.final_info = k.final_info /\ a.posted = k.posted
          /\ a.out_of_gas = k.out_of_gas /\ a.pending = k.pending /\ a.suggested = k.suggested
          /\ a.refunded = k.refunded /\ a.published = k.published /\ a.before = k.before
          /\ a.result = k.result
      BY <2>4, <3>1 DEF IsLatest
    <3> QED BY Zenon, <2>4, <2>5, <2>6, <2>14, <3>2 DEF Noted, Idle
  <2>15. CASE e.hook \notin HookNames
    <3>1. a = k  BY <2>5, <2>15 DEF before_execution, HookNames
    <3> QED BY Zenon, <2>4, <2>5, <2>6, <2>15, <3>1 DEF Noted, Idle, HookNames
  <2> QED BY <2>7, <2>8, <2>9, <2>10, <2>11, <2>12, <2>13, <2>14, <2>15 DEF HookNames
<1> QED BY <1>5, <1>6

\* What the tracers do at the end of a cycle that has announced them something.
LEMMA CycleFinishes ==
    ASSUME NEW l, IsLatest(l), NEW e, NEW a, Noted(l, a, e), NEW n, IsMachine(n),
           NEW c, c = PubdataFinishCycle(RefundsFinishCycle(set_fictive_l2_block([a EXCEPT !.m = n])))
    PROVE  Cycled(l, c, n, e)
<1>1. PICK x : x = [a EXCEPT !.m = n]  OBVIOUS
<1>2. /\ IsLatest(x) /\ x.m = n
      /\ x.bs = a.bs /\ x.used = a.used /\ x.validating = a.validating /\ x.processed = a.processed
      /\ x.final_info = a.final_info /\ x.posted = a.posted /\ x.out_of_gas = a.out_of_gas
      /\ x.pending = a.pending /\ x.suggested = a.suggested /\ x.refunded = a.refunded
      /\ x.published = a.published /\ x.before = a.before /\ x.pubdata_requested = a.pubdata_requested
      /\ x.result = a.result
  BY Zenon, <1>1 DEF Noted, IsLatest
<1>3. c = PubdataFinishCycle(RefundsFinishCycle(set_fictive_l2_block(x)))  BY <1>1
<1>4. PICK y : y = set_fictive_l2_block(x)  OBVIOUS
<1>5. PICK z : z = RefundsFinishCycle(y)  OBVIOUS
<1>6. c = PubdataFinishCycle(z)  BY <1>3, <1>4, <1>5
<1>7. CASE Announced(l, e) = "FinalBatchInfo"
  <2>1. x.final_info = TRUE /\ x.pending = <<>> /\ x.pubdata_requested = FALSE  BY <1>2, <1>7 DEF Noted
  <2>2. PICK u, v : u = n.heap.fictive + 1 /\ v = l.bs.fictive + 1  OBVIOUS
  <2>3. y = [x EXCEPT !.m.heap.fictive = u, !.bs.fictive = v, !.final_info = FALSE]
    <3>1. x.m.heap.fictive = n.heap.fictive /\ x.bs.fictive = l.bs.fictive  BY <1>2 DEF Noted
    <3> QED BY <1>4, <2>1, <2>2, <3>1 DEF set_fictive_l2_block, WithFictiveBlock
  <2>4. PICK heap, bs : heap = [n.heap EXCEPT !.fictive = u] /\ bs = [l.bs EXCEPT !.fictive = v]  BY Zenon
  <2>5. PICK m : m = [n EXCEPT !.heap = heap]  BY Zenon
  <2>6. /\ m.heap = heap /\ m.phase = n.phase /\ m.gas = n.gas /\ m.counter = n.counter /\ m.ended = n.ended
        /\ IsMachine(m) /\ IsNotes(bs)
    <3>1. IsHeap(heap) /\ IsNotes(bs)  BY <2>4 DEF IsLatest, IsMachine, IsHeap, IsNotes
    <3> QED BY <2>5, <3>1 DEF IsMachine
  <2>7. /\ y = [x EXCEPT !.m = m, !.bs = bs, !.final_info = FALSE]
        /\ IsLatest(y) /\ y.m = m /\ y.bs = bs /\ y.final_info = FALSE
        /\ m.heap = heap /\ m.phase = n.phase /\ m.gas = n.gas /\ m.counter = n.counter /\ m.ended = n.ended
        /\ y.used = x.used /\ y.validating = x.validating /\ y.processed = x.processed
        /\ y.posted = x.posted /\ y.out_of_gas = x.out_of_gas /\ y.pending = x.pending
        /\ y.suggested = x.suggested /\ y.refunded = x.refunded /\ y.published = x.published
        /\ y.before = x.before /\ y.pubdata_requested = x.pubdata_requested /\ y.result = x.result
    <3>1. x.m = n /\ x.bs = l.bs  BY <1>2 DEF Noted
    <3>2. y = [x EXCEPT !.m = m, !.bs = bs, !.final_info = FALSE]  BY Zenon, <2>3, <2>4, <2>5, <3>1
    <3> QED BY Zenon, <1>2, <2>6, <3>2 DEF IsLatest
  <2>8. z = y  BY <1>5, <2>1, <2>7 DEF RefundsFinishCycle
  <2>9. c = y  BY Zenon, <1>6, <2>1, <2>7, <2>8 DEF PubdataFinishCycle
  <2>10. /\ c.m.heap = [n.heap EXCEPT !.fictive = @ + 1] /\ c.bs = [l.bs EXCEPT !.fictive = @ + 1]
         /\ c.m.phase = n.phase /\ c.m.gas = n.gas /\ c.m.counter = n.counter /\ c.m.ended = n.ended
         /\ IsLatest(c) /\ c.final_info = FALSE
    BY Zenon, <2>2, <2>4, <2>7, <2>9
  <2>11. /\ c.used = a.used /\ c.validating = a.validating /\ c.processed = a.processed
         /\ c.posted = a.posted /\ c.out_of_gas = a.out_of_gas /\ c.pending = a.pending
         /\ c.suggested = a.suggested /\ c.refunded = a.refunded /\ c.published = a.published
         /\ c.before = a.before /\ c.pubdata_requested = a.pubdata_requested /\ c.result = a.result
    BY Zenon, <1>2, <2>7, <2>9
  <2> QED BY Zenon, <1>7, <2>10, <2>11 DEF Cycled, Noted
<1>8. CASE Announced(l, e) = "PubdataRequested"
  <2>1. x.final_info = FALSE /\ x.pending = <<>> /\ x.pubdata_requested = TRUE  BY <1>2, <1>8 DEF Noted
  <2>8. y = x  BY <1>4, <2>1 DEF set_fictive_l2_block
  <2>9. z = x  BY <1>5, <2>1, <2>8 DEF RefundsFinishCycle
  <2>2. PICK u, v : u = n.heap.pubdata + 1 /\ v = l.bs.pubdata + 1  OBVIOUS
  <2>3. c = [x EXCEPT !.m.heap.pubdata = u, !.bs.pubdata = v, !.pubdata_requested = FALSE]
    <3>1. x.m.heap.pubdata = n.heap.pubdata /\ x.bs.pubdata = l.bs.pubdata  BY <1>2 DEF Noted
    <3> QED BY Zenon, <1>6, <2>1, <2>2, <3>1, <2>9 DEF PubdataFinishCycle, WithPubdata
  <2>4. PICK heap, bs : heap = [n.heap EXCEPT !.pubdata = u] /\ bs = [l.bs EXCEPT !.pubdata = v]  BY Zenon
  <2>5. PICK m : m = [n EXCEPT !.heap = heap]  BY ZenonT(20)
  <2>6. /\ m.heap = heap /\ m.phase = n.phase /\ m.gas = n.gas /\ m.counter = n.counter /\ m.ended = n.ended
        /\ IsMachine(m) /\ IsNotes(bs)
    <3>1. IsHeap(heap) /\ IsNotes(bs)  BY <2>4 DEF IsLatest, IsMachine, IsHeap, IsNotes
    <3> QED BY <2>5, <3>1 DEF IsMachine
  <2>7. /\ c = [x EXCEPT !.m = m, !.bs = bs, !.pubdata_requested = FALSE]
        /\ IsLatest(c) /\ c.m = m /\ c.bs = bs /\ c.pubdata_requested = FALSE
        /\ m.heap = heap /\ m.phase = n.phase /\ m.gas = n.gas /\ m.counter = n.counter /\ m.ended = n.ended
        /\ c.used = x.used /\ c.validating = x.validating /\ c.processed = x.processed
        /\ c.final_info = x.final_info /\ c.posted = x.posted /\ c.out_of_gas = x.out_of_gas
        /\ c.pending = x.pending /\ c.suggested = x.suggested /\ c.refunded = x.refunded
        /\ c.published = x.published /\ c.before = x.before /\ c.result = x.result
    <3>1. x.m = n /\ x.bs = l.bs  BY <1>2 DEF Noted
    <3>2. c = [x EXCEPT !.m = m, !.bs = bs, !.pubdata_requested = FALSE]  BY Zenon, <2>3, <2>4, <2>5, <3>1
    <3>3. /\ c.m = m /\ c.bs = bs /\ c.pubdata_requested = FALSE
          /\ c.used = x.used /\ c.validating = x.validating /\ c.processed = x.processed
          /\ c.final_info = x.final_info /\ c.posted = x.posted /\ c.out_of_gas = x.out_of_gas
          /\ c.pending = x.pending /\ c.suggested = x.suggested /\ c.refunded = x.refunded
          /\ c.published = x.published /\ c.before = x.before /\ c.result = x.result
      BY ZenonT(40), <1>2, <3>2 DEF IsLatest
    <3>4. IsLatest(c)  BY Zenon, <1>2, <2>6, <3>2 DEF IsLatest
    <3> QED BY <2>6, <3>2, <3>3, <3>4
  <2> QED BY ZenonT(40), <1>2, <1>8, <2>1, <2>2, <2>4, <2>5, <2>7 DEF Cycled, Noted
<1>9. CASE Announced(l, e) = "AskOperatorForRefund"
  <2>1. x.final_info = FALSE /\ x.pending = <<e.param>> /\ x.pubdata_requested = FALSE  BY <1>2, <1>9 DEF Noted
  <2>2. y = x  BY <1>4, <2>1 DEF set_fictive_l2_block
  <2>3. PICK refund : refund = RefundAt(n, e, l.before)  OBVIOUS
  <2>4. PICK published : published = saturating_sub(n.counter, l.before)  OBVIOUS
  <2>5. PICK h : h = Refunded(x, refund)  OBVIOUS
  <2>6. z = [h EXCEPT !.published = published, !.suggested = <<refund>>, !.pending = <<>>]
    <3>1. x.m.counter = n.counter /\ x.before = l.before /\ x.pending # <<>> /\ x.pending[1] = e.param
      BY <1>2, <2>1 DEF Noted
    <3> QED BY <1>5, <2>2, <2>3, <2>4, <2>5, <3>1 DEF RefundsFinishCycle, RefundAt
  <2>7. PICK heap, bs : /\ heap = [x.m.heap EXCEPT !.refund = <<refund>>]
                        /\ bs = [x.bs EXCEPT !.refund = <<refund>>]
    BY Zenon
  <2>8. PICK m : m = [x.m EXCEPT !.heap = heap]  BY Zenon
  <2>9. /\ m.heap = heap /\ m.phase = x.m.phase /\ m.gas = x.m.gas /\ m.counter = x.m.counter
        /\ m.ended = x.m.ended /\ IsMachine(m) /\ IsNotes(bs)
    <3>1. IsHeap(heap) /\ IsNotes(bs)  BY <1>2, <2>7 DEF IsLatest, IsMachine, IsHeap, IsNotes
    <3>2. IsMachine(x.m)  BY <1>2
    <3> QED BY <2>8, <3>1, <3>2 DEF IsMachine
  <2>10. h = [x EXCEPT !.m = m, !.bs = bs]  BY <2>5, <2>7, <2>8 DEF Refunded
  <2>11. /\ IsLatest(h) /\ h.m = m /\ h.bs = bs
         /\ h.used = x.used /\ h.validating = x.validating /\ h.processed = x.processed
         /\ h.final_info = x.final_info /\ h.posted = x.posted /\ h.out_of_gas = x.out_of_gas
         /\ h.pending = x.pending /\ h.suggested = x.suggested /\ h.refunded = x.refunded
         /\ h.published = x.published /\ h.before = x.before /\ h.pubdata_requested = x.pubdata_requested
         /\ h.result = x.result
    BY Zenon, <1>2, <2>9, <2>10 DEF IsLatest
  <2>12. /\ IsLatest(z) /\ z.published = published /\ z.suggested = <<refund>> /\ z.pending = <<>>
         /\ z.m = h.m /\ z.bs = h.bs /\ z.used = h.used /\ z.validating = h.validating
         /\ z.processed = h.processed /\ z.final_info = h.final_info /\ z.posted = h.posted
         /\ z.out_of_gas = h.out_of_gas /\ z.refunded = h.refunded /\ z.before = h.before
         /\ z.pubdata_requested = h.pubdata_requested /\ z.result = h.result
    BY Zenon, <2>6, <2>11 DEF IsLatest
  <2>13. c = z  BY <1>6, <2>1, <2>11, <2>12 DEF PubdataFinishCycle
  <2>14. /\ c.m.heap = [n.heap EXCEPT !.refund = <<refund>>] /\ c.bs = [l.bs EXCEPT !.refund = <<refund>>]
         /\ c.m.phase = n.phase /\ c.m.gas = n.gas /\ c.m.counter = n.counter /\ c.m.ended = n.ended
    BY <1>2, <2>7, <2>9, <2>11, <2>12, <2>13 DEF Noted
  <2>15. /\ IsLatest(c) /\ c.published = published /\ c.suggested = <<refund>> /\ c.pending = <<>>
         /\ c.used = a.used /\ c.validating = a.validating /\ c.processed = a.processed
         /\ c.final_info = a.final_info /\ c.posted = a.posted /\ c.out_of_gas = a.out_of_gas
         /\ c.refunded = a.refunded /\ c.before = a.before /\ c.pubdata_requested = a.pubdata_requested
         /\ c.result = a.result
    BY Zenon, <1>2, <2>11, <2>12, <2>13
  <2> QED BY Zenon, <1>9, <2>3, <2>4, <2>14, <2>15 DEF Cycled, Noted
<1>10. CASE Announced(l, e) \notin {"FinalBatchInfo", "PubdataRequested", "AskOperatorForRefund"}
  <2>1. x.final_info = FALSE /\ x.pending = <<>> /\ x.pubdata_requested = FALSE  BY <1>2, <1>10 DEF Noted
  <2>2. y = x  BY <1>4, <2>1 DEF set_fictive_l2_block
  <2>3. z = x  BY <1>5, <2>1, <2>2 DEF RefundsFinishCycle
  <2>4. c = x  BY <1>6, <2>1, <2>3 DEF PubdataFinishCycle
  <2> QED BY Zenon, <1>2, <1>10, <2>1, <2>4 DEF Cycled, Noted
<1> QED BY <1>7, <1>8, <1>9, <1>10

LEMMA LatestCycles ==
    ASSUME NEW l, IsLatest(l), Idle(l), NEW e, IsEvent(l.m, e), NEW n, n = Executed(l.m, e),
           NEW g, g = LatestStep(l, e)
    PROVE  \E c : Cycled(l, c, n, e) /\ g = CycleEnded(c, e)
<1>1. PICK a : a = IF Pays(l.m, e.cost) THEN before_execution(Counted(after_decoding(l, e), e), e)
                   ELSE after_decoding(l, e)
  OBVIOUS
<1>2. Noted(l, a, e)  BY <1>1, TracersNote
<1>3. IsMachine(n)  BY PaidEvents, UnpaidEvents DEF IsLatest
<1>4. PICK c : c = PubdataFinishCycle(RefundsFinishCycle(set_fictive_l2_block([a EXCEPT !.m = n])))  OBVIOUS
<1>5. g = CycleEnded(c, e)  BY <1>1, <1>4 DEF LatestStep
<1>6. Cycled(l, c, n, e)  BY <1>2, <1>3, <1>4, CycleFinishes
<1> QED BY <1>5, <1>6

\* The result at the end of a cycle, "none" if it is not the last.
Verdict(c, e, lim, md) ==
    IF md = "OneTx" /\ c.processed
    THEN (IF c.out_of_gas THEN "BootloaderOutOfGas" ELSE IF c.posted # "none" THEN c.posted ELSE UnpostedResult(c.m))
    ELSE IF c.used > lim /\ md = "OneTx" THEN "ValidationOutOfGas"
    ELSE IF c.used > lim \/ c.m.ended # "no" THEN vm_finished_execution(c, e)
    ELSE "none"

LEMMA CyclesEnd ==
    ASSUME NEW c, IsLatest(c), c.result = "none", NEW e, NEW g, g = CycleEnded(c, e)
    PROVE  /\ IsLatest(g) /\ g.result = Verdict(c, e, limit, mode)
           /\ g.m = c.m /\ g.bs = c.bs /\ g.used = c.used /\ g.validating = c.validating
           /\ g.processed = c.processed /\ g.final_info = c.final_info /\ g.posted = c.posted
           /\ g.out_of_gas = c.out_of_gas /\ g.pending = c.pending /\ g.suggested = c.suggested
           /\ g.refunded = c.refunded /\ g.published = c.published /\ g.before = c.before
           /\ g.pubdata_requested = c.pubdata_requested
<1>1. PICK v : v = Verdict(c, e, limit, mode)  OBVIOUS
<1>2. g = [c EXCEPT !.result = v] \/ (g = c /\ v = "none")
  <2>1. CASE mode = "OneTx" /\ c.processed
    <3>1. should_stop_execution(c) = "Finish"  BY <2>1 DEF should_stop_execution
    <3>2. v = vm_stopped_execution(c, "Finish")  BY <1>1, <2>1 DEF Verdict, vm_stopped_execution
    <3>3. g = after_vm_execution(c, "Finish", e)  BY <3>1 DEF CycleEnded
    <3> QED BY <2>1, <3>2, <3>3 DEF after_vm_execution
  <2>2. CASE ~(mode = "OneTx" /\ c.processed) /\ c.used > limit
    <3>1. should_stop_execution(c) = "Abort"
      BY <2>2 DEF should_stop_execution, validation_run_out_of_gas
    <3>2. g = after_vm_execution(c, "Abort", e)  BY <3>1 DEF CycleEnded
    <3>3. vm_stopped_execution(c, "Abort") = "ValidationOutOfGas"  BY DEF vm_stopped_execution
    <3> QED BY <1>1, <2>2, <3>2, <3>3 DEF after_vm_execution, Verdict
  <2>3. CASE ~(mode = "OneTx" /\ c.processed) /\ ~(c.used > limit)
    <3>1. should_stop_execution(c) = "Continue"
      BY <2>3 DEF should_stop_execution, validation_run_out_of_gas
    <3>2. g = IF c.m.ended # "no" THEN after_vm_execution(c, "VmFinished", e) ELSE c  BY <3>1 DEF CycleEnded
    <3> QED BY <1>1, <2>3, <3>2 DEF after_vm_execution, Verdict
  <2> QED BY <2>1, <2>2, <2>3
<1>3. /\ IsLatest(g) /\ g.result = v
      /\ g.m = c.m /\ g.bs = c.bs /\ g.used = c.used /\ g.validating = c.validating
      /\ g.processed = c.processed /\ g.final_info = c.final_info /\ g.posted = c.posted
      /\ g.out_of_gas = c.out_of_gas /\ g.pending = c.pending /\ g.suggested = c.suggested
      /\ g.refunded = c.refunded /\ g.published = c.published /\ g.before = c.before
      /\ g.pubdata_requested = c.pubdata_requested
  BY <1>2 DEF IsLatest
<1> QED BY <1>1, <1>3

\* The announced hook is one of the bootloader's, in its phase.
LEMMA Announcements ==
    ASSUME NEW l, IsLatest(l), NEW e, IsEvent(l.m, e), NEW md, InOrder(l.m, e, md)
    PROVE  /\ e.what # "hook" \/ ~ Pays(l.m, e.cost) => Announced(l, e) \notin HookNames
           /\ e.what = "hook" /\ Pays(l.m, e.cost) =>
                 /\ Announced(l, e) = e.hook /\ Announced(l, e) \in HookNames
                 /\ (md = "OneTx" /\ TxHook(l.m, e)) \/ (md = "Batch" /\ TipHook(l.m, e))
BY DEF Announced, InOrder, IsEvent, HookNames, TxHook, TipHook

\* The verdict on a cycle that no hook was announced in.
LEMMA PlainVerdict ==
    ASSUME NEW c, NEW e, NEW lim, NEW md, NEW v, v = Verdict(c, e, lim, md),
           ~c.processed, c.m.ended \in {"no", "Panic", "Revert", "Ok"},
           c.m.ended = "Revert" => e.param \in BootloaderErrors, md = "OneTx" \/ ~(c.used > lim)
    PROVE  /\ c.used > lim => v = "ValidationOutOfGas"
           /\ ~(c.used > lim) => /\ c.m.ended = "no" => v = "none"
                                 /\ c.m.ended = "Ok" => v = "Success"
                                 /\ c.m.ended = "Revert" => v = "Halt"
                                 /\ c.m.ended = "Panic" => v \in {"BootloaderOutOfGas", "VMPanic"}
<1>1. /\ c.m.ended = "Ok" => vm_finished_execution(c, e) = "Success"
      /\ c.m.ended = "Revert" => vm_finished_execution(c, e) = RevertResult(e.param)
      /\ c.m.ended = "Panic" => vm_finished_execution(c, e) \in {"BootloaderOutOfGas", "VMPanic"}
  BY DEF vm_finished_execution
<1>2. c.m.ended = "Revert" => RevertResult(e.param) = "Halt"  BY ErrorsHalt
<1> QED BY <1>1, <1>2 DEF Verdict

\* What a cycle without a hook, and one with a hook, make of the reference VM; n is the machine after
\* the instruction.
LatestPlain(l, g, n, e, lim) ==
    /\ g.m.gas = n.gas /\ g.m.phase = n.phase /\ g.m.counter = n.counter /\ g.m.ended = n.ended /\ g.m.heap = n.heap
    /\ g.bs = l.bs /\ g.suggested = l.suggested /\ g.refunded = l.refunded /\ g.published = l.published
    /\ g.before = l.before /\ g.posted = l.posted
    /\ g.used = IF Pays(l.m, e.cost) /\ l.validating THEN l.used + e.cost[1] ELSE l.used
    /\ g.used > lim => g.result = "ValidationOutOfGas"
    /\ ~(g.used > lim) => /\ n.ended = "no" => g.result = "none"
                          /\ n.ended = "Ok" => g.result = "Success"
                          /\ n.ended = "Revert" => g.result = "Halt"
                          /\ n.ended = "Panic" => g.result \in {"BootloaderOutOfGas", "VMPanic"}

LatestHooked(l, g, n, e, lim) ==
    /\ g.m.gas = n.gas /\ g.m.phase = n.phase /\ g.m.counter = n.counter /\ g.m.ended = n.ended
    /\ g.m.heap = CASE e.hook = "AskOperatorForRefund" -> [n.heap EXCEPT !.refund = <<RefundAt(n, e, l.before)>>]
                    [] e.hook = "FinalBatchInfo" -> [n.heap EXCEPT !.fictive = @ + 1]
                    [] e.hook = "PubdataRequested" -> [n.heap EXCEPT !.pubdata = @ + 1]
                    [] OTHER -> n.heap
    /\ g.bs = CASE e.hook = "AskOperatorForRefund" -> [l.bs EXCEPT !.refund = <<RefundAt(n, e, l.before)>>]
                [] e.hook = "FinalBatchInfo" -> [l.bs EXCEPT !.fictive = @ + 1]
                [] e.hook = "PubdataRequested" -> [l.bs EXCEPT !.pubdata = @ + 1]
                [] OTHER -> l.bs
    /\ IF e.hook = "AskOperatorForRefund"
       THEN g.suggested = <<RefundAt(n, e, l.before)>> /\ g.published = saturating_sub(n.counter, l.before)
       ELSE g.suggested = l.suggested /\ g.published = l.published
    /\ g.refunded = (IF e.hook = "NotifyAboutRefund" THEN e.param ELSE l.refunded) /\ g.before = l.before
    /\ g.posted = IF e.hook = "PostResult" THEN PostedResult(e.param) ELSE l.posted
    /\ g.used = IF Pays(l.m, e.cost) /\ l.validating THEN l.used + e.cost[1] ELSE l.used
    /\ g.result = IF e.hook = "TxHasEnded" THEN (IF l.posted # "none" THEN l.posted ELSE UnpostedResult(n))
                  ELSE IF g.used > lim THEN "ValidationOutOfGas" ELSE "none"

\* A cycle without a hook.
LEMMA LatestPlainInv ==
    ASSUME NEW lim \in Nat, lim = limit, NEW md \in {"OneTx", "Batch"}, md = mode,
           NEW l, LatestInv(l, lim, md), l.result = "none",
           NEW e, IsEvent(l.m, e), InOrder(l.m, e, md), e.what # "hook" \/ ~ Pays(l.m, e.cost),
           NEW g, g = LatestStep(l, e)
    PROVE  LatestInv(g, lim, md) /\ LatestPlain(l, g, Executed(l.m, e), e, lim)
<1>1. IsLatest(l) /\ IsMachine(l.m) /\ l.m.ended = "no" /\ Idle(l) /\ l.used \in Nat /\ l.used <= lim
  BY DEF LatestInv, IsLatest, Provided, Idle, Halts
<1>2. PICK n : n = Executed(l.m, e)  OBVIOUS
<1>3. PICK c : Cycled(l, c, n, e) /\ g = CycleEnded(c, e)  BY <1>1, <1>2, LatestCycles
<1>4. /\ n.heap.refund = l.m.heap.refund /\ n.heap.fictive = l.m.heap.fictive /\ n.heap.pubdata = l.m.heap.pubdata
      /\ \/ n.phase = l.m.phase
         \/ md = "OneTx" /\ l.m.phase \in {"begin", "validated"} /\ n.phase = "executed" /\ n.ended = "no"
      /\ \/ n.ended \in {"no", "Panic"}
         \/ n.ended = "Revert" /\ e.param \in BootloaderErrors
         \/ n.ended = "Ok" /\ md = "Batch" /\ l.m.phase = "pubdata"
  BY <1>1, <1>2, PlainStep
<1>5. Announced(l, e) \notin HookNames  BY <1>1, Announcements
<1>6. /\ IsLatest(c) /\ c.m.phase = n.phase /\ c.m.ended = n.ended /\ c.m.heap = n.heap /\ c.bs = l.bs
      /\ c.suggested = l.suggested /\ c.posted = l.posted /\ c.validating = l.validating
      /\ c.processed = FALSE /\ c.final_info = FALSE /\ c.pubdata_requested = FALSE /\ c.pending = <<>>
      /\ c.result = "none" /\ c.out_of_gas = Unpaid(l, e)
      /\ c.m.gas = n.gas /\ c.m.counter = n.counter
      /\ c.refunded = l.refunded /\ c.published = l.published /\ c.before = l.before
      /\ c.used = IF Pays(l.m, e.cost) /\ l.validating THEN l.used + e.cost[1] ELSE l.used
  BY Zenon, <1>3, <1>5 DEF Cycled, HookNames
<1>7. /\ IsLatest(g) /\ g.result = Verdict(c, e, lim, md)
      /\ g.m = c.m /\ g.bs = c.bs /\ g.used = c.used /\ g.validating = c.validating /\ g.processed = c.processed
      /\ g.final_info = c.final_info /\ g.posted = c.posted /\ g.out_of_gas = c.out_of_gas
      /\ g.pending = c.pending /\ g.suggested = c.suggested /\ g.pubdata_requested = c.pubdata_requested
      /\ g.refunded = c.refunded /\ g.published = c.published /\ g.before = c.before
  BY <1>3, <1>6, CyclesEnd
<1>8. c.used \in Nat /\ (md = "Batch" => c.used <= lim)
  <2>1. e.cost[1] \in Nat  BY DEF IsEvent
  <2>2. c.used = l.used + e.cost[1] \/ c.used = l.used  BY <1>3 DEF Cycled
  <2>3. md = "Batch" => c.used = l.used  BY Zenon, <1>3 DEF Cycled, LatestInv, Provided, Phases
  <2> QED BY <1>1, <2>1, <2>2, <2>3
<1>9. /\ c.used > lim => g.result = "ValidationOutOfGas" /\ md = "OneTx"
      /\ ~(c.used > lim) => /\ n.ended = "no" => g.result = "none"
                            /\ n.ended = "Ok" => g.result = "Success"
                            /\ n.ended = "Revert" => g.result = "Halt"
                            /\ n.ended = "Panic" => g.result \in {"BootloaderOutOfGas", "VMPanic"}
  <2>1. md = "OneTx" \/ ~(c.used > lim)  BY <1>8
  <2>2. c.m.ended \in {"no", "Panic", "Revert", "Ok"} /\ (c.m.ended = "Revert" => e.param \in BootloaderErrors)
    BY <1>4, <1>6
  <2>3. ~c.processed /\ c.m.ended = n.ended  BY <1>6
  <2>4. PICK v : v = Verdict(c, e, lim, md)  OBVIOUS
  <2>5. /\ c.used > lim => v = "ValidationOutOfGas"
        /\ ~(c.used > lim) => /\ n.ended = "no" => v = "none"
                              /\ n.ended = "Ok" => v = "Success"
                              /\ n.ended = "Revert" => v = "Halt"
                              /\ n.ended = "Panic" => v \in {"BootloaderOutOfGas", "VMPanic"}
    BY <2>1, <2>2, <2>3, <2>4, PlainVerdict
  <2>6. g.result = v  BY <1>7, <2>4
  <2> QED BY <2>1, <2>5, <2>6
<1>10. Provided(g.m, g.bs, g.suggested, g.result, md)
  <2>1. g.m.phase \in Phases(md)  BY <1>4, <1>6, <1>7 DEF LatestInv, Provided, Phases
  <2>2. /\ g.m.phase \in {"tip", "pubdata"} <=> l.m.phase \in {"tip", "pubdata"}
        /\ g.m.phase = "pubdata" <=> l.m.phase = "pubdata"
    BY <1>4, <1>6, <1>7
  <2>3. g.result = "none" => g.m.ended = "no"  BY <1>4, <1>6, <1>7, <1>9
  <2>4. md = "Batch" /\ g.result = "Success" => g.m.phase = "pubdata"  BY <1>4, <1>6, <1>7, <1>9
  <2> QED BY <1>4, <1>6, <1>7, <2>1, <2>2, <2>3, <2>4 DEF LatestInv, Provided
<1>11. g.validating = (g.m.phase = "validation")
  <2>1. (g.m.phase = "validation") = (l.m.phase = "validation")  BY <1>4, <1>6, <1>7
  <2>2. l.validating = (l.m.phase = "validation")  BY DEF LatestInv
  <2>3. g.validating = l.validating  BY <1>6, <1>7
  <2> QED BY <2>1, <2>2, <2>3
<1>12. g.result \notin Halts => g.used <= lim  BY <1>7, <1>8, <1>9 DEF Halts
<1>13. g.result = "none" => g.processed = FALSE /\ g.out_of_gas = FALSE
  <2>1. InBootloader(l.m) /\ ~Pays(l.m, e.cost) => n.ended = "Panic"  BY <1>1, <1>2, UnpaidEvents, Frames
  <2>2. Unpaid(l, e) \in BOOLEAN /\ (Unpaid(l, e) => g.result # "none")
    BY <1>9, <2>1 DEF Unpaid
  <2>3. g.result = "none" => Unpaid(l, e) = FALSE  BY <2>2
  <2> QED BY <1>6, <1>7, <2>3
<1>14. LatestInv(g, lim, md)  BY ZenonT(20), <1>6, <1>7, <1>8, <1>10, <1>11, <1>12, <1>13 DEF LatestInv
<1>15. LatestPlain(l, g, n, e, lim)  BY <1>6, <1>7, <1>9 DEF LatestPlain
<1> QED BY <1>2, <1>14, <1>15

\* A cycle with a hook.
LEMMA LatestHookInv ==
    ASSUME NEW lim \in Nat, lim = limit, NEW md \in {"OneTx", "Batch"}, md = mode,
           NEW l, LatestInv(l, lim, md), l.result = "none",
           NEW e, IsEvent(l.m, e), InOrder(l.m, e, md), e.what = "hook", Pays(l.m, e.cost),
           NEW g, g = LatestStep(l, e)
    PROVE  LatestInv(g, lim, md) /\ LatestHooked(l, g, Executed(l.m, e), e, lim)
<1>1. IsLatest(l) /\ IsMachine(l.m) /\ l.m.ended = "no" /\ Idle(l) /\ l.used \in Nat /\ l.used <= lim
  BY DEF LatestInv, IsLatest, Provided, Idle, Halts
<1>2. PICK n : n = Executed(l.m, e)  OBVIOUS
<1>3. PICK c : Cycled(l, c, n, e) /\ g = CycleEnded(c, e)  BY <1>1, <1>2, LatestCycles
<1>4. /\ Announced(l, e) = e.hook /\ Announced(l, e) \in HookNames
      /\ (md = "OneTx" /\ TxHook(l.m, e)) \/ (md = "Batch" /\ TipHook(l.m, e))
  BY <1>1, Announcements
<1>5. IsMachine(n) /\ Effect(l.m, n, e)  BY <1>1, <1>2, PaidEvents
<1>6. n.phase = e.next /\ n.ended = "no"  BY <1>1, <1>5 DEF Effect
<1>7. n.heap.refund = l.m.heap.refund /\ n.heap.fictive = l.m.heap.fictive /\ n.heap.pubdata = l.m.heap.pubdata
  BY <1>1, <1>5 DEF Effect, IsMachine, IsHeap
<1>8. ~Unpaid(l, e) /\ Unpaid(l, e) = FALSE  BY DEF Unpaid
<1>9. /\ IsLatest(c) /\ c.m.phase = e.next /\ c.m.ended = "no"
      /\ c.final_info = FALSE /\ c.pubdata_requested = FALSE /\ c.pending = <<>>
      /\ c.result = "none" /\ c.out_of_gas = FALSE
      /\ c.posted = (IF e.hook = "PostResult" THEN PostedResult(e.param) ELSE l.posted)
      /\ c.processed = (IF e.hook = "TxHasEnded" THEN TRUE ELSE FALSE)
      /\ c.validating = IF e.hook = "AccountValidationEntered" THEN TRUE
                        ELSE IF e.hook = "ValidationExited" THEN FALSE ELSE l.validating
  BY <1>3, <1>4, <1>6, <1>8 DEF Cycled
<1>10. /\ IsLatest(g) /\ g.result = Verdict(c, e, lim, md)
       /\ g.m = c.m /\ g.bs = c.bs /\ g.used = c.used /\ g.validating = c.validating /\ g.processed = c.processed
       /\ g.final_info = c.final_info /\ g.posted = c.posted /\ g.out_of_gas = c.out_of_gas
       /\ g.pending = c.pending /\ g.suggested = c.suggested /\ g.pubdata_requested = c.pubdata_requested
       /\ g.refunded = c.refunded /\ g.published = c.published /\ g.before = c.before
  <2>1. IsLatest(c) /\ c.result = "none" /\ g = CycleEnded(c, e)  BY <1>3, <1>9
  <2> QED BY <2>1, CyclesEnd
<1>11. c.used \in Nat /\ (l.m.phase # "validation" => c.used <= lim)
  <2>1. e.cost[1] \in Nat  BY DEF IsEvent
  <2>2. c.used = l.used + e.cost[1] \/ c.used = l.used  BY <1>3 DEF Cycled
  <2>3. l.m.phase # "validation" => c.used = l.used  BY Zenon, <1>3 DEF Cycled, LatestInv
  <2> QED BY <1>1, <2>1, <2>2, <2>3
<1>12. e.hook = "TxHasEnded" => /\ g.result \in {"Success", "Revert", "SuccessEmpty", "RevertEmpty"} /\ c.used <= lim
                                /\ md = "OneTx" /\ l.m.phase = "refunded" /\ e.next = "ended"
  BY <1>4, <1>9, <1>10, <1>11 DEF TxHook, TipHook, Verdict, LatestInv, PostedResult, UnpostedResult
<1>13. e.hook # "TxHasEnded" => g.result = IF c.used > lim THEN "ValidationOutOfGas" ELSE "none"
  <2>1. c.used > lim => md = "OneTx"  BY <1>1, <1>4, <1>11 DEF TipHook
  <2> QED BY <1>9, <1>10, <2>1 DEF Verdict
<1>14. g.posted \in {"none", "Success", "Revert"}  BY <1>9, <1>10 DEF LatestInv, PostedResult
<1>15. g.validating = (g.m.phase = "validation")
  <2>1. CASE e.hook = "AccountValidationEntered"  BY Zenon, <1>4, <1>9, <1>10, <2>1 DEF TxHook, TipHook
  <2>2. CASE e.hook # "AccountValidationEntered"
    <3>1. g.m.phase # "validation"  BY <1>4, <1>9, <1>10, <2>2 DEF TxHook, TipHook
    <3>2. g.validating = FALSE
      <4>1. CASE e.hook = "ValidationExited"  BY <1>9, <1>10, <4>1
      <4>2. CASE e.hook # "ValidationExited"
        <5>1. l.m.phase # "validation"  BY <1>4, <4>2 DEF TxHook, TipHook
        <5>2. l.validating = FALSE  BY Zenon, <5>1 DEF LatestInv
        <5> QED BY <1>9, <1>10, <2>2, <4>2, <5>2
      <4> QED BY Zenon, <4>1, <4>2
    <3> QED BY Zenon, <3>1, <3>2
  <2> QED BY <2>1, <2>2
<1>16. Provided(g.m, g.bs, g.suggested, g.result, md)
  <2>1. g.m.phase \in Phases(md)  BY <1>4, <1>9, <1>10 DEF TxHook, TipHook, Phases
  <2>2. IsHeap(n.heap) /\ IsNotes(l.bs)  BY <1>1, <1>5 DEF IsMachine, IsLatest
  <2>3. md = "Batch" => g.result # "Success"  BY <1>12, <1>13
  <2>4. CASE e.hook = "AskOperatorForRefund"
    <3>1. PICK refund : refund = <<RefundAt(n, e, l.before)>>  BY Zenon
    <3>2. /\ g.m.heap = [n.heap EXCEPT !.refund = refund] /\ g.bs = [l.bs EXCEPT !.refund = refund]
          /\ g.suggested = refund /\ g.m.phase = "asked" /\ l.m.phase = "executed"
      BY <1>3, <1>4, <1>9, <1>10, <2>4, <3>1 DEF Cycled, TxHook, TipHook
    <3>3. /\ g.m.heap.refund = refund /\ g.m.heap.fictive = n.heap.fictive /\ g.m.heap.pubdata = n.heap.pubdata
          /\ g.bs.refund = refund /\ g.bs.fictive = l.bs.fictive /\ g.bs.pubdata = l.bs.pubdata
      BY <2>2, <3>2 DEF IsHeap, IsNotes
    <3> QED BY <1>7, <1>9, <1>10, <2>1, <2>3, <3>2, <3>3 DEF LatestInv, Provided
  <2>5. CASE e.hook = "FinalBatchInfo"
    <3>1. /\ g.m.heap = [n.heap EXCEPT !.fictive = @ + 1] /\ g.bs = [l.bs EXCEPT !.fictive = @ + 1]
          /\ g.suggested = l.suggested /\ g.m.phase = "tip" /\ l.m.phase = "begin"
      BY <1>3, <1>4, <1>9, <1>10, <2>5 DEF Cycled, TxHook, TipHook
    <3>2. /\ g.m.heap.refund = n.heap.refund /\ g.m.heap.fictive = n.heap.fictive + 1 /\ g.m.heap.pubdata = n.heap.pubdata
          /\ g.bs.refund = l.bs.refund /\ g.bs.fictive = l.bs.fictive + 1 /\ g.bs.pubdata = l.bs.pubdata
      BY <2>2, <3>1 DEF IsHeap, IsNotes
    <3> QED BY <1>7, <1>9, <1>10, <2>1, <2>3, <3>1, <3>2 DEF LatestInv, Provided
  <2>6. CASE e.hook = "PubdataRequested"
    <3>1. /\ g.m.heap = [n.heap EXCEPT !.pubdata = @ + 1] /\ g.bs = [l.bs EXCEPT !.pubdata = @ + 1]
          /\ g.suggested = l.suggested /\ g.m.phase = "pubdata" /\ l.m.phase = "tip"
      BY <1>3, <1>4, <1>9, <1>10, <2>6 DEF Cycled, TxHook, TipHook
    <3>2. /\ g.m.heap.refund = n.heap.refund /\ g.m.heap.fictive = n.heap.fictive /\ g.m.heap.pubdata = n.heap.pubdata + 1
          /\ g.bs.refund = l.bs.refund /\ g.bs.fictive = l.bs.fictive /\ g.bs.pubdata = l.bs.pubdata + 1
      BY <2>2, <3>1 DEF IsHeap, IsNotes
    <3> QED BY <1>7, <1>9, <1>10, <2>1, <2>3, <3>1, <3>2 DEF LatestInv, Provided
  <2>7. CASE e.hook \notin {"AskOperatorForRefund", "FinalBatchInfo", "PubdataRequested"}
    <3>1. g.m.heap = n.heap /\ g.bs = l.bs /\ g.suggested = l.suggested  BY ZenonT(20), <1>3, <1>4, <1>10, <2>7 DEF Cycled
    <3>2. g.m.phase \notin {"tip", "pubdata"} /\ l.m.phase \notin {"tip", "pubdata"}
      BY ZenonT(20), <1>4, <1>9, <1>10, <2>7 DEF TxHook, TipHook
    <3> QED BY <1>7, <1>9, <1>10, <2>1, <2>3, <3>1, <3>2 DEF LatestInv, Provided
  <2> QED BY <2>4, <2>5, <2>6, <2>7
<1>17. g.result \notin Halts => g.used <= lim  BY <1>10, <1>11, <1>12, <1>13 DEF Halts
<1>18. g.result = "none" => g.processed = FALSE /\ g.out_of_gas = FALSE  BY <1>9, <1>10, <1>12
<1>19. LatestInv(g, lim, md)  BY Zenon, <1>9, <1>10, <1>11, <1>14, <1>15, <1>16, <1>17, <1>18 DEF LatestInv
<1>20. g.result = IF e.hook = "TxHasEnded" THEN (IF l.posted # "none" THEN l.posted ELSE UnpostedResult(n))
                  ELSE IF g.used > lim THEN "ValidationOutOfGas" ELSE "none"
  <2>1. CASE e.hook = "TxHasEnded"
    <3>1. md = "OneTx" /\ c.processed = TRUE /\ c.out_of_gas = FALSE /\ c.posted = l.posted
      BY <1>9, <1>12, <2>1
    <3>2. c.m.heap = n.heap  BY <1>3, <1>4, <2>1 DEF Cycled
    <3> QED BY ZenonT(20), <1>10, <2>1, <3>1, <3>2 DEF Verdict, UnpostedResult
  <2>2. CASE e.hook # "TxHasEnded"  BY <1>10, <1>13, <2>2
  <2> QED BY <2>1, <2>2
<1>21. LatestHooked(l, g, n, e, lim)  BY <1>3, <1>4, <1>10, <1>20 DEF LatestHooked, Cycled
<1> QED BY <1>2, <1>19, <1>21

LEMMA LatestStepInv ==
    ASSUME NEW lim \in Nat, lim = limit, NEW md \in {"OneTx", "Batch"}, md = mode,
           NEW l, LatestInv(l, lim, md), l.result = "none",
           NEW e, IsEvent(l.m, e), InOrder(l.m, e, md)
    PROVE  LatestInv(LatestStep(l, e), lim, md)
BY LatestPlainInv, LatestHookInv
=============================================================================
