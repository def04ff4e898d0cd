------------------------- MODULE AnchorOutboxProofs -------------------------
(***************************************************************************)
(* Machine-checked proofs about the outer edge of the brain: AnchorOutbox, *)
(* for any set of rows, any finite set of workers, any lease and any       *)
(* number of faults; AgentRuntime, for any agents, roles, requests, tasks  *)
(* and timeouts; and SkillAccess, for any calls, skills, manifests, roles  *)
(* and quota.                                                              *)
(***************************************************************************)
EXTENDS AnchorOutbox, AgentRuntime, SkillAccess, FiniteSetTheorems, WellFoundedInduction, TLAPS

-----------------------------------------------------------------------------
(* The inductive invariant.                                                *)

\* What a worker is on, or has still to visit, is a row of the table.
RowsExist ==
    /\ \A w \in Workers : \A h \in batch[w] : created[h] # 0
    /\ \A w \in Workers :
          pc[w] \in {"anchoring", "recording", "marking"} => created[row[w]] # 0

\* A receipt, in a worker's hand or in the table, names a transaction.
ReceiptsReal ==
    /\ \A h \in Hashes : receipt[h] <= chainTx[h]
    /\ \A w \in Workers :
          pc[w] \in {"recording", "marking"} => inHand[w] \in 1 .. chainTx[row[w]]

\* `delivered` is flipped after the receipt is in the table.
ReceiptFirst ==
    /\ \A w \in Workers : pc[w] = "marking" => receipt[row[w]] # 0
    /\ \A h \in delivered : receipt[h] # 0

\* A claim is won from the null lease or from one that lapsed, never else.
ClaimsPaid ==
    \A h \in Hashes :
        /\ claims[h] <= lapses[h] + 1
        /\ h \notin delivered => (lease[h] = 0 => claims[h] <= lapses[h])

\* A claim pays for one transaction.
TxPaid ==
    \A h \in Hashes : chainTx[h] + Cardinality(Anchoring(h)) <= claims[h]

IInv ==
    /\ TypeOK
    /\ RowsExist
    /\ ReceiptsReal
    /\ ReceiptFirst
    /\ ClaimsPaid
    /\ TxPaid

-----------------------------------------------------------------------------
\* The set of workers on a row is finite, so counting it makes sense.
LEMMA AnchoringFinite ==
    \A h \in Hashes : /\ IsFiniteSet(Anchoring(h))
                      /\ Cardinality(Anchoring(h)) \in Nat
<1>1. SUFFICES ASSUME NEW h \in Hashes
               PROVE  IsFiniteSet(Anchoring(h)) /\ Cardinality(Anchoring(h)) \in Nat
  OBVIOUS
<1>2. Anchoring(h) \subseteq Workers
  BY DEF Anchoring
<1>3. IsFiniteSet(Anchoring(h))
  BY <1>2, WorkersAssumption, FS_Subset
<1>. QED  BY <1>3, FS_CardinalityType

\* Taking one worker off a row lowers the count by one.
LEMMA LeaveRow ==
    ASSUME NEW h \in Hashes, NEW w \in Anchoring(h)
    PROVE  /\ Cardinality(Anchoring(h) \ {w}) = Cardinality(Anchoring(h)) - 1
           /\ Cardinality(Anchoring(h)) \in Nat
           /\ Cardinality(Anchoring(h) \ {w}) \in Nat
<1>1. IsFiniteSet(Anchoring(h)) /\ Cardinality(Anchoring(h)) \in Nat
  BY AnchoringFinite
<1>2. Cardinality(Anchoring(h) \ {w}) = Cardinality(Anchoring(h)) - 1
  BY <1>1, FS_RemoveElement
<1>3. Cardinality(Anchoring(h) \ {w}) \in Nat
  BY <1>1, FS_RemoveElement, FS_CardinalityType
<1>. QED  BY <1>1, <1>2, <1>3

\* Putting one more worker on a row raises it by one.
LEMMA JoinRow ==
    ASSUME NEW h \in Hashes, NEW w, w \notin Anchoring(h)
    PROVE  Cardinality(Anchoring(h) \union {w}) = Cardinality(Anchoring(h)) + 1
<1>1. IsFiniteSet(Anchoring(h))
  BY AnchoringFinite
<1>. QED  BY <1>1, FS_AddElement

\* The variables keep their types.
LEMMA TypeStep == TypeOK /\ [Next]_vars => TypeOK'
<1>. SUFFICES ASSUME TypeOK, [Next]_vars PROVE TypeOK'
  OBVIOUS
<1>. USE LeaseAssumption, FaultsAssumption DEF TypeOK, WorkerStates, dbVars, workerVars
<1>1. ASSUME NEW h \in Hashes, append_anchor_outbox(h) PROVE TypeOK'
  BY <1>1 DEF append_anchor_outbox
<1>2. ASSUME NEW w \in Workers, Drain(w) PROVE TypeOK'
  <2>1. CASE start_anchor_worker(w)  BY <2>1 DEF start_anchor_worker
  <2>2. CASE LeaveLoop(w)  BY <2>2 DEF LeaveLoop
  <2>3. CASE list_pending_anchor_outbox(w)
    BY <2>3 DEF list_pending_anchor_outbox, Pending
  <2>4. ASSUME NEW h \in Hashes, claim_anchor_outbox(w, h) PROVE TypeOK'
    BY <2>4 DEF claim_anchor_outbox, Claimable
  <2>5. ASSUME NEW h \in Hashes, SkipRow(w, h) PROVE TypeOK'
    BY <2>5 DEF SkipRow
  <2>6. CASE AnchorReturns(w)  BY <2>6 DEF AnchorReturns
  <2>7. CASE append_anchor_receipt(w)  BY <2>7 DEF append_anchor_receipt
  <2>8. CASE mark_anchor_delivered(w)  BY <2>8 DEF mark_anchor_delivered
  <2>9. CASE EndPass(w)  BY <2>9 DEF EndPass
  <2>. QED  BY <1>2, <2>1, <2>2, <2>3, <2>4, <2>5, <2>6, <2>7, <2>8, <2>9 DEF Drain
<1>3. ASSUME NEW w \in Workers, Disturb(w) PROVE TypeOK'
  <2>1. CASE stop_anchor_worker(w)  BY <2>1 DEF stop_anchor_worker
  <2>2. CASE AnchorRaises(w)  BY <2>2 DEF AnchorRaises
  <2>3. CASE PassRaises(w)  BY <2>3 DEF PassRaises
  <2>4. CASE Crash(w)  BY <2>4 DEF Crash
  <2>. QED  BY <1>3, <2>1, <2>2, <2>3, <2>4 DEF Disturb
<1>4. CASE Tick
  BY <1>4 DEF Tick
<1>5. CASE UNCHANGED vars
  BY <1>5 DEF vars
<1>. QED  BY <1>1, <1>2, <1>3, <1>4, <1>5 DEF Next

\* The invariant holds in the initial states.
LEMMA InitIInv == Init => IInv
<1>. SUFFICES ASSUME Init PROVE IInv
  OBVIOUS
<1>1. TypeOK
  BY LeaseAssumption, FaultsAssumption DEF Init, TypeOK, WorkerStates
<1>2. RowsExist /\ ReceiptsReal /\ ReceiptFirst /\ ClaimsPaid
  BY DEF Init, RowsExist, ReceiptsReal, ReceiptFirst, ClaimsPaid
<1>3. ASSUME NEW h \in Hashes PROVE Anchoring(h) = {}
  BY DEF Init, Anchoring
<1>4. TxPaid
  BY <1>3, FS_EmptySet DEF Init, TxPaid
<1>. QED  BY <1>1, <1>2, <1>4 DEF IInv

\* What the steps of the drain loops do to rows, receipts and claims: all of
\* the invariant but the count of transactions.
LEMMA TableStep ==
    ASSUME IInv, [Next]_vars
    PROVE  RowsExist' /\ ReceiptsReal' /\ ReceiptFirst' /\ ClaimsPaid'
<1>. DEFINE Goal == RowsExist' /\ ReceiptsReal' /\ ReceiptFirst' /\ ClaimsPaid'
<1>. USE LeaseAssumption, FaultsAssumption
     DEF IInv, TypeOK, WorkerStates, dbVars, workerVars,
         RowsExist, ReceiptsReal, ReceiptFirst, ClaimsPaid
<1>1. ASSUME NEW h \in Hashes, append_anchor_outbox(h) PROVE Goal
  BY <1>1 DEF append_anchor_outbox
<1>2. ASSUME NEW w \in Workers, Drain(w) PROVE Goal
  <2>1. CASE start_anchor_worker(w)  BY <2>1 DEF start_anchor_worker
  <2>2. CASE LeaveLoop(w)  BY <2>2 DEF LeaveLoop
  <2>3. CASE list_pending_anchor_outbox(w)
    BY <2>3 DEF list_pending_anchor_outbox, Pending
  <2>4. ASSUME NEW h \in Hashes, claim_anchor_outbox(w, h) PROVE Goal
    BY <2>4 DEF claim_anchor_outbox, Claimable
  <2>5. ASSUME NEW h \in Hashes, SkipRow(w, h) PROVE Goal
    BY <2>5 DEF SkipRow
  <2>6. CASE AnchorReturns(w)  BY <2>6 DEF AnchorReturns
  <2>7. CASE append_anchor_receipt(w)  BY <2>7 DEF append_anchor_receipt
  <2>8. CASE mark_anchor_delivered(w)  BY <2>8 DEF mark_anchor_delivered
  <2>9. CASE EndPass(w)  BY <2>9 DEF EndPass
  <2>. QED  BY <1>2, <2>1, <2>2, <2>3, <2>4, <2>5, <2>6, <2>7, <2>8, <2>9 DEF Drain
<1>3. ASSUME NEW w \in Workers, Disturb(w) PROVE Goal
  <2>1. CASE stop_anchor_worker(w)  BY <2>1 DEF stop_anchor_worker
  <2>2. CASE AnchorRaises(w)  BY <2>2 DEF AnchorRaises
  <2>3. CASE PassRaises(w)  BY <2>3 DEF PassRaises
  <2>4. CASE Crash(w)  BY <2>4 DEF Crash
  <2>. QED  BY <1>3, <2>1, <2>2, <2>3, <2>4 DEF Disturb
<1>4. CASE Tick
  BY <1>4 DEF Tick
<1>5. CASE UNCHANGED vars
  BY <1>5 DEF vars
<1>. QED  BY <1>1, <1>2, <1>3, <1>4, <1>5 DEF Next

\* Transactions stay paid for by claims: only a won claim puts a worker on a
\* row, and the transaction takes it off again.
LEMMA PaidStep ==
    ASSUME IInv, [Next]_vars
    PROVE  TxPaid'
<1>. SUFFICES ASSUME NEW h \in Hashes
              PROVE  chainTx'[h] + Cardinality(Anchoring(h)') <= claims'[h]
  BY DEF TxPaid
<1>. DEFINE Crew == Cardinality(Anchoring(h))
<1>0. /\ Crew \in Nat /\ chainTx[h] \in Nat /\ claims[h] \in Nat
      /\ chainTx[h] + Crew <= claims[h]
  BY AnchoringFinite DEF IInv, TypeOK, TxPaid
<1>. USE DEF dbVars, workerVars
<1>1. ASSUME Anchoring(h)' = Anchoring(h), chainTx'[h] = chainTx[h], claims'[h] = claims[h]
      PROVE  chainTx'[h] + Cardinality(Anchoring(h)') <= claims'[h]
  BY <1>0, <1>1
<1>2. ASSUME NEW w \in Workers, w \in Anchoring(h), Anchoring(h)' = Anchoring(h) \ {w},
             chainTx'[h] \in {chainTx[h], chainTx[h] + 1}, claims'[h] = claims[h]
      PROVE  chainTx'[h] + Cardinality(Anchoring(h)') <= claims'[h]
  <2>1. /\ Cardinality(Anchoring(h) \ {w}) = Crew - 1
        /\ Cardinality(Anchoring(h) \ {w}) \in Nat
    BY <1>2, LeaveRow
  <2>. HIDE DEF Crew
  <2>. QED  BY <1>0, <1>2, <2>1
<1>3. ASSUME NEW g \in Hashes, append_anchor_outbox(g)
      PROVE  chainTx'[h] + Cardinality(Anchoring(h)') <= claims'[h]
  BY <1>1, <1>3 DEF append_anchor_outbox, Anchoring
<1>4. ASSUME NEW w \in Workers, Drain(w)
      PROVE  chainTx'[h] + Cardinality(Anchoring(h)') <= claims'[h]
  <2>1. CASE start_anchor_worker(w)
    BY <1>1, <2>1 DEF start_anchor_worker, Anchoring, IInv, TypeOK
  <2>2. CASE LeaveLoop(w)
    BY <1>1, <2>2 DEF LeaveLoop, Anchoring, IInv, TypeOK
  <2>3. CASE list_pending_anchor_outbox(w)
    BY <1>1, <2>3 DEF list_pending_anchor_outbox, Anchoring, IInv, TypeOK
  <2>4. ASSUME NEW g \in Hashes, claim_anchor_outbox(w, g)
        PROVE  chainTx'[h] + Cardinality(Anchoring(h)') <= claims'[h]
    <3>1. CASE g # h
      BY <1>1, <2>4, <3>1 DEF claim_anchor_outbox, Anchoring, IInv, TypeOK
    <3>2. CASE g = h
      <4>1. w \notin Anchoring(h) /\ Anchoring(h)' = Anchoring(h) \union {w}
        BY <2>4, <3>2 DEF claim_anchor_outbox, Anchoring, IInv, TypeOK
      <4>2. Cardinality(Anchoring(h)') = Crew + 1
        BY <4>1, JoinRow
      <4>3. chainTx'[h] = chainTx[h] /\ claims'[h] = claims[h] + 1
        BY <2>4, <3>2 DEF claim_anchor_outbox, IInv, TypeOK
      <4>. HIDE DEF Crew
      <4>. QED  BY <1>0, <4>2, <4>3
    <3>. QED  BY <3>1, <3>2
  <2>5. ASSUME NEW g \in Hashes, SkipRow(w, g)
        PROVE  chainTx'[h] + Cardinality(Anchoring(h)') <= claims'[h]
    BY <1>1, <2>5 DEF SkipRow, Anchoring
  <2>6. CASE AnchorReturns(w)
    <3>1. CASE row[w] # h
      BY <1>1, <2>6, <3>1 DEF AnchorReturns, Anchoring, IInv, TypeOK
    <3>2. CASE row[w] = h
      BY <1>2, <2>6, <3>2 DEF AnchorReturns, Anchoring, IInv, TypeOK
    <3>. QED  BY <3>1, <3>2
  <2>7. CASE append_anchor_receipt(w)
    BY <1>1, <2>7 DEF append_anchor_receipt, Anchoring, IInv, TypeOK
  <2>8. CASE mark_anchor_delivered(w)
    BY <1>1, <2>8 DEF mark_anchor_delivered, Anchoring, IInv, TypeOK
  <2>9. CASE EndPass(w)
    BY <1>1, <2>9 DEF EndPass, Anchoring, IInv, TypeOK
  <2>. QED  BY <1>4, <2>1, <2>2, <2>3, <2>4, <2>5, <2>6, <2>7, <2>8, <2>9 DEF Drain
<1>5. ASSUME NEW w \in Workers, Disturb(w)
      PROVE  chainTx'[h] + Cardinality(Anchoring(h)') <= claims'[h]
  <2>1. CASE stop_anchor_worker(w)
    BY <1>1, <2>1 DEF stop_anchor_worker, Anchoring
  <2>2. CASE AnchorRaises(w)
    <3>1. CASE row[w] # h
      BY <1>1, <2>2, <3>1 DEF AnchorRaises, Anchoring, IInv, TypeOK
    <3>2. CASE row[w] = h
      BY <1>2, <2>2, <3>2 DEF AnchorRaises, Anchoring, IInv, TypeOK
    <3>. QED  BY <3>1, <3>2
  <2>3. CASE PassRaises(w)
    BY <1>1, <2>3 DEF PassRaises, Anchoring, IInv, TypeOK
  <2>4. CASE Crash(w)
    <3>1. CASE w \notin Anchoring(h)
      BY <1>1, <2>4, <3>1 DEF Crash, Anchoring, IInv, TypeOK
    <3>2. CASE w \in Anchoring(h)
      BY <1>2, <2>4, <3>2 DEF Crash, Anchoring, IInv, TypeOK
    <3>. QED  BY <3>1, <3>2
  <2>. QED  BY <1>5, <2>1, <2>2, <2>3, <2>4 DEF Disturb
<1>6. CASE Tick
  BY <1>1, <1>6 DEF Tick, Anchoring
<1>7. CASE UNCHANGED vars
  BY <1>1, <1>7 DEF vars, Anchoring
<1>. QED  BY <1>3, <1>4, <1>5, <1>6, <1>7 DEF Next

-----------------------------------------------------------------------------
(* The theorems.                                                           *)

\* The strengthened invariant holds throughout.
THEOREM Inductive == SafeSpec => []IInv
<1>1. Init => IInv
  BY InitIInv
<1>2. IInv /\ [Next]_vars => IInv'
  BY TypeStep, TableStep, PaidStep DEF IInv
<1>. QED  BY <1>1, <1>2, PTL DEF SafeSpec

\* Type correctness of the outbox and its workers.
THEOREM TypeCorrect == SafeSpec => []TypeOK
<1>1. IInv => TypeOK
  BY DEF IInv
<1>. QED  BY <1>1, Inductive, PTL

\* mark_anchor_delivered never marks a row whose receipt is missing or names
\* a transaction that is not on the chain.
THEOREM DeliveredRowsAnchored == SafeSpec => []DeliveredIsAnchored
<1>1. IInv => DeliveredIsAnchored
  BY DEF IInv, TypeOK, ReceiptsReal, ReceiptFirst, DeliveredIsAnchored
<1>. QED  BY <1>1, Inductive, PTL

\* claim_anchor_outbox allows one transaction per lease of a pending row.
THEOREM LeaseBuysOneTx == SafeSpec => []OneTxPerLease
<1>1. ASSUME IInv, NEW h \in Hashes PROVE chainTx[h] <= lapses[h] + 1
  <2>1. chainTx[h] + Cardinality(Anchoring(h)) <= claims[h] /\ claims[h] <= lapses[h] + 1
    BY <1>1 DEF IInv, TxPaid, ClaimsPaid
  <2>2. Cardinality(Anchoring(h)) \in Nat
    BY AnchoringFinite
  <2>. QED  BY <1>1, <2>1, <2>2 DEF IInv, TypeOK
<1>2. IInv => OneTxPerLease
  BY <1>1 DEF OneTxPerLease
<1>. QED  BY <1>2, Inductive, PTL

\* The outbox with its workers implements the safety part of AnchorLedger.
THEOREM ImplementsLedger == SafeSpec => Ledger!SafeSpec
<1>1. Init => Ledger!Init
  BY DEF Init, Ledger!Init
<1>2. IInv /\ [Next]_vars => [Ledger!Next]_(Ledger!vars)
  <2>. SUFFICES ASSUME IInv, [Next]_vars PROVE [Ledger!Next]_(Ledger!vars)
    OBVIOUS
  <2>. USE DEF Ledger!vars, dbVars, workerVars
  <2>1. ASSUME NEW h \in Hashes, append_anchor_outbox(h) PROVE Ledger!Enqueue(h)
    BY <2>1 DEF append_anchor_outbox, Ledger!Enqueue, IInv, TypeOK
  <2>2. ASSUME NEW w \in Workers, Drain(w) PROVE [Ledger!Next]_(Ledger!vars)
    <3>1. CASE start_anchor_worker(w)  BY <3>1 DEF start_anchor_worker
    <3>2. CASE LeaveLoop(w)  BY <3>2 DEF LeaveLoop
    <3>3. CASE list_pending_anchor_outbox(w)  BY <3>3 DEF list_pending_anchor_outbox
    <3>4. ASSUME NEW h \in Hashes, claim_anchor_outbox(w, h) PROVE UNCHANGED Ledger!vars
      BY <3>4 DEF claim_anchor_outbox
    <3>5. ASSUME NEW h \in Hashes, SkipRow(w, h) PROVE UNCHANGED Ledger!vars
      BY <3>5 DEF SkipRow
    <3>6. CASE AnchorReturns(w)
      <4>1. Ledger!Submit(row[w])
        BY <3>6 DEF AnchorReturns, Ledger!Submit, IInv, TypeOK, RowsExist
      <4>2. row[w] \in Hashes
        BY DEF IInv, TypeOK
      <4>3. Ledger!Next
        BY <4>1, <4>2 DEF Ledger!Next, Ledger!Submit, Ledger!Record, Ledger!Settle
      <4>. QED  BY <4>3
    <3>7. CASE append_anchor_receipt(w)
      <4>1. Ledger!Record(row[w])
        BY <3>7 DEF append_anchor_receipt, Ledger!Record, IInv, TypeOK, ReceiptsReal
      <4>2. row[w] \in Hashes
        BY DEF IInv, TypeOK
      <4>3. Ledger!Next
        BY <4>1, <4>2 DEF Ledger!Next, Ledger!Submit, Ledger!Record, Ledger!Settle
      <4>. QED  BY <4>3
    <3>8. CASE mark_anchor_delivered(w)
      <4>1. Ledger!Settle(row[w])
        BY <3>8 DEF mark_anchor_delivered, Ledger!Settle, IInv, TypeOK, ReceiptFirst
      <4>2. row[w] \in Hashes
        BY DEF IInv, TypeOK
      <4>3. Ledger!Next
        BY <4>1, <4>2 DEF Ledger!Next, Ledger!Submit, Ledger!Record, Ledger!Settle
      <4>. QED  BY <4>3
    <3>9. CASE EndPass(w)  BY <3>9 DEF EndPass
    <3>. QED  BY <2>2, <3>1, <3>2, <3>3, <3>4, <3>5, <3>6, <3>7, <3>8, <3>9 DEF Drain
  <2>3. ASSUME NEW w \in Workers, Disturb(w) PROVE [Ledger!Next]_(Ledger!vars)
    <3>1. CASE stop_anchor_worker(w)  BY <3>1 DEF stop_anchor_worker
    <3>2. CASE AnchorRaises(w)
      <4>1. CASE UNCHANGED chainTx
        BY <3>2, <4>1 DEF AnchorRaises
      <4>2. CASE chainTx' = [chainTx EXCEPT ![row[w]] = @ + 1]
        <5>1. Ledger!Submit(row[w])
          BY <3>2, <4>2 DEF AnchorRaises, Ledger!Submit, IInv, TypeOK, RowsExist
        <5>2. row[w] \in Hashes
          BY DEF IInv, TypeOK
        <5>3. Ledger!Next
          BY <5>1, <5>2 DEF Ledger!Next, Ledger!Submit, Ledger!Record, Ledger!Settle
        <5>. QED  BY <5>3
      <4>. QED  BY <3>2, <4>1, <4>2 DEF AnchorRaises
    <3>3. CASE PassRaises(w)  BY <3>3 DEF PassRaises
    <3>4. CASE Crash(w)  BY <3>4 DEF Crash
    <3>. QED  BY <2>3, <3>1, <3>2, <3>3, <3>4 DEF Disturb
  <2>4. CASE Tick
    BY <2>4 DEF Tick
  <2>5. CASE UNCHANGED vars
    BY <2>5 DEF vars
  <2>. QED  BY <2>1, <2>2, <2>3, <2>4, <2>5 DEF Next, Ledger!Next
<1>. QED  BY <1>1, <1>2, Inductive, PTL DEF SafeSpec, Ledger!SafeSpec

-----------------------------------------------------------------------------
(* Agent tasks: the inductive invariant                                    *)

TaskAnswers == TERMINAL \union {"none", "refused", "pending", "running", "error", "not_found",
                                "resumed", "waiting", "timeout"}
AgentJobs == [op : {"block", "background", "poll", "resume"}, agent : Agents, role : ActorRoles,
              task : TaskIds \union {NoTask},
              step : HttpSteps \union {"verify", "check", "sleep", "answered"},
              status : TERMINAL \union {"pending", "running"}, answer : TaskAnswers,
              waited : Nat, elapsed : Nat, left : Nat, startable : BOOLEAN]

AgentTypeOK ==
    /\ agentState \in [Agents -> [enabled : BOOLEAN, roles : SUBSET ActorRoles] \union {NoState}]
    /\ task \in [TaskIds -> TaskRows \union {NoTask}]
    /\ job \in [Jobs -> AgentJobs \union {NoJob}]

\* The history of a request is not behind the agent's switch, and a request past
\* the check of the agent passed it.
AllowedOK(x) ==
    /\ WasStartable(x.agent, x.role) => x.startable
    /\ x.op \in {"block", "background"} /\ x.step \notin {"verify", "answered"} => x.startable
    /\ x.op \in {"poll", "resume"} => x.step \in {"get", "resume", "answered"}

\* The service has said that the task ended so, and since then no more than
\* forgotten it.
Told(t, status) ==
    t \in TaskIds /\ task[t] # NoTask /\ task[t].status \in {status, "forgotten"}

ToldOK(x) ==
    /\ x.step \in {"check", "sleep", "get", "resume"} => x.task \in TaskIds /\ task[x.task] # NoTask
    /\ x.step \in {"verify", "session", "start"} => x.status \notin Final
    /\ x.status \in Final => Told(x.task, x.status)
    /\ x.answer \in Final => Told(x.task, x.answer)

\* What a blocking request has used of its time by the step it is at: the deadline
\* is met up to the pause and the call it began before.
TimeOK(x) ==
    x.op = "block" =>
    /\ x.step # "resume"
    /\ x.step = "verify" => x.elapsed = 0
    /\ x.step = "session" => x.elapsed <= x.waited /\ x.waited <= HTTP_TIMEOUT
    /\ x.step = "start" => x.elapsed <= HTTP_TIMEOUT + x.waited /\ x.waited <= HTTP_TIMEOUT
    /\ x.step \in {"check", "sleep", "get"} =>
          x.left = 0 \/ x.elapsed + x.left <= 2 * HTTP_TIMEOUT + BLOCK_TIMEOUT
    /\ x.step = "check" => x.elapsed <= 3 * HTTP_TIMEOUT + BLOCK_TIMEOUT + POLL_INTERVAL
    /\ x.step = "sleep" =>
          /\ x.elapsed <= 2 * HTTP_TIMEOUT + BLOCK_TIMEOUT + x.waited
          /\ x.waited <= POLL_INTERVAL
    /\ x.step = "get" =>
          /\ x.elapsed <= 2 * HTTP_TIMEOUT + BLOCK_TIMEOUT + POLL_INTERVAL + x.waited
          /\ x.waited <= HTTP_TIMEOUT

JobOK(x) == AllowedOK(x) /\ ToldOK(x) /\ TimeOK(x)

AgentInv ==
    /\ AgentTypeOK
    /\ TasksWereAllowed
    /\ \A j \in Jobs : job[j] # NoJob => JobOK(job[j])

-----------------------------------------------------------------------------
(* Steps of a request                                                      *)

\* What the service may do to its tasks: it starts new ones, and one that ended
\* stays as it ended until it is forgotten.
TasksGoOn ==
    \A t \in TaskIds : task[t] # NoTask =>
        /\ task'[t] # NoTask
        /\ task[t].status \in Final \union {"forgotten"} =>
              task'[t].status \in {task[t].status, "forgotten"}

LEMMA JobStays ==
    ASSUME NEW x, JobOK(x), TasksGoOn, agentState' = agentState
    PROVE  JobOK(x)'
<1>1. \A t, status : status \in Final /\ Told(t, status) => Told(t, status)'
  BY DEF Told, TasksGoOn, Final, TERMINAL
<1>2. ToldOK(x)'
  BY <1>1 DEF JobOK, ToldOK, TasksGoOn
<1>3. AllowedOK(x)'
  BY DEF JobOK, AllowedOK, WasStartable, Enabled, AllowedRoles
<1> QED BY <1>2, <1>3 DEF JobOK, TimeOK

\* A step that moves one request and may move the tasks on.
LEMMA JobMoves ==
    ASSUME AgentInv, NEW j \in Jobs, NEW x \in AgentJobs, JobOK(x)',
           job' = [job EXCEPT ![j] = x], agentState' = agentState,
           task' \in [TaskIds -> TaskRows \union {NoTask}], TasksGoOn, TasksWereAllowed'
    PROVE  AgentInv'
<1>1. AgentTypeOK'
  BY DEF AgentInv, AgentTypeOK
<1>2. ASSUME NEW i \in Jobs, job'[i] # NoJob PROVE JobOK(job[i])'
  <2>1. CASE i = j
    <3>1. job'[i] = x
      BY <2>1 DEF AgentInv, AgentTypeOK
    <3> QED BY <3>1
            DEF JobOK, AllowedOK, ToldOK, TimeOK, Told, WasStartable, Enabled, AllowedRoles
  <2>2. CASE i # j
    <3>1. job'[i] = job[i]
      BY <2>2 DEF AgentInv, AgentTypeOK
    <3>2. PICK y : y = job[i]
      OBVIOUS
    <3>3. JobOK(y)'
      BY <1>2, <3>1, <3>2, JobStays DEF AgentInv
    <3> QED BY <3>1, <3>2, <3>3
            DEF JobOK, AllowedOK, ToldOK, TimeOK, Told, WasStartable, Enabled, AllowedRoles
  <2> QED BY <2>1, <2>2
<1> QED BY <1>1, <1>2 DEF AgentInv

\* A step that moves one request and leaves the tasks alone.
LEMMA JobMovesAlone ==
    ASSUME AgentInv, NEW j \in Jobs, NEW x \in AgentJobs, JobOK(x),
           job' = [job EXCEPT ![j] = x], UNCHANGED <<agentState, task>>
    PROVE  AgentInv'
<1>1. TasksGoOn
  BY DEF TasksGoOn
<1>2. TasksWereAllowed' /\ task' \in [TaskIds -> TaskRows \union {NoTask}]
  BY DEF AgentInv, AgentTypeOK, TasksWereAllowed
<1>3. JobOK(x)'
  BY <1>1, JobStays
<1> QED BY <1>1, <1>2, <1>3, JobMoves

Replied(x, answer) ==
    [x EXCEPT !.step = "answered", !.answer = answer, !.waited = 0, !.elapsed = 0, !.left = 0]
Called(x, step) == [x EXCEPT !.step = step, !.waited = 0]

LEMMA ReplyMoves ==
    ASSUME NEW j \in Jobs, NEW answer, job \in [Jobs -> AgentJobs \union {NoJob}],
           job[j] \in AgentJobs, Reply(j, answer)
    PROVE  job' = [job EXCEPT ![j] = Replied(job[j], answer)]
BY DEF Reply, Replied, AgentJobs

LEMMA CallMoves ==
    ASSUME NEW j \in Jobs, NEW step, job \in [Jobs -> AgentJobs \union {NoJob}],
           job[j] \in AgentJobs, Call(j, step)
    PROVE  job' = [job EXCEPT ![j] = Called(job[j], step)]
BY DEF Call, Called, AgentJobs

\* An answered request needs no more than that a final answer is true.
LEMMA RepliedOK ==
    ASSUME NEW x \in AgentJobs, JobOK(x), NEW answer \in TaskAnswers,
           answer \in Final => Told(x.task, answer)
    PROVE  Replied(x, answer) \in AgentJobs /\ JobOK(Replied(x, answer))
<1> DEFINE y == Replied(x, answer)
<1>1. y \in AgentJobs
  BY DEF Replied, AgentJobs
<1>2. /\ y.step = "answered" /\ y.answer = answer /\ y.status = x.status /\ y.task = x.task
      /\ y.op = x.op /\ y.agent = x.agent /\ y.role = x.role
  BY DEF Replied, AgentJobs
<1>3. y.startable = x.startable
  BY DEF Replied, AgentJobs
<1> HIDE DEF y
<1>4. AllowedOK(y)
  BY <1>2, <1>3 DEF JobOK, AllowedOK
<1>5. ToldOK(y)
  BY <1>2 DEF JobOK, ToldOK
<1>6. TimeOK(y)
  BY <1>2 DEF TimeOK
<1> QED BY <1>1, <1>4, <1>5, <1>6 DEF JobOK, y

-----------------------------------------------------------------------------
(* One lemma for each action                                               *)

\* The fields of a new request.
LEMMA NewJobFields ==
    ASSUME NEW op, NEW a, NEW r, NEW t
    PROVE  LET x == NewAgentJob(op, a, r, t)
           IN /\ x.op = op /\ x.agent = a /\ x.role = r /\ x.task = t /\ x.step = "verify"
              /\ x.status = "pending" /\ x.answer = "none" /\ x.elapsed = 0
              /\ x.startable = WasStartable(a, r)
BY DEF NewAgentJob

LEMMA WasStartableBoolean ==
    ASSUME NEW a, NEW r
    PROVE  WasStartable(a, r) \in BOOLEAN
BY DEF WasStartable

LEMMA StartsOK ==
    ASSUME AgentInv, NEW j \in Jobs, NEW a \in Agents, NEW r \in ActorRoles,
           NEW op \in {"block", "background"}, StartTask(j, op, a, r)
    PROVE  AgentInv'
<1> DEFINE x == NewAgentJob(op, a, r, NoTask)
<1>1. x \in AgentJobs
  BY WasStartableBoolean DEF NewAgentJob, AgentJobs, HttpSteps, TERMINAL, TaskAnswers
<1>2. AllowedOK(x) /\ ToldOK(x) /\ TimeOK(x)
  BY NewJobFields DEF AllowedOK, ToldOK, TimeOK, Final, TERMINAL
<1>3. job' = [job EXCEPT ![j] = x] /\ UNCHANGED <<agentState, task>>
  BY DEF StartTask
<1> QED BY <1>1, <1>2, <1>3, JobMovesAlone DEF JobOK

LEMMA AsksOK ==
    ASSUME AgentInv, NEW j \in Jobs, NEW t \in TaskIds,
           NEW op \in {"poll", "resume"}, AskForTask(j, op, t)
    PROVE  AgentInv'
<1> DEFINE n == NewAgentJob(op, task[t].agent, task[t].role, t)
           x == [n EXCEPT !.step = IF op = "poll" THEN "get" ELSE "resume"]
<1>1. task[t] \in TaskRows /\ task[t] # NoTask
  BY DEF AgentInv, AgentTypeOK, AskForTask
<1>2. n \in AgentJobs
  BY <1>1, WasStartableBoolean
     DEF NewAgentJob, AgentJobs, HttpSteps, TERMINAL, TaskAnswers, TaskRows
<1>3. /\ n.op = op /\ n.agent = task[t].agent /\ n.role = task[t].role /\ n.task = t
      /\ n.status = "pending" /\ n.answer = "none" /\ n.startable = WasStartable(n.agent, n.role)
  BY NewJobFields
<1>4. job' = [job EXCEPT ![j] = x] /\ UNCHANGED <<agentState, task>>
  BY DEF AskForTask
<1> HIDE DEF n
<1>5. x \in AgentJobs
  BY <1>2 DEF AgentJobs, HttpSteps
<1>6. /\ x.op = n.op /\ x.agent = n.agent /\ x.role = n.role /\ x.task = n.task
      /\ x.status = n.status /\ x.answer = n.answer /\ x.startable = n.startable
      /\ x.step \in {"get", "resume"}
  BY <1>2 DEF AgentJobs
<1> HIDE DEF x
<1>7. AllowedOK(x) /\ ToldOK(x) /\ TimeOK(x)
  BY <1>1, <1>3, <1>6 DEF AllowedOK, ToldOK, TimeOK, Final, TERMINAL
<1> QED BY <1>4, <1>5, <1>7, JobMovesAlone DEF JobOK

\* What a request under way may rely on.
LEMMA UnderWay ==
    ASSUME AgentInv, NEW j \in Jobs, job[j] # NoJob
    PROVE  job[j] \in AgentJobs /\ JobOK(job[j]) /\ job \in [Jobs -> AgentJobs \union {NoJob}]
BY DEF AgentInv, AgentTypeOK

\* An answer that says nothing final of a task, or the truth.
LEMMA AnswersOK ==
    ASSUME AgentInv, NEW j \in Jobs, job[j] # NoJob, NEW answer \in TaskAnswers,
           answer \in Final => Told(job[j].task, answer),
           Reply(j, answer), UNCHANGED <<agentState, task>>
    PROVE  AgentInv'
BY UnderWay, ReplyMoves, RepliedOK, JobMovesAlone

\* A request that goes on to a call or a pause.
LEMMA CallsOK ==
    ASSUME AgentInv, NEW j \in Jobs, job[j] # NoJob,
           NEW step \in HttpSteps \union {"sleep"}, Call(j, step), UNCHANGED <<agentState, task>>,
           LET x == job[j]
           IN /\ step \in {"session", "start"} => x.startable /\ x.op \in {"block", "background"}
              /\ step \in {"session", "start"} => x.step \in {"verify", "session"}
              /\ step \in {"sleep", "get"} => x.step \in {"check", "sleep"}
              /\ step # "resume"
              /\ x.op = "block" =>
                    /\ step = "session" => x.elapsed = 0
                    /\ step = "start" => x.elapsed <= HTTP_TIMEOUT
                    /\ step = "sleep" => x.elapsed <= 2 * HTTP_TIMEOUT + BLOCK_TIMEOUT
                    /\ step = "get" =>
                          x.elapsed <= 2 * HTTP_TIMEOUT + BLOCK_TIMEOUT + POLL_INTERVAL
    PROVE  AgentInv'
<1> DEFINE y == Called(job[j], step)
<1>1. PICK x : x = job[j]
  OBVIOUS
<1>2. x \in AgentJobs /\ JobOK(x)
  BY <1>1, UnderWay
<1>3. y \in AgentJobs
  BY <1>1, <1>2 DEF Called, AgentJobs
<1>4. /\ y.step = step /\ y.waited = 0 /\ y.op = x.op /\ y.agent = x.agent /\ y.role = x.role
      /\ y.task = x.task /\ y.status = x.status /\ y.answer = x.answer
      /\ y.elapsed = x.elapsed /\ y.left = x.left
  BY <1>1, <1>2 DEF Called, AgentJobs
<1>5. y.startable = x.startable
  BY <1>1, <1>2 DEF Called, AgentJobs
<1>6. job' = [job EXCEPT ![j] = y]
  BY UnderWay, CallMoves
<1> HIDE DEF y
<1>7. x.elapsed \in Nat /\ x.left \in Nat /\ {HTTP_TIMEOUT, BLOCK_TIMEOUT, POLL_INTERVAL} \subseteq Nat
  BY <1>2, RuntimeAssumption DEF AgentJobs
<1>8. AllowedOK(y)
  BY <1>1, <1>2, <1>4, <1>5 DEF JobOK, AllowedOK, HttpSteps
<1>9. ToldOK(y)
  BY <1>1, <1>2, <1>4 DEF JobOK, ToldOK, HttpSteps
<1>10. TimeOK(y)
  BY <1>1, <1>2, <1>4, <1>7 DEF JobOK, TimeOK, HttpSteps
<1> QED BY <1>3, <1>6, <1>8, <1>9, <1>10, JobMovesAlone DEF JobOK

LEMMA VerifyOK ==
    ASSUME AgentInv, NEW j \in Jobs, VerifyAgent(j)
    PROVE  AgentInv'
<1>1. /\ job[j] # NoJob /\ job[j].step = "verify" /\ UNCHANGED <<agentState, task>>
      /\ job[j] \in AgentJobs /\ JobOK(job[j])
  BY UnderWay DEF VerifyAgent
<1>2. CASE MayStart(job[j].agent, job[j].role)
  <2>1. Call(j, "session")
    BY <1>2 DEF VerifyAgent
  <2>2. WasStartable(job[j].agent, job[j].role)
    BY <1>2 DEF MayStart, WasStartable
  <2>3. job[j].startable
    BY <1>1, <2>2 DEF JobOK, AllowedOK
  <2>4. job[j].op \in {"block", "background"}
    BY <1>1 DEF JobOK, AllowedOK, AgentJobs
  <2>5. job[j].op = "block" => job[j].elapsed = 0
    BY <1>1 DEF JobOK, TimeOK
  <2>6. "session" \in HttpSteps
    BY DEF HttpSteps
  <2> QED BY <1>1, <2>1, <2>3, <2>4, <2>5, <2>6, CallsOK
<1>3. CASE ~MayStart(job[j].agent, job[j].role)
  <2>1. Reply(j, "refused")
    BY <1>3 DEF VerifyAgent
  <2>2. "refused" \in TaskAnswers \ Final
    BY DEF TaskAnswers, Final, TERMINAL
  <2> QED BY <1>1, <2>1, <2>2, AnswersOK
<1> QED BY <1>2, <1>3

LEMMA CreateOK ==
    ASSUME AgentInv, NEW j \in Jobs, CreateSession(j)
    PROVE  AgentInv'
<1>1. /\ job[j] # NoJob /\ job[j].step = "session" /\ UNCHANGED <<agentState, task>>
      /\ job[j] \in AgentJobs /\ JobOK(job[j]) /\ Call(j, "start")
  BY UnderWay DEF CreateSession
<1>2. job[j].op \in {"block", "background"}
  BY <1>1 DEF JobOK, AllowedOK, AgentJobs
<1>3. job[j].startable
  BY <1>1, <1>2 DEF JobOK, AllowedOK
<1>4. job[j].op = "block" => job[j].elapsed <= HTTP_TIMEOUT
  BY <1>1, RuntimeAssumption DEF JobOK, TimeOK, AgentJobs
<1>5. "start" \in HttpSteps
  BY DEF HttpSteps
<1> QED BY <1>1, <1>2, <1>3, <1>4, <1>5, CallsOK

\* A task that was not there comes with the history of the request.
LEMMA TaskStarted ==
    ASSUME AgentInv, NEW entry \in TaskRows, entry.startable, NEW t \in TaskIds, task[t] = NoTask,
           task' = [task EXCEPT ![t] = entry]
    PROVE  /\ TasksGoOn /\ TasksWereAllowed'
           /\ task' \in [TaskIds -> TaskRows \union {NoTask}] /\ task'[t] = entry
<1>1. task \in [TaskIds -> TaskRows \union {NoTask}] /\ TasksWereAllowed
  BY DEF AgentInv, AgentTypeOK
<1>2. \A u \in TaskIds : task'[u] = IF u = t THEN entry ELSE task[u]
  BY <1>1
<1>3. TasksGoOn
  BY <1>2 DEF TasksGoOn
<1>4. TasksWereAllowed'
  BY <1>1, <1>2 DEF TasksWereAllowed
<1> QED BY <1>1, <1>2, <1>3, <1>4

LEMMA StartedOK ==
    ASSUME AgentInv, NEW j \in Jobs, StartInService(j)
    PROVE  AgentInv'
<1>1. /\ job[j] # NoJob /\ job[j].step = "start" /\ agentState' = agentState
      /\ job[j] \in AgentJobs /\ JobOK(job[j]) /\ job \in [Jobs -> AgentJobs \union {NoJob}]
  BY UnderWay DEF StartInService
<1>2. PICK x : x = job[j]
  OBVIOUS
<1>3. x.op \in {"block", "background"}
  BY <1>1, <1>2 DEF JobOK, AllowedOK, AgentJobs
<1>4. x.startable
  BY <1>1, <1>2, <1>3 DEF JobOK, AllowedOK
<1> DEFINE entry == [agent |-> x.agent, role |-> x.role, status |-> "pending",
                   startable |-> x.startable]
           y(t) == [x EXCEPT !.task = t,
                             !.left = IF x.op = "block" THEN BLOCK_TIMEOUT ELSE 0,
                             !.waited = 0,
                             !.step = IF x.op = "block" THEN "check" ELSE "answered",
                             !.answer = IF x.op = "block" THEN "none" ELSE "pending"]
<1>5. entry \in TaskRows /\ entry.startable
  BY <1>1, <1>2, <1>4 DEF TaskRows, AgentJobs
<1>6. PICK t \in TaskIds :
          /\ task[t] = NoTask /\ task' = [task EXCEPT ![t] = entry]
          /\ \/ job' = [job EXCEPT ![j].task = t,
                     ![j].left = IF job[j].op = "block" THEN BLOCK_TIMEOUT ELSE 0,
                     ![j].waited = 0,
                     ![j].step = IF job[j].op = "block" THEN "check" ELSE "answered",
                     ![j].answer = IF job[j].op = "block" THEN "none" ELSE "pending"]
             \/ Reply(j, "error")
  BY <1>2, Zenon DEF StartInService
<1> HIDE DEF entry
<1>7. /\ TasksGoOn /\ TasksWereAllowed'
      /\ task' \in [TaskIds -> TaskRows \union {NoTask}] /\ task'[t] = entry
  BY <1>5, <1>6, TaskStarted
<1>8. CASE Reply(j, "error")
  <2>1. "error" \in TaskAnswers /\ "error" \notin Final
    BY DEF TaskAnswers, Final, TERMINAL
  <2>2. PICK z : z = Replied(x, "error")
    OBVIOUS
  <2>3. z \in AgentJobs /\ JobOK(z) /\ job' = [job EXCEPT ![j] = z]
    BY <1>1, <1>2, <1>8, <2>1, <2>2, RepliedOK, ReplyMoves
  <2>4. JobOK(z)'
    BY <1>1, <1>7, <2>3, JobStays
  <2> QED BY <1>1, <1>7, <2>3, <2>4, JobMoves
<1>9. CASE ~Reply(j, "error")
  <2>1. PICK z : z = y(t)
    OBVIOUS
  <2>2. job' = [job EXCEPT ![j] = z]
    BY <1>1, <1>2, <1>6, <1>9, <2>1 DEF AgentJobs
  <2>3. z \in AgentJobs
    BY <1>1, <1>2, <2>1, RuntimeAssumption DEF AgentJobs, TaskAnswers
  <2>4. /\ z.task = t /\ z.op = x.op /\ z.agent = x.agent /\ z.role = x.role
        /\ z.status = x.status /\ z.elapsed = x.elapsed
        /\ z.step \in {"check", "answered"} /\ z.answer \in {"none", "pending"}
        /\ z.op = "block" => z.left = BLOCK_TIMEOUT
    BY <1>1, <1>2, <2>1 DEF AgentJobs
  <2>5. z.startable
    BY <1>1, <1>2, <1>4, <2>1 DEF AgentJobs
  <2>6. AllowedOK(z)'
    BY <1>3, <2>4, <2>5 DEF AllowedOK
  <2>7. task'[t] # NoTask
    BY <1>5, <1>7, RuntimeAssumption
  <2>8. x.status \notin Final
    BY <1>1, <1>2 DEF JobOK, ToldOK
  <2>9. ToldOK(z)'
    BY <2>4, <2>7, <2>8 DEF ToldOK, Final, TERMINAL
  <2>10. TimeOK(z)'
    <3>1. x.op = "block" => x.elapsed <= HTTP_TIMEOUT + x.waited /\ x.waited <= HTTP_TIMEOUT
      BY <1>1, <1>2 DEF JobOK, TimeOK
    <3>2. x.elapsed \in Nat /\ x.waited \in Nat
          /\ {HTTP_TIMEOUT, BLOCK_TIMEOUT, POLL_INTERVAL} \subseteq Nat
      BY <1>1, <1>2, RuntimeAssumption DEF AgentJobs
    <3> QED BY <2>4, <3>1, <3>2 DEF TimeOK
  <2> QED BY <1>1, <1>7, <2>2, <2>3, <2>6, <2>9, <2>10, JobMoves DEF JobOK
<1> QED BY <1>8, <1>9

LEMMA CheckOK ==
    ASSUME AgentInv, NEW j \in Jobs, CheckDeadline(j)
    PROVE  AgentInv'
<1>1. /\ job[j] # NoJob /\ job[j].step = "check" /\ UNCHANGED <<agentState, task>>
      /\ job[j] \in AgentJobs /\ JobOK(job[j])
  BY UnderWay DEF CheckDeadline
<1>2. CASE job[j].status \in TERMINAL /\ Reply(j, MapStatus(job[j].status))
  <2>1. PICK answer : answer = MapStatus(job[j].status)
    OBVIOUS
  <2>2. answer \in TaskAnswers
    BY <1>2, <2>1 DEF MapStatus, TaskAnswers
  <2>3. answer \in Final => Told(job[j].task, answer)
    BY <1>1, <2>1 DEF MapStatus, JobOK, ToldOK, Final, TERMINAL
  <2> QED BY <1>1, <1>2, <2>1, <2>2, <2>3, AnswersOK
<1>3. CASE Reply(j, MapStatus("timeout"))
  <2>1. MapStatus("timeout") \in TaskAnswers /\ MapStatus("timeout") \notin Final
    BY DEF MapStatus, TaskAnswers, Final, TERMINAL
  <2> QED BY <1>1, <1>3, <2>1, AnswersOK
<1>4. CASE job[j].left > 0 /\ Call(j, "sleep")
  <2>1. job[j].op = "block" => job[j].elapsed <= 2 * HTTP_TIMEOUT + BLOCK_TIMEOUT
    <3>1. job[j].elapsed \in Nat /\ job[j].left \in Nat
          /\ {HTTP_TIMEOUT, BLOCK_TIMEOUT, POLL_INTERVAL} \subseteq Nat
      BY <1>1, RuntimeAssumption DEF AgentJobs
    <3> QED BY <1>1, <1>4, <3>1 DEF JobOK, TimeOK
  <2> QED BY <1>1, <1>4, <2>1, CallsOK
<1> QED BY <1>2, <1>3, <1>4 DEF CheckDeadline

LEMMA PauseOK ==
    ASSUME AgentInv, NEW j \in Jobs, PauseEnds(j)
    PROVE  AgentInv'
<1>1. /\ job[j] # NoJob /\ job[j].step = "sleep" /\ job[j].waited = POLL_INTERVAL
      /\ Call(j, "get") /\ UNCHANGED <<agentState, task>>
      /\ job[j] \in AgentJobs /\ JobOK(job[j])
  BY UnderWay DEF PauseEnds, AfterPause
<1>2. job[j].op = "block" =>
          job[j].elapsed <= 2 * HTTP_TIMEOUT + BLOCK_TIMEOUT + POLL_INTERVAL
  BY <1>1 DEF JobOK, TimeOK
<1>3. "get" \in HttpSteps
  BY DEF HttpSteps
<1> QED BY <1>1, <1>2, <1>3, CallsOK

LEMMA GetOK ==
    ASSUME AgentInv, NEW j \in Jobs, GetTask(j)
    PROVE  AgentInv'
<1>1. /\ job[j] # NoJob /\ job[j].step = "get" /\ UNCHANGED <<agentState, task>>
      /\ job[j] \in AgentJobs /\ JobOK(job[j]) /\ job \in [Jobs -> AgentJobs \union {NoJob}]
  BY UnderWay DEF GetTask
<1>2. PICK x, status : x = job[j] /\ status = task[x.task].status
  OBVIOUS
<1>3. x.task \in TaskIds /\ task[x.task] # NoTask /\ task[x.task] \in TaskRows
  BY <1>1, <1>2 DEF JobOK, ToldOK, AgentInv, AgentTypeOK
<1>4. status \in TERMINAL \union {"pending", "running", "forgotten"} /\ Told(x.task, status)
  BY <1>2, <1>3 DEF TaskRows, Told
<1>5. CASE /\ status # "forgotten" /\ x.op = "block"
           /\ job' = [job EXCEPT ![j].step = "check", ![j].status = status]
  <2>1. PICK z : z = [x EXCEPT !.step = "check", !.status = status]
    OBVIOUS
  <2>2. z \in AgentJobs
    BY <1>1, <1>2, <1>4, <1>5, <2>1 DEF AgentJobs
  <2>3. /\ z.step = "check" /\ z.status = status /\ z.op = x.op /\ z.agent = x.agent
        /\ z.role = x.role /\ z.task = x.task /\ z.answer = x.answer /\ z.elapsed = x.elapsed
        /\ z.left = x.left
    BY <1>1, <1>2, <2>1 DEF AgentJobs
  <2>4. z.startable = x.startable
    BY <1>1, <1>2, <2>1 DEF AgentJobs
  <2>5. job' = [job EXCEPT ![j] = z]
    BY <1>1, <1>2, <1>5, <2>1 DEF AgentJobs
  <2>6. AllowedOK(z)
    BY <1>1, <1>2, <1>5, <2>3, <2>4 DEF JobOK, AllowedOK
  <2>7. ToldOK(z)
    BY <1>1, <1>2, <1>3, <1>4, <2>3 DEF JobOK, ToldOK
  <2>8. TimeOK(z)
    <3>1. x.elapsed \in Nat /\ x.left \in Nat /\ x.waited \in Nat
          /\ {HTTP_TIMEOUT, BLOCK_TIMEOUT, POLL_INTERVAL} \subseteq Nat
      BY <1>1, <1>2, RuntimeAssumption DEF AgentJobs
    <3> QED BY <1>1, <1>2, <1>5, <2>3, <3>1 DEF JobOK, TimeOK
  <2> QED BY <1>1, <2>2, <2>5, <2>6, <2>7, <2>8, JobMovesAlone DEF JobOK
<1>6. CASE status # "forgotten" /\ Reply(j, MapStatus(status))
  <2>1. PICK answer : answer = MapStatus(status)
    OBVIOUS
  <2>2. answer \in TaskAnswers
    BY <1>4, <1>6, <2>1 DEF MapStatus, TaskAnswers
  <2>3. answer \in Final => Told(job[j].task, answer)
    BY <1>2, <1>4, <2>1 DEF MapStatus, Final, TERMINAL
  <2> QED BY <1>1, <1>6, <2>1, <2>2, <2>3, AnswersOK
<1>7. CASE Reply(j, "not_found")
  <2>1. "not_found" \in TaskAnswers /\ "not_found" \notin Final
    BY DEF TaskAnswers, Final, TERMINAL
  <2> QED BY <1>1, <1>7, <2>1, AnswersOK
<1> QED BY <1>2, <1>5, <1>6, <1>7 DEF GetTask

\* A task whose status changes: only one that had not ended, or to be forgotten.
LEMMA TaskMoves ==
    ASSUME AgentInv, NEW t \in TaskIds, task[t] # NoTask,
           NEW status \in TERMINAL \union {"running", "forgotten"},
           status = "forgotten" \/ task[t].status \notin Final \union {"forgotten"},
           task' = [task EXCEPT ![t].status = status]
    PROVE  /\ TasksGoOn /\ TasksWereAllowed'
           /\ task' \in [TaskIds -> TaskRows \union {NoTask}]
<1>1. /\ task \in [TaskIds -> TaskRows \union {NoTask}] /\ TasksWereAllowed
      /\ task[t] \in TaskRows
  BY DEF AgentInv, AgentTypeOK
<1>2. PICK entry : entry = [task[t] EXCEPT !.status = status]
  OBVIOUS
<1>3. entry \in TaskRows /\ entry.status = status /\ task' = [task EXCEPT ![t] = entry]
  BY <1>1, <1>2 DEF TaskRows
<1>4. entry.startable = task[t].startable
  BY <1>1, <1>2 DEF TaskRows
<1>5. entry # NoTask
  BY <1>3, RuntimeAssumption
<1>6. \A u \in TaskIds : task'[u] = IF u = t THEN entry ELSE task[u]
  BY <1>1, <1>3
<1>7. TasksGoOn
  BY <1>3, <1>5, <1>6 DEF TasksGoOn
<1>8. TasksWereAllowed'
  BY <1>1, <1>4, <1>6 DEF TasksWereAllowed
<1> QED BY <1>1, <1>3, <1>7, <1>8

LEMMA ResumeOK ==
    ASSUME AgentInv, NEW j \in Jobs, ResumeTask(j)
    PROVE  AgentInv'
<1>1. /\ job[j] # NoJob /\ job[j].step = "resume" /\ agentState' = agentState
      /\ job[j] \in AgentJobs /\ JobOK(job[j]) /\ job \in [Jobs -> AgentJobs \union {NoJob}]
  BY UnderWay DEF ResumeTask
<1>2. PICK x, t : x = job[j] /\ t = x.task
  OBVIOUS
<1>3. t \in TaskIds /\ task[t] # NoTask
  BY <1>1, <1>2 DEF JobOK, ToldOK
<1>4. {"resumed", "error", "not_found"} \subseteq TaskAnswers \ Final
  BY DEF TaskAnswers, Final, TERMINAL
<1>5. CASE task[t].status = "waiting_input"
  <2>1. task' = [task EXCEPT ![t].status = "running"] /\ Reply(j, "resumed")
    BY <1>2, <1>5 DEF ResumeTask
  <2>2. TasksGoOn /\ TasksWereAllowed' /\ task' \in [TaskIds -> TaskRows \union {NoTask}]
    BY <1>3, <1>5, <2>1, TaskMoves DEF Final, TERMINAL
  <2>3. PICK z : z = Replied(x, "resumed")
    OBVIOUS
  <2>4. z \in AgentJobs /\ JobOK(z) /\ job' = [job EXCEPT ![j] = z]
    BY <1>1, <1>2, <1>4, <2>1, <2>3, RepliedOK, ReplyMoves
  <2>5. JobOK(z)'
    BY <1>1, <2>2, <2>4, JobStays
  <2> QED BY <1>1, <2>2, <2>4, <2>5, JobMoves
<1>6. CASE task[t].status # "waiting_input"
  <2>1. task' = task /\ (Reply(j, "not_found") \/ Reply(j, "error"))
    BY <1>2, <1>6 DEF ResumeTask
  <2> QED BY <1>1, <1>4, <2>1, AnswersOK
<1> QED BY <1>5, <1>6

LEMMA FailsOK ==
    ASSUME AgentInv, NEW j \in Jobs, HttpFails(j)
    PROVE  AgentInv'
<1>1. "error" \in TaskAnswers /\ "error" \notin Final
  BY DEF TaskAnswers, Final, TERMINAL
<1> QED BY <1>1, AnswersOK DEF HttpFails

\* The requests stay as they are.
LEMMA JobsStay ==
    ASSUME AgentInv, TasksGoOn, TasksWereAllowed', UNCHANGED <<agentState, job>>,
           task' \in [TaskIds -> TaskRows \union {NoTask}]
    PROVE  AgentInv'
<1>1. ASSUME NEW i \in Jobs, job'[i] # NoJob PROVE JobOK(job[i])'
  <2>1. PICK y : y = job[i]
    OBVIOUS
  <2>2. JobOK(y)'
    BY <1>1, <2>1, JobStays DEF AgentInv
  <2> QED BY <2>1, <2>2
          DEF JobOK, AllowedOK, ToldOK, TimeOK, Told, WasStartable, Enabled, AllowedRoles
<1> QED BY <1>1 DEF AgentInv, AgentTypeOK

LEMMA AdvanceOK ==
    ASSUME AgentInv, NEW t \in TaskIds, AdvanceTask(t)
    PROVE  AgentInv'
<1>1. PICK status \in TERMINAL \union {"running", "forgotten"} :
          /\ status = "forgotten" \/ task[t].status \notin Final \union {"forgotten"}
          /\ task' = [task EXCEPT ![t].status = status]
  BY DEF AdvanceTask, Final, TERMINAL
<1>2. TasksGoOn /\ TasksWereAllowed' /\ task' \in [TaskIds -> TaskRows \union {NoTask}]
  BY <1>1, TaskMoves DEF AdvanceTask
<1> QED BY <1>2, JobsStay DEF AdvanceTask

LEMMA EndOK ==
    ASSUME AgentInv, NEW j \in Jobs, EndJob(j)
    PROVE  AgentInv'
<1>1. job' = [job EXCEPT ![j] = NoJob] /\ UNCHANGED <<agentState, task>>
  BY DEF EndJob
<1>2. \A i \in Jobs : job'[i] = IF i = j THEN NoJob ELSE job[i]
  BY <1>1 DEF AgentInv, AgentTypeOK
<1>3. AgentTypeOK' /\ TasksWereAllowed'
  BY <1>1 DEF AgentInv, AgentTypeOK, TasksWereAllowed
<1>4. ASSUME NEW i \in Jobs, job'[i] # NoJob PROVE JobOK(job[i])'
  <2>1. job'[i] = job[i] /\ JobOK(job[i])
    BY <1>2, <1>4 DEF AgentInv
  <2> QED BY <1>1, <2>1
          DEF JobOK, AllowedOK, ToldOK, TimeOK, Told, WasStartable, Enabled, AllowedRoles
<1> QED BY <1>3, <1>4 DEF AgentInv

\* The operator's switch: every request of the agent takes note of it.
LEMMA SwitchOK ==
    ASSUME AgentInv, NEW a \in Agents, NEW enabled \in BOOLEAN, NEW roles \in SUBSET ASSIGNABLE,
           update_agent_state(a, enabled, roles)
    PROVE  AgentInv'
<1> DEFINE state == [enabled |-> enabled, roles |-> roles]
           noted(x) == [x EXCEPT !.startable =
                            @ \/ (enabled /\ x.role \in roles \union {RoleSystem})]
<1>1. /\ agentState' = [agentState EXCEPT ![a] = state] /\ task' = task
      /\ job' = [j \in Jobs |-> IF job[j] = NoJob \/ job[j].agent # a THEN job[j]
                                ELSE noted(job[j])]
  BY DEF update_agent_state, set_state
<1>2. /\ agentState \in [Agents -> [enabled : BOOLEAN, roles : SUBSET ActorRoles] \union {NoState}]
      /\ job \in [Jobs -> AgentJobs \union {NoJob}] /\ TasksWereAllowed
  BY DEF AgentInv, AgentTypeOK
<1>3. state \in [enabled : BOOLEAN, roles : SUBSET ActorRoles]
      /\ state.enabled = enabled /\ state.roles = roles
  BY DEF ASSIGNABLE
<1>4. state # NoState
  BY <1>3, RuntimeAssumption
<1> HIDE DEF state
<1>5. agentState' \in [Agents -> [enabled : BOOLEAN, roles : SUBSET ActorRoles] \union {NoState}]
      /\ \A b \in Agents : agentState'[b] = IF b = a THEN state ELSE agentState[b]
  BY <1>1, <1>2, <1>3
<1>6. ASSUME NEW x \in AgentJobs
      PROVE  /\ noted(x) \in AgentJobs
             /\ noted(x).op = x.op /\ noted(x).agent = x.agent /\ noted(x).role = x.role
             /\ noted(x).task = x.task /\ noted(x).step = x.step /\ noted(x).status = x.status
             /\ noted(x).answer = x.answer /\ noted(x).waited = x.waited
             /\ noted(x).elapsed = x.elapsed /\ noted(x).left = x.left
             /\ noted(x).startable = (x.startable \/ (enabled /\ x.role \in roles \union {RoleSystem}))
  BY DEF AgentJobs
<1>7. \A r : WasStartable(a, r)' => enabled /\ r \in roles \union {RoleSystem}
  BY <1>3, <1>4, <1>5 DEF WasStartable, Enabled, AllowedRoles
<1>8. \A b \in Agents : \A r : b # a => (WasStartable(b, r)' = WasStartable(b, r))
  BY <1>5 DEF WasStartable, Enabled, AllowedRoles
<1>9. ASSUME NEW x \in AgentJobs, JobOK(x), NEW y \in AgentJobs,
             y = IF x.agent # a THEN x ELSE noted(x)
      PROVE  JobOK(y)'
  <2>1. /\ y.op = x.op /\ y.agent = x.agent /\ y.role = x.role
        /\ y.task = x.task /\ y.step = x.step /\ y.status = x.status
        /\ y.answer = x.answer /\ y.waited = x.waited
        /\ y.elapsed = x.elapsed /\ y.left = x.left
    BY <1>6, <1>9
  <2>2. x.startable => y.startable
    BY <1>6, <1>9
  <2>3. x.agent = a /\ enabled /\ x.role \in roles \union {RoleSystem} => y.startable
    BY <1>6, <1>9
  <2>4. x.agent \in Agents
    BY DEF AgentJobs
  <2>5. WasStartable(y.agent, y.role)' => y.startable
    <3>1. CASE x.agent = a
      BY <1>7, <2>1, <2>3, <3>1 DEF WasStartable, Enabled, AllowedRoles
    <3>2. CASE x.agent # a
      <4>1. WasStartable(x.agent, x.role)' => x.startable
        BY <1>8, <1>9, <2>4, <3>2 DEF JobOK, AllowedOK
      <4> QED BY <2>1, <2>2, <4>1
    <3> QED BY <3>1, <3>2
  <2>6. AllowedOK(y)'
    BY <1>9, <2>1, <2>2, <2>5 DEF JobOK, AllowedOK
  <2>7. ToldOK(y)'
    BY <1>1, <1>9, <2>1 DEF JobOK, ToldOK, Told
  <2>8. TimeOK(y)'
    BY <1>9, <2>1 DEF JobOK, TimeOK
  <2> QED BY <2>6, <2>7, <2>8 DEF JobOK
<1> HIDE DEF noted
<1>10. \A j \in Jobs : job'[j] = IF job[j] = NoJob \/ job[j].agent # a THEN job[j]
                                 ELSE noted(job[j])
  BY <1>1
<1>11. AgentTypeOK' /\ TasksWereAllowed'
  BY <1>1, <1>2, <1>5, <1>6 DEF AgentInv, AgentTypeOK, TasksWereAllowed
<1>12. ASSUME NEW i \in Jobs, job'[i] # NoJob PROVE JobOK(job[i])'
  <2>1. CASE job[i] = NoJob
    BY <1>10, <1>12, <2>1
  <2>2. CASE job[i] # NoJob
    <3>1. PICK x, y : x = job[i] /\ y = job'[i]
      OBVIOUS
    <3>2. x \in AgentJobs /\ JobOK(x) /\ y = IF x.agent # a THEN x ELSE noted(x)
      BY <1>10, <2>2, <3>1, UnderWay
    <3>3. JobOK(y)'
      BY <1>6, <1>9, <3>2
    <3> QED BY <3>1, <3>3
            DEF JobOK, AllowedOK, ToldOK, TimeOK, Told, WasStartable, Enabled, AllowedRoles
  <2> QED BY <2>1, <2>2
<1> QED BY <1>11, <1>12 DEF AgentInv

\* Time passes: only calls and pauses last, each within its own limit.
LEMMA TickOK ==
    ASSUME AgentInv, AgentTick
    PROVE  AgentInv'
<1> DEFINE older(x) == [x EXCEPT !.waited = @ + 1, !.left = IF @ = 0 THEN 0 ELSE @ - 1,
                                 !.elapsed = IF @ = MaxElapsed THEN @ ELSE @ + 1]
<1>1. /\ job' = [j \in Jobs |-> IF job[j] = NoJob THEN NoJob ELSE older(job[j])]
      /\ UNCHANGED <<agentState, task>>
  BY DEF AgentTick
<1>2. ASSUME NEW x \in AgentJobs, JobOK(x),
             \/ x.step \in HttpSteps /\ x.waited < HTTP_TIMEOUT
             \/ x.step = "sleep" /\ x.waited < POLL_INTERVAL
      PROVE  older(x) \in AgentJobs /\ JobOK(older(x))
  <2>1. x.waited \in Nat /\ x.elapsed \in Nat /\ x.left \in Nat
        /\ {HTTP_TIMEOUT, BLOCK_TIMEOUT, POLL_INTERVAL} \subseteq Nat
    BY RuntimeAssumption DEF AgentJobs
  <2>2. PICK y : y = older(x)
    OBVIOUS
  <2>3. y \in AgentJobs
    <3>1. PICK w, l, e : /\ w = x.waited + 1 /\ l = IF x.left = 0 THEN 0 ELSE x.left - 1
                         /\ e = IF x.elapsed = MaxElapsed THEN x.elapsed ELSE x.elapsed + 1
      OBVIOUS
    <3>2. w \in Nat /\ l \in Nat /\ e \in Nat
      BY <2>1, <3>1
    <3>3. y = [x EXCEPT !.waited = w, !.left = l, !.elapsed = e]
      BY <2>2, <3>1
    <3> QED BY <3>2, <3>3 DEF AgentJobs
  <2>4. /\ y.op = x.op /\ y.agent = x.agent /\ y.role = x.role
        /\ y.task = x.task /\ y.step = x.step /\ y.status = x.status
        /\ y.answer = x.answer /\ y.waited = x.waited + 1
        /\ y.left = IF x.left = 0 THEN 0 ELSE x.left - 1
    BY <2>2 DEF AgentJobs
  <2>5. y.elapsed = x.elapsed \/ y.elapsed = x.elapsed + 1
    BY <2>2 DEF AgentJobs
  <2>6. y.startable = x.startable
    BY <2>2 DEF AgentJobs
  <2>7. AllowedOK(y)
    BY <1>2, <2>4, <2>6 DEF JobOK, AllowedOK
  <2>8. ToldOK(y)
    BY <1>2, <2>4 DEF JobOK, ToldOK
  <2>9. TimeOK(y)
    BY <1>2, <2>1, <2>4, <2>5 DEF JobOK, TimeOK, HttpSteps
  <2> QED BY <2>2, <2>3, <2>7, <2>8, <2>9 DEF JobOK
<1> HIDE DEF older
<1>3. ASSUME NEW j \in Jobs, job[j] # NoJob
      PROVE  job'[j] = older(job[j]) /\ older(job[j]) \in AgentJobs /\ JobOK(older(job[j]))
  BY <1>1, <1>2, <1>3, UnderWay DEF AgentTick
<1>4. \A j \in Jobs : job[j] = NoJob => job'[j] = NoJob
  BY <1>1
<1>5. AgentTypeOK' /\ TasksWereAllowed'
  BY <1>1, <1>3 DEF AgentInv, AgentTypeOK, TasksWereAllowed
<1>6. ASSUME NEW i \in Jobs, job'[i] # NoJob PROVE JobOK(job[i])'
  <2>1. PICK y : y = older(job[i])
    OBVIOUS
  <2>2. job'[i] = y /\ JobOK(y)
    BY <1>3, <1>4, <1>6, <2>1
  <2> QED BY <1>1, <2>2
          DEF JobOK, AllowedOK, ToldOK, TimeOK, Told, WasStartable, Enabled, AllowedRoles
<1> QED BY <1>5, <1>6 DEF AgentInv

LEMMA AgentStep == AgentInv /\ [AgentNext]_agentVars => AgentInv'
<1> SUFFICES ASSUME AgentInv, [AgentNext]_agentVars PROVE AgentInv'
  OBVIOUS
<1>1. CASE UNCHANGED agentVars
  <2>1. TasksGoOn /\ TasksWereAllowed' /\ task' \in [TaskIds -> TaskRows \union {NoTask}]
    BY <1>1 DEF AgentInv, AgentTypeOK, TasksGoOn, TasksWereAllowed, agentVars
  <2> QED BY <1>1, <2>1, JobsStay DEF agentVars
<1>2. ASSUME NEW j \in Jobs,
             \/ VerifyAgent(j) \/ CreateSession(j) \/ StartInService(j) \/ CheckDeadline(j)
             \/ PauseEnds(j) \/ GetTask(j) \/ ResumeTask(j) \/ HttpFails(j) \/ EndJob(j)
      PROVE  AgentInv'
  BY <1>2, VerifyOK, CreateOK, StartedOK, CheckOK, PauseOK, GetOK, ResumeOK, FailsOK, EndOK
<1>3. ASSUME NEW a \in Agents, NEW r \in ActorRoles, SwitchAgent(a, r) PROVE AgentInv'
  <2>1. PolicyRoles(a) \cap ASSIGNABLE \in SUBSET ASSIGNABLE
    OBVIOUS
  <2> QED BY <1>3, <2>1, SwitchOK DEF SwitchAgent
<1> QED BY <1>1, <1>2, <1>3, StartsOK, AsksOK, AdvanceOK, TickOK DEF AgentNext

THEOREM AgentInvariance == AgentSpec => []AgentInv
<1>1. AgentInit => AgentInv
  BY DEF AgentInit, AgentInv, AgentTypeOK, TasksWereAllowed
<1> QED BY <1>1, AgentStep, PTL DEF AgentSpec

\* A task was allowed when it started, what a request is told of it is what the service
\* said, and a blocking request ends in its time, for any agents, roles, requests,
\* tasks and timeouts (_verify_agent_and_policy, run_agent_task_http).
THEOREM TasksStayInOrder == AgentSpec => []TasksInOrder
<1>1. AgentInv => TasksWereAllowed
  BY DEF AgentInv
<1>2. AgentInv => AnswersTellService
  BY DEF AgentInv, JobOK, ToldOK, Told, AnswersTellService
<1>3. AgentInv => AnsweredInTime
  <2> SUFFICES ASSUME AgentInv, NEW j \in Jobs, job[j] # NoJob, job[j].op = "block",
                      job[j].step # "answered"
               PROVE  job[j].elapsed <= 3 * HTTP_TIMEOUT + BLOCK_TIMEOUT + POLL_INTERVAL
    BY DEF AnsweredInTime
  <2>1. PICK x : x = job[j]
    OBVIOUS
  <2>2. x \in AgentJobs /\ TimeOK(x)
    BY <2>1, UnderWay DEF JobOK
  <2>3. x.waited \in Nat /\ x.elapsed \in Nat
        /\ {HTTP_TIMEOUT, BLOCK_TIMEOUT, POLL_INTERVAL} \subseteq Nat
    BY <2>2, RuntimeAssumption DEF AgentJobs
  <2>4. x.step \in {"verify", "session", "start", "check", "sleep", "get"}
    BY <2>1, <2>2 DEF AgentJobs, HttpSteps, TimeOK
  <2> QED BY <2>1, <2>2, <2>3, <2>4 DEF TimeOK
<1>4. AgentInv => TasksInOrder
  BY <1>1, <1>2, <1>3 DEF TasksInOrder
<1> QED BY <1>4, AgentInvariance, PTL

-----------------------------------------------------------------------------
(* Calls of skills: the inductive invariant                                *)

AnyOrg == Orgs \union {NoOrg, DevOrg, TokenOrg}
AnyRole == ActorRoles \union {NoRole} \union DevRoles
CallRecords ==
    [surface : SURFACES, path : {"cookie", "dev", "bearer"}, skill : Skills,
     wanted : ActorRoles \union {NoRole}, org : Orgs \union {NoOrg}, confirmed : BOOLEAN,
     once : BOOLEAN, phase : {"enter", "invoke", "write", "done"}, answer : Answers, allowed : SUBSET AnyRole,
     pairs : SUBSET (AnyOrg \X AnyRole), pair : AnyOrg \X AnyRole, fallback : BOOLEAN,
     recorded : BOOLEAN, lost : BOOLEAN, seen : SUBSET Pairs]

AccessTypeOK ==
    /\ account.status \in {"active", "disabled"} /\ account.contexts \subseteq Pairs
    /\ snapshot # NoSession =>
          /\ snapshot \in [dev : BOOLEAN, role_codes : SUBSET AnyRole, org : AnyOrg, role : AnyRole]
    /\ call \in [CallIds -> CallRecords \union {NoCall}]

\* Every pair that is bound while a call runs is among those it has seen.
SeenOK(c) == account.status = "active" => account.contexts \subseteq c.seen

\* Where the roles of a call come from.
SourceOK(c) ==
    /\ c.path = "dev" => c.allowed = DevRoles
    /\ c.path = "bearer" => c.allowed \subseteq RolesOf(c.seen)
    /\ ~c.fallback => c.pairs \subseteq c.seen

\* Past its entrance a tool's call was trusted; only browser calls have a cookie.
TrustedOK(c) ==
    /\ c.path = "cookie" => c.surface = "api"
    /\ (c.phase \in {"invoke", "write"} \/ c.answer = "served") /\ TrustRequired(c)
           => ~Untrusted(c.skill)

\* Past invoke_skill a call has a role of its own that the policy lets run the skill.
RightOK(c) ==
    /\ c.phase # "done" => c.answer = "open"
    /\ c.phase = "write" \/ c.answer = "served" =>
          /\ PolicyAllows(c.skill, c.pair[2])
          /\ IF c.path = "cookie" THEN c.pair \in c.pairs ELSE c.pair[2] \in c.allowed
    /\ c.answer = "served" => ~(Manifest[c.skill].side_effects /\ NeedsConfirmation(c))

RecordOK(c) ==
    /\ c.answer = "policy_denied" => c.recorded \/ c.lost
    /\ c.answer = "trust_denied" => c.recorded

CallOK(c) == SeenOK(c) /\ SourceOK(c) /\ TrustedOK(c) /\ RightOK(c) /\ RecordOK(c)

AccessInv ==
    /\ AccessTypeOK
    /\ \A q \in CallIds : call[q] # NoCall => CallOK(call[q])

-----------------------------------------------------------------------------
(* Steps of a call                                                         *)

\* A call depends on the account and the environment only.
LEMMA CallStays ==
    ASSUME NEW c, CallOK(c), UNCHANGED <<deploy, account>>
    PROVE  CallOK(c)'
BY DEF CallOK, SeenOK, SourceOK, TrustedOK, TrustRequired, RightOK, RecordOK, Untrusted, TrustAllowsWrite

LEMMA CallMoves1 ==
    ASSUME AccessInv, NEW q \in CallIds, NEW c \in CallRecords, CallOK(c),
           call' = [call EXCEPT ![q] = c], UNCHANGED <<deploy, account>>,
           snapshot' # NoSession =>
               snapshot' \in [dev : BOOLEAN, role_codes : SUBSET AnyRole, org : AnyOrg, role : AnyRole]
    PROVE  AccessInv'
<1>1. call \in [CallIds -> CallRecords \union {NoCall}]
  BY DEF AccessInv, AccessTypeOK
<1>2. AccessTypeOK'
  BY <1>1 DEF AccessInv, AccessTypeOK
<1>3. ASSUME NEW p \in CallIds, call'[p] # NoCall PROVE CallOK(call[p])'
  <2>1. PICK d : d = call'[p]
    OBVIOUS
  <2>2. CallOK(d)
    BY <1>1, <1>3, <2>1 DEF AccessInv
  <2>3. CallOK(d)'
    BY <2>2, CallStays
  <2> QED BY <2>1, <2>3
          DEF CallOK, SeenOK, SourceOK, TrustedOK, RightOK, RecordOK, Untrusted, TrustAllowsWrite,
              NeedsConfirmation
<1> QED BY <1>2, <1>3 DEF AccessInv

LEMMA OpenCall ==
    ASSUME AccessInv, NEW q \in CallIds, call[q] # NoCall
    PROVE  /\ call[q] \in CallRecords /\ CallOK(call[q])
           /\ call \in [CallIds -> CallRecords \union {NoCall}]
           /\ snapshot # NoSession =>
                snapshot \in [dev : BOOLEAN, role_codes : SUBSET AnyRole, org : AnyOrg, role : AnyRole]
BY DEF AccessInv, AccessTypeOK

\* A call in another phase, with another answer, on record or not.
Moved(c, phase, answer, recorded, lost) ==
    [c EXCEPT !.phase = phase, !.answer = answer, !.recorded = recorded, !.lost = lost]

MovedTo(d, c, phase, answer, recorded, lost) ==
    /\ d \in CallRecords /\ d.phase = phase /\ d.answer = answer
    /\ d.recorded = recorded /\ d.lost = lost
    /\ d.surface = c.surface /\ d.once = c.once /\ d.path = c.path /\ d.skill = c.skill
    /\ d.confirmed = c.confirmed /\ d.allowed = c.allowed /\ d.pairs = c.pairs
    /\ d.pair = c.pair /\ d.fallback = c.fallback /\ d.seen = c.seen

LEMMA MovedFields ==
    ASSUME NEW c \in CallRecords, NEW phase \in {"enter", "invoke", "write", "done"},
           NEW answer \in Answers, NEW recorded \in BOOLEAN, NEW lost \in BOOLEAN
    PROVE  MovedTo(Moved(c, phase, answer, recorded, lost), c, phase, answer, recorded, lost)
<1> DEFINE d == Moved(c, phase, answer, recorded, lost)
<1>1. d \in CallRecords
  BY ZenonT(60) DEF Moved, CallRecords
<1>2. /\ d.phase = phase /\ d.answer = answer /\ d.surface = c.surface /\ d.path = c.path
      /\ d.once = c.once /\ d.skill = c.skill /\ d.allowed = c.allowed /\ d.pairs = c.pairs /\ d.pair = c.pair
      /\ d.seen = c.seen
  BY DEF Moved, CallRecords
<1>3. d.recorded = recorded
  BY DEF Moved, CallRecords
<1>4. d.lost = lost
  BY DEF Moved, CallRecords
<1>5. d.confirmed = c.confirmed
  BY DEF Moved, CallRecords
<1>6. d.fallback = c.fallback
  BY DEF Moved, CallRecords
<1> QED BY <1>1, <1>2, <1>3, <1>4, <1>5, <1>6 DEF MovedTo

\* A refusal.
LEMMA RefusalOK ==
    ASSUME AccessInv, NEW q \in CallIds, call[q] # NoCall, call[q].phase # "done",
           NEW answer \in Answers \ {"open", "served"},
           NEW recorded \in BOOLEAN, NEW lost \in BOOLEAN,
           answer = "policy_denied" => recorded \/ lost, answer = "trust_denied" => recorded,
           call' = [call EXCEPT ![q] = Moved(call[q], "done", answer, recorded, lost)],
           UNCHANGED <<deploy, account, snapshot>>
    PROVE  AccessInv'
<1>1. PICK c, d : c = call[q] /\ d = Moved(c, "done", answer, recorded, lost)
  OBVIOUS
<1>2. c \in CallRecords /\ CallOK(c)
  BY <1>1, OpenCall
<1>3. MovedTo(d, c, "done", answer, recorded, lost)
  BY <1>1, <1>2, MovedFields
<1>4. SeenOK(d) /\ SourceOK(d)
  BY <1>2, <1>3 DEF CallOK, SeenOK, SourceOK, MovedTo
<1>5. TrustedOK(d) /\ RightOK(d) /\ RecordOK(d)
  BY <1>2, <1>3 DEF CallOK, TrustedOK, TrustRequired, RightOK, RecordOK, MovedTo
<1> QED BY <1>1, <1>3, <1>4, <1>5, OpenCall, CallMoves1 DEF CallOK, MovedTo

\* Answer, without an event.
LEMMA AnswerMoves ==
    ASSUME AccessInv, NEW q \in CallIds, call[q] # NoCall, NEW answer, Answer(q, answer)
    PROVE  call' = [call EXCEPT ![q] =
               Moved(call[q], "done", answer, call[q].recorded, call[q].lost)]
<1>1. call[q] \in CallRecords /\ call \in [CallIds -> CallRecords \union {NoCall}]
  BY OpenCall
<1> QED BY <1>1 DEF Answer, Moved, CallRecords

LEMMA PlainRefusal ==
    ASSUME AccessInv, NEW q \in CallIds, call[q] # NoCall, call[q].phase # "done",
           NEW answer \in Answers \ {"open", "served", "policy_denied", "trust_denied"},
           Answer(q, answer), UNCHANGED <<deploy, account, snapshot>>
    PROVE  AccessInv'
<1>1. call[q].recorded \in BOOLEAN /\ call[q].lost \in BOOLEAN
  BY OpenCall DEF CallRecords
<1> QED BY <1>1, AnswerMoves, RefusalOK

\* A call that goes on to the dispatch, trusted.
LEMMA GoOnOK ==
    ASSUME AccessInv, NEW q \in CallIds, call[q] # NoCall, call[q].phase # "done",
           TrustRequired(call[q]) => ~Untrusted(call[q].skill),
           Goto(q, "invoke"), UNCHANGED <<deploy, account, snapshot>>
    PROVE  AccessInv'
<1>1. PICK c, d : c = call[q] /\ d = Moved(c, "invoke", c.answer, c.recorded, c.lost)
  OBVIOUS
<1>2. c \in CallRecords /\ CallOK(c) /\ call \in [CallIds -> CallRecords \union {NoCall}]
  BY <1>1, OpenCall
<1>3. c.answer \in Answers /\ c.recorded \in BOOLEAN /\ c.lost \in BOOLEAN /\ c.answer = "open"
  BY <1>1, <1>2 DEF CallRecords, CallOK, RightOK
<1>4. MovedTo(d, c, "invoke", c.answer, c.recorded, c.lost)
  BY <1>1, <1>2, <1>3, MovedFields
<1>5. call' = [call EXCEPT ![q] = d]
  BY <1>1, <1>2 DEF Goto, Moved, CallRecords
<1>6. SeenOK(d) /\ SourceOK(d)
  BY <1>2, <1>4 DEF CallOK, SeenOK, SourceOK, MovedTo
<1>7. TrustedOK(d) /\ RightOK(d) /\ RecordOK(d)
  BY <1>1, <1>2, <1>3, <1>4 DEF CallOK, TrustedOK, TrustRequired, RightOK, RecordOK, MovedTo
<1> QED BY <1>4, <1>5, <1>6, <1>7, OpenCall, CallMoves1 DEF CallOK, MovedTo

SessionRecords == [dev : BOOLEAN, role_codes : SUBSET AnyRole, org : AnyOrg, role : AnyRole]

\* A step that leaves the calls and the account alone.
LEMMA CallsStay ==
    ASSUME AccessInv, UNCHANGED <<deploy, account, call>>,
           snapshot' # NoSession => snapshot' \in SessionRecords
    PROVE  AccessInv'
<1>1. AccessTypeOK'
  BY DEF AccessInv, AccessTypeOK, SessionRecords
<1>2. ASSUME NEW p \in CallIds, call'[p] # NoCall PROVE CallOK(call[p])'
  BY <1>2 DEF AccessInv, CallOK, SeenOK, SourceOK, TrustedOK, TrustRequired, RightOK, RecordOK, Untrusted,
              TrustAllowsWrite, NeedsConfirmation
<1> QED BY <1>1, <1>2 DEF AccessInv

LEMMA RolesTyped ==
    ASSUME NEW pairs \in SUBSET Pairs
    PROVE  RolesOf(pairs) \subseteq ActorRoles
BY DEF RolesOf, Pairs

LEMMA FirstRoleIn ==
    ASSUME NEW roles, roles # {}
    PROVE  FirstRole(roles) \in roles
BY DEF FirstRole

LEMMA DevLoginOK ==
    ASSUME AccessInv, DevBypassLogin
    PROVE  AccessInv'
<1>1. snapshot' \in SessionRecords
  BY FirstRoleIn DEF DevBypassLogin, SessionRecords, AnyRole, AnyOrg
<1> QED BY <1>1, CallsStay DEF DevBypassLogin

LEMMA LoginOK ==
    ASSUME AccessInv, Login
    PROVE  AccessInv'
<1>1. account.contexts \subseteq Pairs
  BY DEF AccessInv, AccessTypeOK
<1>2. PICK p \in IF account.contexts = {} THEN {<<NoOrg, NoRole>>} ELSE account.contexts :
          snapshot' = [dev |-> FALSE, role_codes |-> RolesOf(account.contexts),
                       org |-> p[1], role |-> p[2]]
  BY DEF Login
<1>3. p[1] \in AnyOrg /\ p[2] \in AnyRole
  BY <1>1, <1>2 DEF Pairs, AnyOrg, AnyRole
<1>4. RolesOf(account.contexts) \subseteq AnyRole
  BY <1>1, RolesTyped DEF AnyRole
<1>5. snapshot' \in SessionRecords
  BY <1>2, <1>3, <1>4 DEF SessionRecords
<1> QED BY <1>5, CallsStay DEF Login

\* An administrator's change: every call under way takes note of what is bound now.
LEMMA ChangeOK ==
    ASSUME AccessInv, NEW status \in {"active", "disabled"}, NEW contexts \in SUBSET Pairs,
           ChangeAccount(status, contexts)
    PROVE  AccessInv'
<1> DEFINE bound == IF status = "active" THEN contexts ELSE {}
           noting(c) == [c EXCEPT !.seen = @ \union bound]
<1>1. /\ account' = [status |-> status, contexts |-> contexts] /\ UNCHANGED <<deploy, snapshot>>
      /\ call' = [q \in CallIds |-> IF call[q] = NoCall THEN NoCall ELSE noting(call[q])]
  BY DEF ChangeAccount, Witness
<1>2. account'.status = status /\ account'.contexts = contexts
  BY <1>1
<1>3. call \in [CallIds -> CallRecords \union {NoCall}]
  BY DEF AccessInv, AccessTypeOK
<1>4. ASSUME NEW c \in CallRecords
      PROVE  /\ noting(c) \in CallRecords /\ noting(c).seen = c.seen \union bound
             /\ noting(c).phase = c.phase /\ noting(c).answer = c.answer
             /\ noting(c).surface = c.surface /\ noting(c).path = c.path
             /\ noting(c).once = c.once
             /\ noting(c).skill = c.skill /\ noting(c).allowed = c.allowed
             /\ noting(c).pairs = c.pairs /\ noting(c).pair = c.pair
             /\ noting(c).confirmed = c.confirmed /\ noting(c).fallback = c.fallback
             /\ noting(c).recorded = c.recorded /\ noting(c).lost = c.lost
  BY DEF CallRecords
<1>5. status = "active" => contexts = bound
  OBVIOUS
<1> HIDE DEF noting, bound
<1>6. ASSUME NEW c \in CallRecords, CallOK(c), NEW d, d = noting(c) PROVE CallOK(d)'
  <2>1. SeenOK(d)'
    BY <1>2, <1>4, <1>5, <1>6 DEF SeenOK
  <2>2. RolesOf(c.seen) \subseteq RolesOf(d.seen)
    BY <1>4, <1>6 DEF RolesOf
  <2>3. SourceOK(d)'
    BY <1>4, <1>6, <2>2 DEF CallOK, SourceOK
  <2>4. TrustedOK(d)'
    BY <1>1, <1>4, <1>6 DEF CallOK, TrustedOK, TrustRequired, Untrusted, TrustAllowsWrite
  <2>5. RightOK(d)' /\ RecordOK(d)'
    BY <1>4, <1>6 DEF CallOK, RightOK, RecordOK, NeedsConfirmation
  <2> QED BY <2>1, <2>3, <2>4, <2>5 DEF CallOK
<1>7. \A q \in CallIds : call'[q] = IF call[q] = NoCall THEN NoCall ELSE noting(call[q])
  BY <1>1
<1>8. AccessTypeOK'
  BY <1>1, <1>2, <1>3, <1>4 DEF AccessInv, AccessTypeOK
<1>9. ASSUME NEW p \in CallIds, call'[p] # NoCall PROVE CallOK(call[p])'
  <2>1. PICK c, d : c = call[p] /\ d = noting(c)
    OBVIOUS
  <2>2. c \in CallRecords /\ CallOK(c) /\ call'[p] = d
    BY <1>7, <1>9, <2>1, OpenCall
  <2>3. CallOK(d)'
    BY <1>6, <2>1, <2>2
  <2> QED BY <2>2, <2>3
          DEF CallOK, SeenOK, SourceOK, TrustedOK, RightOK, RecordOK, Untrusted, TrustAllowsWrite,
              NeedsConfirmation
<1> QED BY <1>8, <1>9 DEF AccessInv

\* A call as it arrives, with the roles of its identity.
Arrived(c, surface, path, allowed) ==
    /\ c \in CallRecords /\ c.surface = surface /\ c.path = path /\ c.allowed = allowed
    /\ c.pairs = {} /\ c.phase = "enter" /\ c.answer = "open"
    /\ c.seen = IF account.status = "active" THEN account.contexts ELSE {}

LEMMA ArrivedOK ==
    ASSUME AccessInv, NEW c, NEW surface, NEW path, NEW allowed, Arrived(c, surface, path, allowed),
           path = "cookie" => surface = "api", path = "dev" => allowed = DevRoles,
           path = "bearer" => allowed \subseteq BoundRoles
    PROVE  CallOK(c)
<1>1. account.status \in {"active", "disabled"} /\ account.contexts \subseteq Pairs
  BY DEF AccessInv, AccessTypeOK
<1>2. SeenOK(c)
  BY DEF SeenOK, Arrived
<1>3. path = "bearer" => allowed \subseteq RolesOf(c.seen)
  BY <1>1 DEF BoundRoles, Arrived
<1>4. SourceOK(c) /\ TrustedOK(c)
  BY <1>3 DEF SourceOK, TrustedOK, TrustRequired, Arrived
<1>5. RightOK(c) /\ RecordOK(c)
  BY DEF RightOK, RecordOK, Arrived
<1> QED BY <1>2, <1>4, <1>5 DEF CallOK

\* A record of NewCall, with roles and pair of its own.
LEMMA NewCallFields ==
    ASSUME AccessInv, NEW surface \in SURFACES, NEW path \in {"cookie", "dev", "bearer"},
           NEW skill \in Skills, NEW wanted \in ActorRoles \union {NoRole},
           NEW org \in Orgs \union {NoOrg}, NEW confirmed \in BOOLEAN,
           NEW allowed \in SUBSET AnyRole, NEW pair \in AnyOrg \X AnyRole, NEW once \in BOOLEAN
    PROVE  /\ Arrived([NewCall(surface, path, skill, wanted, org, confirmed) EXCEPT
                          !.allowed = allowed], surface, path, allowed)
           /\ Arrived([NewCall(surface, path, skill, wanted, org, confirmed) EXCEPT
                          !.once = once, !.allowed = allowed, !.pair = pair], surface, path, allowed)
<1> DEFINE seen == IF account.status = "active" THEN account.contexts ELSE {}
           c == NewCall(surface, path, skill, wanted, org, confirmed)
           d == [c EXCEPT !.allowed = allowed]
           e == [c EXCEPT !.once = once, !.allowed = allowed, !.pair = pair]
<1>1. seen \in SUBSET Pairs
  BY DEF AccessInv, AccessTypeOK
<1>2. "open" \in Answers /\ {} \in SUBSET AnyRole /\ {} \in SUBSET (AnyOrg \X AnyRole)
      /\ <<NoOrg, NoRole>> \in AnyOrg \X AnyRole
  BY DEF Answers, AnyOrg, AnyRole
<1>3. c.seen = seen
  BY DEF NewCall
<1>4. /\ c.surface = surface /\ c.path = path /\ c.pairs = {} /\ c.phase = "enter"
      /\ c.answer = "open"
  BY DEF NewCall
<1>5. c \in CallRecords
  <2> HIDE DEF seen
  <2>1. c = [surface |-> surface, path |-> path, skill |-> skill, wanted |-> wanted, org |-> org,
     confirmed |-> confirmed, once |-> FALSE, phase |-> "enter", answer |-> "open",
     allowed |-> {}, pairs |-> {}, pair |-> <<NoOrg, NoRole>>, fallback |-> FALSE, recorded |-> FALSE,
     lost |-> FALSE, seen |-> seen]
    BY Zenon DEF NewCall, seen
  <2> QED BY <1>1, <1>2, <2>1 DEF CallRecords
<1> HIDE DEF c, seen
<1>6. Arrived(d, surface, path, allowed)
  <2>1. d \in CallRecords /\ d.allowed = allowed
    BY <1>5 DEF CallRecords
  <2>2. /\ d.surface = c.surface /\ d.path = c.path /\ d.pairs = c.pairs /\ d.phase = c.phase
        /\ d.answer = c.answer /\ d.seen = c.seen
    BY <1>5 DEF CallRecords
  <2> HIDE DEF d
  <2> QED BY <1>3, <1>4, <2>1, <2>2 DEF Arrived, seen
<1>7. Arrived(e, surface, path, allowed)
  <2>1. e \in CallRecords /\ e.allowed = allowed
    BY <1>5 DEF CallRecords
  <2>2. /\ e.surface = c.surface /\ e.path = c.path /\ e.pairs = c.pairs /\ e.phase = c.phase
        /\ e.answer = c.answer /\ e.seen = c.seen
    BY <1>5 DEF CallRecords
  <2> HIDE DEF e
  <2> QED BY <1>3, <1>4, <2>1, <2>2 DEF Arrived, seen
<1> QED BY <1>6, <1>7 DEF c

LEMMA ArriveRestOK ==
    ASSUME AccessInv, NEW q \in CallIds, NEW path \in {"cookie", "dev", "bearer"},
           NEW skill \in Skills, NEW wanted \in ActorRoles \union {NoRole},
           NEW org \in Orgs \union {NoOrg}, NEW confirmed \in BOOLEAN,
           ArriveRest(q, path, skill, wanted, org, confirmed)
    PROVE  AccessInv'
<1> DEFINE allowed == IdentityRoles(path)
           surface == "api"
           pair == <<NoOrg, NoRole>>
           c == [NewCall(surface, path, skill, wanted, org, confirmed) EXCEPT !.allowed = allowed]
<1>1. BoundRoles \in SUBSET AnyRole
  BY RolesTyped DEF BoundRoles, AnyRole, AccessInv, AccessTypeOK
<1>2. /\ allowed \in SUBSET AnyRole
      /\ path = "dev" => allowed = DevRoles
      /\ path = "bearer" => allowed \subseteq BoundRoles
  BY <1>1 DEF IdentityRoles, AnyRole
<1>3. pair \in AnyOrg \X AnyRole /\ surface \in SURFACES /\ (path = "cookie" => surface = "api")
  BY DEF AnyOrg, AnyRole, SURFACES
<1>4. call' = [call EXCEPT ![q] = c] /\ UNCHANGED <<deploy, account, snapshot>>
  BY DEF ArriveRest
<1> HIDE DEF allowed, surface, pair
<1>5. Arrived(c, surface, path, allowed)
  BY <1>2, <1>3, NewCallFields
<1> HIDE DEF c
<1>6. c \in CallRecords /\ CallOK(c)
  BY <1>2, <1>3, <1>5, ArrivedOK DEF Arrived
<1> QED BY <1>4, <1>6, CallMoves1 DEF AccessInv, AccessTypeOK

LEMMA ArriveToolOK ==
    ASSUME AccessInv, NEW q \in CallIds, NEW surface \in {"mcp", "a2a", "cli"},
           NEW skill \in Skills, NEW wanted \in ActorRoles \union {NoRole},
           NEW confirmed \in BOOLEAN, NEW once \in BOOLEAN,
           ArriveTool(q, surface, once, skill, wanted, confirmed)
    PROVE  AccessInv'
<1> DEFINE path == "dev"
           org == NoOrg
           allowed == DevRoles
           pair == <<NoOrg, wanted>>
           c == [NewCall(surface, path, skill, wanted, org, confirmed) EXCEPT
                    !.once = once, !.allowed = allowed, !.pair = pair]
<1>1. /\ path \in {"cookie", "dev", "bearer"} /\ path # "cookie" /\ path # "bearer"
      /\ org \in Orgs \union {NoOrg} /\ surface \in SURFACES
      /\ (path = "dev" => allowed = DevRoles)
  BY DEF SURFACES
<1>2. allowed \in SUBSET AnyRole /\ pair \in AnyOrg \X AnyRole
  BY DEF AnyOrg, AnyRole
<1>3. call' = [call EXCEPT ![q] = c] /\ UNCHANGED <<deploy, account, snapshot>>
  BY DEF ArriveTool, ToolCall
<1> HIDE DEF path, org, allowed, pair
<1>4. Arrived(c, surface, path, allowed)
  BY <1>1, <1>2, NewCallFields
<1> HIDE DEF c
<1>5. c \in CallRecords /\ CallOK(c)
  BY <1>1, <1>4, ArrivedOK DEF Arrived
<1> QED BY <1>3, <1>5, CallMoves1 DEF AccessInv, AccessTypeOK

-----------------------------------------------------------------------------
(* Stations a call passes                                                  *)

LEMMA RefuseUnexposedOK ==
    ASSUME AccessInv, NEW q \in CallIds, RefuseUnexposed(q)
    PROVE  AccessInv'
<1>1. "not_exposed" \in Answers \ {"open", "served", "policy_denied", "trust_denied"}
  BY DEF Answers
<1> QED BY <1>1, PlainRefusal DEF RefuseUnexposed

\* A call that was stamped: its pair, the pairs it chose from, and how it goes on.
StampedTo(d, c, pairs, pair, fallback, phase, answer) ==
    /\ d \in CallRecords /\ d.phase = phase /\ d.answer = answer
    /\ d.pairs = pairs /\ d.pair = pair /\ d.fallback = fallback
    /\ d.surface = c.surface /\ d.once = c.once /\ d.path = c.path /\ d.skill = c.skill
    /\ d.confirmed = c.confirmed /\ d.allowed = c.allowed /\ d.seen = c.seen
    /\ d.recorded = c.recorded /\ d.lost = c.lost

Stamped(c, pairs, pair, fallback, phase, answer) ==
    [c EXCEPT !.pairs = pairs, !.pair = pair, !.fallback = fallback, !.phase = phase,
              !.answer = answer]

LEMMA StampedFields ==
    ASSUME NEW c \in CallRecords, NEW pairs \in SUBSET (AnyOrg \X AnyRole),
           NEW pair \in AnyOrg \X AnyRole, NEW fallback \in BOOLEAN,
           NEW phase \in {"enter", "invoke", "write", "done"}, NEW answer \in Answers
    PROVE  StampedTo(Stamped(c, pairs, pair, fallback, phase, answer), c, pairs, pair, fallback,
                     phase, answer)
<1> DEFINE d == Stamped(c, pairs, pair, fallback, phase, answer)
<1>1. d \in CallRecords
  BY DEF Stamped, CallRecords
<1>2. /\ d.phase = phase /\ d.answer = answer /\ d.surface = c.surface /\ d.path = c.path
      /\ d.once = c.once /\ d.skill = c.skill /\ d.allowed = c.allowed /\ d.pairs = pairs /\ d.pair = pair
      /\ d.seen = c.seen
  BY DEF Stamped, CallRecords
<1>3. d.recorded = c.recorded
  BY DEF Stamped, CallRecords
<1>4. d.lost = c.lost
  BY DEF Stamped, CallRecords
<1>5. d.confirmed = c.confirmed
  BY DEF Stamped, CallRecords
<1>6. d.fallback = fallback
  BY DEF Stamped, CallRecords
<1> QED BY <1>1, <1>2, <1>3, <1>4, <1>5, <1>6 DEF StampedTo

\* The pairs of a session are of the right kind, and without a fallback they are bound.
LEMMA AvailableBound ==
    ASSUME AccessInv, snapshot # NoSession
    PROVE  /\ Available \in SUBSET (AnyOrg \X AnyRole)
           /\ ~(snapshot.dev \/ account.contexts = {}) => Available = account.contexts
           /\ CurrentPairs(Available) \subseteq Available
<1>1. snapshot.org \in AnyOrg /\ snapshot.role_codes \subseteq AnyRole /\ account.contexts \subseteq Pairs
  BY DEF AccessInv, AccessTypeOK
<1>2. Pairs \subseteq AnyOrg \X AnyRole
  BY DEF Pairs, AnyOrg, AnyRole
<1>3. Available \subseteq AnyOrg \X AnyRole
  BY <1>1, <1>2 DEF Available
<1>4. CurrentPairs(Available) \subseteq Available
  BY DEF CurrentPairs
<1> QED BY <1>3, <1>4 DEF Available

LEMMA StampTrustedOK ==
    ASSUME AccessInv, NEW q \in CallIds, StampTrusted(q)
    PROVE  AccessInv'
<1> DEFINE disabled == ~snapshot.dev /\ account.status = "disabled"
           fallback == snapshot.dev \/ account.contexts = {}
<1>1. /\ call[q] # NoCall /\ call[q].phase = "enter" /\ call[q].path = "cookie"
      /\ snapshot # NoSession /\ UNCHANGED <<deploy, account>>
  BY DEF StampTrusted
<1>2. CASE Answer(q, "no_role") /\ UNCHANGED snapshot
  <2>1. "no_role" \in Answers \ {"open", "served", "policy_denied", "trust_denied"}
    BY DEF Answers
  <2> QED BY <1>1, <1>2, <2>1, PlainRefusal
<1>3. ASSUME ~disabled, NEW current \in CurrentPairs(Available), NEW role,
             role = ResolveTrusted(Available, current, call[q].wanted, call[q].org),
             snapshot' = [snapshot EXCEPT !.org = current[1], !.role = current[2]],
             call' = [call EXCEPT ![q].pairs = Available, ![q].pair = <<current[1], role>>,
                          ![q].fallback = (snapshot.dev \/ account.contexts = {}),
                          ![q].phase = IF role = NoRole THEN "done" ELSE "invoke",
                          ![q].answer = IF role = NoRole THEN "no_role" ELSE "open"]
      PROVE  AccessInv'
  <2> DEFINE phase == IF role = NoRole THEN "done" ELSE "invoke"
             answer == IF role = NoRole THEN "no_role" ELSE "open"
             pair == <<current[1], role>>
             pairs == Available
  <2>1. PICK c : c = call[q]
    OBVIOUS
  <2>2. /\ c \in CallRecords /\ CallOK(c) /\ call \in [CallIds -> CallRecords \union {NoCall}]
        /\ snapshot \in SessionRecords
    BY <1>1, <2>1, OpenCall DEF SessionRecords
  <2>3. current \in AnyOrg \X AnyRole /\ c.wanted \in AnyRole
    BY <1>1, <1>3, <2>2, AvailableBound DEF CallRecords, AnyRole
  <2>4. role \in AnyRole
    BY <1>3, <2>1, <2>3 DEF ResolveTrusted, AnyRole
  <2>5. /\ pair \in AnyOrg \X AnyRole /\ pairs \in SUBSET (AnyOrg \X AnyRole)
        /\ phase \in {"enter", "invoke", "write", "done"} /\ answer \in Answers
    BY <1>1, <2>3, <2>4, AvailableBound DEF Answers
  <2>6. snapshot' \in SessionRecords
    BY <1>3, <2>2, <2>3 DEF SessionRecords
  <2>7. fallback \in BOOLEAN
    BY <2>2 DEF SessionRecords
  <2>8. call' = [call EXCEPT ![q] = Stamped(c, pairs, pair, fallback, phase, answer)]
    BY <1>3, <2>1, <2>2 DEF Stamped, CallRecords
  <2>9. ~fallback => pairs \subseteq c.seen
    <3>1. ~fallback => account.status = "active"
      BY <1>3 DEF AccessInv, AccessTypeOK
    <3> QED BY <1>1, <2>2, <3>1, AvailableBound DEF CallOK, SeenOK
  <2>10. phase \in {"invoke", "done"} /\ answer \in {"no_role", "open"}
         /\ (phase # "done" => answer = "open")
    OBVIOUS
  <2> HIDE DEF phase, answer, pair, pairs, fallback
  <2>11. PICK d : d = Stamped(c, pairs, pair, fallback, phase, answer)
    OBVIOUS
  <2>12. StampedTo(d, c, pairs, pair, fallback, phase, answer)
    BY <2>2, <2>5, <2>7, <2>11, StampedFields
  <2>13. SeenOK(d)
    BY <2>2, <2>12 DEF CallOK, SeenOK, StampedTo
  <2>14. SourceOK(d)
    BY <2>2, <2>9, <2>12 DEF CallOK, SourceOK, StampedTo
  <2>15. TrustedOK(d)
    BY <1>1, <2>1, <2>2, <2>12 DEF CallOK, TrustedOK, TrustRequired, StampedTo
  <2>16. RightOK(d) /\ RecordOK(d)
    BY <2>10, <2>12 DEF RightOK, RecordOK, StampedTo
  <2>17. CallOK(d) /\ d \in CallRecords
    BY <2>12, <2>13, <2>14, <2>15, <2>16 DEF CallOK, StampedTo
  <2> QED BY <1>1, <2>6, <2>8, <2>11, <2>17, CallMoves1 DEF SessionRecords
<1> QED BY <1>2, <1>3 DEF StampTrusted

LEMMA StampIdentityOK ==
    ASSUME AccessInv, NEW q \in CallIds, StampIdentity(q)
    PROVE  AccessInv'
<1>1. PICK c : c = call[q]
  OBVIOUS
<1> DEFINE role == IF Manifest[c.skill].side_effects THEN c.wanted
                   ELSE ResolveFromIdentity(c.wanted, c.allowed, FALSE)
           org == IF c.path = "dev" THEN DevOrg ELSE TokenOrg
           pair == <<org, role>>
<1>2. /\ c # NoCall /\ c.phase = "enter" /\ c.path \in {"dev", "bearer"} /\ c.surface = "api"
      /\ UNCHANGED <<deploy, account, snapshot>>
  BY <1>1 DEF StampIdentity
<1>3. /\ c \in CallRecords /\ CallOK(c) /\ call \in [CallIds -> CallRecords \union {NoCall}]
  BY <1>1, <1>2, OpenCall
<1>4. CASE c.allowed = {}
  <2>1. "no_role" \in Answers \ {"open", "served", "policy_denied", "trust_denied"}
    BY DEF Answers
  <2>2. Answer(q, "no_role")
    BY <1>1, <1>4 DEF StampIdentity
  <2> QED BY <1>1, <1>2, <2>1, <2>2, PlainRefusal
<1>5. CASE c.allowed # {}
  <2>1. call' = [call EXCEPT ![q].phase = "invoke", ![q].pair = pair]
    BY <1>1, <1>5 DEF StampIdentity
  <2>2. c.wanted \in AnyRole /\ c.allowed \subseteq AnyRole
    BY <1>3 DEF CallRecords, AnyRole
  <2>3. FirstRole(c.allowed) \in c.allowed
    BY <1>5, FirstRoleIn
  <2>4. ResolveFromIdentity(c.wanted, c.allowed, FALSE) \in AnyRole
    BY <2>2, <2>3 DEF ResolveFromIdentity, AnyRole
  <2>5. pair \in AnyOrg \X AnyRole
    BY <2>2, <2>4 DEF AnyOrg
  <2>6. /\ c.answer = "open" /\ c.answer \in Answers /\ c.fallback \in BOOLEAN
        /\ c.pairs \in SUBSET (AnyOrg \X AnyRole)
    BY <1>2, <1>3 DEF CallOK, RightOK, CallRecords
  <2> HIDE DEF pair
  <2>7. call' = [call EXCEPT ![q] = Stamped(c, c.pairs, pair, c.fallback, "invoke", c.answer)]
    BY <1>1, <1>3, <2>1 DEF Stamped, CallRecords
  <2>8. PICK d : d = Stamped(c, c.pairs, pair, c.fallback, "invoke", c.answer)
    OBVIOUS
  <2>9. StampedTo(d, c, c.pairs, pair, c.fallback, "invoke", c.answer)
    BY <1>3, <2>5, <2>6, <2>8, StampedFields
  <2>10. SeenOK(d) /\ SourceOK(d)
    BY <1>3, <2>9 DEF CallOK, SeenOK, SourceOK, StampedTo
  <2>11. TrustedOK(d)
    BY <1>2, <2>9 DEF TrustedOK, TrustRequired, StampedTo
  <2>12. RightOK(d) /\ RecordOK(d)
    BY <2>6, <2>9 DEF RightOK, RecordOK, StampedTo
  <2>13. CallOK(d) /\ d \in CallRecords
    BY <2>9, <2>10, <2>11, <2>12 DEF CallOK, StampedTo
  <2> QED BY <1>1, <1>2, <2>7, <2>8, <2>13, CallMoves1 DEF AccessInv, AccessTypeOK
<1> QED BY <1>4, <1>5

\* The two records that a refused call leaves in one step with its event.
LEMMA CutMoves ==
    ASSUME AccessInv, NEW q \in CallIds, call[q] # NoCall, NEW answer
    PROVE  /\ [call EXCEPT ![q].phase = "done", ![q].answer = answer, ![q].recorded = TRUE]
              = [call EXCEPT ![q] = Moved(call[q], "done", answer, TRUE, call[q].lost)]
           /\ [call EXCEPT ![q].phase = "done", ![q].answer = answer, ![q].lost = TRUE]
              = [call EXCEPT ![q] = Moved(call[q], "done", answer, call[q].recorded, TRUE)]
<1>1. call[q] \in CallRecords /\ call \in [CallIds -> CallRecords \union {NoCall}]
  BY OpenCall
<1> QED BY ZenonT(60), <1>1 DEF Moved, CallRecords

LEMMA CutOK ==
    ASSUME AccessInv, NEW q \in CallIds, call[q] # NoCall, call[q].phase # "done",
           CutUntrusted(q), UNCHANGED <<deploy, account, snapshot>>
    PROVE  AccessInv'
<1>1. call[q].recorded \in BOOLEAN /\ call[q].lost \in BOOLEAN
  BY OpenCall DEF CallRecords
<1>2. CASE call' = [call EXCEPT ![q].phase = "done", ![q].answer = "trust_denied",
                                ![q].recorded = TRUE]
  <2>1. "trust_denied" \in Answers \ {"open", "served"} /\ "trust_denied" # "policy_denied"
    BY DEF Answers
  <2>2. call' = [call EXCEPT ![q] = Moved(call[q], "done", "trust_denied", TRUE, call[q].lost)]
    BY <1>2, CutMoves
  <2> QED BY <1>1, <2>1, <2>2, RefusalOK
<1>3. CASE Answer(q, "error")
  <2>1. "error" \in Answers \ {"open", "served", "policy_denied", "trust_denied"}
    BY DEF Answers
  <2> QED BY <1>3, <2>1, PlainRefusal
<1> QED BY <1>2, <1>3 DEF CutUntrusted

LEMMA EnterOK ==
    ASSUME AccessInv, NEW q \in CallIds,
           EnterMcp(q) \/ EnterA2a(q) \/ EnterOnce(q) \/ EnterCli(q)
    PROVE  AccessInv'
<1>1. /\ call[q] # NoCall /\ call[q].phase = "enter" /\ call[q].phase # "done"
      /\ UNCHANGED <<deploy, account, snapshot>>
  BY DEF EnterMcp, EnterA2a, EnterOnce, EnterCli, Entering
<1>2. "quota_exceeded" \in Answers \ {"open", "served", "policy_denied", "trust_denied"}
  BY DEF Answers
<1>3. CASE EnterMcp(q)
  <2>1. CASE CutUntrusted(q)
    BY <1>1, <2>1, CutOK
  <2>2. CASE ~Untrusted(call[q].skill) /\ AdmitOrThrottle(q)
    <3>1. Goto(q, "invoke") \/ Answer(q, "quota_exceeded")
      BY <2>2 DEF AdmitOrThrottle
    <3> QED BY <1>1, <1>2, <2>2, <3>1, GoOnOK, PlainRefusal
  <2> QED BY <1>3, <2>1, <2>2 DEF EnterMcp
<1>4. CASE EnterA2a(q)
  <2>1. CASE CutUntrusted(q)
    BY <1>1, <2>1, CutOK
  <2>2. CASE ~Untrusted(call[q].skill) /\ Goto(q, "invoke")
    BY <1>1, <2>2, GoOnOK
  <2> QED BY <1>4, <2>1, <2>2 DEF EnterA2a
<1>5. CASE EnterCli(q)
  <2>1. Goto(q, "invoke") /\ ~TrustRequired(call[q])
    BY <1>5 DEF EnterCli, Entering, TrustRequired
  <2> QED BY <1>1, <2>1, GoOnOK
<1>6. CASE EnterOnce(q)
  <2>1. CASE CutUntrusted(q)
    BY <1>1, <2>1, CutOK
  <2>2. CASE ~(TrustRequired(call[q]) /\ Untrusted(call[q].skill)) /\ Goto(q, "invoke")
    BY <1>1, <2>2, GoOnOK
  <2> QED BY <1>6, <2>1, <2>2 DEF EnterOnce
<1> QED BY <1>3, <1>4, <1>5, <1>6

\* _resolve_role finds a pair of the session, or a role of the identity.
LEMMA ResolvedIsHeld ==
    ASSUME NEW c \in CallRecords, ResolvedRole(c) # NoRole
    PROVE  /\ ResolvedRole(c) \in AnyRole
           /\ IF c.path = "cookie" THEN <<c.pair[1], ResolvedRole(c)>> \in c.pairs
              ELSE ResolvedRole(c) \in c.allowed
<1>1. /\ c.pair \in AnyOrg \X AnyRole /\ c.allowed \subseteq AnyRole
      /\ c.pair = <<c.pair[1], c.pair[2]>>
  BY DEF CallRecords
<1>2. CASE c.path = "cookie"
  <2>1. /\ ResolvedRole(c) = c.pair[2]
        /\ <<IF c.pair[1] = NoOrg THEN c.pair[1] ELSE c.pair[1], c.pair[2]>> \in c.pairs
    BY <1>2 DEF ResolvedRole, ResolveTrusted
  <2> QED BY <1>1, <1>2, <2>1
<1>3. CASE c.path # "cookie"
  <2>1. \/ ResolvedRole(c) = c.pair[2] /\ c.pair[2] \in c.allowed
        \/ c.allowed # {} /\ ResolvedRole(c) = FirstRole(c.allowed)
    BY <1>3 DEF ResolvedRole, ResolveFromIdentity
  <2> QED BY <1>1, <1>3, <2>1, FirstRoleIn
<1> QED BY <1>2, <1>3

LEMMA DenyOK ==
    ASSUME AccessInv, NEW q \in CallIds, call[q] # NoCall, call[q].phase # "done", Deny(q),
           UNCHANGED <<deploy, account, snapshot>>
    PROVE  AccessInv'
<1>1. /\ call[q].recorded \in BOOLEAN /\ call[q].lost \in BOOLEAN /\ TRUE \in BOOLEAN
      /\ "policy_denied" \in Answers \ {"open", "served"} /\ "policy_denied" # "trust_denied"
  BY OpenCall DEF CallRecords, Answers
<1>2. CASE call' = [call EXCEPT ![q].phase = "done", ![q].answer = "policy_denied",
                                ![q].recorded = TRUE]
  <2>1. call' = [call EXCEPT ![q] = Moved(call[q], "done", "policy_denied", TRUE, call[q].lost)]
    BY <1>2, CutMoves
  <2> QED BY <1>1, <2>1, RefusalOK
<1>3. CASE call' = [call EXCEPT ![q].phase = "done", ![q].answer = "policy_denied",
                                ![q].lost = TRUE]
  <2>1. call' = [call EXCEPT ![q] = Moved(call[q], "done", "policy_denied", call[q].recorded, TRUE)]
    BY <1>3, CutMoves
  <2> QED BY <1>1, <2>1, RefusalOK
<1> QED BY <1>2, <1>3 DEF Deny

LEMMA InvokeOK ==
    ASSUME AccessInv, NEW q \in CallIds, invoke_skill(q)
    PROVE  AccessInv'
<1>1. PICK c, role : c = call[q] /\ role = ResolvedRole(c)
  OBVIOUS
<1>2. c # NoCall /\ c.phase = "invoke" /\ UNCHANGED <<deploy, account, snapshot>>
  BY <1>1 DEF invoke_skill
<1>3. c \in CallRecords /\ CallOK(c) /\ call \in [CallIds -> CallRecords \union {NoCall}]
  BY <1>1, <1>2, OpenCall
<1>4. CASE Answer(q, "role_forbidden")
  <2>1. "role_forbidden" \in Answers \ {"open", "served", "policy_denied", "trust_denied"}
    BY DEF Answers
  <2> QED BY <1>1, <1>2, <1>4, <2>1, PlainRefusal
<1>5. CASE Deny(q)
  BY <1>1, <1>2, <1>5, DenyOK
<1> DEFINE writes == Manifest[c.skill].side_effects
           phase == IF writes THEN "write" ELSE "done"
           answer == IF writes THEN "open" ELSE "served"
           pair == <<c.pair[1], role>>
<1>6. CASE /\ role # NoRole /\ PolicyAllows(c.skill, role)
           /\ call' = [call EXCEPT ![q].pair = pair, ![q].phase = phase, ![q].answer = answer]
  <2>1. role \in AnyRole /\ IF c.path = "cookie" THEN pair \in c.pairs ELSE role \in c.allowed
    BY <1>1, <1>3, <1>6, ResolvedIsHeld
  <2>2. pair \in AnyOrg \X AnyRole /\ pair[2] = role
    BY <1>3, <2>1 DEF CallRecords
  <2>3. /\ phase \in {"enter", "invoke", "write", "done"} /\ answer \in Answers
        /\ c.fallback \in BOOLEAN /\ c.pairs \in SUBSET (AnyOrg \X AnyRole)
    BY <1>3 DEF Answers, CallRecords
  <2>4. /\ phase # "done" => answer = "open"
        /\ answer \in {"open", "served"} /\ phase \in {"write", "done"}
        /\ answer = "served" => ~writes
    OBVIOUS
  <2>5. call' = [call EXCEPT ![q] = Stamped(c, c.pairs, pair, c.fallback, phase, answer)]
    <3> HIDE DEF phase, answer, pair
    <3> QED BY <1>1, <1>3, <1>6 DEF Stamped, CallRecords
  <2>6. PolicyAllows(c.skill, role)
    BY <1>6
  <2> HIDE DEF phase, answer, pair
  <2>7. PICK d : d = Stamped(c, c.pairs, pair, c.fallback, phase, answer)
    OBVIOUS
  <2>8. StampedTo(d, c, c.pairs, pair, c.fallback, phase, answer)
    BY <1>3, <2>2, <2>3, <2>7, StampedFields
  <2>9. SeenOK(d) /\ SourceOK(d)
    BY <1>3, <2>8 DEF CallOK, SeenOK, SourceOK, StampedTo
  <2>10. TrustedOK(d)
    BY <1>2, <1>3, <2>8 DEF CallOK, TrustedOK, TrustRequired, StampedTo
  <2>11. RightOK(d)
    BY <2>1, <2>2, <2>4, <2>6, <2>8 DEF RightOK, StampedTo
  <2>12. RecordOK(d)
    BY <2>4, <2>8 DEF RecordOK, StampedTo
  <2>13. CallOK(d) /\ d \in CallRecords
    BY <2>8, <2>9, <2>10, <2>11, <2>12 DEF CallOK, StampedTo
  <2> QED BY <1>1, <1>2, <2>5, <2>7, <2>13, CallMoves1 DEF AccessInv, AccessTypeOK
<1> QED BY <1>1, <1>4, <1>5, <1>6 DEF invoke_skill

LEMMA WriteOK ==
    ASSUME AccessInv, NEW q \in CallIds, Write(q)
    PROVE  AccessInv'
<1>1. PICK c : c = call[q]
  OBVIOUS
<1>2. c # NoCall /\ c.phase = "write" /\ UNCHANGED <<deploy, account, snapshot>>
  BY <1>1 DEF Write
<1>3. CASE NeedsConfirmation(c)
  <2>1. "unconfirmed" \in Answers \ {"open", "served", "policy_denied", "trust_denied"}
    BY DEF Answers
  <2>2. Answer(q, "unconfirmed")
    BY <1>1, <1>3 DEF Write
  <2> QED BY <1>1, <1>2, <2>1, <2>2, PlainRefusal
<1>4. CASE ~NeedsConfirmation(c)
  <2>1. Answer(q, "served")
    BY <1>1, <1>4 DEF Write
  <2>2. call' = [call EXCEPT ![q] = Moved(c, "done", "served", c.recorded, c.lost)]
    BY <1>1, <1>2, <2>1, AnswerMoves
  <2>3. c \in CallRecords /\ CallOK(c)
    BY <1>1, <1>2, OpenCall
  <2>4. PICK d : d = Moved(c, "done", "served", c.recorded, c.lost)
    OBVIOUS
  <2>5. MovedTo(d, c, "done", "served", c.recorded, c.lost)
    <3>1. "served" \in Answers /\ c.recorded \in BOOLEAN /\ c.lost \in BOOLEAN
      BY <2>3 DEF Answers, CallRecords
    <3> QED BY <2>3, <2>4, <3>1, MovedFields
  <2>6. SeenOK(d) /\ SourceOK(d)
    BY <2>3, <2>5 DEF CallOK, SeenOK, SourceOK, MovedTo
  <2>7. TrustedOK(d) /\ RecordOK(d)
    BY <1>2, <2>3, <2>5 DEF CallOK, TrustedOK, TrustRequired, RecordOK, MovedTo
  <2>8. RightOK(d)
    BY <1>2, <1>4, <2>3, <2>5 DEF CallOK, RightOK, NeedsConfirmation, MovedTo
  <2>9. CallOK(d) /\ d \in CallRecords
    BY <2>5, <2>6, <2>7, <2>8 DEF CallOK, MovedTo
  <2> QED BY <1>1, <1>2, <2>2, <2>4, <2>9, CallMoves1 DEF AccessInv, AccessTypeOK
<1> QED BY <1>3, <1>4

LEMMA EndCallOK ==
    ASSUME AccessInv, NEW q \in CallIds, EndCall(q)
    PROVE  AccessInv'
<1>1. call' = [call EXCEPT ![q] = NoCall] /\ UNCHANGED <<deploy, account, snapshot>>
  BY DEF EndCall
<1>2. call \in [CallIds -> CallRecords \union {NoCall}]
  BY DEF AccessInv, AccessTypeOK
<1>3. AccessTypeOK'
  BY <1>1, <1>2 DEF AccessInv, AccessTypeOK
<1>4. ASSUME NEW p \in CallIds, call'[p] # NoCall PROVE CallOK(call[p])'
  <2>1. call'[p] = call[p] /\ call[p] # NoCall
    BY <1>1, <1>2, <1>4
  <2>2. CallOK(call[p])
    BY <2>1 DEF AccessInv
  <2> QED BY <1>1, <2>1, <2>2
          DEF CallOK, SeenOK, SourceOK, TrustedOK, RightOK, RecordOK, Untrusted, TrustAllowsWrite,
              NeedsConfirmation
<1> QED BY <1>3, <1>4 DEF AccessInv

LEMMA AccessStep ==
    ASSUME AccessInv, [AccessNext]_accessVars
    PROVE  AccessInv'
<1>1. account.status \in {"active", "disabled"} /\ account.contexts \subseteq Pairs
  BY DEF AccessInv, AccessTypeOK
<1>2. CASE DevBypassLogin \/ Login
  BY <1>2, DevLoginOK, LoginOK
<1>3. ASSUME NEW status \in {"active", "disabled"}, SetStatus(status) PROVE AccessInv'
  BY <1>1, <1>3, ChangeOK DEF SetStatus
<1>4. ASSUME NEW p \in Pairs, AssignRole(p) \/ RevokeRole(p) PROVE AccessInv'
  <2>1. account.contexts \union {p} \in SUBSET Pairs /\ account.contexts \ {p} \in SUBSET Pairs
    BY <1>1
  <2> QED BY <1>1, <1>4, <2>1, ChangeOK DEF AssignRole, RevokeRole
<1>5. ASSUME NEW q \in CallIds, NEW skill \in Skills, NEW wanted \in ActorRoles \union {NoRole},
             NEW confirmed \in BOOLEAN, NEW path \in {"cookie", "dev", "bearer"},
             NEW org \in Orgs \union {NoOrg}, ArriveRest(q, path, skill, wanted, org, confirmed)
      PROVE  AccessInv'
  BY <1>5, ArriveRestOK
<1>6. ASSUME NEW q \in CallIds, NEW skill \in Skills, NEW wanted \in ActorRoles \union {NoRole},
             NEW confirmed \in BOOLEAN,
             \/ ArriveMcp(q, skill, wanted, confirmed) \/ ArriveA2a(q, skill, wanted, confirmed)
             \/ ArriveCli(q, skill, wanted, confirmed)
             \/ \E surface \in {"mcp", "a2a"} : ArriveOnce(q, surface, skill, wanted, confirmed)
      PROVE  AccessInv'
  <2>1. \E surface \in {"mcp", "a2a", "cli"}, once \in BOOLEAN :
            ArriveTool(q, surface, once, skill, wanted, confirmed)
    BY <1>6 DEF ArriveMcp, ArriveA2a, ArriveCli, ArriveOnce
  <2> QED BY <2>1, ArriveToolOK
<1>7. ASSUME NEW q \in CallIds,
             \/ RefuseUnexposed(q) \/ StampTrusted(q) \/ StampIdentity(q)
             \/ EnterMcp(q) \/ EnterA2a(q) \/ EnterOnce(q) \/ EnterCli(q)
             \/ invoke_skill(q) \/ Write(q) \/ EndCall(q)
      PROVE  AccessInv'
  BY <1>7, RefuseUnexposedOK, StampTrustedOK, StampIdentityOK, EnterOK, InvokeOK, WriteOK, EndCallOK
<1>8. CASE AccessTick \/ UNCHANGED accessVars
  <2>1. UNCHANGED <<deploy, account, snapshot, call>>
    BY <1>8 DEF AccessTick, accessVars
  <2> QED BY <2>1, CallsStay DEF AccessInv, AccessTypeOK, SessionRecords
<1> QED BY <1>2, <1>3, <1>4, <1>5, <1>6, <1>7, <1>8 DEF AccessNext

\* The invariant holds of every state of the surfaces.
THEOREM AccessInvariance == AccessSpec => []AccessInv
<1>1. AccessInit => AccessInv
  <2> SUFFICES ASSUME AccessInit PROVE AccessInv
    OBVIOUS
  <2>1. AccessTypeOK
    BY AccessAssumption DEF AccessInit, AccessTypeOK
  <2>2. \A q \in CallIds : call[q] = NoCall
    BY DEF AccessInit
  <2> QED BY <2>1, <2>2 DEF AccessInv
<1>2. AccessInv /\ [AccessNext]_accessVars => AccessInv'
  BY AccessStep
<1> QED BY <1>1, <1>2, PTL DEF AccessSpec

\* What the invariant says of a served call.
LEMMA ServedCall ==
    ASSUME NEW c \in CallRecords, CallOK(c), c.answer = "served"
    PROVE  /\ PolicyAllows(c.skill, c.pair[2])
           /\ c.pair[2] \in CASE c.path = "dev" -> DevRoles
                              [] c.path = "bearer" -> RolesOf(c.seen)
                              [] OTHER -> RolesOf(c.seen) \union RolesOf(c.pairs)
           /\ Manifest[c.skill].side_effects /\ Manifest[c.skill].human_confirmation_required
                  => c.confirmed
           /\ TrustRequired(c) /\ ResponsibilityBearing(c.skill) => TrustAllowsWrite
<1>1. c.path \in {"cookie", "dev", "bearer"}
  BY DEF CallRecords
<1>2. PolicyAllows(c.skill, c.pair[2])
  BY DEF CallOK, RightOK
<1>3. c.path = "dev" => c.pair[2] \in DevRoles
  BY DEF CallOK, RightOK, SourceOK
<1>4. c.path = "bearer" => c.pair[2] \in RolesOf(c.seen)
  BY DEF CallOK, RightOK, SourceOK
<1>5. c.path = "cookie" => c.pair[2] \in RolesOf(c.pairs)
  BY DEF CallOK, RightOK, RolesOf
<1>6. Manifest[c.skill].side_effects /\ Manifest[c.skill].human_confirmation_required => c.confirmed
  BY DEF CallOK, RightOK, NeedsConfirmation
<1>7. TrustRequired(c) /\ ResponsibilityBearing(c.skill) => TrustAllowsWrite
  BY DEF CallOK, TrustedOK, TrustRequired, Untrusted
<1>8. c.pair[2] \in CASE c.path = "dev" -> DevRoles
                      [] c.path = "bearer" -> RolesOf(c.seen)
                      [] OTHER -> RolesOf(c.seen) \union RolesOf(c.pairs)
  BY <1>1, <1>3, <1>4, <1>5
<1> QED BY <1>2, <1>6, <1>7, <1>8

\* A skill is served only under a role the caller held during the call and the policy lets
\* run it, a write confirmed and trusted; a browser call acts where it was assigned; and a
\* refusal is on record (invoke_skill and the stations before it), whatever an administrator
\* changes between two stations.
THEOREM ServedCallsAreRightful == AccessSpec => [](ServedByRight /\ ActsWhereAssigned /\ RefusalsOnRecord)
<1>1. AccessInv => ServedByRight
  <2> SUFFICES ASSUME AccessInv, NEW q \in CallIds, call[q] # NoCall, call[q].answer = "served",
                      NEW c, c = call[q]
               PROVE  /\ PolicyAllows(c.skill, c.pair[2])
                      /\ c.pair[2] \in CASE c.path = "dev" -> DevRoles
                                         [] c.path = "bearer" -> RolesOf(c.seen)
                                         [] OTHER -> RolesOf(c.seen) \union RolesOf(c.pairs)
                      /\ Manifest[c.skill].side_effects
                         /\ Manifest[c.skill].human_confirmation_required => c.confirmed
                      /\ TrustRequired(c) /\ ResponsibilityBearing(c.skill)
                             => TrustAllowsWrite
    BY Zenon DEF ServedByRight
  <2>1. c \in CallRecords /\ CallOK(c) /\ c.answer = "served"
    BY OpenCall
  <2> QED BY <2>1, ServedCall
<1>2. AccessInv => ActsWhereAssigned
  <2> SUFFICES ASSUME AccessInv, NEW q \in CallIds, call[q] # NoCall, NEW c, c = call[q],
                      c.answer = "served", c.path = "cookie", ~c.fallback
               PROVE  c.pair \in c.seen
    BY DEF ActsWhereAssigned
  <2>1. CallOK(c)
    BY OpenCall
  <2> QED BY <2>1 DEF CallOK, RightOK, SourceOK
<1>3. AccessInv => RefusalsOnRecord
  BY DEF AccessInv, CallOK, RecordOK, RefusalsOnRecord
<1> QED BY <1>1, <1>2, <1>3, AccessInvariance, PTL

-----------------------------------------------------------------------------
(* The quota of the MCP daemon                                             *)

\* A nonempty set of naturals has a least element.
NatLess == {p \in Nat \X Nat : p[1] < p[2]}

LEMMA LeastNatural ==
    ASSUME NEW T \in SUBSET Nat, T # {}
    PROVE  \E x \in T : \A y \in T : x <= y
<1>1. NatLess = OpToRel(<, Nat)
  BY Zenon DEF NatLess, OpToRel
<1>2. IsWellFoundedOn(NatLess, Nat)
  BY <1>1, NatLessThanWellFounded, Zenon
<1>3. PICK x \in T : \A y \in T : ~(<<y, x>> \in NatLess)
  BY <1>2, WFMin
<1>4. ASSUME NEW y \in T PROVE x <= y
  <2>1. x \in Nat /\ y \in Nat /\ <<y, x>> \in Nat \X Nat
    OBVIOUS
  <2>2. ~(y < x)
    BY <1>3, <2>1 DEF NatLess
  <2> QED BY <2>1, <2>2
<1> QED BY <1>4

\* A set of indices that is closed downwards is an initial segment.
LEMMA InitialSegment ==
    ASSUME NEW n \in Nat, NEW S \in SUBSET (1 .. n),
           \A i, j \in 1 .. n : i <= j /\ j \in S => i \in S
    PROVE  S = 1 .. Cardinality(S) /\ Cardinality(S) \in 0 .. n
<1> DEFINE out == {i \in Nat : i >= 1 /\ i \notin S}
<1>1. n + 1 \in out
  OBVIOUS
<1>2. PICK m \in out : \A i \in out : m <= i
  BY <1>1, LeastNatural
<1>3. m \in Nat /\ m >= 1 /\ m \notin S /\ m <= n + 1
  BY <1>1, <1>2
<1>4. S = 1 .. m - 1
  <2>1. ASSUME NEW i \in S PROVE i \in 1 .. m - 1
    <3>1. i \in 1 .. n
      OBVIOUS
    <3>2. CASE m <= n
      BY <1>3, <3>1, <3>2
    <3>3. CASE m = n + 1
      BY <3>1, <3>3
    <3> QED BY <1>3, <3>2, <3>3
  <2>2. ASSUME NEW i \in 1 .. m - 1 PROVE i \in S
    BY <1>2, <1>3, <2>2
  <2> QED BY <2>1, <2>2
<1>5. Cardinality(1 .. m - 1) = m - 1
  BY <1>3, FS_Interval
<1> QED BY <1>3, <1>4, <1>5

Ascending(times) ==
    \A i, j \in DOMAIN times : i <= j => times[i] <= times[j]

\* The window is the end of what was admitted, and all before it has lapsed.
WindowIsEnd(s) ==
    /\ Len(window[s]) <= Len(admitted[s])
    /\ \A i \in 1 .. Len(window[s]) :
          window[s][i] = admitted[s][Len(admitted[s]) - Len(window[s]) + i]
    /\ \A i \in 1 .. Len(admitted[s]) - Len(window[s]) : now - admitted[s][i] >= QUOTA_WINDOW

SpacedOut(s) ==
    deploy.limit > 0 => \A i \in 1 .. Len(admitted[s]) - deploy.limit :
        admitted[s][i + deploy.limit] - admitted[s][i] >= QUOTA_WINDOW

QuotaInv ==
    /\ now \in Nat /\ deploy.limit \in Nat
    /\ window \in [Skills -> Seq(Nat)] /\ admitted \in [Skills -> Seq(Nat)]
    /\ \A s \in Skills :
          /\ Ascending(admitted[s])
          /\ \A i \in DOMAIN admitted[s] : admitted[s][i] <= now
          /\ WindowIsEnd(s) /\ SpacedOut(s)

\* What the filter leaves of a window: its end, and what it drops has lapsed.
LEMMA FilterKeepsEnd ==
    ASSUME QUOTA_WINDOW \in Nat, now \in Nat, NEW times \in Seq(Nat), Ascending(times)
    PROVE  \E k \in 0 .. Len(times) :
              /\ InWindow(times) = SubSeq(times, k + 1, Len(times))
              /\ \A i \in 1 .. k : now - times[i] >= QUOTA_WINDOW
<1> DEFINE lapsed == {i \in DOMAIN times : now - times[i] >= QUOTA_WINDOW}
<1>1. DOMAIN times = 1 .. Len(times) /\ Len(times) \in Nat /\ \A i \in 1 .. Len(times) : times[i] \in Nat
  OBVIOUS
<1>2. lapsed \in SUBSET (1 .. Len(times))
  BY <1>1
<1>3. \A i, j \in 1 .. Len(times) : i <= j /\ j \in lapsed => i \in lapsed
  <2> SUFFICES ASSUME NEW i \in 1 .. Len(times), NEW j \in 1 .. Len(times), i <= j, j \in lapsed
               PROVE  i \in lapsed
    OBVIOUS
  <2>1. times[i] <= times[j] /\ times[i] \in Nat /\ times[j] \in Nat
    BY <1>1 DEF Ascending
  <2>2. now - times[j] >= QUOTA_WINDOW
    OBVIOUS
  <2>3. now - times[i] >= QUOTA_WINDOW
    BY <2>1, <2>2
  <2> QED BY <1>1, <2>3
<1> HIDE DEF lapsed
<1>4. lapsed = 1 .. Cardinality(lapsed) /\ Cardinality(lapsed) \in 0 .. Len(times)
  BY <1>1, <1>2, <1>3, InitialSegment
<1>5. InWindow(times) = SubSeq(times, Cardinality(lapsed) + 1, Len(times))
  BY DEF InWindow, lapsed
<1>6. \A i \in 1 .. Cardinality(lapsed) : now - times[i] >= QUOTA_WINDOW
  BY <1>4 DEF lapsed
<1> QED BY <1>4, <1>5, <1>6

\* What the filter leaves of a tool's window is still the end of what was admitted.
LEMMA FilteredWindow ==
    ASSUME QuotaInv, NEW s \in Skills
    PROVE  /\ InWindow(window[s]) \in Seq(Nat)
           /\ Len(InWindow(window[s])) <= Len(admitted[s])
           /\ \A i \in 1 .. Len(InWindow(window[s])) : InWindow(window[s])[i] =
                 admitted[s][Len(admitted[s]) - Len(InWindow(window[s])) + i]
           /\ \A i \in 1 .. Len(admitted[s]) - Len(InWindow(window[s])) :
                 now - admitted[s][i] >= QUOTA_WINDOW
<1>1. PICK w, a, r : w = window[s] /\ a = admitted[s] /\ r = InWindow(w)
  OBVIOUS
<1>2. /\ w \in Seq(Nat) /\ a \in Seq(Nat) /\ now \in Nat /\ QUOTA_WINDOW \in Nat
      /\ Len(w) \in Nat /\ Len(a) \in Nat
  BY <1>1, AccessAssumption DEF QuotaInv
<1>3. /\ Len(w) <= Len(a) /\ \A i \in 1 .. Len(w) : w[i] = a[Len(a) - Len(w) + i]
      /\ \A i \in 1 .. Len(a) - Len(w) : now - a[i] >= QUOTA_WINDOW
  BY <1>1 DEF QuotaInv, WindowIsEnd
<1>4. Ascending(w)
  <2> SUFFICES ASSUME NEW i \in 1 .. Len(w), NEW j \in 1 .. Len(w), i <= j PROVE w[i] <= w[j]
    <3>1. DOMAIN w = 1 .. Len(w)
      BY <1>2
    <3> QED BY <3>1 DEF Ascending
  <2>1. Len(a) - Len(w) + i \in DOMAIN a /\ Len(a) - Len(w) + j \in DOMAIN a
    BY <1>2, <1>3
  <2>2. Ascending(a)
    BY <1>1 DEF QuotaInv
  <2>3. a[Len(a) - Len(w) + i] <= a[Len(a) - Len(w) + j]
    BY <1>2, <2>1, <2>2 DEF Ascending
  <2> QED BY <1>3, <2>3
<1>5. PICK k \in 0 .. Len(w) :
          r = SubSeq(w, k + 1, Len(w)) /\ \A i \in 1 .. k : now - w[i] >= QUOTA_WINDOW
  BY <1>1, <1>2, <1>4, FilterKeepsEnd
<1>6. r \in Seq(Nat) /\ Len(r) = Len(w) - k /\ \A i \in 1 .. Len(r) : r[i] = w[k + i]
  BY <1>2, <1>5
<1>7. Len(r) <= Len(a) /\ \A i \in 1 .. Len(r) : r[i] = a[Len(a) - Len(r) + i]
  <2>1. Len(r) <= Len(a)
    BY <1>2, <1>3, <1>5, <1>6
  <2>2. ASSUME NEW i \in 1 .. Len(r) PROVE r[i] = a[Len(a) - Len(r) + i]
    <3>1. PICK la, lw, lr : la = Len(a) /\ lw = Len(w) /\ lr = Len(r)
      OBVIOUS
    <3>2. la \in Nat /\ lw \in Nat /\ lr = lw - k /\ k \in 0 .. lw /\ i \in 1 .. lr
      BY <1>2, <1>6, <3>1
    <3>3. k + i \in 1 .. lw /\ la - lw + (k + i) = la - lr + i
      BY <3>2
    <3> QED BY <1>3, <1>6, <3>1, <3>3
  <2> QED BY <2>1, <2>2
<1>8. \A i \in 1 .. Len(a) - Len(r) : now - a[i] >= QUOTA_WINDOW
  <2> SUFFICES ASSUME NEW i \in 1 .. Len(a) - Len(r) PROVE now - a[i] >= QUOTA_WINDOW
    OBVIOUS
  <2>1. CASE i \in 1 .. Len(a) - Len(w)
    BY <1>3, <2>1
  <2>2. CASE i \notin 1 .. Len(a) - Len(w)
    <3>1. PICK j : j = i - (Len(a) - Len(w))
      OBVIOUS
    <3>2. PICK la, lw, lr : la = Len(a) /\ lw = Len(w) /\ lr = Len(r)
      OBVIOUS
    <3>3. /\ la \in Nat /\ lw \in Nat /\ lw <= la /\ lr = lw - k /\ k \in 0 .. lw
          /\ i \in 1 .. la - lr /\ i \notin 1 .. la - lw /\ j = i - (la - lw)
      BY <1>2, <1>3, <1>6, <2>2, <3>1, <3>2
    <3>4. j \in 1 .. k /\ j \in 1 .. lw /\ la - lw + j = i
      BY <3>3
    <3> QED BY <1>3, <1>5, <3>2, <3>4
  <2> QED BY <2>1, <2>2
<1> QED BY <1>1, <1>6, <1>7, <1>8

\* A step that leaves the windows alone, time passing or not.
LEMMA WindowsStay ==
    ASSUME QuotaInv, UNCHANGED <<deploy, window, admitted>>, now' = now \/ now' = now + 1
    PROVE  QuotaInv'
<1>1. now' \in Nat /\ now' >= now /\ now \in Nat
  BY DEF QuotaInv
<1>2. \A s \in Skills : admitted[s] \in Seq(Nat) /\ window[s] \in Seq(Nat)
  BY DEF QuotaInv
<1>3. ASSUME NEW s \in Skills
      PROVE  /\ Ascending(admitted[s])' /\ \A i \in DOMAIN admitted'[s] : admitted'[s][i] <= now'
             /\ WindowIsEnd(s)' /\ SpacedOut(s)'
  <2>1. Ascending(admitted[s])' /\ SpacedOut(s)'
    BY DEF QuotaInv, Ascending, SpacedOut
  <2>2. \A i \in DOMAIN admitted[s] : admitted[s][i] \in Nat /\ admitted[s][i] <= now
    BY <1>2 DEF QuotaInv
  <2>3. \A i \in DOMAIN admitted'[s] : admitted'[s][i] <= now'
    BY <1>1, <2>2
  <2>4. \A i \in 1 .. Len(admitted[s]) - Len(window[s]) : now' - admitted[s][i] >= QUOTA_WINDOW
    <3> SUFFICES ASSUME NEW i \in 1 .. Len(admitted[s]) - Len(window[s])
                 PROVE  now' - admitted[s][i] >= QUOTA_WINDOW
      OBVIOUS
    <3>1. i \in DOMAIN admitted[s] /\ QUOTA_WINDOW \in Nat
      BY <1>2, AccessAssumption
    <3>2. now - admitted[s][i] >= QUOTA_WINDOW
      BY DEF QuotaInv, WindowIsEnd
    <3> QED BY <1>1, <2>2, <3>1, <3>2
  <2>5. WindowIsEnd(s)'
    BY <2>4 DEF QuotaInv, WindowIsEnd
  <2> QED BY <2>1, <2>3, <2>5
<1> QED BY <1>1, <1>3 DEF QuotaInv

\* The window of one tool is filtered, and filled or not.
LEMMA Admitted ==
    ASSUME QuotaInv, NEW s \in Skills, deploy.limit > 0, Len(InWindow(window[s])) < deploy.limit,
           window' = [window EXCEPT ![s] = Append(InWindow(window[s]), now)],
           admitted' = [admitted EXCEPT ![s] = Append(@, now)], UNCHANGED <<deploy, now>>
    PROVE  QuotaInv'
<1>1. PICK a, b, r, lim : /\ a = admitted[s] /\ b = Append(a, now) /\ r = InWindow(window[s])
                          /\ lim = deploy.limit
  OBVIOUS
<1>2. /\ r \in Seq(Nat) /\ Len(r) <= Len(a)
      /\ \A i \in 1 .. Len(r) : r[i] = a[Len(a) - Len(r) + i]
      /\ \A i \in 1 .. Len(a) - Len(r) : now - a[i] >= QUOTA_WINDOW
  BY <1>1, FilteredWindow
<1>3. /\ a \in Seq(Nat) /\ now \in Nat /\ lim \in Nat /\ lim > 0 /\ Len(r) < lim
      /\ window \in [Skills -> Seq(Nat)] /\ admitted \in [Skills -> Seq(Nat)]
      /\ QUOTA_WINDOW \in Nat
  BY <1>1, AccessAssumption DEF QuotaInv
<1>4. /\ Ascending(a) /\ \A i \in 1 .. Len(a) : a[i] \in Nat /\ a[i] <= now
      /\ \A i \in 1 .. Len(a) - lim : a[i + lim] - a[i] >= QUOTA_WINDOW
  <2>1. Ascending(a) /\ SpacedOut(s) /\ \A i \in DOMAIN a : a[i] <= now
    BY <1>1 DEF QuotaInv
  <2>2. DOMAIN a = 1 .. Len(a) /\ \A i \in DOMAIN a : a[i] \in Nat
    BY <1>3
  <2>3. \A i \in 1 .. Len(a) - lim : a[i + lim] - a[i] >= QUOTA_WINDOW
    BY <1>1, <1>3, <2>1 DEF SpacedOut
  <2> QED BY <2>1, <2>2, <2>3
<1>5. /\ b \in Seq(Nat) /\ Len(b) = Len(a) + 1 /\ Len(a) \in Nat /\ b[Len(a) + 1] = now
      /\ \A i \in 1 .. Len(a) : b[i] = a[i]
  BY <1>1, <1>3
<1> DEFINE v == Append(r, now)
<1>6. /\ v \in Seq(Nat) /\ Len(v) = Len(r) + 1 /\ Len(r) \in Nat /\ v[Len(r) + 1] = now
      /\ \A i \in 1 .. Len(r) : v[i] = r[i]
  BY <1>2, <1>3
<1> HIDE DEF v
<1>7. /\ window' = [window EXCEPT ![s] = v] /\ admitted' = [admitted EXCEPT ![s] = b]
      /\ window'[s] = v /\ admitted'[s] = b
      /\ window' \in [Skills -> Seq(Nat)] /\ admitted' \in [Skills -> Seq(Nat)]
  BY <1>1, <1>3, <1>5, <1>6 DEF v
<1>8. ASSUME NEW i \in 1 .. Len(a) + 1 PROVE b[i] <= now /\ b[i] \in Nat
  <2>1. CASE i \in 1 .. Len(a)
    BY <1>4, <1>5, <2>1
  <2>2. CASE i = Len(a) + 1
    BY <1>3, <1>5, <2>2
  <2> QED BY <1>5, <2>1, <2>2
<1>9. Ascending(b)
  <2> SUFFICES ASSUME NEW i \in 1 .. Len(a) + 1, NEW j \in 1 .. Len(a) + 1, i <= j
               PROVE  b[i] <= b[j]
    <3>1. DOMAIN b = 1 .. Len(a) + 1
      BY <1>5
    <3> QED BY <3>1 DEF Ascending
  <2>1. CASE j = Len(a) + 1
    BY <1>5, <1>8, <2>1
  <2>2. CASE j # Len(a) + 1
    <3>1. i \in 1 .. Len(a) /\ j \in 1 .. Len(a) /\ DOMAIN a = 1 .. Len(a)
      <4>1. Len(a) \in Nat
        BY <1>5
      <4>2. i \in 1 .. Len(a) /\ j \in 1 .. Len(a)
        BY ONLY <4>1, <2>2, i \in 1 .. Len(a) + 1, j \in 1 .. Len(a) + 1, i <= j
      <4>3. DOMAIN a = 1 .. Len(a)
        BY ONLY <1>3
      <4> QED BY <4>2, <4>3
    <3>2. a[i] <= a[j]
      BY <1>4, <3>1 DEF Ascending
    <3> QED BY <1>5, <3>1, <3>2
  <2> QED BY <2>1, <2>2
<1>10. Len(v) <= Len(b) /\ \A i \in 1 .. Len(v) : v[i] = b[Len(b) - Len(v) + i]
  <2>1. Len(v) <= Len(b) /\ Len(b) - Len(v) = Len(a) - Len(r)
    BY <1>2, <1>5, <1>6
  <2>2. ASSUME NEW i \in 1 .. Len(v) PROVE v[i] = b[Len(b) - Len(v) + i]
    <3>1. CASE i = Len(r) + 1
      BY <1>5, <1>6, <2>1, <3>1
    <3>2. CASE i # Len(r) + 1
      <4>1. i \in 1 .. Len(r) /\ Len(a) - Len(r) + i \in 1 .. Len(a)
        BY SMTT(30), <1>2, <1>5, <1>6, <3>2
      <4>2. Len(b) - Len(v) + i = Len(a) - Len(r) + i
        BY <2>1
      <4>3. b[Len(a) - Len(r) + i] = a[Len(a) - Len(r) + i]
        BY <1>5, <4>1
      <4> QED BY <1>2, <1>6, <4>1, <4>2, <4>3
    <3> QED BY <3>1, <3>2
  <2> QED BY <2>1, <2>2
<1>11. \A i \in 1 .. Len(b) - Len(v) : now - b[i] >= QUOTA_WINDOW
  <2> SUFFICES ASSUME NEW i \in 1 .. Len(b) - Len(v) PROVE now - b[i] >= QUOTA_WINDOW
    OBVIOUS
  <2>1. i \in 1 .. Len(a) - Len(r) /\ i \in 1 .. Len(a)
    BY <1>2, <1>5, <1>6
  <2> QED BY <1>2, <1>5, <2>1
<1>12. \A i \in 1 .. Len(b) - lim : b[i + lim] - b[i] >= QUOTA_WINDOW
  <2> SUFFICES ASSUME NEW i \in 1 .. Len(b) - lim PROVE b[i + lim] - b[i] >= QUOTA_WINDOW
    OBVIOUS
  <2>1. PICK la, lr : la = Len(a) /\ lr = Len(r)
    OBVIOUS
  <2>2. la \in Nat /\ lr \in Nat /\ lr < lim /\ lim \in Nat /\ lim > 0 /\ i \in 1 .. la + 1 - lim
    BY <1>3, <1>5, <1>6, <2>1
  <2>3. CASE i + lim = la + 1
    <3>1. i \in 1 .. la /\ i \in 1 .. la - lr
      BY <2>2, <2>3
    <3>2. now - a[i] >= QUOTA_WINDOW /\ b[i] = a[i] /\ b[i + lim] = now
      BY <1>2, <1>5, <2>1, <2>3, <3>1
    <3> QED BY <3>2
  <2>4. CASE i + lim # la + 1
    <3>1. i \in 1 .. la /\ i \in 1 .. la - lim /\ i + lim \in 1 .. la
      BY <2>2, <2>4
    <3>2. b[i] = a[i] /\ b[i + lim] = a[i + lim] /\ a[i + lim] - a[i] >= QUOTA_WINDOW
      BY <1>4, <1>5, <2>1, <3>1
    <3> QED BY <3>2
  <2> QED BY <2>3, <2>4
<1>13. ASSUME NEW u \in Skills
       PROVE  /\ Ascending(admitted[u])' /\ \A i \in DOMAIN admitted'[u] : admitted'[u][i] <= now'
              /\ WindowIsEnd(u)' /\ SpacedOut(u)'
  <2>1. CASE u = s
    <3>1. DOMAIN b = 1 .. Len(b)
      BY <1>5
    <3>2. Ascending(admitted[u])'
      BY <1>7, <1>9, <2>1 DEF Ascending
    <3>3. \A i \in DOMAIN admitted'[u] : admitted'[u][i] <= now'
      BY <1>5, <1>7, <1>8, <2>1, <3>1
    <3>4. WindowIsEnd(u)'
      BY <1>7, <1>10, <1>11, <2>1 DEF WindowIsEnd
    <3>5. SpacedOut(u)'
      BY <1>1, <1>7, <1>12, <2>1 DEF SpacedOut
    <3> QED BY <3>2, <3>3, <3>4, <3>5
  <2>2. CASE u # s
    <3>1. window'[u] = window[u] /\ admitted'[u] = admitted[u]
      BY <1>3, <1>7, <2>2
    <3>2. Ascending(admitted[u]) /\ WindowIsEnd(u) /\ SpacedOut(u)
      BY DEF QuotaInv
    <3>3. \A i \in DOMAIN admitted[u] : admitted[u][i] <= now
      BY DEF QuotaInv
    <3>4. Ascending(admitted[u])' /\ WindowIsEnd(u)' /\ SpacedOut(u)'
      BY <3>1, <3>2 DEF Ascending, WindowIsEnd, SpacedOut
    <3> QED BY <3>1, <3>3, <3>4
  <2> QED BY <2>1, <2>2
<1> QED BY <1>1, <1>3, <1>7, <1>13 DEF QuotaInv

LEMMA Throttled ==
    ASSUME QuotaInv, NEW s \in Skills, window' = [window EXCEPT ![s] = InWindow(window[s])],
           UNCHANGED <<deploy, now, admitted>>
    PROVE  QuotaInv'
<1>1. PICK a, r : a = admitted[s] /\ r = InWindow(window[s])
  OBVIOUS
<1>2. /\ r \in Seq(Nat) /\ Len(r) <= Len(a)
      /\ \A i \in 1 .. Len(r) : r[i] = a[Len(a) - Len(r) + i]
      /\ \A i \in 1 .. Len(a) - Len(r) : now - a[i] >= QUOTA_WINDOW
  BY <1>1, FilteredWindow
<1>3. window \in [Skills -> Seq(Nat)] /\ admitted \in [Skills -> Seq(Nat)]
  BY DEF QuotaInv
<1>4. window' \in [Skills -> Seq(Nat)] /\ window'[s] = r /\ admitted'[s] = a
  BY <1>1, <1>2, <1>3
<1>5. ASSUME NEW u \in Skills PROVE WindowIsEnd(u)'
  <2>1. CASE u = s
    BY <1>2, <1>4, <2>1 DEF WindowIsEnd
  <2>2. CASE u # s
    BY <1>3, <2>2 DEF QuotaInv, WindowIsEnd
  <2> QED BY <2>1, <2>2
<1>6. \A u \in Skills : Ascending(admitted[u])' /\ SpacedOut(u)'
  BY DEF QuotaInv, Ascending, SpacedOut
<1>7. \A u \in Skills : \A i \in DOMAIN admitted'[u] : admitted'[u][i] <= now'
  BY DEF QuotaInv
<1> QED BY <1>4, <1>5, <1>6, <1>7 DEF QuotaInv

\* A daemon that starts anew has let nothing through.
LEMMA EmptyWindows ==
    /\ window = [s \in Skills |-> <<>>] /\ admitted = [s \in Skills |-> <<>>]
    /\ now \in Nat /\ deploy.limit \in Nat
    => QuotaInv
<1> SUFFICES ASSUME window = [s \in Skills |-> <<>>], admitted = [s \in Skills |-> <<>>],
                    now \in Nat, deploy.limit \in Nat
             PROVE  QuotaInv
  OBVIOUS
<1>1. window \in [Skills -> Seq(Nat)] /\ admitted \in [Skills -> Seq(Nat)]
  OBVIOUS
<1>2. \A s \in Skills : window[s] = <<>> /\ admitted[s] = <<>>
  OBVIOUS
<1>3. Len(<<>>) = 0 /\ DOMAIN <<>> = {}
  OBVIOUS
<1>4. \A s \in Skills : WindowIsEnd(s)
  BY <1>2, <1>3 DEF WindowIsEnd
<1>5. \A s \in Skills : SpacedOut(s)
  BY <1>2, <1>3 DEF SpacedOut
<1>6. \A s \in Skills : Ascending(admitted[s]) /\ \A i \in DOMAIN admitted[s] : admitted[s][i] <= now
  BY <1>2, <1>3 DEF Ascending
<1> QED BY <1>1, <1>4, <1>5, <1>6 DEF QuotaInv

LEMMA QuotaStep ==
    ASSUME AccessInv, QuotaInv, [AccessNext]_accessVars
    PROVE  QuotaInv'
<1>1. CASE UNCHANGED <<deploy, quota>>
  BY <1>1, WindowsStay DEF quota
<1>2. CASE AccessTick
  BY <1>2, WindowsStay DEF AccessTick
<1>3. ASSUME NEW q \in CallIds, CutUntrusted(q), UNCHANGED deploy PROVE QuotaInv'
  <2>1. CASE UNCHANGED quota
    BY <1>1, <1>3, <2>1
  <2>2. CASE /\ window' = [s \in Skills |-> <<>>] /\ admitted' = [s \in Skills |-> <<>>]
             /\ UNCHANGED now
    <3>1. now \in Nat /\ deploy.limit \in Nat
      BY DEF QuotaInv
    <3>2. (now \in Nat)' /\ (deploy.limit \in Nat)'
      BY <1>3, <2>2, <3>1
    <3>3. (window = [s \in Skills |-> <<>>])' /\ (admitted = [s \in Skills |-> <<>>])'
      BY <2>2
    <3> QED BY <3>2, <3>3, EmptyWindows, PTL
  <2> QED BY <1>3, <2>1, <2>2 DEF CutUntrusted
<1>4. ASSUME NEW q \in CallIds, EnterMcp(q) PROVE QuotaInv'
  <2>1. UNCHANGED deploy /\ call[q].skill \in Skills
    BY <1>4, OpenCall DEF EnterMcp, Entering, CallRecords
  <2>2. CASE CutUntrusted(q)
    BY <1>3, <2>1, <2>2
  <2>3. CASE AdmitOrThrottle(q)
    <3>1. PICK s : s = call[q].skill
      OBVIOUS
    <3>2. CASE UNCHANGED quota
      BY <1>1, <2>1, <3>2
    <3>3. CASE /\ deploy.limit > 0 /\ Len(InWindow(window[s])) < deploy.limit
               /\ window' = [window EXCEPT ![s] = Append(InWindow(window[s]), now)]
               /\ admitted' = [admitted EXCEPT ![s] = Append(@, now)] /\ UNCHANGED now
      BY <2>1, <3>1, <3>3, Admitted
    <3>4. CASE window' = [window EXCEPT ![s] = InWindow(window[s])] /\ UNCHANGED <<admitted, now>>
      BY <2>1, <3>1, <3>4, Throttled
    <3> QED BY <2>3, <3>1, <3>2, <3>3, <3>4 DEF AdmitOrThrottle
  <2> QED BY <1>4, <2>2, <2>3 DEF EnterMcp
<1>5. ASSUME NEW q \in CallIds, EnterA2a(q) \/ EnterOnce(q) PROVE QuotaInv'
  <2>1. UNCHANGED deploy /\ (CutUntrusted(q) \/ UNCHANGED quota)
    BY <1>5 DEF EnterA2a, EnterOnce
  <2> QED BY <1>1, <1>3, <2>1
<1>6. ASSUME NEW q \in CallIds,
             \/ RefuseUnexposed(q) \/ StampTrusted(q) \/ StampIdentity(q) \/ EnterCli(q)
             \/ invoke_skill(q) \/ Write(q) \/ EndCall(q)
      PROVE  QuotaInv'
  BY <1>1, <1>6 DEF RefuseUnexposed, StampTrusted, StampIdentity, EnterCli, invoke_skill, Write,
                    EndCall
<1>7. CASE Login \/ DevBypassLogin
  BY <1>1, <1>7 DEF Login, DevBypassLogin
<1>8. ASSUME NEW status, NEW contexts, ChangeAccount(status, contexts) PROVE QuotaInv'
  BY <1>1, <1>8 DEF ChangeAccount
<1>9. ASSUME NEW q, NEW skill, NEW wanted, NEW confirmed,
             \/ \E path, org : ArriveRest(q, path, skill, wanted, org, confirmed)
             \/ ArriveMcp(q, skill, wanted, confirmed) \/ ArriveA2a(q, skill, wanted, confirmed)
             \/ ArriveCli(q, skill, wanted, confirmed)
             \/ \E surface : ArriveOnce(q, surface, skill, wanted, confirmed)
      PROVE  QuotaInv'
  BY <1>1, <1>9 DEF ArriveRest, ArriveMcp, ArriveA2a, ArriveCli, ArriveOnce, ArriveTool
<1>10. CASE UNCHANGED accessVars
  BY <1>1, <1>10 DEF accessVars, quota
<1> QED BY <1>2, <1>4, <1>5, <1>6, <1>7, <1>8, <1>9, <1>10
        DEF AccessNext, SetStatus, AssignRole, RevokeRole

\* No window of QUOTA_WINDOW seconds holds more admitted calls of a tool than the limit
\* (_enforce_mcp_quota), and with it all that CallsByRight says of a call.
THEOREM CallsAreByRight == AccessSpec => []CallsByRight
<1>1. AccessInit => QuotaInv
  <2> SUFFICES ASSUME AccessInit PROVE QuotaInv
    OBVIOUS
  <2>1. now \in Nat /\ deploy.limit \in Nat
    BY AccessAssumption DEF AccessInit
  <2> QED BY <2>1, EmptyWindows DEF AccessInit
<1>2. AccessInv /\ QuotaInv /\ [AccessNext]_accessVars => QuotaInv'
  BY QuotaStep
<1>3. QuotaInv => QuotaKept
  BY DEF QuotaInv, SpacedOut, QuotaKept
<1>4. ServedByRight /\ ActsWhereAssigned /\ RefusalsOnRecord /\ QuotaKept => CallsByRight
  BY DEF CallsByRight
<1> QED BY <1>1, <1>2, <1>3, <1>4, AccessInvariance, ServedCallsAreRightful, PTL DEF AccessSpec
=============================================================================
