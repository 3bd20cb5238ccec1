--------------------------- MODULE ConnectionsProofs ---------------------------
(***************************************************************************)
(* Theorems about Connections: the pool only takes steps away from the     *)
(* withdrawals, so what is proved of them holds on it, and a withdrawal    *)
(* that is done has cost five connections.                                 *)
(***************************************************************************)
EXTENDS Connections, WithdrawalsProofs, FiniteSetTheorems

(* Every step is a step of the withdrawals, or none of theirs.             *)
LEMMA PoolStep == PoolNext => [Next]_vars
  <1> SUFFICES ASSUME PoolNext PROVE [Next]_vars
    OBVIOUS
  <1>1. CASE PoolHttp
    BY <1>1 DEF PoolHttp, Read, Write, Next, Http
  <1>2. CASE PoolProcessing
    BY <1>2 DEF PoolProcessing, GetTransactionFn, Read, Write, WriteAndNotify, Next, Processing
  <1>3. CASE OtherStatement \/ Restart
    BY <1>3 DEF OtherStatement, Restart, Next
  <1> QED BY <1>1, <1>3, <1>2 DEF PoolNext

LEMMA PoolImplements == PoolSpec => Spec
  <1>1. PoolInit => Init
    BY DEF PoolInit
  <1>2. [PoolNext]_poolVars => [Next]_vars
    BY PoolStep DEF poolVars
  <1> QED BY <1>1, <1>2, PTL DEF PoolSpec, Spec

(* The money promise holds however the pool runs out and is restarted.     *)
THEOREM PoolMoneyCorrect == PoolSpec => [](ChargedPerApproval /\ PaidPerCharge)
  BY PoolImplements, ChargedCorrect, PaidCorrect, PTL

(* So do the contract of the withdrawals, step by step, and what statuses  *)
(* and rejections promise.                                                 *)
THEOREM PoolContract ==
    PoolSpec => ImplementsContract /\ []StatusIsTrue /\ RejectionHolds
  BY PoolImplements, Refinement, StatusCorrect, RejectionCorrect, PTL

---------------------------------------------------------------------------
(* What a withdrawal has cost, one connection for each of the five         *)
(* statements: a row stands in for them as long as the loop has read it.   *)
AreDone == {t \in Trx : table[t].status = "done"}
AreSettled == AreDone \cup
    {t \in Trx : table[t].status = "settle" \/ (t \in todo /\ pc \in {"settled", "recordDone"})}
AreMarked == AreSettled \cup {t \in Trx : IsNext(t) /\ pc \in {"collect", "recordSettled"}}
AreApproved == AreMarked \cup
    {t \in Trx : \/ table[t].status = "processed"
                 \/ t \in todo /\ pc \in {"processed", "collect", "recordSettled"}}
AreCreated == AreApproved \cup {t \in Trx : Exists(t)}

Cost == Cardinality(AreCreated) + Cardinality(AreApproved) + Cardinality(AreMarked)
        + Cardinality(AreSettled) + Cardinality(AreDone)

Paid == restarts = 0 => Cost <= leaked + faults

LEMMA TrxFinite ==
    ASSUME NEW S \in SUBSET Trx
    PROVE  IsFiniteSet(S) /\ Cardinality(S) \in Nat
  <1>1. IsFiniteSet(Trx)
    BY WithdrawalsAssumption, FS_Interval DEF Trx
  <1>2. IsFiniteSet(S)
    BY <1>1, FS_Subset
  <1> QED BY <1>2, FS_CardinalityType

LEMMA NoLarger ==
    ASSUME NEW S \in SUBSET Trx, NEW R \in SUBSET S
    PROVE  Cardinality(R) <= Cardinality(S)
  BY TrxFinite, FS_Subset

LEMMA OneLarger ==
    ASSUME NEW S \in SUBSET Trx, NEW R \in SUBSET Trx, NEW t \in Trx, R \subseteq S \cup {t}
    PROVE  Cardinality(R) <= Cardinality(S) + 1
  <1>1. IsFiniteSet(S) /\ Cardinality(S) \in Nat /\ S \cup {t} \in SUBSET Trx
    BY TrxFinite
  <1>2. Cardinality(R) <= Cardinality(S \cup {t})
    BY <1>1, NoLarger
  <1>3. Cardinality(S \cup {t}) \in {Cardinality(S), Cardinality(S) + 1}
    BY <1>1, FS_AddElement
  <1>4. Cardinality(R) \in Nat
    BY TrxFinite
  <1> QED BY <1>1, <1>2, <1>3, <1>4

LEMMA CostType ==
    /\ AreCreated \in SUBSET Trx /\ AreApproved \in SUBSET Trx /\ AreMarked \in SUBSET Trx
    /\ AreSettled \in SUBSET Trx /\ AreDone \in SUBSET Trx
    /\ Cost \in Nat
  <1>1. /\ AreCreated \in SUBSET Trx /\ AreApproved \in SUBSET Trx
        /\ AreMarked \in SUBSET Trx /\ AreSettled \in SUBSET Trx /\ AreDone \in SUBSET Trx
    BY DEF AreCreated, AreApproved, AreMarked, AreSettled, AreDone
  <1> QED BY <1>1, TrxFinite DEF Cost

LEMMA CostTypeNext ==
    /\ AreCreated' \in SUBSET Trx /\ AreApproved' \in SUBSET Trx /\ AreMarked' \in SUBSET Trx
    /\ AreSettled' \in SUBSET Trx /\ AreDone' \in SUBSET Trx
    /\ Cost' \in Nat
  <1>1. /\ AreCreated' \in SUBSET Trx /\ AreApproved' \in SUBSET Trx
        /\ AreMarked' \in SUBSET Trx /\ AreSettled' \in SUBSET Trx /\ AreDone' \in SUBSET Trx
    BY DEF AreCreated, AreApproved, AreMarked, AreSettled, AreDone
  <1> QED BY <1>1, TrxFinite DEF Cost

(* A step that brings no row further costs nothing.                        *)
NoFurther ==
    /\ AreDone' \subseteq AreDone /\ AreSettled' \subseteq AreSettled
    /\ AreMarked' \subseteq AreMarked /\ AreApproved' \subseteq AreApproved
    /\ AreCreated' \subseteq AreCreated

LEMMA NoFurtherCost == NoFurther => Cost' <= Cost
  <1> SUFFICES ASSUME NoFurther PROVE Cost' <= Cost
    OBVIOUS
  <1>1. /\ Cardinality(AreDone') <= Cardinality(AreDone)
        /\ Cardinality(AreSettled') <= Cardinality(AreSettled)
        /\ Cardinality(AreMarked') <= Cardinality(AreMarked)
        /\ Cardinality(AreApproved') <= Cardinality(AreApproved)
        /\ Cardinality(AreCreated') <= Cardinality(AreCreated)
    BY CostType, NoLarger DEF NoFurther
  <1>2. /\ \A S \in SUBSET Trx : Cardinality(S) \in Nat
    BY TrxFinite
  <1> QED BY <1>1, <1>2, CostType, CostTypeNext DEF Cost

(* A statement brings one row one step further.                            *)
OneFurther(t) ==
    /\ AreDone' \subseteq AreDone \cup {t} /\ AreSettled' \subseteq AreSettled \cup {t}
    /\ AreMarked' \subseteq AreMarked \cup {t} /\ AreApproved' \subseteq AreApproved \cup {t}
    /\ AreCreated' \subseteq AreCreated \cup {t}
    /\ \/ /\ AreSettled' \subseteq AreSettled /\ AreMarked' \subseteq AreMarked
          /\ AreApproved' \subseteq AreApproved /\ AreCreated' \subseteq AreCreated
       \/ /\ AreDone' \subseteq AreDone /\ AreMarked' \subseteq AreMarked
          /\ AreApproved' \subseteq AreApproved /\ AreCreated' \subseteq AreCreated
       \/ /\ AreDone' \subseteq AreDone /\ AreSettled' \subseteq AreSettled
          /\ AreApproved' \subseteq AreApproved /\ AreCreated' \subseteq AreCreated
       \/ /\ AreDone' \subseteq AreDone /\ AreSettled' \subseteq AreSettled
          /\ AreMarked' \subseteq AreMarked /\ AreCreated' \subseteq AreCreated
       \/ /\ AreDone' \subseteq AreDone /\ AreSettled' \subseteq AreSettled
          /\ AreMarked' \subseteq AreMarked /\ AreApproved' \subseteq AreApproved

LEMMA OneFurtherCost ==
    ASSUME NEW t \in Trx, OneFurther(t)
    PROVE  Cost' <= Cost + 1
  <1>1. /\ Cardinality(AreDone') <= Cardinality(AreDone) + 1
        /\ Cardinality(AreSettled') <= Cardinality(AreSettled) + 1
        /\ Cardinality(AreMarked') <= Cardinality(AreMarked) + 1
        /\ Cardinality(AreApproved') <= Cardinality(AreApproved) + 1
        /\ Cardinality(AreCreated') <= Cardinality(AreCreated) + 1
    BY CostType, CostTypeNext, OneLarger DEF OneFurther
  <1>2. \A S \in SUBSET Trx : Cardinality(S) \in Nat
    BY TrxFinite
  <1>3. \A S \in SUBSET Trx, R \in SUBSET Trx : R \subseteq S => Cardinality(R) <= Cardinality(S)
    BY NoLarger
  <1> QED BY <1>1, <1>2, <1>3, CostType, CostTypeNext DEF Cost, OneFurther

---------------------------------------------------------------------------
(* Statements of the table change the row they name.                       *)
LEMMA OneRow ==
    ASSUME TypeOK, NEW t \in Trx, NEW h \in Hashes, NEW tab, 
           \/ tab = CreateTransaction(table, t) \/ tab = RejectTransaction(table, t)
           \/ tab = PutProcessedTransaction(table, t, h)
           \/ tab = PutSettledTransaction(table, t, h) \/ tab = PutDoneTransaction(table, t, h)
    PROVE  \A u \in Trx : u # t => tab[u] = table[u]
  BY DEF TypeOK, CreateTransaction, RejectTransaction, PutProcessedTransaction,
     PutSettledTransaction, PutDoneTransaction

(* Requests to delete, transfers, errors and reads bring no row further.   *)
LEMMA QuietSteps ==
    ASSUME TypeOK,
           \/ \E t \in Trx : \/ DeleteWithdraw(t) \/ Collect(t) \/ CollectLate(t)
                             \/ CollectError(t) \/ Pay(t) \/ PayLate(t) \/ PayError(t)
           \/ Tick \/ ReadSettled \/ EndMerchant \/ UNCHANGED vars
           \/ \E m \in Merchants : \/ ReadProcessed(m)
                                   \/ \E a \in 1..receiving[m] : TransferBetweenMerchantWallets(m, a)
    PROVE  NoFurther
  <1> USE DEF NoFurther, AreDone, AreSettled, AreMarked, AreApproved, AreCreated, Exists, IsNext
  <1>1. ASSUME NEW t \in Trx, DeleteWithdraw(t) PROVE NoFurther
    <2>1. \A u \in Trx : u # t => table'[u] = table[u]
      BY <1>1, OneRow DEF DeleteWithdraw, Hashes
    <2>2. table'[t].status = "rejected" /\ pc' = pc /\ todo' = todo /\ Exists(t)
      BY <1>1 DEF DeleteWithdraw, RejectTransaction, TypeOK, Rows, loop
    <2> QED BY <2>1, <2>2
  <1>2. ASSUME NEW t \in Trx, Collect(t) PROVE NoFurther
    BY <1>2 DEF Collect, CollectTransfer, Goto, store
  <1>3. ASSUME NEW t \in Trx, CollectLate(t) \/ CollectError(t) PROVE NoFurther
    BY <1>3 DEF CollectLate, CollectError, CollectTransfer, NextRow, store
  <1>4. ASSUME NEW t \in Trx, Pay(t) \/ PayLate(t) \/ PayError(t) PROVE NoFurther
    BY <1>4 DEF Pay, PayLate, PayError, PayTransfer, NextRow, Goto, store
  <1>5. CASE Tick \/ UNCHANGED vars
    BY <1>5 DEF Tick, store, vars
  <1>6. CASE ReadSettled
    BY <1>6 DEF ReadSettled, ReadBatch, Batch, WithStatus, store, TypeOK
  <1>7. CASE EndMerchant
    BY <1>7 DEF EndMerchant, Goto, store
  <1>8. ASSUME NEW m \in Merchants, ReadProcessed(m) PROVE NoFurther
    BY <1>8 DEF ReadProcessed, ReadBatch, Batch, WithStatus, store, TypeOK
  <1>9. ASSUME NEW m \in Merchants, NEW a \in 1..receiving[m], TransferBetweenMerchantWallets(m, a)
        PROVE  NoFurther
    BY <1>9 DEF TransferBetweenMerchantWallets, store, loop
  <1> QED BY <1>1, <1>2, <1>3, <1>4, <1>5, <1>6, <1>7, <1>8, <1>9

(* A statement brings its row one step further at most.                    *)
LEMMA StatementSteps ==
    ASSUME TypeOK, NEW t \in Trx,
           \/ InitWithdraw(t) \/ \E hash \in Hashes : UpdateWithdraw(t, hash)
           \/ MarkProcessed(t) \/ RecordSettled(t) \/ RecordDone(t)
    PROVE  OneFurther(t)
  <1> USE DEF OneFurther, AreDone, AreSettled, AreMarked, AreApproved, AreCreated, Exists, IsNext
  <1>0. "" \in Hashes /\ "tx" \in Hashes
    BY DEF Hashes
  <1>1. CASE InitWithdraw(t)
    <2>1. \A u \in Trx : u # t => table'[u] = table[u]
      BY <1>0, <1>1, OneRow DEF InitWithdraw
    <2>2. table'[t].status = "init" /\ pc' = pc /\ todo' = todo
      BY <1>1 DEF InitWithdraw, CreateTransaction, TypeOK, loop
    <2> QED BY <2>1, <2>2
  <1>2. ASSUME NEW hash \in Hashes, UpdateWithdraw(t, hash) PROVE OneFurther(t)
    <2>1. \A u \in Trx : u # t => table'[u] = table[u]
      BY <1>2, OneRow DEF UpdateWithdraw
    <2>2. table'[t].status = "processed" /\ pc' = pc /\ todo' = todo /\ Exists(t)
      BY <1>2 DEF UpdateWithdraw, PutProcessedTransaction, TypeOK, Rows, loop
    <2> QED BY <2>1, <2>2
  <1>3. CASE MarkProcessed(t)
    <2>1. \A u \in Trx : u # t => table'[u] = table[u]
      BY <1>0, <1>3, OneRow DEF MarkProcessed
    <2>2. table'[t].status = "processed" \/ table'[t] = table[t]
      BY <1>3 DEF MarkProcessed, PutProcessedTransaction, TypeOK, Rows
    <2>3. /\ pc = "processed" /\ pc' = "collect" /\ todo' = todo
          /\ t \in todo
      BY <1>3 DEF MarkProcessed, Goto
    <2>4. \A u \in Trx : IsNext(u) => u = t
      BY <1>3, NextRowUnique DEF MarkProcessed, TypeOK
    <2> QED BY <2>1, <2>2, <2>3, <2>4
  <1>4. CASE RecordSettled(t)
    <2>1. \A u \in Trx : u # t => table'[u] = table[u]
      BY <1>0, <1>4, OneRow DEF RecordSettled
    <2>2. table'[t].status = "settle" \/ table'[t] = table[t]
      BY <1>4 DEF RecordSettled, PutSettledTransaction, TypeOK, Rows
    <2>3. pc = "recordSettled" /\ pc' = "processed" /\ todo' = todo \ {t} /\ IsNext(t)
      BY <1>4 DEF RecordSettled, NextRow
    <2> QED BY <2>1, <2>2, <2>3
  <1>5. CASE RecordDone(t)
    <2>1. \A u \in Trx : u # t => table'[u] = table[u]
      <3>1. table' = table \/ table' = PutDoneTransaction(table, t, "tx")
        BY <1>5 DEF RecordDone
      <3> QED BY <1>0, <3>1, OneRow
    <2>2. table'[t].status = "done" \/ table'[t] = table[t]
      BY <1>5 DEF RecordDone, PutDoneTransaction, TypeOK, Rows
    <2>3. pc = "recordDone" /\ pc' = "settled" /\ todo' \subseteq todo /\ t \in todo
      BY <1>5 DEF RecordDone
    <2> QED BY <2>1, <2>2, <2>3
  <1> QED BY <1>1, <1>2, <1>3, <1>4, <1>5

(* Failures are only counted up.                                           *)
LEMMA FaultsGrow ==
    ASSUME TypeOK, Next
    PROVE  faults' \in {faults, faults + 1}
  <1>1. CASE Http
    BY <1>1 DEF Http, InitWithdraw, UpdateWithdraw, DeleteWithdraw,
       TransferBetweenMerchantWallets
  <1>2. CASE Processing
    BY <1>2 DEF Processing, Tick, ReadSettled, EndMerchant, ReadProcessed, ReadBatch,
       MarkProcessed, Collect, CollectLate, CollectError, RecordSettled, Pay, PayLate,
       PayError, RecordDone, Fault
  <1> QED BY <1>1, <1>2 DEF Next, Crash, Fault

---------------------------------------------------------------------------
PoolInv == TypeOK /\ PoolTypeOK /\ Paid

LEMMA PoolInvInit == PoolInit => PoolInv
  <1> SUFFICES ASSUME PoolInit PROVE PoolInv
    OBVIOUS
  <1>1. TypeOK
    BY TypeInit DEF PoolInit
  <1>2. PoolTypeOK
    <2>1. leaked = 0 /\ restarts = 0 /\ notify = FALSE
      BY DEF PoolInit
    <2>2. 0 \in 0..MaxOpenConns
      BY ConnectionsAssumption
    <2> QED BY <2>1, <2>2 DEF PoolTypeOK
  <1>3. /\ AreCreated = {} /\ AreApproved = {} /\ AreMarked = {}
        /\ AreSettled = {} /\ AreDone = {}
    BY DEF PoolInit, Init, NoRow, AreCreated, AreApproved, AreMarked, AreSettled, AreDone,
       Exists
  <1>4. Cost = 0
    BY <1>3, FS_EmptySet DEF Cost
  <1>5. leaked = 0 /\ faults = 0
    BY DEF PoolInit, Init
  <1> QED BY <1>1, <1>2, <1>4, <1>5 DEF PoolInv, Paid

(* A call that gives its connection back, and one that keeps it.           *)
LEMMA ReadPays ==
    ASSUME PoolInv, NoFurther, UNCHANGED <<leaked, restarts>>, faults' \in {faults, faults + 1}
    PROVE  Paid'
  <1>1. Cost' <= Cost /\ Cost \in Nat /\ Cost' \in Nat
    BY NoFurtherCost, CostType, CostTypeNext
  <1>2. leaked \in Nat /\ faults \in Nat
    BY ConnectionsAssumption DEF PoolInv, PoolTypeOK, TypeOK
  <1>3. restarts = 0 => Cost <= leaked + faults
    BY DEF PoolInv, Paid
  <1>4. leaked' = leaked /\ restarts' = restarts
    OBVIOUS
  <1>5. CASE faults' = faults
    BY <1>1, <1>2, <1>3, <1>4, <1>5 DEF Paid
  <1>6. CASE faults' = faults + 1
    BY <1>1, <1>2, <1>3, <1>4, <1>6 DEF Paid
  <1> QED BY <1>5, <1>6

LEMMA WritePays ==
    ASSUME PoolInv, Cost' <= Cost + 1, Keep, UNCHANGED restarts,
           faults' \in {faults, faults + 1}
    PROVE  Paid'
  <1>1. Cost \in Nat /\ Cost' \in Nat
    BY CostType, CostTypeNext
  <1>2. leaked \in Nat /\ faults \in Nat
    BY ConnectionsAssumption DEF PoolInv, PoolTypeOK, TypeOK
  <1>3. restarts = 0 => Cost <= leaked + faults
    BY DEF PoolInv, Paid
  <1>4. CASE faults' = faults
    <2>1. leaked' = leaked + 1
      BY <1>4 DEF Keep
    <2> QED BY <1>1, <1>2, <1>3, <1>4, <2>1 DEF Paid
  <1>5. CASE faults' = faults + 1
    <2>1. leaked' = leaked
      BY <1>2, <1>5 DEF Keep
    <2> QED BY <1>1, <1>2, <1>3, <1>5, <2>1 DEF Paid
  <1> QED BY <1>4, <1>5

LEMMA PaidStep ==
    ASSUME PoolInv, PoolNext
    PROVE  Paid'
  <1>0. TypeOK
    BY DEF PoolInv
  <1>1. CASE OtherStatement
    <2>1. NoFurther
      BY <1>0, <1>1, QuietSteps DEF OtherStatement
    <2>2. Cost' <= Cost /\ Cost \in Nat /\ Cost' \in Nat
      BY <2>1, NoFurtherCost, CostType, CostTypeNext
    <2>3. leaked \in Nat /\ faults \in Nat /\ faults' = faults
      BY <1>1 DEF PoolInv, PoolTypeOK, TypeOK, OtherStatement, vars
    <2> QED BY <1>1, <2>2, <2>3 DEF PoolInv, Paid, OtherStatement
  <1>2. CASE Restart
    BY <1>2 DEF Restart, Paid, PoolInv, PoolTypeOK
  <1>3. CASE GetTransactionFn
    <2>1. NoFurther /\ faults' = faults /\ UNCHANGED <<leaked, restarts>>
      BY <1>0, <1>3, QuietSteps DEF GetTransactionFn, vars
    <2> QED BY <2>1, ReadPays
  <1>4. ASSUME Next,
               \/ \E t \in Trx : \/ Read(Collect(t)) \/ Read(CollectLate(t)) \/ Read(CollectError(t))
                                 \/ (Pay(t) \/ PayLate(t) \/ PayError(t)) /\ UNCHANGED pool
               \/ Read(Tick) \/ Read(ReadSettled)
               \/ EndMerchant /\ UNCHANGED pool
               \/ \E m \in Merchants :
                      \/ Read(ReadProcessed(m))
                      \/ \E a \in 1..receiving[m] : Read(TransferBetweenMerchantWallets(m, a))
        PROVE  Paid'
    <2>1. NoFurther
      BY <1>0, <1>4, QuietSteps DEF Read
    <2>2. UNCHANGED <<leaked, restarts>>
      BY <1>4 DEF Read, pool
    <2> QED BY <1>0, <1>4, <2>1, <2>2, FaultsGrow, ReadPays
  <1>5. ASSUME NEW t \in Trx, Write(DeleteWithdraw(t)) PROVE Paid'
    <2>1. NoFurther /\ Keep /\ UNCHANGED restarts /\ faults' = faults
      BY <1>0, <1>5, QuietSteps DEF Write, DeleteWithdraw
    <2>2. Cost' <= Cost + 1
      BY <2>1, NoFurtherCost, CostType, CostTypeNext
    <2> QED BY <2>1, <2>2, WritePays
  <1>6. ASSUME NEW t \in Trx, Next,
               \/ Write(InitWithdraw(t)) \/ \E hash \in Hashes : Write(UpdateWithdraw(t, hash))
               \/ Write(MarkProcessed(t)) \/ WriteAndNotify(RecordSettled(t), TRUE)
               \/ WriteAndNotify(RecordDone(t), FALSE)
        PROVE  Paid'
    <2>1. OneFurther(t)
      BY <1>0, <1>6, StatementSteps DEF Write, WriteAndNotify
    <2>2. Keep /\ UNCHANGED restarts
      BY <1>6 DEF Write, WriteAndNotify
    <2> QED BY <1>0, <1>6, <2>1, <2>2, OneFurtherCost, FaultsGrow, WritePays
  <1>7. CASE PoolHttp
    <2>1. Next
      BY <1>7 DEF PoolHttp, Read, Write, Next, Http
    <2> QED BY <1>4, <1>5, <1>6, <1>7, <2>1 DEF PoolHttp
  <1>8. CASE PoolProcessing /\ ~GetTransactionFn
    <2>1. Next
      BY <1>8 DEF PoolProcessing, Read, Write, WriteAndNotify, Next, Processing
    <2>2. \/ Read(Tick) \/ Read(ReadSettled)
          \/ EndMerchant /\ UNCHANGED pool
          \/ \E m \in Merchants : Read(ReadProcessed(m))
          \/ \E t \in Trx : \/ Write(MarkProcessed(t))
                            \/ Read(Collect(t)) \/ Read(CollectLate(t)) \/ Read(CollectError(t))
                            \/ WriteAndNotify(RecordSettled(t), TRUE)
                            \/ (Pay(t) \/ PayLate(t) \/ PayError(t)) /\ UNCHANGED pool
                            \/ WriteAndNotify(RecordDone(t), FALSE)
      BY <1>8 DEF PoolProcessing
    <2> QED BY <1>4, <1>6, <2>1, <2>2
  <1> QED BY <1>1, <1>2, <1>3, <1>7, <1>8 DEF PoolNext

LEMMA PoolTypeStep ==
    ASSUME PoolInv, PoolNext
    PROVE  PoolTypeOK'
  <1> USE ConnectionsAssumption DEF PoolInv, PoolTypeOK, Exhausted
  <1>1. ASSUME UNCHANGED pool PROVE PoolTypeOK'
    BY <1>1 DEF pool
  <1>2. ASSUME ~Exhausted, Keep PROVE leaked' \in 0..MaxOpenConns
    BY <1>2 DEF Keep
  <1>3. CASE PoolHttp
    BY <1>1, <1>2, <1>3 DEF PoolHttp, Read, Write
  <1>4. CASE GetTransactionFn
    BY <1>4 DEF GetTransactionFn
  <1>5. ASSUME NEW t \in Trx,
               WriteAndNotify(RecordSettled(t), TRUE) \/ WriteAndNotify(RecordDone(t), FALSE)
        PROVE  PoolTypeOK'
    <2>1. notify' \in BOOLEAN
      BY <1>5 DEF WriteAndNotify
    <2> QED BY <1>2, <1>5, <2>1 DEF WriteAndNotify
  <1>6. ASSUME NEW t \in Trx, Write(MarkProcessed(t)) PROVE PoolTypeOK'
    BY <1>2, <1>6 DEF Write
  <1>7. CASE PoolProcessing
    BY <1>1, <1>4, <1>5, <1>6, <1>7 DEF PoolProcessing, Read
  <1>8. CASE OtherStatement
    BY <1>8 DEF OtherStatement
  <1>9. CASE Restart
    <2>1. leaked' = 0 /\ notify' = FALSE /\ restarts' = restarts + 1
      BY <1>9 DEF Restart
    <2>2. notify' \in BOOLEAN
      BY <2>1
    <2> QED BY <2>1, <2>2
  <1> QED BY <1>3, <1>7, <1>8, <1>9 DEF PoolNext

THEOREM PoolInvariant == PoolSpec => []PoolInv
  <1>1. PoolInv /\ [PoolNext]_poolVars => PoolInv'
    <2> SUFFICES ASSUME PoolInv, [PoolNext]_poolVars PROVE PoolInv'
      OBVIOUS
    <2>1. CASE PoolNext
      <3>1. TypeOK'
        BY <2>1, PoolStep, TypeNext DEF PoolInv
      <3> QED BY <2>1, <3>1, PaidStep, PoolTypeStep DEF PoolInv
    <2>2. CASE UNCHANGED poolVars
      <3>1. TypeOK' /\ PoolTypeOK' /\ Cost' = Cost /\ leaked' = leaked /\ faults' = faults
            /\ restarts' = restarts
        BY <2>2, TypeNext DEF poolVars, pool, vars, PoolInv, PoolTypeOK, TypeOK, Cost,
           AreCreated, AreApproved,
           AreMarked, AreSettled, AreDone, Exists, IsNext
      <3> QED BY <3>1 DEF PoolInv, Paid
    <2> QED BY <2>1, <2>2
  <1> QED BY <1>1, PoolInvInit, PTL DEF PoolSpec

(* The types of the pool.                                                  *)
THEOREM PoolTypeCorrect == PoolSpec => []PoolTypeOK
  BY PoolInvariant, PTL DEF PoolInv

(* Each withdrawal that is done has cost five connections, so a pool of 50 *)
(* is spent after ten of them (transactions.go:190-257).                   *)
THEOREM FiveCorrect == PoolSpec => []FivePerWithdrawal
  <1>1. PoolInv => FivePerWithdrawal
    <2> SUFFICES ASSUME PoolInv, restarts = 0 PROVE 5 * Cardinality(AreDone) <= leaked + faults
      BY DEF FivePerWithdrawal, AreDone
    <2>1. /\ AreDone \subseteq AreSettled /\ AreDone \subseteq AreMarked
          /\ AreDone \subseteq AreApproved /\ AreDone \subseteq AreCreated
      BY DEF AreSettled, AreMarked, AreApproved, AreCreated
    <2>2. /\ Cardinality(AreDone) <= Cardinality(AreSettled)
          /\ Cardinality(AreDone) <= Cardinality(AreMarked)
          /\ Cardinality(AreDone) <= Cardinality(AreApproved)
          /\ Cardinality(AreDone) <= Cardinality(AreCreated)
      BY <2>1, CostType, NoLarger
    <2>3. /\ Cardinality(AreDone) \in Nat /\ Cardinality(AreSettled) \in Nat
          /\ Cardinality(AreMarked) \in Nat /\ Cardinality(AreApproved) \in Nat
          /\ Cardinality(AreCreated) \in Nat
      BY CostType, TrxFinite
    <2>4. leaked \in Nat /\ faults \in Nat
      BY DEF PoolInv, PoolTypeOK, TypeOK
    <2> QED BY <2>2, <2>3, <2>4 DEF PoolInv, Paid, Cost
  <1> QED BY <1>1, PoolInvariant, PTL

=============================================================================
