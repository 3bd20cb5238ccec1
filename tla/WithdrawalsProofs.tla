--------------------------- MODULE WithdrawalsProofs ---------------------------
(* Theorems about Withdrawals, for every number of merchants and           *)
(* withdrawals, every amount and commission and every bound.               *)
EXTENDS Withdrawals, TLAPS

-----------------------------------------------------------------------------
(* Every statement of the table keeps it a table.                          *)

LEMMA StatementsKeepRows ==
    ASSUME NEW tab \in [Trx -> Rows], NEW t \in Trx, NEW h \in Hashes
    PROVE  /\ CreateTransaction(tab, t) \in [Trx -> Rows]
           /\ RejectTransaction(tab, t) \in [Trx -> Rows]
           /\ PutProcessedTransaction(tab, t, h) \in [Trx -> Rows]
           /\ PutSettledTransaction(tab, t, h) \in [Trx -> Rows]
           /\ PutDoneTransaction(tab, t, h) \in [Trx -> Rows]
  BY DEF CreateTransaction, RejectTransaction, PutProcessedTransaction,
         PutSettledTransaction, PutDoneTransaction, Rows, NoRow, Statuses, Hashes

-----------------------------------------------------------------------------
(* Type correctness.                                                       *)

LEMMA TypeInit == Init => TypeOK
<1>1. NoRow \in Rows
  BY DEF NoRow, Rows, Statuses, Hashes
<1>2. Zero \in [Trx -> Nat]
  BY DEF Zero
<1> QED
  BY <1>1, <1>2, WithdrawalsAssumption DEF Init, TypeOK, Phases

LEMMA TypeNext == TypeOK /\ [Next]_vars => TypeOK'
<1> SUFFICES ASSUME TypeOK, [Next]_vars PROVE TypeOK'
  OBVIOUS
<1> USE WithdrawalsAssumption DEF TypeOK, store, wallets, loop, money
<1>0. "" \in Hashes /\ "tx" \in Hashes
  BY DEF Hashes
<1>1. ASSUME NEW t \in Trx, InitWithdraw(t) PROVE TypeOK'
  BY <1>1, <1>0, StatementsKeepRows DEF InitWithdraw
<1>2. ASSUME NEW t \in Trx, DeleteWithdraw(t) PROVE TypeOK'
  BY <1>2, <1>0, StatementsKeepRows DEF DeleteWithdraw
<1>3. ASSUME NEW t \in Trx, NEW hash \in Hashes, UpdateWithdraw(t, hash)
      PROVE TypeOK'
  BY <1>3, StatementsKeepRows DEF UpdateWithdraw
<1>4. ASSUME NEW m \in Merchants, NEW amount \in 1..receiving[m],
             TransferBetweenMerchantWallets(m, amount)
      PROVE TypeOK'
  BY <1>4 DEF TransferBetweenMerchantWallets
<1>5. CASE Tick
  BY <1>5 DEF Tick
<1>6. ASSUME NEW m \in Merchants, ReadProcessed(m) PROVE TypeOK'
  BY <1>6 DEF ReadProcessed, ReadBatch, Batch, WithStatus, Fault, Phases
<1>7. ASSUME NEW t \in Trx, MarkProcessed(t) PROVE TypeOK'
  <2>1. PutProcessedTransaction(table, t, "") \in [Trx -> Rows]
    BY <1>0, StatementsKeepRows
  <2>2. table' \in [Trx -> Rows]
    BY <1>7, <2>1 DEF MarkProcessed
  <2> QED
    <3>1. Fault \/ UNCHANGED faults
      BY <1>7 DEF MarkProcessed
    <3>2. faults' \in 0..MaxFaults
      BY <3>1 DEF Fault
    <3>3. t \in todo /\ pc' = "collect" /\ UNCHANGED <<queue, merchant, todo>>
      BY <1>7 DEF MarkProcessed, Goto, IsNext
    <3>4. UNCHANGED <<receiving, sending, hot, approved, charged, paid,
                      lostCharge, lostPay>>
      BY <1>7 DEF MarkProcessed
    <3> QED
      BY <2>2, <3>2, <3>3, <3>4 DEF Phases
<1>8. ASSUME NEW t \in Trx, Collect(t) PROVE TypeOK'
  BY <1>8 DEF Collect, CollectTransfer, Goto, IsNext, Phases
<1>9. ASSUME NEW t \in Trx, CollectLate(t) PROVE TypeOK'
  BY <1>9 DEF CollectLate, CollectTransfer, NextRow, Fault, Phases
<1>10. ASSUME NEW t \in Trx, CollectError(t) PROVE TypeOK'
  BY <1>10 DEF CollectError, NextRow, Fault, Phases
<1>11. ASSUME NEW t \in Trx, RecordSettled(t) PROVE TypeOK'
  <2>1. PutSettledTransaction(table, t, "tx") \in [Trx -> Rows]
    BY <1>0, StatementsKeepRows
  <2>2. table' \in [Trx -> Rows]
    BY <1>11, <2>1 DEF RecordSettled
  <2> QED
    BY <1>11, <2>2 DEF RecordSettled, NextRow, Fault, Phases
<1>12. CASE ReadSettled
  BY <1>12 DEF ReadSettled, ReadBatch, Batch, WithStatus, Fault, Phases
<1>13. ASSUME NEW t \in Trx, Pay(t) PROVE TypeOK'
  BY <1>13 DEF Pay, PayTransfer, Goto, IsNext, Phases
<1>14. ASSUME NEW t \in Trx, PayLate(t) PROVE TypeOK'
  BY <1>14 DEF PayLate, PayTransfer, NextRow, Fault, Phases
<1>15. ASSUME NEW t \in Trx, PayError(t) PROVE TypeOK'
  BY <1>15 DEF PayError, NextRow, Fault, Phases
<1>16. ASSUME NEW t \in Trx, RecordDone(t) PROVE TypeOK'
  <2>1. PutDoneTransaction(table, t, "tx") \in [Trx -> Rows]
    BY <1>0, StatementsKeepRows
  <2>2. table' \in [Trx -> Rows]
    BY <1>16, <2>1 DEF RecordDone
  <2> QED
    BY <1>16, <2>2 DEF RecordDone, Fault, Phases
<1>17. CASE EndMerchant
  BY <1>17 DEF EndMerchant, Goto, Phases
<1>18. CASE Crash
  BY <1>18 DEF Crash, Fault, Phases
<1>19. CASE UNCHANGED vars
  BY <1>19 DEF vars
<1> QED
  BY <1>1, <1>2, <1>3, <1>4, <1>5, <1>6, <1>7, <1>8, <1>9, <1>10, <1>11,
     <1>12, <1>13, <1>14, <1>15, <1>16, <1>17, <1>18, <1>19
     DEF Next, Http, Processing

\* The tables, balances, batches and counters keep their types in every
\* reachable state (TransactionStore statements, wallet transfers, batches).
THEOREM TypeCorrect == Spec => []TypeOK
  BY TypeInit, TypeNext, PTL DEF Spec

-----------------------------------------------------------------------------
(* The money promise.                                                      *)

(* The batch loop is at one row at a time.                                 *)
LEMMA NextRowUnique ==
    ASSUME TypeOK, NEW t \in Trx, NEW u \in Trx, IsNext(t), IsNext(u)
    PROVE  t = u
  BY WithdrawalsAssumption DEF IsNext, Trx

LEMMA MoneyInit == Init => MoneyInv
<1> SUFFICES ASSUME Init, NEW t \in Trx PROVE MoneyAt(t)
  BY DEF MoneyInv
<1>1. table[t].status = "absent" /\ todo = {} /\ pc = "idle"
  BY DEF Init, NoRow
<1>2. /\ approved[t] = 0 /\ charged[t] = 0 /\ paid[t] = 0
      /\ lostCharge[t] = 0 /\ lostPay[t] = 0
  BY DEF Init, Zero
<1> QED
  BY <1>1, <1>2 DEF MoneyAt, MayCharge, MayPay, Recording

LEMMA MoneyNext == TypeOK /\ MoneyInv /\ [Next]_vars => MoneyInv'
<1> SUFFICES ASSUME TypeOK, MoneyInv, [Next]_vars, NEW u \in Trx
             PROVE  MoneyAt(u)'
  BY DEF MoneyInv
<1> USE DEF store, wallets, loop, money, MoneyAt, MayCharge, MayPay, Recording
<1>0. /\ approved[u] \in Nat /\ charged[u] \in Nat /\ paid[u] \in Nat
      /\ lostCharge[u] \in Nat /\ lostPay[u] \in Nat
  BY DEF TypeOK
<1>a. MoneyAt(u)
  BY DEF MoneyInv
<1>h. "" \in Hashes /\ "tx" \in Hashes
  BY DEF Hashes
<1>s. table \in [Trx -> Rows]
  BY DEF TypeOK
<1>1. ASSUME NEW t \in Trx,
             InitWithdraw(t) PROVE MoneyAt(u)'
  <2>1. CreateTransaction(table, t)[u].status = IF u = t THEN "init" ELSE table[u].status
    BY <1>h, <1>s DEF CreateTransaction, Rows
  <2>2. table'[u].status = IF u = t THEN "init" ELSE table[u].status
    BY <1>1, <2>1 DEF InitWithdraw
  <2> QED
    BY <2>2, <1>1, <1>0, <1>a DEF InitWithdraw, IsNext, TypeOK
<1>2. ASSUME NEW t \in Trx,
             DeleteWithdraw(t) PROVE MoneyAt(u)'
  <2>1. RejectTransaction(table, t)[u].status = IF u = t THEN "rejected" ELSE table[u].status
    BY <1>h, <1>s DEF RejectTransaction, Rows
  <2>2. table'[u].status = IF u = t THEN "rejected" ELSE table[u].status
    BY <1>2, <2>1 DEF DeleteWithdraw
  <2> QED
    BY <2>2, <1>2, <1>0, <1>a DEF DeleteWithdraw, IsNext, TypeOK
<1>3. ASSUME NEW t \in Trx, NEW hash \in Hashes,
             UpdateWithdraw(t, hash) PROVE MoneyAt(u)'
  <2>1. PutProcessedTransaction(table, t, hash)[u].status = IF u = t THEN "processed" ELSE table[u].status
    BY <1>h, <1>s DEF PutProcessedTransaction, Rows
  <2>2. table'[u].status = IF u = t THEN "processed" ELSE table[u].status
    BY <1>3, <2>1 DEF UpdateWithdraw
  <2> QED
    BY <2>2, <1>3, <1>0, <1>a DEF UpdateWithdraw, IsNext, TypeOK
<1>4. ASSUME NEW m \in Merchants, NEW amount \in 1..receiving[m],
             TransferBetweenMerchantWallets(m, amount) PROVE MoneyAt(u)'
  BY <1>4, <1>0, <1>a DEF TransferBetweenMerchantWallets, IsNext, TypeOK
<1>5. CASE Tick
  BY <1>5, <1>0, <1>a DEF Tick, IsNext, TypeOK
<1>6. ASSUME NEW m \in Merchants,
             ReadProcessed(m) PROVE MoneyAt(u)'
  BY <1>6, <1>0, <1>a DEF ReadProcessed, ReadBatch, Batch, WithStatus, Fault, IsNext, TypeOK
<1>7. ASSUME NEW t \in Trx,
             MarkProcessed(t) PROVE MoneyAt(u)'
  <2>1. PutProcessedTransaction(table, t, "")[u].status = IF u = t THEN "processed" ELSE table[u].status
    BY <1>h, <1>s DEF PutProcessedTransaction, Rows
  <2>2. \/ table'[u].status = IF u = t THEN "processed" ELSE table[u].status
        \/ UNCHANGED table
    BY <1>7, <2>1 DEF MarkProcessed
  <2> QED
    BY <2>2, <1>7, <1>0, <1>a, NextRowUnique DEF MarkProcessed, Goto, IsNext, TypeOK
<1>8. ASSUME NEW t \in Trx,
             Collect(t) PROVE MoneyAt(u)'
  BY <1>8, <1>0, <1>a, NextRowUnique DEF Collect, CollectTransfer, Goto, IsNext, TypeOK
<1>9. ASSUME NEW t \in Trx,
             CollectLate(t) PROVE MoneyAt(u)'
  BY <1>9, <1>0, <1>a, NextRowUnique DEF CollectLate, CollectTransfer, NextRow, IsNext, TypeOK
<1>10. ASSUME NEW t \in Trx,
             CollectError(t) PROVE MoneyAt(u)'
  BY <1>10, <1>0, <1>a, NextRowUnique DEF CollectError, NextRow, IsNext, TypeOK
<1>11. ASSUME NEW t \in Trx,
             RecordSettled(t) PROVE MoneyAt(u)'
  <2>1. PutSettledTransaction(table, t, "tx")[u].status = IF u = t THEN "settle" ELSE table[u].status
    BY <1>h, <1>s DEF PutSettledTransaction, Rows
  <2>2. \/ /\ table'[u].status = IF u = t THEN "settle" ELSE table[u].status
           /\ UNCHANGED lostCharge
        \/ /\ UNCHANGED table
           /\ lostCharge' = [lostCharge EXCEPT ![t] = @ + 1]
    BY <1>11, <2>1 DEF RecordSettled
  <2> QED
    BY <2>2, <1>11, <1>0, <1>a, NextRowUnique DEF RecordSettled, NextRow, IsNext, TypeOK
<1>12. CASE ReadSettled
  BY <1>12, <1>0, <1>a DEF ReadSettled, ReadBatch, Batch, WithStatus, Fault, IsNext, TypeOK
<1>13. ASSUME NEW t \in Trx,
             Pay(t) PROVE MoneyAt(u)'
  BY <1>13, <1>0, <1>a, NextRowUnique DEF Pay, PayTransfer, Goto, IsNext, TypeOK
<1>14. ASSUME NEW t \in Trx,
             PayLate(t) PROVE MoneyAt(u)'
  BY <1>14, <1>0, <1>a, NextRowUnique DEF PayLate, PayTransfer, NextRow, IsNext, TypeOK
<1>15. ASSUME NEW t \in Trx,
             PayError(t) PROVE MoneyAt(u)'
  BY <1>15, <1>0, <1>a, NextRowUnique DEF PayError, NextRow, IsNext, TypeOK
<1>16. ASSUME NEW t \in Trx,
             RecordDone(t) PROVE MoneyAt(u)'
  <2>1. PutDoneTransaction(table, t, "tx")[u].status = IF u = t THEN "done" ELSE table[u].status
    BY <1>h, <1>s DEF PutDoneTransaction, Rows
  <2>2. \/ /\ table'[u].status = IF u = t THEN "done" ELSE table[u].status
           /\ todo' = todo \ {t} /\ UNCHANGED lostPay
        \/ /\ UNCHANGED table
           /\ todo' = {} /\ lostPay' = [lostPay EXCEPT ![t] = @ + 1]
    BY <1>16, <2>1 DEF RecordDone
  <2> QED
    BY <2>2, <1>16, <1>0, <1>a, NextRowUnique DEF RecordDone, IsNext, TypeOK
<1>17. CASE EndMerchant
  BY <1>17, <1>0, <1>a DEF EndMerchant, Goto, IsNext, TypeOK
<1>18. CASE Crash
  BY <1>18, <1>0, <1>a DEF Crash, IsNext, TypeOK
<1>19. CASE UNCHANGED vars
  BY <1>19, <1>a DEF vars, IsNext
<1> QED
  BY <1>1, <1>2, <1>3, <1>4, <1>5, <1>6, <1>7, <1>8, <1>9, <1>10, <1>11, <1>12, <1>13, <1>14,
     <1>15, <1>16, <1>17, <1>18, <1>19 DEF Next, Http, Processing

\* The money promise as the run checks it, with its strengthening: no
\* interleaving of requests, stale batches, lost answers and crashes charges
\* or pays a withdrawal beyond its approvals, charges and lost outcomes.
THEOREM MoneyCorrect == Spec => []MoneyInv
  BY TypeCorrect, MoneyInit, MoneyNext, PTL DEF Spec

\* A merchant is charged at most once per approval and lost charge
\* (processing-withdraw.go, whatever the batch it read).
THEOREM ChargedCorrect == Spec => []ChargedPerApproval
<1>1. MoneyInv => ChargedPerApproval
  BY DEF MoneyInv, MoneyAt, ChargedPerApproval
<1> QED
  BY <1>1, MoneyCorrect, PTL

\* A customer is paid at most once per charge and lost payment.
THEOREM PaidCorrect == Spec => []PaidPerCharge
<1>1. MoneyInv => PaidPerCharge
  BY DEF MoneyInv, MoneyAt, PaidPerCharge
<1> QED
  BY <1>1, MoneyCorrect, PTL

-----------------------------------------------------------------------------
(* The table tells the truth.                                              *)

LEMMA StatusInit == Init => StatusIsTrue
<1> SUFFICES ASSUME Init, NEW t \in Trx PROVE table[t].status = "absent"
  BY DEF StatusIsTrue
<1> QED
  BY DEF Init, NoRow

(* A step that leaves the rows alone, or writes a status that promises     *)
(* nothing, keeps the table true as long as it takes no transfer back.     *)
LEMMA QuietStepKeepsTruth ==
    ASSUME TypeOK, StatusIsTrue, NEW u \in Trx,
           charged'[u] \in Nat, paid'[u] \in Nat,
           charged'[u] >= charged[u], paid'[u] >= paid[u],
           \/ table'[u] = table[u]
           \/ table'[u].status \in {"init", "processed", "rejected"}
    PROVE  /\ table'[u].status = "settle" =>
                charged'[u] > 0 /\ table'[u].hash3 = "tx"
           /\ table'[u].status = "done" =>
                charged'[u] > 0 /\ paid'[u] > 0 /\ table'[u].hash5 = "tx"
<1>1. charged[u] \in Nat /\ paid[u] \in Nat
  BY DEF TypeOK
<1> QED
  BY <1>1 DEF StatusIsTrue

LEMMA StatusNext ==
    TypeOK /\ MoneyInv /\ StatusIsTrue /\ [Next]_vars => StatusIsTrue'
<1> SUFFICES ASSUME TypeOK, MoneyInv, StatusIsTrue, [Next]_vars, NEW u \in Trx
             PROVE  /\ table'[u].status = "settle" =>
                         charged'[u] > 0 /\ table'[u].hash3 = "tx"
                    /\ table'[u].status = "done" =>
                         charged'[u] > 0 /\ paid'[u] > 0 /\ table'[u].hash5 = "tx"
  BY DEF StatusIsTrue
<1> DEFINE Truth == /\ table'[u].status = "settle" =>
                         charged'[u] > 0 /\ table'[u].hash3 = "tx"
                    /\ table'[u].status = "done" =>
                         charged'[u] > 0 /\ paid'[u] > 0 /\ table'[u].hash5 = "tx"
           Quiet == \/ table'[u] = table[u]
                    \/ table'[u].status \in {"init", "processed", "rejected"}
           Kept == /\ charged'[u] \in Nat /\ paid'[u] \in Nat
                   /\ charged'[u] >= charged[u] /\ paid'[u] >= paid[u]
<1> SUFFICES Truth
  OBVIOUS
<1> USE DEF store, wallets, loop, money
<1>0. charged \in [Trx -> Nat] /\ paid \in [Trx -> Nat] /\ table \in [Trx -> Rows]
  BY DEF TypeOK
<1>q. Quiet /\ Kept => Truth
  BY QuietStepKeepsTruth
<1>k. UNCHANGED <<charged, paid>> => Kept
  BY <1>0
<1> HIDE DEF Kept, Quiet, Truth
<1>1. ASSUME NEW t \in Trx, InitWithdraw(t) PROVE Truth
  BY <1>1, <1>0, <1>q, <1>k DEF InitWithdraw, CreateTransaction, Quiet
<1>2. ASSUME NEW t \in Trx, DeleteWithdraw(t) PROVE Truth
  BY <1>2, <1>0, <1>q, <1>k DEF DeleteWithdraw, RejectTransaction, Quiet, Rows
<1>3. ASSUME NEW t \in Trx, NEW hash \in Hashes, UpdateWithdraw(t, hash) PROVE Truth
  BY <1>3, <1>0, <1>q, <1>k DEF UpdateWithdraw, PutProcessedTransaction, Quiet, Rows
<1>4. ASSUME NEW m \in Merchants, NEW amount \in 1..receiving[m],
             TransferBetweenMerchantWallets(m, amount) PROVE Truth
  BY <1>4, <1>q, <1>k DEF TransferBetweenMerchantWallets, Quiet
<1>5. ASSUME Tick PROVE Truth
  BY <1>5, <1>q, <1>k DEF Tick, Quiet
<1>6. ASSUME NEW m \in Merchants, ReadProcessed(m) PROVE Truth
  BY <1>6, <1>q, <1>k DEF ReadProcessed, Quiet
<1>7. ASSUME NEW t \in Trx, MarkProcessed(t) PROVE Truth
  BY <1>7, <1>0, <1>q, <1>k DEF MarkProcessed, PutProcessedTransaction, Quiet, Rows
<1>8. ASSUME NEW t \in Trx, Collect(t) PROVE Truth
  <2>1. Kept
    BY <1>8, <1>0 DEF Collect, CollectTransfer, Kept
  <2> QED
    BY <1>8, <2>1, <1>q DEF Collect, CollectTransfer, Quiet
<1>9. ASSUME NEW t \in Trx, CollectLate(t) PROVE Truth
  <2>1. Kept
    BY <1>9, <1>0 DEF CollectLate, CollectTransfer, Kept
  <2> QED
    BY <1>9, <2>1, <1>q DEF CollectLate, CollectTransfer, Quiet
<1>10. ASSUME NEW t \in Trx, CollectError(t) PROVE Truth
  BY <1>10, <1>q, <1>k DEF CollectError, Quiet
<1>11. ASSUME NEW t \in Trx, RecordSettled(t) PROVE Truth
  \* the only statement that writes "settle": the row is the one charged
  <2>1. Recording("recordSettled", t)
    BY <1>11 DEF RecordSettled, Recording
  <2>2. charged[t] > 0
    BY <2>1 DEF MoneyInv, MoneyAt, TypeOK
  <2>3. UNCHANGED <<charged, paid>>
    BY <1>11 DEF RecordSettled
  <2>4. CASE u # t
    BY <2>3, <2>4, <1>11, <1>0, <1>q, <1>k
       DEF RecordSettled, PutSettledTransaction, Quiet
  <2>5. CASE u = t /\ table' = PutSettledTransaction(table, t, "tx")
    <3>1. table'[u].status = "settle" /\ table'[u].hash3 = "tx"
      BY <2>5, <1>0 DEF PutSettledTransaction, Rows
    <3> QED
      BY <3>1, <2>2, <2>3, <2>5 DEF Truth
  <2>6. CASE UNCHANGED table
    BY <2>6, <2>3, <1>q, <1>k DEF Quiet
  <2> QED
    BY <2>4, <2>5, <2>6, <1>11 DEF RecordSettled
<1>12. ASSUME ReadSettled PROVE Truth
  BY <1>12, <1>q, <1>k DEF ReadSettled, Quiet
<1>13. ASSUME NEW t \in Trx, Pay(t) PROVE Truth
  <2>1. Kept
    BY <1>13, <1>0 DEF Pay, PayTransfer, Kept
  <2> QED
    BY <1>13, <2>1, <1>q DEF Pay, PayTransfer, Quiet
<1>14. ASSUME NEW t \in Trx, PayLate(t) PROVE Truth
  <2>1. Kept
    BY <1>14, <1>0 DEF PayLate, PayTransfer, Kept
  <2> QED
    BY <1>14, <2>1, <1>q DEF PayLate, PayTransfer, Quiet
<1>15. ASSUME NEW t \in Trx, PayError(t) PROVE Truth
  BY <1>15, <1>q, <1>k DEF PayError, Quiet
<1>16. ASSUME NEW t \in Trx, RecordDone(t) PROVE Truth
  \* the only statement that writes "done": the row is the one paid, and a
  \* payment is never made without a charge
  <2>1. Recording("recordDone", t)
    BY <1>16 DEF RecordDone, Recording
  <2>2. charged[t] > 0 /\ paid[t] > 0
    BY <2>1 DEF MoneyInv, MoneyAt, TypeOK
  <2>3. UNCHANGED <<charged, paid>>
    BY <1>16 DEF RecordDone
  <2>4. CASE u # t
    BY <2>3, <2>4, <1>16, <1>0, <1>q, <1>k
       DEF RecordDone, PutDoneTransaction, Quiet
  <2>5. CASE u = t /\ table' = PutDoneTransaction(table, t, "tx")
    <3>1. table'[u].status = "done" /\ table'[u].hash5 = "tx"
      BY <2>5, <1>0 DEF PutDoneTransaction, Rows
    <3> QED
      BY <3>1, <2>2, <2>3, <2>5 DEF Truth
  <2>6. CASE UNCHANGED table
    BY <2>6, <2>3, <1>q, <1>k DEF Quiet
  <2> QED
    BY <2>4, <2>5, <2>6, <1>16 DEF RecordDone
<1>17. ASSUME EndMerchant PROVE Truth
  BY <1>17, <1>q, <1>k DEF EndMerchant, Quiet
<1>18. ASSUME Crash PROVE Truth
  BY <1>18, <1>q, <1>k DEF Crash, Quiet
<1>19. ASSUME UNCHANGED vars PROVE Truth
  BY <1>19, <1>q, <1>k DEF vars, Quiet
<1> QED
  BY <1>1, <1>2, <1>3, <1>4, <1>5, <1>6, <1>7, <1>8, <1>9, <1>10, <1>11,
     <1>12, <1>13, <1>14, <1>15, <1>16, <1>17, <1>18, <1>19
     DEF Next, Http, Processing

\* A withdrawal the table shows as settled was charged, one it shows as done
\* was charged and paid: the statuses the loop writes are never ahead of the
\* blockchain.
THEOREM StatusCorrect == Spec => []StatusIsTrue
  BY TypeCorrect, MoneyCorrect, StatusInit, StatusNext, PTL DEF Spec

-----------------------------------------------------------------------------
(* Rejections.                                                             *)

(* A row the statement does not name keeps its status.                     *)
LEMMA OtherRowsUntouched ==
    ASSUME NEW t \in Trx, NEW u \in Trx, u # t, NEW h, TypeOK
    PROVE  /\ CreateTransaction(table, t)[u] = table[u]
           /\ PutProcessedTransaction(table, t, h)[u] = table[u]
           /\ PutSettledTransaction(table, t, h)[u] = table[u]
           /\ PutDoneTransaction(table, t, h)[u] = table[u]
  BY DEF TypeOK, CreateTransaction, PutProcessedTransaction,
         PutSettledTransaction, PutDoneTransaction

LEMMA RejectionStep == TypeOK /\ [Next]_vars => [KeepsRejections]_vars
<1> SUFFICES ASSUME TypeOK, [Next]_vars, NEW u \in Trx,
                    table[u].status = "rejected", table'[u].status # "rejected"
             PROVE  u \in todo \/ approved'[u] > approved[u]
  BY DEF KeepsRejections
<1> USE DEF store, wallets, loop, money
<1>1. ~ UNCHANGED table
  OBVIOUS
<1>2. ASSUME NEW t \in Trx, InitWithdraw(t) PROVE FALSE
  <2>1. u # t
    BY <1>2 DEF InitWithdraw, Exists
  <2> QED
    BY <2>1, <1>2, OtherRowsUntouched DEF InitWithdraw
<1>3. ASSUME NEW t \in Trx, DeleteWithdraw(t) PROVE FALSE
  BY <1>3 DEF DeleteWithdraw, RejectTransaction, TypeOK, Rows
<1>4. ASSUME NEW t \in Trx, NEW hash \in Hashes, UpdateWithdraw(t, hash)
      PROVE  approved'[u] > approved[u]
  <2>1. u = t
    BY <1>4, OtherRowsUntouched DEF UpdateWithdraw
  <2> QED
    BY <2>1, <1>4 DEF UpdateWithdraw, TypeOK
<1>5. ASSUME NEW t \in Trx, MarkProcessed(t) \/ RecordSettled(t) \/ RecordDone(t)
      PROVE  u \in todo
  <2>1. \/ table' = PutProcessedTransaction(table, t, "")
        \/ table' = PutSettledTransaction(table, t, "tx")
        \/ table' = PutDoneTransaction(table, t, "tx")
    BY <1>1, <1>5 DEF MarkProcessed, RecordSettled, RecordDone
  <2>2. ASSUME u # t PROVE FALSE
    <3>1. /\ PutProcessedTransaction(table, t, "")[u] = table[u]
          /\ PutSettledTransaction(table, t, "tx")[u] = table[u]
          /\ PutDoneTransaction(table, t, "tx")[u] = table[u]
      BY <2>2 DEF TypeOK, PutProcessedTransaction, PutSettledTransaction,
                  PutDoneTransaction
    <3> QED
      BY <2>1, <3>1
  <2> QED
    BY <2>2, <1>5 DEF MarkProcessed, RecordSettled, RecordDone, IsNext
<1>6. ASSUME UNCHANGED table PROVE FALSE
  BY <1>1, <1>6
<1> QED
  BY <1>2, <1>3, <1>4, <1>5, <1>6
     DEF Next, Http, Processing, Crash, vars, TransferBetweenMerchantWallets,
         Tick, ReadProcessed, Collect, CollectLate, CollectError, CollectTransfer,
         ReadSettled, Pay, PayLate, PayError, PayTransfer, EndMerchant

\* A rejection is undone only by a later approval, or for the one row of the
\* batch the goroutine had already read (DeleteWithdraw against the loop).
THEOREM RejectionCorrect == Spec => RejectionHolds
  BY TypeCorrect, RejectionStep, PTL DEF Spec, RejectionHolds

-----------------------------------------------------------------------------
(* The pipeline implements the money contract.                             *)

LEMMA ContractInit == Init => Contract!Init
  BY DEF Init, Contract!Init, Zero, Contract!Zero

(* A crash that loses the outcome of one row raises its counter by one.    *)
LEMMA LossOfOneRow ==
    ASSUME NEW f \in [Trx -> Nat], NEW t \in Trx
    PROVE  [u \in Trx |-> f[u] + IF u = t THEN 1 ELSE 0] = [f EXCEPT ![t] = @ + 1]
<1>1. \A u \in Trx : f[u] + (IF u = t THEN 1 ELSE 0)
                      = IF u = t THEN f[u] + 1 ELSE f[u]
  OBVIOUS
<1>2. [f EXCEPT ![t] = @ + 1] = [u \in Trx |-> IF u = t THEN f[u] + 1 ELSE f[u]]
  OBVIOUS
<1> QED
  BY <1>1, <1>2

LEMMA ContractStep ==
    TypeOK /\ MoneyInv /\ [Next]_vars => [Contract!Next]_Contract!contractVars
<1> SUFFICES ASSUME TypeOK, MoneyInv, [Next]_vars
             PROVE  Contract!Next \/ UNCHANGED money
  BY DEF Contract!contractVars, money
<1> USE DEF store, wallets, loop
<1>0. /\ charged \in [Trx -> Nat] /\ paid \in [Trx -> Nat]
      /\ lostCharge \in [Trx -> Nat] /\ lostPay \in [Trx -> Nat]
  BY DEF TypeOK
<1>1. ASSUME NEW t \in Trx, NEW hash \in Hashes, UpdateWithdraw(t, hash)
      PROVE  Contract!Approve(t)
  BY <1>1 DEF UpdateWithdraw, Contract!Approve
<1>2. ASSUME NEW t \in Trx, Collect(t) \/ CollectLate(t)
      PROVE  Contract!Charge(t)
  <2>1. pc = "collect" /\ t \in todo
    BY <1>2 DEF Collect, CollectLate, IsNext
  <2>2. charged[t] < approved[t] + lostCharge[t]
    BY <2>1 DEF MoneyInv, MoneyAt, MayCharge, Recording
  <2> QED
    BY <1>2, <2>2 DEF Collect, CollectLate, CollectTransfer, Contract!Charge
<1>3. ASSUME NEW t \in Trx, RecordSettled(t)
      PROVE  Contract!LoseCharge(t) \/ UNCHANGED money
  <2>1. lostCharge[t] < charged[t]
    BY <1>3 DEF RecordSettled, MoneyInv, MoneyAt, Recording
  <2> QED
    BY <1>3, <2>1 DEF RecordSettled, Contract!LoseCharge, money
<1>4. ASSUME NEW t \in Trx, Pay(t) \/ PayLate(t)
      PROVE  Contract!Pay(t)
  <2>1. pc = "settled" /\ t \in todo
    BY <1>4 DEF Pay, PayLate, IsNext
  <2>2. paid[t] < charged[t] + lostPay[t]
    BY <2>1 DEF MoneyInv, MoneyAt, MayPay, Recording
  <2> QED
    BY <1>4, <2>2 DEF Pay, PayLate, PayTransfer, Contract!Pay
<1>5. ASSUME NEW t \in Trx, RecordDone(t)
      PROVE  Contract!LosePay(t) \/ UNCHANGED money
  <2>1. lostPay[t] < paid[t]
    BY <1>5 DEF RecordDone, MoneyInv, MoneyAt, Recording
  <2> QED
    BY <1>5, <2>1 DEF RecordDone, Contract!LosePay, money
<1>6. CASE Crash
  \* at most one row is between its transfer and its statement
  <2>1. \A t, u \in Trx : IsNext(t) /\ IsNext(u) => t = u
    BY NextRowUnique
  <2>2. ASSUME NEW t \in Trx, Recording("recordSettled", t)
        PROVE  Contract!LoseCharge(t)
    <3>1. lostCharge[t] < charged[t]
      BY <2>2 DEF MoneyInv, MoneyAt
    <3>2. \A u \in Trx : pc = "recordSettled" /\ IsNext(u) <=> u = t
      BY <2>1, <2>2 DEF Recording
    <3>3. lostCharge' = [lostCharge EXCEPT ![t] = @ + 1]
      <4>1. lostCharge' = [u \in Trx |-> lostCharge[u] +
                        IF pc = "recordSettled" /\ IsNext(u) THEN 1 ELSE 0]
        BY <1>6 DEF Crash
      <4>2. lostCharge' = [u \in Trx |-> lostCharge[u] + IF u = t THEN 1 ELSE 0]
        BY <4>1, <3>2
      <4> QED
        BY <4>2, <1>0, LossOfOneRow
    <3>4. lostPay' = lostPay
      BY <1>6, <1>0, <2>2 DEF Crash, Recording
    <3> QED
      BY <1>6, <3>1, <3>3, <3>4 DEF Crash, Contract!LoseCharge
  <2>3. ASSUME NEW t \in Trx, Recording("recordDone", t)
        PROVE  Contract!LosePay(t)
    <3>1. lostPay[t] < paid[t]
      BY <2>3 DEF MoneyInv, MoneyAt
    <3>2. \A u \in Trx : pc = "recordDone" /\ IsNext(u) <=> u = t
      BY <2>1, <2>3 DEF Recording
    <3>3. lostPay' = [lostPay EXCEPT ![t] = @ + 1]
      <4>1. lostPay' = [u \in Trx |-> lostPay[u] +
                        IF pc = "recordDone" /\ IsNext(u) THEN 1 ELSE 0]
        BY <1>6 DEF Crash
      <4>2. lostPay' = [u \in Trx |-> lostPay[u] + IF u = t THEN 1 ELSE 0]
        BY <4>1, <3>2
      <4> QED
        BY <4>2, <1>0, LossOfOneRow
    <3>4. lostCharge' = lostCharge
      BY <1>6, <1>0, <2>3 DEF Crash, Recording
    <3> QED
      BY <1>6, <3>1, <3>3, <3>4 DEF Crash, Contract!LosePay
  <2>4. ASSUME \A t \in Trx : /\ ~Recording("recordSettled", t)
                              /\ ~Recording("recordDone", t)
        PROVE  UNCHANGED money
    <3>1. lostCharge' = lostCharge /\ lostPay' = lostPay
      BY <1>6, <1>0, <2>4 DEF Crash, Recording
    <3> QED
      BY <1>6, <3>1 DEF Crash, money
  <2> QED
    BY <2>2, <2>3, <2>4 DEF Contract!Next
<1>7. UNCHANGED money \/ Contract!Next
  BY <1>1, <1>2, <1>3, <1>4, <1>5, <1>6
     DEF Next, Http, Processing, vars, money, InitWithdraw, DeleteWithdraw,
         TransferBetweenMerchantWallets, Tick, ReadProcessed, MarkProcessed,
         CollectError, ReadSettled, PayError, EndMerchant, Contract!Next
<1> QED
  BY <1>7

\* The handlers and the processing goroutine together implement the contract:
\* each step approves, charges, pays or loses one outcome of one withdrawal,
\* within what the contract allows, or changes nothing the contract sees.
THEOREM Refinement == Spec => ImplementsContract
  BY TypeCorrect, MoneyCorrect, ContractInit, ContractStep, PTL
     DEF Spec, ImplementsContract, Contract!Spec

===============================================================================
