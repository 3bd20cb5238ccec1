------------------------------ MODULE Withdrawals ------------------------------
(***************************************************************************)
(* Withdrawals: the HTTP handlers that create, approve and reject a        *)
(* withdrawal (modules/service/service.go), interleaved with the single    *)
(* goroutine that charges and pays the approved ones on every tick         *)
(* (processing.go, processing-withdraw.go, processor-coreum/withdraw.go).  *)
(*                                                                         *)
(* The goroutine works on a batch it read earlier; every database write    *)
(* and every broadcast is a step of its own and can fail, and the process  *)
(* can crash between any two of them.  Only the database and the           *)
(* blockchain survive a crash.  One asset; gas and keyring errors are part *)
(* of the failure of a transfer.                                           *)
(***************************************************************************)
EXTENDS Integers, TransactionStore

CONSTANTS
    Merchants,          \* merchants with a wallet pair in the blockchain
    MaxTrx,             \* bound: withdrawals ever created
    Owner,              \* Owner[t]: merchant of withdrawal t
    Amount,             \* Amount[t]: tokens asked for, int64(request.Amount)
    Fix, Percent,       \* CommissionSending of every merchant
    InitialReceiving,   \* tokens in a merchant's wallet -R at the start
    InitialSending,     \* tokens in a merchant's wallet -S at the start
    InitialHot,         \* tokens in the processing's sending wallet
    MaxApprovals,       \* bound: approvals of one withdrawal
    MaxFaults           \* bound: failures and crashes

Trx == 1..MaxTrx        \* rows in order of created_at

ASSUME WithdrawalsAssumption ==
    /\ MaxTrx \in Nat
    /\ Owner \in [Trx -> Merchants]
    /\ Amount \in [Trx -> Nat \ {0}]
    /\ Fix \in Nat /\ Percent \in Nat
    /\ InitialReceiving \in Nat /\ InitialSending \in Nat /\ InitialHot \in Nat
    /\ MaxApprovals \in Nat /\ MaxFaults \in Nat

VARIABLES
    table,              \* the rows with action "withdraw"
    receiving, sending, \* balances of the merchants' wallets -R and -S
    hot,                \* balance of the processing's sending wallet
    pc,                 \* what the processing goroutine does next
    queue,              \* merchants this tick has not served yet
    merchant,           \* merchant being served
    todo,               \* rows of the batch read, not processed yet
    faults,             \* failures so far
    (* observations: what happened to each withdrawal *)
    approved, charged, paid, lostCharge, lostPay

store == <<table>>
wallets == <<receiving, sending, hot>>
loop == <<pc, queue, merchant, todo>>
money == <<approved, charged, paid, lostCharge, lostPay>>
vars == <<table, receiving, sending, hot, pc, queue, merchant, todo, faults,
          approved, charged, paid, lostCharge, lostPay>>

Phases == {"idle", "processed", "collect", "recordSettled",
           "settled", "recordDone"}

Zero == [t \in Trx |-> 0]

Init ==
    /\ table = [t \in Trx |-> NoRow]
    /\ receiving = [m \in Merchants |-> InitialReceiving]
    /\ sending = [m \in Merchants |-> InitialSending]
    /\ hot = InitialHot
    /\ pc = "idle" /\ queue = {} /\ merchant \in Merchants /\ todo = {}
    /\ faults = 0
    /\ approved = Zero /\ charged = Zero /\ paid = Zero
    /\ lostCharge = Zero /\ lostPay = Zero

Fault == faults < MaxFaults /\ faults' = faults + 1

Exists(t) == table[t].status # "absent"

-----------------------------------------------------------------------------
(* The HTTP handlers.  A request that names another merchant or user than  *)
(* the row's matches no row, which leaves the table as it is.              *)

\* POST withdraw: the row is created in status init, with an empty hash1.
InitWithdraw(t) ==
    /\ ~Exists(t)
    /\ \A u \in Trx : u < t => Exists(u)
    /\ table' = CreateTransaction(table, t)
    /\ UNCHANGED <<wallets, loop, faults, money>>

\* PUT withdraw: any existing row, whatever its status, becomes processed.
UpdateWithdraw(t, hash) ==
    /\ Exists(t)
    /\ approved[t] < MaxApprovals
    /\ table' = PutProcessedTransaction(table, t, hash)
    /\ approved' = [approved EXCEPT ![t] = @ + 1]
    /\ UNCHANGED <<wallets, loop, faults, charged, paid, lostCharge, lostPay>>

\* DELETE withdraw: any existing row, whatever its status, becomes rejected.
DeleteWithdraw(t) ==
    /\ Exists(t)
    /\ table' = RejectTransaction(table, t)
    /\ UNCHANGED <<wallets, loop, faults, money>>

\* The merchant refills the wallet it withdraws from.
TransferBetweenMerchantWallets(m, amount) ==
    /\ amount <= receiving[m]
    /\ receiving' = [receiving EXCEPT ![m] = @ - amount]
    /\ sending' = [sending EXCEPT ![m] = @ + amount]
    /\ UNCHANGED <<store, hot, loop, faults, money>>

Http ==
    \/ \E t \in Trx : InitWithdraw(t) \/ DeleteWithdraw(t)
    \/ \E t \in Trx, hash \in Hashes : UpdateWithdraw(t, hash)
    \/ \E m \in Merchants : \E amount \in 1..receiving[m] :
            TransferBetweenMerchantWallets(m, amount)

-----------------------------------------------------------------------------
(* The processing goroutine.                                               *)

\* The row the batch loop is at.
IsNext(t) == t \in todo /\ \A u \in todo : t <= u

\* What a SELECT by merchant and status returns; nothing when it fails.
Batch(m, s) == {t \in WithStatus(table, s) : Owner[t] = m}

ReadBatch(m, s) ==
    \/ todo' = Batch(m, s) /\ UNCHANGED faults
    \/ todo' = {} /\ Fault

\* The loop leaves the row it is at and goes back to its head.
NextRow(t, head) ==
    /\ pc' = head
    /\ todo' = todo \ {t}
    /\ UNCHANGED <<queue, merchant>>

Goto(label) == pc' = label /\ UNCHANGED <<queue, merchant, todo>>

\* processTransaction: a tick serves every merchant, in any order.
Tick ==
    /\ pc = "idle" /\ queue = {}
    /\ queue' = Merchants
    /\ UNCHANGED <<store, wallets, pc, merchant, todo, faults, money>>

\* processWithdrawProcessed reads its batch.
ReadProcessed(m) ==
    /\ pc = "idle" /\ m \in queue
    /\ queue' = queue \ {m} /\ merchant' = m /\ pc' = "processed"
    /\ ReadBatch(m, "processed")
    /\ UNCHANGED <<store, wallets, money>>

\* The commission is stored with the row's own (empty) hash1 as its hash2;
\* the result of the statement is not looked at.
MarkProcessed(t) ==
    /\ pc = "processed" /\ IsNext(t)
    /\ \/ table' = PutProcessedTransaction(table, t, "") /\ UNCHANGED faults
       \/ Fault /\ UNCHANGED table
    /\ Goto("collect")
    /\ UNCHANGED <<wallets, money>>

\* The balance Withdraw asks for: amount + commission, in hundredths.
Affordable(t) ==
    100 * sending[Owner[t]] >= 100 * (Amount[t] + Fix) + Percent * (Amount[t] - Fix)

CollectTransfer(t) ==
    /\ Affordable(t) /\ Amount[t] <= sending[Owner[t]]
    /\ sending' = [sending EXCEPT ![Owner[t]] = @ - Amount[t]]
    /\ hot' = hot + Amount[t]
    /\ charged' = [charged EXCEPT ![t] = @ + 1]
    /\ UNCHANGED <<receiving, store, approved, paid, lostPay>>

\* Withdraw: merchant's wallet -S to the processing's sending wallet.
Collect(t) ==
    /\ pc = "collect" /\ IsNext(t)
    /\ CollectTransfer(t)
    /\ Goto("recordSettled")
    /\ UNCHANGED <<faults, lostCharge>>

\* The broadcast times out although the transfer gets into a block.
CollectLate(t) ==
    /\ pc = "collect" /\ IsNext(t)
    /\ CollectTransfer(t)
    /\ lostCharge' = [lostCharge EXCEPT ![t] = @ + 1]
    /\ NextRow(t, "processed")
    /\ Fault

\* Slip: no "continue" after the error of Withdraw.
CollectErrorFallsThrough(t) ==
    /\ pc = "collect" /\ IsNext(t)
    /\ IF Affordable(t) /\ Amount[t] <= sending[Owner[t]]
       THEN Fault ELSE UNCHANGED faults
    /\ Goto("recordSettled")
    /\ UNCHANGED <<store, wallets, money>>

\* Withdraw returns an error and nothing moved.
CollectError(t) ==
    /\ pc = "collect" /\ IsNext(t)
    /\ IF Affordable(t) /\ Amount[t] <= sending[Owner[t]]
       THEN Fault ELSE UNCHANGED faults
    /\ NextRow(t, "processed")
    /\ UNCHANGED <<store, wallets, money>>

\* The result of the statement is not looked at.
RecordSettled(t) ==
    /\ pc = "recordSettled" /\ IsNext(t)
    /\ \/ /\ table' = PutSettledTransaction(table, t, "tx")
          /\ UNCHANGED <<faults, lostCharge>>
       \/ /\ Fault
          /\ lostCharge' = [lostCharge EXCEPT ![t] = @ + 1]
          /\ UNCHANGED table
    /\ NextRow(t, "processed")
    /\ UNCHANGED <<wallets, approved, charged, paid, lostPay>>

\* Slip: the second batch asks for the status of the first.
ReadSettledProcessed ==
    /\ pc = "processed" /\ todo = {}
    /\ ReadBatch(merchant, "processed")
    /\ pc' = "settled"
    /\ UNCHANGED <<store, wallets, queue, merchant, money>>

\* processWithdrawSettled reads its batch.
ReadSettled ==
    /\ pc = "processed" /\ todo = {}
    /\ ReadBatch(merchant, "settle")
    /\ pc' = "settled"
    /\ UNCHANGED <<store, wallets, queue, merchant, money>>

\* Slip: the balance of the sending wallet is not checked.
PayTransferUnchecked(t) ==
    /\ hot' = hot - Amount[t]
    /\ paid' = [paid EXCEPT ![t] = @ + 1]
    /\ UNCHANGED <<receiving, sending, store, approved, charged, lostCharge>>

PayTransfer(t) ==
    /\ Amount[t] <= hot
    /\ hot' = hot - Amount[t]
    /\ paid' = [paid EXCEPT ![t] = @ + 1]
    /\ UNCHANGED <<receiving, sending, store, approved, charged, lostCharge>>

\* TransferFromSending: the processing's sending wallet to the customer.
Pay(t) ==
    /\ pc = "settled" /\ IsNext(t)
    /\ PayTransfer(t)
    /\ Goto("recordDone")
    /\ UNCHANGED <<faults, lostPay>>

PayLate(t) ==
    /\ pc = "settled" /\ IsNext(t)
    /\ PayTransfer(t)
    /\ lostPay' = [lostPay EXCEPT ![t] = @ + 1]
    /\ NextRow(t, "settled")
    /\ Fault

PayError(t) ==
    /\ pc = "settled" /\ IsNext(t)
    /\ IF Amount[t] <= hot THEN Fault ELSE UNCHANGED faults
    /\ NextRow(t, "settled")
    /\ UNCHANGED <<store, wallets, money>>

\* A failed statement abandons the rest of the batch.
RecordDone(t) ==
    /\ pc = "recordDone" /\ IsNext(t)
    /\ pc' = "settled"
    /\ \/ /\ table' = PutDoneTransaction(table, t, "tx")
          /\ todo' = todo \ {t}
          /\ UNCHANGED <<faults, lostPay>>
       \/ /\ Fault
          /\ lostPay' = [lostPay EXCEPT ![t] = @ + 1]
          /\ todo' = {}
          /\ UNCHANGED table
    /\ UNCHANGED <<wallets, queue, merchant, approved, charged, paid, lostCharge>>

EndMerchant ==
    /\ pc = "settled" /\ todo = {}
    /\ Goto("idle")
    /\ UNCHANGED <<store, wallets, faults, money>>

Processing ==
    \/ Tick \/ ReadSettled \/ EndMerchant
    \/ \E m \in Merchants : ReadProcessed(m)
    \/ \E t \in Trx : \/ MarkProcessed(t)
                      \/ Collect(t) \/ CollectLate(t) \/ CollectError(t)
                      \/ RecordSettled(t)
                      \/ Pay(t) \/ PayLate(t) \/ PayError(t)
                      \/ RecordDone(t)

\* The process stops and is started again.
Crash ==
    /\ Fault
    /\ pc' = "idle" /\ queue' = {} /\ todo' = {}
    /\ lostCharge' = [t \in Trx |-> lostCharge[t] +
                        IF pc = "recordSettled" /\ IsNext(t) THEN 1 ELSE 0]
    /\ lostPay' = [t \in Trx |-> lostPay[t] +
                        IF pc = "recordDone" /\ IsNext(t) THEN 1 ELSE 0]
    /\ UNCHANGED <<store, wallets, merchant, approved, charged, paid>>

-----------------------------------------------------------------------------
Next == Http \/ Processing \/ Crash

Spec == Init /\ [][Next]_vars

-----------------------------------------------------------------------------
(* Properties.                                                             *)

\* Every variable has its type; balances never go below zero.
TypeOK ==
    /\ table \in [Trx -> Rows]
    /\ receiving \in [Merchants -> Nat] /\ sending \in [Merchants -> Nat]
    /\ hot \in Nat
    /\ pc \in Phases /\ queue \subseteq Merchants /\ merchant \in Merchants
    /\ todo \subseteq Trx
    /\ pc \in {"collect", "recordSettled", "recordDone"} => todo # {}
    /\ faults \in 0..MaxFaults
    /\ approved \in [Trx -> Nat] /\ charged \in [Trx -> Nat]
    /\ paid \in [Trx -> Nat]
    /\ lostCharge \in [Trx -> Nat] /\ lostPay \in [Trx -> Nat]

\* A merchant is charged for a withdrawal at most once per approval, plus the
\* charges whose outcome never reached the table: whatever requests race with
\* the stale batch of processWithdrawProcessed.
ChargedPerApproval ==
    \A t \in Trx : charged[t] <= approved[t] + lostCharge[t]

\* The processing's sending wallet pays a withdrawal at most once per charge,
\* plus the payments whose PutDoneTransaction was lost: approvals and
\* rejections that race with processWithdrawSettled never make it pay from
\* the tokens of others.
PaidPerCharge ==
    \A t \in Trx : paid[t] <= charged[t] + lostPay[t]

\* What the table tells the merchant has happened: a settled withdrawal was
\* charged and carries the hash of that transfer, a done one was paid too.
StatusIsTrue ==
    \A t \in Trx :
        /\ table[t].status = "settle" => charged[t] > 0 /\ table[t].hash3 = "tx"
        /\ table[t].status = "done" => /\ charged[t] > 0 /\ paid[t] > 0
                                       /\ table[t].hash5 = "tx"

\* The goroutine has moved the tokens of t and not yet written it down.
Recording(label, t) == pc = label /\ IsNext(t)

\* t can still be charged without another approval: its row says processed or
\* the goroutine read it when it did.
MayCharge(t) ==
    /\ \/ table[t].status = "processed"
       \/ pc \in {"processed", "collect", "recordSettled"} /\ t \in todo
    /\ ~Recording("recordSettled", t)

\* t can still be paid without another charge.
MayPay(t) ==
    /\ \/ table[t].status = "settle"
       \/ pc \in {"settled", "recordDone"} /\ t \in todo
       \/ Recording("recordSettled", t)
    /\ ~Recording("recordDone", t)

\* Why the money promise holds: every right to charge is backed by an
\* approval not spent, every right to pay by a charge not spent, and only a
\* transfer that was made can be lost.  Inductive together with TypeOK.
MoneyAt(t) ==
    /\ charged[t] <= approved[t] + lostCharge[t]
    /\ MayCharge(t) => charged[t] < approved[t] + lostCharge[t]
    /\ paid[t] <= charged[t] + lostPay[t]
    /\ MayPay(t) => paid[t] < charged[t] + lostPay[t]
    /\ lostCharge[t] <= charged[t] /\ lostPay[t] <= paid[t]
    /\ Recording("recordSettled", t) => lostCharge[t] < charged[t]
    /\ Recording("recordDone", t) => lostPay[t] < paid[t]

MoneyInv == \A t \in Trx : MoneyAt(t)

\* A rejection holds until the merchant approves again, unless the row was in
\* the batch the goroutine had already read when DeleteWithdraw answered.
KeepsRejections ==
    \A t \in Trx :
        table[t].status = "rejected" /\ table'[t].status # "rejected"
            => t \in todo \/ approved'[t] > approved[t]

RejectionHolds == [][KeepsRejections]_vars

\* The money promise: the pipeline implements WithdrawalContract.
Contract == INSTANCE WithdrawalContract WITH
                Trx <- Trx, approved <- approved, charged <- charged, paid <- paid,
                lostCharge <- lostCharge, lostPay <- lostPay
ImplementsContract == Contract!Spec

(* What a comment of storage/transactions.go says a statement should check *)
(* and the code does not, as a statement about the withdrawals.            *)

\* "only init can be processed" (transactions.go:227): so without failures a
\* withdrawal is paid once.
PaidOnceWithoutFaults ==
    faults = 0 => \A t \in Trx : paid[t] <= 1

===============================================================================
