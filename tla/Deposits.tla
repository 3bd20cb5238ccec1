-------------------------------- MODULE Deposits --------------------------------
(***************************************************************************)
(* Deposits: the streamer goroutine that polls the users' wallets and      *)
(* turns the tokens it finds into rows (processor-coreum/deposit.go,       *)
(* makeDepositCallback), against the processing goroutine that sweeps the  *)
(* tokens of the rows to the receiving wallet and settles them with the    *)
(* merchants on every tick (processing-deposit.go).                        *)
(*                                                                         *)
(* The two goroutines share the table and the blockchain and nothing       *)
(* else.  Every read, write and broadcast is a step of its own and can     *)
(* fail; the process can crash between any two of them.  Gas, keyring and  *)
(* signature errors are part of the failure of a transfer; the deposits'   *)
(* rows are assumed not to be named in requests about withdrawals.         *)
(***************************************************************************)
EXTENDS Integers, FiniteSets, Functions, TransactionStore

CONSTANTS
    Merchants, Assets,
    MaxKey,             \* records of the table of wallets, in order of id
    UserKeys,           \* the records that belong to users, not to merchants
    MerchantOf,         \* MerchantOf[k]: merchant of record k
    MaxTrx,             \* bound: deposits ever created
    MaxDeposit,         \* bound: tokens of one asset one user is ever sent
    Fix, Percent,       \* CommissionReceiving of every merchant
    MinimumValue,       \* smallest transfer from the receiving wallet
    MaxFaults           \* bound: failures and crashes

Keys == 1..MaxKey
Trx == 1..MaxTrx        \* rows in order of created_at

ASSUME DepositsAssumption ==
    /\ MaxKey \in Nat /\ MaxTrx \in Nat /\ MaxDeposit \in Nat
    /\ UserKeys \subseteq Keys
    /\ MerchantOf \in [Keys -> Merchants]
    /\ Fix \in Nat /\ Percent \in Nat
    /\ MinimumValue \in Nat \ {0}
    /\ MaxFaults \in Nat

VARIABLES
    table,              \* the rows with action "deposit"
    deposit,            \* deposit[t]: user, asset and amount of row t
    balance,            \* balance[k][a]: tokens in the wallet of user k
    receiving,          \* receiving[a]: tokens in the receiving wallet
    settled,            \* settled[m]: tokens sent to the wallet -R of m
    (* streamer *)
    spc,                \* what the streamer does next
    cursor,             \* record it polls, or polled last
    snapshot,           \* balances it read
    pending,            \* assets of the snapshot it has not handled
    fresh,              \* the row it is about to insert
    (* processing *)
    pc, queue, merchant, \* as in Withdrawals
    todo,               \* rows of the batch not reached yet
    batch,              \* rows of the processed batch
    acc,                \* amount accumulated over the batch, in hundredths
    unsettled,          \* rows of the batch not marked settled yet
    faults,
    (* observations *)
    arrived,            \* arrived[k][a]: tokens ever sent to user k
    swept, lostSweep,   \* transfers to receiving for t, and those unrecorded
    payouts, lostPay,   \* transfers to the merchant that include t, likewise
    grouped             \* rows that shared a processed batch with another

chain == <<balance, receiving, settled>>
streamer == <<spc, cursor, snapshot, pending, fresh>>
loop == <<pc, queue, merchant, todo, batch, acc, unsettled>>
seen == <<swept, lostSweep, payouts, lostPay, grouped>>
vars == <<table, deposit, balance, receiving, settled,
          spc, cursor, snapshot, pending, fresh,
          pc, queue, merchant, todo, batch, acc, unsettled, faults,
          arrived, swept, lostSweep, payouts, lostPay, grouped>>

Deposit == [user : UserKeys, asset : Assets, amount : Nat]
NoDeposit == [user |-> 0]
Empty == [a \in Assets |-> 0]
Zero == [t \in Trx |-> 0]

Init ==
    /\ table = [t \in Trx |-> NoRow] /\ deposit = [t \in Trx |-> NoDeposit]
    /\ balance = [k \in UserKeys |-> Empty] /\ arrived = balance
    /\ receiving = Empty /\ settled = [m \in Merchants |-> Empty]
    /\ spc = "poll" /\ cursor = 0 /\ snapshot = Empty /\ pending = {}
    /\ fresh = NoDeposit
    /\ pc = "idle" /\ queue = {} /\ merchant \in Merchants /\ todo = {}
    /\ batch = {} /\ acc = 0 /\ unsettled = {}
    /\ faults = 0
    /\ swept = Zero /\ lostSweep = Zero /\ payouts = Zero /\ lostPay = Zero
    /\ grouped = {}

Fault == faults < MaxFaults /\ faults' = faults + 1

Exists(t) == table[t].status # "absent"

\* Raise the counters of the rows in S by one.
Count(counter, S) ==
    [t \in Trx |-> counter[t] + IF t \in S THEN 1 ELSE 0]

\* Somebody sends tokens to the address of a user.
Arrive(k, a, n) ==
    /\ arrived[k][a] + n <= MaxDeposit
    /\ arrived' = [arrived EXCEPT ![k][a] = @ + n]
    /\ balance' = [balance EXCEPT ![k][a] = @ + n]
    /\ UNCHANGED <<table, deposit, receiving, settled, streamer, loop, faults, seen>>

-----------------------------------------------------------------------------
(* The streamer goroutine.                                                 *)

\* The record GetNext returns after the cursor.
NextKey == cursor + 1

\* Slip: the cursor is not set back behind the last record.
PollRestartNever ==
    /\ spc = "poll" /\ Fault
    /\ cursor' = 0
    /\ UNCHANGED <<spc, snapshot, pending, fresh>>

\* No record follows, or GetNext fails: start again.
PollRestart ==
    /\ spc = "poll"
    /\ \/ cursor = MaxKey /\ UNCHANGED faults
       \/ Fault
    /\ cursor' = 0
    /\ UNCHANGED <<spc, snapshot, pending, fresh>>

\* The record is a merchant's wallet, or GetAssetsBalance fails.
PollSkip ==
    /\ spc = "poll" /\ cursor < MaxKey
    /\ \/ NextKey \notin UserKeys /\ UNCHANGED faults
       \/ NextKey \in UserKeys /\ Fault
    /\ cursor' = NextKey
    /\ UNCHANGED <<spc, snapshot, pending, fresh>>

\* GetAssetsBalance: the callback is called for each asset held.
Poll ==
    /\ spc = "poll" /\ cursor < MaxKey /\ NextKey \in UserKeys
    /\ cursor' = NextKey
    /\ snapshot' = balance[NextKey]
    /\ pending' = {a \in Assets : balance[NextKey][a] > 0}
    /\ spc' = "callback"
    /\ UNCHANGED <<fresh, faults>>

PollEnd ==
    /\ spc = "callback" /\ pending = {}
    /\ spc' = "poll" /\ snapshot' = Empty
    /\ UNCHANGED <<cursor, pending, fresh, faults>>

Amounts == [t \in Trx |-> IF Exists(t) THEN deposit[t].amount ELSE 0]

\* GetInitTransactions for the user: whatever their asset.
InitRows(k) == {t \in WithStatus(table, "init") : deposit[t].user = k}
InitTotal(k) == SumFunctionOnSet(Amounts, InitRows(k))

\* The callback finds the amount covered, or fails to read the merchant or
\* the rows.
CallbackDrop(a) ==
    /\ spc = "callback" /\ a \in pending
    /\ \/ snapshot[a] <= InitTotal(cursor) /\ UNCHANGED faults
       \/ Fault
    /\ pending' = pending \ {a}
    /\ UNCHANGED <<spc, cursor, snapshot, fresh>>

\* Slip: no return when nothing remains of the amount.
CallbackCheckAlways(a) ==
    /\ spc = "callback" /\ a \in pending
    /\ \E t \in Trx : ~Exists(t)
    /\ fresh' = [user |-> cursor, asset |-> a,
                 amount |-> snapshot[a] - InitTotal(cursor)]
    /\ pending' = pending \ {a}
    /\ spc' = "create"
    /\ UNCHANGED <<cursor, snapshot, faults>>

\* Slip: the row is made for the whole balance, not for what remains.
CallbackCheckWhole(a) ==
    /\ spc = "callback" /\ a \in pending
    /\ snapshot[a] > InitTotal(cursor)
    /\ \E t \in Trx : ~Exists(t)
    /\ fresh' = [user |-> cursor, asset |-> a, amount |-> snapshot[a]]
    /\ pending' = pending \ {a}
    /\ spc' = "create"
    /\ UNCHANGED <<cursor, snapshot, faults>>

\* A positive amount remains: the callback has decided on a new row for it.
CallbackCheck(a) ==
    /\ spc = "callback" /\ a \in pending
    /\ \E t \in Trx : ~Exists(t)
    /\ \E n \in 1..snapshot[a] :
           /\ InitTotal(cursor) + n = snapshot[a]
           /\ fresh' = [user |-> cursor, asset |-> a, amount |-> n]
    /\ pending' = pending \ {a}
    /\ spc' = "create"
    /\ UNCHANGED <<cursor, snapshot, faults>>

\* CreateTransaction.
CallbackCreate(t) ==
    /\ spc = "create"
    /\ ~Exists(t) /\ \A u \in Trx : u < t => Exists(u)
    /\ \/ /\ table' = CreateTransaction(table, t)
          /\ deposit' = [deposit EXCEPT ![t] = fresh]
          /\ UNCHANGED faults
       \/ Fault /\ UNCHANGED <<table, deposit>>
    /\ spc' = "callback" /\ fresh' = NoDeposit
    /\ UNCHANGED <<cursor, snapshot, pending>>

Streamer ==
    /\ \/ /\ \/ PollRestart \/ PollSkip \/ Poll \/ PollEnd
             \/ \E a \in Assets : CallbackDrop(a) \/ CallbackCheck(a)
          /\ UNCHANGED <<table, deposit>>
       \/ \E t \in Trx : CallbackCreate(t)
    /\ UNCHANGED <<chain, loop, arrived, seen>>

-----------------------------------------------------------------------------
(* The processing goroutine: initiated deposits.                           *)

User(t) == deposit[t].user
Asset(t) == deposit[t].asset
Owner(t) == MerchantOf[User(t)]

IsNext(t) == t \in todo /\ \A u \in todo : t <= u

Batch(m, s) == {t \in WithStatus(table, s) : Owner(t) = m}

Goto(label) == pc' = label /\ UNCHANGED <<queue, merchant, todo>>

NextRow(t, head) ==
    /\ pc' = head
    /\ todo' = todo \ {t}
    /\ UNCHANGED <<queue, merchant>>

Tick ==
    /\ pc = "idle" /\ queue = {}
    /\ queue' = Merchants
    /\ UNCHANGED <<table, chain, pc, merchant, todo, batch, acc, unsettled, faults, seen>>

\* processDepositInitiated reads its batch.
ReadInitiated(m) ==
    /\ pc = "idle" /\ m \in queue
    /\ queue' = queue \ {m} /\ merchant' = m /\ pc' = "initiated"
    /\ \/ todo' = Batch(m, "init") /\ UNCHANGED faults
       \/ todo' = {} /\ Fault
    /\ UNCHANGED <<table, chain, batch, acc, unsettled, seen>>

\* The row carries no transfer; only this loop writes hash2, so what it read
\* with the batch is what the table says.
Unswept(t) == pc = "initiated" /\ IsNext(t) /\ table[t].hash2 = ""

SweepTransfer(t) ==
    /\ deposit[t].amount <= balance[User(t)][Asset(t)]
    /\ balance' = [balance EXCEPT ![User(t)][Asset(t)] = @ - deposit[t].amount]
    /\ receiving' = [receiving EXCEPT ![Asset(t)] = @ + deposit[t].amount]
    /\ swept' = [swept EXCEPT ![t] = @ + 1]
    /\ UNCHANGED <<table, settled, batch, acc, unsettled, payouts, lostPay, grouped>>

\* TransferToReceiving: the user's wallet to the receiving wallet.
Sweep(t) ==
    /\ Unswept(t)
    /\ SweepTransfer(t)
    /\ Goto("recordSwept")
    /\ UNCHANGED <<faults, lostSweep>>

\* The broadcast times out although the transfer gets into a block.
SweepLate(t) ==
    /\ Unswept(t)
    /\ SweepTransfer(t)
    /\ lostSweep' = [lostSweep EXCEPT ![t] = @ + 1]
    /\ NextRow(t, "initiated")
    /\ Fault

\* Slip: no "continue" after the error of TransferToReceiving.
SweepErrorFallsThrough(t) ==
    /\ Unswept(t)
    /\ deposit[t].amount > balance[User(t)][Asset(t)] /\ UNCHANGED faults
    /\ Goto("recordSwept")
    /\ UNCHANGED <<table, chain, batch, acc, unsettled, seen>>

SweepError(t) ==
    /\ Unswept(t)
    /\ IF deposit[t].amount <= balance[User(t)][Asset(t)]
       THEN Fault ELSE UNCHANGED faults
    /\ NextRow(t, "initiated")
    /\ UNCHANGED <<table, chain, batch, acc, unsettled, seen>>

\* The hash is stored, the status is not changed.
RecordSwept(t) ==
    /\ pc = "recordSwept" /\ IsNext(t)
    /\ \/ /\ table' = PutInitiatedPendingTransaction(table, t, "tx")
          /\ UNCHANGED <<faults, lostSweep>>
       \/ /\ Fault
          /\ lostSweep' = [lostSweep EXCEPT ![t] = @ + 1]
          /\ UNCHANGED table
    /\ NextRow(t, "initiated")
    /\ UNCHANGED <<chain, batch, acc, unsettled, swept, payouts, lostPay, grouped>>

\* Slip: the hash is stored once more instead of the new status.
ConfirmSweptPending(t) ==
    /\ pc = "initiated" /\ IsNext(t) /\ table[t].hash2 # ""
    /\ table' = PutInitiatedPendingTransaction(table, t, table[t].hash2)
    /\ NextRow(t, "initiated")
    /\ UNCHANGED <<chain, batch, acc, unsettled, faults, seen>>

\* On a later tick GetTransactionStatus, which always answers "successful",
\* lets the row become processed.
ConfirmSwept(t) ==
    /\ pc = "initiated" /\ IsNext(t) /\ table[t].hash2 # ""
    /\ \/ table' = PutProcessedTransaction(table, t, table[t].hash2) /\ UNCHANGED faults
       \/ Fault /\ UNCHANGED table
    /\ NextRow(t, "initiated")
    /\ UNCHANGED <<chain, batch, acc, unsettled, seen>>

-----------------------------------------------------------------------------
(* The processing goroutine: processed and settled deposits.               *)

\* What a deposit is worth to its merchant, in hundredths of a token.
Net(t) == 100 * (deposit[t].amount - Fix) - Percent * deposit[t].amount

\* processDepositProcessed reads its batch.
ReadProcessed ==
    /\ pc = "initiated" /\ todo = {}
    /\ \/ todo' = Batch(merchant, "processed") /\ UNCHANGED faults
       \/ todo' = {} /\ Fault
    /\ batch' = todo' /\ acc' = 0
    /\ grouped' = IF Cardinality(todo') > 1 THEN grouped \cup todo' ELSE grouped
    /\ pc' = "processed"
    /\ UNCHANGED <<table, chain, queue, merchant, unsettled,
                   swept, lostSweep, payouts, lostPay>>

\* Slip: the commission is stored and not taken off.
AccumulateGross(t) ==
    /\ pc = "processed" /\ IsNext(t)
    /\ \/ table' = PutProcessedTransaction(table, t, "tx") /\ UNCHANGED faults
       \/ Fault /\ UNCHANGED table
    /\ acc' = acc + 100 * deposit[t].amount
    /\ IF acc' > 0 THEN Goto("payout") ELSE NextRow(t, "processed")
    /\ UNCHANGED <<chain, batch, unsettled, seen>>

\* The head of the loop: the row is marked processed again (the result of the
\* statement is not looked at), whatever the loop did to it before.
Accumulate(t) ==
    /\ pc = "processed" /\ IsNext(t)
    /\ \/ table' = PutProcessedTransaction(table, t, "tx") /\ UNCHANGED faults
       \/ Fault /\ UNCHANGED table
    /\ acc' = acc + Net(t)
    /\ IF acc' > 0 THEN Goto("payout") ELSE NextRow(t, "processed")
    /\ UNCHANGED <<chain, batch, unsettled, seen>>

\* int64(request.Amount), in the asset of the row the loop is at.
PayoutAmount == acc \div 100

PayoutAccepted(t) == /\ acc >= 100 * MinimumValue
                     /\ PayoutAmount <= receiving[Asset(t)]

\* The rows whose amounts the transfer is the sum of.
Included(t) == {u \in batch : u <= t}

PayoutTransfer(t) ==
    /\ PayoutAccepted(t)
    /\ receiving' = [receiving EXCEPT ![Asset(t)] = @ - PayoutAmount]
    /\ settled' = [settled EXCEPT ![merchant][Asset(t)] = @ + PayoutAmount]
    /\ payouts' = Count(payouts, Included(t))
    /\ UNCHANGED <<table, balance, batch, acc, swept, lostSweep, grouped>>

\* The processed loop returns: the rest of the batch waits for another tick.
ReturnProcessed ==
    /\ pc' = "processed" /\ todo' = {}
    /\ UNCHANGED <<queue, merchant>>

\* TransferFromReceiving: the receiving wallet to the merchant's wallet -R.
Payout(t) ==
    /\ pc = "payout" /\ IsNext(t)
    /\ PayoutTransfer(t)
    /\ unsettled' = batch
    /\ Goto("recordSettled")
    /\ UNCHANGED <<faults, lostPay>>

\* The transfer gets into a block, but its broadcast times out or the
\* merchant's callback cannot be looked up.
PayoutUnrecorded(t) ==
    /\ pc = "payout" /\ IsNext(t)
    /\ PayoutTransfer(t)
    /\ lostPay' = Count(lostPay, Included(t))
    /\ ReturnProcessed
    /\ Fault
    /\ UNCHANGED unsettled

PayoutError(t) ==
    /\ pc = "payout" /\ IsNext(t)
    /\ IF PayoutAccepted(t) THEN Fault ELSE UNCHANGED faults
    /\ ReturnProcessed
    /\ UNCHANGED <<table, chain, batch, acc, unsettled, seen>>

\* The inner loop is at row u of the batch.
IsNextUnsettled(u) == u \in unsettled /\ \A v \in unsettled : u <= v

\* Every row of the batch is marked settled after every transfer; the result
\* of the statement is not looked at.
RecordSettled(t, u) ==
    /\ pc = "recordSettled" /\ IsNext(t) /\ IsNextUnsettled(u)
    /\ \/ /\ table' = PutSettledTransaction(table, u, "tx")
          /\ UNCHANGED <<faults, lostPay>>
       \/ /\ Fault
          /\ lostPay' = Count(lostPay, {u} \cap Included(t))
          /\ UNCHANGED table
    /\ unsettled' = unsettled \ {u}
    /\ IF unsettled' = {} THEN NextRow(t, "processed") ELSE Goto("recordSettled")
    /\ UNCHANGED <<chain, batch, acc, swept, lostSweep, payouts, grouped>>

\* processDepositSettled reads its batch.
ReadSettled ==
    /\ pc = "processed" /\ todo = {}
    /\ \/ todo' = Batch(merchant, "settle") /\ UNCHANGED faults
       \/ todo' = {} /\ Fault
    /\ pc' = "settled" /\ batch' = {} /\ acc' = 0
    /\ UNCHANGED <<table, chain, queue, merchant, unsettled, seen>>

\* GetTransactionStatus answers "successful" for every hash.
RecordDone(t) ==
    /\ pc = "settled" /\ IsNext(t)
    /\ \/ table' = PutDoneTransaction(table, t, "") /\ UNCHANGED faults
       \/ Fault /\ UNCHANGED table
    /\ NextRow(t, "settled")
    /\ UNCHANGED <<chain, batch, acc, unsettled, seen>>

EndMerchant ==
    /\ pc = "settled" /\ todo = {}
    /\ Goto("idle")
    /\ UNCHANGED <<table, chain, batch, acc, unsettled, faults, seen>>

Processing ==
    /\ \/ Tick \/ ReadProcessed \/ ReadSettled \/ EndMerchant
       \/ \E m \in Merchants : ReadInitiated(m)
       \/ \E t \in Trx :
            \/ Sweep(t) \/ SweepLate(t) \/ SweepError(t)
            \/ RecordSwept(t) \/ ConfirmSwept(t)
            \/ Accumulate(t)
            \/ Payout(t) \/ PayoutUnrecorded(t) \/ PayoutError(t)
            \/ \E u \in Trx : RecordSettled(t, u)
            \/ RecordDone(t)
    /\ UNCHANGED <<deposit, streamer, arrived>>

\* The rows whose transfer is made and not written down yet.
Sweeping == IF pc = "recordSwept" THEN {t \in Trx : IsNext(t)} ELSE {}
Paying == IF pc = "recordSettled"
          THEN {u \in unsettled : \E t \in todo : IsNext(t) /\ u <= t}
          ELSE {}

\* The process stops and is started again.
Crash ==
    /\ Fault
    /\ spc' = "poll" /\ cursor' = 0 /\ snapshot' = Empty /\ pending' = {}
    /\ fresh' = NoDeposit
    /\ pc' = "idle" /\ queue' = {} /\ todo' = {} /\ batch' = {} /\ acc' = 0
    /\ unsettled' = {}
    /\ lostSweep' = Count(lostSweep, Sweeping)
    /\ lostPay' = Count(lostPay, Paying)
    /\ UNCHANGED <<table, deposit, chain, merchant, arrived, swept, payouts, grouped>>

-----------------------------------------------------------------------------
Next ==
    \/ \E k \in UserKeys, a \in Assets : \E n \in 1..MaxDeposit : Arrive(k, a, n)
    \/ Streamer \/ Processing \/ Crash

\* Both goroutines are driven by tickers that never stop; nothing obliges
\* anybody to send tokens.
Fairness == WF_vars(Streamer) /\ WF_vars(Processing)

Spec == Init /\ [][Next]_vars
FairSpec == Spec /\ Fairness

-----------------------------------------------------------------------------
(* Properties.                                                             *)

\* Every variable has its type; no wallet is overdrawn; a row is written only
\* after the transfer it tells of.
TypeOK ==
    /\ table \in [Trx -> Rows]
    /\ deposit \in [Trx -> Deposit \cup {NoDeposit}]
    /\ \A t \in Trx : Exists(t) <=> deposit[t] # NoDeposit
    /\ balance \in [UserKeys -> [Assets -> Nat]]
    /\ receiving \in [Assets -> Nat]
    /\ settled \in [Merchants -> [Assets -> Nat]]
    /\ spc \in {"poll", "callback", "create"} /\ cursor \in 0..MaxKey
    /\ snapshot \in [Assets -> Nat] /\ pending \subseteq Assets
    /\ fresh \in Deposit \cup {NoDeposit}
    /\ pc \in {"idle", "initiated", "recordSwept", "processed", "payout",
               "recordSettled", "settled"}
    /\ queue \subseteq Merchants /\ merchant \in Merchants
    /\ todo \subseteq Trx /\ batch \subseteq Trx /\ unsettled \subseteq batch
    /\ acc \in Int
    /\ faults \in 0..MaxFaults
    /\ arrived \in [UserKeys -> [Assets -> Nat]]
    /\ \A c \in {swept, lostSweep, payouts, lostPay} : c \in [Trx -> Nat]
    /\ grouped \subseteq Trx

\* A deposit is swept from its user at most once, plus the sweeps whose hash
\* never reached the table, and it is credited or paid out only if a sweep
\* was recorded: PutInitiatedPendingTransaction between the broadcast and the
\* next status is what makes the retry of processDepositInitiated safe.
SweptOnce ==
    \A t \in Trx :
        /\ swept[t] <= 1 + lostSweep[t]
        /\ table[t].status \in {"processed", "settle", "done"}
             => swept[t] > lostSweep[t]
        /\ payouts[t] > 0 => swept[t] > lostSweep[t]

\* A deposit that is alone in its batches is paid to its merchant at most
\* once, plus the payouts that were not recorded, and the table says settled
\* or done only of one that was paid.  Batches of several rows break this: each
\* transfer carries the sum of the rows so far and settles the whole batch.
LonePaidOnce ==
    \A t \in Trx \ grouped :
        /\ payouts[t] <= 1 + lostPay[t]
        /\ table[t].status \in {"settle", "done"} => payouts[t] > lostPay[t]

\* A merchant none of whose deposits shared a batch was sent, of every asset,
\* what its deposits are worth after the commission, whole tokens each, as
\* often as they were paid: the sum the loop carries is not more than the row
\* it is at (processing-deposit.go:99-116).
Shares == [t \in Trx |-> IF Exists(t) THEN payouts[t] * (Net(t) \div 100) ELSE 0]
OwnedRows(m, a) == {t \in Trx : Exists(t) /\ Owner(t) = m /\ Asset(t) = a}
Alone(m) == \A t \in grouped : Owner(t) # m
SettledNet ==
    \A m \in Merchants : Alone(m) =>
        \A a \in Assets : settled[m][a] = SumFunctionOnSet(Shares, OwnedRows(m, a))

RowsOf(k, a) == {t \in Trx : Exists(t) /\ User(t) = k /\ Asset(t) = a}
RowsTotal(k, a) == SumFunctionOnSet(Amounts, RowsOf(k, a))

\* As long as nothing is swept from a user, the rows of the user never add up
\* to more than was sent: the streamer sees the same tokens on every poll and
\* must not credit them twice, across errors and restarts.
UnsweptCreditedOnce ==
    \A k \in UserKeys :
        (\A t \in Trx : swept[t] > 0 => User(t) # k)
            => \A a \in Assets : RowsTotal(k, a) <= arrived[k][a]

\* The edges of a deposit's status.  The loop of processDepositProcessed may
\* take a settled row of its own batch back to processed; nothing leaves
\* done, and nothing skips a status.
DepositEdges ==
    {<<"absent", "init">>, <<"init", "processed">>, <<"processed", "settle">>,
     <<"settle", "processed">>, <<"settle", "done">>}

StatusStep ==
    \A t \in Trx :
        LET from == table[t].status  to == table'[t].status
        IN  /\ from # to => <<from, to>> \in DepositEdges
            /\ <<from, to>> = <<"settle", "processed">> => t \in batch

StatusOrder == [][StatusStep]_vars

\* The promise about rows and money: the pipeline implements DepositContract.
Contract == INSTANCE DepositContract WITH
                Trx <- Trx, status <- [t \in Trx |-> table[t].status],
                swept <- swept, lostSweep <- lostSweep, grouped <- grouped,
                payouts <- payouts, lostPay <- lostPay
ImplementsContract == Contract!Spec

\* Tokens in a user's wallet are noticed: a row is eventually made for a user
\* with tokens and no initiated row, whatever the polls that failed before
\* (streamDeposit goes back to the first record after the last and on errors).
Full == \A t \in Trx : Exists(t)
Unnoticed(k) == balance[k] # Empty /\ InitRows(k) = {}
Noticed == \A k \in UserKeys : Unnoticed(k) ~> ~Unnoticed(k) \/ Full

\* A recorded sweep is eventually credited.
Recorded(t) == table[t].status = "init" /\ table[t].hash2 # ""
Credited == \A t \in Trx : Recorded(t) ~> ~Recorded(t)

\* A credited deposit that is alone in its batches is eventually done, unless
\* it is below the minimum or the receiving wallet cannot pay it any more.
Payable(t) ==
    /\ t \notin grouped
    /\ Net(t) >= 100 * MinimumValue
    /\ Net(t) \div 100 <= receiving[Asset(t)]
Outstanding(t) == table[t].status = "processed" /\ Payable(t)
Finished(t) == \/ table[t].status = "done"
               \/ table[t].status = "processed" /\ ~Payable(t)
LoneDone == \A t \in Trx : Outstanding(t) ~> Finished(t)

(* What the comments of the code say of deposits and the code does not do. *)

\* "find all initiated transaction by merchant for user and check if it
\* covers the amount" (processing.go:40): tokens are left without a row only
\* if initiated rows of the same asset cover them.
SameAssetTotal(k, a) ==
    SumFunctionOnSet(Amounts, {t \in InitRows(k) : Asset(t) = a})
DropsCovered ==
    \A a \in pending \ pending' :
        spc' = "callback" /\ UNCHANGED faults
            => snapshot[a] <= SameAssetTotal(cursor, a)
CoveredBySameAsset == [][DropsCovered]_vars

\* "if not create new transaction for reminding amount" (processing.go:41):
\* the rows of a user never add up to more than the user was sent.
RowsWithinDeposits ==
    \A k \in UserKeys, a \in Assets : RowsTotal(k, a) <= arrived[k][a]

===============================================================================
