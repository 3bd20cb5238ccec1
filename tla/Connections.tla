------------------------------ MODULE Connections ------------------------------
(***************************************************************************)
(* Connections: Withdrawals on the pool of database connections            *)
(* (cmd/internal/app-init-db.go).                                          *)
(*                                                                         *)
(* An INSERT or UPDATE of the transaction store is run with db.Query, and  *)
(* its rows are neither read nor closed: the statement is done, and its    *)
(* connection is never given back (storage/transactions.go).  A SELECT is  *)
(* read to its end, which gives its connection back.  When no connection   *)
(* is left every call waits for one, without an end and without an error:  *)
(* only a restart helps.                                                   *)
(***************************************************************************)
EXTENDS Withdrawals, FiniteSets

CONSTANT MaxOpenConns       \* connections of the pool

ASSUME ConnectionsAssumption == MaxOpenConns \in Nat \ {0}

VARIABLES
    leaked,             \* connections that are never given back
    notify,             \* the goroutine is about to look up a callback
    restarts            \* observation: restarts so far

pool == <<leaked, notify, restarts>>
poolVars == <<vars, pool>>

Exhausted == leaked = MaxOpenConns

PoolInit == Init /\ leaked = 0 /\ notify = FALSE /\ restarts = 0

(* A call that gives its connection back.                                  *)
Read(A) == ~Exhausted /\ A /\ UNCHANGED pool

(* A call that keeps it, unless the statement failed.                      *)
Keep == leaked' = IF faults' = faults THEN leaked + 1 ELSE leaked
(* Slip: no bound on the pool.                                             *)
WriteUnbounded(A) == A /\ Keep /\ UNCHANGED <<notify, restarts>>

Write(A) == ~Exhausted /\ A /\ Keep /\ UNCHANGED <<notify, restarts>>

(* A statement the goroutine follows with a callback to the merchant.      *)
WriteAndNotify(A, failed) ==
    /\ ~Exhausted /\ A /\ Keep
    /\ notify' = (failed \/ faults' = faults)
    /\ UNCHANGED restarts

---------------------------------------------------------------------------
PoolHttp ==
    \/ \E t \in Trx : Write(InitWithdraw(t)) \/ Write(DeleteWithdraw(t))
    \/ \E t \in Trx, hash \in Hashes : Write(UpdateWithdraw(t, hash))
    \/ \E m \in Merchants : \E amount \in 1..receiving[m] :
            Read(TransferBetweenMerchantWallets(m, amount))

(* callBack.GetTransactionFn reads the merchant's value.                   *)
GetTransactionFn ==
    /\ notify /\ ~Exhausted
    /\ notify' = FALSE
    /\ UNCHANGED <<vars, leaked, restarts>>

(* Withdraw reads wallets of the key store before it transfers;            *)
(* TransferFromSending reads nothing.                                      *)
PoolProcessing ==
    \/ GetTransactionFn
    \/ /\ ~notify
       /\ \/ Read(Tick) \/ Read(ReadSettled)
          \/ EndMerchant /\ UNCHANGED pool
          \/ \E m \in Merchants : Read(ReadProcessed(m))
          \/ \E t \in Trx : \/ Write(MarkProcessed(t))
                            \/ Read(Collect(t)) \/ Read(CollectLate(t))
                            \/ Read(CollectError(t))
                            \/ WriteAndNotify(RecordSettled(t), TRUE)
                            \/ (Pay(t) \/ PayLate(t) \/ PayError(t)) /\ UNCHANGED pool
                            \/ WriteAndNotify(RecordDone(t), FALSE)

(* Deposits, assets and tokens: statements of others on the same pool.     *)
OtherStatement ==
    /\ ~Exhausted /\ leaked' = leaked + 1
    /\ UNCHANGED <<vars, notify, restarts>>

Restart ==
    /\ Crash
    /\ leaked' = 0 /\ notify' = FALSE /\ restarts' = restarts + 1

PoolNext == PoolHttp \/ PoolProcessing \/ OtherStatement \/ Restart

(* The ticker never stops: the goroutine takes the next step it can take.  *)
PoolSpec == PoolInit /\ [][PoolNext]_poolVars
PoolFairSpec == PoolSpec /\ WF_poolVars(PoolProcessing)

---------------------------------------------------------------------------
(* Properties                                                              *)

(* The types of the pool.                                                  *)
PoolTypeOK ==
    /\ leaked \in 0..MaxOpenConns
    /\ notify \in BOOLEAN
    /\ restarts \in Nat

(* A withdrawal that is done has cost five connections, less those of      *)
(* statements that failed: it was created, approved, marked, settled and   *)
(* done.  So the pool of 50 is spent after ten withdrawals at most, and    *)
(* the service is to be restarted before (transactions.go:190-257,         *)
(* app-init-db.go:32).                                                     *)
FivePerWithdrawal ==
    restarts = 0 =>
        5 * Cardinality({t \in Trx : table[t].status = "done"}) <= leaked + faults

(* The withdrawal is closed, or there are no tokens to go on with it.      *)
Closed(t) == \/ table[t].status \in {"done", "rejected"}
             \/ ~Affordable(t)
             \/ hot < Amount[t]

(* An approved withdrawal is eventually done or rejected, as long as its   *)
(* merchant can afford it and tokens are left in the sending wallet, or    *)
(* the pool runs out: the batch loops skip rows on errors, and must come   *)
(* back to them.                                                           *)
ServedOrExhausted ==
    \A t \in Trx : (table[t].status = "processed") ~> (Closed(t) \/ Exhausted)

=============================================================================
