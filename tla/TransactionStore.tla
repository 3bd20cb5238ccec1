--------------------------- MODULE TransactionStore ---------------------------
(***************************************************************************)
(* The table "transactions" of modules/storage/transactions.go, as a       *)
(* function from row numbers to rows, and the statements the program runs  *)
(* on it, as operators from a table to a table.                            *)
(*                                                                         *)
(* A row keeps what the processing loop reads back: the status and         *)
(* whether each hash column is empty.  The columns written once and never  *)
(* changed (merchant, user, asset, amount) belong to the module that       *)
(* creates the row; the commission column is written and never read.       *)
(* None of the statements looks at the status the row has: each is an      *)
(* UPDATE ... WHERE guid, merchant_id, external_id.                        *)
(*                                                                         *)
(* Definitions under a comment "Slip:" are not the program's: each is the  *)
(* definition that follows it with a plausible mistake, which a property   *)
(* of the project must notice.                                             *)
(***************************************************************************)

Statuses == {"init", "processed", "settle", "done", "rejected"}

\* A hash column is empty or holds the hash of some blockchain transaction.
Hashes == {"", "tx"}

\* The row that was never inserted.
NoRow == [status |-> "absent", hash2 |-> "", hash3 |-> "", hash5 |-> ""]

Rows == [status : Statuses \cup {"absent"},
         hash2 : Hashes, hash3 : Hashes, hash5 : Hashes]

\* The primary keys that a SELECT on the status returns; "order by
\* created_at" is the order of the keys.
WithStatus(table, s) == {t \in DOMAIN table : table[t].status = s}

CreateTransaction(table, t) ==
    [table EXCEPT ![t] =
        [status |-> "init", hash2 |-> "", hash3 |-> "", hash5 |-> ""]]

RejectTransaction(table, t) ==
    [table EXCEPT ![t].status = "rejected"]

PutInitiatedPendingTransaction(table, t, hash) ==
    [table EXCEPT ![t].status = "init", ![t].hash2 = hash]

\* Slip: the statement forgets the guid and matches every row.
PutProcessedEveryRow(table, t, hash) ==
    [u \in DOMAIN table |->
        IF table[u].status = "absent" THEN table[u]
        ELSE [table[u] EXCEPT !.status = "processed", !.hash2 = hash]]

PutProcessedTransaction(table, t, hash) ==
    [table EXCEPT ![t].status = "processed", ![t].hash2 = hash]

\* Slip: the status is not changed, as in PutInitiatedPendingTransaction.
PutSettledKeepsStatus(table, t, hash) == [table EXCEPT ![t].hash3 = hash]

PutSettledTransaction(table, t, hash) ==
    [table EXCEPT ![t].status = "settle", ![t].hash3 = hash]

\* Slip: the status is not changed.
PutDoneKeepsStatus(table, t, hash) == [table EXCEPT ![t].hash5 = hash]

PutDoneTransaction(table, t, hash) ==
    [table EXCEPT ![t].status = "done", ![t].hash5 = hash]

===============================================================================
