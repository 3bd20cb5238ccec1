# TLA+ models of coreum_processor

coreum_processor keeps wallets for merchants and their users on the Coreum
blockchain, credits deposits, pays withdrawals, and issues and mints tokens.
What is hard in it is money that moves between wallets while several goroutines
write one PostgreSQL table, and every step can fail: this project models that
first, and then the accounts, wallets, tokens, users and connections the money
depends on. It holds TLA+ modules, TLC instances of them, and proofs for TLAPS.

    tlc -config Withdrawals_safety.cfg MCWithdrawals     # model-check one run
    tlapm WithdrawalsProofs.tla                          # check the proofs

`PROJECT.json` lists runs, theorems, the source lines each definition stands
for, and, for every checked property, a mistake in the code ("slip") that makes
the property fail.

## 1. Inventory of the system

| Component | State | Operations | Hard behaviours | Model |
|---|---|---|---|---|
| Transaction store (`modules/storage/transactions.go`) | table `transactions`: status, amounts, hashes | create, reject, put initiated/processed/settled/done | no statement looks at the status it replaces; `db.Query` for updates keeps connections | `TransactionStore` |
| Withdrawals (`service.go`, `processing-withdraw.go`, `processor-coreum/withdraw.go`) | rows, wallets -R and -S of merchants, sending wallet | POST/PUT/DELETE withdraw, refill of -S, charge, pay | requests against a stale batch; lost outcomes; restarts; lost or late broadcasts | `Withdrawals` |
| Deposits (`processor-coreum/deposit.go`, `processing.go`, `processing-deposit.go`) | rows, users' wallets, receiving wallet, cursor of the streamer | poll, callback, sweep, confirm, settle, complete | two goroutines; a snapshot used after a sweep; batches settled together; the in-memory cursor | `Deposits` |
| Coreum transfers (`processor.go`, `transfer.go`, `withdraw.go`, `broadcasttx.go`) | the chain: gas and sequence of each account; the in-memory keyring | six transfers, gas top-up, broadcast, the wait for a block | a timeout after the transaction landed; one keyring for everybody; the sequence read before it is used | `Transfers`; amounts in the two pipelines |
| Wallet creation, key store (`createwallet.go`, `deposit.go`, `storage/keys.go`) | table `coreum_wallets`, accounts on the chain, keyring | look up, create, fund, activate, store | an account is funded before its keys are stored; concurrent creation for one user; the unique index | `Accounts` |
| Merchant data (`service/merchant.go`, `storage_postgres.go`, `handler/form.go`, `handler/merchants.go`) | one JSON value per merchant | update, commission, callback URL, key, create wallet | read-modify-write of the whole value, across blockchain transactions | `Accounts` |
| Users (`storage/users.go`, `user/`, `handler/middleware.go`, UI wizard and admin) | tables `users`, `merchant_list`, `merchant_users`, `merchants` | register, names, link, request, approve, block | the whole row is written back from an older copy; several statements per request; one approval for all pending requests; an approval that overwrites what an overlapping one has just given | `Onboarding` |
| Assets (`storage/assets.go`, `issue.go`, `mint.go`, `burn.go`) | asset rows, tokens and NFT classes on the chain | request, approve, reject, issue, activate, mint, burn, new class | issue, transfer and activation are separate; two statements to reject; a NULL issuer; retries | `Assets` |
| Multisignature rounds (`broadcasttx.go`, `cmd/multisign-service`) | account sequence, signatures | ask addresses, sign, broadcast | sequence read before the callback; the threshold counted on two sides | `Transfers`; the first transaction of a wallet in `Accounts` |
| Database connections (`app-init-db.go`) | pool of 50 | query, exec | updates run as queries never give the connection back; then everybody waits | `Connections` |
| Callbacks (`callbacks.go`), tokens and middleware, pages, `storage/tokens.go` | none that the others read | - | - | not modelled: output, cryptography, pages, unused code |

How they interact: HTTP handlers, the streamer and the processing goroutine run
concurrently and share only the database and the blockchain. The processing
goroutine is driven by a ticker (`service.go:57-74`); on every tick it serves
each merchant in turn, deposits first, then withdrawals (`processing.go:70-102`).
The streamer has its own ticker and polls one wallet per tick
(`processor-coreum/deposit.go:59-97`).

What makes each part correct: a withdrawal is charged once per approval and
paid once per charge; a deposit is swept and credited once; a status in the
table is never ahead of the chain; a rejection holds; a transfer answers what
happened, in the order of its account and with the signatures its wallet asks
for; the address a user is told is one whose keys are stored; a user who is
onboarded has a merchant that exists; an entry for a blockchain has its two wallets; an
update of a merchant is lost only to one it overlaps; an active asset has a token
behind it; tokens stay at an issuer only after a failure; what can go on, goes
on, as long as there is a connection.

## 2. Modules

| Module | What it is |
|---|---|
| `TransactionStore` | the table as a function from row numbers to rows, each statement an operator on it |
| `WithdrawalContract` | abstract: approvals, charges and payments of a withdrawal and how many of each there may be |
| `Withdrawals` | detailed: handlers, processing loop, failures, restarts; implements the contract |
| `MCWithdrawals` | values for TLC |
| `WithdrawalsProofs` | theorems about `Withdrawals` |
| `Connections`, `MCConnections` | `Withdrawals` composed with the pool of database connections |
| `ConnectionsProofs` | theorems about `Connections`, which implements `Withdrawals` |
| `DepositContract` | abstract: sweeps, credits and payouts of deposits and how many of each there may be |
| `Deposits`, `MCDeposits` | streamer and processing loop for deposits; implements the contract |
| `DepositsProofs` | theorems about `Deposits` |
| `SumTheorems` | what sums over finite sets are (`SumFunctionOnSet` of the community modules), for the proofs of `Deposits` and `Assets` |
| `TransferContract` | abstract: what a transfer's answer tells its caller about its tokens |
| `Transfers`, `MCTransfers` | one transfer from its gas to its block, many at once; implements the contract |
| `TransfersProofs` | theorems about `Transfers` |
| `WalletContract` | abstract: when the keys of an address are stored, paid for, activated and given out |
| `Accounts`, `MCAccounts`, `AccountsProofs` | concurrent requests on one merchant's data and wallets, theorems, and the refinement of the contract |
| `Onboarding`, `MCOnboarding`, `OnboardingProofs` | the wizard's forms and the administrator's approvals, and theorems |
| `Assets`, `MCAssets`, `AssetsProofs` | concurrent requests on the assets of one code and its tokens and NFT classes on the chain, and theorems |

Every module but `Connections` stands alone: the parts share tables and accounts,
and each module keeps, of what the others do, a failure or a nondeterministic
choice. `Connections` EXTENDS `Withdrawals` and wraps each of its actions.

### Withdrawals

A row (`table[t]`) has the status and, for each hash column the loop writes,
whether it is empty. `Owner` and `Amount` are the columns written at creation.
`receiving`, `sending` and `hot` are the wallets -R and -S of the merchants and
the sending wallet of the processing. `pc`, `queue`, `merchant` and `todo` are
the processing goroutine: what it does next, the merchants the tick has not
served, and the rows of the batch it read and has not dealt with. The batch is
read once and used later, as in the code.

| Action | Code |
|---|---|
| `InitWithdraw`, `UpdateWithdraw`, `DeleteWithdraw` | the handlers and `service.go:294-345` |
| `TransferBetweenMerchantWallets` | the merchant moves tokens from -R to -S |
| `Tick`, `ReadProcessed`, `ReadSettled`, `EndMerchant` | the loops of `processTransaction` and `processWithdraw` |
| `MarkProcessed` | the statement at the head of the loop, which writes the commission (and the empty `Hash1` as `hash2`) |
| `Collect`, `CollectLate`, `CollectError` | `Withdraw` succeeds, lands although it reports an error, or fails |
| `RecordSettled` | `PutSettledTransaction`, whose failure nobody notices |
| `Pay`, `PayLate`, `PayError`, `RecordDone` | `TransferFromSending` and `PutDoneTransaction`, whose failure ends the batch |
| `Crash` | a restart: the goroutine's variables are lost |

`approved`, `charged`, `paid`, `lostCharge`, `lostPay` are observations: they
count what happened and guard nothing but the bound on approvals. An outcome is
*lost* when a transfer was made and the program did not write it down, because
the broadcast timed out, a statement failed, or the process stopped.

Properties:

* `ChargedPerApproval`, `PaidPerCharge`: the money promise. They hold although
  no statement checks the status it replaces, and this is not obvious: a
  withdrawal approved again while its charge is being broadcast is settled over
  the approval. `MoneyInv` says why they hold, see section 5.
* `StatusIsTrue`: settled rows were charged, done rows charged and paid.
* `RejectionHolds`: a rejection is undone only by a later approval or by the
  batch the loop had already read.
* `ImplementsContract`: `Withdrawals` implements `WithdrawalContract`
  (`INSTANCE WithdrawalContract WITH`), whose approvals, charges and payments are
  the observations of the same names.

What does *not* hold, a run that must find a violation: `PaidOnceWithoutFaults`.
The comments of `transactions.go` say which status each statement should
require; as none is required, approving a done withdrawal pays it again. For
the same reason a rejection is accepted after the tokens were taken, and one
answered while the payment is under way is overwritten by done.

### Connections

`db.Query` lends a connection until its rows are read to the end or closed. The
SELECTs read them; the INSERTs and UPDATEs of `transactions.go` do neither, so
each keeps its connection until a restart, and the pool of 50 has no timeout:
when it is empty every call waits. `leaked` counts the connections kept,
`notify` says that the goroutine is about to look up the merchant's callback,
which takes a connection for a moment, and `restarts` counts restarts.

`Read` and `Write` wrap the actions of `Withdrawals` by what their call does with
its connection; a failed statement gives it back. `Pay`, `PayLate` and `PayError`
touch no table and go on when the pool is empty. `OtherStatement` is any
statement of another part that keeps a connection; `Restart` is `Crash` with an
empty pool.

* `FivePerWithdrawal`: a withdrawal that is done has cost five connections (it
  was created, approved, marked, settled, done), less failed statements. So ten
  withdrawals without a restart exhaust the pool of 50.
* `ServedOrExhausted` (liveness): an approved withdrawal is done or rejected,
  unless its merchant cannot afford it, the sending wallet was emptied, or the
  pool is. Rows that fail are skipped on a tick and reached again on a later one.

An exhausted pool is a state in which the processor waits for ever: the run says
`CHECK_DEADLOCK FALSE` because that stop is real.

### Deposits

`table` holds the rows of deposits and `deposit[t]` their user, asset and
amount. `balance` are the users' wallets, `receiving` the receiving wallet,
`settled` what reached the merchants. The streamer has a program counter, the
`cursor` (the id it passes to `GetNext`), the `snapshot` of the balances it
read, the assets of it still `pending`, and the row it has decided to insert
(`fresh`). The processing goroutine is as in `Withdrawals`, with the `batch`
it settles together, the accumulated amount `acc` in hundredths of a token, and
the rows `unsettled` of the inner loop.

| Action | Code |
|---|---|
| `Arrive` | tokens are sent to a user's address |
| `PollRestart`, `PollSkip`, `Poll`, `PollEnd` | one tick of `streamDeposit`; `PollSkip` also passes over the merchants' own wallets |
| `CallbackDrop`, `CallbackCheck`, `CallbackCreate` | `makeDepositCallback`: covered or failed; a positive amount remains and needs a row; the row is inserted |
| `ReadInitiated`, `Sweep*`, `RecordSwept`, `ConfirmSwept` | `processDepositInitiated` |
| `ReadProcessed`, `Accumulate`, `Payout*`, `RecordSettled` | `processDepositProcessed`, the inner loop one row at a time |
| `ReadSettled`, `RecordDone`, `EndMerchant` | `processDepositSettled` |
| `Crash` | a restart |

Properties:

* `SweptOnce`: a deposit is swept once, plus the sweeps whose hash was lost, and
  is credited or paid only when a sweep was recorded.
* `UnsweptCreditedOnce`: the streamer, which sees the same tokens at each poll,
  never credits them twice as long as nothing was swept.
* `ImplementsContract`: `Deposits` implements `DepositContract`. A deposit is
  swept again only when the sweep before was lost, credited after a sweep that
  was recorded, and, when it never shared a batch, paid alone, again only when
  the payout before was lost, and settled after one that was recorded; no status
  is skipped, done is final, and only a row that shared a batch is taken back
  from settled. The contract's variables are the column `status` and the
  observations of the same names. Of deposits that shared a batch it promises
  only that they are open while they are paid.
* `SettledNet`: a merchant none of whose deposits shared a batch is sent, of each
  asset, exactly the net amounts of its deposits, each as often as it was paid.
  The sum the loop carries from row to row, which is what goes wrong in a batch
  of several, is then the row's own amount.
* `Noticed`, `Credited`, `LoneDone` (liveness): tokens get a row, recorded
  sweeps are credited, a lone payable deposit is done.

What does not hold, each a run that must find a violation:

* `CoveredBySameAsset`: initiated rows of one asset hide tokens of another.
* `RowsWithinDeposits`: a balance read before a sweep and compared after it
  gives the same tokens a second row. Such a row is never swept by itself: it
  waits until tokens arrive again, and counts as cover for them.

`LonePaidOnce` and `StatusOrder` say about the counters and about the statuses
what the contract says step by step. They are theorems and no run checks them.

Batches of several rows are modelled as the code settles them, and no property
says they are paid right: after each transfer the whole batch is settled, and
the next transfer carries the sum of all rows so far. In a batch of deposits
worth a, b the merchant is sent a and then a + b, from whatever tokens are in
the receiving wallet; when the second transfer of three fails, the third row is
settled, then done, without having been in any transfer; and a batch with two
assets is paid in the asset of the row the loop is at.

### Transfers

A request `r` is one call of a transfer: `op[r]` says which (`sweep`, `withdraw`,
`ft`, `pay`, `send`, `nft`), `from[r]` the account it moves from, `pc[r]` what it
does next, and `part[r]` whether it is at its own transaction or at the one that
tops up the gas. `keyring` is the one in-memory keyring of the process and
`held[r]` the keys `r` has put there and deletes when it returns. `gas` and
`sequence` are the chain's, gas counted in transactions; `pool` are the
transactions that wait at the nodes. `Own[a]` is the account of the key the
processor has for `a`, another account when `a` is a multisignature wallet.

| Action | Code |
|---|---|
| `TransferToReceiving`, `Withdraw`, `TransferFT`, `TransferFromReceiving`, `TransferFromSending`, `TransferNFT` | a call of that function |
| `Hold`, `GetAccountInfo` | `Keyring.NewAccount`, refused when the key is there; a multisignature wallet reads its sequence instead |
| `UpdateGas`, `TopUp` | `updateGas`: look at the balance, send gas from the sending wallet |
| `MultiSign` | the processor's signature and the answer of `multisign-service`, which stops at the number it is asked for |
| `BroadcastTx`, `BroadcastRawTx` | read the sequence; a node takes the transaction or refuses sequence or fee |
| `AwaitTx`, `Timeout`, `Fail` | the block, the end of the wait, an error before the broadcast |
| `Include`, `Drop`, `Crash` | the chain takes or drops a transaction; a restart empties the keyring |

* `KeysKept`: a key in the keyring belongs to one transfer at work; nobody
  deletes the key another one signs with, and none is left behind.
* `InTurn`: the keyring is the only lock of an account with one key, and it is
  enough: its transaction is refused for its sequence only after a transfer that
  gave up waiting.
* `ImplementsContract`: `Transfers` implements `TransferContract`. Tokens move at
  most once, a success is answered after they moved, and an error is final unless
  the transfer gave up waiting, or a restart gave it up, and then they may still
  move. Two transfers are careless: `TransferFT` and `TransferNFT` answer missing
  gas as success without a hash, and then nothing ever moves. The invariant
  `AnswerIsTrue` says the same of the counters, and `AnswerIsFinal` that after an
  answer the tokens move only for a transfer that gave up waiting; both are
  theorems.
* `Consent`: tokens leave a multisignature wallet only with as many signatures as
  its threshold, the merchant's among them.
* `GasIsChecked`: a transfer is refused for gas only if another one spent it in
  between or the gas it looked at was that of another account.

`sweep` and `ft` look at the gas of the processor's own key although a
multisignature wallet pays its fee itself; `GasIsChecked` names that case.

### Accounts

One merchant and one blockchain: statements of two merchants touch different
rows. `data` is the merchant's value, `keys` the table of wallets by external
id, `funded` and `activated` the multisignature accounts on the chain. A request
`r` has an operation `op[r]`, a program counter `pc[r]`, the value it read last
(`seen[r]`), the fields it will write (`want[r]`), and the external id it looks
up or creates (`ext[r]`). An address is named by the request that created it,
because it comes from a fresh mnemonic.

| Action | Code |
|---|---|
| `PublicKeySaver`, `UpdateCallbackUrl`, `UpdateMerchant`, `UpdateMerchantCommission`, `CreateWallet`, `Deposit` | a request arrives at the handler of that name |
| `ReadForm`, `ReadCreate`, `ReadAgain` | the reads of the value; the forms read it twice |
| `WriteMerchant` | `Put` of the whole value |
| `Lookup`, `Put` | `GetByUser` and `Put` of `storage/keys.go`; `Put` is refused by the unique index on merchant and external id |
| `ChooseSigners`, `Fund`, `Activate` | `createCoreumWallet`: one key, or a multisignature account that is funded and makes a first transaction |
| `Fail`, `LandLate`, `Crash` | a step fails; a transaction lands although its broadcast reports an error; a restart |

`answered`, `failed` and `stale` are observations; `stale[r]` are the fields
another request changed since `r` read them.

Properties:

* `AnswersHold`: an address told to a user is the one whose keys are stored.
* `FundedIsStored`: tokens are left in an account whose keys are lost only by a
  request that ended in an error.
* `EntryHasWallets`: an entry has both wallets, unless a commission request
  wrote it and has not finished or failed in between.
* `NoOtherLoss`: a write undoes another update only when the two overlap.
* `RefusedHasWallet`: a deposit request refused although nothing of it failed
  (the name was taken in the keyring, or the index refused the record) leaves a
  user who has a wallet or for whom another request was creating one: no two
  requests refuse each other.
* `StoredIsActivated` (proved, not in a run): no multisignature wallet is stored
  before its first transaction.
* `ImplementsContract` (proved, not in a run): `Accounts` implements
  `WalletContract`. A new address gets gas once and makes its first transaction
  once, both while no keys are stored for it; the keys of an id are stored once
  and never replaced; and an address is given out only when its keys are stored.
  It says step by step what `AnswersHold` and `StoredIsActivated` say of states,
  and besides that gas is sent to an address only once.

`Put` updates on a conflict of the key only: a second record of a user is
refused by the unique index, after its account was funded. A `CreateWallet`
whose second wallet fails can therefore never be repeated: `Put` refuses the
first one each time. And what `NoOtherLoss` allows does happen: a commission
answered as set is lost to the write of an older value, and with `CreateWallet`
the window is as long as two blockchain transactions for each of two wallets.

### Onboarding

`user[u]` are the access bits of the row in `users`, `merchants` the keys of
table `merchants`, `list` the merchant id of each row of `merchant_list` (`None`
while the request is pending), `links` the rows of `merchant_users`. A request
has the user `who[r]`, the merchant `mid[r]` it is about (an approval makes up
its own), and `seen[r]`, the access bits it read. The middleware reads them
before the handler of a form runs, and `UpdateUser` and `SetUserAccess` write
them back. `view[r]` are the rows of its user as the snapshot of an approval's
statement shows them.

No transaction spans two statements, so every statement runs by itself under
PostgreSQL's default, READ COMMITTED. `storage.ApproveUserMerchant`
(`users.go:194-208`) is the one of these that tests a column it also writes, and
tests it in a subquery only: its `merchant_id IS NULL` belongs to the snapshot, and a statement that
had to wait for the row's lock looks again only at the row's id. So it is two
actions, `ApproveUserMerchant` (the snapshot) and `AssignMerchantId` (the write,
which does not look at what the row has meanwhile), and other statements, another
approval's too, may come in between.

| Action | Code |
|---|---|
| `CreateUser`, `Block` | the registration hook; an operator's change in the database |
| `WizardNames`, `WizardLink`, `WizardRequest` | the middleware and `PageWizardMerchantUpdate`, by step |
| `UpdateUser`, `LinkUserToMerchant`, `SetUserAccess`, `RequestMerchantForUser` | the statements of those forms |
| `PageRequestsAdminUpdate`, `CreateMerchants`, `GetUser`, `ApproveUserMerchant`, `AssignMerchantId` | the approval and its statements, then the link and the access as above |
| `Fail`, `Crash` | a statement fails (that of `SetUserAccess` is only logged); a restart |

* `OnboardedHasMerchant`: a user marked onboarded has a merchant.
* `SessionIsStored`: the merchant a session works for has its value stored.
* `ApprovedOrOverwritten`: an approval answered as done filled one row of the
  user it named, and the row has its merchant, or that of another approval of the
  same user that had read the row as pending, too. So an approval that starts
  after another one has written takes nothing from it, and a row once filled is
  never empty.
* `GrantedIsOnboarded`: who got a merchant is marked onboarded, unless a
  statement failed or an older copy of the row was written back.
* `AccessHolds`: onboarding and blocking are undone only by a write of a request
  that had read the user before, and the bits become those it had read, with
  onboarding when it had just linked.

What `AccessHolds` allows does happen: the names form of a user who is approved
meanwhile takes the onboarding back, and that of a user who is blocked meanwhile
takes the block back. What `ApprovedOrOverwritten` allows happens as well: two
administrators approve one user, both statements read the row as pending, and the
second one overwrites the merchant of the first. When the first had linked by then,
both are answered as done, and no row has its merchant any more; otherwise its link
finds no row and it ends in an error. Either way its value stays in `merchants`,
where nothing deletes it, and whoever linked to the row in between now works for
the second merchant. Two pending requests of one user can never be approved,
since one statement gives both the same merchant id and the unique index refuses
it. While one of a user's merchants is pending, the session has none at all: the
NULL id cannot be scanned.

### Assets

One blockchain and one code in lower case, since no statement relates two codes.
`asset` holds the rows of `assets`, each with the number of its links to every
merchant (`merchant_assets`); `stored` says which issuers' wallets are in
`coreum_wallets`; `issued`, `held` and `classes` are the chain: whose tokens
exist, how many of them their issuer holds, and the accounts with an NFT class.
`Holder[i]` is the merchant whose user has the account `i`, which issues the
user's classes and is no issuer of ours. A request has an operation
`op[r]`, a program counter `pc[r]`, and the merchant `who[r]` and the `issuer[r]`
it names. `burned`, `left` and `failed` are observations; `left` are the requests
that ended with tokens at the issuer.

| Action | Code |
|---|---|
| `AssetRequestMerchant` | the form of a merchant: one statement, `CreateAsset` |
| `PageAssetRequestsAdminUpdate`, `NewToken`, `NewTokenSaver`, `MintTokenMerchant`, `MintToken`, `BurnTokenMerchant` | a request arrives at the handler of that name |
| `GetAsset` | the lookup of an approval or rejection, which wants one row in the join with the links |
| `DeleteLink`, `DeleteAsset` | the two statements of `DeleteAssetRequest`; the foreign key protects a row with links |
| `LookupIssuer`, `StoreIssuer`, `Issue`, `Mint`, `Send`, `Burn` | `IssueFT`, `MintFT`, `BurnFT`: the wallet, the transaction, the transfer to the merchant |
| `IssueClass`, `MintNFT` | `IssueNFTClass`, refused by the chain the second time; `MintNFT`, which needs the class |
| `Activate`, `Create` | `ActivateAsset` and the `CreateAsset` after an issue |
| `Fail`, `LandLate`, `Crash` | as in `Accounts` |

Properties:

* `IssuerHoldsStranded`: what an issuer holds or has burned is on its way to the
  merchant or was left there by a request that ended in between. `BurnFT` burns
  from the issuer, so a merchant can burn only what a failure stranded.
* `UnlinkedByReject`: only a rejection leaves a row without links, which no query
  shows any more.
* `ActiveIsIssued`: an active asset names an issuer whose token is issued, a
  foreign one, or none after a `/token_mint` of its owner was answered.
* `ApprovedIsActive`: an answered approval of a merchant's own token leaves an
  active asset, but for a rejection let in before or `/token_mint`, which
  empties the issuer of every row of the merchant.

What does not hold: `RejectedIsDeleted`. The issuer column of a request for an
own token is NULL, the rejection compares it with the empty string, and so it
deletes nothing. An approval that names an issuer has the opposite defect: it
updates the rows the merchant owns, and a request with an issuer has no owner,
so the asset it names stays pending, and the merchant's own row for that code,
if there is one, takes that issuer. `/token_mint` activates every row of the
merchant with an empty issuer, whatever it minted: with a type that is neither FT
nor NFT it mints nothing (`service-asset.go:41` has the TODO) and activates all
the same. Both follow from `CreateAsset`, which fills
either the issuer or the owner. `NewTokenSaver` never gets as far as its row,
because it issues nothing and the chain refuses to transfer nothing.

## 3. Runs and bounds

| Run | Question | Bounds |
|---|---|---|
| `Withdrawals_safety` | what can requests, the loop and failures do to each other, in one batch and across merchants | 2 merchants, one with 2 withdrawals of 1 and 2 tokens, 2 approvals each, 2 failures, 10 percent, 3 tokens in -S and 1 in -R to refill it, 1 in the sending wallet |
| `Connections_batch` | what does a withdrawal cost, and is every approved one served while there are connections | the same withdrawals, 1 merchant, no commission, 1 failure, 11 connections |
| `Deposits_safety` | sweeping, crediting and settlement with two merchants, and the contract | users at records 1 and 3, a merchant's wallet at 2, 3 rows, up to 2 tokens each, 10 percent, 1 failure |
| `Deposits_live` | batches and two assets; does everything that can go on go on | 2 users of 1 merchant, 2 assets, 2 rows, 1 token of each, 1 failure |
| `Transfers_safety` | three transfers of any kind and one restart or dropped transaction | a wallet with one key, a multisignature wallet of 3 signatures with 2 keys at the signing service, the processing's two wallets; gas for two transactions on the first wallet and on the processor's own key of the second, none on the second itself, for one elsewhere |
| `Accounts_safety` | three requests of any kind and one failure | 1 user, 2 keys, a usable and a short URL, 1 commission and the default; requests are symmetric |
| `Onboarding_safety` | four posts of forms and approvals and one failure | 2 users, 4 rows, an operator's block; requests and users are symmetric |
| `Assets_safety` | three requests of any kind about one code and one failure | 2 merchants, one without wallets, 1 foreign issuer, 2 rows, forms add up to 1 link to a row with an issuer, 2 tokens issued, 1 minted or burned |
| `*_<property>` | a comment the code does not follow | the smallest instance that shows it, no failures |

`MaxTrx`, `MaxApprovals`, `MaxDeposit`, `MaxRows`, `MaxLinks`, `MaxBlocked` and
`MaxFaults` bound the state and nothing in the code. Two rows suffice for what rows do to each other, because
the statements and loops treat rows independently but for the order and the
shared wallets; three are needed where a batch settles rows behind the one
paid. Three requests are two that race and one that changes what they read, or
that retries. Two failures suffice to lose the outcome of a transfer and then that of
its retry. The commissions and balances are chosen so that the tests on funds
go both ways. Eleven connections are those of two withdrawals and one more, so
that the pool runs out before, in and after the second one, while other parts
take some; `FivePerWithdrawal` is proved for every size. Four posts are two of
one user that race, a third user or administrator, and one that meets what they
left. Three transfers are two of one account and one that tops up gas from an
account both use. Deadlock is checked in every run but `Connections_batch`.

## 4. Fairness and assumptions

`WF(Processing)` and `WF(Streamer)` in `Deposits`, `WF(PoolProcessing)` in
`Connections`: each goroutine is a loop around a ticker that leaves it only when
the process ends (`service.go:64-73`, `deposit.go:63-95`), so it takes the next
step whenever it can take one; without a connection it cannot. No request,
arrival or failure is fair. Failures are bounded by `MaxFaults`, so liveness says
what happens when they stop.

Assumed, and not shown:

* A statement that reports an error was not executed. (A transfer that reports
  an error may have been.)
* A database connection is free, everywhere but in `Connections`, which says what
  becomes of the withdrawals when none is. The other claims of progress are about
  the time before.
* The batches are smaller than their limit of 1000, amounts of withdrawals are
  whole and positive, and floating point is exact for the amounts used (they
  are modelled in hundredths).
* One blockchain, and for withdrawals one asset. Merchants and their
  commissions do not change during a run.
* In the pipelines a transfer succeeds, fails for any reason and moves nothing, or
  gives up and moves its tokens all the same: the answers of `TransferContract`;
  the pipelines use none of the careless transfers. A late transfer lands at once,
  not after the next steps of the loop. `GetTransactionStatus` always answers
  "successful", as in the code, so the branches for failed transactions are never
  taken.
* Requests about withdrawals do not name the guid of a deposit.
* External ids are used by one merchant: the keyring is shared, and two merchants
  that create a wallet for the same id at once make one of them fail.
* The keyring refuses a name that is taken (`SaveMultisig`).
* The chain refuses to issue a token twice, to mint or burn one that was not
  issued, and to transfer nothing; asset codes are in lower case.
* The sending wallet has the gas it hands out. A node takes a transaction when it
  has the account's next sequence and its fee can be paid; a transaction in a
  block has paid both, also when it failed.
* The signing service signs for the wallet it is asked for, with keys of its own.
* Identities are those of the session; names and the text of a merchant's request
  change nothing that `Onboarding` follows.
* Callbacks to the merchants change nothing here, except that their lookup can
  make a loop return.

## 5. Proofs

`WithdrawalsProofs` proves, for every set of merchants, every number of
withdrawals, amounts, commissions, balances and bounds (assumption
`WithdrawalsAssumption`: they are natural numbers, amounts are positive):

| Theorem | Statement |
|---|---|
| `TypeCorrect` | `Spec => []TypeOK`; no wallet is overdrawn |
| `MoneyCorrect` | `Spec => []MoneyInv` |
| `ChargedCorrect`, `PaidCorrect` | the money promise, from `MoneyInv` |
| `StatusCorrect` | `Spec => []StatusIsTrue` |
| `RejectionCorrect` | `Spec => RejectionHolds` |
| `Refinement` | `Spec => ImplementsContract` |

The argument: `ChargedPerApproval` is not inductive: a row about to be charged
must still have an approval to spend. `MoneyInv` adds that every *right* to
charge (the row says processed, or it is in the batch read when it did) and
every right to pay (the row says settled, is in that batch, or is about to be
written as settled) is strictly backed, and that while the loop stands between
a transfer and its statement the transfer is not lost yet. It is inductive with
`TypeOK`, which supplies that the loop is at one row at a time
(`NextRowUnique`). A crash or a failed statement turns the pending transfer into
a lost one, which restores the right. `StatusIsTrue` follows because the only
statement that writes `settle` stands behind a charge that is not lost, and the
one that writes `done` behind a payment, which a charge or a lost payment backs.
The refinement maps each variable of the contract to the observation of the
same name; the guards of `Charge` and `Pay` are the strict parts of `MoneyInv`.

`ConnectionsProofs`: every step on the pool is a step of `Withdrawals` or leaves
it alone (`PoolImplements`), so `PoolMoneyCorrect` and `PoolContract` state the money promise,
the contract, statuses and rejections for every pool, however it runs out. `FiveCorrect` proves `FivePerWithdrawal` for
every number of withdrawals and connections. Its invariant `Paid` bounds the sum
of five cardinalities (the rows created, approved, marked, settled, done) by the
connections kept and the failures. A row counts as approved, marked or settled
also while the loop holds it in its batch, because a request may write another
status over the one the loop has read.

`DepositsProofs` proves `TypeCorrect`, `SweptCorrect`, `LonePaidCorrect`,
`StatusCorrect`, `CreditedCorrect`, `SettledCorrect` and `Refinement` for every
number of users, merchants, assets, rows and failures.
The common invariant `DepositsInv` has three parts besides the types:

* `LoopInv`: the rows a loop still has to do have the status the loop is for,
  and the rows of the processed batch stay processed or settled;
* `SweepInv`: the hash in a row is the only memory of its sweep, so a row with a
  hash has exactly one sweep that is not lost, as has the row whose hash is about
  to be stored, and every other row has none;
* `PayInv`: a row that never shared a batch is the whole batch it is in, and is
  paid once more than lost exactly while it is settled, done, or due to be
  marked settled. It fails for rows that shared a batch, as the program does.

`Refinement` needs no more than that: each action of `Deposits` is a step of
`DepositContract` on the rows it touches, or changes none of its variables, and
the guards of `Sweep`, `Credit`, `Pay` and `Settle` are what `SweepInv` and
`PayInv` say in the state before. `ReadProcessed` is `Group` when the batch
has several rows.

Two properties are sums over rows and need invariants of their own:

* `CreditInv`, for `UnsweptCreditedOnce`. The streamer reads the balance, then
  the initiated rows, then inserts, so the property is not inductive: the
  balance and the snapshot are no more than what arrived, and while nothing of
  the user was swept, a row about to be inserted fits *beside* all rows there
  are. All rows of such a user are initiated (`InitiatedRows`, by `SweepInv`), so
  the sum the callback compares is the whole sum and not a part of it.
* `NetInv`, for `SettledNet`: the accumulated sum is nothing before a row that is
  alone in its batch and its net amount at its payout; the batch is of the
  merchant served. A payout then changes one term of the sum (`SumChange`).

`SumTheorems` gives them the sums: a sum over a finite set exists, is zero for
the empty set, grows by the element's value when one is added, changes by the
difference when one value does, and is no greater for a smaller set of natural
numbers. The fold of the community modules is a recursive function chosen by
`CHOOSE`, so that it exists and is unique has to be proved by induction on the
size of the set, and the library's induction theorems cannot be instantiated.
`LeastNat` and `LeastSet` take their place: the order on the natural numbers is
well-founded (`WFMin`), so if the claim failed for some set it would fail for a
smallest one, and it does not.

`TransfersProofs` proves all properties of `Transfers` for every set of
transfers, accounts, keys and thresholds (`TransfersAssumption`): `TypeCorrect`,
`KeysCorrect`, `TurnCorrect`, `AnswerCorrect`, `ConsentCorrect`, `GasCorrect`, and
`Refinement` for `TransferContract`. Its
invariant `IInv` joins them with `KindInv` (what each phase says of the transfer),
`HoldInv` (who has its key from the start), `FlightInv` (a transaction waits, or
has a result, for a transfer that waits for it or gave up), `TurnInv` (who is
about to send has signed for the next sequence, because the key that kept the
others out is still held), `SignedInv` (the signatures are there before the
transaction is), `FeeInv` (every waiting transaction can pay) and `GasInv` (the
gas looked at is there, or was spent by another transfer). The refinement maps
`pc` to the answer (`Answered`) and the transfers that gave up to those of them
that answered an error. It needs `OkInv` besides: a transfer that answered
success at its own transaction has its result, and so one that answered success
for missing gas has no transaction of its own that could still move something.
`FinalCorrect` (`AnswerIsFinal`) is a property of the contract, where only `Move`
touches the tokens, read back through the refinement.

`AccountsProofs` proves, for every set of requests, users, keys, URLs and
commissions (`AccountsAssumption`: the ids and the marker `None` are distinct),
`TypeCorrect` and six safety properties: `AnswersCorrect`, `FundedCorrect`,
`ActivatedCorrect`, `EntryCorrect`, `RefusedCorrect` and `LossCorrect`. Their
common invariant `AccountsInv` has these parts:

* `ExtInv`: which external id a request is at, by its operation;
* `OrderInv`: a CreateWallet request that goes on to the sending wallet or to
  the write has stored the wallets before it, which nobody removes (`KeysGrow`);
* `FreshInv` and `KeyInv`: a wallet a request may still create is not stored yet,
  and a record is under the id it was created for;
* `PutInv`: a wallet about to be stored is activated if it was funded;
* `EntryInv`: an entry in `data`, or in the older value a request has read,
  implies its wallets or an incomplete commission request. Without the second
  half it is not inductive, since a write brings an older entry back;
* `StaleInv`: a field in which `data` and the value a request read differ is
  marked stale, which gives `NoOtherLoss`.

`Refinement` shows that `Accounts` implements `WalletContract`; every variable of
the contract is one of `Accounts`. `Put` is `Store`, a `Lookup` of a deposit that
finds a record is `Give`, and what brings gas or the first transaction is `Pay` or
`Activate`, also when the request never learns that it did (`LandLate`). Its
guards are `FreshInv` and `KeyInv` (the address is stored for no id) and
`SentInv`, which is needed besides: an address whose first transaction is due has
gas and no transaction yet.

`OnboardingProofs` proves all properties of `Onboarding` for every set of users
and requests: `TypeCorrect`, `OnboardedCorrect`, `SessionCorrect`,
`ApprovedCorrect`, `GrantedCorrect`, `AccessCorrect`. Its invariant needs
`GrantInv`: a *copy* of a user that says onboarded is of a user who has a
merchant, since the copy may be written back at any time; `ListInv`: merchant
ids in `merchant_list` are distinct, stored, and each given by the approval it is
named for; `ViewInv`: a row that is pending is linked to one user only, so that all
snapshots that show it as pending are of approvals of that user, and whose merchant
is in a row had it on its snapshot as pending; and `ApprovedInv`: an approval that
has linked had read a row as pending that is filled since, though perhaps no
longer with its merchant.

`AssetsProofs` proves `TypeCorrect`, `UnlinkedCorrect`, `ActiveCorrect`,
`ApprovedCorrect` and `StrandedCorrect` for every number of merchants, requests
and rows. Besides the
properties its invariant has `RequestInv` (what a request has behind it:
an approval that sends or activates has issued), `RowInv` (a row with a NULL
issuer is pending, owned and linked to its owner only; a row without owner has an
issuer), `OwnInv` (an asset active under an issuer of ours is that merchant's)
and `AskedInv` (the row an approval read is still there, unless a rejection was
let in). `StrandedCorrect` states `IssuerHoldsStranded`, a sum over the
requests whose tokens are at the issuer. `StrandInv` adds that only finitely many
requests were ever made, so that the sum means something when `Requests` is
infinite, and that a request whose tokens were left has ended, so that nobody
takes them into account twice.

Only model-checked: liveness (`Noticed`, `Credited`, `LoneDone` of `Deposits`,
`ServedOrExhausted` of `Connections`), which the prover does not do. Every
invariant and action property of the passing runs is a theorem.

## 6. Plan

1. Done: every component whose state others depend on has a module; every
   module has its proofs.
2. `Processing`: the two pipelines composed over one goroutine, one table and the
   wallets -R, so that settled deposits fund withdrawals.
3. `Deposits` and `Accounts` on the pool of connections, as `Connections` does it
   for withdrawals; there they are only the action `OtherStatement`.

## 7. Not modelled

* Callbacks to the merchants (`callbacks.go`): they change no state of the
  processor. What their lookups do to the loops is in the pipelines.
* Tokens and middleware: parsing and verifying a JWT has no state. What the
  middleware reads of a user is in `Onboarding`.
* Pages and session pages: input and output. The forms that change something are
  the requests of `Accounts`, `Onboarding` and `Assets`.
* `storage/tokens.go`: the program does not use it.
* The order of shutdown in the run group: a restart loses the same variables
  whatever goroutine ends first (`Crash` in every module).
* The JavaScript under `templates/assets` (jquery-ui, bootstrap, maps, charts)
  is what the pages' template came with; it keeps no state of the processor and
  no definition stands for it. The program is written in Go, and the map names
  its Go and SQL files.
