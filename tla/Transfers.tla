-------------------------------- MODULE Transfers --------------------------------
(***************************************************************************)
(* Transfers: how the Coreum processor moves tokens                        *)
(* (processor-coreum/processor.go, broadcasttx.go, transfer.go,            *)
(* withdraw.go).  The handlers and both goroutines of the processing share *)
(* one in-memory keyring, the processing's two wallets and the sequence of *)
(* every account, and nothing locks them: a transfer puts its key into the *)
(* keyring and takes it out again, and a key that is there is refused.     *)
(*                                                                         *)
(* A multisignature wallet keeps no key in the keyring: the processor      *)
(* reads the account's sequence, signs, and asks the merchant's signing    *)
(* service for the other signatures.                                       *)
(*                                                                         *)
(* Gas is counted in fees: one unit pays for one transaction.  Amounts and *)
(* balances of tokens are left out; a transaction may fail in its block.   *)
(***************************************************************************)
EXTENDS FiniteSets, Naturals

CONSTANTS
    Requests,           \* transfers ever made, by handlers and goroutines
    Addresses,          \* accounts of the blockchain
    Own,                \* account -> account of the processor's own key for it
    SendingWallet, ReceivingWallet,     \* the processing's wallets
    Signers,            \* keys of the merchant's signing service in its wallets
    Threshold,          \* signatures a multisignature wallet asks for
    InitialGas,         \* gas of each account when the transfers begin
    MaxFaults           \* bound: restarts and dropped transactions

Multi == {a \in Addresses : Own[a] # a}
(* The wallets in the key store: what is not only a key of another one.    *)
Wallets == {a \in Addresses \ {SendingWallet, ReceivingWallet} :
               \A b \in Addresses : Own[b] = a => b = a}

ASSUME TransfersAssumption ==
    /\ Own \in [Addresses -> Addresses]
    /\ \A a \in Addresses : Own[Own[a]] = Own[a]
    /\ {SendingWallet, ReceivingWallet} \subseteq Addresses \ Multi
    /\ \A a \in Multi : Own[a] \notin {SendingWallet, ReceivingWallet}
    /\ SendingWallet # ReceivingWallet
    /\ IsFiniteSet(Requests) /\ IsFiniteSet(Signers) /\ Signers \cap Addresses = {}
    /\ Threshold \in 2..(Cardinality(Signers) + 1)
    /\ InitialGas \in [Addresses -> Nat]
    /\ MaxFaults \in Nat

VARIABLES
    keyring,            \* accounts whose key is in the keyring
    gas, sequence,      \* of each account in the blockchain
    pool,               \* transfers whose transaction waits at the nodes
    op, from,           \* what a transfer is, and the account it moves from
    pc, part,           \* what it does next; for its gas, or for itself
    held,               \* keys it will delete when it returns
    signed, signers,    \* the sequence it signed for, and who signed
    result,             \* of its transaction in a block
    (* observations *)
    moved,              \* how often its tokens moved
    why,                \* what it was refused for
    lost, faults        \* transfers that gave up waiting; restarts and drops

chain == <<gas, sequence, pool, result, moved>>
vars == <<keyring, gas, sequence, pool, op, from, pc, part, held, signed,
          signers, result, moved, why, lost, faults>>

Operations == {"none", "sweep", "withdraw", "ft", "pay", "send", "nft"}
Phases == {"idle", "hold", "gas", "top", "info", "sign", "round", "send",
           "wait", "ok", "error"}

Init ==
    /\ keyring = {}
    /\ gas = InitialGas
    /\ sequence = [a \in Addresses |-> 0]
    /\ pool = {}
    /\ op = [r \in Requests |-> "none"] /\ from = [r \in Requests |-> SendingWallet]
    /\ pc = [r \in Requests |-> "idle"] /\ part = [r \in Requests |-> "main"]
    /\ held = [r \in Requests |-> {}]
    /\ signed = [r \in Requests |-> 0] /\ signers = [r \in Requests |-> {}]
    /\ result = [r \in Requests |-> "none"]
    /\ moved = [r \in Requests |-> 0] /\ why = [r \in Requests |-> "none"]
    /\ lost = {} /\ faults = 0

Unfinished(r) == pc[r] \notin {"idle", "ok", "error"}

(* The account a transfer's transaction is signed for.                     *)
Src(r) == IF part[r] = "top" THEN SendingWallet ELSE from[r]

(* The account whose gas is looked at: some look at that of the            *)
(* processor's own key, which a multisignature wallet does not pay from.   *)
Checked(r) == IF op[r] \in {"sweep", "ft"} THEN Own[from[r]] ELSE from[r]

(* What follows when there is gas.                                         *)
Main(r) == IF op[r] \in {"pay", "nft"} THEN "sign" ELSE "info"

Goto(r, p) == pc' = [pc EXCEPT ![r] = p]

(* The transfer returns, and the deferred calls delete its keys.           *)
Answer(r, a, y) ==
    /\ Goto(r, a)
    /\ why' = [why EXCEPT ![r] = y]
    /\ keyring' = keyring \ held[r]
    /\ held' = [held EXCEPT ![r] = {}]

(* No gas: two of the transfers answer that as if they had succeeded.      *)
Refuse(r, y) ==
    Answer(r, IF part[r] = "top" /\ op[r] \in {"ft", "nft"} THEN "ok" ELSE "error", y)

(* Keyring.NewAccount: a key that is there is not added again.             *)
NewAccount(r, a) ==
    /\ a \notin keyring
    /\ keyring' = keyring \cup {a}
    /\ held' = [held EXCEPT ![r] = @ \cup {a}]

---------------------------------------------------------------------------
(* The transfers                                                           *)
Begin(r, o, a, p) ==
    /\ pc[r] = "idle"
    /\ op' = [op EXCEPT ![r] = o]
    /\ from' = [from EXCEPT ![r] = a]
    /\ part' = [part EXCEPT ![r] = IF p = "gas" THEN "top" ELSE "main"]
    /\ Goto(r, p)
    /\ UNCHANGED <<keyring, held, chain, signed, signers, why, lost, faults>>

(* Also TransferBetweenMerchantWallets, from the receiving one.            *)
TransferToReceiving(r) == \E w \in Wallets : Begin(r, "sweep", w, "gas")
(* Also issuing, minting and burning, from the issuer's wallet.            *)
Withdraw(r) == \E w \in Wallets : Begin(r, "withdraw", w, "gas")
TransferFT(r) == \E w \in Wallets : Begin(r, "ft", w, "gas")
TransferFromReceiving(r) == Begin(r, "pay", ReceivingWallet, "hold")
TransferFromSending(r) == Begin(r, "send", SendingWallet, "hold")
TransferNFT(r) == \E w \in Wallets : Begin(r, "nft", Own[w], "hold")

(* These three add their key before anything else.  In TransferNFT the     *)
(* deferred deletion is set up before the error is looked at, and panics.  *)
Hold(r) ==
    /\ pc[r] = "hold"
    /\ \/ /\ NewAccount(r, from[r])
          /\ Goto(r, IF op[r] = "send" THEN "sign" ELSE "gas")
          /\ part' = [part EXCEPT ![r] = IF op[r] = "send" THEN "main" ELSE "top"]
          /\ UNCHANGED why
       \/ /\ from[r] \in keyring
          /\ Answer(r, "error", "key")
          /\ UNCHANGED part
    /\ UNCHANGED <<op, from, chain, signed, signers, lost, faults>>

(* Slip: the balance is not compared with what the transaction costs.      *)
UpdateGasUncompared(r) ==
    /\ pc[r] = "gas"
    /\ Goto(r, Main(r))
    /\ part' = [part EXCEPT ![r] = "main"]
    /\ UNCHANGED <<keyring, held, op, from, chain, signed, signers, why, lost, faults>>

(* updateGas reads the balance, and tops it up from the sending wallet.    *)
UpdateGas(r) ==
    /\ pc[r] = "gas"
    /\ \/ /\ gas[Checked(r)] > 0
          /\ Goto(r, Main(r))
          /\ part' = [part EXCEPT ![r] = "main"]
       \/ /\ gas[Checked(r)] = 0
          /\ Goto(r, "top")
          /\ UNCHANGED part
    /\ UNCHANGED <<keyring, held, op, from, chain, signed, signers, why, lost, faults>>

TopUp(r) ==
    /\ pc[r] = "top"
    /\ \/ /\ NewAccount(r, SendingWallet)
          /\ Goto(r, "sign")
          /\ UNCHANGED why
       \/ /\ SendingWallet \in keyring
          /\ Refuse(r, "key")
    /\ UNCHANGED <<op, from, part, chain, signed, signers, lost, faults>>

---------------------------------------------------------------------------
(* broadcastTrx                                                            *)

(* Slip: a key that is in the keyring is used.                             *)
GetAccountInfoShared(r) ==
    /\ pc[r] = "info"
    /\ \/ /\ from[r] \in Multi
          /\ signed' = [signed EXCEPT ![r] = sequence[from[r]]]
          /\ Goto(r, "round")
          /\ UNCHANGED <<keyring, held>>
       \/ /\ from[r] \notin Multi
          /\ keyring' = keyring \cup {from[r]}
          /\ held' = [held EXCEPT ![r] = @ \cup {from[r]}]
          /\ Goto(r, "sign")
          /\ UNCHANGED signed
    /\ UNCHANGED <<op, from, part, chain, signers, why, lost, faults>>

(* Slip: the key is deleted by a transfer that could not add it.           *)
GetAccountInfoDeletes(r) ==
    /\ pc[r] = "info"
    /\ \/ /\ from[r] \in Multi
          /\ signed' = [signed EXCEPT ![r] = sequence[from[r]]]
          /\ Goto(r, "round")
          /\ UNCHANGED <<keyring, held, why>>
       \/ /\ from[r] \notin Multi
          /\ NewAccount(r, from[r])
          /\ Goto(r, "sign")
          /\ UNCHANGED <<signed, why>>
       \/ /\ from[r] \in keyring \ Multi
          /\ Goto(r, "error") /\ why' = [why EXCEPT ![r] = "key"]
          /\ keyring' = keyring \ {from[r]}
          /\ UNCHANGED <<held, signed>>
    /\ UNCHANGED <<op, from, part, chain, signers, lost, faults>>

(* The public key of the account tells which kind it is.                   *)
GetAccountInfo(r) ==
    /\ pc[r] = "info"
    /\ \/ /\ from[r] \in Multi
          /\ signed' = [signed EXCEPT ![r] = sequence[from[r]]]
          /\ Goto(r, "round")
          /\ UNCHANGED <<keyring, held, why>>
       \/ /\ from[r] \notin Multi
          /\ NewAccount(r, from[r])
          /\ Goto(r, "sign")
          /\ UNCHANGED <<signed, why>>
       \/ /\ from[r] \in keyring \ Multi
          /\ Answer(r, "error", "key")
          /\ UNCHANGED signed
    /\ UNCHANGED <<op, from, part, chain, signers, lost, faults>>

(* Slip: the service stops one signature too early.                        *)
MultiSignTransactionFewer == {S \in SUBSET Signers : Cardinality(S) = Threshold - 2}

(* What the signing service answers: it stops at as many signatures as it  *)
(* is asked for, and refuses when it cannot make them.                     *)
MultiSignTransaction == {S \in SUBSET Signers : Cardinality(S) = Threshold - 1}

(* The processor signs and asks for the other signatures.                  *)
MultiSign(r) ==
    /\ pc[r] = "round"
    /\ \E S \in MultiSignTransaction :
           signers' = [signers EXCEPT ![r] = S \cup {Own[from[r]]}]
    /\ Goto(r, "send")
    /\ UNCHANGED <<keyring, held, op, from, part, chain, signed, why, lost, faults>>

(* client.BroadcastTx reads the sequence and signs with a key of the       *)
(* keyring ...                                                             *)
BroadcastTx(r) ==
    /\ pc[r] = "sign"
    /\ signed' = [signed EXCEPT ![r] = sequence[Src(r)]]
    /\ Goto(r, "send")
    /\ UNCHANGED <<keyring, held, op, from, part, chain, signers, why, lost, faults>>

Waiting(a) == {r \in pool : Src(r) = a}

(* Slip: a transaction is taken whatever is left for its fee.              *)
BroadcastRawTxUnpaid(r) ==
    /\ pc[r] = "send"
    /\ pool' = pool \cup {r}
    /\ Goto(r, "wait")
    /\ UNCHANGED <<keyring, held, op, from, part, gas, sequence, result, moved, signed,
                   signers, why, lost, faults>>

(* ... and a node takes the transaction when it is the account's next one  *)
(* and its fee can be paid.  The sending wallet has the gas it needs.      *)
BroadcastRawTx(r) ==
    LET next == sequence[Src(r)] + Cardinality(Waiting(Src(r)))
        pays == Src(r) = SendingWallet \/ gas[Src(r)] > Cardinality(Waiting(Src(r)))
    IN
    /\ pc[r] = "send"
    /\ \/ /\ signed[r] = next /\ pays
          /\ pool' = pool \cup {r}
          /\ Goto(r, "wait")
          /\ UNCHANGED <<keyring, held, why>>
       \/ /\ signed[r] # next
          /\ Refuse(r, "sequence")
          /\ UNCHANGED pool
       \/ /\ signed[r] = next /\ ~pays
          /\ Refuse(r, "gas")
          /\ UNCHANGED pool
    /\ UNCHANGED <<op, from, part, gas, sequence, result, moved, signed, signers, lost, faults>>

(* Slip: the code of the transaction in the block is not looked at.        *)
AwaitTxAnyCode(r) ==
    /\ pc[r] = "wait" /\ result[r] # "none"
    /\ \/ /\ part[r] = "top"
          /\ Goto(r, Main(r))
          /\ part' = [part EXCEPT ![r] = "main"]
          /\ result' = [result EXCEPT ![r] = "none"]
          /\ keyring' = keyring \ {SendingWallet}
          /\ held' = [held EXCEPT ![r] = @ \ {SendingWallet}]
          /\ UNCHANGED why
       \/ /\ part[r] = "main"
          /\ Answer(r, "ok", "none")
          /\ UNCHANGED <<part, result>>
    /\ UNCHANGED <<op, from, gas, sequence, pool, moved, signed, signers, lost, faults>>

(* The transaction is in a block: gas for the transfer itself, or done.    *)
AwaitTx(r) ==
    /\ pc[r] = "wait" /\ result[r] # "none"
    /\ \/ /\ result[r] = "ok" /\ part[r] = "top"
          /\ Goto(r, Main(r))
          /\ part' = [part EXCEPT ![r] = "main"]
          /\ result' = [result EXCEPT ![r] = "none"]
          /\ keyring' = keyring \ {SendingWallet}
          /\ held' = [held EXCEPT ![r] = @ \ {SendingWallet}]
          /\ UNCHANGED why
       \/ /\ result[r] = "ok" /\ part[r] = "main"
          /\ Answer(r, "ok", "none")
          /\ UNCHANGED <<part, result>>
       \/ /\ result[r] = "failed"
          /\ Refuse(r, "failed")
          /\ UNCHANGED <<part, result>>
    /\ UNCHANGED <<op, from, gas, sequence, pool, moved, signed, signers, lost, faults>>

(* The wait ends with an error; the transaction may still get into a block.*)
Timeout(r) ==
    /\ pc[r] = "wait" /\ result[r] = "none"
    /\ Refuse(r, "timeout")
    /\ lost' = lost \cup {r}
    /\ UNCHANGED <<op, from, part, chain, signed, signers, faults>>

(* A query, the key store, the callback or the signing service fails.      *)
Fail(r) ==
    /\ pc[r] \in {"gas", "top", "info", "sign", "round"}
    /\ Refuse(r, "failed")
    /\ UNCHANGED <<op, from, part, chain, signed, signers, lost, faults>>

---------------------------------------------------------------------------
(* The blockchain                                                          *)

(* A transaction gets into a block: its fee is paid and its sequence taken *)
(* whether it fails or not.                                                *)
Include(r) ==
    /\ r \in pool /\ signed[r] = sequence[Src(r)]
    /\ \E c \in {"ok", "failed"} :
           /\ result' = [result EXCEPT ![r] = c]
           /\ moved' = [moved EXCEPT ![r] = IF c = "ok" /\ part[r] = "main" THEN @ + 1 ELSE @]
           /\ gas' = [a \in Addresses |->
                  IF part[r] = "top"
                  THEN IF a = Checked(r) /\ c = "ok" THEN gas[a] + 1 ELSE gas[a]
                  ELSE IF a = Src(r) /\ a # SendingWallet THEN gas[a] - 1 ELSE gas[a]]
    /\ sequence' = [sequence EXCEPT ![Src(r)] = @ + 1]
    /\ pool' = pool \ {r}
    /\ UNCHANGED <<keyring, held, op, from, pc, part, signed, signers, why, lost, faults>>

(* The nodes drop a transaction, and with it the later ones of the account.*)
Drop(r) ==
    /\ r \in pool
    /\ faults < MaxFaults /\ faults' = faults + 1
    /\ pool' = {q \in pool : Src(q) # Src(r) \/ signed[q] < signed[r]}
    /\ UNCHANGED <<keyring, held, op, from, pc, part, gas, sequence, result, moved,
                   signed, signers, why, lost>>

(* A restart: the transfers in progress and the keyring are gone.          *)
Crash ==
    /\ \E r \in Requests : Unfinished(r)
    /\ faults < MaxFaults /\ faults' = faults + 1
    /\ lost' = lost \cup {r \in Requests : Unfinished(r)}
    /\ pc' = [r \in Requests |-> IF Unfinished(r) THEN "error" ELSE pc[r]]
    /\ keyring' = {}
    /\ held' = [r \in Requests |-> {}]
    /\ UNCHANGED <<op, from, part, chain, signed, signers, why>>

Transfer(r) == TransferToReceiving(r) \/ Withdraw(r) \/ TransferFT(r)
               \/ TransferFromReceiving(r) \/ TransferFromSending(r) \/ TransferNFT(r)

Handle(r) == Hold(r) \/ UpdateGas(r) \/ TopUp(r) \/ GetAccountInfo(r)
             \/ MultiSign(r) \/ BroadcastTx(r) \/ BroadcastRawTx(r)
             \/ AwaitTx(r) \/ Timeout(r)

(* No more transfers: the bound, not the end of the program.               *)
Finished ==
    /\ \A r \in Requests : ~Unfinished(r)
    /\ UNCHANGED vars

Next == \/ \E r \in Requests : Transfer(r) \/ Handle(r) \/ Fail(r) \/ Include(r) \/ Drop(r)
        \/ Crash
        \/ Finished

Spec == Init /\ [][Next]_vars

---------------------------------------------------------------------------
(* Properties                                                              *)

(* The types of the variables.                                             *)
TypeOK ==
    /\ keyring \subseteq Addresses
    /\ gas \in [Addresses -> Nat] /\ sequence \in [Addresses -> Nat]
    /\ pool \subseteq Requests
    /\ op \in [Requests -> Operations] /\ from \in [Requests -> Addresses]
    /\ pc \in [Requests -> Phases] /\ part \in [Requests -> {"top", "main"}]
    /\ held \in [Requests -> SUBSET Addresses]
    /\ signed \in [Requests -> Nat]
    /\ signers \in [Requests -> SUBSET (Signers \cup Addresses)]
    /\ result \in [Requests -> {"none", "ok", "failed"}]
    /\ moved \in [Requests -> Nat]
    /\ why \in [Requests -> {"none", "key", "sequence", "gas", "failed", "timeout"}]
    /\ lost \subseteq Requests /\ faults \in 0..MaxFaults

(* A key in the keyring belongs to one transfer at work, and stays until   *)
(* that one returns: nobody deletes the key another one signs with, and no *)
(* key is left behind (processor.go:163-175, broadcasttx.go:36-49).        *)
KeysKept ==
    /\ keyring = UNION {held[r] : r \in Requests}
    /\ \A q, r \in Requests : q # r => held[q] \cap held[r] = {}
    /\ \A r \in Requests :
           /\ ~Unfinished(r) => held[r] = {}
           /\ pc[r] \in {"sign", "send", "wait"} /\ Src(r) \notin Multi => Src(r) \in held[r]

(* The keyring is the lock of an account with one key: its transaction is  *)
(* refused for its sequence only after a transfer of the account that gave *)
(* up waiting (broadcasttx.go:36-55).                                      *)
InTurn == \A r \in Requests :
    why[r] = "sequence" =>
        \/ Src(r) \in Multi
        \/ \E q \in lost \ {r} : Src(q) = Src(r)

(* What is answered is what happened: tokens that moved once, or an error  *)
(* without a move unless the transfer gave up waiting.  TransferFT and     *)
(* TransferNFT answer missing gas as success (transfer.go:44-47, 101-104). *)
AnswerIsTrue == \A r \in Requests :
    /\ moved[r] <= 1
    /\ pc[r] = "ok" => moved[r] = 1 \/ (op[r] \in {"ft", "nft"} /\ why[r] # "none")
    /\ pc[r] = "error" /\ moved[r] = 1 => r \in lost

(* What callers rely on, the two pipelines above all: TransferContract.    *)
(* TransferFT and TransferNFT are careless (transfer.go:44-47, 101-104);   *)
(* who stops waiting for the block gives up (broadcasttx.go:173-177).      *)
Answered(r) == CASE pc[r] = "idle"           -> "none"
                 [] pc[r] \in {"ok", "error"} -> pc[r]
                 [] OTHER                     -> "open"
Contract == INSTANCE TransferContract WITH
    answer <- [r \in Requests |-> Answered(r)],
    careless <- {r \in Requests : op[r] \in {"ft", "nft"}},
    late <- {r \in lost : pc[r] = "error"}
ImplementsContract == Contract!Spec

(* Who has an answer may act on it: the tokens of a transfer that answered *)
(* do not move afterwards, so that an error may be tried again, unless it  *)
(* gave up waiting (processing-withdraw.go:21-66, broadcasttx.go:173-177). *)
AnswerIsFinal == [][\A r \in Requests :
    moved'[r] # moved[r] =>
        /\ moved[r] = 0
        /\ Unfinished(r) \/ (pc[r] = "error" /\ r \in lost)]_vars

(* Tokens leave a multisignature wallet only with as many signatures as it *)
(* asks for, the merchant's among them (broadcasttx.go:95-160,             *)
(* multisign-service.go:145-187).                                          *)
Consent == \A r \in Requests :
    from[r] \in Multi /\ (r \in pool \/ moved[r] > 0) /\ part[r] = "main" =>
        /\ Cardinality(signers[r]) >= Threshold
        /\ signers[r] \cap Signers # {}

(* A transfer whose gas was there is refused for its gas only when another *)
(* one of the account spent it in between, or when the gas it looked at    *)
(* was that of another account (processor.go:126-131, 401-413).            *)
GasIsChecked == [][\A r \in Requests :
    why[r] # "gas" /\ why'[r] = "gas" =>
        \/ Checked(r) # Src(r)
        \/ \E q \in Requests \ {r} : /\ part[q] = "main" /\ from[q] = from[r]
                                     /\ q \in pool \/ result[q] # "none"]_vars

=============================================================================
