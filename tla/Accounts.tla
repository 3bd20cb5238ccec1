-------------------------------- MODULE Accounts --------------------------------
(***************************************************************************)
(* Accounts: the data of one merchant, kept as one JSON value, and the     *)
(* table of wallets (coreum_wallets), under concurrent HTTP requests:      *)
(* settings forms, PUT /merchant, the commission, "create wallet" and      *)
(* deposits, which create the wallet of a user on first use.               *)
(*                                                                         *)
(* Every database statement and every blockchain transaction is a step of  *)
(* its own.  The statements of two merchants do not meet, so one merchant  *)
(* is modelled, with one blockchain.  The merchant's name is written       *)
(* wherever the public key is and is left out; the wallet ids "-R" and     *)
(* "-S" of an entry never change, so an entry is its commissions.          *)
(***************************************************************************)
EXTENDS Naturals

CONSTANTS
    Requests,           \* requests ever made
    Users,              \* external ids of the merchant's users
    Receiving, Sending, \* external ids "<merchant>-R" and "<merchant>-S"
    PublicKeys,         \* values of the field public_key
    Urls,               \* values of the field call_back_url long enough to use
    NoUrl,              \* a callback URL shorter than minLengthCallBackURL
    Commissions,        \* pairs of commissions an administrator sets
    DefaultCommission,  \* the pair CreateWallet sets
    None,               \* no wallets entry, no record, no external id
    MaxFaults           \* bound: failures and restarts

Ext == Users \cup {Receiving, Sending}
Pairs == Commissions \cup {DefaultCommission}

ASSUME AccountsAssumption ==
    /\ Receiving # Sending /\ {Receiving, Sending} \cap Users = {}
    /\ NoUrl \notin Urls
    /\ None \notin Ext /\ None \notin Pairs
    /\ None \notin Requests \X Ext
    /\ MaxFaults \in Nat

VARIABLES
    data,               \* the row of table merchants
    keys,               \* table coreum_wallets: external id -> address
    funded, activated,  \* multisignature accounts with gas, and with a first transaction
    op, pc,             \* what a request is, and what it does next
    seen, want,         \* the value it read last, the fields it will write
    ext,                \* the external id whose wallet it looks up or creates
    faults,             \* failures so far
    (* observations *)
    answered,           \* addresses given to users
    failed,             \* requests ended by a failure
    stale               \* fields another request changed since a request read them

record == <<data, keys>>
chain == <<funded, activated>>
request == <<op, pc, seen, want, ext>>
observations == <<answered, failed, stale>>
vars == <<data, keys, funded, activated, op, pc, seen, want, ext, faults,
          answered, failed, stale>>

Operations == {"none", "publicKey", "callbackUrl", "update", "commission",
               "create", "deposit"}
Phases == {"idle", "read", "reread", "write", "lookup", "choose", "fund",
           "activate", "put", "ok", "error"}
Fields == {"key", "callback", "wallets"}
MerchantData == [key: PublicKeys, callback: Urls \cup {NoUrl},
                 wallets: Pairs \cup {None}]

(* A wallet is created from a fresh mnemonic, so its address is new: it is *)
(* named by the request that creates it and the id it is created for.      *)
Address == Requests \X Ext

Unfinished(r) == pc[r] \notin {"idle", "ok", "error"}

Init ==
    /\ data \in [key: PublicKeys, callback: Urls \cup {NoUrl}, wallets: {None}]
    /\ keys = [e \in Ext |-> None]
    /\ funded = {} /\ activated = {}
    /\ op = [r \in Requests |-> "none"] /\ pc = [r \in Requests |-> "idle"]
    /\ seen = [r \in Requests |-> data] /\ want = [r \in Requests |-> data]
    /\ ext = [r \in Requests |-> None]
    /\ faults = 0
    /\ answered = {} /\ failed = {} /\ stale = [r \in Requests |-> {}]

---------------------------------------------------------------------------
(* Requests arrive: the settings forms, PUT /merchant/:id, PUT             *)
(* /merchant/:id/:blockchain/commission, "create wallet", and deposits.    *)
Arrive(r, o, p, fields, e) ==
    /\ pc[r] = "idle"
    /\ op' = [op EXCEPT ![r] = o]
    /\ pc' = [pc EXCEPT ![r] = p]
    /\ want' = [want EXCEPT ![r] = fields]
    /\ ext' = [ext EXCEPT ![r] = e]
    /\ UNCHANGED <<record, chain, seen, faults, observations>>

PublicKeySaver(r) == \E k \in PublicKeys :
    Arrive(r, "publicKey", "read", [data EXCEPT !.key = k], None)
UpdateCallbackUrl(r) == \E u \in Urls \cup {NoUrl} :
    Arrive(r, "callbackUrl", "read", [data EXCEPT !.callback = u], None)
UpdateMerchant(r) == \E k \in PublicKeys, u \in Urls \cup {NoUrl} :
    Arrive(r, "update", "reread", [data EXCEPT !.key = k, !.callback = u], None)
UpdateMerchantCommission(r) == \E c \in Commissions :
    Arrive(r, "commission", "reread", [data EXCEPT !.wallets = c], None)
CreateWallet(r) ==
    Arrive(r, "create", "read", [data EXCEPT !.wallets = DefaultCommission], None)
Deposit(r) == \E u \in Users : Arrive(r, "deposit", "lookup", data, u)

---------------------------------------------------------------------------
(* The merchant's value                                                    *)

(* The first read of a form: the field it is not about is passed on to     *)
(* UpdateMerchant.                                                         *)
ReadForm(r) ==
    /\ pc[r] = "read" /\ op[r] \in {"publicKey", "callbackUrl"}
    /\ seen' = [seen EXCEPT ![r] = data]
    /\ want' = [want EXCEPT ![r] =
           IF op[r] = "publicKey" THEN [data EXCEPT !.key = want[r].key]
                                  ELSE [data EXCEPT !.callback = want[r].callback]]
    /\ pc' = [pc EXCEPT ![r] = "reread"]
    /\ stale' = [stale EXCEPT ![r] = {}]
    /\ UNCHANGED <<record, chain, op, ext, faults, answered, failed>>

(* CreateWallet goes on only if there is no entry yet.                     *)
ReadCreate(r) ==
    /\ pc[r] = "read" /\ op[r] = "create"
    /\ seen' = [seen EXCEPT ![r] = data]
    /\ \/ /\ data.wallets = None
          /\ pc' = [pc EXCEPT ![r] = "choose"]
          /\ ext' = [ext EXCEPT ![r] = Receiving]
       \/ /\ data.wallets # None
          /\ pc' = [pc EXCEPT ![r] = "error"]
          /\ UNCHANGED ext
    /\ stale' = [stale EXCEPT ![r] = {}]
    /\ UNCHANGED <<record, chain, op, want, faults, answered, failed>>

(* UpdateMerchantData and UpdateMerchantCommission read the value again.   *)
ReadAgain(r) ==
    /\ pc[r] = "reread"
    /\ seen' = [seen EXCEPT ![r] = data]
    /\ pc' = [pc EXCEPT ![r] = "write"]
    /\ stale' = [stale EXCEPT ![r] =
           IF op[r] \in {"publicKey", "callbackUrl"} THEN @ \ {"wallets"} ELSE {}]
    /\ UNCHANGED <<record, chain, op, want, ext, faults, answered, failed>>

(* Slip: the form leaves the field it is not about empty.                  *)
MergedForgetsUrl(r) ==
    IF op[r] \in {"commission", "create"}
    THEN [seen[r] EXCEPT !.wallets = want[r].wallets]
    ELSE [seen[r] EXCEPT !.key = want[r].key,
              !.callback = IF op[r] = "publicKey" THEN NoUrl ELSE want[r].callback]

(* The value written back: what was read, with the fields replaced.        *)
Merged(r) ==
    IF op[r] \in {"commission", "create"}
    THEN [seen[r] EXCEPT !.wallets = want[r].wallets]
    ELSE [seen[r] EXCEPT !.key = want[r].key, !.callback = want[r].callback]

Changed(d, e) == {f \in Fields : d[f] # e[f]}

(* Slip: the ids of a new entry are left empty.                            *)
WriteMerchantWithoutIds(r) ==
    /\ pc[r] = "write"
    /\ data' = Merged(r)
    /\ pc' = [pc EXCEPT ![r] = IF op[r] = "commission" THEN "lookup" ELSE "ok"]
    /\ ext' = [ext EXCEPT ![r] = None]
    /\ UNCHANGED <<keys, chain, op, seen, want, faults, observations>>

(* The commission is written before its wallets are looked up, sending     *)
(* first; CreateWallet writes the entry after both are created.            *)
WriteMerchant(r) ==
    /\ pc[r] = "write"
    /\ data' = Merged(r)
    /\ pc' = [pc EXCEPT ![r] = IF op[r] = "commission" THEN "lookup" ELSE "ok"]
    /\ ext' = [ext EXCEPT ![r] = IF op[r] = "commission" THEN Sending ELSE None]
    /\ stale' = [q \in Requests |->
           IF q = r THEN stale[q] ELSE stale[q] \cup Changed(data, Merged(r))]
    /\ UNCHANGED <<keys, chain, op, seen, want, faults, answered, failed>>

---------------------------------------------------------------------------
(* Wallets                                                                 *)

(* Slip: only the receiving wallet is created.                             *)
NextExtOneWallet(o, e) ==
    IF o = "commission" /\ e = Sending THEN Receiving ELSE None

(* CreateWallet creates receiving first, the commission sending first.     *)
NextExt(o, e) ==
    IF o = "create" /\ e = Receiving THEN Sending
    ELSE IF o = "commission" /\ e = Sending THEN Receiving ELSE None

(* The wallet of ext[r] is in the table: go on to the next one or finish.  *)
Advance(r, address) ==
    LET e == NextExt(op[r], ext[r]) IN
    /\ ext' = [ext EXCEPT ![r] = e]
    /\ pc' = [pc EXCEPT ![r] =
           IF op[r] = "create" THEN IF e # None THEN "choose" ELSE "write"
                               ELSE IF e # None THEN "lookup" ELSE "ok"]
    /\ answered' = answered \cup
           (IF op[r] = "deposit" THEN {<<ext[r], address>>} ELSE {})

(* Slip: a missing record is an error like any other.                      *)
LookupNotFoundIsError(r) ==
    /\ pc[r] = "lookup"
    /\ \/ /\ keys[ext[r]] # None
          /\ Advance(r, keys[ext[r]])
       \/ /\ keys[ext[r]] = None
          /\ pc' = [pc EXCEPT ![r] = "error"]
          /\ UNCHANGED <<ext, answered>>
    /\ UNCHANGED <<record, chain, op, seen, want, faults, failed, stale>>

(* Deposit: GetByUser; a wallet is created only if there is no record.     *)
Lookup(r) ==
    /\ pc[r] = "lookup"
    /\ \/ /\ keys[ext[r]] # None
          /\ Advance(r, keys[ext[r]])
       \/ /\ keys[ext[r]] = None
          /\ pc' = [pc EXCEPT ![r] = "choose"]
          /\ UNCHANGED <<ext, answered>>
    /\ UNCHANGED <<record, chain, op, seen, want, faults, failed, stale>>

(* A multisignature wallet is in the keyring, under its external id, while *)
(* it is funded and activated.                                             *)
InKeyring(e) == \E q \in Requests : pc[q] \in {"fund", "activate"} /\ ext[q] = e

(* createCoreumWallet: without a callback URL, or when the callback names  *)
(* no signers, the wallet has one key; otherwise it is saved as a          *)
(* multisignature, which fails if the name is taken.                       *)
ChooseSigners(r) ==
    /\ pc[r] = "choose"
    /\ \/ pc' = [pc EXCEPT ![r] = "put"]
       \/ /\ data.callback # NoUrl
          /\ pc' = [pc EXCEPT ![r] = IF InKeyring(ext[r]) THEN "error" ELSE "fund"]
    /\ UNCHANGED <<record, chain, op, seen, want, ext, faults, observations>>

(* updateGas on the new address, then a first transaction from it, signed  *)
(* by the merchant.                                                        *)
Fund(r) ==
    /\ pc[r] = "fund"
    /\ funded' = funded \cup {<<r, ext[r]>>}
    /\ pc' = [pc EXCEPT ![r] = "activate"]
    /\ UNCHANGED <<record, activated, op, seen, want, ext, faults, observations>>

Activate(r) ==
    /\ pc[r] = "activate"
    /\ activated' = activated \cup {<<r, ext[r]>>}
    /\ pc' = [pc EXCEPT ![r] = "put"]
    /\ UNCHANGED <<record, funded, op, seen, want, ext, faults, observations>>

(* Slip: the last record of a user wins.                                   *)
PutReplaces(r) ==
    /\ pc[r] = "put"
    /\ keys' = [keys EXCEPT ![ext[r]] = <<r, ext[r]>>]
    /\ Advance(r, <<r, ext[r]>>)
    /\ UNCHANGED <<data, chain, op, seen, want, faults, failed, stale>>

(* Slip: the error of Put is ignored.                                      *)
PutUnchecked(r) ==
    /\ pc[r] = "put"
    /\ keys' = [keys EXCEPT ![ext[r]] = IF @ = None THEN <<r, ext[r]>> ELSE @]
    /\ Advance(r, keys'[ext[r]])
    /\ UNCHANGED <<data, chain, op, seen, want, faults, failed, stale>>

(* Put: the address is new, so ON CONFLICT (key) does not apply; a second  *)
(* record of the same user violates merch_user_idx.                        *)
Put(r) ==
    /\ pc[r] = "put"
    /\ \/ /\ keys[ext[r]] = None
          /\ keys' = [keys EXCEPT ![ext[r]] = <<r, ext[r]>>]
          /\ Advance(r, <<r, ext[r]>>)
       \/ /\ keys[ext[r]] # None
          /\ pc' = [pc EXCEPT ![r] = "error"]
          /\ UNCHANGED <<keys, ext, answered>>
    /\ UNCHANGED <<data, chain, op, seen, want, faults, failed, stale>>

---------------------------------------------------------------------------
(* Failures                                                                *)
Stop(rs) ==
    /\ faults < MaxFaults /\ faults' = faults + 1
    /\ pc' = [r \in Requests |-> IF r \in rs THEN "error" ELSE pc[r]]
    /\ failed' = failed \cup rs

(* A statement, the callback or a transaction fails and did nothing.       *)
Fail(r) ==
    /\ Unfinished(r)
    /\ Stop({r})
    /\ UNCHANGED <<record, chain, op, seen, want, ext, answered, stale>>

(* A transaction lands although its broadcast reports an error.            *)
LandLate(r) ==
    /\ \/ /\ pc[r] = "fund"
          /\ funded' = funded \cup {<<r, ext[r]>>}
          /\ UNCHANGED activated
       \/ /\ pc[r] = "activate"
          /\ activated' = activated \cup {<<r, ext[r]>>}
          /\ UNCHANGED funded
    /\ Stop({r})
    /\ UNCHANGED <<record, op, seen, want, ext, answered, stale>>

(* A restart: every request in progress is lost.                           *)
Crash ==
    /\ \E r \in Requests : Unfinished(r)
    /\ Stop({r \in Requests : Unfinished(r)})
    /\ UNCHANGED <<record, chain, op, seen, want, ext, answered, stale>>

---------------------------------------------------------------------------
Http(r) == PublicKeySaver(r) \/ UpdateCallbackUrl(r) \/ UpdateMerchant(r)
           \/ UpdateMerchantCommission(r) \/ CreateWallet(r) \/ Deposit(r)

Handle(r) == ReadForm(r) \/ ReadCreate(r) \/ ReadAgain(r) \/ WriteMerchant(r) \/ Lookup(r)
             \/ ChooseSigners(r) \/ Fund(r) \/ Activate(r) \/ Put(r)

(* No more requests: the bound, not the end of the program.                *)
Finished ==
    /\ \A r \in Requests : pc[r] \in {"ok", "error"}
    /\ UNCHANGED vars

Next == \/ \E r \in Requests : Http(r) \/ Handle(r) \/ Fail(r) \/ LandLate(r)
        \/ Crash
        \/ Finished

Spec == Init /\ [][Next]_vars

---------------------------------------------------------------------------
(* Properties                                                              *)

(* The types of the variables; an address stored or funded is one that a   *)
(* request created for that id.                                            *)
TypeOK ==
    /\ data \in MerchantData
    /\ keys \in [Ext -> Address \cup {None}]
    /\ funded \subseteq Address /\ activated \subseteq Address
    /\ op \in [Requests -> Operations] /\ pc \in [Requests -> Phases]
    /\ seen \in [Requests -> MerchantData] /\ want \in [Requests -> MerchantData]
    /\ ext \in [Requests -> Ext \cup {None}]
    /\ faults \in 0..MaxFaults
    /\ answered \subseteq Ext \X Address
    /\ failed \subseteq Requests /\ stale \in [Requests -> SUBSET Fields]
    /\ \A r \in Requests :
           pc[r] \in {"lookup", "choose", "fund", "activate", "put"} => ext[r] \in Ext

(* An address given to a user is, from then on, the one whose keys are     *)
(* stored, whatever other requests for the same user were doing            *)
(* (processor-coreum/deposit.go:14-51).                                    *)
AnswersHold == \A e \in Ext, a \in Address :
    <<e, a>> \in answered => keys[e] = a

(* Tokens are sent to a new account before its keys are stored: they stay  *)
(* in an account whose keys are lost only if the request that sent them    *)
(* ended in an error (createwallet.go:130, deposit.go:34).                 *)
FundedIsStored == \A a \in funded :
    \/ keys[a[2]] = a
    \/ pc[a[1]] \in {"activate", "put"} /\ ext[a[1]] = a[2]
    \/ pc[a[1]] = "error"

(* A multisignature wallet is stored only after its first transaction.     *)
StoredIsActivated == \A e \in Ext :
    keys[e] \in funded => keys[e] \in activated

(* A commission request that has written the entry and not its wallets.    *)
Incomplete(r) == op[r] = "commission" /\ ext[r] # None

(* A wallets entry has its two wallets, unless a commission request wrote  *)
(* it and has not finished or ended in an error in between                 *)
(* (service.go:226-248); no write of an older value brings back an entry   *)
(* without wallets.                                                        *)
EntryHasWallets ==
    data.wallets # None =>
        \/ keys[Receiving] # None /\ keys[Sending] # None
        \/ \E r \in Requests : Incomplete(r)

(* The fields a request is about.                                          *)
About(o) == CASE o = "publicKey"   -> {"key"}
              [] o = "callbackUrl" -> {"callback"}
              [] o = "update"      -> {"key", "callback"}
              [] OTHER             -> {"wallets"}

(* A write changes a field it is not about only if another request changed *)
(* it since this one read it: no update is lost without an overlap.        *)
LosesOnlyOverlapping == \A r \in Requests :
    pc[r] = "write" /\ pc'[r] \notin {"write", "error"} =>
        Changed(data, data') \subseteq About(op[r]) \cup stale[r]
NoOtherLoss == [][LosesOnlyOverlapping]_vars

(* Another request still creates the wallet of e, or failed while it did.  *)
Attempted(e) == \E r \in Requests :
    /\ ext[r] = e
    /\ pc[r] \in {"fund", "activate", "put"} \/ r \in failed

(* A deposit request refused although nothing of it failed (the name was   *)
(* taken in the keyring, or the unique index refused the record) leaves a  *)
(* user who has a wallet, or for whom another request was creating one: no *)
(* two requests refuse each other (processor-coreum/deposit.go:14-51).     *)
RefusedHasWallet == \A r \in Requests :
    op[r] = "deposit" /\ pc[r] = "error" /\ r \notin failed
        => keys[ext[r]] # None \/ Attempted(ext[r])

(* What a user's deposits rest on, the keys of the address he was given:   *)
(* WalletContract (createwallet.go:89-133, keys.go:42-56).                 *)
Contract == INSTANCE WalletContract WITH
    Ids <- Ext, Addresses <- Address,
    stored <- keys, paid <- funded, active <- activated, given <- answered
ImplementsContract == Contract!Spec

=============================================================================
