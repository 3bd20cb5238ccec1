----------------------------- MODULE TransfersProofs -----------------------------
(***************************************************************************)
(* Theorems about Transfers: the keyring works as a lock for accounts with *)
(* one key, answers are true, and multisignature wallets are consented to. *)
(***************************************************************************)
EXTENDS Transfers, FiniteSetTheorems, TLAPS

Busy(r) == pc[r] \in {"gas", "top", "info", "sign", "round", "send", "wait"}

(* What each phase says of the kind of transfer.                           *)
KindInv == \A r \in Requests :
    /\ pc[r] \in {"gas", "top"} => part[r] = "top"
    /\ pc[r] \in {"idle", "hold", "info", "round"} => part[r] = "main"
    /\ pc[r] = "info" => op[r] \in {"sweep", "withdraw", "ft"}
    /\ pc[r] = "hold" => op[r] \in {"pay", "send", "nft"}
    /\ pc[r] \in {"gas", "top"} => op[r] # "send"
    /\ pc[r] = "round" => from[r] \in Multi
    /\ pc[r] = "sign" /\ part[r] = "main" => from[r] \notin Multi
    /\ op[r] \in {"pay", "nft"} => from[r] \notin Multi /\ from[r] # SendingWallet
    /\ op[r] \in {"sweep", "withdraw", "ft"} => from[r] # SendingWallet
    /\ op[r] = "send" => from[r] = SendingWallet /\ part[r] = "main"
    /\ pc[r] # "idle" => op[r] # "none"
    /\ why[r] # "none" => pc[r] \in {"ok", "error"}

(* Transfers that begin with their key have it until they return.          *)
HoldInv == \A r \in Requests :
    /\ pc[r] = "hold" => held[r] = {}
    /\ op[r] \in {"pay", "nft"} /\ Busy(r) => from[r] \in held[r]

(* The two parts of KeysKept: whose the keys are, and who needs one.       *)
Keys ==
    /\ keyring = UNION {held[r] : r \in Requests}
    /\ \A q, r \in Requests : q # r => held[q] \cap held[r] = {}
Holds == \A r \in Requests :
    /\ ~Unfinished(r) => held[r] = {}
    /\ pc[r] \in {"sign", "send", "wait"} /\ Src(r) \notin Multi => Src(r) \in held[r]

(* Where a transaction is, and what came of it.                            *)
FlightInv == \A r \in Requests :
    /\ r \in pool => result[r] = "none" /\ (pc[r] = "wait" \/ r \in lost)
    /\ pc[r] \notin {"wait", "ok", "error"} => result[r] = "none"
    /\ moved[r] = IF part[r] = "main" /\ result[r] = "ok" THEN 1 ELSE 0
    /\ r \in lost => pc[r] \in {"ok", "error"}

(* An account with one key: whoever is about to send has signed for the    *)
(* next sequence, unless an earlier transfer of the account gave up.       *)
TurnInv == \A r \in Requests :
    pc[r] = "send" /\ Src(r) \notin Multi =>
        \/ signed[r] = sequence[Src(r)] /\ Waiting(Src(r)) = {}
        \/ \E q \in lost \ {r} : Src(q) = Src(r)

(* Who is about to send for a multisignature wallet has the signatures.    *)
Signatures(r) == Cardinality(signers[r]) >= Threshold /\ signers[r] \cap Signers # {}
SignedInv == \A r \in Requests :
    pc[r] \in {"send", "wait", "ok", "error"} /\ part[r] = "main" /\ from[r] \in Multi
        /\ (pc[r] # "send" => r \in pool \/ moved[r] > 0) => Signatures(r)

(* Every transaction that waits for a block can pay its fee.               *)
FeeInv == \A a \in Addresses :
    a # SendingWallet => IsFiniteSet(Waiting(a)) /\ Cardinality(Waiting(a)) <= gas[a]

(* The gas a transfer has looked at is there, or another one spent it.     *)
Spent(r) == \E q \in Requests \ {r} :
    part[q] = "main" /\ from[q] = from[r] /\ result[q] # "none"
GasInv == \A r \in Requests :
    /\ Checked(r) = from[r] /\ op[r] # "send"
    /\ \/ pc[r] \in {"info", "sign", "round", "send"} /\ part[r] = "main"
       \/ pc[r] = "wait" /\ part[r] = "top" /\ result[r] = "ok"
    => gas[from[r]] > 0 \/ Spent(r)

(* How a transfer begins: what it is, whose tokens it moves, and where.     *)
Begins(r, o, a, p) ==
    /\ pc[r] = "idle"
    /\ op' = [op EXCEPT ![r] = o] /\ from' = [from EXCEPT ![r] = a]
    /\ part' = [part EXCEPT ![r] = IF p = "gas" THEN "top" ELSE "main"]
    /\ pc' = [pc EXCEPT ![r] = p]
    /\ \/ p = "gas" /\ o \in {"sweep", "withdraw", "ft"} /\ a # SendingWallet
       \/ p = "hold" /\ o \in {"pay", "nft"} /\ a \notin Multi /\ a # SendingWallet
       \/ p = "hold" /\ o = "send" /\ a = SendingWallet
    /\ UNCHANGED <<keyring, held, gas, sequence, pool, result, moved, signed, signers,
                   why, lost, faults>>

LEMMA BeginFacts ==
    ASSUME NEW r \in Requests, Transfer(r)
    PROVE  \E o \in Operations, a \in Addresses, p \in Phases : Begins(r, o, a, p)
  <1> USE TransfersAssumption DEF Goto, chain, Operations, Phases, Begin, Begins, Wallets
  <1>1. CASE TransferToReceiving(r)
    BY <1>1 DEF TransferToReceiving
  <1>2. CASE Withdraw(r)
    BY <1>2 DEF Withdraw
  <1>3. CASE TransferFT(r)
    BY <1>3 DEF TransferFT
  <1>4. CASE TransferFromReceiving(r)
    <2>1. ReceivingWallet \in Addresses \ Multi /\ ReceivingWallet # SendingWallet
      OBVIOUS
    <2> QED BY <1>4, <2>1 DEF TransferFromReceiving
  <1>5. CASE TransferFromSending(r)
    BY <1>5 DEF TransferFromSending
  <1>6. CASE TransferNFT(r)
    <2>1. PICK w \in Wallets : Begin(r, "nft", Own[w], "hold")
      BY <1>6 DEF TransferNFT
    <2>2. Own[w] \in Addresses \ Multi /\ Own[w] # SendingWallet
      BY DEF Multi
    <2> QED BY <2>1, <2>2
  <1> QED BY <1>1, <1>2, <1>3, <1>4, <1>5, <1>6 DEF Transfer

(* The types are kept by every step.                                        *)
LEMMA TypeStep ==
    ASSUME TypeOK, KindInv, FeeInv, Next
    PROVE  TypeOK'
  <1> USE TransfersAssumption DEF Goto, chain
  <1>1. ASSUME NEW r \in Requests, Transfer(r) PROVE TypeOK'
    <2>1. PICK o \in Operations, a \in Addresses, p \in Phases : Begins(r, o, a, p)
      BY <1>1, BeginFacts
    <2> QED BY <2>1 DEF Begins, TypeOK, Phases
  <1>2. ASSUME NEW r \in Requests, Hold(r) PROVE TypeOK'
    BY <1>2 DEF Hold, NewAccount, Answer, TypeOK, Phases
  <1>3. ASSUME NEW r \in Requests, UpdateGas(r) PROVE TypeOK'
    BY <1>3 DEF UpdateGas, Main, TypeOK, Phases
  <1>4. ASSUME NEW r \in Requests, TopUp(r) PROVE TypeOK'
    BY <1>4 DEF TopUp, NewAccount, Refuse, Answer, TypeOK, Phases
  <1>5. ASSUME NEW r \in Requests, GetAccountInfo(r) PROVE TypeOK'
    BY <1>5 DEF GetAccountInfo, NewAccount, Answer, TypeOK, Phases
  <1>6. ASSUME NEW r \in Requests, MultiSign(r) PROVE TypeOK'
    <2>1. PICK S \in SUBSET Signers : signers' = [signers EXCEPT ![r] = S \cup {Own[from[r]]}]
      BY <1>6 DEF MultiSign, MultiSignTransaction
    <2>2. Own[from[r]] \in Addresses
      BY <1>6 DEF TypeOK
    <2>3. signers' \in [Requests -> SUBSET (Signers \cup Addresses)]
      BY <2>1, <2>2 DEF TypeOK
    <2> QED BY <1>6, <2>3 DEF MultiSign, TypeOK, Phases
  <1>7. ASSUME NEW r \in Requests, BroadcastTx(r) PROVE TypeOK'
    <2>0. Src(r) \in Addresses /\ Checked(r) \in Addresses
      BY <1>7 DEF TypeOK, Src, Checked
    <2> QED BY <1>7, <2>0 DEF BroadcastTx, TypeOK, Phases
  <1>8. ASSUME NEW r \in Requests, BroadcastRawTx(r) PROVE TypeOK'
    BY <1>8 DEF BroadcastRawTx, Refuse, Answer, TypeOK, Phases
  <1>9. ASSUME NEW r \in Requests, AwaitTx(r) PROVE TypeOK'
    <2>1. /\ keyring' \subseteq Addresses /\ held' \in [Requests -> SUBSET Addresses]
          /\ part' \in [Requests -> {"top", "main"}]
      BY <1>9 DEF AwaitTx, Refuse, Answer, TypeOK
    <2>2. pc' \in [Requests -> Phases]
      BY <1>9 DEF AwaitTx, Refuse, Answer, Main, TypeOK, Phases
    <2>3. /\ result' \in [Requests -> {"none", "ok", "failed"}]
          /\ why' \in [Requests -> {"none", "key", "sequence", "gas", "failed", "timeout"}]
      BY <1>9 DEF AwaitTx, Refuse, Answer, TypeOK
    <2> QED BY <1>9, <2>1, <2>2, <2>3 DEF AwaitTx, TypeOK
  <1>10. ASSUME NEW r \in Requests, Timeout(r) PROVE TypeOK'
    BY <1>10 DEF Timeout, Refuse, Answer, TypeOK, Phases
  <1>11. ASSUME NEW r \in Requests, Fail(r) PROVE TypeOK'
    BY <1>11 DEF Fail, Refuse, Answer, TypeOK, Phases
  <1>12. ASSUME NEW r \in Requests, Include(r) PROVE TypeOK'
    <2>0. Src(r) \in Addresses /\ Checked(r) \in Addresses
      BY <1>12 DEF TypeOK, Src, Checked
    <2>1. result' \in [Requests -> {"none", "ok", "failed"}] /\ moved' \in [Requests -> Nat]
      BY <1>12 DEF Include, TypeOK
    <2>2. sequence' \in [Addresses -> Nat]
      BY <1>12, <2>0 DEF Include, TypeOK
    <2>3. Src(r) # SendingWallet => gas[Src(r)] > 0
      <3>1. CASE Src(r) # SendingWallet
        <4>1. IsFiniteSet(Waiting(Src(r))) /\ Cardinality(Waiting(Src(r))) <= gas[Src(r)]
          BY <2>0, <3>1 DEF FeeInv
        <4>2. r \in Waiting(Src(r))
          BY <1>12 DEF Include, Waiting
        <4>3. Cardinality(Waiting(Src(r))) # 0 /\ Cardinality(Waiting(Src(r))) \in Nat
          BY <4>1, <4>2, FS_EmptySet, FS_CardinalityType
        <4>4. gas[Src(r)] \in Nat
          BY <2>0 DEF TypeOK
        <4> QED BY <4>1, <4>3, <4>4
      <3> QED BY <3>1
    <2>4. gas' \in [Addresses -> Nat]
      BY <1>12, <2>0, <2>3 DEF Include, TypeOK
    <2> QED BY <1>12, <2>1, <2>2, <2>4 DEF Include, TypeOK
  <1>13. ASSUME NEW r \in Requests, Drop(r) PROVE TypeOK'
    BY <1>13 DEF Drop, TypeOK, Phases
  <1>14. CASE Crash
    BY <1>14 DEF Crash, Unfinished, TypeOK, Phases
  <1>15. CASE Finished
    BY <1>15 DEF Finished, vars, TypeOK, Phases
  <1> QED BY <1>1, <1>2, <1>3, <1>4, <1>5, <1>6, <1>7, <1>8,
         <1>9, <1>10, <1>11, <1>12, <1>13, <1>14, <1>15 DEF Next, Handle

(* The phases of each kind of transfer.                                     *)
LEMMA KindStep ==
    ASSUME TypeOK, KindInv, Next
    PROVE  KindInv'
  <1> USE TransfersAssumption DEF Goto, chain
  <1>1. ASSUME NEW r \in Requests, Transfer(r) PROVE KindInv'
    <2>1. PICK o \in Operations, a \in Addresses, p \in Phases : Begins(r, o, a, p)
      BY <1>1, BeginFacts
    <2> QED BY <2>1 DEF Begins, TypeOK, KindInv
  <1>2. ASSUME NEW r \in Requests, Hold(r) PROVE KindInv'
    BY <1>2 DEF Hold, NewAccount, Answer, TypeOK, KindInv
  <1>3. ASSUME NEW r \in Requests, UpdateGas(r) PROVE KindInv'
    <2>1. op[r] \in {"sweep", "withdraw", "ft", "pay", "nft"}
      BY <1>3 DEF UpdateGas, TypeOK, KindInv, Operations
    <2> QED BY <1>3, <2>1 DEF UpdateGas, Main, TypeOK, KindInv
  <1>4. ASSUME NEW r \in Requests, TopUp(r) PROVE KindInv'
    BY <1>4 DEF TopUp, NewAccount, Refuse, Answer, TypeOK, KindInv
  <1>5. ASSUME NEW r \in Requests, GetAccountInfo(r) PROVE KindInv'
    BY <1>5 DEF GetAccountInfo, NewAccount, Answer, TypeOK, KindInv
  <1>6. ASSUME NEW r \in Requests, MultiSign(r) PROVE KindInv'
    BY <1>6 DEF MultiSign, TypeOK, KindInv
  <1>7. ASSUME NEW r \in Requests, BroadcastTx(r) PROVE KindInv'
    BY <1>7 DEF BroadcastTx, TypeOK, KindInv
  <1>8. ASSUME NEW r \in Requests, BroadcastRawTx(r) PROVE KindInv'
    BY <1>8 DEF BroadcastRawTx, Refuse, Answer, TypeOK, KindInv
  <1>9. ASSUME NEW r \in Requests, AwaitTx(r) PROVE KindInv'
    <2>1. part[r] = "top" => op[r] \in {"sweep", "withdraw", "ft", "pay", "nft"}
      BY <1>9 DEF AwaitTx, TypeOK, KindInv, Operations
    <2> QED BY <1>9, <2>1 DEF AwaitTx, Refuse, Answer, Main, TypeOK, KindInv
  <1>10. ASSUME NEW r \in Requests, Timeout(r) PROVE KindInv'
    BY <1>10 DEF Timeout, Refuse, Answer, TypeOK, KindInv
  <1>11. ASSUME NEW r \in Requests, Fail(r) PROVE KindInv'
    BY <1>11 DEF Fail, Refuse, Answer, TypeOK, KindInv
  <1>12. ASSUME NEW r \in Requests, Include(r) PROVE KindInv'
    BY <1>12 DEF Include, TypeOK, KindInv
  <1>13. ASSUME NEW r \in Requests, Drop(r) PROVE KindInv'
    BY <1>13 DEF Drop, TypeOK, KindInv
  <1>14. CASE Crash
    BY <1>14 DEF Crash, Unfinished, TypeOK, KindInv
  <1>15. CASE Finished
    BY <1>15 DEF Finished, vars, TypeOK, KindInv
  <1> QED BY <1>1, <1>2, <1>3, <1>4, <1>5, <1>6, <1>7, <1>8,
         <1>9, <1>10, <1>11, <1>12, <1>13, <1>14, <1>15 DEF Next, Handle

(* Transfers that begin with their key keep it.                             *)
LEMMA HoldStep ==
    ASSUME TypeOK, KindInv, HoldInv, KeysKept, Next
    PROVE  HoldInv'
  <1> USE TransfersAssumption DEF Goto, chain
  <1>1. ASSUME NEW r \in Requests, Transfer(r) PROVE HoldInv'
    <2>1. PICK o \in Operations, a \in Addresses, p \in Phases : Begins(r, o, a, p)
      BY <1>1, BeginFacts
    <2>2. held[r] = {}
      BY <2>1 DEF Begins, KeysKept, Unfinished
    <2> QED BY <2>1, <2>2 DEF Begins, TypeOK, KindInv, HoldInv, Busy
  <1>2. ASSUME NEW r \in Requests, Hold(r) PROVE HoldInv'
    BY <1>2 DEF Hold, NewAccount, Answer, TypeOK, KindInv, HoldInv, Busy
  <1>3. ASSUME NEW r \in Requests, UpdateGas(r) PROVE HoldInv'
    BY <1>3 DEF UpdateGas, Main, TypeOK, KindInv, HoldInv, Busy
  <1>4. ASSUME NEW r \in Requests, TopUp(r) PROVE HoldInv'
    BY <1>4 DEF TopUp, NewAccount, Refuse, Answer, TypeOK, KindInv, HoldInv, Busy
  <1>5. ASSUME NEW r \in Requests, GetAccountInfo(r) PROVE HoldInv'
    BY <1>5 DEF GetAccountInfo, NewAccount, Answer, TypeOK, KindInv, HoldInv, Busy
  <1>6. ASSUME NEW r \in Requests, MultiSign(r) PROVE HoldInv'
    BY <1>6 DEF MultiSign, TypeOK, KindInv, HoldInv, Busy
  <1>7. ASSUME NEW r \in Requests, BroadcastTx(r) PROVE HoldInv'
    BY <1>7 DEF BroadcastTx, TypeOK, KindInv, HoldInv, Busy
  <1>8. ASSUME NEW r \in Requests, BroadcastRawTx(r) PROVE HoldInv'
    BY <1>8 DEF BroadcastRawTx, Refuse, Answer, TypeOK, KindInv, HoldInv, Busy
  <1>9. ASSUME NEW r \in Requests, AwaitTx(r) PROVE HoldInv'
    BY <1>9 DEF AwaitTx, Refuse, Answer, Main, TypeOK, KindInv, HoldInv, Busy
  <1>10. ASSUME NEW r \in Requests, Timeout(r) PROVE HoldInv'
    BY <1>10 DEF Timeout, Refuse, Answer, TypeOK, KindInv, HoldInv, Busy
  <1>11. ASSUME NEW r \in Requests, Fail(r) PROVE HoldInv'
    BY <1>11 DEF Fail, Refuse, Answer, TypeOK, KindInv, HoldInv, Busy
  <1>12. ASSUME NEW r \in Requests, Include(r) PROVE HoldInv'
    BY <1>12 DEF Include, TypeOK, KindInv, HoldInv, Busy
  <1>13. ASSUME NEW r \in Requests, Drop(r) PROVE HoldInv'
    BY <1>13 DEF Drop, TypeOK, KindInv, HoldInv, Busy
  <1>14. CASE Crash
    BY <1>14 DEF Crash, Unfinished, TypeOK, KindInv, HoldInv, Busy
  <1>15. CASE Finished
    BY <1>15 DEF Finished, vars, TypeOK, KindInv, HoldInv, Busy
  <1> QED BY <1>1, <1>2, <1>3, <1>4, <1>5, <1>6, <1>7, <1>8,
         <1>9, <1>10, <1>11, <1>12, <1>13, <1>14, <1>15 DEF Next, Handle

(* Where a transaction is, and what came of it.                             *)
LEMMA FlightStep ==
    ASSUME TypeOK, KindInv, FlightInv, Next
    PROVE  FlightInv'
  <1> USE TransfersAssumption DEF Goto, chain
  <1>1. ASSUME NEW r \in Requests, Transfer(r) PROVE FlightInv'
    <2>1. PICK o \in Operations, a \in Addresses, p \in Phases : Begins(r, o, a, p)
      BY <1>1, BeginFacts
    <2> QED BY <2>1 DEF Begins, TypeOK, KindInv, FlightInv
  <1>2. ASSUME NEW r \in Requests, Hold(r) PROVE FlightInv'
    BY <1>2 DEF Hold, NewAccount, Answer, TypeOK, KindInv, FlightInv
  <1>3. ASSUME NEW r \in Requests, UpdateGas(r) PROVE FlightInv'
    BY <1>3 DEF UpdateGas, Main, TypeOK, KindInv, FlightInv
  <1>4. ASSUME NEW r \in Requests, TopUp(r) PROVE FlightInv'
    BY <1>4 DEF TopUp, NewAccount, Refuse, Answer, TypeOK, KindInv, FlightInv
  <1>5. ASSUME NEW r \in Requests, GetAccountInfo(r) PROVE FlightInv'
    BY <1>5 DEF GetAccountInfo, NewAccount, Answer, TypeOK, KindInv, FlightInv
  <1>6. ASSUME NEW r \in Requests, MultiSign(r) PROVE FlightInv'
    BY <1>6 DEF MultiSign, TypeOK, KindInv, FlightInv
  <1>7. ASSUME NEW r \in Requests, BroadcastTx(r) PROVE FlightInv'
    BY <1>7 DEF BroadcastTx, TypeOK, KindInv, FlightInv
  <1>8. ASSUME NEW r \in Requests, BroadcastRawTx(r) PROVE FlightInv'
    BY <1>8 DEF BroadcastRawTx, Refuse, Answer, TypeOK, KindInv, FlightInv
  <1>9. ASSUME NEW r \in Requests, AwaitTx(r) PROVE FlightInv'
    BY <1>9 DEF AwaitTx, Refuse, Answer, Main, TypeOK, KindInv, FlightInv
  <1>10. ASSUME NEW r \in Requests, Timeout(r) PROVE FlightInv'
    BY <1>10 DEF Timeout, Refuse, Answer, TypeOK, KindInv, FlightInv
  <1>11. ASSUME NEW r \in Requests, Fail(r) PROVE FlightInv'
    BY <1>11 DEF Fail, Refuse, Answer, TypeOK, KindInv, FlightInv
  <1>12. ASSUME NEW r \in Requests, Include(r) PROVE FlightInv'
    BY <1>12 DEF Include, TypeOK, KindInv, FlightInv
  <1>13. ASSUME NEW r \in Requests, Drop(r) PROVE FlightInv'
    BY <1>13 DEF Drop, TypeOK, KindInv, FlightInv
  <1>14. CASE Crash
    BY <1>14 DEF Crash, Unfinished, TypeOK, KindInv, FlightInv
  <1>15. CASE Finished
    BY <1>15 DEF Finished, vars, TypeOK, KindInv, FlightInv
  <1> QED BY <1>1, <1>2, <1>3, <1>4, <1>5, <1>6, <1>7, <1>8,
         <1>9, <1>10, <1>11, <1>12, <1>13, <1>14, <1>15 DEF Next, Handle

(* A key that is not there is added, and belongs to the one that added it. *)
LEMMA NewAccountKeeps ==
    ASSUME TypeOK, KeysKept, NEW r \in Requests, NEW a \in Addresses, NewAccount(r, a)
    PROVE  Keys'
  <1>1. Keys
    BY DEF KeysKept, Keys
  <1>2. /\ a \notin keyring /\ keyring' = keyring \cup {a}
        /\ held'[r] = held[r] \cup {a} /\ \A q \in Requests : q # r => held'[q] = held[q]
    BY DEF NewAccount, TypeOK
  <1>3. keyring' = UNION {held'[q] : q \in Requests}
    <2>1. ASSUME NEW x \in keyring' PROVE \E q \in Requests : x \in held'[q]
      BY <1>1, <1>2, <2>1 DEF Keys
    <2>2. ASSUME NEW q \in Requests PROVE held'[q] \subseteq keyring'
      BY <1>1, <1>2 DEF Keys
    <2> QED BY <2>1, <2>2
  <1>4. ASSUME NEW p \in Requests, NEW q \in Requests, p # q PROVE held'[p] \cap held'[q] = {}
    <2>1. a \notin held[p] /\ a \notin held[q] /\ held[p] \cap held[q] = {}
      BY <1>1, <1>2, <1>4 DEF Keys
    <2> QED BY <1>2, <1>4, <2>1
  <1> QED BY <1>3, <1>4 DEF Keys

(* Only keys of the transfer that deletes them go.                         *)
LEMMA DeleteKeeps ==
    ASSUME TypeOK, KeysKept, NEW r \in Requests, NEW K \in SUBSET held[r],
           keyring' = keyring \ K, held' = [held EXCEPT ![r] = @ \ K]
    PROVE  Keys'
  <1>1. Keys
    BY DEF KeysKept, Keys
  <1>2. held'[r] = held[r] \ K /\ \A q \in Requests : q # r => held'[q] = held[q]
    BY DEF TypeOK
  <1>3. keyring' = UNION {held'[q] : q \in Requests}
    <2>1. ASSUME NEW x \in keyring' PROVE \E q \in Requests : x \in held'[q]
      <3>1. PICK q \in Requests : x \in held[q]
        BY <1>1, <2>1 DEF Keys
      <3> QED BY <1>2, <2>1, <3>1
    <2>2. ASSUME NEW q \in Requests PROVE held'[q] \subseteq keyring'
      <3>1. held[q] \subseteq keyring /\ (q # r => held[q] \cap held[r] = {})
        BY <1>1 DEF Keys
      <3> QED BY <1>2, <3>1
    <2> QED BY <2>1, <2>2
  <1>4. ASSUME NEW p \in Requests, NEW q \in Requests, p # q PROVE held'[p] \cap held'[q] = {}
    <2>1. held[p] \cap held[q] = {} /\ held'[p] \subseteq held[p] /\ held'[q] \subseteq held[q]
      BY <1>1, <1>2, <1>4 DEF Keys
    <2> QED BY <2>1
  <1> QED BY <1>3, <1>4 DEF Keys

(* So does a transfer that returns, refused or not.                        *)
LEMMA AnswerKeeps ==
    ASSUME TypeOK, KeysKept, NEW r \in Requests, NEW a, NEW y, Answer(r, a, y)
    PROVE  Keys'
  <1>1. /\ keyring' = keyring \ held[r] /\ held' = [held EXCEPT ![r] = @ \ held[r]]
    BY DEF Answer, TypeOK
  <1> QED BY <1>1, DeleteKeeps

LEMMA RefuseKeeps ==
    ASSUME TypeOK, KeysKept, NEW r \in Requests, NEW y, Refuse(r, y)
    PROVE  Keys'
  BY AnswerKeeps DEF Refuse

(* Keys are added and deleted by the transfer they belong to.               *)
LEMMA KeysStep ==
    ASSUME TypeOK, KeysKept, Next
    PROVE  Keys'
  <1> USE TransfersAssumption DEF Goto, chain
  <1>1. ASSUME NEW r \in Requests, Transfer(r) PROVE Keys'
    <2>1. PICK o \in Operations, a \in Addresses, p \in Phases : Begins(r, o, a, p)
      BY <1>1, BeginFacts
    <2> QED BY <2>1 DEF Begins, KeysKept, Keys
  <1>2. ASSUME NEW r \in Requests, Hold(r) PROVE Keys'
    <2>1. CASE NewAccount(r, from[r])
      BY <2>1, NewAccountKeeps DEF TypeOK
    <2>2. CASE Answer(r, "error", "key")
      BY <2>2, AnswerKeeps
    <2> QED BY <1>2, <2>1, <2>2 DEF Hold
  <1>3. ASSUME NEW r \in Requests, UpdateGas(r) PROVE Keys'
    BY <1>3 DEF UpdateGas, Main, KeysKept, Keys
  <1>4. ASSUME NEW r \in Requests, TopUp(r) PROVE Keys'
    <2>1. CASE NewAccount(r, SendingWallet)
      BY <2>1, NewAccountKeeps
    <2>2. CASE Refuse(r, "key")
      BY <2>2, RefuseKeeps
    <2> QED BY <1>4, <2>1, <2>2 DEF TopUp
  <1>5. ASSUME NEW r \in Requests, GetAccountInfo(r) PROVE Keys'
    <2>1. CASE NewAccount(r, from[r])
      BY <2>1, NewAccountKeeps DEF TypeOK
    <2>2. CASE Answer(r, "error", "key")
      BY <2>2, AnswerKeeps
    <2>3. CASE UNCHANGED <<keyring, held>>
      BY <2>3 DEF KeysKept, Keys
    <2> QED BY <1>5, <2>1, <2>2, <2>3 DEF GetAccountInfo
  <1>6. ASSUME NEW r \in Requests, MultiSign(r) PROVE Keys'
    BY <1>6 DEF MultiSign, KeysKept, Keys
  <1>7. ASSUME NEW r \in Requests, BroadcastTx(r) PROVE Keys'
    BY <1>7 DEF BroadcastTx, KeysKept, Keys
  <1>8. ASSUME NEW r \in Requests, BroadcastRawTx(r) PROVE Keys'
    <2>1. CASE \E y : Refuse(r, y)
      BY <2>1, RefuseKeeps
    <2>2. CASE UNCHANGED <<keyring, held>>
      BY <2>2 DEF KeysKept, Keys
    <2> QED BY <1>8, <2>1, <2>2 DEF BroadcastRawTx
  <1>9. ASSUME NEW r \in Requests, AwaitTx(r) PROVE Keys'
    <2>1. CASE part[r] = "top" /\ keyring' = keyring \ {SendingWallet}
                  /\ held' = [held EXCEPT ![r] = @ \ {SendingWallet}]
      <3>1. SendingWallet \in held[r]
        BY <1>9, <2>1 DEF AwaitTx, KeysKept, Src, Multi
      <3>2. {SendingWallet} \in SUBSET held[r]
        BY <3>1
      <3> QED BY <2>1, <3>2, DeleteKeeps
    <2>2. CASE Answer(r, "ok", "none")
      BY <2>2, AnswerKeeps
    <2>3. CASE Refuse(r, "failed")
      BY <2>3, RefuseKeeps
    <2> QED BY <1>9, <2>1, <2>2, <2>3 DEF AwaitTx
  <1>10. ASSUME NEW r \in Requests, Timeout(r) PROVE Keys'
    BY <1>10, RefuseKeeps DEF Timeout
  <1>11. ASSUME NEW r \in Requests, Fail(r) PROVE Keys'
    BY <1>11, RefuseKeeps DEF Fail
  <1>12. ASSUME NEW r \in Requests, Include(r) PROVE Keys'
    BY <1>12 DEF Include, KeysKept, Keys
  <1>13. ASSUME NEW r \in Requests, Drop(r) PROVE Keys'
    BY <1>13 DEF Drop, KeysKept, Keys
  <1>14. CASE Crash
    BY <1>14 DEF Crash, Keys
  <1>15. CASE Finished
    BY <1>15 DEF Finished, vars, KeysKept, Keys
  <1> QED BY <1>1, <1>2, <1>3, <1>4, <1>5, <1>6, <1>7, <1>8,
         <1>9, <1>10, <1>11, <1>12, <1>13, <1>14, <1>15 DEF Next, Handle

(* Who signs has the key.                                                   *)
LEMMA HoldsStep ==
    ASSUME TypeOK, KindInv, HoldInv, KeysKept, Next
    PROVE  Holds'
  <1> USE TransfersAssumption DEF Goto, chain
  <1>1. ASSUME NEW r \in Requests, Transfer(r) PROVE Holds'
    <2>1. PICK o \in Operations, a \in Addresses, p \in Phases : Begins(r, o, a, p)
      BY <1>1, BeginFacts
    <2> QED BY <2>1 DEF Begins, TypeOK, KindInv, HoldInv, KeysKept, Holds, Unfinished, Src, Busy
  <1>2. ASSUME NEW r \in Requests, Hold(r) PROVE Holds'
    BY <1>2 DEF Hold, NewAccount, Answer, TypeOK, KindInv, HoldInv, KeysKept, Holds,
       Unfinished, Src, Busy
  <1>3. ASSUME NEW r \in Requests, UpdateGas(r) PROVE Holds'
    BY <1>3 DEF UpdateGas, Main, TypeOK, KindInv, HoldInv, KeysKept, Holds, Unfinished,
       Src, Busy
  <1>4. ASSUME NEW r \in Requests, TopUp(r) PROVE Holds'
    BY <1>4 DEF TopUp, NewAccount, Refuse, Answer, TypeOK, KindInv, HoldInv, KeysKept,
       Holds, Unfinished, Src, Busy
  <1>5. ASSUME NEW r \in Requests, GetAccountInfo(r) PROVE Holds'
    BY <1>5 DEF GetAccountInfo, NewAccount, Answer, TypeOK, KindInv, HoldInv, KeysKept,
       Holds, Unfinished, Src, Busy
  <1>6. ASSUME NEW r \in Requests, MultiSign(r) PROVE Holds'
    BY <1>6 DEF MultiSign, TypeOK, KindInv, HoldInv, KeysKept, Holds, Unfinished, Src,
       Busy
  <1>7. ASSUME NEW r \in Requests, BroadcastTx(r) PROVE Holds'
    BY <1>7 DEF BroadcastTx, TypeOK, KindInv, HoldInv, KeysKept, Holds, Unfinished, Src,
       Busy
  <1>8. ASSUME NEW r \in Requests, BroadcastRawTx(r) PROVE Holds'
    BY <1>8 DEF BroadcastRawTx, Refuse, Answer, TypeOK, KindInv, HoldInv, KeysKept,
       Holds, Unfinished, Src, Busy
  <1>9. ASSUME NEW r \in Requests, AwaitTx(r) PROVE Holds'
    <2>1. CASE result[r] = "ok" /\ part[r] = "top"
      <3>1. /\ op[r] \in {"sweep", "withdraw", "ft", "pay", "nft"} /\ pc[r] = "wait"
            /\ op[r] \in {"pay", "nft"} => from[r] \in held[r] \ {SendingWallet}
        BY <1>9, <2>1 DEF AwaitTx, KindInv, HoldInv, Busy, TypeOK, Operations
      <3>2. /\ pc'[r] \in {"info", "sign"} /\ (pc'[r] = "sign" => op[r] \in {"pay", "nft"})
            /\ part'[r] = "main" /\ from'[r] = from[r] /\ held'[r] = held[r] \ {SendingWallet}
        BY <1>9, <2>1 DEF AwaitTx, Main, TypeOK
      <3>3. \A q \in Requests : q # r => /\ pc'[q] = pc[q] /\ part'[q] = part[q]
                                         /\ from'[q] = from[q] /\ held'[q] = held[q]
        BY <1>9, <2>1 DEF AwaitTx, TypeOK
      <3> QED BY <3>1, <3>2, <3>3 DEF Holds, KeysKept, Unfinished, Src
    <2>2. CASE ~(result[r] = "ok" /\ part[r] = "top")
      BY <1>9, <2>2 DEF AwaitTx, Refuse, Answer, TypeOK, KeysKept, Holds, Unfinished,
         Src
    <2> QED BY <2>1, <2>2
  <1>10. ASSUME NEW r \in Requests, Timeout(r) PROVE Holds'
    BY <1>10 DEF Timeout, Refuse, Answer, TypeOK, KindInv, HoldInv, KeysKept, Holds,
       Unfinished, Src, Busy
  <1>11. ASSUME NEW r \in Requests, Fail(r) PROVE Holds'
    BY <1>11 DEF Fail, Refuse, Answer, TypeOK, KindInv, HoldInv, KeysKept, Holds,
       Unfinished, Src, Busy
  <1>12. ASSUME NEW r \in Requests, Include(r) PROVE Holds'
    BY <1>12 DEF Include, TypeOK, KindInv, HoldInv, KeysKept, Holds, Unfinished, Src,
       Busy
  <1>13. ASSUME NEW r \in Requests, Drop(r) PROVE Holds'
    BY <1>13 DEF Drop, TypeOK, KindInv, HoldInv, KeysKept, Holds, Unfinished, Src, Busy
  <1>14. CASE Crash
    BY <1>14 DEF Crash, Unfinished, TypeOK, KindInv, HoldInv, KeysKept, Holds,
       Unfinished, Src, Busy
  <1>15. CASE Finished
    BY <1>15 DEF Finished, vars, TypeOK, KindInv, HoldInv, KeysKept, Holds, Unfinished,
       Src, Busy
  <1> QED BY <1>1, <1>2, <1>3, <1>4, <1>5, <1>6, <1>7, <1>8,
         <1>9, <1>10, <1>11, <1>12, <1>13, <1>14, <1>15 DEF Next, Handle

(* Who is about to send is next.                                            *)
LEMMA TurnStep ==
    ASSUME TypeOK, KindInv, KeysKept, FlightInv, TurnInv, Next
    PROVE  TurnInv'
  <1> USE TransfersAssumption DEF Goto, chain
  <1>1. ASSUME NEW r \in Requests, Transfer(r) PROVE TurnInv'
    <2>1. PICK o \in Operations, a \in Addresses, p \in Phases : Begins(r, o, a, p)
      BY <1>1, BeginFacts
    <2> QED BY <2>1 DEF Begins, TypeOK, KindInv, FlightInv, TurnInv, Src, Waiting, KeysKept
  <1>2. ASSUME NEW r \in Requests, Hold(r) PROVE TurnInv'
    BY <1>2 DEF Hold, NewAccount, Answer, TypeOK, KindInv, FlightInv, TurnInv, Src,
       Waiting, KeysKept
  <1>3. ASSUME NEW r \in Requests, UpdateGas(r) PROVE TurnInv'
    BY <1>3 DEF UpdateGas, Main, TypeOK, KindInv, FlightInv, TurnInv, Src, Waiting,
       KeysKept
  <1>4. ASSUME NEW r \in Requests, TopUp(r) PROVE TurnInv'
    BY <1>4 DEF TopUp, NewAccount, Refuse, Answer, TypeOK, KindInv, FlightInv, TurnInv,
       Src, Waiting, KeysKept
  <1>5. ASSUME NEW r \in Requests, GetAccountInfo(r) PROVE TurnInv'
    BY <1>5 DEF GetAccountInfo, NewAccount, Answer, TypeOK, KindInv, FlightInv, TurnInv,
       Src, Waiting, KeysKept
  <1>6. ASSUME NEW r \in Requests, MultiSign(r) PROVE TurnInv'
    BY <1>6 DEF MultiSign, TypeOK, KindInv, FlightInv, TurnInv, Src, Waiting, KeysKept
  <1>7. ASSUME NEW r \in Requests, BroadcastTx(r) PROVE TurnInv'
    BY <1>7 DEF BroadcastTx, TypeOK, KindInv, FlightInv, TurnInv, Src, Waiting, KeysKept
  <1>8. ASSUME NEW r \in Requests, BroadcastRawTx(r) PROVE TurnInv'
    BY <1>8 DEF BroadcastRawTx, Refuse, Answer, TypeOK, KindInv, FlightInv, TurnInv,
       Src, Waiting, KeysKept
  <1>9. ASSUME NEW r \in Requests, AwaitTx(r) PROVE TurnInv'
    BY <1>9 DEF AwaitTx, Refuse, Answer, Main, TypeOK, KindInv, FlightInv, TurnInv, Src,
       Waiting, KeysKept
  <1>10. ASSUME NEW r \in Requests, Timeout(r) PROVE TurnInv'
    BY <1>10 DEF Timeout, Refuse, Answer, TypeOK, KindInv, FlightInv, TurnInv, Src,
       Waiting, KeysKept
  <1>11. ASSUME NEW r \in Requests, Fail(r) PROVE TurnInv'
    BY <1>11 DEF Fail, Refuse, Answer, TypeOK, KindInv, FlightInv, TurnInv, Src,
       Waiting, KeysKept
  <1>12. ASSUME NEW r \in Requests, Include(r) PROVE TurnInv'
    BY <1>12 DEF Include, TypeOK, KindInv, FlightInv, TurnInv, Src, Waiting, KeysKept
  <1>13. ASSUME NEW r \in Requests, Drop(r) PROVE TurnInv'
    BY <1>13 DEF Drop, TypeOK, KindInv, FlightInv, TurnInv, Src, Waiting, KeysKept
  <1>14. CASE Crash
    BY <1>14 DEF Crash, Unfinished, TypeOK, KindInv, FlightInv, TurnInv, Src, Waiting,
       KeysKept
  <1>15. CASE Finished
    BY <1>15 DEF Finished, vars, TypeOK, KindInv, FlightInv, TurnInv, Src, Waiting,
       KeysKept
  <1> QED BY <1>1, <1>2, <1>3, <1>4, <1>5, <1>6, <1>7, <1>8,
         <1>9, <1>10, <1>11, <1>12, <1>13, <1>14, <1>15 DEF Next, Handle

(* A transaction is refused for its sequence after a lost one.              *)
LEMMA InTurnStep ==
    ASSUME TypeOK, KindInv, FlightInv, TurnInv, InTurn, Next
    PROVE  InTurn'
  <1> USE TransfersAssumption DEF Goto, chain
  <1>1. ASSUME NEW r \in Requests, Transfer(r) PROVE InTurn'
    <2>1. PICK o \in Operations, a \in Addresses, p \in Phases : Begins(r, o, a, p)
      BY <1>1, BeginFacts
    <2>2. r \notin lost /\ why[r] = "none"
      BY <2>1 DEF Begins, KindInv, FlightInv, TypeOK
    <2>3. \A q \in Requests : q # r => Src(q)' = Src(q)
      BY <2>1 DEF Begins, Src, TypeOK
    <2>4. why' = why /\ lost' = lost
      BY <2>1 DEF Begins
    <2> QED BY <2>2, <2>3, <2>4 DEF InTurn, TypeOK
  <1>2. ASSUME NEW r \in Requests, Hold(r) PROVE InTurn'
    BY <1>2 DEF Hold, NewAccount, Answer, TypeOK, KindInv, FlightInv, TurnInv, InTurn,
       Src, Waiting
  <1>3. ASSUME NEW r \in Requests, UpdateGas(r) PROVE InTurn'
    BY <1>3 DEF UpdateGas, Main, TypeOK, KindInv, FlightInv, TurnInv, InTurn, Src,
       Waiting
  <1>4. ASSUME NEW r \in Requests, TopUp(r) PROVE InTurn'
    BY <1>4 DEF TopUp, NewAccount, Refuse, Answer, TypeOK, KindInv, FlightInv, TurnInv,
       InTurn, Src, Waiting
  <1>5. ASSUME NEW r \in Requests, GetAccountInfo(r) PROVE InTurn'
    BY <1>5 DEF GetAccountInfo, NewAccount, Answer, TypeOK, KindInv, FlightInv, TurnInv,
       InTurn, Src, Waiting
  <1>6. ASSUME NEW r \in Requests, MultiSign(r) PROVE InTurn'
    BY <1>6 DEF MultiSign, TypeOK, KindInv, FlightInv, TurnInv, InTurn, Src, Waiting
  <1>7. ASSUME NEW r \in Requests, BroadcastTx(r) PROVE InTurn'
    BY <1>7 DEF BroadcastTx, TypeOK, KindInv, FlightInv, TurnInv, InTurn, Src, Waiting
  <1>8. ASSUME NEW r \in Requests, BroadcastRawTx(r) PROVE InTurn'
    <2>1. lost' = lost /\ \A q \in Requests : Src(q)' = Src(q)
      BY <1>8 DEF BroadcastRawTx, Src
    <2>2. \A q \in Requests : q # r => why'[q] = why[q]
      BY <1>8 DEF BroadcastRawTx, Refuse, Answer, TypeOK
    <2>3. why[r] = "none" /\ pc[r] = "send"
      BY <1>8 DEF BroadcastRawTx, KindInv
    <2>4. ASSUME why'[r] = "sequence", Src(r) \notin Multi
          PROVE  \E q \in lost \ {r} : Src(q) = Src(r)
      <3>1. signed[r] # sequence[Src(r)] + Cardinality(Waiting(Src(r)))
        BY <1>8, <2>3, <2>4 DEF BroadcastRawTx, Refuse, Answer, TypeOK
      <3>2. sequence[Src(r)] \in Nat
        BY DEF TypeOK, Src
      <3>3. CASE signed[r] = sequence[Src(r)] /\ Waiting(Src(r)) = {}
        BY <3>1, <3>2, <3>3, FS_EmptySet
      <3> QED BY <2>3, <2>4, <3>3 DEF TurnInv
    <2>5. ASSUME NEW q \in Requests, why'[q] = "sequence", Src(q) \notin Multi
          PROVE  \E p \in lost \ {q} : Src(p) = Src(q)
      BY <2>2, <2>4, <2>5 DEF InTurn
    <2>6. ASSUME NEW q \in Requests, why'[q] = "sequence", Src(q)' \notin Multi
          PROVE  \E p \in lost' \ {q} : Src(p)' = Src(q)'
      <3>1. PICK p \in lost \ {q} : Src(p) = Src(q)
        BY <2>1, <2>5, <2>6
      <3>2. p \in Requests
        BY DEF TypeOK
      <3> QED BY <2>1, <3>1, <3>2
    <2> QED BY <2>6 DEF InTurn
  <1>9. ASSUME NEW r \in Requests, AwaitTx(r) PROVE InTurn'
    BY <1>9 DEF AwaitTx, Refuse, Answer, Main, TypeOK, KindInv, FlightInv, TurnInv,
       InTurn, Src, Waiting
  <1>10. ASSUME NEW r \in Requests, Timeout(r) PROVE InTurn'
    BY <1>10 DEF Timeout, Refuse, Answer, TypeOK, KindInv, FlightInv, TurnInv, InTurn,
       Src, Waiting
  <1>11. ASSUME NEW r \in Requests, Fail(r) PROVE InTurn'
    BY <1>11 DEF Fail, Refuse, Answer, TypeOK, KindInv, FlightInv, TurnInv, InTurn, Src,
       Waiting
  <1>12. ASSUME NEW r \in Requests, Include(r) PROVE InTurn'
    BY <1>12 DEF Include, TypeOK, KindInv, FlightInv, TurnInv, InTurn, Src, Waiting
  <1>13. ASSUME NEW r \in Requests, Drop(r) PROVE InTurn'
    BY <1>13 DEF Drop, TypeOK, KindInv, FlightInv, TurnInv, InTurn, Src, Waiting
  <1>14. CASE Crash
    BY <1>14 DEF Crash, Unfinished, TypeOK, KindInv, FlightInv, TurnInv, InTurn, Src,
       Waiting
  <1>15. CASE Finished
    BY <1>15 DEF Finished, vars, TypeOK, KindInv, FlightInv, TurnInv, InTurn, Src,
       Waiting
  <1> QED BY <1>1, <1>2, <1>3, <1>4, <1>5, <1>6, <1>7, <1>8,
         <1>9, <1>10, <1>11, <1>12, <1>13, <1>14, <1>15 DEF Next, Handle

(* What is answered is what happened.                                       *)
LEMMA AnswerStep ==
    ASSUME TypeOK, KindInv, FlightInv, AnswerIsTrue, Next
    PROVE  AnswerIsTrue'
  <1> USE TransfersAssumption DEF Goto, chain
  <1>1. ASSUME NEW r \in Requests, Transfer(r) PROVE AnswerIsTrue'
    <2>1. PICK o \in Operations, a \in Addresses, p \in Phases : Begins(r, o, a, p)
      BY <1>1, BeginFacts
    <2> QED BY <2>1 DEF Begins, TypeOK, KindInv, FlightInv, AnswerIsTrue
  <1>2. ASSUME NEW r \in Requests, Hold(r) PROVE AnswerIsTrue'
    BY <1>2 DEF Hold, NewAccount, Answer, TypeOK, KindInv, FlightInv, AnswerIsTrue
  <1>3. ASSUME NEW r \in Requests, UpdateGas(r) PROVE AnswerIsTrue'
    BY <1>3 DEF UpdateGas, Main, TypeOK, KindInv, FlightInv, AnswerIsTrue
  <1>4. ASSUME NEW r \in Requests, TopUp(r) PROVE AnswerIsTrue'
    BY <1>4 DEF TopUp, NewAccount, Refuse, Answer, TypeOK, KindInv, FlightInv,
       AnswerIsTrue
  <1>5. ASSUME NEW r \in Requests, GetAccountInfo(r) PROVE AnswerIsTrue'
    BY <1>5 DEF GetAccountInfo, NewAccount, Answer, TypeOK, KindInv, FlightInv,
       AnswerIsTrue
  <1>6. ASSUME NEW r \in Requests, MultiSign(r) PROVE AnswerIsTrue'
    BY <1>6 DEF MultiSign, TypeOK, KindInv, FlightInv, AnswerIsTrue
  <1>7. ASSUME NEW r \in Requests, BroadcastTx(r) PROVE AnswerIsTrue'
    BY <1>7 DEF BroadcastTx, TypeOK, KindInv, FlightInv, AnswerIsTrue
  <1>8. ASSUME NEW r \in Requests, BroadcastRawTx(r) PROVE AnswerIsTrue'
    BY <1>8 DEF BroadcastRawTx, Refuse, Answer, TypeOK, KindInv, FlightInv, AnswerIsTrue
  <1>9. ASSUME NEW r \in Requests, AwaitTx(r) PROVE AnswerIsTrue'
    BY <1>9 DEF AwaitTx, Refuse, Answer, Main, TypeOK, KindInv, FlightInv, AnswerIsTrue
  <1>10. ASSUME NEW r \in Requests, Timeout(r) PROVE AnswerIsTrue'
    BY <1>10 DEF Timeout, Refuse, Answer, TypeOK, KindInv, FlightInv, AnswerIsTrue
  <1>11. ASSUME NEW r \in Requests, Fail(r) PROVE AnswerIsTrue'
    BY <1>11 DEF Fail, Refuse, Answer, TypeOK, KindInv, FlightInv, AnswerIsTrue
  <1>12. ASSUME NEW r \in Requests, Include(r) PROVE AnswerIsTrue'
    BY <1>12 DEF Include, TypeOK, KindInv, FlightInv, AnswerIsTrue
  <1>13. ASSUME NEW r \in Requests, Drop(r) PROVE AnswerIsTrue'
    BY <1>13 DEF Drop, TypeOK, KindInv, FlightInv, AnswerIsTrue
  <1>14. CASE Crash
    BY <1>14 DEF Crash, Unfinished, TypeOK, KindInv, FlightInv, AnswerIsTrue
  <1>15. CASE Finished
    BY <1>15 DEF Finished, vars, TypeOK, KindInv, FlightInv, AnswerIsTrue
  <1> QED BY <1>1, <1>2, <1>3, <1>4, <1>5, <1>6, <1>7, <1>8,
         <1>9, <1>10, <1>11, <1>12, <1>13, <1>14, <1>15 DEF Next, Handle

(* Who is about to send for a multisignature wallet has the signatures.     *)
LEMMA SignedStep ==
    ASSUME TypeOK, KindInv, FlightInv, SignedInv, Next
    PROVE  SignedInv'
  <1> USE TransfersAssumption DEF Goto, chain
  <1>1. ASSUME NEW r \in Requests, Transfer(r) PROVE SignedInv'
    <2>1. PICK o \in Operations, a \in Addresses, p \in Phases : Begins(r, o, a, p)
      BY <1>1, BeginFacts
    <2> QED BY <2>1 DEF Begins, TypeOK, KindInv, FlightInv, SignedInv, Signatures
  <1>2. ASSUME NEW r \in Requests, Hold(r) PROVE SignedInv'
    BY <1>2 DEF Hold, NewAccount, Answer, TypeOK, KindInv, FlightInv, SignedInv,
       Signatures
  <1>3. ASSUME NEW r \in Requests, UpdateGas(r) PROVE SignedInv'
    BY <1>3 DEF UpdateGas, Main, TypeOK, KindInv, FlightInv, SignedInv, Signatures
  <1>4. ASSUME NEW r \in Requests, TopUp(r) PROVE SignedInv'
    BY <1>4 DEF TopUp, NewAccount, Refuse, Answer, TypeOK, KindInv, FlightInv,
       SignedInv, Signatures
  <1>5. ASSUME NEW r \in Requests, GetAccountInfo(r) PROVE SignedInv'
    BY <1>5 DEF GetAccountInfo, NewAccount, Answer, TypeOK, KindInv, FlightInv,
       SignedInv, Signatures
  <1>6. ASSUME NEW r \in Requests, MultiSign(r) PROVE SignedInv'
    <2>1. PICK S \in SUBSET Signers :
              /\ Cardinality(S) = Threshold - 1
              /\ signers' = [signers EXCEPT ![r] = S \cup {Own[from[r]]}]
      BY <1>6 DEF MultiSign, MultiSignTransaction
    <2>2. Own[from[r]] \in Addresses /\ Own[from[r]] \notin S
      BY DEF TypeOK
    <2>3. IsFiniteSet(S)
      BY FS_Subset
    <2>4. Cardinality(S \cup {Own[from[r]]}) = Threshold
      <3>1. Cardinality(S \cup {Own[from[r]]}) = Cardinality(S) + 1
        BY <2>2, <2>3, FS_AddElement
      <3>2. Threshold \in Nat /\ Cardinality(Signers) \in Nat
        BY FS_CardinalityType
      <3> QED BY <2>1, <3>1, <3>2
    <2>5. S # {}
      <3>1. Cardinality(S) # 0
        BY <2>1, FS_CardinalityType
      <3> QED BY <3>1, FS_EmptySet
    <2>6. Signatures(r)'
      <3>1. signers'[r] = S \cup {Own[from[r]]}
        BY <2>1 DEF TypeOK
      <3>2. Threshold \in Int
        BY FS_CardinalityType
      <3> QED BY <2>4, <2>5, <3>1, <3>2 DEF Signatures
    <2>7. \A q \in Requests : q # r => signers'[q] = signers[q] /\ pc'[q] = pc[q]
      BY <1>6, <2>1 DEF MultiSign, TypeOK
    <2>8. part' = part /\ from' = from /\ pool' = pool /\ moved' = moved
      BY <1>6 DEF MultiSign
    <2> QED BY <2>6, <2>7, <2>8 DEF SignedInv, Signatures
  <1>7. ASSUME NEW r \in Requests, BroadcastTx(r) PROVE SignedInv'
    BY <1>7 DEF BroadcastTx, TypeOK, KindInv, FlightInv, SignedInv, Signatures
  <1>8. ASSUME NEW r \in Requests, BroadcastRawTx(r) PROVE SignedInv'
    BY <1>8 DEF BroadcastRawTx, Refuse, Answer, TypeOK, KindInv, FlightInv, SignedInv,
       Signatures
  <1>9. ASSUME NEW r \in Requests, AwaitTx(r) PROVE SignedInv'
    <2>1. /\ part[r] = "top" => ~(pc'[r] \in {"send", "wait"})
          /\ part[r] = "top" /\ part'[r] = "main" => pc'[r] \in {"info", "sign"}
          /\ part[r] = "main" => part'[r] = "main" /\ pc'[r] # "send" /\ pc[r] = "wait"
          /\ part[r] = "top" => part'[r] \in {"top", "main"}
      BY <1>9 DEF AwaitTx, Refuse, Answer, Main, TypeOK
    <2>2. \A q \in Requests : q # r => part'[q] = part[q] /\ pc'[q] = pc[q]
      BY <1>9 DEF AwaitTx, Refuse, Answer, TypeOK
    <2>3. signers' = signers /\ from' = from /\ pool' = pool /\ moved' = moved
      BY <1>9 DEF AwaitTx
    <2>4. part[r] \in {"top", "main"}
      BY DEF TypeOK
    <2> QED BY <2>1, <2>2, <2>3, <2>4 DEF SignedInv, Signatures
  <1>10. ASSUME NEW r \in Requests, Timeout(r) PROVE SignedInv'
    BY <1>10 DEF Timeout, Refuse, Answer, TypeOK, KindInv, FlightInv, SignedInv,
       Signatures
  <1>11. ASSUME NEW r \in Requests, Fail(r) PROVE SignedInv'
    BY <1>11 DEF Fail, Refuse, Answer, TypeOK, KindInv, FlightInv, SignedInv, Signatures
  <1>12. ASSUME NEW r \in Requests, Include(r) PROVE SignedInv'
    BY <1>12 DEF Include, TypeOK, KindInv, FlightInv, SignedInv, Signatures
  <1>13. ASSUME NEW r \in Requests, Drop(r) PROVE SignedInv'
    BY <1>13 DEF Drop, TypeOK, KindInv, FlightInv, SignedInv, Signatures
  <1>14. CASE Crash
    BY <1>14 DEF Crash, Unfinished, TypeOK, KindInv, FlightInv, SignedInv, Signatures
  <1>15. CASE Finished
    BY <1>15 DEF Finished, vars, TypeOK, KindInv, FlightInv, SignedInv, Signatures
  <1> QED BY <1>1, <1>2, <1>3, <1>4, <1>5, <1>6, <1>7, <1>8,
         <1>9, <1>10, <1>11, <1>12, <1>13, <1>14, <1>15 DEF Next, Handle

(* Who waits for a block changes only with the pool.                       *)
LEMMA SameWaiting ==
    ASSUME FeeInv, gas' = gas, pool' = pool, \A q \in pool : Src(q)' = Src(q)
    PROVE  FeeInv'
  <1>1. \A a \in Addresses : Waiting(a)' = Waiting(a)
    BY DEF Waiting
  <1> QED BY <1>1 DEF FeeInv

(* Waiting transactions can pay.                                            *)
LEMMA FeeStep ==
    ASSUME TypeOK, KindInv, FlightInv, FeeInv, Next
    PROVE  FeeInv'
  <1> USE TransfersAssumption DEF Goto, chain
  <1>1. ASSUME NEW r \in Requests, Transfer(r) PROVE FeeInv'
    <2>1. PICK o \in Operations, a \in Addresses, p \in Phases : Begins(r, o, a, p)
      BY <1>1, BeginFacts
    <2> QED BY <2>1 DEF Begins, TypeOK, KindInv, FlightInv, FeeInv, Waiting, Src
  <1>2. ASSUME NEW r \in Requests, Hold(r) PROVE FeeInv'
    <2>1. r \notin pool
      BY <1>2 DEF Hold, NewAccount, Answer, FlightInv
    <2>2. gas' = gas /\ pool' = pool /\ \A q \in pool : Src(q)' = Src(q)
      BY <1>2, <2>1 DEF Hold, NewAccount, Answer, Src, TypeOK
    <2> QED BY <2>2, SameWaiting
  <1>3. ASSUME NEW r \in Requests, UpdateGas(r) PROVE FeeInv'
    <2>1. r \notin pool
      BY <1>3 DEF UpdateGas, Main, FlightInv
    <2>2. gas' = gas /\ pool' = pool /\ \A q \in pool : Src(q)' = Src(q)
      BY <1>3, <2>1 DEF UpdateGas, Main, Src, TypeOK
    <2> QED BY <2>2, SameWaiting
  <1>4. ASSUME NEW r \in Requests, TopUp(r) PROVE FeeInv'
    BY <1>4 DEF TopUp, NewAccount, Refuse, Answer, TypeOK, KindInv, FlightInv, FeeInv,
       Waiting, Src
  <1>5. ASSUME NEW r \in Requests, GetAccountInfo(r) PROVE FeeInv'
    BY <1>5 DEF GetAccountInfo, NewAccount, Answer, TypeOK, KindInv, FlightInv, FeeInv,
       Waiting, Src
  <1>6. ASSUME NEW r \in Requests, MultiSign(r) PROVE FeeInv'
    BY <1>6 DEF MultiSign, TypeOK, KindInv, FlightInv, FeeInv, Waiting, Src
  <1>7. ASSUME NEW r \in Requests, BroadcastTx(r) PROVE FeeInv'
    BY <1>7 DEF BroadcastTx, TypeOK, KindInv, FlightInv, FeeInv, Waiting, Src
  <1>8. ASSUME NEW r \in Requests, BroadcastRawTx(r) PROVE FeeInv'
    <2>1. gas' = gas /\ \A q \in Requests : Src(q)' = Src(q)
      BY <1>8 DEF BroadcastRawTx, Src
    <2>2. CASE pool' = pool
      BY <2>1, <2>2, SameWaiting DEF TypeOK
    <2>3. CASE /\ pool' = pool \cup {r}
               /\ Src(r) = SendingWallet \/ gas[Src(r)] > Cardinality(Waiting(Src(r)))
      <3>1. SUFFICES ASSUME NEW a \in Addresses, a # SendingWallet
                     PROVE  IsFiniteSet(Waiting(a)') /\ Cardinality(Waiting(a)') <= gas[a]
        BY <2>1 DEF FeeInv
      <3>2. IsFiniteSet(Waiting(a)) /\ Cardinality(Waiting(a)) <= gas[a] /\ gas[a] \in Nat
        BY <3>1 DEF FeeInv, TypeOK
      <3>3. CASE Src(r) = a
        <4>1. Waiting(a)' = Waiting(a) \cup {r} /\ r \notin Waiting(a)
          BY <1>8, <2>1, <2>3, <3>3 DEF Waiting, TypeOK, FlightInv, BroadcastRawTx
        <4>2. IsFiniteSet(Waiting(a)') /\ Cardinality(Waiting(a)') = Cardinality(Waiting(a)) + 1
          BY <3>2, <4>1, FS_AddElement
        <4>3. Cardinality(Waiting(a)) \in Nat
          BY <3>2, FS_CardinalityType
        <4> QED BY <2>3, <3>1, <3>2, <3>3, <4>2, <4>3
      <3>4. CASE Src(r) # a
        <4>1. Waiting(a)' = Waiting(a)
          BY <2>1, <2>3, <3>4 DEF Waiting, TypeOK
        <4> QED BY <3>2, <4>1
      <3> QED BY <3>3, <3>4
    <2> QED BY <1>8, <2>2, <2>3 DEF BroadcastRawTx
  <1>9. ASSUME NEW r \in Requests, AwaitTx(r) PROVE FeeInv'
    BY <1>9 DEF AwaitTx, Refuse, Answer, Main, TypeOK, KindInv, FlightInv, FeeInv,
       Waiting, Src
  <1>10. ASSUME NEW r \in Requests, Timeout(r) PROVE FeeInv'
    BY <1>10 DEF Timeout, Refuse, Answer, TypeOK, KindInv, FlightInv, FeeInv, Waiting,
       Src
  <1>11. ASSUME NEW r \in Requests, Fail(r) PROVE FeeInv'
    BY <1>11 DEF Fail, Refuse, Answer, TypeOK, KindInv, FlightInv, FeeInv, Waiting, Src
  <1>12. ASSUME NEW r \in Requests, Include(r) PROVE FeeInv'
    <2>1. /\ r \in pool /\ pool' = pool \ {r} /\ \A q \in Requests : Src(q)' = Src(q)
      BY <1>12 DEF Include, Src
    <2>2. \A a \in Addresses :
              gas'[a] \in {gas[a], gas[a] + 1} \/ (a = Src(r) /\ gas'[a] = gas[a] - 1)
      BY <1>12 DEF Include, TypeOK
    <2>3. SUFFICES ASSUME NEW a \in Addresses, a # SendingWallet
                   PROVE  IsFiniteSet(Waiting(a)') /\ Cardinality(Waiting(a)') <= gas'[a]
      BY DEF FeeInv
    <2>4. IsFiniteSet(Waiting(a)) /\ Cardinality(Waiting(a)) <= gas[a] /\ gas[a] \in Nat
      BY <2>3 DEF FeeInv, TypeOK
    <2>5. Cardinality(Waiting(a)) \in Nat
      BY <2>4, FS_CardinalityType
    <2>6. CASE Src(r) = a
      <3>1. Waiting(a)' = Waiting(a) \ {r} /\ r \in Waiting(a)
        BY <2>1, <2>6 DEF Waiting, TypeOK
      <3>2. IsFiniteSet(Waiting(a)') /\ Cardinality(Waiting(a)') = Cardinality(Waiting(a)) - 1
        BY <2>4, <3>1, FS_RemoveElement
      <3> QED BY <2>2, <2>4, <2>5, <2>6, <3>2
    <2>7. CASE Src(r) # a
      <3>1. Waiting(a)' = Waiting(a)
        BY <2>1, <2>7 DEF Waiting, TypeOK
      <3> QED BY <2>2, <2>4, <2>5, <2>7, <3>1
    <2> QED BY <2>6, <2>7
  <1>13. ASSUME NEW r \in Requests, Drop(r) PROVE FeeInv'
    <2>1. gas' = gas /\ pool' \subseteq pool /\ \A q \in Requests : Src(q)' = Src(q)
      BY <1>13 DEF Drop, Src
    <2>2. SUFFICES ASSUME NEW a \in Addresses, a # SendingWallet
                   PROVE  IsFiniteSet(Waiting(a)') /\ Cardinality(Waiting(a)') <= gas[a]
      BY <2>1 DEF FeeInv
    <2>3. IsFiniteSet(Waiting(a)) /\ Cardinality(Waiting(a)) <= gas[a] /\ gas[a] \in Nat
      BY <2>2 DEF FeeInv, TypeOK
    <2>4. Waiting(a)' \subseteq Waiting(a)
      BY <2>1 DEF Waiting, TypeOK
    <2>5. /\ IsFiniteSet(Waiting(a)') /\ Cardinality(Waiting(a)') <= Cardinality(Waiting(a))
      BY <2>3, <2>4, FS_Subset
    <2>6. Cardinality(Waiting(a)') \in Nat /\ Cardinality(Waiting(a)) \in Nat
      BY <2>3, <2>5, FS_CardinalityType
    <2> QED BY <2>3, <2>5, <2>6
  <1>14. CASE Crash
    BY <1>14 DEF Crash, Unfinished, TypeOK, KindInv, FlightInv, FeeInv, Waiting, Src
  <1>15. CASE Finished
    BY <1>15 DEF Finished, vars, TypeOK, KindInv, FlightInv, FeeInv, Waiting, Src
  <1> QED BY <1>1, <1>2, <1>3, <1>4, <1>5, <1>6, <1>7, <1>8,
         <1>9, <1>10, <1>11, <1>12, <1>13, <1>14, <1>15 DEF Next, Handle

(* The gas looked at is there, or another one spent it.                     *)
LEMMA GasStep ==
    ASSUME TypeOK, KindInv, FlightInv, FeeInv, GasInv, Next
    PROVE  GasInv'
  <1> USE TransfersAssumption DEF Goto, chain
  <1>1. ASSUME NEW r \in Requests, Transfer(r) PROVE GasInv'
    <2>1. PICK o \in Operations, a \in Addresses, p \in Phases : Begins(r, o, a, p)
      BY <1>1, BeginFacts
    <2> QED BY <2>1 DEF Begins, TypeOK, KindInv, FlightInv, GasInv, Spent, Checked, Src
  <1>2. ASSUME NEW r \in Requests, Hold(r) PROVE GasInv'
    BY <1>2 DEF Hold, NewAccount, Answer, TypeOK, KindInv, FlightInv, GasInv, Spent,
       Checked, Src
  <1>3. ASSUME NEW r \in Requests, UpdateGas(r) PROVE GasInv'
    BY <1>3 DEF UpdateGas, Main, TypeOK, KindInv, FlightInv, GasInv, Spent, Checked, Src
  <1>4. ASSUME NEW r \in Requests, TopUp(r) PROVE GasInv'
    BY <1>4 DEF TopUp, NewAccount, Refuse, Answer, TypeOK, KindInv, FlightInv, GasInv,
       Spent, Checked, Src
  <1>5. ASSUME NEW r \in Requests, GetAccountInfo(r) PROVE GasInv'
    BY <1>5 DEF GetAccountInfo, NewAccount, Answer, TypeOK, KindInv, FlightInv, GasInv,
       Spent, Checked, Src
  <1>6. ASSUME NEW r \in Requests, MultiSign(r) PROVE GasInv'
    BY <1>6 DEF MultiSign, TypeOK, KindInv, FlightInv, GasInv, Spent, Checked, Src
  <1>7. ASSUME NEW r \in Requests, BroadcastTx(r) PROVE GasInv'
    BY <1>7 DEF BroadcastTx, TypeOK, KindInv, FlightInv, GasInv, Spent, Checked, Src
  <1>8. ASSUME NEW r \in Requests, BroadcastRawTx(r) PROVE GasInv'
    BY <1>8 DEF BroadcastRawTx, Refuse, Answer, TypeOK, KindInv, FlightInv, GasInv,
       Spent, Checked, Src
  <1>9. ASSUME NEW r \in Requests, AwaitTx(r) PROVE GasInv'
    BY <1>9 DEF AwaitTx, Refuse, Answer, Main, TypeOK, KindInv, FlightInv, GasInv,
       Spent, Checked, Src
  <1>10. ASSUME NEW r \in Requests, Timeout(r) PROVE GasInv'
    BY <1>10 DEF Timeout, Refuse, Answer, TypeOK, KindInv, FlightInv, GasInv, Spent,
       Checked, Src
  <1>11. ASSUME NEW r \in Requests, Fail(r) PROVE GasInv'
    BY <1>11 DEF Fail, Refuse, Answer, TypeOK, KindInv, FlightInv, GasInv, Spent,
       Checked, Src
  <1>12. ASSUME NEW r \in Requests, Include(r) PROVE GasInv'
    BY <1>12 DEF Include, TypeOK, KindInv, FlightInv, GasInv, Spent, Checked, Src
  <1>13. ASSUME NEW r \in Requests, Drop(r) PROVE GasInv'
    BY <1>13 DEF Drop, TypeOK, KindInv, FlightInv, GasInv, Spent, Checked, Src
  <1>14. CASE Crash
    BY <1>14 DEF Crash, Unfinished, TypeOK, KindInv, FlightInv, GasInv, Spent, Checked,
       Src
  <1>15. CASE Finished
    BY <1>15 DEF Finished, vars, TypeOK, KindInv, FlightInv, GasInv, Spent, Checked, Src
  <1> QED BY <1>1, <1>2, <1>3, <1>4, <1>5, <1>6, <1>7, <1>8,
         <1>9, <1>10, <1>11, <1>12, <1>13, <1>14, <1>15 DEF Next, Handle

---------------------------------------------------------------------------
IInv == TypeOK /\ KindInv /\ HoldInv /\ KeysKept /\ FlightInv /\ TurnInv /\ InTurn
        /\ AnswerIsTrue /\ SignedInv /\ FeeInv /\ GasInv

LEMMA InitInv == Init => IInv
  <1> SUFFICES ASSUME Init PROVE IInv
    OBVIOUS
  <1> USE TransfersAssumption
  <1>1. TypeOK
    BY DEF Init, TypeOK, Operations, Phases
  <1>2. KindInv /\ HoldInv /\ FlightInv /\ TurnInv /\ InTurn /\ AnswerIsTrue /\ SignedInv
    BY DEF Init, KindInv, HoldInv, Busy, FlightInv, TurnInv, InTurn, AnswerIsTrue,
       SignedInv
  <1>3. KeysKept
    BY DEF Init, KeysKept, Unfinished
  <1>4. FeeInv
    <2>1. \A a \in Addresses : Waiting(a) = {}
      BY DEF Init, Waiting
    <2>2. IsFiniteSet({}) /\ Cardinality({}) = 0
      BY FS_EmptySet
    <2>3. \A a \in Addresses : IsFiniteSet(Waiting(a)) /\ Cardinality(Waiting(a)) = 0
      BY <2>1, <2>2
    <2>4. \A a \in Addresses : gas[a] >= 0
      BY <1>1 DEF TypeOK
    <2> QED BY <2>3, <2>4 DEF FeeInv
  <1>5. GasInv
    BY DEF Init, GasInv
  <1> QED BY <1>1, <1>2, <1>3, <1>4, <1>5 DEF IInv

LEMMA StepInv == IInv /\ [Next]_vars => IInv'
  <1> SUFFICES ASSUME IInv, [Next]_vars PROVE IInv'
    OBVIOUS
  <1>1. CASE Next
    <2> USE DEF IInv
    <2>1. TypeOK' /\ KindInv' /\ HoldInv' /\ FlightInv'
      BY <1>1, TypeStep, KindStep, HoldStep, FlightStep
    <2>2. KeysKept'
      <3>1. Keys' /\ Holds'
        BY <1>1, KeysStep, HoldsStep
      <3> QED BY <3>1 DEF KeysKept, Keys, Holds
    <2>3. TurnInv' /\ InTurn' /\ AnswerIsTrue'
      BY <1>1, TurnStep, InTurnStep, AnswerStep
    <2>4. SignedInv' /\ FeeInv' /\ GasInv'
      BY <1>1, SignedStep, FeeStep, GasStep
    <2> QED BY <2>1, <2>2, <2>3, <2>4
  <1>2. CASE UNCHANGED vars
    BY <1>2 DEF IInv, vars, TypeOK, KindInv, HoldInv, Busy, KeysKept, Unfinished, Src,
       FlightInv, TurnInv, Waiting, InTurn, AnswerIsTrue, SignedInv, Signatures, FeeInv,
       GasInv, Checked, Spent
  <1> QED BY <1>1, <1>2

(* The invariant that the theorems follow from.                            *)
THEOREM Invariant == Spec => []IInv
  BY InitInv, StepInv, PTL DEF Spec

(* The types of the variables.                                             *)
THEOREM TypeCorrect == Spec => []TypeOK
  BY Invariant, PTL DEF IInv

(* A key in the keyring belongs to one transfer at work and stays until    *)
(* that one returns (processor.go:163-175, broadcasttx.go:36-49).          *)
THEOREM KeysCorrect == Spec => []KeysKept
  BY Invariant, PTL DEF IInv

(* The keyring is the lock of an account with one key: nobody is refused   *)
(* for the sequence unless an earlier transfer of the account gave up      *)
(* waiting (broadcasttx.go:36-55).                                         *)
THEOREM TurnCorrect == Spec => []InTurn
  BY Invariant, PTL DEF IInv

(* What is answered is what happened to the tokens (transfer.go:44-47,     *)
(* 101-104).                                                               *)
THEOREM AnswerCorrect == Spec => []AnswerIsTrue
  BY Invariant, PTL DEF IInv

(* Tokens leave a multisignature wallet with its signatures only           *)
(* (broadcasttx.go:95-160).                                                *)
THEOREM ConsentCorrect == Spec => []Consent
  <1>1. IInv => Consent
    <2> SUFFICES ASSUME IInv PROVE Consent
      OBVIOUS
    <2>1. ASSUME NEW r \in Requests, r \in pool \/ moved[r] > 0, part[r] = "main",
                 from[r] \in Multi
          PROVE  Signatures(r)
      <3>1. pc[r] \in {"wait", "ok", "error"}
        BY <2>1 DEF IInv, FlightInv
      <3> QED BY <2>1, <3>1 DEF IInv, SignedInv
    <2> QED BY <2>1 DEF Consent, Signatures
  <1> QED BY <1>1, Invariant, PTL

(* A transfer is refused for gas it looked at only when another one spent  *)
(* it in between (processor.go:126-131, 401-413).                          *)
THEOREM GasCorrect == Spec => GasIsChecked
  <1> DEFINE Step(r) == why[r] # "gas" /\ why'[r] = "gas" =>
        \/ Checked(r) # Src(r)
        \/ \E q \in Requests \ {r} : /\ part[q] = "main" /\ from[q] = from[r]
                                     /\ q \in pool \/ result[q] # "none"
  <1>1. ASSUME IInv, [Next]_vars, NEW r \in Requests PROVE Step(r)
    <2> SUFFICES ASSUME why[r] # "gas", why'[r] = "gas", Checked(r) = Src(r)
                 PROVE  \E q \in Requests \ {r} : /\ part[q] = "main" /\ from[q] = from[r]
                                                  /\ q \in pool \/ result[q] # "none"
      OBVIOUS
    <2>1. BroadcastRawTx(r)
      <3>1. ASSUME NEW q \in Requests, Transfer(q) PROVE FALSE
        BY <3>1, BeginFacts DEF Begins, IInv
      <3>2. ASSUME NEW q \in Requests, Handle(q) \/ Fail(q) \/ Include(q) \/ Drop(q)
            PROVE  q = r /\ BroadcastRawTx(r)
        <4>1. CASE \/ UpdateGas(q) \/ MultiSign(q) \/ BroadcastTx(q) \/ Include(q) \/ Drop(q)
          BY <4>1 DEF UpdateGas, MultiSign, BroadcastTx, Include, Drop
        <4>2. CASE Hold(q) \/ GetAccountInfo(q)
          BY <1>1, <4>2 DEF Hold, GetAccountInfo, Answer, IInv, TypeOK
        <4>3. CASE TopUp(q) \/ AwaitTx(q)
          BY <1>1, <4>3 DEF TopUp, AwaitTx, Refuse, Answer, IInv, TypeOK
        <4>4. CASE Timeout(q) \/ Fail(q)
          BY <1>1, <4>4 DEF Timeout, Fail, Refuse, Answer, IInv, TypeOK
        <4>5. CASE BroadcastRawTx(q)
          BY <1>1, <4>5 DEF BroadcastRawTx, Refuse, Answer, IInv, TypeOK
        <4> QED BY <3>2, <4>1, <4>2, <4>3, <4>4, <4>5 DEF Handle
      <3>3. ~Crash /\ ~Finished /\ ~UNCHANGED vars
        BY DEF Crash, Finished, vars
      <3> QED BY <1>1, <3>1, <3>2, <3>3 DEF Next
    <2>2. /\ pc[r] = "send" /\ Src(r) # SendingWallet /\ r \notin pool
          /\ ~(gas[Src(r)] > Cardinality(Waiting(Src(r))))
      BY <1>1, <2>1 DEF IInv, TypeOK, BroadcastRawTx, Refuse, Answer, FlightInv
    <2>3. part[r] = "main" /\ Src(r) = from[r] /\ op[r] # "send"
      BY <1>1, <2>2 DEF IInv, TypeOK, Src, KindInv
    <2>4. CASE Waiting(Src(r)) = {}
      <3>1. ~(gas[from[r]] > 0)
        BY <2>2, <2>3, <2>4, FS_EmptySet
      <3>2. Spent(r)
        BY <1>1, <2>2, <2>3, <3>1 DEF IInv, GasInv
      <3> QED BY <3>2 DEF Spent
    <2>5. CASE Waiting(Src(r)) # {}
      <3>1. PICK q \in pool : Src(q) = Src(r)
        BY <2>5 DEF Waiting
      <3>2. q \in Requests \ {r} /\ part[q] = "main" /\ from[q] = from[r]
        BY <1>1, <2>2, <2>3, <3>1 DEF IInv, TypeOK, Src
      <3> QED BY <3>1, <3>2
    <2> QED BY <2>4, <2>5
  <1>2. IInv /\ [Next]_vars => [\A r \in Requests : Step(r)]_vars
    BY <1>1
  <1> QED BY <1>2, Invariant, PTL DEF Spec, GasIsChecked

---------------------------------------------------------------------------
(* The refinement                                                          *)

(* A transfer that answered for itself has moved its tokens; the others    *)
(* that answered a success are at their gas for good, and move nothing.    *)
OkInv == \A r \in Requests :
    /\ pc[r] = "idle" => op[r] = "none"
    /\ pc[r] = "ok" /\ part[r] = "main" => result[r] = "ok"

ReplyInv == IInv /\ OkInv

LEMMA OkStep ==
    ASSUME ReplyInv, Next
    PROVE  OkInv'
  <1> USE DEF ReplyInv, IInv, OkInv, TypeOK, Goto, chain
  <1>1. ASSUME NEW r \in Requests, Transfer(r) PROVE OkInv'
    <2>1. PICK o \in Operations, a \in Addresses, p \in Phases : Begins(r, o, a, p)
      BY <1>1, BeginFacts
    <2> QED BY <2>1 DEF Begins
  <1>2. ASSUME NEW r \in Requests, Hold(r) \/ UpdateGas(r) \/ GetAccountInfo(r)
        PROVE  OkInv'
    BY <1>2 DEF Hold, UpdateGas, GetAccountInfo, NewAccount, Answer, Main
  <1>3. ASSUME NEW r \in Requests, TopUp(r) \/ Fail(r) \/ BroadcastRawTx(r) \/ Timeout(r)
        PROVE  OkInv'
    BY <1>3 DEF TopUp, Fail, BroadcastRawTx, Timeout, NewAccount, Refuse, Answer
  <1>4. ASSUME NEW r \in Requests, MultiSign(r) \/ BroadcastTx(r) \/ Drop(r) PROVE OkInv'
    BY <1>4 DEF MultiSign, BroadcastTx, Drop
  <1>5. ASSUME NEW r \in Requests, AwaitTx(r) PROVE OkInv'
    BY <1>5 DEF AwaitTx, Main, Refuse, Answer
  <1>6. ASSUME NEW r \in Requests, Include(r) PROVE OkInv'
    BY <1>6 DEF Include, FlightInv
  <1>7. CASE Crash
    BY <1>7 DEF Crash
  <1>8. CASE Finished
    BY <1>8 DEF Finished, vars
  <1> QED BY <1>1, <1>2, <1>3, <1>4, <1>5, <1>6, <1>7, <1>8 DEF Next, Handle

LEMMA ReplyHolds == Spec => []ReplyInv
  <1>1. Init => OkInv
    BY DEF Init, OkInv
  <1>2. IInv /\ OkInv /\ [Next]_vars => OkInv'
    <2>1. CASE Next
      BY <2>1, OkStep DEF ReplyInv
    <2>2. CASE UNCHANGED vars
      BY <2>2 DEF OkInv, vars
    <2> QED BY <2>1, <2>2
  <1> QED BY <1>1, <1>2, Invariant, PTL DEF Spec, ReplyInv

(* The contract's variables.                                               *)
Answers == [r \in Requests |-> Answered(r)]
Careless == {r \in Requests : op[r] \in {"ft", "nft"}}
Late == {r \in lost : pc[r] = "error"}

(* A transfer that goes on does nothing the contract speaks of.            *)
LEMMA GoesOn ==
    ASSUME NEW r \in Requests, NEW p, p \notin {"idle", "ok", "error"},
           TypeOK, Unfinished(r), pc' = [pc EXCEPT ![r] = p],
           UNCHANGED <<op, moved, lost>>
    PROVE  UNCHANGED <<Answers, moved, Careless, Late>>
  BY DEF TypeOK, Unfinished, Answers, Careless, Late, Answered

(* One that returns an answer, not having given up.                        *)
LEMMA Returns ==
    ASSUME NEW r \in Requests, NEW a \in {"ok", "error"},
           ReplyInv, Unfinished(r), pc' = [pc EXCEPT ![r] = a],
           UNCHANGED <<op, moved, lost>>
    PROVE  /\ Answers[r] = "open" /\ Contract!Reply(r, a)
           /\ UNCHANGED <<moved, Careless, Late>>
  <1> USE DEF ReplyInv, IInv, TypeOK, Unfinished
  <1>1. /\ Answers[r] = "open"
        /\ Answers' = [Answers EXCEPT ![r] = a]
    BY DEF Answers, Answered
  <1>2. r \notin lost
    BY DEF FlightInv
  <1>3. UNCHANGED <<moved, Careless, Late>>
    BY <1>2 DEF Careless, Late
  <1> QED BY <1>1, <1>3 DEF Contract!Reply, Answers

(* An answer without a move: a refusal, or a pretence for missing gas.     *)
LEMMA RefusalRefines ==
    ASSUME NEW r \in Requests, NEW y, ReplyInv, Unfinished(r), moved[r] = 0, Refuse(r, y),
           UNCHANGED <<op, moved, lost>>
    PROVE  Contract!Refuse(r) \/ Contract!Pretend(r)
  <1>1. CASE part[r] = "top" /\ op[r] \in {"ft", "nft"}
    <2>1. pc' = [pc EXCEPT ![r] = "ok"]
      BY <1>1 DEF Refuse, Answer, Goto
    <2>2. /\ Answers[r] = "open" /\ Contract!Reply(r, "ok")
          /\ UNCHANGED <<moved, Careless, Late>>
      BY <2>1, Returns
    <2>3. r \in Careless
      BY <1>1 DEF Careless
    <2> QED BY <2>2, <2>3 DEF Contract!Pretend, Answers, Careless, Late
  <1>2. CASE ~(part[r] = "top" /\ op[r] \in {"ft", "nft"})
    <2>1. pc' = [pc EXCEPT ![r] = "error"]
      BY <1>2 DEF Refuse, Answer, Goto
    <2>2. /\ Answers[r] = "open" /\ Contract!Reply(r, "error")
          /\ UNCHANGED <<moved, Careless, Late>>
      BY <2>1, Returns
    <2> QED BY <2>2 DEF Contract!Refuse, Answers, Careless, Late
  <1> QED BY <1>1, <1>2

(* Before there is a result nothing has moved.                             *)
LEMMA Unmoved ==
    ASSUME NEW r \in Requests, ReplyInv,
           pc[r] \notin {"wait", "ok", "error"} \/ result[r] # "ok"
    PROVE  moved[r] = 0
  BY DEF ReplyInv, IInv, FlightInv

Quiet == UNCHANGED <<Answers, moved, Careless, Late>>

LEMMA CallRefines ==
    ASSUME NEW r \in Requests, ReplyInv, Transfer(r)
    PROVE  Contract!Call(r)
  <1> USE DEF ReplyInv, IInv, TypeOK
  <1>1. PICK o \in Operations, a \in Addresses, p \in Phases : Begins(r, o, a, p)
    BY BeginFacts
  <1>2. p \in {"gas", "hold"} /\ pc[r] = "idle"
    BY <1>1 DEF Begins
  <1>3. /\ Answers[r] = "none"
        /\ Answers' = [q \in Requests |-> IF q \in {r} THEN "open" ELSE Answers[q]]
    BY <1>1, <1>2 DEF Begins, Answers, Answered
  <1>4. Careless' \in {Careless, Careless \cup {r}}
    <2>1. op[r] = "none"
      BY <1>2 DEF OkInv
    <2>2. op' = [op EXCEPT ![r] = o]
      BY <1>1 DEF Begins
    <2> QED BY <2>1, <2>2 DEF Careless
  <1>5. UNCHANGED <<moved, Late>>
    BY <1>1, <1>2 DEF Begins, Late
  <1> QED BY <1>3, <1>4, <1>5 DEF Contract!Call, Contract!Reply, Answers, Careless, Late

(* The steps that only their own transfer takes.                           *)
LEMMA HandleRefines ==
    ASSUME NEW r \in Requests, ReplyInv, Handle(r) \/ Fail(r)
    PROVE  \/ Quiet \/ Contract!Refuse(r) \/ Contract!Pretend(r) \/ Contract!Succeed(r)
           \/ Contract!Timeout(r)
  <1>0. TypeOK
    BY DEF ReplyInv, IInv
  <1>1. CASE Hold(r)
    <2>1. Unfinished(r) /\ UNCHANGED <<op, moved, lost>> /\ moved[r] = 0
      BY <1>1, Unmoved DEF Hold, Unfinished, chain
    <2>2. CASE NewAccount(r, from[r]) /\ Goto(r, IF op[r] = "send" THEN "sign" ELSE "gas")
      <3>1. PICK p \in {"sign", "gas"} : pc' = [pc EXCEPT ![r] = p]
        BY <2>2 DEF Goto
      <3> QED BY <1>0, <2>1, <3>1, GoesOn DEF Quiet
    <2>3. CASE Answer(r, "error", "key")
      <3>1. pc' = [pc EXCEPT ![r] = "error"]
        BY <2>3 DEF Answer, Goto
      <3>2. /\ Answers[r] = "open" /\ Contract!Reply(r, "error")
            /\ UNCHANGED <<moved, Careless, Late>>
        BY <2>1, <3>1, Returns
      <3> QED BY <2>1, <3>2 DEF Contract!Refuse, Answers, Careless, Late
    <2> QED BY <1>1, <2>2, <2>3 DEF Hold
  <1>2. CASE UpdateGas(r)
    <2>1. PICK p \in {"sign", "info", "top"} : pc' = [pc EXCEPT ![r] = p]
      BY <1>2 DEF UpdateGas, Main, Goto
    <2>2. Unfinished(r) /\ UNCHANGED <<op, moved, lost>>
      BY <1>2 DEF UpdateGas, Unfinished, chain
    <2> QED BY <1>0, <2>1, <2>2, GoesOn DEF Quiet
  <1>3. CASE TopUp(r)
    <2>1. Unfinished(r) /\ UNCHANGED <<op, moved, lost>> /\ moved[r] = 0
      BY <1>3, Unmoved DEF TopUp, Unfinished, chain
    <2>2. CASE Goto(r, "sign")
      BY <1>0, <2>1, <2>2, GoesOn DEF Quiet, Goto
    <2> QED BY <1>3, <2>1, <2>2, RefusalRefines DEF TopUp
  <1>4. CASE GetAccountInfo(r)
    <2>1. Unfinished(r) /\ UNCHANGED <<op, moved, lost>> /\ moved[r] = 0
      BY <1>4, Unmoved DEF GetAccountInfo, Unfinished, chain
    <2>2. CASE Goto(r, "round") \/ Goto(r, "sign")
      <3>1. PICK p \in {"round", "sign"} : pc' = [pc EXCEPT ![r] = p]
        BY <2>2 DEF Goto
      <3> QED BY <1>0, <2>1, <3>1, GoesOn DEF Quiet
    <2>3. CASE Answer(r, "error", "key")
      <3>1. pc' = [pc EXCEPT ![r] = "error"]
        BY <2>3 DEF Answer, Goto
      <3>2. /\ Answers[r] = "open" /\ Contract!Reply(r, "error")
            /\ UNCHANGED <<moved, Careless, Late>>
        BY <2>1, <3>1, Returns
      <3> QED BY <2>1, <3>2 DEF Contract!Refuse, Answers, Careless, Late
    <2> QED BY <1>4, <2>2, <2>3 DEF GetAccountInfo
  <1>5. CASE MultiSign(r) \/ BroadcastTx(r)
    <2>1. pc' = [pc EXCEPT ![r] = "send"] /\ Unfinished(r) /\ UNCHANGED <<op, moved, lost>>
      BY <1>5 DEF MultiSign, BroadcastTx, Goto, Unfinished, chain
    <2> QED BY <1>0, <2>1, GoesOn DEF Quiet
  <1>6. CASE BroadcastRawTx(r)
    <2>1. Unfinished(r) /\ UNCHANGED <<op, moved, lost>> /\ moved[r] = 0
      BY <1>6, Unmoved DEF BroadcastRawTx, Unfinished
    <2>2. CASE Goto(r, "wait")
      BY <1>0, <2>1, <2>2, GoesOn DEF Quiet, Goto
    <2> QED BY <1>6, <2>1, <2>2, RefusalRefines DEF BroadcastRawTx
  <1>7. CASE AwaitTx(r)
    <2>1. Unfinished(r) /\ UNCHANGED <<op, moved, lost>> /\ pc[r] = "wait"
      BY <1>7 DEF AwaitTx, Unfinished
    <2>2. CASE Goto(r, Main(r))
      <3>1. PICK p \in {"sign", "info"} : pc' = [pc EXCEPT ![r] = p]
        BY <2>2 DEF Goto, Main
      <3> QED BY <1>0, <2>1, <3>1, GoesOn DEF Quiet
    <2>3. CASE result[r] = "ok" /\ part[r] = "main" /\ Answer(r, "ok", "none")
      <3>1. pc' = [pc EXCEPT ![r] = "ok"]
        BY <2>3 DEF Answer, Goto
      <3>2. moved[r] = 1
        BY <2>3 DEF ReplyInv, IInv, FlightInv
      <3>3. /\ Answers[r] = "open" /\ Contract!Reply(r, "ok")
            /\ UNCHANGED <<moved, Careless, Late>>
        BY <2>1, <3>1, Returns
      <3> QED BY <3>2, <3>3 DEF Contract!Succeed, Answers, Careless, Late
    <2>4. CASE result[r] = "failed" /\ Refuse(r, "failed")
      BY <2>1, <2>4, Unmoved, RefusalRefines
    <2> QED BY <1>7, <2>2, <2>3, <2>4 DEF AwaitTx
  <1>8. CASE Timeout(r)
    <2>1. pc[r] = "wait" /\ result[r] = "none" /\ UNCHANGED <<op, moved>>
      BY <1>8 DEF Timeout, chain
    <2>2. CASE part[r] = "top" /\ op[r] \in {"ft", "nft"}
      <3>1. pc' = [pc EXCEPT ![r] = "ok"] /\ lost' = lost \cup {r}
        BY <1>8, <2>2 DEF Timeout, Refuse, Answer, Goto
      <3>2. /\ Answers[r] = "open"
            /\ Answers' = [Answers EXCEPT ![r] = "ok"]
        BY <1>0, <2>1, <3>1 DEF TypeOK, Answers, Answered
      <3>3. UNCHANGED <<Careless, Late>> /\ r \in Careless
        BY <1>0, <2>1, <2>2, <3>1 DEF TypeOK, Careless, Late
      <3>4. moved[r] = 0
        BY <2>1, Unmoved
      <3> QED BY <2>1, <3>2, <3>3, <3>4
          DEF Contract!Pretend, Contract!Reply, Answers, Careless, Late
    <2>3. CASE ~(part[r] = "top" /\ op[r] \in {"ft", "nft"})
      <3>1. pc' = [pc EXCEPT ![r] = "error"] /\ lost' = lost \cup {r}
        BY <1>8, <2>3 DEF Timeout, Refuse, Answer, Goto
      <3>2. /\ Answers[r] = "open"
            /\ Answers' = [Answers EXCEPT ![r] = "error"]
        BY <1>0, <2>1, <3>1 DEF TypeOK, Answers, Answered
      <3>3. Careless' = Careless /\ Late' = Late \cup {r}
        BY <1>0, <2>1, <3>1 DEF TypeOK, Careless, Late
      <3> QED BY <2>1, <3>2, <3>3
          DEF Contract!Timeout, Contract!Reply, Answers, Careless, Late
    <2> QED BY <2>2, <2>3
  <1>9. CASE Fail(r)
    <2>1. Unfinished(r) /\ UNCHANGED <<op, moved, lost>> /\ moved[r] = 0
      BY <1>9, Unmoved DEF Fail, Unfinished, chain
    <2> QED BY <1>9, <2>1, RefusalRefines DEF Fail
  <1> QED BY <1>1, <1>2, <1>3, <1>4, <1>5, <1>6, <1>7, <1>8, <1>9 DEF Handle

(* A block moves the tokens of a transfer that waits or gave up.           *)
LEMMA IncludeRefines ==
    ASSUME NEW r \in Requests, ReplyInv, Include(r)
    PROVE  Quiet \/ Contract!Move(r)
  <1> USE DEF ReplyInv, IInv, TypeOK
  <1>1. UNCHANGED <<Answers, Careless, Late>>
    BY DEF Include, Answers, Answered, Careless, Late
  <1>2. PICK c \in {"ok", "failed"} :
            moved' = [moved EXCEPT ![r] = IF c = "ok" /\ part[r] = "main" THEN @ + 1 ELSE @]
    BY DEF Include
  <1>3. CASE c = "ok" /\ part[r] = "main"
    <2>1. r \in pool /\ result[r] = "none" /\ (pc[r] = "wait" \/ r \in lost)
      BY DEF Include, FlightInv
    <2>2. moved[r] = 0
      BY <2>1, Unmoved
    <2>3. Answers[r] = "open" \/ r \in Late
      <3>1. pc[r] # "ok"
        BY <1>3, <2>1 DEF OkInv
      <3>2. r \in lost => pc[r] = "error"
        BY <3>1 DEF FlightInv
      <3> QED BY <2>1, <3>2 DEF Answers, Answered, Late
    <2>4. moved' = [moved EXCEPT ![r] = 1]
      BY <1>2, <1>3, <2>2
    <2> QED BY <1>1, <2>2, <2>3, <2>4 DEF Contract!Move, Answers, Careless, Late
  <1>4. CASE ~(c = "ok" /\ part[r] = "main")
    BY <1>1, <1>2, <1>4 DEF Quiet
  <1> QED BY <1>3, <1>4

(* A restart gives up every transfer that is open.                         *)
LEMMA CrashRefines ==
    ASSUME ReplyInv, Crash
    PROVE  Contract!Restart
  <1> USE DEF ReplyInv, IInv, TypeOK, Unfinished
  <1> DEFINE S == {r \in Requests : Answers[r] = "open"}
  <1>0. S = {r \in Requests : Unfinished(r)}
    BY DEF Answers, Answered
  <1>1. Answers' = [r \in Requests |-> IF r \in S THEN "error" ELSE Answers[r]]
    BY <1>0 DEF Crash, Answers, Answered
  <1>2. UNCHANGED <<moved, Careless>>
    BY DEF Crash, chain, Careless
  <1>3. Late' = Late \cup S
    <2>1. lost' = lost \cup S
      BY <1>0 DEF Crash
    <2>2. \A r \in Requests : r \in lost => r \notin S
      BY <1>0 DEF FlightInv
    <2>3. \A r \in Requests : pc'[r] = IF r \in S THEN "error" ELSE pc[r]
      BY <1>0 DEF Crash
    <2>4. lost \subseteq Requests
      OBVIOUS
    <2> QED BY <2>1, <2>2, <2>3, <2>4 DEF Late
  <1> QED BY <1>1, <1>2, <1>3 DEF Contract!Restart, Contract!Open, Answers, Careless, Late

LEMMA ContractInit == Init => Contract!Init
  BY DEF Init, Contract!Init, Answered

LEMMA ContractStep ==
    ASSUME ReplyInv, [Next]_vars
    PROVE  [Contract!Next]_(Contract!contractVars)
  <1>1. SUFFICES ASSUME ~Quiet PROVE Contract!Next
    BY DEF Quiet, Contract!contractVars, Answers, Careless, Late
  <1>2. ASSUME NEW r \in Requests, Transfer(r) PROVE Contract!Next
    BY <1>2, CallRefines DEF Contract!Next
  <1>3. ASSUME NEW r \in Requests, Handle(r) \/ Fail(r) PROVE Contract!Next
    BY <1>1, <1>3, HandleRefines DEF Contract!Next
  <1>4. ASSUME NEW r \in Requests, Include(r) PROVE Contract!Next
    BY <1>1, <1>4, IncludeRefines DEF Contract!Next
  <1>5. CASE Crash
    BY <1>5, CrashRefines DEF Contract!Next
  <1>6. CASE UNCHANGED vars \/ Finished \/ \E r \in Requests : Drop(r)
    <2>1. UNCHANGED <<op, pc, moved, lost>>
      BY <1>6 DEF vars, Finished, Drop
    <2> QED BY <1>1, <2>1 DEF Quiet, Answers, Answered, Careless, Late
  <1> QED BY <1>2, <1>3, <1>4, <1>5, <1>6 DEF Next

(* A transfer does what TransferContract promises: its tokens move once,   *)
(* after the call and before the answer, unless it gave up waiting or      *)
(* pretended (broadcasttx.go:161-177, transfer.go:44-47, 101-104).         *)
THEOREM Refinement == Spec => ImplementsContract
  <1>1. Init => Contract!Init
    BY ContractInit
  <1>2. ReplyInv /\ [Next]_vars => [Contract!Next]_(Contract!contractVars)
    BY ContractStep
  <1> QED BY <1>1, <1>2, ReplyHolds, PTL DEF Spec, ImplementsContract, Contract!Spec

(* Of the contract: tokens move only for an open transfer, or for one that *)
(* gave up waiting.                                                        *)
LEMMA ContractMoves ==
    ASSUME NEW r \in Requests, Contract!Next, moved'[r] # moved[r]
    PROVE  moved[r] = 0 /\ (Answers[r] = "open" \/ r \in Late)
  <1>1. PICK q \in Requests : Contract!Move(q)
    BY DEF Contract!Next, Contract!Call, Contract!Succeed, Contract!Pretend,
           Contract!Refuse, Contract!Timeout, Contract!Restart
  <1>2. q = r
    BY <1>1 DEF Contract!Move
  <1> QED BY <1>1, <1>2 DEF Contract!Move, Answers, Late

(* After an answer the tokens do not move any more, unless the transfer    *)
(* gave up waiting (broadcasttx.go:173-177): what the contract says of its *)
(* variables, read back through the refinement.                            *)
THEOREM FinalCorrect == Spec => AnswerIsFinal
  <1> DEFINE Final(r) == moved'[r] # moved[r] =>
                             /\ moved[r] = 0
                             /\ Unfinished(r) \/ (pc[r] = "error" /\ r \in lost)
  <1>1. ASSUME ReplyInv, [Next]_vars, NEW r \in Requests, moved'[r] # moved[r]
        PROVE  Final(r)
    <2>1. Contract!Next
      BY <1>1, ContractStep DEF Contract!contractVars
    <2>2. moved[r] = 0 /\ (Answers[r] = "open" \/ r \in Late)
      BY <1>1, <2>1, ContractMoves
    <2>3. Answers[r] = "open" => Unfinished(r)
      BY DEF Answers, Answered, Unfinished
    <2>4. r \in Late => pc[r] = "error" /\ r \in lost
      BY DEF Late
    <2> QED BY <2>2, <2>3, <2>4
  <1>2. ReplyInv /\ [Next]_vars => [\A r \in Requests : Final(r)]_vars
    BY <1>1
  <1> QED BY <1>2, ReplyHolds, PTL DEF Spec, AnswerIsFinal

===============================================================================
