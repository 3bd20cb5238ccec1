----------------------------- MODULE DepositsProofs -----------------------------
(***************************************************************************)
(* Theorems about Deposits: what failures, restarts and the order of the   *)
(* two goroutines cannot do to sweeps, payouts and statuses.               *)
(***************************************************************************)
EXTENDS Deposits, SumTheorems, FiniteSetTheorems, TLAPS

Credits == {"processed", "settle", "done"}
Settling == {"processed", "payout", "recordSettled"}

(* What the goroutines are at: the streamer has a user and a whole row;    *)
(* the rows of each loop have the status the loop is for.                  *)
LoopInv ==
    /\ spc # "poll" => cursor \in UserKeys
    /\ spc = "create" => fresh \in Deposit
    /\ \A t \in todo :
          /\ pc \in {"initiated", "recordSwept"} => table[t].status = "init"
          /\ pc \in Settling => t \in batch
          /\ pc = "settled" => table[t].status = "settle"
    /\ pc \in Settling => \A t \in batch : table[t].status \in {"processed", "settle"}
    /\ pc \notin Settling => batch = {}
    /\ pc # "recordSettled" => unsettled = {}
    /\ pc = "recordSettled" => todo # {}

Marked(t) == table[t].hash2 # ""
JustSwept(t) == pc = "recordSwept" /\ IsNext(t)

(* A sweep is written down, about to be, or lost: the hash in the row is   *)
(* the only memory of it, and a credited row has one.                      *)
SweepAt(t) ==
    /\ table[t].status \in Credits => Marked(t)
    /\ table[t].status = "absent" => ~Marked(t)
    /\ Marked(t) \/ JustSwept(t) => swept[t] = lostSweep[t] + 1
    /\ JustSwept(t) => ~Marked(t)
    /\ ~Marked(t) => payouts[t] = 0
    /\ ~Marked(t) /\ ~JustSwept(t) => swept[t] = lostSweep[t]
SweepInv == \A t \in Trx : SweepAt(t)

Due(t) == pc = "recordSettled" /\ t \in unsettled

(* A deposit that never shared a batch is paid and not written down yet,   *)
(* or its payouts are lost, or it is settled.                              *)
PayAt(t) == t \notin grouped =>
    /\ t \in batch => batch = {t}
    /\ Due(t) => table[t].status = "processed" /\ payouts[t] = lostPay[t] + 1
    /\ table[t].status \in {"settle", "done"} => payouts[t] = lostPay[t] + 1
    /\ table[t].status \notin {"settle", "done"} /\ ~Due(t) => payouts[t] = lostPay[t]
    /\ pc \in {"processed", "payout"} /\ t \in todo => table[t].status = "processed"
PayInv == \A t \in Trx : PayAt(t)

DepositsInv == TypeOK /\ LoopInv /\ SweepInv /\ PayInv

(* The type invariant in parts.                                            *)
ChainOK ==
    /\ balance \in [UserKeys -> [Assets -> Nat]] /\ receiving \in [Assets -> Nat]
    /\ settled \in [Merchants -> [Assets -> Nat]]
LoopOK ==
    /\ pc \in {"idle", "initiated", "recordSwept", "processed", "payout",
               "recordSettled", "settled"}
    /\ queue \subseteq Merchants /\ merchant \in Merchants
    /\ todo \subseteq Trx /\ batch \subseteq Trx /\ unsettled \subseteq batch
    /\ acc \in Int
SeenOK ==
    /\ swept \in [Trx -> Nat] /\ lostSweep \in [Trx -> Nat]
    /\ payouts \in [Trx -> Nat] /\ lostPay \in [Trx -> Nat]
    /\ grouped \subseteq Trx

LEMMA TypeFrame ==
    ASSUME TypeOK, UNCHANGED <<deposit, streamer, arrived>>,
           table' \in [Trx -> Rows], \A v \in Trx : Exists(v)' <=> Exists(v),
           ChainOK', LoopOK', SeenOK', faults' = faults \/ Fault
    PROVE  TypeOK'
  <1>1. faults' \in 0..MaxFaults
    BY DepositsAssumption DEF TypeOK, Fault
  <1> QED BY <1>1 DEF TypeOK, ChainOK, LoopOK, SeenOK, streamer

---------------------------------------------------------------------------
(* What the statements do to the table.                                    *)
LEMMA InitiatedFacts ==
    ASSUME NEW tab \in [Trx -> Rows], NEW t \in Trx, NEW h \in Hashes
    PROVE  LET new == PutInitiatedPendingTransaction(tab, t, h) IN
           /\ new \in [Trx -> Rows]
           /\ \A u \in Trx : u # t => new[u] = tab[u]
           /\ new[t].status = "init" /\ new[t].hash2 = h
  <1> QED BY DEF PutInitiatedPendingTransaction, Rows, Statuses

LEMMA ProcessedFacts ==
    ASSUME NEW tab \in [Trx -> Rows], NEW t \in Trx, NEW h \in Hashes
    PROVE  LET new == PutProcessedTransaction(tab, t, h) IN
           /\ new \in [Trx -> Rows]
           /\ \A u \in Trx : u # t => new[u] = tab[u]
           /\ new[t].status = "processed" /\ new[t].hash2 = h
  <1> QED BY DEF PutProcessedTransaction, Rows, Statuses

LEMMA SettledFacts ==
    ASSUME NEW tab \in [Trx -> Rows], NEW t \in Trx, NEW h \in Hashes
    PROVE  LET new == PutSettledTransaction(tab, t, h) IN
           /\ new \in [Trx -> Rows]
           /\ \A u \in Trx : u # t => new[u] = tab[u]
           /\ new[t].status = "settle" /\ new[t].hash2 = tab[t].hash2
  <1> QED BY DEF PutSettledTransaction, Rows, Statuses

LEMMA DoneFacts ==
    ASSUME NEW tab \in [Trx -> Rows], NEW t \in Trx, NEW h \in Hashes
    PROVE  LET new == PutDoneTransaction(tab, t, h) IN
           /\ new \in [Trx -> Rows]
           /\ \A u \in Trx : u # t => new[u] = tab[u]
           /\ new[t].status = "done" /\ new[t].hash2 = tab[t].hash2
  <1> QED BY DEF PutDoneTransaction, Rows, Statuses

(* The next row of a loop is one row.                                      *)
LEMMA NextUnique ==
    ASSUME TypeOK, NEW t \in Trx, NEW u \in Trx, IsNext(t), IsNext(u)
    PROVE  t = u
  BY DEF IsNext, Trx

(* A batch that is not grouped has one row.                                *)
LEMMA OneRow ==
    ASSUME NEW S \in SUBSET Trx, ~(Cardinality(S) > 1), NEW t \in S
    PROVE  S = {t}
  <1>1. SUFFICES ASSUME NEW x \in S, x # t PROVE FALSE
    OBVIOUS
  <1>2. IsFiniteSet(S)
    <2>1. MaxTrx \in Int /\ 1 \in Int
      BY DepositsAssumption
    <2>2. IsFiniteSet(Trx)
      BY <2>1, FS_Interval DEF Trx
    <2> QED BY <2>2, FS_Subset
  <1>3. /\ IsFiniteSet(S \ {x}) /\ Cardinality(S \ {x}) = Cardinality(S) - 1
        /\ Cardinality(S) \in Nat /\ Cardinality(S \ {x}) \in Nat
    BY <1>2, FS_RemoveElement, FS_CardinalityType
  <1>4. Cardinality(S \ {x}) # 0
    BY <1>1, <1>3, FS_EmptySet
  <1> QED BY <1>3, <1>4

LEMMA CountFacts ==
    ASSUME NEW c \in [Trx -> Nat], NEW S
    PROVE  /\ Count(c, S) \in [Trx -> Nat]
           /\ \A v \in Trx : Count(c, S)[v] = IF v \in S THEN c[v] + 1 ELSE c[v]
  BY DEF Count

LEMMA RaiseFacts ==
    ASSUME NEW c \in [Trx -> Nat], NEW t \in Trx
    PROVE  LET new == [c EXCEPT ![t] = @ + 1] IN
           /\ new \in [Trx -> Nat] /\ new[t] = c[t] + 1
           /\ \A v \in Trx : v # t => new[v] = c[v]
  OBVIOUS

(* A sweep moves the tokens of one row, and a payout those of the sum.     *)
LEMMA SweepFacts ==
    ASSUME TypeOK, NEW t \in Trx, deposit[t] \in Deposit, SweepTransfer(t)
    PROVE  /\ balance' \in [UserKeys -> [Assets -> Nat]]
           /\ receiving' \in [Assets -> Nat]
           /\ swept' \in [Trx -> Nat] /\ swept'[t] = swept[t] + 1
           /\ \A v \in Trx : v # t => swept'[v] = swept[v]
  <1> DEFINE k == User(t)
             a == Asset(t)
             n == deposit[t].amount
             left == [balance[k] EXCEPT ![a] = @ - n]
  <1>1. k \in UserKeys /\ a \in Assets /\ n \in Nat
    BY DEF Deposit, User, Asset
  <1>2. /\ balance \in [UserKeys -> [Assets -> Nat]] /\ receiving \in [Assets -> Nat]
        /\ swept \in [Trx -> Nat]
    BY DEF TypeOK
  <1>3. /\ n <= balance[k][a] /\ balance' = [balance EXCEPT ![k] = left]
        /\ receiving' = [receiving EXCEPT ![a] = @ + n]
        /\ swept' = [swept EXCEPT ![t] = @ + 1]
    BY DEF SweepTransfer
  <1>4. swept' \in [Trx -> Nat] /\ swept'[t] = swept[t] + 1
        /\ \A v \in Trx : v # t => swept'[v] = swept[v]
    BY <1>2, <1>3
  <1> HIDE DEF k, a, n
  <1>5. receiving' \in [Assets -> Nat]
    BY <1>1, <1>2, <1>3
  <1>6. left \in [Assets -> Nat]
    BY <1>1, <1>2, <1>3
  <1> HIDE DEF left
  <1>7. balance' \in [UserKeys -> [Assets -> Nat]]
    BY <1>2, <1>3, <1>6
  <1> QED BY <1>4, <1>5, <1>7

LEMMA PayoutFacts ==
    ASSUME TypeOK, NEW t \in Trx, Asset(t) \in Assets, PayoutTransfer(t)
    PROVE  /\ receiving' \in [Assets -> Nat]
           /\ settled' \in [Merchants -> [Assets -> Nat]]
  <1> DEFINE a == Asset(t)
             n == PayoutAmount
             more == [settled[merchant] EXCEPT ![a] = @ + n]
  <1>1. /\ receiving \in [Assets -> Nat] /\ settled \in [Merchants -> [Assets -> Nat]]
        /\ merchant \in Merchants /\ acc \in Int /\ a \in Assets
    BY DEF TypeOK
  <1>2. acc > 0
    BY <1>1, DepositsAssumption DEF PayoutTransfer, PayoutAccepted
  <1>3. n \in Nat
    BY <1>1, <1>2 DEF PayoutAmount
  <1>4. /\ n <= receiving[a] /\ receiving' = [receiving EXCEPT ![a] = @ - n]
        /\ settled' = [settled EXCEPT ![merchant] = more]
    BY DEF PayoutTransfer, PayoutAccepted
  <1> HIDE DEF a, n
  <1>5. receiving' \in [Assets -> Nat]
    BY <1>1, <1>3, <1>4
  <1>6. more \in [Assets -> Nat]
    BY <1>1, <1>3
  <1> HIDE DEF more
  <1> QED BY <1>1, <1>4, <1>5, <1>6

---------------------------------------------------------------------------
(* One step of the processing goroutine                                    *)
LEMMA TickStep ==
    ASSUME DepositsInv, Tick, UNCHANGED <<deposit, streamer, arrived>>
    PROVE  DepositsInv' /\ StatusStep
  <1>0. TypeOK /\ LoopInv /\ SweepInv /\ PayInv
    BY DEF DepositsInv
  <1>a. table' = table
    BY DEF Tick
  <1>1. TypeOK'
    <2>1. table' \in [Trx -> Rows] /\ \A v \in Trx : Exists(v)' <=> Exists(v)
      BY <1>0, <1>a DEF TypeOK, Exists
    <2>2. ChainOK'
      BY <1>0 DEF TypeOK, ChainOK, chain, Tick
    <2>3. LoopOK'
      BY <1>0 DEF TypeOK, LoopOK, Tick
    <2>4. SeenOK'
      BY <1>0 DEF TypeOK, SeenOK, seen, Tick
    <2>5. faults' = faults \/ Fault
      BY DEF Tick
    <2> QED BY <1>0, <2>1, <2>2, <2>3, <2>4, <2>5, TypeFrame
  <1>2. LoopInv'
    BY <1>0 DEF LoopInv, streamer, Tick
  <1>3. SweepInv'
    <2>1. SUFFICES ASSUME NEW v \in Trx PROVE SweepAt(v)'
      BY DEF SweepInv
    <2>2. SweepAt(v)
      BY <1>0 DEF SweepInv
    <2> QED BY <2>2 DEF SweepAt, Marked, JustSwept, seen, Tick
  <1>4. PayInv'
    <2>1. SUFFICES ASSUME NEW v \in Trx PROVE PayAt(v)'
      BY DEF PayInv
    <2>2. PayAt(v)
      BY <1>0 DEF PayInv
    <2> QED BY <2>2 DEF PayAt, Due, seen, Tick
  <1>5. StatusStep
    BY <1>a DEF StatusStep
  <1> QED BY <1>1, <1>2, <1>3, <1>4, <1>5 DEF DepositsInv

LEMMA ReadInitiatedStep ==
    ASSUME DepositsInv, NEW m \in Merchants, ReadInitiated(m),
           UNCHANGED <<deposit, streamer, arrived>>
    PROVE  DepositsInv' /\ StatusStep
  <1>0. TypeOK /\ LoopInv /\ SweepInv /\ PayInv
    BY DEF DepositsInv
  <1>a. table' = table
    BY DEF ReadInitiated
  <1>1. TypeOK'
    <2>1. table' \in [Trx -> Rows] /\ \A v \in Trx : Exists(v)' <=> Exists(v)
      BY <1>0, <1>a DEF TypeOK, Exists
    <2>2. ChainOK'
      BY <1>0 DEF TypeOK, ChainOK, chain, ReadInitiated
    <2>3. LoopOK'
      BY <1>0 DEF TypeOK, LoopOK, ReadInitiated, Batch, WithStatus
    <2>4. SeenOK'
      BY <1>0 DEF TypeOK, SeenOK, seen, ReadInitiated
    <2>5. faults' = faults \/ Fault
      BY DEF ReadInitiated
    <2> QED BY <1>0, <2>1, <2>2, <2>3, <2>4, <2>5, TypeFrame
  <1>2. LoopInv'
    BY <1>0 DEF LoopInv, Settling, streamer, ReadInitiated, Batch, WithStatus
  <1>3. SweepInv'
    <2>1. SUFFICES ASSUME NEW v \in Trx PROVE SweepAt(v)'
      BY DEF SweepInv
    <2>2. SweepAt(v)
      BY <1>0 DEF SweepInv
    <2> QED BY <2>2 DEF SweepAt, Marked, JustSwept, seen, ReadInitiated
  <1>4. PayInv'
    <2>1. SUFFICES ASSUME NEW v \in Trx PROVE PayAt(v)'
      BY DEF PayInv
    <2>2. PayAt(v)
      BY <1>0 DEF PayInv
    <2> QED BY <2>2 DEF PayAt, Due, seen, ReadInitiated
  <1>5. StatusStep
    BY <1>a DEF StatusStep
  <1> QED BY <1>1, <1>2, <1>3, <1>4, <1>5 DEF DepositsInv

LEMMA SweepStep ==
    ASSUME DepositsInv, NEW t \in Trx, Sweep(t),
           UNCHANGED <<deposit, streamer, arrived>>
    PROVE  DepositsInv' /\ StatusStep
  <1>0. TypeOK /\ LoopInv /\ SweepInv /\ PayInv
    BY DEF DepositsInv
  <1>a. table' = table
    BY DEF Sweep, SweepTransfer
  <1>c. table[t].status = "init" /\ IsNext(t) /\ t \in todo /\ Exists(t)
    BY <1>0 DEF Sweep, Unswept, IsNext, LoopInv, Exists
  <1>d. /\ deposit[t] \in Deposit /\ User(t) \in UserKeys
        /\ Asset(t) \in Assets /\ deposit[t].amount \in Nat
    <2>1. deposit[t] \in Deposit
      BY <1>0, <1>c DEF TypeOK
    <2> QED BY <2>1 DEF Deposit, User, Asset
  <1>e. \A v \in Trx : IsNext(v) => v = t
    BY <1>0, <1>c, NextUnique
  <1>f. /\ balance' \in [UserKeys -> [Assets -> Nat]] /\ receiving' \in [Assets -> Nat]
        /\ swept' \in [Trx -> Nat] /\ lostSweep' \in [Trx -> Nat]
        /\ swept'[t] = swept[t] + 1
        /\ \A v \in Trx : v # t => swept'[v] = swept[v]
        /\ \A v \in Trx : lostSweep'[v] = lostSweep[v]
        /\ UNCHANGED <<settled, payouts, lostPay, grouped>>
    <2>1. /\ SweepTransfer(t) /\ UNCHANGED lostSweep
          /\ UNCHANGED <<settled, payouts, grouped, lostPay>>
      BY DEF Sweep, SweepTransfer
    <2>2. lostSweep \in [Trx -> Nat] /\ TypeOK
      BY <1>0 DEF TypeOK
    <2>3. /\ balance' \in [UserKeys -> [Assets -> Nat]] /\ receiving' \in [Assets -> Nat]
          /\ swept' \in [Trx -> Nat] /\ swept'[t] = swept[t] + 1
          /\ \A v \in Trx : v # t => swept'[v] = swept[v]
      BY <1>d, <2>1, <2>2, SweepFacts
    <2>4. /\ lostSweep' \in [Trx -> Nat]
          /\ \A v \in Trx : lostSweep'[v] = lostSweep[v]
      BY <2>1, <2>2
    <2> QED BY <2>1, <2>3, <2>4
  <1>1. TypeOK'
    <2>1. table' \in [Trx -> Rows] /\ \A v \in Trx : Exists(v)' <=> Exists(v)
      BY <1>0, <1>a DEF TypeOK, Exists
    <2>2. ChainOK'
      BY <1>0, <1>f DEF TypeOK, ChainOK
    <2>3. LoopOK'
      BY <1>0 DEF TypeOK, LoopOK, Sweep, SweepTransfer, Goto
    <2>4. SeenOK'
      BY <1>0, <1>f DEF TypeOK, SeenOK
    <2>5. faults' = faults \/ Fault
      BY DEF Sweep
    <2> QED BY <1>0, <2>1, <2>2, <2>3, <2>4, <2>5, TypeFrame
  <1>2. LoopInv'
    BY <1>0 DEF LoopInv, Settling, streamer, Sweep, Unswept, SweepTransfer, Goto
  <1>3. SweepInv'
    <2>1. SUFFICES ASSUME NEW v \in Trx PROVE SweepAt(v)'
      BY DEF SweepInv
    <2>2. SweepAt(v)
      BY <1>0 DEF SweepInv
    <2>3. ~JustSwept(v)
      BY DEF JustSwept, Unswept, Sweep
    <2>4. JustSwept(v)' <=> v = t
      BY <1>c, <1>e DEF JustSwept, IsNext, Goto, Sweep
    <2>5. table'[v].status = table[v].status /\ (Marked(v)' <=> Marked(v))
      BY <1>a DEF Marked
    <2>6. v = t => ~Marked(v) /\ table[v].status = "init"
      BY <1>c DEF Marked, Unswept, Sweep
    <2>8. CASE v = t
      BY <1>f, <2>2, <2>3, <2>4, <2>5, <2>6 DEF SweepAt
    <2>9. CASE v # t
      BY <1>f, <2>2, <2>3, <2>4, <2>5, <2>9 DEF SweepAt
    <2> QED BY <2>8, <2>9
  <1>4. PayInv'
    <2>1. SUFFICES ASSUME NEW v \in Trx PROVE PayAt(v)'
      BY DEF PayInv
    <2>2. PayAt(v)
      BY <1>0 DEF PayInv
    <2> QED BY <1>0, <1>c, <2>2 DEF TypeOK, LoopInv, PayAt, Due, Sweep, Goto,
               SweepTransfer
  <1>5. StatusStep
    BY <1>a DEF StatusStep
  <1> QED BY <1>1, <1>2, <1>3, <1>4, <1>5 DEF DepositsInv

LEMMA SweepLateStep ==
    ASSUME DepositsInv, NEW t \in Trx, SweepLate(t),
           UNCHANGED <<deposit, streamer, arrived>>
    PROVE  DepositsInv' /\ StatusStep
  <1>0. TypeOK /\ LoopInv /\ SweepInv /\ PayInv
    BY DEF DepositsInv
  <1>a. table' = table
    BY DEF SweepLate, SweepTransfer
  <1>c. table[t].status = "init" /\ IsNext(t) /\ t \in todo /\ Exists(t)
    BY <1>0 DEF SweepLate, Unswept, IsNext, LoopInv, Exists
  <1>d. /\ deposit[t] \in Deposit /\ User(t) \in UserKeys
        /\ Asset(t) \in Assets /\ deposit[t].amount \in Nat
    <2>1. deposit[t] \in Deposit
      BY <1>0, <1>c DEF TypeOK
    <2> QED BY <2>1 DEF Deposit, User, Asset
  <1>f. /\ balance' \in [UserKeys -> [Assets -> Nat]] /\ receiving' \in [Assets -> Nat]
        /\ swept' \in [Trx -> Nat] /\ lostSweep' \in [Trx -> Nat]
        /\ swept'[t] = swept[t] + 1
        /\ \A v \in Trx : v # t => swept'[v] = swept[v]
        /\ \A v \in Trx : lostSweep'[v] = IF v = t THEN lostSweep[v] + 1 ELSE lostSweep[v]
        /\ UNCHANGED <<settled, payouts, lostPay, grouped>>
    <2>1. /\ SweepTransfer(t) /\ lostSweep' = [lostSweep EXCEPT ![t] = @ + 1]
          /\ UNCHANGED <<settled, payouts, grouped, lostPay>>
      BY DEF SweepLate, SweepTransfer
    <2>2. lostSweep \in [Trx -> Nat] /\ TypeOK
      BY <1>0 DEF TypeOK
    <2>3. /\ balance' \in [UserKeys -> [Assets -> Nat]] /\ receiving' \in [Assets -> Nat]
          /\ swept' \in [Trx -> Nat] /\ swept'[t] = swept[t] + 1
          /\ \A v \in Trx : v # t => swept'[v] = swept[v]
      BY <1>d, <2>1, <2>2, SweepFacts
    <2>4. /\ lostSweep' \in [Trx -> Nat]
          /\ \A v \in Trx : lostSweep'[v] = IF v = t THEN lostSweep[v] + 1 ELSE lostSweep[v]
      BY <2>1, <2>2
    <2> QED BY <2>1, <2>3, <2>4
  <1>1. TypeOK'
    <2>1. table' \in [Trx -> Rows] /\ \A v \in Trx : Exists(v)' <=> Exists(v)
      BY <1>0, <1>a DEF TypeOK, Exists
    <2>2. ChainOK'
      BY <1>0, <1>f DEF TypeOK, ChainOK
    <2>3. LoopOK'
      BY <1>0 DEF TypeOK, LoopOK, SweepLate, SweepTransfer, NextRow
    <2>4. SeenOK'
      BY <1>0, <1>f DEF TypeOK, SeenOK
    <2>5. faults' = faults \/ Fault
      BY DEF SweepLate
    <2> QED BY <1>0, <2>1, <2>2, <2>3, <2>4, <2>5, TypeFrame
  <1>2. LoopInv'
    BY <1>0 DEF LoopInv, streamer, SweepLate, Unswept, SweepTransfer, NextRow
  <1>3. SweepInv'
    <2>1. SUFFICES ASSUME NEW v \in Trx PROVE SweepAt(v)'
      BY DEF SweepInv
    <2>2. SweepAt(v)
      BY <1>0 DEF SweepInv
    <2>3. ~JustSwept(v)
      BY DEF JustSwept, Unswept, SweepLate
    <2>4. ~JustSwept(v)'
      BY DEF JustSwept, NextRow, SweepLate
    <2>5. table'[v].status = table[v].status /\ (Marked(v)' <=> Marked(v))
      BY <1>a DEF Marked
    <2>8. CASE v = t
      BY <1>f, <2>2, <2>3, <2>4, <2>5 DEF SweepAt
    <2>9. CASE v # t
      BY <1>f, <2>2, <2>3, <2>4, <2>5 DEF SweepAt
    <2> QED BY <2>8, <2>9
  <1>4. PayInv'
    <2>1. SUFFICES ASSUME NEW v \in Trx PROVE PayAt(v)'
      BY DEF PayInv
    <2>2. PayAt(v)
      BY <1>0 DEF PayInv
    <2> QED BY <1>0, <1>c, <2>2 DEF TypeOK, LoopInv, PayAt, Due, SweepLate, NextRow,
               SweepTransfer
  <1>5. StatusStep
    BY <1>a DEF StatusStep
  <1> QED BY <1>1, <1>2, <1>3, <1>4, <1>5 DEF DepositsInv

LEMMA SweepErrorStep ==
    ASSUME DepositsInv, NEW t \in Trx, SweepError(t),
           UNCHANGED <<deposit, streamer, arrived>>
    PROVE  DepositsInv' /\ StatusStep
  <1>0. TypeOK /\ LoopInv /\ SweepInv /\ PayInv
    BY DEF DepositsInv
  <1>a. table' = table
    BY DEF SweepError
  <1>c. table[t].status = "init" /\ IsNext(t) /\ t \in todo /\ Exists(t)
    BY <1>0 DEF SweepError, Unswept, IsNext, LoopInv, Exists
  <1>1. TypeOK'
    <2>1. table' \in [Trx -> Rows] /\ \A v \in Trx : Exists(v)' <=> Exists(v)
      BY <1>0, <1>a DEF TypeOK, Exists
    <2>2. ChainOK'
      BY <1>0 DEF TypeOK, ChainOK, chain, SweepError
    <2>3. LoopOK'
      BY <1>0 DEF TypeOK, LoopOK, SweepError, NextRow
    <2>4. SeenOK'
      BY <1>0 DEF TypeOK, SeenOK, seen, SweepError
    <2>5. faults' = faults \/ Fault
      BY DEF SweepError
    <2> QED BY <1>0, <2>1, <2>2, <2>3, <2>4, <2>5, TypeFrame
  <1>2. LoopInv'
    BY <1>0 DEF LoopInv, streamer, SweepError, Unswept, NextRow
  <1>3. SweepInv'
    <2>1. SUFFICES ASSUME NEW v \in Trx PROVE SweepAt(v)'
      BY DEF SweepInv
    <2>2. SweepAt(v)
      BY <1>0 DEF SweepInv
    <2> QED BY <2>2 DEF SweepAt, Marked, JustSwept, seen, SweepError, Unswept, NextRow
  <1>4. PayInv'
    <2>1. SUFFICES ASSUME NEW v \in Trx PROVE PayAt(v)'
      BY DEF PayInv
    <2>2. PayAt(v)
      BY <1>0 DEF PayInv
    <2> QED BY <1>0, <1>c, <2>2 DEF TypeOK, LoopInv, PayAt, Due, seen, SweepError,
               NextRow
  <1>5. StatusStep
    BY <1>a DEF StatusStep
  <1> QED BY <1>1, <1>2, <1>3, <1>4, <1>5 DEF DepositsInv

LEMMA RecordSweptStep ==
    ASSUME DepositsInv, NEW t \in Trx, RecordSwept(t),
           UNCHANGED <<deposit, streamer, arrived>>
    PROVE  DepositsInv' /\ StatusStep
  <1>0. TypeOK /\ LoopInv /\ SweepInv /\ PayInv
    BY DEF DepositsInv
  <1>a. /\ table' \in [Trx -> Rows]
        /\ \A v \in Trx : v # t => table'[v] = table[v]
        /\ table' = table \/ table' = PutInitiatedPendingTransaction(table, t, "tx")
    <2>1. table \in [Trx -> Rows] /\ "tx" \in Hashes
      BY <1>0 DEF TypeOK, Hashes
    <2> DEFINE h == "tx"
    <2> HIDE DEF h
    <2>2. h \in Hashes
      BY <2>1 DEF h
    <2>3. table' = table \/ table' = PutInitiatedPendingTransaction(table, t, h)
      BY DEF h, RecordSwept
    <2>4. /\ PutInitiatedPendingTransaction(table, t, h) \in [Trx -> Rows]
          /\ \A v \in Trx : v # t =>
                PutInitiatedPendingTransaction(table, t, h)[v] = table[v]
      BY <2>1, <2>2, InitiatedFacts
    <2> QED BY <2>1, <2>3, <2>4 DEF h
  <1>b. table' # table => /\ table'[t].status = "init"
                          /\ table'[t].hash2 = "tx"
    <2>1. table \in [Trx -> Rows] /\ "tx" \in Hashes
      BY <1>0 DEF TypeOK, Hashes
    <2> DEFINE h == "tx"
    <2> HIDE DEF h
    <2>2. h \in Hashes
      BY <2>1 DEF h
    <2>3. table' # table => table' = PutInitiatedPendingTransaction(table, t, h)
      BY <1>a DEF h
    <2>4. /\ PutInitiatedPendingTransaction(table, t, h)[t].status = "init"
          /\ PutInitiatedPendingTransaction(table, t, h)[t].hash2 = h
      BY <2>1, <2>2, InitiatedFacts
    <2> QED BY <2>3, <2>4 DEF h
  <1>c. table[t].status = "init" /\ IsNext(t) /\ t \in todo /\ Exists(t)
    BY <1>0 DEF RecordSwept, IsNext, LoopInv, Exists
  <1>e. \A v \in Trx : IsNext(v) => v = t
    BY <1>0, <1>c, NextUnique
  <1>f. /\ lostSweep' \in [Trx -> Nat] /\ UNCHANGED <<swept, payouts, lostPay, grouped>>
        /\ \A v \in Trx : v # t => lostSweep'[v] = lostSweep[v]
        /\ \/ table'[t].hash2 = "tx" /\ lostSweep'[t] = lostSweep[t]
           \/ table' = table /\ lostSweep'[t] = lostSweep[t] + 1
    <2>1. table \in [Trx -> Rows] /\ lostSweep \in [Trx -> Nat] /\ "tx" \in Hashes
      BY <1>0 DEF TypeOK, Hashes
    <2>2. CASE /\ table' = PutInitiatedPendingTransaction(table, t, "tx")
               /\ lostSweep' = lostSweep
      <3>1. table'[t].hash2 = "tx"
        BY <2>1, <2>2, InitiatedFacts
      <3> QED BY <2>1, <3>1 DEF RecordSwept
    <2>3. CASE table' = table /\ lostSweep' = [lostSweep EXCEPT ![t] = @ + 1]
      <3>1. /\ lostSweep' \in [Trx -> Nat] /\ lostSweep'[t] = lostSweep[t] + 1
            /\ \A v \in Trx : v # t => lostSweep'[v] = lostSweep[v]
        BY <2>1, <2>3
      <3> QED BY <3>1 DEF RecordSwept
    <2> QED BY <2>2, <2>3 DEF RecordSwept
  <1>1. TypeOK'
    <2>1. table' \in [Trx -> Rows] /\ \A v \in Trx : Exists(v)' <=> Exists(v)
      BY <1>a, <1>b, <1>c DEF Exists
    <2>2. ChainOK'
      BY <1>0 DEF TypeOK, ChainOK, chain, RecordSwept
    <2>3. LoopOK'
      BY <1>0 DEF TypeOK, LoopOK, RecordSwept, NextRow
    <2>4. SeenOK'
      BY <1>0, <1>f DEF TypeOK, SeenOK
    <2>5. faults' = faults \/ Fault
      BY DEF RecordSwept
    <2> QED BY <1>0, <2>1, <2>2, <2>3, <2>4, <2>5, TypeFrame
  <1>2. LoopInv'
    BY <1>0, <1>a DEF TypeOK, LoopInv, Settling, streamer, RecordSwept, NextRow
  <1>3. SweepInv'
    <2>1. SUFFICES ASSUME NEW v \in Trx PROVE SweepAt(v)'
      BY DEF SweepInv
    <2>2. SweepAt(v)
      BY <1>0 DEF SweepInv
    <2>3. JustSwept(v) <=> v = t
      BY <1>e DEF JustSwept, RecordSwept
    <2>4. ~JustSwept(v)'
      BY DEF JustSwept, NextRow, RecordSwept
    <2>5. table'[v].status = table[v].status /\ (v # t => (Marked(v)' <=> Marked(v)))
      BY <1>a, <1>c, <1>b DEF Marked
    <2>6. v = t => ~Marked(v) /\ table[v].status = "init"
      BY <1>0, <1>c DEF SweepInv, SweepAt, JustSwept, RecordSwept
    <2>8. CASE v = t
      BY <1>f, <2>2, <2>3, <2>4, <2>5, <2>6 DEF SweepAt, Marked
    <2>9. CASE v # t
      BY <1>f, <2>2, <2>3, <2>4, <2>5, <2>9 DEF SweepAt
    <2> QED BY <2>8, <2>9
  <1>4. PayInv'
    <2>1. SUFFICES ASSUME NEW v \in Trx PROVE PayAt(v)'
      BY DEF PayInv
    <2>2. PayAt(v)
      BY <1>0 DEF PayInv
    <2> QED BY <1>a, <1>b, <1>c, <2>2 DEF PayAt, Due, RecordSwept, NextRow
  <1>5. StatusStep
    BY <1>a, <1>b, <1>c DEF StatusStep
  <1> QED BY <1>1, <1>2, <1>3, <1>4, <1>5 DEF DepositsInv

LEMMA ConfirmSweptStep ==
    ASSUME DepositsInv, NEW t \in Trx, ConfirmSwept(t),
           UNCHANGED <<deposit, streamer, arrived>>
    PROVE  DepositsInv' /\ StatusStep
  <1>0. TypeOK /\ LoopInv /\ SweepInv /\ PayInv
    BY DEF DepositsInv
  <1>a. /\ table' \in [Trx -> Rows]
        /\ \A v \in Trx : v # t => table'[v] = table[v]
        /\ table' = table \/ table' = PutProcessedTransaction(table, t, table[t].hash2)
    <2>1. table \in [Trx -> Rows] /\ table[t].hash2 \in Hashes
      BY <1>0 DEF TypeOK, Rows
    <2> DEFINE h == table[t].hash2
    <2> HIDE DEF h
    <2>2. h \in Hashes
      BY <2>1 DEF h
    <2>3. table' = table \/ table' = PutProcessedTransaction(table, t, h)
      BY DEF h, ConfirmSwept
    <2>4. /\ PutProcessedTransaction(table, t, h) \in [Trx -> Rows]
          /\ \A v \in Trx : v # t => PutProcessedTransaction(table, t, h)[v] = table[v]
      BY <2>1, <2>2, ProcessedFacts
    <2> QED BY <2>1, <2>3, <2>4 DEF h
  <1>b. table' # table => /\ table'[t].status = "processed"
                          /\ table'[t].hash2 = table[t].hash2
    <2>1. table \in [Trx -> Rows] /\ table[t].hash2 \in Hashes
      BY <1>0 DEF TypeOK, Rows
    <2> DEFINE h == table[t].hash2
    <2> HIDE DEF h
    <2>2. h \in Hashes
      BY <2>1 DEF h
    <2>3. table' # table => table' = PutProcessedTransaction(table, t, h)
      BY <1>a DEF h
    <2>4. /\ PutProcessedTransaction(table, t, h)[t].status = "processed"
          /\ PutProcessedTransaction(table, t, h)[t].hash2 = h
      BY <2>1, <2>2, ProcessedFacts
    <2> QED BY <2>3, <2>4 DEF h
  <1>c. table[t].status = "init" /\ IsNext(t) /\ t \in todo /\ Exists(t)
    BY <1>0 DEF ConfirmSwept, IsNext, LoopInv, Exists
  <1>1. TypeOK'
    <2>1. table' \in [Trx -> Rows] /\ \A v \in Trx : Exists(v)' <=> Exists(v)
      BY <1>a, <1>b, <1>c DEF Exists
    <2>2. ChainOK'
      BY <1>0 DEF TypeOK, ChainOK, chain, ConfirmSwept
    <2>3. LoopOK'
      BY <1>0 DEF TypeOK, LoopOK, ConfirmSwept, NextRow
    <2>4. SeenOK'
      BY <1>0 DEF TypeOK, SeenOK, seen, ConfirmSwept
    <2>5. faults' = faults \/ Fault
      BY DEF ConfirmSwept
    <2> QED BY <1>0, <2>1, <2>2, <2>3, <2>4, <2>5, TypeFrame
  <1>2. LoopInv'
    BY <1>0, <1>a, <1>b DEF TypeOK, LoopInv, streamer, ConfirmSwept, NextRow
  <1>3. SweepInv'
    <2>1. SUFFICES ASSUME NEW v \in Trx PROVE SweepAt(v)'
      BY DEF SweepInv
    <2>2. SweepAt(v)
      BY <1>0 DEF SweepInv
    <2> QED BY <1>a, <1>b, <2>2 DEF SweepAt, Marked, JustSwept, seen, ConfirmSwept,
               NextRow
  <1>4. PayInv'
    <2>1. SUFFICES ASSUME NEW v \in Trx PROVE PayAt(v)'
      BY DEF PayInv
    <2>2. PayAt(v)
      BY <1>0 DEF PayInv
    <2> QED BY <1>a, <1>b, <1>c, <2>2 DEF PayAt, Due, seen, ConfirmSwept, NextRow
  <1>5. StatusStep
    BY <1>a, <1>b, <1>c DEF StatusStep, DepositEdges
  <1> QED BY <1>1, <1>2, <1>3, <1>4, <1>5 DEF DepositsInv

LEMMA ReadProcessedStep ==
    ASSUME DepositsInv, ReadProcessed, UNCHANGED <<deposit, streamer, arrived>>
    PROVE  DepositsInv' /\ StatusStep
  <1>0. TypeOK /\ LoopInv /\ SweepInv /\ PayInv
    BY DEF DepositsInv
  <1>a. table' = table
    BY DEF ReadProcessed
  <1>b. /\ todo' \in SUBSET Trx /\ batch' = todo'
        /\ \A v \in todo' : table[v].status = "processed"
        /\ pc' = "processed" /\ pc = "initiated"
        /\ UNCHANGED <<queue, merchant, unsettled>> /\ acc' = 0
    BY <1>0 DEF ReadProcessed, Batch, WithStatus, TypeOK
  <1>c. \A v \in todo' : v \notin grouped' => todo' = {v}
    BY <1>b, OneRow DEF ReadProcessed
  <1>1. TypeOK'
    <2>1. table' \in [Trx -> Rows] /\ \A v \in Trx : Exists(v)' <=> Exists(v)
      BY <1>0, <1>a DEF TypeOK, Exists
    <2>2. ChainOK'
      BY <1>0 DEF TypeOK, ChainOK, chain, ReadProcessed
    <2>3. LoopOK'
      BY <1>0, <1>b DEF TypeOK, LoopOK, LoopInv
    <2>4. SeenOK'
      BY <1>0, <1>b DEF TypeOK, SeenOK, ReadProcessed
    <2>5. faults' = faults \/ Fault
      BY DEF ReadProcessed
    <2> QED BY <1>0, <2>1, <2>2, <2>3, <2>4, <2>5, TypeFrame
  <1>2. LoopInv'
    BY <1>0, <1>a, <1>b DEF LoopInv, Settling, streamer
  <1>3. SweepInv'
    <2>1. SUFFICES ASSUME NEW v \in Trx PROVE SweepAt(v)'
      BY DEF SweepInv
    <2>2. SweepAt(v)
      BY <1>0 DEF SweepInv
    <2> QED BY <2>2 DEF SweepAt, Marked, JustSwept, ReadProcessed
  <1>4. PayInv'
    <2>1. SUFFICES ASSUME NEW v \in Trx PROVE PayAt(v)'
      BY DEF PayInv
    <2>2. PayAt(v)
      BY <1>0 DEF PayInv
    <2> QED BY <1>b, <1>c, <2>2 DEF PayAt, Due, ReadProcessed
  <1>5. StatusStep
    BY <1>a DEF StatusStep
  <1> QED BY <1>1, <1>2, <1>3, <1>4, <1>5 DEF DepositsInv

LEMMA AccumulateStep ==
    ASSUME DepositsInv, NEW t \in Trx, Accumulate(t),
           UNCHANGED <<deposit, streamer, arrived>>
    PROVE  DepositsInv' /\ StatusStep
  <1>0. TypeOK /\ LoopInv /\ SweepInv /\ PayInv
    BY DEF DepositsInv
  <1>a. /\ table' \in [Trx -> Rows]
        /\ \A v \in Trx : v # t => table'[v] = table[v]
        /\ table' = table \/ table' = PutProcessedTransaction(table, t, "tx")
    <2>1. table \in [Trx -> Rows] /\ "tx" \in Hashes
      BY <1>0 DEF TypeOK, Hashes
    <2> DEFINE h == "tx"
    <2> HIDE DEF h
    <2>2. h \in Hashes
      BY <2>1 DEF h
    <2>3. table' = table \/ table' = PutProcessedTransaction(table, t, h)
      BY DEF h, Accumulate
    <2>4. /\ PutProcessedTransaction(table, t, h) \in [Trx -> Rows]
          /\ \A v \in Trx : v # t => PutProcessedTransaction(table, t, h)[v] = table[v]
      BY <2>1, <2>2, ProcessedFacts
    <2> QED BY <2>1, <2>3, <2>4 DEF h
  <1>b. table' # table => /\ table'[t].status = "processed"
                          /\ table'[t].hash2 = "tx"
    <2>1. table \in [Trx -> Rows] /\ "tx" \in Hashes
      BY <1>0 DEF TypeOK, Hashes
    <2> DEFINE h == "tx"
    <2> HIDE DEF h
    <2>2. h \in Hashes
      BY <2>1 DEF h
    <2>3. table' # table => table' = PutProcessedTransaction(table, t, h)
      BY <1>a DEF h
    <2>4. /\ PutProcessedTransaction(table, t, h)[t].status = "processed"
          /\ PutProcessedTransaction(table, t, h)[t].hash2 = h
      BY <2>1, <2>2, ProcessedFacts
    <2> QED BY <2>3, <2>4 DEF h
  <1>c. /\ t \in batch /\ IsNext(t) /\ t \in todo
        /\ table[t].status \in {"processed", "settle"} /\ Exists(t)
    BY <1>0 DEF Accumulate, IsNext, LoopInv, Settling, Exists
  <1>d. /\ deposit[t] \in Deposit /\ User(t) \in UserKeys
        /\ Asset(t) \in Assets /\ deposit[t].amount \in Nat
    <2>1. deposit[t] \in Deposit
      BY <1>0, <1>c DEF TypeOK
    <2> QED BY <2>1 DEF Deposit, User, Asset
  <1>f. Net(t) \in Int /\ acc' \in Int
    <2>1. Fix \in Int /\ Percent \in Int /\ acc \in Int
      BY <1>0, DepositsAssumption DEF TypeOK
    <2>2. Net(t) \in Int
      BY <1>d, <2>1 DEF Net
    <2> HIDE DEF Net
    <2> QED BY <2>2 DEF Accumulate
  <1>1. TypeOK'
    <2>1. table' \in [Trx -> Rows] /\ \A v \in Trx : Exists(v)' <=> Exists(v)
      BY <1>a, <1>b, <1>c DEF Exists
    <2>2. ChainOK'
      BY <1>0 DEF TypeOK, ChainOK, chain, Accumulate
    <2>3. LoopOK'
      BY <1>0, <1>f DEF TypeOK, LoopOK, Accumulate, NextRow, Goto
    <2>4. SeenOK'
      BY <1>0 DEF TypeOK, SeenOK, seen, Accumulate
    <2>5. faults' = faults \/ Fault
      BY DEF Accumulate
    <2> QED BY <1>0, <2>1, <2>2, <2>3, <2>4, <2>5, TypeFrame
  <1>2. LoopInv'
    BY <1>0, <1>a, <1>b DEF TypeOK, LoopInv, Settling, streamer, Accumulate, NextRow,
       Goto
  <1>3. SweepInv'
    <2>1. SUFFICES ASSUME NEW v \in Trx PROVE SweepAt(v)'
      BY DEF SweepInv
    <2>2. SweepAt(v)
      BY <1>0 DEF SweepInv
    <2> QED BY <1>a, <1>b, <1>c, <2>2 DEF Credits, SweepAt, Marked, JustSwept, seen,
               Accumulate, NextRow, Goto
  <1>4. PayInv'
    <2>1. SUFFICES ASSUME NEW v \in Trx PROVE PayAt(v)'
      BY DEF PayInv
    <2>2. PayAt(v)
      BY <1>0 DEF PayInv
    <2> QED BY <1>a, <1>b, <1>c, <2>2 DEF PayAt, Due, seen, Accumulate, NextRow, Goto
  <1>5. StatusStep
    BY <1>a, <1>b, <1>c DEF StatusStep, DepositEdges
  <1> QED BY <1>1, <1>2, <1>3, <1>4, <1>5 DEF DepositsInv

LEMMA PayoutStep ==
    ASSUME DepositsInv, NEW t \in Trx, Payout(t),
           UNCHANGED <<deposit, streamer, arrived>>
    PROVE  DepositsInv' /\ StatusStep
  <1>0. TypeOK /\ LoopInv /\ SweepInv /\ PayInv
    BY DEF DepositsInv
  <1>a. table' = table
    BY DEF Payout, PayoutTransfer
  <1>c. /\ t \in batch /\ IsNext(t) /\ t \in todo
        /\ table[t].status \in {"processed", "settle"} /\ Exists(t)
    BY <1>0 DEF Payout, IsNext, LoopInv, Settling, Exists
  <1>d. /\ deposit[t] \in Deposit /\ User(t) \in UserKeys
        /\ Asset(t) \in Assets /\ deposit[t].amount \in Nat
    <2>1. deposit[t] \in Deposit
      BY <1>0, <1>c DEF TypeOK
    <2> QED BY <2>1 DEF Deposit, User, Asset
  <1>f. /\ payouts' \in [Trx -> Nat] /\ lostPay' \in [Trx -> Nat]
        /\ \A v \in Trx : /\ payouts'[v] = IF v \in batch /\ v <= t
                                             THEN payouts[v] + 1 ELSE payouts[v]
                          /\ lostPay'[v] = lostPay[v]
    <2>1. payouts \in [Trx -> Nat] /\ lostPay \in [Trx -> Nat]
      BY <1>0 DEF TypeOK
    <2>2. /\ payouts' = Count(payouts, Included(t))
          /\ UNCHANGED lostPay
      BY DEF Payout, PayoutTransfer
    <2> QED BY <2>1, <2>2, CountFacts DEF Included
  <1>g. \A v \in batch : Marked(v)
    BY <1>0 DEF SweepInv, SweepAt, Credits, LoopInv, TypeOK
  <1>h. /\ receiving' \in [Assets -> Nat] /\ settled' \in [Merchants -> [Assets -> Nat]]
        /\ UNCHANGED balance
    <2>1. PayoutTransfer(t)
      BY DEF Payout
    <2>2. UNCHANGED balance
      BY <2>1 DEF PayoutTransfer
    <2> QED BY <1>0, <1>d, <2>1, <2>2, PayoutFacts
  <1>1. TypeOK'
    <2>1. table' \in [Trx -> Rows] /\ \A v \in Trx : Exists(v)' <=> Exists(v)
      BY <1>0, <1>a DEF TypeOK, Exists
    <2>2. ChainOK'
      BY <1>0, <1>h DEF TypeOK, ChainOK
    <2>3. LoopOK'
      BY <1>0 DEF TypeOK, LoopOK, Payout, PayoutTransfer, Goto
    <2>4. SeenOK'
      BY <1>0, <1>f DEF TypeOK, SeenOK, Payout, PayoutTransfer
    <2>5. faults' = faults \/ Fault
      BY DEF Payout
    <2> QED BY <1>0, <2>1, <2>2, <2>3, <2>4, <2>5, TypeFrame
  <1>2. LoopInv'
    BY <1>0, <1>c DEF LoopInv, Settling, streamer, Payout, PayoutTransfer, Goto
  <1>3. SweepInv'
    <2>1. SUFFICES ASSUME NEW v \in Trx PROVE SweepAt(v)'
      BY DEF SweepInv
    <2>2. SweepAt(v)
      BY <1>0 DEF SweepInv
    <2> QED BY <1>f, <1>g, <2>2 DEF SweepAt, Marked, JustSwept, Payout, Goto,
               PayoutTransfer
  <1>4. PayInv'
    <2>1. SUFFICES ASSUME NEW v \in Trx PROVE PayAt(v)'
      BY DEF PayInv
    <2>2. PayAt(v)
      BY <1>0 DEF PayInv
    <2> QED BY <1>c, <1>f, <2>2 DEF PayAt, Due, IsNext, Payout, Goto, PayoutTransfer
  <1>5. StatusStep
    BY <1>a DEF StatusStep
  <1> QED BY <1>1, <1>2, <1>3, <1>4, <1>5 DEF DepositsInv

LEMMA PayoutUnrecordedStep ==
    ASSUME DepositsInv, NEW t \in Trx, PayoutUnrecorded(t),
           UNCHANGED <<deposit, streamer, arrived>>
    PROVE  DepositsInv' /\ StatusStep
  <1>0. TypeOK /\ LoopInv /\ SweepInv /\ PayInv
    BY DEF DepositsInv
  <1>a. table' = table
    BY DEF PayoutUnrecorded, PayoutTransfer
  <1>c. /\ t \in batch /\ IsNext(t) /\ t \in todo
        /\ table[t].status \in {"processed", "settle"} /\ Exists(t)
    BY <1>0 DEF PayoutUnrecorded, IsNext, LoopInv, Settling, Exists
  <1>d. /\ deposit[t] \in Deposit /\ User(t) \in UserKeys
        /\ Asset(t) \in Assets /\ deposit[t].amount \in Nat
    <2>1. deposit[t] \in Deposit
      BY <1>0, <1>c DEF TypeOK
    <2> QED BY <2>1 DEF Deposit, User, Asset
  <1>f. /\ payouts' \in [Trx -> Nat] /\ lostPay' \in [Trx -> Nat]
        /\ \A v \in Trx : /\ payouts'[v] = IF v \in batch /\ v <= t
                                             THEN payouts[v] + 1 ELSE payouts[v]
                          /\ lostPay'[v] = IF v \in batch /\ v <= t
                                             THEN lostPay[v] + 1 ELSE lostPay[v]
    <2>1. payouts \in [Trx -> Nat] /\ lostPay \in [Trx -> Nat]
      BY <1>0 DEF TypeOK
    <2>2. /\ payouts' = Count(payouts, Included(t))
          /\ lostPay' = Count(lostPay, Included(t))
      BY DEF PayoutUnrecorded, PayoutTransfer
    <2> QED BY <2>1, <2>2, CountFacts DEF Included
  <1>g. \A v \in batch : Marked(v)
    BY <1>0 DEF SweepInv, SweepAt, Credits, LoopInv, TypeOK
  <1>h. /\ receiving' \in [Assets -> Nat] /\ settled' \in [Merchants -> [Assets -> Nat]]
        /\ UNCHANGED balance
    <2>1. PayoutTransfer(t)
      BY DEF PayoutUnrecorded
    <2>2. UNCHANGED balance
      BY <2>1 DEF PayoutTransfer
    <2> QED BY <1>0, <1>d, <2>1, <2>2, PayoutFacts
  <1>1. TypeOK'
    <2>1. table' \in [Trx -> Rows] /\ \A v \in Trx : Exists(v)' <=> Exists(v)
      BY <1>0, <1>a DEF TypeOK, Exists
    <2>2. ChainOK'
      BY <1>0, <1>h DEF TypeOK, ChainOK
    <2>3. LoopOK'
      BY <1>0 DEF TypeOK, LoopOK, PayoutUnrecorded, PayoutTransfer, ReturnProcessed
    <2>4. SeenOK'
      BY <1>0, <1>f DEF TypeOK, SeenOK, PayoutUnrecorded, PayoutTransfer
    <2>5. faults' = faults \/ Fault
      BY DEF PayoutUnrecorded
    <2> QED BY <1>0, <2>1, <2>2, <2>3, <2>4, <2>5, TypeFrame
  <1>2. LoopInv'
    BY <1>0 DEF LoopInv, Settling, streamer, PayoutUnrecorded, PayoutTransfer,
       ReturnProcessed
  <1>3. SweepInv'
    <2>1. SUFFICES ASSUME NEW v \in Trx PROVE SweepAt(v)'
      BY DEF SweepInv
    <2>2. SweepAt(v)
      BY <1>0 DEF SweepInv
    <2> QED BY <1>f, <1>g, <2>2 DEF SweepAt, Marked, JustSwept, PayoutUnrecorded,
               ReturnProcessed, PayoutTransfer
  <1>4. PayInv'
    <2>1. SUFFICES ASSUME NEW v \in Trx PROVE PayAt(v)'
      BY DEF PayInv
    <2>2. PayAt(v)
      BY <1>0 DEF PayInv
    <2> QED BY <1>f, <2>2 DEF PayAt, Due, PayoutUnrecorded, ReturnProcessed,
               PayoutTransfer
  <1>5. StatusStep
    BY <1>a DEF StatusStep
  <1> QED BY <1>1, <1>2, <1>3, <1>4, <1>5 DEF DepositsInv

LEMMA PayoutErrorStep ==
    ASSUME DepositsInv, NEW t \in Trx, PayoutError(t),
           UNCHANGED <<deposit, streamer, arrived>>
    PROVE  DepositsInv' /\ StatusStep
  <1>0. TypeOK /\ LoopInv /\ SweepInv /\ PayInv
    BY DEF DepositsInv
  <1>a. table' = table
    BY DEF PayoutError
  <1>1. TypeOK'
    <2>1. table' \in [Trx -> Rows] /\ \A v \in Trx : Exists(v)' <=> Exists(v)
      BY <1>0, <1>a DEF TypeOK, Exists
    <2>2. ChainOK'
      BY <1>0 DEF TypeOK, ChainOK, chain, PayoutError
    <2>3. LoopOK'
      BY <1>0 DEF TypeOK, LoopOK, PayoutError, ReturnProcessed
    <2>4. SeenOK'
      BY <1>0 DEF TypeOK, SeenOK, seen, PayoutError
    <2>5. faults' = faults \/ Fault
      BY DEF PayoutError
    <2> QED BY <1>0, <2>1, <2>2, <2>3, <2>4, <2>5, TypeFrame
  <1>2. LoopInv'
    BY <1>0 DEF LoopInv, Settling, streamer, PayoutError, ReturnProcessed
  <1>3. SweepInv'
    <2>1. SUFFICES ASSUME NEW v \in Trx PROVE SweepAt(v)'
      BY DEF SweepInv
    <2>2. SweepAt(v)
      BY <1>0 DEF SweepInv
    <2> QED BY <2>2 DEF SweepAt, Marked, JustSwept, seen, PayoutError, ReturnProcessed
  <1>4. PayInv'
    <2>1. SUFFICES ASSUME NEW v \in Trx PROVE PayAt(v)'
      BY DEF PayInv
    <2>2. PayAt(v)
      BY <1>0 DEF PayInv
    <2> QED BY <2>2 DEF PayAt, Due, seen, PayoutError, ReturnProcessed
  <1>5. StatusStep
    BY <1>a DEF StatusStep
  <1> QED BY <1>1, <1>2, <1>3, <1>4, <1>5 DEF DepositsInv

LEMMA RecordSettledStep ==
    ASSUME DepositsInv, NEW t \in Trx, NEW u \in Trx, RecordSettled(t, u),
           UNCHANGED <<deposit, streamer, arrived>>
    PROVE  DepositsInv' /\ StatusStep
  <1>0. TypeOK /\ LoopInv /\ SweepInv /\ PayInv
    BY DEF DepositsInv
  <1>a. /\ table' \in [Trx -> Rows]
        /\ \A v \in Trx : v # u => table'[v] = table[v]
        /\ table' = table \/ table' = PutSettledTransaction(table, u, "tx")
    <2>1. table \in [Trx -> Rows] /\ "tx" \in Hashes
      BY <1>0 DEF TypeOK, Hashes
    <2> DEFINE h == "tx"
    <2> HIDE DEF h
    <2>2. h \in Hashes
      BY <2>1 DEF h
    <2>3. table' = table \/ table' = PutSettledTransaction(table, u, h)
      BY DEF h, RecordSettled
    <2>4. /\ PutSettledTransaction(table, u, h) \in [Trx -> Rows]
          /\ \A v \in Trx : v # u => PutSettledTransaction(table, u, h)[v] = table[v]
      BY <2>1, <2>2, SettledFacts
    <2> QED BY <2>1, <2>3, <2>4 DEF h
  <1>b. table' # table => /\ table'[u].status = "settle"
                          /\ table'[u].hash2 = table[u].hash2
    <2>1. table \in [Trx -> Rows] /\ "tx" \in Hashes
      BY <1>0 DEF TypeOK, Hashes
    <2> DEFINE h == "tx"
    <2> HIDE DEF h
    <2>2. h \in Hashes
      BY <2>1 DEF h
    <2>3. table' # table => table' = PutSettledTransaction(table, u, h)
      BY <1>a DEF h
    <2>4. /\ PutSettledTransaction(table, u, h)[u].status = "settle"
          /\ PutSettledTransaction(table, u, h)[u].hash2 = table[u].hash2
      BY <2>1, <2>2, SettledFacts
    <2> QED BY <2>3, <2>4
  <1>c. /\ u \in batch /\ t \in batch /\ IsNext(t) /\ t \in todo
        /\ table[u].status \in {"processed", "settle"} /\ Exists(t)
    BY <1>0 DEF RecordSettled, IsNext, IsNextUnsettled, LoopInv, TypeOK, Exists
  <1>f. /\ payouts' = payouts /\ lostPay' \in [Trx -> Nat]
        /\ \A v \in Trx : v # u => lostPay'[v] = lostPay[v]
        /\ table' # table => lostPay' = lostPay
        /\ \/ table' = PutSettledTransaction(table, u, "tx") /\ lostPay' = lostPay
           \/ table' = table /\ lostPay' = Count(lostPay, {u} \cap Included(t))
        /\ \/ table' # table \/ table'[u].status = "settle"
           \/ u <= t => lostPay'[u] = lostPay[u] + 1
    <2>1. table \in [Trx -> Rows] /\ lostPay \in [Trx -> Nat] /\ "tx" \in Hashes
      BY <1>0 DEF TypeOK, Hashes
    <2>2. CASE table' = PutSettledTransaction(table, u, "tx") /\ lostPay' = lostPay
      <3>1. table'[u].status = "settle"
        BY <2>1, <2>2, SettledFacts
      <3> QED BY <2>1, <2>2, <3>1 DEF RecordSettled
    <2>3. CASE table' = table /\ lostPay' = Count(lostPay, {u} \cap Included(t))
      <3>1. /\ lostPay' \in [Trx -> Nat]
            /\ \A v \in Trx : lostPay'[v] = IF v \in {u} \cap Included(t)
                                             THEN lostPay[v] + 1 ELSE lostPay[v]
        BY <2>1, <2>3, CountFacts
      <3> QED BY <1>c, <3>1 DEF RecordSettled, Included
    <2> QED BY <2>2, <2>3 DEF RecordSettled
  <1>1. TypeOK'
    <2>1. table' \in [Trx -> Rows] /\ \A v \in Trx : Exists(v)' <=> Exists(v)
      BY <1>a, <1>b, <1>c DEF Exists
    <2>2. ChainOK'
      BY <1>0 DEF TypeOK, ChainOK, chain, RecordSettled
    <2>3. LoopOK'
      BY <1>0 DEF TypeOK, LoopOK, RecordSettled, NextRow, Goto
    <2>4. SeenOK'
      BY <1>0, <1>f DEF TypeOK, SeenOK, RecordSettled
    <2>5. faults' = faults \/ Fault
      BY DEF RecordSettled
    <2> QED BY <1>0, <2>1, <2>2, <2>3, <2>4, <2>5, TypeFrame
  <1>2. LoopInv'
    BY <1>0, <1>a, <1>b DEF TypeOK, LoopInv, Settling, streamer, RecordSettled, NextRow,
       Goto
  <1>3. SweepInv'
    <2>1. SUFFICES ASSUME NEW v \in Trx PROVE SweepAt(v)'
      BY DEF SweepInv
    <2>2. SweepAt(v)
      BY <1>0 DEF SweepInv
    <2> QED BY <1>a, <1>b, <1>c, <2>2 DEF Credits, SweepAt, Marked, JustSwept,
               RecordSettled, NextRow, Goto
  <1>4. PayInv'
    <2>1. SUFFICES ASSUME NEW v \in Trx PROVE PayAt(v)'
      BY DEF PayInv
    <2>2. PayAt(v)
      BY <1>0 DEF PayInv
    <2> QED BY <1>0, <1>a, <1>b, <1>c, <1>f, <2>2 DEF LoopInv, PayAt, Due,
               RecordSettled, NextRow, Goto, IsNextUnsettled
  <1>5. StatusStep
    BY <1>a, <1>b, <1>c DEF StatusStep, DepositEdges
  <1> QED BY <1>1, <1>2, <1>3, <1>4, <1>5 DEF DepositsInv

LEMMA ReadSettledStep ==
    ASSUME DepositsInv, ReadSettled, UNCHANGED <<deposit, streamer, arrived>>
    PROVE  DepositsInv' /\ StatusStep
  <1>0. TypeOK /\ LoopInv /\ SweepInv /\ PayInv
    BY DEF DepositsInv
  <1>a. table' = table
    BY DEF ReadSettled
  <1>1. TypeOK'
    <2>1. table' \in [Trx -> Rows] /\ \A v \in Trx : Exists(v)' <=> Exists(v)
      BY <1>0, <1>a DEF TypeOK, Exists
    <2>2. ChainOK'
      BY <1>0 DEF TypeOK, ChainOK, chain, ReadSettled
    <2>3. LoopOK'
      BY <1>0 DEF TypeOK, LoopOK, LoopInv, ReadSettled, Batch, WithStatus
    <2>4. SeenOK'
      BY <1>0 DEF TypeOK, SeenOK, seen, ReadSettled
    <2>5. faults' = faults \/ Fault
      BY DEF ReadSettled
    <2> QED BY <1>0, <2>1, <2>2, <2>3, <2>4, <2>5, TypeFrame
  <1>2. LoopInv'
    BY <1>0 DEF LoopInv, Settling, streamer, ReadSettled, Batch, WithStatus
  <1>3. SweepInv'
    <2>1. SUFFICES ASSUME NEW v \in Trx PROVE SweepAt(v)'
      BY DEF SweepInv
    <2>2. SweepAt(v)
      BY <1>0 DEF SweepInv
    <2> QED BY <2>2 DEF SweepAt, Marked, JustSwept, seen, ReadSettled
  <1>4. PayInv'
    <2>1. SUFFICES ASSUME NEW v \in Trx PROVE PayAt(v)'
      BY DEF PayInv
    <2>2. PayAt(v)
      BY <1>0 DEF PayInv
    <2> QED BY <2>2 DEF PayAt, Due, seen, ReadSettled
  <1>5. StatusStep
    BY <1>a DEF StatusStep
  <1> QED BY <1>1, <1>2, <1>3, <1>4, <1>5 DEF DepositsInv

LEMMA RecordDoneStep ==
    ASSUME DepositsInv, NEW t \in Trx, RecordDone(t),
           UNCHANGED <<deposit, streamer, arrived>>
    PROVE  DepositsInv' /\ StatusStep
  <1>0. TypeOK /\ LoopInv /\ SweepInv /\ PayInv
    BY DEF DepositsInv
  <1>a. /\ table' \in [Trx -> Rows]
        /\ \A v \in Trx : v # t => table'[v] = table[v]
        /\ table' = table \/ table' = PutDoneTransaction(table, t, "")
    <2>1. table \in [Trx -> Rows] /\ "" \in Hashes
      BY <1>0 DEF TypeOK, Hashes
    <2> DEFINE h == ""
    <2> HIDE DEF h
    <2>2. h \in Hashes
      BY <2>1 DEF h
    <2>3. table' = table \/ table' = PutDoneTransaction(table, t, h)
      BY DEF h, RecordDone
    <2>4. /\ PutDoneTransaction(table, t, h) \in [Trx -> Rows]
          /\ \A v \in Trx : v # t => PutDoneTransaction(table, t, h)[v] = table[v]
      BY <2>1, <2>2, DoneFacts
    <2> QED BY <2>1, <2>3, <2>4 DEF h
  <1>b. table' # table => /\ table'[t].status = "done"
                          /\ table'[t].hash2 = table[t].hash2
    <2>1. table \in [Trx -> Rows] /\ "" \in Hashes
      BY <1>0 DEF TypeOK, Hashes
    <2> DEFINE h == ""
    <2> HIDE DEF h
    <2>2. h \in Hashes
      BY <2>1 DEF h
    <2>3. table' # table => table' = PutDoneTransaction(table, t, h)
      BY <1>a DEF h
    <2>4. /\ PutDoneTransaction(table, t, h)[t].status = "done"
          /\ PutDoneTransaction(table, t, h)[t].hash2 = table[t].hash2
      BY <2>1, <2>2, DoneFacts
    <2> QED BY <2>3, <2>4
  <1>c. table[t].status = "settle" /\ IsNext(t) /\ t \in todo /\ Exists(t)
    BY <1>0 DEF RecordDone, IsNext, LoopInv, Exists
  <1>1. TypeOK'
    <2>1. table' \in [Trx -> Rows] /\ \A v \in Trx : Exists(v)' <=> Exists(v)
      BY <1>a, <1>b, <1>c DEF Exists
    <2>2. ChainOK'
      BY <1>0 DEF TypeOK, ChainOK, chain, RecordDone
    <2>3. LoopOK'
      BY <1>0 DEF TypeOK, LoopOK, RecordDone, NextRow
    <2>4. SeenOK'
      BY <1>0 DEF TypeOK, SeenOK, seen, RecordDone
    <2>5. faults' = faults \/ Fault
      BY DEF RecordDone
    <2> QED BY <1>0, <2>1, <2>2, <2>3, <2>4, <2>5, TypeFrame
  <1>2. LoopInv'
    BY <1>0, <1>a DEF TypeOK, LoopInv, Settling, streamer, RecordDone, NextRow
  <1>3. SweepInv'
    <2>1. SUFFICES ASSUME NEW v \in Trx PROVE SweepAt(v)'
      BY DEF SweepInv
    <2>2. SweepAt(v)
      BY <1>0 DEF SweepInv
    <2> QED BY <1>a, <1>b, <1>c, <2>2 DEF Credits, SweepAt, Marked, JustSwept, seen,
               RecordDone, NextRow
  <1>4. PayInv'
    <2>1. SUFFICES ASSUME NEW v \in Trx PROVE PayAt(v)'
      BY DEF PayInv
    <2>2. PayAt(v)
      BY <1>0 DEF PayInv
    <2> QED BY <1>a, <1>b, <1>c, <2>2 DEF PayAt, Due, seen, RecordDone, NextRow
  <1>5. StatusStep
    BY <1>a, <1>b, <1>c DEF StatusStep, DepositEdges
  <1> QED BY <1>1, <1>2, <1>3, <1>4, <1>5 DEF DepositsInv

LEMMA EndMerchantStep ==
    ASSUME DepositsInv, EndMerchant, UNCHANGED <<deposit, streamer, arrived>>
    PROVE  DepositsInv' /\ StatusStep
  <1>0. TypeOK /\ LoopInv /\ SweepInv /\ PayInv
    BY DEF DepositsInv
  <1>a. table' = table
    BY DEF EndMerchant
  <1>1. TypeOK'
    <2>1. table' \in [Trx -> Rows] /\ \A v \in Trx : Exists(v)' <=> Exists(v)
      BY <1>0, <1>a DEF TypeOK, Exists
    <2>2. ChainOK'
      BY <1>0 DEF TypeOK, ChainOK, chain, EndMerchant
    <2>3. LoopOK'
      BY <1>0 DEF TypeOK, LoopOK, EndMerchant, Goto
    <2>4. SeenOK'
      BY <1>0 DEF TypeOK, SeenOK, seen, EndMerchant
    <2>5. faults' = faults \/ Fault
      BY DEF EndMerchant
    <2> QED BY <1>0, <2>1, <2>2, <2>3, <2>4, <2>5, TypeFrame
  <1>2. LoopInv'
    BY <1>0 DEF LoopInv, Settling, streamer, EndMerchant, Goto
  <1>3. SweepInv'
    <2>1. SUFFICES ASSUME NEW v \in Trx PROVE SweepAt(v)'
      BY DEF SweepInv
    <2>2. SweepAt(v)
      BY <1>0 DEF SweepInv
    <2> QED BY <2>2 DEF SweepAt, Marked, JustSwept, seen, EndMerchant, Goto
  <1>4. PayInv'
    <2>1. SUFFICES ASSUME NEW v \in Trx PROVE PayAt(v)'
      BY DEF PayInv
    <2>2. PayAt(v)
      BY <1>0 DEF PayInv
    <2> QED BY <2>2 DEF PayAt, Due, seen, EndMerchant, Goto
  <1>5. StatusStep
    BY <1>a DEF StatusStep
  <1> QED BY <1>1, <1>2, <1>3, <1>4, <1>5 DEF DepositsInv

---------------------------------------------------------------------------
(* The streamer: it keeps the two loops and the rows they are at.          *)
StreamerOK ==
    /\ spc \in {"poll", "callback", "create"} /\ cursor \in 0..MaxKey
    /\ snapshot \in [Assets -> Nat] /\ pending \subseteq Assets
    /\ fresh \in Deposit \cup {NoDeposit}
    /\ faults \in 0..MaxFaults
    /\ spc # "poll" => cursor \in UserKeys
    /\ spc = "create" => fresh \in Deposit

LEMMA StreamerFrame ==
    ASSUME DepositsInv, StreamerOK',
           UNCHANGED <<table, deposit, chain, loop, arrived, seen>>
    PROVE  DepositsInv' /\ StatusStep
  <1>0. TypeOK /\ LoopInv /\ SweepInv /\ PayInv
    BY DEF DepositsInv
  <1>1. TypeOK'
    <2>1. /\ table' \in [Trx -> Rows]
          /\ deposit' \in [Trx -> Deposit \cup {NoDeposit}]
          /\ \A t \in Trx : Exists(t)' <=> deposit'[t] # NoDeposit
      BY <1>0 DEF TypeOK, Exists
    <2>2. /\ balance' \in [UserKeys -> [Assets -> Nat]]
          /\ receiving' \in [Assets -> Nat]
          /\ settled' \in [Merchants -> [Assets -> Nat]]
          /\ arrived' \in [UserKeys -> [Assets -> Nat]]
      BY <1>0 DEF TypeOK, chain
    <2>3. /\ pc' \in {"idle", "initiated", "recordSwept", "processed", "payout",
                      "recordSettled", "settled"}
          /\ queue' \subseteq Merchants /\ merchant' \in Merchants
          /\ todo' \subseteq Trx /\ batch' \subseteq Trx /\ unsettled' \subseteq batch'
          /\ acc' \in Int
      BY <1>0 DEF TypeOK, loop
    <2>4. /\ swept' \in [Trx -> Nat] /\ lostSweep' \in [Trx -> Nat]
          /\ payouts' \in [Trx -> Nat] /\ lostPay' \in [Trx -> Nat]
          /\ grouped' \subseteq Trx
      BY <1>0 DEF TypeOK, seen
    <2> QED BY <2>1, <2>2, <2>3, <2>4 DEF TypeOK, StreamerOK
  <1>2. LoopInv'
    BY <1>0 DEF LoopInv, StreamerOK, loop
  <1>3. SweepInv'
    <2>1. SUFFICES ASSUME NEW v \in Trx PROVE SweepAt(v)'
      BY DEF SweepInv
    <2>2. SweepAt(v)
      BY <1>0 DEF SweepInv
    <2> QED BY <2>2 DEF SweepAt, Marked, JustSwept, IsNext, loop, seen
  <1>4. PayInv'
    <2>1. SUFFICES ASSUME NEW v \in Trx PROVE PayAt(v)'
      BY DEF PayInv
    <2>2. PayAt(v)
      BY <1>0 DEF PayInv
    <2> QED BY <2>2 DEF PayAt, Due, loop, seen
  <1>5. StatusStep
    BY DEF StatusStep
  <1> QED BY <1>1, <1>2, <1>3, <1>4, <1>5 DEF DepositsInv

(* The steps that write no row.                                            *)
Polling ==
    \/ PollRestart \/ PollSkip \/ Poll \/ PollEnd
    \/ \E a \in Assets : CallbackDrop(a) \/ CallbackCheck(a)

LEMMA PollingStep ==
    ASSUME DepositsInv, Polling,
           UNCHANGED <<table, deposit, chain, loop, arrived, seen>>
    PROVE  DepositsInv' /\ StatusStep
  <1>0. /\ StreamerOK
        /\ balance \in [UserKeys -> [Assets -> Nat]]
    BY DEF DepositsInv, TypeOK, LoopInv, StreamerOK
  <1> SUFFICES StreamerOK'
    BY StreamerFrame
  <1>1. MaxFaults \in Nat /\ MaxKey \in Nat /\ UserKeys \subseteq 1..MaxKey
    BY DepositsAssumption DEF Keys
  <1>2. ASSUME faults' = faults \/ Fault PROVE faults' \in 0..MaxFaults
    BY <1>0, <1>1, <1>2 DEF Fault, StreamerOK
  <1>3. CASE PollRestart
    <2>1. faults' \in 0..MaxFaults
      BY <1>2, <1>3 DEF PollRestart
    <2> QED BY <1>0, <1>1, <1>3, <2>1 DEF PollRestart, StreamerOK
  <1>4. CASE PollSkip
    <2>1. faults' \in 0..MaxFaults
      BY <1>2, <1>4 DEF PollSkip
    <2> QED BY <1>0, <1>1, <1>4, <2>1 DEF PollSkip, NextKey, StreamerOK
  <1>5. CASE Poll
    BY <1>0, <1>1, <1>5 DEF Poll, StreamerOK
  <1>6. CASE PollEnd
    BY <1>0, <1>6 DEF PollEnd, Empty, StreamerOK
  <1>7. ASSUME NEW a \in Assets, CallbackDrop(a) PROVE StreamerOK'
    <2>1. faults' \in 0..MaxFaults
      BY <1>2, <1>7 DEF CallbackDrop
    <2> QED BY <1>0, <1>7, <2>1 DEF CallbackDrop, StreamerOK
  <1>8. ASSUME NEW a \in Assets, CallbackCheck(a) PROVE StreamerOK'
    <2>1. cursor \in UserKeys /\ snapshot[a] \in Nat
      BY <1>0, <1>8 DEF CallbackCheck, StreamerOK
    <2>2. fresh' \in Deposit
      BY <1>8, <2>1 DEF CallbackCheck, Deposit
    <2> QED BY <1>0, <1>8, <2>2 DEF CallbackCheck, StreamerOK
  <1> QED BY <1>3, <1>4, <1>5, <1>6, <1>7, <1>8 DEF Polling

LEMMA CallbackCreateStep ==
    ASSUME DepositsInv, NEW t \in Trx, CallbackCreate(t),
           UNCHANGED <<chain, loop, arrived, seen>>
    PROVE  DepositsInv' /\ StatusStep
  <1>0. TypeOK /\ LoopInv /\ SweepInv /\ PayInv
    BY DEF DepositsInv
  <1>1. MaxFaults \in Nat /\ UserKeys \subseteq 1..MaxKey
    BY DepositsAssumption DEF Keys
  <1>2. fresh \in Deposit /\ fresh # NoDeposit
    BY <1>0 DEF CallbackCreate, LoopInv, Deposit, NoDeposit
  <1>3. /\ StreamerOK' /\ UNCHANGED <<chain, loop, arrived, seen>>
    <2>1. faults' \in 0..MaxFaults
      BY <1>0, <1>1 DEF CallbackCreate, Fault, TypeOK
    <2> QED BY <1>0, <2>1 DEF CallbackCreate, TypeOK, LoopInv, StreamerOK
  <1>4. CASE UNCHANGED <<table, deposit>>
    BY <1>3, <1>4, StreamerFrame
  <1>5. CASE /\ table' = CreateTransaction(table, t)
             /\ deposit' = [deposit EXCEPT ![t] = fresh]
    <2>1. table \in [Trx -> Rows] /\ table[t] \in Rows /\ table[t].status = "absent"
      BY <1>0 DEF TypeOK, CallbackCreate, Exists
    <2>2. /\ table' \in [Trx -> Rows]
          /\ \A v \in Trx : v # t => table'[v] = table[v]
          /\ table'[t].status = "init" /\ table'[t].hash2 = ""
      BY <1>5, <2>1 DEF CreateTransaction, Rows, Statuses, Hashes
    <2>3. ~Marked(t) /\ ~JustSwept(t) /\ ~Due(t) /\ t \notin batch
      BY <1>0, <2>1 DEF LoopInv, TypeOK, SweepInv, SweepAt, JustSwept, IsNext, Due
    <2>4. pc # "idle" => t \notin todo
      BY <1>0, <2>1 DEF LoopInv, Settling, TypeOK
    <2>5. TypeOK'
      <3>1. /\ deposit' \in [Trx -> Deposit \cup {NoDeposit}]
            /\ \A v \in Trx : Exists(v)' <=> deposit'[v] # NoDeposit
        BY <1>0, <1>2, <1>5, <2>2 DEF TypeOK, Exists
      <3>2. /\ balance' \in [UserKeys -> [Assets -> Nat]]
            /\ receiving' \in [Assets -> Nat]
            /\ settled' \in [Merchants -> [Assets -> Nat]]
            /\ arrived' \in [UserKeys -> [Assets -> Nat]]
        BY <1>0 DEF TypeOK, chain
      <3>3. /\ pc' \in {"idle", "initiated", "recordSwept", "processed", "payout",
                        "recordSettled", "settled"}
            /\ queue' \subseteq Merchants /\ merchant' \in Merchants
            /\ todo' \subseteq Trx /\ batch' \subseteq Trx
            /\ unsettled' \subseteq batch' /\ acc' \in Int
        BY <1>0 DEF TypeOK, loop
      <3>4. /\ swept' \in [Trx -> Nat] /\ lostSweep' \in [Trx -> Nat]
            /\ payouts' \in [Trx -> Nat] /\ lostPay' \in [Trx -> Nat]
            /\ grouped' \subseteq Trx
        BY <1>0 DEF TypeOK, seen
      <3> QED BY <1>3, <2>2, <3>1, <3>2, <3>3, <3>4 DEF TypeOK, StreamerOK
    <2>6. LoopInv'
      <3>1. /\ pc' = pc /\ todo' = todo /\ batch' = batch /\ unsettled' = unsettled
        BY DEF loop
      <3>2. /\ spc' # "poll" => cursor' \in UserKeys
            /\ spc' = "create" => fresh' \in Deposit
        BY <1>3 DEF StreamerOK
      <3>3. \A v \in todo : pc # "idle" => v # t /\ table'[v] = table[v]
        BY <1>0, <2>2, <2>4 DEF TypeOK
      <3>4. \A v \in batch : table'[v] = table[v]
        BY <1>0, <2>2, <2>3 DEF TypeOK
      <3> QED BY <1>0, <3>1, <3>2, <3>3, <3>4 DEF LoopInv
    <2>7. SweepInv' /\ PayInv'
      <3>1. SUFFICES ASSUME NEW v \in Trx PROVE SweepAt(v)' /\ PayAt(v)'
        BY DEF SweepInv, PayInv
      <3>2. SweepAt(v) /\ PayAt(v)
        BY <1>0 DEF SweepInv, PayInv
      <3>3. (JustSwept(v)' <=> JustSwept(v)) /\ (Due(v)' <=> Due(v))
        BY DEF JustSwept, IsNext, Due, loop
      <3>4. /\ UNCHANGED <<swept, lostSweep, payouts, lostPay, grouped, pc, todo, batch>>
        BY DEF loop, seen
      <3>5. CASE v = t
        BY <2>1, <2>2, <3>2, <3>3, <3>4 DEF SweepAt, PayAt, Marked, Credits
      <3>6. CASE v # t
        <4>1. table'[v] = table[v]
          BY <2>2, <3>6
        <4> QED BY <3>2, <3>3, <3>4, <4>1 DEF SweepAt, PayAt, Marked
      <3> QED BY <3>5, <3>6
    <2>8. StatusStep
      BY <2>1, <2>2 DEF StatusStep, DepositEdges
    <2> QED BY <2>5, <2>6, <2>7, <2>8 DEF DepositsInv
  <1> QED BY <1>4, <1>5 DEF CallbackCreate

LEMMA ArriveStep ==
    ASSUME DepositsInv, NEW k \in UserKeys, NEW a \in Assets, NEW n \in 1..MaxDeposit,
           Arrive(k, a, n)
    PROVE  DepositsInv' /\ StatusStep
  <1>0. TypeOK /\ LoopInv /\ SweepInv /\ PayInv
    BY DEF DepositsInv
  <1> DEFINE held == [balance[k] EXCEPT ![a] = @ + n]
             sent == [arrived[k] EXCEPT ![a] = @ + n]
  <1>1. /\ UNCHANGED <<table, deposit, receiving, settled, streamer, loop, faults, seen>>
        /\ balance' = [balance EXCEPT ![k] = held]
        /\ arrived' = [arrived EXCEPT ![k] = sent]
    BY DEF Arrive
  <1>3. /\ balance \in [UserKeys -> [Assets -> Nat]]
        /\ arrived \in [UserKeys -> [Assets -> Nat]]
    BY <1>0 DEF TypeOK
  <1>4. held \in [Assets -> Nat] /\ sent \in [Assets -> Nat]
    BY <1>3
  <1> HIDE DEF held, sent
  <1>5. /\ balance' \in [UserKeys -> [Assets -> Nat]]
        /\ arrived' \in [UserKeys -> [Assets -> Nat]]
    BY <1>1, <1>3, <1>4
  <1>6. TypeOK'
    BY <1>0, <1>1, <1>5 DEF TypeOK, Exists, streamer, loop, seen
  <1>7. LoopInv'
    BY <1>0, <1>1 DEF LoopInv, streamer, loop
  <1>8. SweepInv' /\ PayInv'
    <2>1. SUFFICES ASSUME NEW v \in Trx PROVE SweepAt(v)' /\ PayAt(v)'
      BY DEF SweepInv, PayInv
    <2>2. SweepAt(v) /\ PayAt(v)
      BY <1>0 DEF SweepInv, PayInv
    <2>3. SweepAt(v)'
      BY <1>1, <2>2 DEF SweepAt, Marked, JustSwept, IsNext, loop, seen
    <2>4. PayAt(v)'
      BY <1>1, <2>2 DEF PayAt, Due, loop, seen
    <2> QED BY <2>3, <2>4
  <1>9. StatusStep
    BY <1>1 DEF StatusStep
  <1> QED BY <1>6, <1>7, <1>8, <1>9 DEF DepositsInv

(* A crash forgets what both goroutines were at; what they had done and    *)
(* not written down is lost.                                               *)
LEMMA CrashStep ==
    ASSUME DepositsInv, Crash
    PROVE  DepositsInv' /\ StatusStep
  <1>0. TypeOK /\ LoopInv /\ SweepInv /\ PayInv
    BY DEF DepositsInv
  <1>1. /\ lostSweep' \in [Trx -> Nat] /\ lostPay' \in [Trx -> Nat]
        /\ \A v \in Trx :
              /\ lostSweep'[v] = IF v \in Sweeping THEN lostSweep[v] + 1 ELSE lostSweep[v]
              /\ lostPay'[v] = IF v \in Paying THEN lostPay[v] + 1 ELSE lostPay[v]
    <2>1. /\ lostSweep \in [Trx -> Nat] /\ lostPay \in [Trx -> Nat]
          /\ lostSweep' = Count(lostSweep, Sweeping) /\ lostPay' = Count(lostPay, Paying)
      BY <1>0 DEF TypeOK, Crash
    <2> QED BY <2>1, CountFacts
  <1>2. \A v \in Trx : v \in Sweeping <=> JustSwept(v)
    BY DEF Sweeping, JustSwept
  <1>3. \A v \in Trx : v \notin grouped => (v \in Paying <=> Due(v))
    <2>1. TAKE v \in Trx
    <2>2. HAVE v \notin grouped
    <2>3. ASSUME Due(v) PROVE v \in Paying
      <3>1. v \in batch /\ PayAt(v)
        BY <1>0, <2>3 DEF Due, TypeOK, PayInv
      <3>2. batch = {v}
        BY <2>2, <3>1 DEF PayAt
      <3>3. pc = "recordSettled" /\ todo = {v} /\ v \in unsettled
        BY <1>0, <2>3, <3>2 DEF Due, LoopInv
      <3>4. v <= v
        BY DEF Trx
      <3> QED BY <3>3, <3>4 DEF Paying, IsNext
    <2> QED BY <2>3 DEF Paying, Due
  <1>4. TypeOK'
    <2>1. faults' \in 0..MaxFaults
      BY <1>0, DepositsAssumption DEF Crash, Fault, TypeOK
    <2>2. MaxKey \in Nat
      BY DepositsAssumption
    <2> QED BY <1>0, <1>1, <2>1, <2>2 DEF TypeOK, Crash, Exists, chain, Empty
  <1>5. LoopInv'
    BY DEF LoopInv, Crash
  <1>6. SweepInv' /\ PayInv'
    <2>1. SUFFICES ASSUME NEW v \in Trx PROVE SweepAt(v)' /\ PayAt(v)'
      BY DEF SweepInv, PayInv
    <2>2. SweepAt(v) /\ PayAt(v)
      BY <1>0 DEF SweepInv, PayInv
    <2>3. /\ UNCHANGED <<table, swept, payouts, grouped>>
          /\ ~JustSwept(v)' /\ ~Due(v)' /\ batch' = {} /\ todo' = {}
      BY DEF Crash, JustSwept, Due
    <2>5. SweepAt(v)'
      BY <1>1, <1>2, <2>2, <2>3 DEF SweepAt, Marked
    <2>6. PayAt(v)'
      BY <1>1, <1>3, <2>2, <2>3 DEF PayAt
    <2> QED BY <2>5, <2>6
  <1>7. StatusStep
    BY DEF StatusStep, Crash
  <1> QED BY <1>4, <1>5, <1>6, <1>7 DEF DepositsInv

---------------------------------------------------------------------------
(* The invariant is inductive.                                             *)
LEMMA InvInit == Init => DepositsInv
  <1> SUFFICES ASSUME Init PROVE DepositsInv
    OBVIOUS
  <1>1. MaxKey \in Nat /\ MaxFaults \in Nat
    BY DepositsAssumption
  <1>2. /\ table \in [Trx -> Rows] /\ \A t \in Trx : table[t] = NoRow
    BY DEF Init, NoRow, Rows, Hashes
  <1>4. TypeOK
    <2>1. Empty \in [Assets -> Nat] /\ Zero \in [Trx -> Nat]
      BY DEF Empty, Zero
    <2>2. /\ \A t \in Trx : ~Exists(t) /\ deposit[t] = NoDeposit
          /\ deposit \in [Trx -> Deposit \cup {NoDeposit}]
      BY DEF Exists, NoRow, Init
    <2> QED BY <1>1, <1>2, <2>1, <2>2 DEF TypeOK, Init
  <1>5. LoopInv
    BY DEF LoopInv, Init
  <1>6. SweepInv /\ PayInv
    BY DEF SweepInv, SweepAt, PayInv, PayAt, Marked, JustSwept, Due, Credits, Init,
       NoRow, Zero
  <1> QED BY <1>4, <1>5, <1>6 DEF DepositsInv

LEMMA ProcessingStep ==
    ASSUME DepositsInv, Processing
    PROVE  DepositsInv' /\ StatusStep
  <1> USE DEF Processing
  <1>2. CASE Tick
    BY <1>2, TickStep
  <1>3. CASE ReadProcessed
    BY <1>3, ReadProcessedStep
  <1>4. CASE ReadSettled
    BY <1>4, ReadSettledStep
  <1>5. CASE EndMerchant
    BY <1>5, EndMerchantStep
  <1>6. ASSUME NEW m \in Merchants, ReadInitiated(m) PROVE DepositsInv' /\ StatusStep
    BY <1>6, ReadInitiatedStep
  <1>7. ASSUME NEW t \in Trx,
               \/ Sweep(t) \/ SweepLate(t) \/ SweepError(t)
               \/ RecordSwept(t) \/ ConfirmSwept(t) \/ Accumulate(t)
        PROVE  DepositsInv' /\ StatusStep
    BY <1>7, SweepStep, SweepLateStep, SweepErrorStep, RecordSweptStep,
       ConfirmSweptStep, AccumulateStep
  <1>8. ASSUME NEW t \in Trx,
               \/ Payout(t) \/ PayoutUnrecorded(t) \/ PayoutError(t) \/ RecordDone(t)
        PROVE  DepositsInv' /\ StatusStep
    BY <1>8, PayoutStep, PayoutUnrecordedStep, PayoutErrorStep, RecordDoneStep
  <1>9. ASSUME NEW t \in Trx, NEW u \in Trx, RecordSettled(t, u)
        PROVE  DepositsInv' /\ StatusStep
    BY <1>9, RecordSettledStep
  <1> QED BY <1>2, <1>3, <1>4, <1>5, <1>6, <1>7, <1>8, <1>9

LEMMA InvNext ==
    ASSUME DepositsInv, [Next]_vars
    PROVE  DepositsInv' /\ StatusStep
  <1>1. CASE Processing
    BY <1>1, ProcessingStep
  <1>2. CASE Streamer
    <2>1. CASE Polling /\ UNCHANGED <<table, deposit>>
      BY <1>2, <2>1, PollingStep DEF Streamer
    <2>2. ASSUME NEW t \in Trx, CallbackCreate(t) PROVE DepositsInv' /\ StatusStep
      BY <1>2, <2>2, CallbackCreateStep DEF Streamer
    <2> QED BY <1>2, <2>1, <2>2 DEF Streamer, Polling
  <1>3. ASSUME NEW k \in UserKeys, NEW a \in Assets, NEW n \in 1..MaxDeposit,
               Arrive(k, a, n)
        PROVE  DepositsInv' /\ StatusStep
    BY <1>3, ArriveStep
  <1>4. CASE Crash
    BY <1>4, CrashStep
  <1>5. CASE UNCHANGED vars
    <2>1. UNCHANGED <<table, deposit, chain, loop, arrived, seen>>
      BY <1>5 DEF vars, chain, loop, seen
    <2>2. StreamerOK'
      BY <1>5 DEF vars, StreamerOK, DepositsInv, TypeOK, LoopInv
    <2> QED BY <2>1, <2>2, StreamerFrame
  <1> QED BY <1>1, <1>2, <1>3, <1>4, <1>5 DEF Next

(* What the goroutines hold in memory agrees with the rows and the chain, *)
(* whatever fails and whichever goroutine runs first.                      *)
THEOREM InvHolds == Spec => []DepositsInv
  <1>1. Init => DepositsInv
    BY InvInit
  <1>2. DepositsInv /\ [Next]_vars => DepositsInv'
    BY InvNext
  <1> QED BY <1>1, <1>2, PTL DEF Spec

---------------------------------------------------------------------------
(* Every variable has its type: no wallet is ever overdrawn.               *)
THEOREM TypeCorrect == Spec => []TypeOK
  <1>1. DepositsInv => TypeOK
    BY DEF DepositsInv
  <1> QED BY <1>1, InvHolds, PTL

(* The transfer of processDepositInitiated is made again only if its hash  *)
(* was lost, for every number of users, assets, rows and failures.         *)
THEOREM SweptCorrect == Spec => []SweptOnce
  <1>1. DepositsInv => SweptOnce
    <2>1. SUFFICES ASSUME DepositsInv, NEW t \in Trx
                   PROVE  /\ swept[t] <= 1 + lostSweep[t]
                          /\ table[t].status \in Credits => swept[t] > lostSweep[t]
                          /\ payouts[t] > 0 => swept[t] > lostSweep[t]
      BY DEF SweptOnce, Credits
    <2>2. SweepAt(t) /\ swept[t] \in Nat /\ lostSweep[t] \in Nat /\ payouts[t] \in Nat
      BY <2>1 DEF DepositsInv, SweepInv, TypeOK
    <2> QED BY <2>2 DEF SweepAt
  <1> QED BY <1>1, InvHolds, PTL

(* A deposit that never shares a batch is paid to its merchant once.       *)
THEOREM LonePaidCorrect == Spec => []LonePaidOnce
  <1>1. DepositsInv => LonePaidOnce
    <2>1. SUFFICES ASSUME DepositsInv, NEW t \in Trx, t \notin grouped
                   PROVE  /\ payouts[t] <= 1 + lostPay[t]
                          /\ table[t].status \in {"settle", "done"}
                               => payouts[t] > lostPay[t]
      BY DEF LonePaidOnce
    <2>2. PayAt(t) /\ lostPay[t] \in Nat /\ payouts[t] \in Nat
      BY <2>1 DEF DepositsInv, PayInv, TypeOK
    <2> QED BY <2>1, <2>2 DEF PayAt
  <1> QED BY <1>1, InvHolds, PTL

(* No step of either goroutine skips a status or leaves "done".            *)
THEOREM StatusCorrect == Spec => StatusOrder
  <1>1. DepositsInv /\ [Next]_vars => [StatusStep]_vars
    BY InvNext
  <1> QED BY <1>1, InvHolds, PTL DEF Spec, StatusOrder

---------------------------------------------------------------------------
(* As long as nothing is swept from a user, all rows of the user are       *)
(* initiated ones, which is what the callback adds up.                     *)
Untouched(k) == \A t \in Trx : swept[t] > 0 => User(t) # k

Covered(k) == Untouched(k) => \A a \in Assets : RowsTotal(k, a) <= arrived[k][a]

CreditInv ==
    /\ \A t \in Trx : table[t].status \in {"absent", "init"} \cup Credits
    /\ \A k \in UserKeys, a \in Assets : balance[k][a] <= arrived[k][a]
    /\ spc # "poll" => \A a \in Assets : snapshot[a] <= arrived[cursor][a]
    /\ spc = "create" =>
          /\ fresh.user = cursor
          /\ Untouched(cursor) =>
                RowsTotal(cursor, fresh.asset) + fresh.amount <= arrived[cursor][fresh.asset]
    /\ \A k \in UserKeys : Covered(k)

LEMMA TrxFinite == \A S \in SUBSET Trx : IsFiniteSet(S)
  <1>1. MaxTrx \in Int /\ 1 \in Int
    BY DepositsAssumption
  <1>2. IsFiniteSet(Trx)
    BY <1>1, FS_Interval DEF Trx
  <1> QED BY <1>2, FS_Subset

LEMMA AmountsType ==
    ASSUME TypeOK
    PROVE  Amounts \in [Trx -> Nat]
  BY DEF TypeOK, Amounts, Deposit

LEMMA TotalsType ==
    ASSUME TypeOK, NEW k \in UserKeys, NEW a \in Assets
    PROVE  RowsTotal(k, a) \in Nat
  <1>1. RowsOf(k, a) \in SUBSET Trx /\ IsFiniteSet(RowsOf(k, a))
    BY TrxFinite DEF RowsOf
  <1>2. \A t \in RowsOf(k, a) : Amounts[t] \in Nat
    BY <1>1, AmountsType
  <1> QED BY <1>1, <1>2, SumSubset DEF RowsTotal

(* The rows of a user nothing was swept from are the initiated ones.       *)
LEMMA InitiatedRows ==
    ASSUME DepositsInv, CreditInv, NEW k \in UserKeys, Untouched(k), NEW a \in Assets
    PROVE  RowsTotal(k, a) <= InitTotal(k) /\ InitTotal(k) \in Nat
  <1>1. ASSUME NEW t \in RowsOf(k, a) PROVE t \in InitRows(k)
    <2>1. t \in Trx /\ table[t].status \in {"init"} \cup Credits /\ User(t) = k
      BY <1>1 DEF RowsOf, CreditInv, Exists
    <2>2. SweepAt(t) /\ swept[t] \in Nat /\ lostSweep[t] \in Nat
      BY <2>1 DEF DepositsInv, SweepInv, TypeOK
    <2>3. table[t].status \notin Credits
      BY <2>1, <2>2 DEF SweepAt, Untouched
    <2>4. DOMAIN table = Trx
      BY DEF DepositsInv, TypeOK
    <2> QED BY <2>1, <2>3, <2>4 DEF InitRows, WithStatus, User
  <1>2. InitRows(k) \in SUBSET Trx
    BY DEF InitRows, WithStatus, DepositsInv, TypeOK
  <1>3. IsFiniteSet(InitRows(k)) /\ RowsOf(k, a) \in SUBSET InitRows(k)
    BY <1>1, <1>2, TrxFinite
  <1>4. \A t \in InitRows(k) : Amounts[t] \in Nat
    BY <1>2, AmountsType DEF DepositsInv
  <1>5. /\ SumFunctionOnSet(Amounts, RowsOf(k, a)) <= SumFunctionOnSet(Amounts, InitRows(k))
        /\ SumFunctionOnSet(Amounts, InitRows(k)) \in Nat
    BY <1>3, <1>4, SumSubset
  <1> QED BY <1>5 DEF RowsTotal, InitTotal

(* Steps that make no row leave the sums as they are.                      *)
LEMMA SameRows ==
    ASSUME TypeOK, TypeOK', deposit' = deposit
    PROVE  \A k, a : RowsTotal(k, a)' = RowsTotal(k, a)
  <1>1. \A t \in Trx : Exists(t)' <=> Exists(t)
    BY DEF TypeOK
  <1>2. Amounts' = Amounts
    BY <1>1 DEF Amounts
  <1>3. \A k, a : RowsOf(k, a)' = RowsOf(k, a)
    BY <1>1 DEF RowsOf, User, Asset
  <1> QED BY <1>2, <1>3 DEF RowsTotal

LEMMA StatusesKept ==
    ASSUME CreditInv, StatusStep
    PROVE  \A t \in Trx : table'[t].status \in {"absent", "init"} \cup Credits
  BY DEF CreditInv, StatusStep, DepositEdges, Credits

(* The processing goroutine takes tokens from the users, and a crash ends  *)
(* the poll.                                                               *)
LEMMA CreditFrame ==
    ASSUME TypeOK, TypeOK', CreditInv, StatusStep, UNCHANGED <<deposit, arrived>>,
           \A t \in Trx : swept'[t] >= swept[t],
           \A k \in UserKeys, a \in Assets : balance'[k][a] <= balance[k][a],
           UNCHANGED streamer \/ spc' = "poll"
    PROVE  CreditInv'
  <1>1. \A k, a : RowsTotal(k, a)' = RowsTotal(k, a)
    BY SameRows
  <1>2. ASSUME NEW k, Untouched(k)' PROVE Untouched(k)
    <2>1. \A t \in Trx : swept[t] \in Nat /\ swept'[t] \in Nat
      BY DEF TypeOK
    <2> QED BY <1>2, <2>1 DEF Untouched, User
  <1>3. \A k \in UserKeys, a \in Assets : balance'[k][a] <= arrived'[k][a]
    <2>1. TAKE k \in UserKeys, a \in Assets
    <2>2. balance[k][a] \in Nat /\ balance'[k][a] \in Nat /\ arrived[k][a] \in Nat
      BY DEF TypeOK
    <2>3. balance[k][a] <= arrived[k][a] /\ balance'[k][a] <= balance[k][a]
      BY DEF CreditInv
    <2> QED BY <2>2, <2>3
  <1>4. ASSUME NEW k \in UserKeys PROVE Covered(k)'
    BY <1>1, <1>2 DEF CreditInv, Covered
  <1>5. ASSUME spc' # "poll"
        PROVE  /\ \A a \in Assets : snapshot'[a] <= arrived'[cursor'][a]
               /\ spc' = "create" =>
                     /\ fresh'.user = cursor'
                     /\ Untouched(cursor)' =>
                           RowsTotal(cursor, fresh.asset)' + fresh'.amount
                               <= arrived'[cursor'][fresh'.asset]
    <2>1. UNCHANGED <<spc, cursor, snapshot, fresh>>
      BY <1>5 DEF streamer
    <2>2. RowsTotal(cursor, fresh.asset)' = RowsTotal(cursor, fresh.asset)
      BY <1>1, <2>1 DEF RowsTotal, RowsOf
    <2>3. Untouched(cursor)' => Untouched(cursor)
      BY <1>2, <2>1 DEF Untouched
    <2> QED BY <1>5, <2>1, <2>2, <2>3 DEF CreditInv
  <1> QED BY <1>3, <1>4, <1>5, StatusesKept DEF CreditInv

(* A sweep takes tokens from the user, and no other step does.             *)
LEMMA SweepTakes ==
    ASSUME DepositsInv, NEW t \in Trx, Unswept(t), SweepTransfer(t)
    PROVE  /\ \A v \in Trx : swept'[v] >= swept[v]
           /\ \A k \in UserKeys, a \in Assets : balance'[k][a] <= balance[k][a]
  <1>1. TypeOK /\ deposit[t] \in Deposit
    BY DEF DepositsInv, TypeOK, LoopInv, Unswept, IsNext, Exists
  <1>2. \A v \in Trx : swept'[v] >= swept[v]
    <2>1. swept \in [Trx -> Nat] /\ swept'[t] = swept[t] + 1
          /\ \A v \in Trx : v # t => swept'[v] = swept[v]
      BY <1>1, SweepFacts DEF TypeOK
    <2> QED BY <2>1
  <1>3. ASSUME NEW k \in UserKeys, NEW a \in Assets
        PROVE  balance'[k][a] <= balance[k][a]
    <2> DEFINE n == deposit[t].amount
    <2>1. /\ n \in Nat /\ User(t) \in UserKeys /\ Asset(t) \in Assets
          /\ balance \in [UserKeys -> [Assets -> Nat]]
          /\ balance' = [balance EXCEPT ![User(t)][Asset(t)] = @ - n]
      BY <1>1 DEF Deposit, User, Asset, TypeOK, SweepTransfer
    <2> HIDE DEF n
    <2>2. balance'[k][a] = balance[k][a] \/ balance'[k][a] = balance[k][a] - n
      BY <2>1
    <2>3. balance[k][a] \in Nat
      BY <2>1
    <2> QED BY <2>1, <2>2, <2>3
  <1> QED BY <1>2, <1>3

LEMMA CreditProcessing ==
    ASSUME DepositsInv, DepositsInv', CreditInv, StatusStep, Processing
    PROVE  CreditInv'
  <1>1. UNCHANGED <<deposit, streamer, arrived>>
    BY DEF Processing
  <1>2. CASE \E t \in Trx : Sweep(t) \/ SweepLate(t)
    <2>1. PICK t \in Trx : Unswept(t) /\ SweepTransfer(t)
      BY <1>2 DEF Sweep, SweepLate
    <2> QED BY <1>1, <2>1, SweepTakes, CreditFrame DEF DepositsInv
  <1>3. CASE UNCHANGED <<swept, balance>>
    <2>1. /\ \A t \in Trx : swept'[t] >= swept[t]
          /\ \A k \in UserKeys, a \in Assets : balance'[k][a] <= balance[k][a]
      BY <1>3 DEF DepositsInv, TypeOK
    <2> QED BY <1>1, <2>1, CreditFrame DEF DepositsInv
  <1>4. CASE \/ Tick \/ ReadProcessed \/ ReadSettled \/ EndMerchant
             \/ \E m \in Merchants : ReadInitiated(m)
    BY <1>3, <1>4 DEF Tick, ReadProcessed, ReadSettled, EndMerchant, ReadInitiated,
       chain, seen
  <1>5. ASSUME NEW t \in Trx,
               \/ SweepError(t) \/ RecordSwept(t) \/ ConfirmSwept(t) \/ Accumulate(t)
               \/ PayoutError(t) \/ RecordDone(t) \/ \E u \in Trx : RecordSettled(t, u)
        PROVE  CreditInv'
    BY <1>3, <1>5 DEF SweepError, RecordSwept, ConfirmSwept, Accumulate, PayoutError,
       RecordDone, RecordSettled, chain, seen
  <1>6. ASSUME NEW t \in Trx, Payout(t) \/ PayoutUnrecorded(t) PROVE CreditInv'
    BY <1>3, <1>6 DEF Payout, PayoutUnrecorded, PayoutTransfer
  <1> QED BY <1>2, <1>4, <1>5, <1>6 DEF Processing

(* A user is sent tokens.                                                  *)
LEMMA CreditArrive ==
    ASSUME DepositsInv, DepositsInv', CreditInv, StatusStep,
           NEW k \in UserKeys, NEW a \in Assets, NEW n \in 1..MaxDeposit, Arrive(k, a, n)
    PROVE  CreditInv'
  <1>1. TypeOK /\ TypeOK'
    BY DEF DepositsInv
  <1>2. UNCHANGED <<table, deposit, swept, spc, cursor, snapshot, fresh>>
    BY DEF Arrive, seen, streamer
  <1>3. \A j, b : RowsTotal(j, b)' = RowsTotal(j, b)
    BY <1>1, <1>2, SameRows
  <1>4. \A j : Untouched(j)' <=> Untouched(j)
    BY <1>2 DEF Untouched, User
  <1>5. \A j \in UserKeys, b \in Assets :
           /\ arrived[j][b] \in Nat /\ balance[j][b] \in Nat
           /\ arrived'[j][b] >= arrived[j][b] /\ arrived'[j][b] \in Nat
           /\ balance'[j][b] - arrived'[j][b] = balance[j][b] - arrived[j][b]
           /\ balance'[j][b] \in Nat
    <2>1. /\ arrived' = [arrived EXCEPT ![k][a] = @ + n]
          /\ balance' = [balance EXCEPT ![k][a] = @ + n] /\ n \in Nat
      BY DepositsAssumption DEF Arrive
    <2>2. /\ arrived \in [UserKeys -> [Assets -> Nat]]
          /\ balance \in [UserKeys -> [Assets -> Nat]]
      BY <1>1 DEF TypeOK
    <2> QED BY <2>1, <2>2
  <1>6. \A j \in UserKeys, b \in Assets : balance'[j][b] <= arrived'[j][b]
    BY <1>5 DEF CreditInv
  <1>7. ASSUME NEW j \in UserKeys PROVE Covered(j)'
    <2>1. SUFFICES ASSUME Untouched(j), NEW b \in Assets
                   PROVE  RowsTotal(j, b) <= arrived'[j][b]
      BY <1>3, <1>4 DEF Covered
    <2>2. RowsTotal(j, b) <= arrived[j][b] /\ RowsTotal(j, b) \in Nat
      BY <1>1, <2>1, TotalsType DEF CreditInv, Covered
    <2> QED BY <1>5, <2>2
  <1>8. ASSUME spc # "poll", NEW b \in Assets PROVE snapshot[b] <= arrived'[cursor][b]
    <2>1. cursor \in UserKeys /\ snapshot[b] \in Nat /\ snapshot[b] <= arrived[cursor][b]
      BY <1>8 DEF DepositsInv, LoopInv, TypeOK, CreditInv
    <2> QED BY <1>5, <2>1
  <1>9. ASSUME spc = "create", Untouched(cursor)
        PROVE  RowsTotal(cursor, fresh.asset) + fresh.amount <= arrived'[cursor][fresh.asset]
    <2>1. cursor \in UserKeys /\ fresh.asset \in Assets /\ fresh.amount \in Nat
      BY <1>9 DEF DepositsInv, LoopInv, Deposit
    <2>2. RowsTotal(cursor, fresh.asset) \in Nat
      BY <1>1, <2>1, TotalsType
    <2>3. RowsTotal(cursor, fresh.asset) + fresh.amount <= arrived[cursor][fresh.asset]
      BY <1>9 DEF CreditInv
    <2> QED BY <1>5, <2>1, <2>2, <2>3
  <1>10. spc = "create" => fresh.user = cursor
    BY DEF CreditInv
  <1>11. RowsTotal(cursor, fresh.asset)' = RowsTotal(cursor, fresh.asset)
    BY <1>2 DEF RowsTotal, RowsOf, Amounts, Exists, User, Asset
  <1>12. Untouched(cursor)' <=> Untouched(cursor)
    BY <1>2 DEF Untouched, User
  <1> QED BY <1>2, <1>6, <1>7, <1>8, <1>9, <1>10, <1>11, <1>12, StatusesKept DEF CreditInv

(* The streamer polls and checks: no row is made yet.                      *)
LEMMA CreditPolling ==
    ASSUME DepositsInv, DepositsInv', CreditInv, StatusStep, Polling,
           UNCHANGED <<table, deposit, chain, loop, arrived, seen>>
    PROVE  CreditInv'
  <1>1. TypeOK /\ TypeOK' /\ LoopInv
    BY DEF DepositsInv
  <1>2. UNCHANGED <<table, deposit, swept, balance, arrived>>
    BY DEF chain, seen
  <1>3. \A k, a : RowsTotal(k, a)' = RowsTotal(k, a)
    BY <1>1, <1>2, SameRows
  <1>4. \A k : Untouched(k)' <=> Untouched(k)
    BY <1>2 DEF Untouched, User
  <1>5. /\ \A k \in UserKeys, a \in Assets : balance'[k][a] <= arrived'[k][a]
        /\ \A k \in UserKeys : Covered(k)'
    BY <1>2, <1>3, <1>4 DEF CreditInv, Covered
  <1>6. CASE spc' = "poll"
    BY <1>5, <1>6, StatusesKept DEF CreditInv
  <1>7. CASE Poll
    <2>1. spc' = "callback" /\ cursor' \in UserKeys /\ snapshot' = balance[cursor']
      BY <1>7 DEF Poll
    <2>2. \A a \in Assets : snapshot'[a] <= arrived'[cursor'][a]
      BY <1>2, <2>1 DEF CreditInv
    <2> QED BY <1>5, <2>1, <2>2, StatusesKept DEF CreditInv
  <1>8. ASSUME NEW a \in Assets, CallbackDrop(a) PROVE CreditInv'
    <2>1. UNCHANGED <<spc, cursor, snapshot>> /\ spc = "callback"
      BY <1>8 DEF CallbackDrop
    <2> QED BY <1>2, <1>5, <2>1, StatusesKept DEF CreditInv
  <1>9. ASSUME NEW a \in Assets, CallbackCheck(a) PROVE CreditInv'
    <2>1. PICK n \in 1..snapshot[a] :
             /\ InitTotal(cursor) + n = snapshot[a]
             /\ fresh' = [user |-> cursor, asset |-> a, amount |-> n]
      BY <1>9 DEF CallbackCheck
    <2>2. /\ spc = "callback" /\ spc' = "create" /\ UNCHANGED <<cursor, snapshot>>
          /\ cursor \in UserKeys /\ snapshot[a] \in Nat
      BY <1>1, <1>9 DEF CallbackCheck, LoopInv, TypeOK
    <2>3. \A b \in Assets : snapshot[b] <= arrived[cursor][b]
      BY <2>2 DEF CreditInv
    <2>4. ASSUME Untouched(cursor)
          PROVE  RowsTotal(cursor, a) + n <= arrived[cursor][a]
      <3>1. RowsTotal(cursor, a) <= InitTotal(cursor) /\ InitTotal(cursor) \in Nat
        BY <2>2, <2>4, InitiatedRows
      <3>2. RowsTotal(cursor, a) \in Nat
        BY <1>1, <2>2, TotalsType
      <3>3. arrived[cursor][a] \in Nat /\ n \in Nat
        BY <1>1, <2>1, <2>2 DEF TypeOK
      <3> QED BY <2>1, <2>2, <2>3, <3>1, <3>2, <3>3
    <2>5. /\ fresh'.user = cursor' /\ fresh'.asset = a /\ fresh'.amount = n
      BY <2>1, <2>2
    <2>6. RowsTotal(cursor, fresh.asset)' = RowsTotal(cursor, a)
      BY <1>2, <2>2, <2>5 DEF RowsTotal, RowsOf, Amounts, Exists, User, Asset
    <2>7. Untouched(cursor)' <=> Untouched(cursor)
      BY <1>2, <2>2 DEF Untouched, User
    <2>8. Untouched(cursor)' => RowsTotal(cursor, fresh.asset)' + fresh'.amount
                                   <= arrived'[cursor'][fresh'.asset]
      BY <1>2, <2>2, <2>4, <2>5, <2>6, <2>7
    <2>9. \A b \in Assets : snapshot'[b] <= arrived'[cursor'][b]
      BY <1>2, <2>2, <2>3
    <2> QED BY <1>5, <2>5, <2>8, <2>9, StatusesKept DEF CreditInv
  <1>10. CASE PollRestart \/ PollSkip \/ PollEnd
    BY <1>6, <1>10 DEF PollRestart, PollSkip, PollEnd
  <1> QED BY <1>7, <1>8, <1>9, <1>10 DEF Polling

(* The row is made for the user the callback was called for.               *)
LEMMA CreditCreate ==
    ASSUME DepositsInv, DepositsInv', CreditInv, StatusStep,
           NEW t \in Trx, CallbackCreate(t), UNCHANGED <<chain, loop, arrived, seen>>
    PROVE  CreditInv'
  <1>1. TypeOK /\ TypeOK' /\ LoopInv
    BY DEF DepositsInv
  <1>2. UNCHANGED <<swept, balance, arrived, cursor, snapshot>> /\ spc' = "callback"
        /\ spc = "create" /\ ~Exists(t)
    BY DEF chain, seen, CallbackCreate
  <1>3. /\ \A k \in UserKeys, a \in Assets : balance'[k][a] <= arrived'[k][a]
        /\ \A a \in Assets : snapshot'[a] <= arrived'[cursor'][a]
    BY <1>2 DEF CreditInv
  <1>4. CASE UNCHANGED <<table, deposit>>
    <2>1. \A k, a : RowsTotal(k, a)' = RowsTotal(k, a)
      BY <1>1, <1>4, SameRows
    <2>2. \A k : Untouched(k)' <=> Untouched(k)
      BY <1>2, <1>4 DEF Untouched, User
    <2>3. \A k \in UserKeys : Covered(k)'
      BY <1>2, <2>1, <2>2 DEF CreditInv, Covered
    <2> QED BY <1>2, <1>3, <2>3, StatusesKept DEF CreditInv
  <1>5. CASE /\ table' = CreateTransaction(table, t)
             /\ deposit' = [deposit EXCEPT ![t] = fresh]
    <2>1. /\ fresh \in Deposit /\ cursor \in UserKeys /\ fresh.user = cursor
          /\ fresh.asset \in Assets /\ fresh.amount \in Nat
      BY <1>1, <1>2 DEF LoopInv, CreditInv, Deposit
    <2>2. /\ \A u \in Trx : u # t => table'[u] = table[u] /\ deposit'[u] = deposit[u]
          /\ table'[t].status = "init" /\ deposit'[t] = fresh
      BY <1>1, <1>5 DEF TypeOK, CreateTransaction
    <2>3. /\ \A u \in Trx : u # t => Amounts'[u] = Amounts[u]
          /\ Amounts'[t] = fresh.amount /\ Amounts' \in [Trx -> Nat]
          /\ Amounts \in [Trx -> Nat]
      <3>1. Amounts' \in [Trx -> Nat] /\ Amounts \in [Trx -> Nat]
        BY <1>1 DEF TypeOK, Amounts, Deposit
      <3> QED BY <2>2, <3>1 DEF Amounts, Exists
    <2>4. deposit[t] = NoDeposit
      BY <1>1, <1>2 DEF TypeOK
    <2>5. ASSUME NEW k \in UserKeys, Untouched(k)' PROVE Untouched(k)
      <3>1. 0 \notin UserKeys
        BY DepositsAssumption DEF Keys
      <3>2. User(t) # k
        BY <2>4, <3>1 DEF User, NoDeposit
      <3> QED BY <1>2, <2>2, <2>5, <3>2 DEF Untouched, User
    <2>6. PICK j \in UserKeys, b \in Assets : j = cursor /\ b = fresh.asset
      BY <2>1
    <2>7. ASSUME NEW k \in UserKeys, NEW a \in Assets, ~(k = j /\ a = b)
          PROVE  RowsTotal(k, a)' = RowsTotal(k, a)
      <3>1. RowsOf(k, a)' = RowsOf(k, a) /\ t \notin RowsOf(k, a)
        BY <1>2, <2>1, <2>2, <2>6, <2>7 DEF RowsOf, User, Asset, Exists
      <3>2. RowsOf(k, a) \in SUBSET Trx /\ IsFiniteSet(RowsOf(k, a))
        BY TrxFinite DEF RowsOf
      <3>3. \A u \in RowsOf(k, a) : Amounts[u] \in Int /\ Amounts[u] = Amounts'[u]
        BY <2>3, <3>1, <3>2
      <3>4. SumFunctionOnSet(Amounts, RowsOf(k, a)) = SumFunctionOnSet(Amounts', RowsOf(k, a))
        BY <3>2, <3>3, SumSame
      <3> QED BY <3>1, <3>4 DEF RowsTotal
    <2>8. RowsTotal(j, b)' = RowsTotal(j, b) + fresh.amount /\ RowsTotal(j, b) \in Nat
      <3> DEFINE S == RowsOf(j, b)
      <3>1. RowsOf(j, b)' = S \cup {t} /\ t \notin S
        BY <1>2, <2>1, <2>2, <2>6 DEF RowsOf, User, Asset, Exists
      <3>2. S \in SUBSET Trx /\ IsFiniteSet(S)
        BY TrxFinite DEF RowsOf
      <3>3. \A u \in S : Amounts[u] \in Int /\ Amounts[u] = Amounts'[u]
        BY <2>3, <3>1, <3>2
      <3>4. SumFunctionOnSet(Amounts, S) = SumFunctionOnSet(Amounts', S)
        BY <3>2, <3>3, SumSame
      <3>5. \A u \in S \cup {t} : Amounts'[u] \in Int
        BY <2>3, <3>2
      <3>6. SumFunctionOnSet(Amounts', S \cup {t}) = fresh.amount + SumFunctionOnSet(Amounts', S)
        BY <2>3, <3>1, <3>2, <3>5, SumAdd
      <3>7. RowsTotal(j, b) = SumFunctionOnSet(Amounts', S) /\ RowsTotal(j, b) \in Nat
        BY <1>1, <3>4, TotalsType DEF RowsTotal
      <3>8. RowsTotal(j, b)' = SumFunctionOnSet(Amounts', S \cup {t})
        BY <3>1 DEF RowsTotal
      <3> QED BY <2>1, <3>6, <3>7, <3>8
    <2>9. ASSUME NEW k \in UserKeys PROVE Covered(k)'
      <3>1. SUFFICES ASSUME Untouched(k)', NEW a \in Assets
                     PROVE  RowsTotal(k, a)' <= arrived'[k][a]
        BY DEF Covered
      <3>2. Untouched(k)
        BY <2>5, <3>1
      <3>3. CASE k = j /\ a = b
        <4>1. RowsTotal(j, b) + fresh.amount <= arrived[j][b]
          BY <1>2, <2>6, <3>2, <3>3 DEF CreditInv
        <4> QED BY <1>2, <2>8, <3>3, <4>1
      <3>4. CASE ~(k = j /\ a = b)
        BY <1>2, <2>7, <3>2, <3>4 DEF CreditInv, Covered
      <3> QED BY <3>3, <3>4
    <2> QED BY <1>2, <1>3, <2>9, StatusesKept DEF CreditInv
  <1> QED BY <1>4, <1>5 DEF CallbackCreate

LEMMA CreditInit ==
    ASSUME Init
    PROVE  CreditInv
  <1>1. \A k, a : RowsTotal(k, a) = 0
    <2>1. \A k, a : RowsOf(k, a) = {}
      BY DEF Init, RowsOf, Exists, NoRow
    <2> QED BY <2>1, SumEmpty DEF RowsTotal
  <1>2. \A k \in UserKeys, a \in Assets : arrived[k][a] = 0 /\ balance[k][a] = 0
    BY DEF Init, Empty
  <1>3. /\ \A t \in Trx : table[t].status = "absent"
        /\ spc = "poll"
    BY DEF Init, NoRow
  <1> QED BY <1>1, <1>2, <1>3 DEF CreditInv, Covered

LEMMA CreditNext ==
    ASSUME DepositsInv, DepositsInv', CreditInv, [Next]_vars
    PROVE  CreditInv'
  <1>1. StatusStep
    BY InvNext
  <1>2. CASE Processing
    BY <1>1, <1>2, CreditProcessing
  <1>3. CASE Streamer
    <2>1. CASE Polling /\ UNCHANGED <<table, deposit>>
      BY <1>1, <1>3, <2>1, CreditPolling DEF Streamer
    <2>2. ASSUME NEW t \in Trx, CallbackCreate(t) PROVE CreditInv'
      BY <1>1, <1>3, <2>2, CreditCreate DEF Streamer
    <2> QED BY <1>3, <2>1, <2>2 DEF Streamer, Polling
  <1>4. ASSUME NEW k \in UserKeys, NEW a \in Assets, NEW n \in 1..MaxDeposit,
               Arrive(k, a, n)
        PROVE  CreditInv'
    BY <1>1, <1>4, CreditArrive
  <1>5. CASE Crash \/ UNCHANGED vars
    <2>1. /\ UNCHANGED <<deposit, arrived, swept, balance>>
          /\ UNCHANGED streamer \/ spc' = "poll"
      BY <1>5 DEF Crash, vars, chain, streamer
    <2>2. /\ \A t \in Trx : swept'[t] >= swept[t]
          /\ \A k \in UserKeys, a \in Assets : balance'[k][a] <= balance[k][a]
      BY <2>1 DEF DepositsInv, TypeOK
    <2> QED BY <1>1, <2>1, <2>2, CreditFrame DEF DepositsInv
  <1> QED BY <1>2, <1>3, <1>4, <1>5 DEF Next

(* The streamer never credits the same tokens twice before they are swept, *)
(* across polls, errors and restarts, for every number of users, assets    *)
(* and deposits.                                                           *)
THEOREM CreditedCorrect == Spec => []UnsweptCreditedOnce
  <1>1. Init => CreditInv
    BY CreditInit
  <1>2. DepositsInv /\ DepositsInv' /\ CreditInv /\ [Next]_vars => CreditInv'
    BY CreditNext
  <1>3. CreditInv => UnsweptCreditedOnce
    BY DEF CreditInv, Covered, Untouched, UnsweptCreditedOnce
  <1> QED BY <1>1, <1>2, <1>3, InvHolds, PTL DEF Spec

---------------------------------------------------------------------------
(* The refinement of DepositContract                                       *)

Money == <<[t \in Trx |-> table[t].status], swept, lostSweep, grouped, payouts, lostPay>>

(* The statement of one row is a step of the contract from status to       *)
(* status.                                                                 *)
LEMMA RowBecomes ==
    ASSUME TypeOK, NEW t \in Trx, NEW to, table'[t].status = to,
           \A u \in Trx : u # t => table'[u] = table[u], UNCHANGED seen
    PROVE  Contract!Become(t, table[t].status, to)
  BY DEF Contract!Become, seen

LEMMA RowsStay ==
    ASSUME \A u \in Trx : table'[u].status = table[u].status, UNCHANGED seen
    PROVE  UNCHANGED Money
  BY DEF Money, seen

LEMMA CountIsRaise ==
    ASSUME NEW c \in [Trx -> Nat], NEW S
    PROVE  Count(c, S) = Contract!Raise(c, S)
  BY DEF Count, Contract!Raise

LEMMA OneMore ==
    ASSUME NEW c \in [Trx -> Nat], NEW t \in Trx
    PROVE  [c EXCEPT ![t] = @ + 1] = Contract!Raise(c, {t})
  BY DEF Contract!Raise

LEMMA NoneMore ==
    ASSUME NEW c \in [Trx -> Nat]
    PROVE  Count(c, {}) = c
  BY DEF Count

(* The streamer makes a row.                                               *)
LEMMA CreateRefines ==
    ASSUME DepositsInv, NEW t \in Trx, CallbackCreate(t), UNCHANGED seen, ~UNCHANGED table
    PROVE  Contract!Create(t)
  <1>1. TypeOK /\ table[t].status = "absent"
    BY DEF DepositsInv, CallbackCreate, Exists
  <1>2. table' = CreateTransaction(table, t)
    BY DEF CallbackCreate
  <1>3. table'[t].status = "init" /\ \A u \in Trx : u # t => table'[u] = table[u]
    BY <1>1, <1>2 DEF CreateTransaction, TypeOK
  <1> QED BY <1>1, <1>3, RowBecomes DEF Contract!Create

LEMMA SweepRefines ==
    ASSUME DepositsInv, NEW t \in Trx, Sweep(t) \/ SweepLate(t)
    PROVE  Contract!Sweep(t)
  <1>1. /\ table[t].status = "init" /\ swept \in [Trx -> Nat] /\ lostSweep \in [Trx -> Nat]
        /\ table[t].hash2 = "" /\ pc = "initiated"
    BY DEF DepositsInv, TypeOK, LoopInv, Sweep, SweepLate, Unswept, IsNext
  <1>2. swept[t] <= lostSweep[t]
    <2>1. swept[t] = lostSweep[t]
      BY <1>1 DEF DepositsInv, SweepInv, SweepAt, Marked, JustSwept
    <2>2. swept[t] \in Nat
      BY <1>1
    <2> QED BY <2>1, <2>2
  <1>3. /\ table' = table /\ grouped' = grouped /\ payouts' = payouts /\ lostPay' = lostPay
        /\ swept' = [swept EXCEPT ![t] = @ + 1]
        /\ lostSweep' = lostSweep \/ lostSweep' = [lostSweep EXCEPT ![t] = @ + 1]
    BY DEF Sweep, SweepLate, SweepTransfer
  <1>4. /\ swept' = Contract!Raise(swept, {t})
        /\ lostSweep' \in {lostSweep, Contract!Raise(lostSweep, {t})}
    BY <1>1, <1>3, OneMore
  <1> QED BY <1>1, <1>2, <1>3, <1>4 DEF Contract!Sweep

LEMMA RecordSweptRefines ==
    ASSUME DepositsInv, NEW t \in Trx, RecordSwept(t)
    PROVE  Contract!LoseSweep(t) \/ UNCHANGED Money
  <1>1. /\ TypeOK /\ table[t].status = "init" /\ table \in [Trx -> Rows]
        /\ swept \in [Trx -> Nat] /\ lostSweep \in [Trx -> Nat]
        /\ swept[t] = lostSweep[t] + 1
    BY DEF DepositsInv, TypeOK, LoopInv, RecordSwept, IsNext, SweepInv, SweepAt, JustSwept
  <1>2. CASE table' = PutInitiatedPendingTransaction(table, t, "tx") /\ lostSweep' = lostSweep
    <2>1. \A u \in Trx : table'[u].status = table[u].status
      <3>1. table'[t].status = "init" /\ \A u \in Trx : u # t => table'[u] = table[u]
        <4>1. "tx" \in Hashes
          BY DEF Hashes
        <4> QED BY <1>1, <1>2, <4>1, InitiatedFacts
      <3> QED BY <1>1, <3>1
    <2>2. UNCHANGED seen
      BY <1>2 DEF RecordSwept, seen
    <2> QED BY <2>1, <2>2, RowsStay
  <1>3. CASE lostSweep' = [lostSweep EXCEPT ![t] = @ + 1] /\ table' = table
    <2>1. lostSweep' = Contract!Raise(lostSweep, {t})
      BY <1>1, <1>3, OneMore
    <2>2. lostSweep[t] < swept[t]
      <3>1. lostSweep[t] \in Nat /\ swept[t] = lostSweep[t] + 1
        BY <1>1
      <3> QED BY <3>1
    <2> QED BY <1>1, <1>3, <2>1, <2>2 DEF RecordSwept, Contract!LoseSweep
  <1> QED BY <1>2, <1>3 DEF RecordSwept

(* Only a row with the hash of its sweep is credited.                      *)
LEMMA ConfirmSweptRefines ==
    ASSUME DepositsInv, NEW t \in Trx, ConfirmSwept(t)
    PROVE  Contract!Credit(t) \/ UNCHANGED Money
  <1>1. /\ TypeOK /\ table[t].status = "init" /\ table \in [Trx -> Rows] /\ table[t] \in Rows
        /\ lostSweep[t] \in Nat /\ swept[t] = lostSweep[t] + 1 /\ UNCHANGED seen
    BY DEF DepositsInv, TypeOK, LoopInv, ConfirmSwept, IsNext, SweepInv, SweepAt, Marked
  <1>2. CASE table' = PutProcessedTransaction(table, t, table[t].hash2)
    <2>1. table[t].hash2 \in Hashes
      BY <1>1 DEF Rows
    <2>2. table'[t].status = "processed" /\ \A u \in Trx : u # t => table'[u] = table[u]
      BY <1>1, <1>2, <2>1, ProcessedFacts
    <2>3. Contract!Become(t, "init", "processed")
      BY <1>1, <2>2, RowBecomes
    <2>4. lostSweep[t] < swept[t]
      BY <1>1
    <2> QED BY <2>3, <2>4 DEF Contract!Credit
  <1>3. CASE table' = table
    BY <1>1, <1>3, RowsStay
  <1> QED BY <1>2, <1>3 DEF ConfirmSwept

(* More than one row are two rows.                                         *)
LEMMA TwoOfMany ==
    ASSUME NEW S, IsFiniteSet(S), Cardinality(S) > 1
    PROVE  \E t, u \in S : t # u
  <1>1. SUFFICES ASSUME \A t, u \in S : t = u PROVE FALSE
    OBVIOUS
  <1>2. S # {}
    BY FS_EmptySet
  <1>3. PICK t \in S : TRUE
    BY <1>2
  <1>4. S = {t}
    BY <1>1, <1>3
  <1>5. Cardinality(S) = 1
    BY <1>4, FS_Singleton
  <1> QED BY <1>5

LEMMA ReadProcessedRefines ==
    ASSUME DepositsInv, ReadProcessed
    PROVE  (\E S \in SUBSET Trx : Contract!Group(S)) \/ UNCHANGED Money
  <1>1. TypeOK /\ DOMAIN table = Trx
    BY DEF DepositsInv, TypeOK
  <1>2. /\ table' = table /\ swept' = swept /\ lostSweep' = lostSweep
        /\ payouts' = payouts /\ lostPay' = lostPay
        /\ grouped' = IF Cardinality(todo') > 1 THEN grouped \cup todo' ELSE grouped
    BY DEF ReadProcessed
  <1>3. /\ todo' \in SUBSET Trx /\ \A t \in todo' : table[t].status = "processed"
    BY <1>1 DEF ReadProcessed, Batch, WithStatus
  <1>4. CASE Cardinality(todo') > 1
    <2>1. \E t, u \in todo' : t # u
      BY <1>3, <1>4, TrxFinite, TwoOfMany
    <2>2. Contract!Group(todo')
      BY <1>2, <1>3, <1>4, <2>1 DEF Contract!Group
    <2> QED BY <1>3, <2>2
  <1>5. CASE ~(Cardinality(todo') > 1)
    BY <1>2, <1>5, RowsStay DEF seen
  <1> QED BY <1>4, <1>5

(* The loop takes a settled row back only if it shared the batch.          *)
LEMMA AccumulateRefines ==
    ASSUME DepositsInv, NEW t \in Trx, Accumulate(t)
    PROVE  Contract!Reopen(t) \/ UNCHANGED Money
  <1>1. /\ TypeOK /\ table[t].status \in {"processed", "settle"} /\ table \in [Trx -> Rows]
        /\ UNCHANGED seen /\ pc = "processed" /\ t \in todo
    BY DEF DepositsInv, TypeOK, LoopInv, Settling, Accumulate, IsNext
  <1>2. CASE table' = PutProcessedTransaction(table, t, "tx")
    <2>1. table'[t].status = "processed" /\ \A u \in Trx : u # t => table'[u] = table[u]
      BY <1>1, <1>2, ProcessedFacts DEF Hashes
    <2>2. CASE table[t].status = "processed"
      BY <1>1, <2>1, <2>2, RowsStay
    <2>3. CASE table[t].status = "settle"
      <3>1. t \in grouped
        BY <1>1, <2>3 DEF DepositsInv, PayInv, PayAt
      <3>2. Contract!Become(t, "settle", "processed")
        BY <1>1, <2>1, <2>3, RowBecomes
      <3> QED BY <3>1, <3>2 DEF Contract!Reopen
    <2> QED BY <1>1, <2>2, <2>3
  <1>3. CASE table' = table
    BY <1>1, <1>3, RowsStay
  <1> QED BY <1>2, <1>3 DEF Accumulate

(* One transfer pays the rows of the batch up to the one the loop is at.   *)
LEMMA PayoutRefines ==
    ASSUME DepositsInv, NEW t \in Trx, Payout(t) \/ PayoutUnrecorded(t)
    PROVE  \E S \in SUBSET Trx : Contract!Pay(S)
  <1>1. /\ TypeOK /\ pc = "payout" /\ t \in todo /\ t \in batch /\ batch \subseteq Trx
        /\ \A u \in batch : table[u].status \in {"processed", "settle"}
        /\ payouts \in [Trx -> Nat] /\ lostPay \in [Trx -> Nat]
    BY DEF DepositsInv, TypeOK, LoopInv, Settling, Payout, PayoutUnrecorded, IsNext
  <1> DEFINE S == Included(t)
  <1>2. S \in SUBSET Trx /\ S \subseteq batch /\ t \in S
    <2>1. t \in Int
      BY DEF Trx
    <2>2. S \subseteq batch
      BY DEF Included
    <2>3. t \in S
      BY <1>1, <2>1 DEF Included
    <2> QED BY <1>1, <2>2, <2>3
  <1>3. ASSUME NEW u \in S \ grouped
        PROVE  S = {u} /\ table[u].status = "processed" /\ payouts[u] <= lostPay[u]
    <2>1. batch = {u} /\ u = t
      BY <1>1, <1>2, <1>3 DEF DepositsInv, PayInv, PayAt
    <2>2. table[u].status = "processed"
      BY <1>1, <1>3, <2>1 DEF DepositsInv, PayInv, PayAt
    <2>3. payouts[u] = lostPay[u]
      BY <1>1, <1>2, <1>3, <2>2 DEF DepositsInv, PayInv, PayAt, Due
    <2> QED BY <1>1, <1>2, <2>1, <2>2, <2>3
  <1>4. /\ table' = table /\ swept' = swept /\ lostSweep' = lostSweep /\ grouped' = grouped
        /\ payouts' = Count(payouts, S)
        /\ lostPay' = lostPay \/ lostPay' = Count(lostPay, S)
    BY DEF Payout, PayoutUnrecorded, PayoutTransfer
  <1>5. /\ payouts' = Contract!Raise(payouts, S)
        /\ lostPay' \in {lostPay, Contract!Raise(lostPay, S)}
    BY <1>1, <1>4, CountIsRaise
  <1>6. \A u \in S : Contract!Open(u)
    BY <1>1, <1>2 DEF Contract!Open
  <1> HIDE DEF S
  <1>7. Contract!Pay(S)
    BY <1>2, <1>3, <1>4, <1>5, <1>6 DEF Contract!Pay
  <1> QED BY <1>2, <1>7

(* A payout is lost for rows that were not marked yet.                     *)
LEMMA LosesPay ==
    ASSUME DepositsInv, pc = "recordSettled", NEW S \in SUBSET unsettled,
           lostPay' = Count(lostPay, S), table' = table, swept' = swept,
           lostSweep' = lostSweep, grouped' = grouped, payouts' = payouts
    PROVE  S \in SUBSET Trx /\ Contract!LosePay(S)
  <1>1. /\ TypeOK /\ S \subseteq batch /\ S \in SUBSET Trx
        /\ \A u \in batch : table[u].status \in {"processed", "settle"}
        /\ payouts \in [Trx -> Nat] /\ lostPay \in [Trx -> Nat]
    BY DEF DepositsInv, TypeOK, LoopInv, Settling
  <1>2. ASSUME NEW u \in S \ grouped
        PROVE  table[u].status = "processed" /\ lostPay[u] < payouts[u]
    <2>1. table[u].status = "processed" /\ payouts[u] = lostPay[u] + 1
      BY <1>1, <1>2 DEF DepositsInv, PayInv, PayAt, Due
    <2> QED BY <1>1, <2>1
  <1>3. lostPay' = Contract!Raise(lostPay, S)
    BY <1>1, CountIsRaise
  <1>4. \A u \in S : Contract!Open(u)
    BY <1>1 DEF Contract!Open
  <1>5. \A u \in S \ grouped : [v \in Trx |-> table[v].status][u] = "processed"
    BY <1>1, <1>2
  <1> QED BY <1>1, <1>2, <1>3, <1>4, <1>5 DEF Contract!LosePay

LEMMA RecordSettledRefines ==
    ASSUME DepositsInv, NEW t \in Trx, NEW u \in Trx, RecordSettled(t, u)
    PROVE  \/ Contract!Settle(u) \/ UNCHANGED Money
           \/ \E S \in SUBSET Trx : Contract!LosePay(S)
  <1>1. /\ TypeOK /\ pc = "recordSettled" /\ u \in unsettled /\ u \in batch
        /\ table[u].status \in {"processed", "settle"} /\ table \in [Trx -> Rows]
        /\ lostPay \in [Trx -> Nat]
        /\ swept' = swept /\ lostSweep' = lostSweep /\ payouts' = payouts /\ grouped' = grouped
    BY DEF DepositsInv, TypeOK, LoopInv, Settling, RecordSettled, IsNextUnsettled
  <1>2. CASE table' = PutSettledTransaction(table, u, "tx") /\ lostPay' = lostPay
    <2>1. table'[u].status = "settle" /\ \A v \in Trx : v # u => table'[v] = table[v]
      BY <1>1, <1>2, SettledFacts DEF Hashes
    <2>2. UNCHANGED seen
      BY <1>1, <1>2 DEF seen
    <2>3. CASE table[u].status = "settle"
      BY <2>1, <2>2, <2>3, RowsStay
    <2>4. CASE table[u].status = "processed"
      <3>1. u \notin grouped => payouts[u] = lostPay[u] + 1
        BY <1>1 DEF DepositsInv, PayInv, PayAt, Due
      <3>2. u \notin grouped => lostPay[u] < payouts[u]
        BY <1>1, <3>1
      <3>3. Contract!Become(u, "processed", "settle")
        BY <1>1, <2>1, <2>2, <2>4, RowBecomes
      <3> QED BY <3>2, <3>3 DEF Contract!Settle
    <2> QED BY <1>1, <2>3, <2>4
  <1>3. CASE lostPay' = Count(lostPay, {u} \cap Included(t)) /\ table' = table
    <2>1. {u} \cap Included(t) \in SUBSET unsettled
      BY <1>1
    <2> QED BY <1>1, <1>3, <2>1, LosesPay
  <1> QED BY <1>2, <1>3 DEF RecordSettled

LEMMA RecordDoneRefines ==
    ASSUME DepositsInv, NEW t \in Trx, RecordDone(t)
    PROVE  Contract!Finish(t) \/ UNCHANGED Money
  <1>1. /\ TypeOK /\ table[t].status = "settle" /\ table \in [Trx -> Rows]
        /\ UNCHANGED seen
    BY DEF DepositsInv, TypeOK, LoopInv, RecordDone, IsNext
  <1>2. CASE table' = PutDoneTransaction(table, t, "")
    <2>1. table'[t].status = "done" /\ \A u \in Trx : u # t => table'[u] = table[u]
      BY <1>1, <1>2, DoneFacts DEF Hashes
    <2> QED BY <1>1, <2>1, RowBecomes DEF Contract!Finish
  <1>3. CASE table' = table
    BY <1>1, <1>3, RowsStay
  <1> QED BY <1>2, <1>3 DEF RecordDone

(* A crash loses the sweep or the payouts that were about to be recorded.  *)
LEMMA CrashRefines ==
    ASSUME DepositsInv, Crash
    PROVE  \/ \E t \in Trx : Contract!LoseSweep(t)
           \/ \E S \in SUBSET Trx : Contract!LosePay(S)
           \/ UNCHANGED Money
  <1>1. /\ TypeOK /\ swept \in [Trx -> Nat] /\ lostSweep \in [Trx -> Nat]
        /\ payouts \in [Trx -> Nat] /\ lostPay \in [Trx -> Nat]
        /\ table' = table /\ swept' = swept /\ payouts' = payouts /\ grouped' = grouped
        /\ lostSweep' = Count(lostSweep, Sweeping) /\ lostPay' = Count(lostPay, Paying)
    BY DEF DepositsInv, TypeOK, Crash
  <1>2. CASE \E t \in Trx : JustSwept(t)
    <2>1. PICK t \in Trx : JustSwept(t)
      BY <1>2
    <2>2. Sweeping = {t} /\ Paying = {}
      BY <1>1, <2>1, NextUnique DEF Sweeping, Paying, JustSwept
    <2>3. lostSweep' = Contract!Raise(lostSweep, {t}) /\ lostPay' = lostPay
      BY <1>1, <2>2, CountIsRaise, NoneMore
    <2>4. table[t].status = "init" /\ swept[t] = lostSweep[t] + 1
      BY <2>1 DEF DepositsInv, LoopInv, SweepInv, SweepAt, JustSwept, IsNext
    <2>5. lostSweep[t] < swept[t]
      BY <1>1, <2>4
    <2>6. Contract!LoseSweep(t)
      BY <1>1, <2>3, <2>4, <2>5 DEF Contract!LoseSweep
    <2> QED BY <2>6
  <1>3. CASE ~ \E t \in Trx : JustSwept(t)
    <2>1. Sweeping = {} /\ lostSweep' = lostSweep
      <3>1. Sweeping = {}
        BY <1>3 DEF Sweeping, JustSwept
      <3> QED BY <1>1, <3>1, NoneMore
    <2>2. CASE pc = "recordSettled"
      <3>1. Paying \in SUBSET unsettled
        BY <2>2 DEF Paying
      <3> QED BY <1>1, <2>1, <2>2, <3>1, LosesPay
    <2>3. CASE pc # "recordSettled"
      <3>1. Paying = {}
        BY <2>3 DEF Paying
      <3>2. lostPay' = lostPay
        BY <1>1, <3>1, NoneMore
      <3> QED BY <1>1, <2>1, <3>2 DEF Money
    <2> QED BY <2>2, <2>3
  <1> QED BY <1>2, <1>3

LEMMA ContractInit == Init => Contract!Init
  <1>1. ASSUME Init
        PROVE  [t \in Trx |-> table[t].status] = [t \in Trx |-> "absent"]
    <2>1. \A t \in Trx : table[t] = NoRow
      BY <1>1 DEF Init
    <2>2. NoRow.status = "absent"
      BY DEF NoRow
    <2>3. \A t \in Trx : table[t].status = "absent"
      BY <2>1, <2>2
    <2> QED BY <2>3
  <1> QED BY <1>1 DEF Init, Contract!Init, Zero, Contract!Zero

LEMMA ContractStep ==
    ASSUME DepositsInv, [Next]_vars
    PROVE  [Contract!Next]_Contract!contractVars
  <1>1. SUFFICES Contract!Next \/ UNCHANGED Money
    BY DEF Contract!contractVars, Money
  <1>2. CASE UNCHANGED <<table, seen>>
    BY <1>2, RowsStay
  <1>3. ASSUME NEW t \in Trx, CallbackCreate(t), UNCHANGED seen, ~UNCHANGED table
        PROVE  Contract!Next
    BY <1>3, CreateRefines DEF Contract!Next
  <1>4. ASSUME NEW t \in Trx,
               \/ Sweep(t) \/ SweepLate(t) \/ RecordSwept(t) \/ ConfirmSwept(t)
               \/ Accumulate(t) \/ Payout(t) \/ PayoutUnrecorded(t) \/ RecordDone(t)
               \/ \E u \in Trx : RecordSettled(t, u)
        PROVE  Contract!Next \/ UNCHANGED Money
    BY <1>4, SweepRefines, RecordSweptRefines, ConfirmSweptRefines, AccumulateRefines,
       PayoutRefines, RecordDoneRefines, RecordSettledRefines DEF Contract!Next
  <1>5. CASE Crash
    BY <1>5, CrashRefines DEF Contract!Next
  <1>6. CASE ReadProcessed
    BY <1>6, ReadProcessedRefines DEF Contract!Next
  <1>7. CASE Processing
    <2>1. CASE \/ Tick \/ ReadSettled \/ EndMerchant
               \/ \E m \in Merchants : ReadInitiated(m)
               \/ \E t \in Trx : SweepError(t) \/ PayoutError(t)
      BY <1>2, <2>1 DEF Tick, ReadSettled, EndMerchant, ReadInitiated, SweepError, PayoutError
    <2> QED BY <1>4, <1>6, <1>7, <2>1 DEF Processing
  <1>8. CASE Streamer
    BY <1>2, <1>3, <1>8 DEF Streamer
  <1>9. CASE \/ UNCHANGED vars
             \/ \E k \in UserKeys, a \in Assets : \E n \in 1..MaxDeposit : Arrive(k, a, n)
    BY <1>2, <1>9 DEF vars, seen, Arrive
  <1> QED BY <1>5, <1>7, <1>8, <1>9 DEF Next

(* The two goroutines keep the promise of DepositContract about the rows   *)
(* and the money: sweeps, credits, payouts and settlements come in its     *)
(* order, and each is repeated only after its record was lost, but for the *)
(* payouts of deposits that shared a batch (processing-deposit.go:36-148). *)
THEOREM Refinement == Spec => ImplementsContract
  <1>1. Init => Contract!Init
    BY ContractInit
  <1>2. DepositsInv /\ [Next]_vars => [Contract!Next]_Contract!contractVars
    BY ContractStep
  <1> QED BY <1>1, <1>2, InvHolds, PTL DEF Spec, ImplementsContract, Contract!Spec

---------------------------------------------------------------------------
(* What the merchants are sent                                             *)

(* The loop carries the sum of the rows before the one it is at: nothing   *)
(* if the row is alone in its batch.                                       *)
AccInv == \A t \in todo :
    t \notin grouped => /\ pc = "processed" => acc = 0
                        /\ pc = "payout" => acc = Net(t)

NetInv ==
    /\ AccInv
    /\ \A t \in batch : Owner(t) = merchant
    /\ \A t \in grouped : Exists(t)
    /\ SettledNet

LEMMA NetType ==
    ASSUME NEW t \in Trx, deposit[t] \in Deposit
    PROVE  Net(t) \in Int /\ Net(t) \div 100 \in Int
  <1>1. deposit[t].amount \in Nat /\ Fix \in Nat /\ Percent \in Nat
    BY DepositsAssumption DEF Deposit
  <1>2. Percent * deposit[t].amount \in Int /\ 100 * (deposit[t].amount - Fix) \in Int
    BY <1>1
  <1> QED BY <1>2 DEF Net

LEMMA ShareType ==
    ASSUME NEW t \in Trx, deposit[t] \in Deposit, NEW p \in Int
    PROVE  p * (Net(t) \div 100) \in Int
  <1> DEFINE n == Net(t) \div 100
  <1>1. n \in Int
    BY NetType
  <1> HIDE DEF n
  <1>2. p * n \in Int
    BY <1>1
  <1> QED BY <1>2 DEF n

LEMMA SharesType ==
    ASSUME TypeOK
    PROVE  \A t \in Trx : Shares[t] \in Int
  <1>1. TAKE t \in Trx
  <1>2. CASE Exists(t)
    <2>1. deposit[t] \in Deposit /\ payouts[t] \in Int
      BY <1>2 DEF TypeOK
    <2> QED BY <1>2, <2>1, ShareType DEF Shares
  <1>3. CASE ~Exists(t)
    BY <1>3 DEF Shares
  <1> QED BY <1>2, <1>3

(* Steps that pay nobody leave what the merchants were sent and its        *)
(* account as they are.                                                    *)
LEMMA NetKept ==
    ASSUME NetInv, UNCHANGED <<deposit, settled, payouts>>, grouped \subseteq grouped',
           \A t \in Trx : Exists(t)' <=> Exists(t),
           AccInv', \A t \in batch' : Owner(t)' = merchant', \A t \in grouped' : Exists(t)'
    PROVE  NetInv'
  <1>1. Shares' = Shares
    BY DEF Shares, Net
  <1>2. \A m, a : OwnedRows(m, a)' = OwnedRows(m, a)
    BY DEF OwnedRows, Owner, User, Asset
  <1>3. \A m : Alone(m)' => Alone(m)
    BY DEF Alone, Owner, User
  <1>4. SettledNet'
    BY <1>1, <1>2, <1>3 DEF NetInv, SettledNet
  <1> QED BY <1>4 DEF NetInv

(* One transfer raises the share of a deposit that is alone, and nothing   *)
(* else of the same merchant.                                              *)
LEMMA NetPaid ==
    ASSUME DepositsInv, DepositsInv', NetInv, NEW t \in Trx, pc = "payout", IsNext(t),
           PayoutTransfer(t), UNCHANGED <<deposit, merchant>>
    PROVE  SettledNet'
  <1>1. /\ TypeOK /\ TypeOK' /\ t \in todo /\ t \in batch /\ batch \subseteq Trx
        /\ merchant \in Merchants
        /\ \A u \in batch : Exists(u)
    BY DEF DepositsInv, TypeOK, LoopInv, Settling, IsNext, Exists
  <1>2. /\ table' = table /\ grouped' = grouped
        /\ payouts' = Count(payouts, Included(t))
        /\ settled' = [settled EXCEPT ![merchant][Asset(t)] = @ + PayoutAmount]
        /\ payouts \in [Trx -> Nat]
    BY <1>1 DEF PayoutTransfer, TypeOK
  <1>3. \A v \in Trx : payouts'[v] = IF v \in Included(t) THEN payouts[v] + 1 ELSE payouts[v]
    BY <1>2, CountFacts
  <1>4. Included(t) \subseteq batch
    BY DEF Included
  <1>5. \A m, a : OwnedRows(m, a)' = OwnedRows(m, a) /\ OwnedRows(m, a) \subseteq Trx
    BY <1>2 DEF OwnedRows, Owner, User, Asset, Exists
  <1>6. \A m : Alone(m)' <=> Alone(m)
    BY <1>2 DEF Alone, Owner, User
  <1>7. \A v \in Trx : v \notin Included(t) => Shares'[v] = Shares[v]
    BY <1>2, <1>3 DEF Shares, Net, Exists
  <1>8. \A v \in Trx : Shares[v] \in Int /\ Shares'[v] \in Int
    <2>1. TAKE v \in Trx
    <2>2. Shares[v] \in Int
      BY <1>1, SharesType
    <2>3. CASE Exists(v)
      <3>1. deposit[v] \in Deposit /\ payouts'[v] \in Int
        BY <1>1, <2>3 DEF TypeOK
      <3>2. Shares'[v] = payouts'[v] * (Net(v) \div 100)
        BY <1>2, <2>3 DEF Shares, Net, Exists
      <3> QED BY <2>2, <3>1, <3>2, ShareType
    <2>4. CASE ~Exists(v)
      BY <1>2, <2>2, <2>4 DEF Shares, Exists
    <2> QED BY <2>3, <2>4
  <1>9. ASSUME NEW m \in Merchants, NEW a \in Assets, Alone(m)
        PROVE  settled'[m][a] = SumFunctionOnSet(Shares', OwnedRows(m, a))
    <2>1. IsFiniteSet(OwnedRows(m, a)) /\ settled[m][a] = SumFunctionOnSet(Shares, OwnedRows(m, a))
      BY <1>5, <1>9, TrxFinite DEF NetInv, SettledNet
    <2>2. CASE \A v \in OwnedRows(m, a) : v \notin Included(t)
      <3>1. SumFunctionOnSet(Shares, OwnedRows(m, a)) = SumFunctionOnSet(Shares', OwnedRows(m, a))
        <4>1. \A v \in OwnedRows(m, a) : Shares[v] \in Int /\ Shares[v] = Shares'[v]
          BY <1>5, <1>7, <1>8, <2>2
        <4> QED BY <2>1, <4>1, SumSame
      <3>2. ~(m = merchant /\ a = Asset(t))
        <4>1. t \in Included(t)
          <5>1. t \in Int
            BY DEF Trx
          <5> QED BY <1>1, <5>1 DEF Included
        <4>2. Owner(t) = merchant /\ Exists(t)
          BY <1>1 DEF NetInv
        <4> QED BY <2>2, <4>1, <4>2 DEF OwnedRows
      <3>3. settled'[m][a] = settled[m][a]
        BY <1>1, <1>2, <3>2 DEF TypeOK
      <3> QED BY <2>1, <3>1, <3>3
    <2>3. CASE \E v \in OwnedRows(m, a) : v \in Included(t)
      <3>1. m = merchant
        BY <1>4, <2>3 DEF NetInv, OwnedRows
      <3>2. t \notin grouped
        BY <1>1, <1>9, <3>1 DEF Alone, NetInv
      <3>3. batch = {t}
        BY <1>1, <3>2 DEF DepositsInv, PayInv, PayAt
      <3>4. t \in OwnedRows(m, a) /\ Included(t) = {t} /\ Asset(t) = a
        BY <1>4, <2>3, <3>3 DEF OwnedRows
      <3> DEFINE n == Net(t) \div 100
      <3>5. n \in Int /\ PayoutAmount = n /\ payouts[t] \in Int
        <4>1. deposit[t] \in Deposit
          BY <1>1 DEF TypeOK
        <4>2. acc = Net(t)
          BY <1>1, <3>2 DEF NetInv, AccInv
        <4> QED BY <4>1, <4>2, <1>2, NetType DEF PayoutAmount
      <3>6. Shares[t] = payouts[t] * n /\ Shares'[t] = payouts'[t] * n
        BY <1>1, <1>2 DEF Shares, Net, Exists
      <3> HIDE DEF n
      <3>7. Shares'[t] = Shares[t] + n
        <4>1. payouts'[t] = payouts[t] + 1
          BY <1>3, <3>4
        <4>2. (payouts[t] + 1) * n = payouts[t] * n + n
          BY <3>5
        <4> QED BY <3>6, <4>1, <4>2
      <3>8. SumFunctionOnSet(Shares', OwnedRows(m, a))
                = SumFunctionOnSet(Shares, OwnedRows(m, a)) + (Shares'[t] - Shares[t])
        <4>1. /\ \A x \in OwnedRows(m, a) : Shares[x] \in Int /\ Shares'[x] \in Int
              /\ \A x \in OwnedRows(m, a) : x # t => Shares[x] = Shares'[x]
          BY <1>5, <1>7, <1>8, <3>4
        <4> QED BY <2>1, <3>4, <4>1, SumChange
      <3>9. settled'[m][a] = settled[m][a] + n
        BY <1>1, <1>2, <3>1, <3>4, <3>5 DEF TypeOK
      <3>10. Shares[t] \in Int /\ settled[m][a] \in Int
        BY <1>1, <1>8 DEF TypeOK
      <3> QED BY <2>1, <3>5, <3>7, <3>8, <3>9, <3>10
    <2> QED BY <2>2, <2>3
  <1> QED BY <1>5, <1>6, <1>9 DEF SettledNet

(* The merchant is sent what the loop carries.                             *)
LEMMA NetPayout ==
    ASSUME DepositsInv, DepositsInv', NetInv, NEW t \in Trx,
           Payout(t) \/ PayoutUnrecorded(t), UNCHANGED deposit
    PROVE  NetInv'
  <1>1. /\ pc = "payout" /\ IsNext(t) /\ PayoutTransfer(t) /\ merchant' = merchant
        /\ batch' = batch /\ grouped' = grouped /\ table' = table
    BY DEF Payout, PayoutUnrecorded, PayoutTransfer, Goto, ReturnProcessed
  <1>2. SettledNet'
    BY <1>1, NetPaid
  <1>3. AccInv'
    BY DEF Payout, PayoutUnrecorded, Goto, ReturnProcessed, AccInv
  <1> QED BY <1>1, <1>2, <1>3 DEF NetInv, Owner, User, Exists

(* The rows of a batch are of one merchant.                                *)
LEMMA NetReadProcessed ==
    ASSUME DepositsInv, NetInv, ReadProcessed, UNCHANGED deposit
    PROVE  NetInv'
  <1>1. /\ pc' = "processed" /\ acc' = 0 /\ batch' = todo' /\ merchant' = merchant
        /\ UNCHANGED <<table, settled, payouts>>
        /\ grouped' = grouped \/ grouped' = grouped \cup todo'
    BY DEF ReadProcessed, chain
  <1>2. \A t \in todo' : t \in Trx /\ table[t].status = "processed" /\ Owner(t) = merchant
    BY DEF ReadProcessed, Batch, WithStatus, DepositsInv, TypeOK
  <1>3. AccInv'
    BY <1>1 DEF AccInv
  <1>4. \A t \in batch' : Owner(t)' = merchant'
    BY <1>1, <1>2 DEF Owner, User
  <1>5. \A t \in grouped' : Exists(t)'
    BY <1>1, <1>2 DEF NetInv, Exists
  <1>6. \A t \in Trx : Exists(t)' <=> Exists(t)
    BY <1>1 DEF Exists
  <1> QED BY <1>1, <1>3, <1>4, <1>5, <1>6, NetKept

(* The loop reaches a row that is alone with nothing carried.              *)
LEMMA NetAccumulate ==
    ASSUME DepositsInv, DepositsInv', NetInv, NEW t \in Trx, Accumulate(t), UNCHANGED deposit
    PROVE  NetInv'
  <1>1. /\ TypeOK /\ TypeOK' /\ pc = "processed" /\ t \in todo /\ t \in batch
        /\ todo \subseteq batch /\ batch' = batch /\ merchant' = merchant
        /\ UNCHANGED <<settled, payouts, grouped>> /\ acc' = acc + Net(t)
        /\ \/ pc' = "payout" /\ todo' = todo
           \/ pc' = "processed" /\ todo' = todo \ {t}
    BY DEF Accumulate, Goto, NextRow, DepositsInv, LoopInv, Settling, IsNext, chain, seen
  <1>2. \A u \in Trx : Exists(u)' <=> Exists(u)
    BY <1>1 DEF TypeOK
  <1>3. ASSUME NEW u \in todo', u \notin grouped
        PROVE  pc' = "payout" /\ acc' = Net(u)
    <2>1. u \in Trx /\ batch = {u}
      BY <1>1, <1>3 DEF DepositsInv, PayInv, PayAt, TypeOK
    <2>2. u = t
      BY <1>1, <2>1
    <2>3. acc = 0
      BY <1>1, <1>3, <2>2 DEF NetInv, AccInv
    <2>4. deposit[t] \in Deposit
      BY <1>1 DEF DepositsInv, LoopInv, Settling, TypeOK, Exists
    <2>5. Net(t) \in Int
      BY <2>4, NetType
    <2> QED BY <1>1, <1>3, <2>2, <2>3, <2>5
  <1>4. AccInv'
    BY <1>1, <1>3 DEF AccInv, Net
  <1>5. /\ \A u \in batch' : Owner(u)' = merchant'
        /\ \A u \in grouped' : Exists(u)'
    BY <1>1, <1>2 DEF NetInv, Owner, User, DepositsInv, TypeOK
  <1> QED BY <1>1, <1>2, <1>4, <1>5, NetKept

(* The last transfer of a batch ends the loop over it.                     *)
LEMMA NetRecordSettled ==
    ASSUME DepositsInv, DepositsInv', NetInv, NEW t \in Trx, NEW u \in Trx,
           RecordSettled(t, u), UNCHANGED deposit
    PROVE  NetInv'
  <1>1. /\ TypeOK /\ TypeOK' /\ t \in todo /\ todo \subseteq batch /\ t \in batch
        /\ batch' = batch /\ merchant' = merchant
        /\ UNCHANGED <<settled, payouts, grouped>>
        /\ \/ pc' = "recordSettled"
           \/ pc' = "processed" /\ todo' = todo \ {t}
    BY DEF RecordSettled, Goto, NextRow, DepositsInv, LoopInv, Settling, IsNext, chain
  <1>2. \A v \in Trx : Exists(v)' <=> Exists(v)
    BY <1>1 DEF TypeOK
  <1>3. AccInv'
    <2>1. SUFFICES ASSUME NEW v \in todo', v \notin grouped, pc' = "processed" PROVE FALSE
      BY <1>1 DEF AccInv
    <2>2. v \in todo /\ v # t
      BY <1>1, <2>1
    <2>3. batch = {v}
      BY <1>1, <2>1, <2>2 DEF DepositsInv, PayInv, PayAt, TypeOK
    <2> QED BY <1>1, <2>2, <2>3
  <1>4. /\ \A v \in batch' : Owner(v)' = merchant'
        /\ \A v \in grouped' : Exists(v)'
    BY <1>1, <1>2 DEF NetInv, Owner, User, DepositsInv, TypeOK
  <1> QED BY <1>1, <1>2, <1>3, <1>4, NetKept

(* The other steps of the loop carry nothing.                              *)
LEMMA NetElse ==
    ASSUME DepositsInv, DepositsInv', NetInv, UNCHANGED <<deposit, settled, payouts, grouped>>,
           \A t \in Trx : Exists(t)' <=> Exists(t), batch' = {} \/ UNCHANGED <<batch, merchant>>,
           pc' \notin {"processed", "payout"} \/ todo' = {} \/ UNCHANGED <<pc, todo, acc>>
    PROVE  NetInv'
  <1>1. AccInv'
    BY DEF NetInv, AccInv, Net
  <1>2. \A t \in batch' : Owner(t)' = merchant'
    BY DEF NetInv, Owner, User
  <1>3. \A t \in grouped' : Exists(t)'
    BY DEF NetInv, DepositsInv, TypeOK
  <1> QED BY <1>1, <1>2, <1>3, NetKept

LEMMA NetProcessing ==
    ASSUME DepositsInv, DepositsInv', NetInv, Processing
    PROVE  NetInv'
  <1>1. UNCHANGED deposit /\ \A t \in Trx : Exists(t)' <=> Exists(t)
    BY DEF Processing, DepositsInv, TypeOK
  <1>2. CASE ReadProcessed
    BY <1>1, <1>2, NetReadProcessed
  <1>3. ASSUME NEW t \in Trx,
               \/ Payout(t) \/ PayoutUnrecorded(t) \/ Accumulate(t)
               \/ \E u \in Trx : RecordSettled(t, u)
        PROVE  NetInv'
    BY <1>1, <1>3, NetPayout, NetAccumulate, NetRecordSettled
  <1>4. CASE \/ Tick \/ ReadSettled \/ EndMerchant \/ \E m \in Merchants : ReadInitiated(m)
    <2>1. /\ UNCHANGED <<settled, payouts, grouped>>
          /\ pc' \notin {"processed", "payout"}
      BY <1>4 DEF Tick, ReadSettled, EndMerchant, ReadInitiated, Goto, chain, seen
    <2>2. batch' = {} \/ UNCHANGED <<batch, merchant>>
      BY <1>4 DEF Tick, ReadSettled, EndMerchant, ReadInitiated, Goto, DepositsInv, LoopInv,
         Settling
    <2> QED BY <1>1, <2>1, <2>2, NetElse
  <1>5. ASSUME NEW t \in Trx,
               \/ Sweep(t) \/ SweepLate(t) \/ SweepError(t) \/ RecordSwept(t)
               \/ ConfirmSwept(t) \/ RecordDone(t) \/ PayoutError(t)
        PROVE  NetInv'
    <2>1. UNCHANGED <<settled, payouts, grouped, batch, merchant>>
      BY <1>5 DEF Sweep, SweepLate, SweepError, RecordSwept, ConfirmSwept, RecordDone,
         PayoutError, SweepTransfer, Goto, NextRow, ReturnProcessed, chain, seen
    <2>2. pc' \notin {"processed", "payout"} \/ todo' = {}
      BY <1>5 DEF Sweep, SweepLate, SweepError, RecordSwept, ConfirmSwept, RecordDone,
         PayoutError, Goto, NextRow, ReturnProcessed
    <2> QED BY <1>1, <2>1, <2>2, NetElse
  <1> QED BY <1>2, <1>3, <1>4, <1>5 DEF Processing

(* A new row was not paid for.                                             *)
LEMMA NetCreate ==
    ASSUME DepositsInv, DepositsInv', NetInv, NEW t \in Trx, CallbackCreate(t),
           UNCHANGED <<chain, loop, seen>>, ~UNCHANGED <<table, deposit>>
    PROVE  NetInv'
  <1>1. /\ TypeOK /\ TypeOK' /\ ~Exists(t)
        /\ table' = CreateTransaction(table, t)
        /\ deposit' = [deposit EXCEPT ![t] = fresh]
        /\ UNCHANGED <<settled, payouts, grouped, batch, merchant, pc, todo, acc>>
    BY DEF DepositsInv, CallbackCreate, chain, loop, seen
  <1>2. /\ \A u \in Trx : u # t => table'[u] = table[u] /\ deposit'[u] = deposit[u]
        /\ Exists(t)' /\ \A u \in Trx : u # t => (Exists(u)' <=> Exists(u))
    BY <1>1 DEF CreateTransaction, Exists, TypeOK
  <1>4. t \notin grouped /\ t \notin batch
    BY <1>1 DEF DepositsInv, LoopInv, Settling, Exists, NetInv
  <1>5. payouts[t] = 0
    BY <1>1 DEF DepositsInv, SweepInv, SweepAt, Exists
  <1>6. /\ \A u \in Trx : u # t => Shares'[u] = Shares[u]
        /\ Shares'[t] = 0
    <2>1. \A u \in Trx : u # t => Shares'[u] = Shares[u]
      BY <1>1, <1>2 DEF Shares, Net
    <2>2. Shares'[t] = 0
      <3>1. deposit'[t].amount \in Nat /\ Fix \in Nat /\ Percent \in Nat
        BY <1>1, <1>2, DepositsAssumption DEF TypeOK, Deposit
      <3>2. Net(t)' \in Int
        <4>1. /\ Percent * deposit'[t].amount \in Int
              /\ 100 * (deposit'[t].amount - Fix) \in Int
          BY <3>1
        <4> QED BY <4>1 DEF Net
      <3> DEFINE n == Net(t)' \div 100
      <3>3. n \in Int
        BY <3>2
      <3>4. Shares'[t] = payouts[t] * n
        BY <1>1, <1>2 DEF Shares
      <3> HIDE DEF n
      <3> QED BY <1>5, <3>3, <3>4
    <2> QED BY <2>1, <2>2
  <1>7. \A m : Alone(m)' <=> Alone(m)
    BY <1>1, <1>2, <1>4 DEF Alone, Owner, User, TypeOK
  <1>8. ASSUME NEW m, NEW a
        PROVE  SumFunctionOnSet(Shares', OwnedRows(m, a)')
                  = SumFunctionOnSet(Shares, OwnedRows(m, a))
    <2> DEFINE S == OwnedRows(m, a)
    <2>1. S \subseteq Trx /\ t \notin S /\ IsFiniteSet(S)
      <3>1. S \subseteq Trx /\ t \notin S
        BY <1>1 DEF OwnedRows
      <3> QED BY <3>1, TrxFinite
    <2>2. OwnedRows(m, a)' = S \/ OwnedRows(m, a)' = S \cup {t}
      BY <1>1, <1>2 DEF OwnedRows, Owner, User, Asset
    <2> HIDE DEF S
    <2>3. \A u \in S : Shares[u] \in Int /\ Shares[u] = Shares'[u]
      BY <1>1, <1>6, <2>1, SharesType
    <2>4. SumFunctionOnSet(Shares, S) = SumFunctionOnSet(Shares', S)
      BY <2>1, <2>3, SumSame
    <2>5. SumFunctionOnSet(Shares, S) \in Int
      BY <2>1, <2>3, SumInt
    <2>6. SumFunctionOnSet(Shares', S \cup {t}) = Shares'[t] + SumFunctionOnSet(Shares', S)
      <3>1. \A u \in S \cup {t} : Shares'[u] \in Int
        BY <1>6, <2>3
      <3> QED BY <2>1, <3>1, SumAdd
    <2>7. SumFunctionOnSet(Shares', S \cup {t}) = SumFunctionOnSet(Shares, S)
      BY <1>6, <2>4, <2>5, <2>6
    <2> QED BY <2>2, <2>4, <2>7 DEF S
  <1>9. SettledNet'
    BY <1>1, <1>7, <1>8 DEF NetInv, SettledNet
  <1>10. AccInv'
    <2>1. pc \in {"processed", "payout"} => t \notin todo
      BY <1>1, <1>4 DEF DepositsInv, LoopInv, Settling
    <2> QED BY <1>1, <1>2, <2>1 DEF NetInv, AccInv, Net, TypeOK
  <1>11. /\ \A u \in batch' : Owner(u)' = merchant'
         /\ \A u \in grouped' : Exists(u)'
    BY <1>1, <1>2, <1>4 DEF NetInv, Owner, User, TypeOK
  <1> QED BY <1>9, <1>10, <1>11 DEF NetInv

LEMMA NetInit == Init => NetInv
  <1>1. ASSUME Init PROVE NetInv
    <2>1. /\ todo = {} /\ batch = {} /\ grouped = {}
          /\ \A m \in Merchants, a \in Assets : settled[m][a] = 0
          /\ \A m, a : OwnedRows(m, a) = {}
      BY <1>1 DEF Init, Empty, OwnedRows, Exists, NoRow
    <2>2. SettledNet
      BY <2>1, SumEmpty DEF SettledNet
    <2> QED BY <2>1, <2>2 DEF NetInv, AccInv
  <1> QED BY <1>1

LEMMA NetNext ==
    ASSUME DepositsInv, DepositsInv', NetInv, [Next]_vars
    PROVE  NetInv'
  <1>1. CASE Processing
    BY <1>1, NetProcessing
  <1>2. CASE UNCHANGED <<table, deposit, settled, loop, seen>>
    <2>1. /\ UNCHANGED <<deposit, settled, payouts, grouped>>
          /\ \A t \in Trx : Exists(t)' <=> Exists(t)
          /\ batch' = {} \/ UNCHANGED <<batch, merchant>>
          /\ pc' \notin {"processed", "payout"} \/ todo' = {} \/ UNCHANGED <<pc, todo, acc>>
      BY <1>2 DEF seen, loop, Exists
    <2> QED BY <2>1, NetElse
  <1>3. CASE Crash
    <2>1. /\ UNCHANGED <<deposit, settled, payouts, grouped>>
          /\ \A t \in Trx : Exists(t)' <=> Exists(t)
          /\ batch' = {} /\ todo' = {}
      BY <1>3 DEF Crash, chain, Exists
    <2> QED BY <2>1, NetElse
  <1>4. CASE Streamer
    <2>1. UNCHANGED <<settled, loop, seen>>
      BY <1>4 DEF Streamer, chain
    <2>2. CASE UNCHANGED <<table, deposit>>
      BY <1>2, <2>1, <2>2
    <2>3. CASE ~UNCHANGED <<table, deposit>>
      BY <1>4, <2>3, NetCreate DEF Streamer
    <2> QED BY <2>2, <2>3
  <1>5. CASE \/ UNCHANGED vars
             \/ \E k \in UserKeys, a \in Assets : \E n \in 1..MaxDeposit : Arrive(k, a, n)
    BY <1>2, <1>5 DEF vars, seen, loop, Arrive
  <1> QED BY <1>1, <1>3, <1>4, <1>5 DEF Next

(* A merchant whose deposits never shared a batch was sent exactly what    *)
(* they are worth after the commission, as often as they were paid, in     *)
(* every asset, whatever the commission and whatever fails                 *)
(* (processing-deposit.go:99-116).                                         *)
THEOREM SettledCorrect == Spec => []SettledNet
  <1>1. Init => NetInv
    BY NetInit
  <1>2. DepositsInv /\ DepositsInv' /\ NetInv /\ [Next]_vars => NetInv'
    BY NetNext
  <1>3. NetInv => SettledNet
    BY DEF NetInv
  <1> QED BY <1>1, <1>2, <1>3, InvHolds, PTL DEF Spec

===============================================================================
