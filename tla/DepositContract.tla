---------------------------- MODULE DepositContract ----------------------------
(***************************************************************************)
(* What the deposit pipeline promises about the rows and the money,        *)
(* whatever the interleaving of streamer, processing loop and failures: a  *)
(* deposit is swept again only after the sweep before was lost, it is      *)
(* credited after a sweep that was recorded, and a deposit that never      *)
(* shared a batch is paid to its merchant alone, again only after the      *)
(* payout before was lost, and settled after a payout that was recorded.   *)
(* Deposits of one batch may be paid and taken back while they are open.   *)
(***************************************************************************)
EXTENDS Naturals

CONSTANT Trx            \* the deposits

VARIABLES status,       \* status[t]: column status of the row of t
          swept,        \* swept[t]: transfers to the receiving wallet for t
          lostSweep,    \* lostSweep[t]: sweeps the program did not record
          grouped,      \* deposits that shared a batch with another
          payouts,      \* payouts[t]: transfers to the merchant that include t
          lostPay       \* lostPay[t]: payouts the program did not record

contractVars == <<status, swept, lostSweep, grouped, payouts, lostPay>>

Zero == [t \in Trx |-> 0]
Raise(counter, S) == [t \in Trx |-> IF t \in S THEN counter[t] + 1 ELSE counter[t]]

\* Processed or settled, not done.
Open(t) == status[t] \in {"processed", "settle"}

Init == /\ status = [t \in Trx |-> "absent"]
        /\ swept = Zero /\ lostSweep = Zero
        /\ grouped = {} /\ payouts = Zero /\ lostPay = Zero

Become(t, from, to) ==
    /\ status[t] = from
    /\ status' = [status EXCEPT ![t] = to]
    /\ UNCHANGED <<swept, lostSweep, grouped, payouts, lostPay>>

Create(t) == Become(t, "absent", "init")

\* A sweep is the first, or repeats one that was lost; it may be lost itself.
Sweep(t) ==
    /\ status[t] = "init" /\ swept[t] <= lostSweep[t]
    /\ swept' = Raise(swept, {t})
    /\ lostSweep' \in {lostSweep, Raise(lostSweep, {t})}
    /\ UNCHANGED <<status, grouped, payouts, lostPay>>

LoseSweep(t) ==
    /\ status[t] = "init" /\ lostSweep[t] < swept[t]
    /\ lostSweep' = Raise(lostSweep, {t})
    /\ UNCHANGED <<status, swept, grouped, payouts, lostPay>>

Credit(t) == lostSweep[t] < swept[t] /\ Become(t, "init", "processed")

\* The processed deposits of a merchant make a batch.
Group(S) ==
    /\ \E t, u \in S : t # u
    /\ \A t \in S : status[t] = "processed"
    /\ grouped' = grouped \cup S
    /\ UNCHANGED <<status, swept, lostSweep, payouts, lostPay>>

\* One transfer pays the deposits of S.
Pay(S) ==
    /\ \A t \in S : Open(t)
    /\ \A t \in S \ grouped :
          S = {t} /\ status[t] = "processed" /\ payouts[t] <= lostPay[t]
    /\ payouts' = Raise(payouts, S)
    /\ lostPay' \in {lostPay, Raise(lostPay, S)}
    /\ UNCHANGED <<status, swept, lostSweep, grouped>>

LosePay(S) ==
    /\ \A t \in S : Open(t)
    /\ \A t \in S \ grouped : status[t] = "processed" /\ lostPay[t] < payouts[t]
    /\ lostPay' = Raise(lostPay, S)
    /\ UNCHANGED <<status, swept, lostSweep, grouped, payouts>>

Settle(t) == /\ t \notin grouped => lostPay[t] < payouts[t]
             /\ Become(t, "processed", "settle")

Reopen(t) == t \in grouped /\ Become(t, "settle", "processed")

Finish(t) == Become(t, "settle", "done")

Next == \/ \E t \in Trx : \/ Create(t) \/ Sweep(t) \/ LoseSweep(t) \/ Credit(t)
                          \/ Settle(t) \/ Reopen(t) \/ Finish(t)
        \/ \E S \in SUBSET Trx : Group(S) \/ Pay(S) \/ LosePay(S)

Spec == Init /\ [][Next]_contractVars

===============================================================================
