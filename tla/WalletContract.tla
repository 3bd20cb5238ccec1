----------------------------- MODULE WalletContract -----------------------------
(***************************************************************************)
(* What the wallets promise, whatever requests run at once, fail or are    *)
(* lost in a restart.  A new address is paid for once and makes its first  *)
(* transaction once, and if it was paid for its keys are stored only after *)
(* that.  The keys of an id are stored once and never replaced, and only   *)
(* an address whose keys are stored is given to anybody.                   *)
(***************************************************************************)
CONSTANTS Ids,          \* external ids
          Addresses,    \* whatever can be created: pairs of a request and an id
          None

VARIABLES stored,       \* stored[e]: the address whose keys are stored for e
          paid, active, \* addresses with gas, and with a first transaction
          given         \* pairs of an id and the address given for it

contractVars == <<stored, paid, active, given>>

Init == /\ stored = [e \in Ids |-> None]
        /\ paid = {} /\ active = {} /\ given = {}

Unstored(a) == \A e \in Ids : stored[e] # a

Pay(a) == /\ Unstored(a) /\ a \notin paid
          /\ paid' = paid \cup {a}
          /\ UNCHANGED <<stored, active, given>>

Activate(a) == /\ Unstored(a) /\ a \in paid \ active
               /\ active' = active \cup {a}
               /\ UNCHANGED <<stored, paid, given>>

(* Who stored the keys may give the address at once. *)
Store(e, a) == /\ stored[e] = None /\ Unstored(a) /\ a[2] = e
               /\ a \in paid => a \in active
               /\ stored' = [stored EXCEPT ![e] = a]
               /\ given' \in {given, given \cup {<<e, a>>}}
               /\ UNCHANGED <<paid, active>>

Give(e) == /\ stored[e] # None
           /\ given' = given \cup {<<e, stored[e]>>}
           /\ UNCHANGED <<stored, paid, active>>

Next == \/ \E a \in Addresses : Pay(a) \/ Activate(a)
        \/ \E e \in Ids : Give(e) \/ \E a \in Addresses : Store(e, a)

Spec == Init /\ [][Next]_contractVars

=============================================================================
