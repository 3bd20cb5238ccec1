---------------------------- MODULE TransferContract ----------------------------
(***************************************************************************)
(* What a transfer promises to its caller, whatever keyring, gas, other    *)
(* transfers and nodes do: its tokens move at most once; it succeeds after *)
(* they moved; an error is final, unless the transfer gave up waiting, and *)
(* then they may still move.  A careless transfer may pretend to have      *)
(* succeeded, and then its tokens never move.                              *)
(***************************************************************************)
EXTENDS Naturals

CONSTANT Requests       \* transfers ever made

VARIABLES answer,       \* answer[r]: "none" until r is called, then "open"
          moved,        \* moved[r]: how often the tokens of r moved
          careless,     \* transfers that may pretend
          late          \* transfers that gave up waiting

contractVars == <<answer, moved, careless, late>>

Init == /\ answer = [r \in Requests |-> "none"]
        /\ moved = [r \in Requests |-> 0]
        /\ careless = {} /\ late = {}

Reply(r, a) == answer' = [answer EXCEPT ![r] = a]

Call(r) == /\ answer[r] = "none" /\ Reply(r, "open")
           /\ careless' \in {careless, careless \cup {r}}
           /\ UNCHANGED <<moved, late>>

Move(r) == /\ moved[r] = 0
           /\ answer[r] = "open" \/ r \in late
           /\ moved' = [moved EXCEPT ![r] = 1]
           /\ UNCHANGED <<answer, careless, late>>

Succeed(r) == /\ answer[r] = "open" /\ moved[r] = 1
              /\ Reply(r, "ok")
              /\ UNCHANGED <<moved, careless, late>>

Pretend(r) == /\ answer[r] = "open" /\ moved[r] = 0 /\ r \in careless
              /\ Reply(r, "ok")
              /\ UNCHANGED <<moved, careless, late>>

Refuse(r) == /\ answer[r] = "open" /\ moved[r] = 0
             /\ Reply(r, "error")
             /\ UNCHANGED <<moved, careless, late>>

(* The wait for it ends too early. *)
Timeout(r) == /\ answer[r] = "open"
              /\ Reply(r, "error")
              /\ late' = late \cup {r}
              /\ UNCHANGED <<moved, careless>>

Open == {r \in Requests : answer[r] = "open"}

(* The program stops, and gives up whatever is open. *)
Restart == /\ late' = late \cup Open
           /\ answer' = [r \in Requests |-> IF r \in Open THEN "error" ELSE answer[r]]
           /\ UNCHANGED <<moved, careless>>

Next == \/ \E r \in Requests : \/ Call(r) \/ Move(r) \/ Succeed(r)
                               \/ Pretend(r) \/ Refuse(r) \/ Timeout(r)
        \/ Restart

Spec == Init /\ [][Next]_contractVars

===============================================================================
