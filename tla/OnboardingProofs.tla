---------------------------- MODULE OnboardingProofs ----------------------------
(***************************************************************************)
(* Theorems about Onboarding: what concurrent forms and approvals cannot   *)
(* do to users, their merchants and their access bits.                     *)
(***************************************************************************)
EXTENDS Onboarding, FiniteSetTheorems, TLAPS

Writing == {"update", "link", "access", "approve", "assign"}

(* What a request is at each step.                                         *)
PhaseInv == \A r \in Requests :
    /\ pc[r] = "idle" => op[r] = "none"
    /\ pc[r] = "update" => op[r] = "names"
    /\ pc[r] = "request" => op[r] = "request"
    /\ pc[r] \in {"link", "access"} => op[r] \in {"link", "approve"}
    /\ pc[r] \in {"create", "get", "approve", "assign"} => op[r] = "approve"
    /\ pc[r] # "idle" => op[r] # "none"
    /\ op[r] = "approve" => mid[r] = r
    /\ op[r] = "link" => mid[r] \in Merchants

(* Rows beyond the last one are empty, and the merchant ids of the list    *)
(* are distinct, stored, and those of approvals past their statement.      *)
ListInv ==
    /\ \A i \in Rows : i > size => list[i] = None
    /\ \A i \in Rows : list[i] # None =>
           /\ list[i] \in Requests \cap merchants
           /\ op[list[i]] = "approve"
           /\ pc[list[i]] \in {"link", "access", "ok", "error"}
           /\ <<who[list[i]], i>> \in links
    /\ \A i, j \in Rows : list[i] # None /\ list[i] = list[j] => i = j
    /\ Known \in merchants
    /\ \A r \in Requests :
           op[r] = "approve" /\ pc[r] \in {"get", "approve", "assign", "link", "access", "ok"} =>
               r \in merchants

(* A copy that says onboarded, and a request about to say so, is of a user *)
(* who has a merchant.                                                     *)
GrantInv ==
    /\ OnboardedHasMerchant
    /\ \A r \in Requests :
           /\ pc[r] \in Writing /\ seen[r].onboarded => HasMerchant(who[r])
           /\ pc[r] = "access" => HasMerchant(who[r])

(* What a snapshot shows: pending rows of the user the approval is about.  *)
(* A pending row is linked to one user, so all who read it as pending are  *)
(* about that user; and every row that is filled was read so by the        *)
(* approval that filled it.                                                *)
ViewInv ==
    /\ \A i \in Rows, l1, l2 \in links :
           list[i] = None /\ l1[2] = i /\ l2[2] = i => l1[1] = l2[1]
    /\ \A r \in Requests : view[r] # {} =>
           op[r] = "approve" /\ pc[r] \in {"assign", "link", "access", "ok", "error"}
    /\ \A r \in Requests : \A i \in NullRows(r) : i <= size /\ <<who[r], i>> \in links
    /\ \A q, r \in Requests : NullRows(q) \cap NullRows(r) # {} => who[q] = who[r]
    /\ \A i \in Rows, r \in Requests : list[i] = r => i \in NullRows(r)

(* An approval that has linked had filled a row, and it stays filled.      *)
ApprovedInv == \A r \in Requests :
    op[r] = "approve" /\ pc[r] \in {"access", "ok"} =>
        \E i \in NullRows(r) : list[i] # None

---------------------------------------------------------------------------
(* A finite set with at most one element.                                  *)
LEMMA AtMostOne ==
    ASSUME NEW S, IsFiniteSet(S), Cardinality(S) <= 1
    PROVE  \A x, y \in S : x = y
  <1>1. SUFFICES ASSUME NEW x \in S, NEW y \in S, x # y PROVE FALSE
    OBVIOUS
  <1>2. /\ IsFiniteSet(S \ {x}) /\ Cardinality(S \ {x}) = Cardinality(S) - 1
        /\ Cardinality(S) \in Nat
    BY FS_RemoveElement, FS_CardinalityType
  <1>3. Cardinality(S \ {x}) = 0
    BY <1>2, FS_CardinalityType
  <1> QED BY <1>1, <1>2, <1>3, FS_EmptySet

(* The rows a snapshot shows as pending are finitely many.                 *)
LEMMA NullRowsFinite ==
    ASSUME NEW r
    PROVE  IsFiniteSet(NullRows(r))
  <1>1. IsFiniteSet(Rows)
    BY FS_Interval, OnboardingAssumption DEF Rows
  <1> QED BY <1>1, FS_Subset DEF NullRows

(* Who has a merchant keeps one, while links stay and rows stay filled.    *)
LEMMA MerchantKept ==
    ASSUME TypeOK, links \subseteq links',
           \A i \in Rows : list[i] # None => list'[i] # None
    PROVE  \A u \in Users : HasMerchant(u) => HasMerchant(u)'
  <1>1. SUFFICES ASSUME NEW u \in Users, NEW l \in links, l[1] = u, MerchantOf(l[2]) # None
                 PROVE  HasMerchant(u)'
    BY DEF HasMerchant
  <1>2. l \in links' /\ l[2] \in Rows \cup {0}
    BY <1>1 DEF TypeOK
  <1>3. MerchantOf(l[2])' # None
    BY <1>1, <1>2 DEF MerchantOf
  <1> QED BY <1>1, <1>2, <1>3 DEF HasMerchant

(* The row of a merchant that an approval made up.                         *)
LEMMA RowsOfRequest ==
    ASSUME TypeOK, ListInv, NEW r \in Requests
    PROVE  RowsOf(r) = {i \in Rows : list[i] = r}
  <1>1. r # Known /\ r # None
    BY OnboardingAssumption DEF Merchants
  <1>2. \A i \in Rows : list[i] = r => i <= size
    BY <1>1 DEF ListInv, TypeOK, Rows
  <1> QED BY <1>1, <1>2 DEF RowsOf

(* What the write of an approval does: at most one row, which its snapshot *)
(* showed as pending, gets the new merchant, whatever the row has now.     *)
LEMMA AssignFacts ==
    ASSUME TypeOK, PhaseInv, ListInv, ViewInv, NEW r \in Requests, AssignMerchantId(r)
    PROVE  /\ pc[r] = "assign" /\ op[r] = "approve" /\ mid[r] = r /\ r # None
           /\ \A i \in Rows : list[i] # r
           /\ \E S \in SUBSET Rows, p \in {"link", "error"} :
                  /\ list' = [i \in Rows |-> IF i \in S THEN r ELSE list[i]]
                  /\ pc' = [pc EXCEPT ![r] = p]
                  /\ p = "error" => S = {}
                  /\ \A i, j \in S : i = j
                  /\ \A i \in S : i \in NullRows(r) /\ <<who[r], i>> \in links /\ i <= size
           /\ UNCHANGED <<user, merchants, size, links, op, who, mid, seen, view,
                          blocked, faults, undone, failed>>
  <1>1. /\ pc[r] = "assign" /\ op[r] = "approve" /\ mid[r] = r /\ r # None
        /\ \A i \in Rows : list[i] # r
    BY OnboardingAssumption DEF AssignMerchantId, PhaseInv, ListInv, Merchants
  <1>2. UNCHANGED <<user, merchants, size, links, op, who, mid, seen, view,
                    blocked, faults, undone, failed>>
    BY DEF AssignMerchantId, Goto
  <1>3. CASE UNCHANGED list /\ Goto(r, "error")
    <2>1. list' = [i \in Rows |-> IF i \in {} THEN r ELSE list[i]]
      BY <1>3 DEF TypeOK
    <2>2. \E S \in SUBSET Rows, p \in {"link", "error"} :
              /\ list' = [i \in Rows |-> IF i \in S THEN r ELSE list[i]]
              /\ pc' = [pc EXCEPT ![r] = p]
              /\ p = "error" => S = {}
              /\ \A i, j \in S : i = j
              /\ \A i \in S : i \in NullRows(r) /\ <<who[r], i>> \in links /\ i <= size
      <3> WITNESS {} \in SUBSET Rows, "error" \in {"link", "error"}
      <3> QED BY <1>3, <2>1 DEF Goto
    <2> QED BY <1>1, <1>2, <2>2
  <1>4. CASE /\ Cardinality(NullRows(r)) <= 1
             /\ list' = [i \in Rows |-> IF i \in NullRows(r) THEN mid[r] ELSE list[i]]
             /\ Goto(r, "link")
    <2>1. \A i, j \in NullRows(r) : i = j
      BY <1>4, AtMostOne, NullRowsFinite
    <2>2. \A i \in NullRows(r) : <<who[r], i>> \in links /\ i <= size
      BY DEF ViewInv
    <2>3. NullRows(r) \in SUBSET Rows
      BY DEF NullRows
    <2>4. list' = [i \in Rows |-> IF i \in NullRows(r) THEN r ELSE list[i]]
      BY <1>1, <1>4
    <2> QED BY <1>1, <1>2, <1>4, <2>1, <2>2, <2>3, <2>4 DEF Goto
  <1> QED BY <1>3, <1>4 DEF AssignMerchantId

(* What a snapshot keeps: the user's pending rows, for this request alone. *)
LEMMA SnapshotFacts ==
    ASSUME TypeOK, NEW r \in Requests, ApproveUserMerchant(r)
    PROVE  /\ pc[r] = "approve" /\ pc' = [pc EXCEPT ![r] = "assign"]
           /\ \A q \in Requests : q # r => view'[q] = view[q] /\ NullRows(q)' = NullRows(q)
           /\ NullRows(r)' = Pending(who[r])
           /\ UNCHANGED <<user, merchants, list, size, links, op, who, mid, seen,
                          blocked, faults, undone, failed>>
  <1>1. view'[r] = {<<i, list[i]>> : i \in {j \in Rows : <<who[r], j>> \in links}}
    BY DEF ApproveUserMerchant, TypeOK
  <1>2. NullRows(r)' = Pending(who[r])
    BY <1>1 DEF NullRows, Pending
  <1>3. \A q \in Requests : q # r => view'[q] = view[q] /\ NullRows(q)' = NullRows(q)
    BY DEF ApproveUserMerchant, NullRows, TypeOK
  <1> QED BY <1>2, <1>3 DEF ApproveUserMerchant, tables

(* What the link statement does: the rows of the merchant, or an error.    *)
LEMMA LinkFacts ==
    ASSUME TypeOK, PhaseInv, ListInv, NEW r \in Requests, LinkUserToMerchant(r)
    PROVE  /\ pc[r] = "link" /\ op[r] \in {"link", "approve"} /\ mid[r] \in Merchants
           /\ who[r] \in Users
           /\ \E p \in {"access", "error"} :
                  /\ pc' = [pc EXCEPT ![r] = p]
                  /\ p = "error" <=> RowsOf(mid[r]) = {}
           /\ links' = links \cup {<<who[r], i>> : i \in RowsOf(mid[r])}
           /\ UNCHANGED <<user, merchants, list, size, op, who, mid, seen, view,
                          blocked, faults, undone, failed>>
  <1>1. /\ pc[r] = "link" /\ op[r] \in {"link", "approve"} /\ mid[r] \in Merchants
        /\ who[r] \in Users
    BY DEF LinkUserToMerchant, PhaseInv, TypeOK, Merchants
  <1>2. /\ pc' = [pc EXCEPT ![r] = IF RowsOf(mid[r]) = {} THEN "error" ELSE "access"]
        /\ links' = links \cup {<<who[r], i>> : i \in RowsOf(mid[r])}
    BY DEF LinkUserToMerchant, Goto
  <1> QED BY <1>1, <1>2 DEF LinkUserToMerchant, Goto

---------------------------------------------------------------------------
(* The types are kept by every step.                                        *)
LEMMA TypeStep ==
    ASSUME TypeOK, PhaseInv, Next
    PROVE  TypeOK'
  <1> USE OnboardingAssumption DEF Goto, tables, request, Merchants, Rows
  <1>1. ASSUME NEW r \in Requests, WizardNames(r) PROVE TypeOK'
    BY <1>1 DEF WizardNames, PageWizardMerchantUpdate, TypeOK, PhaseInv, Operations, Phases,
       Access
  <1>2. ASSUME NEW r \in Requests, WizardLink(r) PROVE TypeOK'
    BY <1>2 DEF WizardLink, PageWizardMerchantUpdate, TypeOK, PhaseInv, Operations, Phases,
       Access
  <1>3. ASSUME NEW r \in Requests, WizardRequest(r) PROVE TypeOK'
    BY <1>3 DEF WizardRequest, PageWizardMerchantUpdate, TypeOK, PhaseInv, Operations,
       Phases, Access
  <1>4. ASSUME NEW r \in Requests, PageRequestsAdminUpdate(r) PROVE TypeOK'
    BY <1>4 DEF PageRequestsAdminUpdate, TypeOK, PhaseInv, Operations, Phases, Access
  <1>5. ASSUME NEW r \in Requests, UpdateUser(r) PROVE TypeOK'
    <2>1. /\ who[r] \in Users /\ user[who[r]] # None /\ seen[r] \in Access
      BY <1>5 DEF UpdateUser, WriteAccess, TypeOK, Phases
    <2>2. user' = [user EXCEPT ![who[r]] = seen[r]] /\ seen[r] \in Access /\ None \notin Access
      BY <1>5, <2>1 DEF UpdateUser, WriteAccess, Access
    <2>3. user' \in [Users -> Access \cup {None}] /\ \A u \in Users : user[u] # None => user'[u] # None
      BY <2>1, <2>2 DEF TypeOK
    <2>4. pc' = [pc EXCEPT ![r] = "ok"] /\ undone' \subseteq Users
      BY <1>5 DEF UpdateUser, WriteAccess, TypeOK
    <2> QED BY <1>5, <2>3, <2>4 DEF UpdateUser, WriteAccess, TypeOK, Phases
  <1>6. ASSUME NEW r \in Requests, SetUserAccess(r) PROVE TypeOK'
    <2>1. /\ who[r] \in Users /\ user[who[r]] # None /\ seen[r] \in Access
      BY <1>6 DEF SetUserAccess, WriteAccess, SetOnboarded, TypeOK, Phases
    <2>2. user' = [user EXCEPT ![who[r]] = SetOnboarded(seen[r])] /\ SetOnboarded(seen[r]) \in Access /\ None \notin Access
      BY <1>6, <2>1 DEF SetUserAccess, WriteAccess, SetOnboarded, Access
    <2>3. user' \in [Users -> Access \cup {None}] /\ \A u \in Users : user[u] # None => user'[u] # None
      BY <2>1, <2>2 DEF TypeOK
    <2>4. pc' = [pc EXCEPT ![r] = "ok"] /\ undone' \subseteq Users
      BY <1>6 DEF SetUserAccess, WriteAccess, SetOnboarded, TypeOK
    <2> QED BY <1>6, <2>3, <2>4 DEF SetUserAccess, WriteAccess, SetOnboarded, TypeOK, Phases
  <1>7. ASSUME NEW r \in Requests, LinkUserToMerchant(r) PROVE TypeOK'
    <2>1. who[r] \in Users /\ user[who[r]] # None /\ seen[r] # None
      BY <1>7 DEF LinkUserToMerchant, TypeOK, Phases
    <2>2. \A i \in RowsOf(mid[r]) : i \in Rows \cup {0} /\ i <= size
      BY <1>7 DEF RowsOf, TypeOK
    <2>3. /\ links' \subseteq Users \X (Rows \cup {0})
          /\ \A l \in links' : user[l[1]] # None /\ l[2] <= size
      BY <1>7, <2>1, <2>2 DEF LinkUserToMerchant, TypeOK
    <2>4. \E p \in {"access", "error"} : pc' = [pc EXCEPT ![r] = p]
      BY <1>7 DEF LinkUserToMerchant
    <2>5. pc' \in [Requests -> Phases]
      BY <2>4 DEF TypeOK, Phases
    <2>6. \A q \in Requests :
              /\ pc'[q] # "idle" => who[q] \in Users /\ user[who[q]] # None
              /\ pc'[q] \in {"update", "link", "access", "approve"} => seen[q] # None
      BY <2>1, <2>4 DEF TypeOK
    <2> QED BY <1>7, <2>3, <2>5, <2>6 DEF LinkUserToMerchant, TypeOK
  <1>8. ASSUME NEW r \in Requests, RequestMerchantForUser(r) PROVE TypeOK'
    <2>1. who[r] \in Users /\ user[who[r]] # None
      BY <1>8 DEF RequestMerchantForUser, TypeOK, Phases
    <2>2. size + 1 \in Rows /\ size' \in 0..MaxRows /\ size <= size'
      BY <1>8 DEF RequestMerchantForUser, TypeOK
    <2>3. links' = links \cup {<<who[r], size'>>}
      BY <1>8 DEF RequestMerchantForUser
    <2>4. links' \subseteq Users \X (Rows \cup {0})
      BY <1>8, <2>1, <2>2, <2>3 DEF RequestMerchantForUser, TypeOK
    <2>5. \A l \in links' : user[l[1]] # None /\ l[2] <= size'
      <3>1. SUFFICES ASSUME NEW l \in links PROVE user[l[1]] # None /\ l[2] <= size'
        BY <2>1, <2>2, <2>3
      <3>2. l[2] \in Rows \cup {0} /\ l[2] <= size /\ user[l[1]] # None
        BY DEF TypeOK
      <3> QED BY <2>2, <3>2 DEF TypeOK
    <2> QED BY <1>8, <2>2, <2>4, <2>5 DEF RequestMerchantForUser, TypeOK, Phases
  <1>9. ASSUME NEW r \in Requests, CreateMerchants(r) PROVE TypeOK'
    BY <1>9 DEF CreateMerchants, TypeOK, PhaseInv, Operations, Phases, Access
  <1>10. ASSUME NEW r \in Requests, GetUser(r) PROVE TypeOK'
    BY <1>10 DEF GetUser, TypeOK, PhaseInv, Operations, Phases, Access
  <1>11. ASSUME NEW r \in Requests, AssignMerchantId(r) PROVE TypeOK'
    BY <1>11 DEF AssignMerchantId, TypeOK, PhaseInv, Operations, Phases, Access
  <1>12. ASSUME NEW r \in Requests, Fail(r) PROVE TypeOK'
    BY <1>12 DEF Fail, Unfinished, TypeOK, PhaseInv, Operations, Phases, Access
  <1>13. ASSUME NEW u \in Users, CreateUser(u) PROVE TypeOK'
    <2>1. user' \in [Users -> Access \cup {None}]
      BY <1>13 DEF CreateUser, TypeOK, Access
    <2>2. \A v \in Users : user[v] # None => user'[v] # None
      BY <1>13 DEF CreateUser, TypeOK, Access
    <2>3. \A l \in links : user'[l[1]] # None
      BY <2>2 DEF TypeOK
    <2> QED BY <1>13, <2>1, <2>2, <2>3 DEF CreateUser, TypeOK
  <1>14. ASSUME NEW u \in Users, Block(u) PROVE TypeOK'
    <2>0. [user[u] EXCEPT !.registered = FALSE] \in Access /\ None \notin Access
      <3>1. user[u] \in Access
        BY <1>14 DEF Block, TypeOK
      <3> QED BY <3>1 DEF Access
    <2>1. user' \in [Users -> Access \cup {None}]
      BY <1>14, <2>0 DEF Block, TypeOK
    <2>2. \A v \in Users : user[v] # None => user'[v] # None
      BY <1>14, <2>0 DEF Block, TypeOK
    <2>3. blocked' \in 0..MaxBlocked
      BY <1>14 DEF Block, TypeOK
    <2>4. \A l \in links : user'[l[1]] # None
      BY <2>2 DEF TypeOK
    <2> QED BY <1>14, <2>1, <2>2, <2>3, <2>4 DEF Block, TypeOK
  <1>15. CASE Crash
    BY <1>15 DEF Crash, Unfinished, TypeOK, PhaseInv, Operations, Phases, Access
  <1>16. CASE Finished
    BY <1>16 DEF Finished, vars, TypeOK, PhaseInv, Operations, Phases, Access
  <1>17. ASSUME NEW r \in Requests, ApproveUserMerchant(r) PROVE TypeOK'
    <2>1. view' \in [Requests -> SUBSET (Rows \X (Merchants \cup {None}))]
      <3>1. {<<i, list[i]>> : i \in {j \in Rows : <<who[r], j>> \in links}}
                \in SUBSET (Rows \X (Merchants \cup {None}))
        <4>1. \A i \in Rows : list[i] \in Merchants \cup {None}
          BY DEF TypeOK
        <4>2. ASSUME NEW i \in {j \in Rows : <<who[r], j>> \in links}
              PROVE  <<i, list[i]>> \in Rows \X (Merchants \cup {None})
          <5>1. i \in Rows /\ list[i] \in Merchants \cup {None}
            BY <4>1, <4>2
          <5> QED BY <5>1, Zenon
        <4> QED BY <4>2, Zenon
      <3> QED BY <1>17, <3>1 DEF ApproveUserMerchant, TypeOK
    <2>2. /\ pc[r] = "approve" /\ pc' = [pc EXCEPT ![r] = "assign"]
          /\ UNCHANGED <<user, merchants, list, size, links, op, who, mid, seen,
                         blocked, faults, undone, failed>>
      BY <1>17 DEF ApproveUserMerchant
    <2>3. \A q \in Requests :
              /\ pc'[q] # "idle" => who[q] \in Users /\ user[who[q]] # None
              /\ pc'[q] \in {"update", "link", "access", "approve", "assign"} => seen[q] # None
      BY <2>2 DEF TypeOK
    <2>4. pc' \in [Requests -> Phases]
      BY <2>2 DEF TypeOK, Phases
    <2> QED BY <2>1, <2>2, <2>3, <2>4 DEF TypeOK
  <1> QED BY <1>1, <1>2, <1>3, <1>4, <1>5, <1>6, <1>7, <1>8,
         <1>9, <1>10, <1>11, <1>12, <1>13, <1>14, <1>15, <1>16, <1>17 DEF Next, Http, Handle

(* A request follows the steps of its operation.                            *)
LEMMA PhaseStep ==
    ASSUME TypeOK, PhaseInv, Next
    PROVE  PhaseInv'
  <1> USE OnboardingAssumption DEF Goto, tables, request, Merchants, Rows
  <1>1. ASSUME NEW r \in Requests, WizardNames(r) PROVE PhaseInv'
    BY <1>1 DEF WizardNames, PageWizardMerchantUpdate, TypeOK, PhaseInv
  <1>2. ASSUME NEW r \in Requests, WizardLink(r) PROVE PhaseInv'
    BY <1>2 DEF WizardLink, PageWizardMerchantUpdate, TypeOK, PhaseInv
  <1>3. ASSUME NEW r \in Requests, WizardRequest(r) PROVE PhaseInv'
    BY <1>3 DEF WizardRequest, PageWizardMerchantUpdate, TypeOK, PhaseInv
  <1>4. ASSUME NEW r \in Requests, PageRequestsAdminUpdate(r) PROVE PhaseInv'
    BY <1>4 DEF PageRequestsAdminUpdate, TypeOK, PhaseInv
  <1>5. ASSUME NEW r \in Requests, UpdateUser(r) PROVE PhaseInv'
    BY <1>5 DEF UpdateUser, WriteAccess, TypeOK, PhaseInv
  <1>6. ASSUME NEW r \in Requests, SetUserAccess(r) PROVE PhaseInv'
    BY <1>6 DEF SetUserAccess, WriteAccess, SetOnboarded, TypeOK, PhaseInv
  <1>7. ASSUME NEW r \in Requests, LinkUserToMerchant(r) PROVE PhaseInv'
    BY <1>7 DEF LinkUserToMerchant, TypeOK, PhaseInv
  <1>8. ASSUME NEW r \in Requests, RequestMerchantForUser(r) PROVE PhaseInv'
    BY <1>8 DEF RequestMerchantForUser, TypeOK, PhaseInv
  <1>9. ASSUME NEW r \in Requests, CreateMerchants(r) PROVE PhaseInv'
    BY <1>9 DEF CreateMerchants, TypeOK, PhaseInv
  <1>10. ASSUME NEW r \in Requests, GetUser(r) PROVE PhaseInv'
    BY <1>10 DEF GetUser, TypeOK, PhaseInv
  <1>11. ASSUME NEW r \in Requests, AssignMerchantId(r) PROVE PhaseInv'
    BY <1>11 DEF AssignMerchantId, TypeOK, PhaseInv
  <1>12. ASSUME NEW r \in Requests, Fail(r) PROVE PhaseInv'
    BY <1>12 DEF Fail, Unfinished, TypeOK, PhaseInv
  <1>13. ASSUME NEW u \in Users, CreateUser(u) PROVE PhaseInv'
    BY <1>13 DEF CreateUser, TypeOK, PhaseInv
  <1>14. ASSUME NEW u \in Users, Block(u) PROVE PhaseInv'
    BY <1>14 DEF Block, TypeOK, PhaseInv
  <1>15. CASE Crash
    BY <1>15 DEF Crash, Unfinished, TypeOK, PhaseInv
  <1>16. CASE Finished
    BY <1>16 DEF Finished, vars, TypeOK, PhaseInv
  <1>17. ASSUME NEW r \in Requests, ApproveUserMerchant(r) PROVE PhaseInv'
    BY <1>17, SnapshotFacts DEF PhaseInv, TypeOK
  <1> QED BY <1>1, <1>2, <1>3, <1>4, <1>5, <1>6, <1>7, <1>8,
         <1>9, <1>10, <1>11, <1>12, <1>13, <1>14, <1>15, <1>16, <1>17 DEF Next, Http, Handle

(* The rows of merchant_list keep their meaning.                            *)
LEMMA ListStep ==
    ASSUME TypeOK, PhaseInv, ListInv, ViewInv, Next
    PROVE  ListInv'
  <1> USE OnboardingAssumption DEF Goto, tables, request, Merchants, Rows
  <1>1. ASSUME NEW r \in Requests, WizardNames(r) PROVE ListInv'
    <2>1. \A i \in Rows : list[i] # r
      BY <1>1 DEF WizardNames, PageWizardMerchantUpdate, ListInv
    <2>2. UNCHANGED <<merchants, list, size, links>>
      BY <1>1 DEF WizardNames, PageWizardMerchantUpdate
    <2>3. \A q \in Requests : q # r => op'[q] = op[q] /\ pc'[q] = pc[q] /\ who'[q] = who[q]
      BY <1>1 DEF WizardNames, PageWizardMerchantUpdate, TypeOK
    <2>4. op'[r] = "approve" => pc'[r] = "create"
      BY <1>1 DEF WizardNames, PageWizardMerchantUpdate, TypeOK
    <2> QED BY <2>1, <2>2, <2>3, <2>4 DEF ListInv, TypeOK
  <1>2. ASSUME NEW r \in Requests, WizardLink(r) PROVE ListInv'
    <2>1. \A i \in Rows : list[i] # r
      BY <1>2 DEF WizardLink, PageWizardMerchantUpdate, ListInv
    <2>2. UNCHANGED <<merchants, list, size, links>>
      BY <1>2 DEF WizardLink, PageWizardMerchantUpdate
    <2>3. \A q \in Requests : q # r => op'[q] = op[q] /\ pc'[q] = pc[q] /\ who'[q] = who[q]
      BY <1>2 DEF WizardLink, PageWizardMerchantUpdate, TypeOK
    <2>4. op'[r] = "approve" => pc'[r] = "create"
      BY <1>2 DEF WizardLink, PageWizardMerchantUpdate, TypeOK
    <2> QED BY <2>1, <2>2, <2>3, <2>4 DEF ListInv, TypeOK
  <1>3. ASSUME NEW r \in Requests, WizardRequest(r) PROVE ListInv'
    <2>1. \A i \in Rows : list[i] # r
      BY <1>3 DEF WizardRequest, PageWizardMerchantUpdate, ListInv
    <2>2. UNCHANGED <<merchants, list, size, links>>
      BY <1>3 DEF WizardRequest, PageWizardMerchantUpdate
    <2>3. \A q \in Requests : q # r => op'[q] = op[q] /\ pc'[q] = pc[q] /\ who'[q] = who[q]
      BY <1>3 DEF WizardRequest, PageWizardMerchantUpdate, TypeOK
    <2>4. op'[r] = "approve" => pc'[r] = "create"
      BY <1>3 DEF WizardRequest, PageWizardMerchantUpdate, TypeOK
    <2> QED BY <2>1, <2>2, <2>3, <2>4 DEF ListInv, TypeOK
  <1>4. ASSUME NEW r \in Requests, PageRequestsAdminUpdate(r) PROVE ListInv'
    <2>1. \A i \in Rows : list[i] # r
      BY <1>4 DEF PageRequestsAdminUpdate, ListInv
    <2>2. UNCHANGED <<merchants, list, size, links>>
      BY <1>4 DEF PageRequestsAdminUpdate
    <2>3. \A q \in Requests : q # r => op'[q] = op[q] /\ pc'[q] = pc[q] /\ who'[q] = who[q]
      BY <1>4 DEF PageRequestsAdminUpdate, TypeOK
    <2>4. op'[r] = "approve" => pc'[r] = "create"
      BY <1>4 DEF PageRequestsAdminUpdate, TypeOK
    <2> QED BY <2>1, <2>2, <2>3, <2>4 DEF ListInv, TypeOK
  <1>5. ASSUME NEW r \in Requests, UpdateUser(r) PROVE ListInv'
    BY <1>5 DEF UpdateUser, WriteAccess, TypeOK, PhaseInv, ListInv
  <1>6. ASSUME NEW r \in Requests, SetUserAccess(r) PROVE ListInv'
    BY <1>6 DEF SetUserAccess, WriteAccess, SetOnboarded, TypeOK, PhaseInv, ListInv
  <1>7. ASSUME NEW r \in Requests, LinkUserToMerchant(r) PROVE ListInv'
    <2> QED BY <1>7, LinkFacts DEF ListInv, TypeOK
  <1>8. ASSUME NEW r \in Requests, RequestMerchantForUser(r) PROVE ListInv'
    BY <1>8 DEF RequestMerchantForUser, TypeOK, PhaseInv, ListInv
  <1>9. ASSUME NEW r \in Requests, CreateMerchants(r) PROVE ListInv'
    BY <1>9 DEF CreateMerchants, TypeOK, PhaseInv, ListInv
  <1>10. ASSUME NEW r \in Requests, GetUser(r) PROVE ListInv'
    BY <1>10 DEF GetUser, TypeOK, PhaseInv, ListInv
  <1>11. ASSUME NEW r \in Requests, AssignMerchantId(r) PROVE ListInv'
    <2>1. PICK S \in SUBSET Rows, p \in {"link", "error"} :
              /\ list' = [i \in Rows |-> IF i \in S THEN r ELSE list[i]]
              /\ pc' = [pc EXCEPT ![r] = p]
              /\ p = "error" => S = {}
              /\ \A i, j \in S : i = j
              /\ \A i \in S : i \in NullRows(r) /\ <<who[r], i>> \in links /\ i <= size
      BY <1>11, AssignFacts
    <2>2. /\ pc[r] = "assign" /\ op[r] = "approve" /\ mid[r] = r /\ r # None
          /\ \A i \in Rows : list[i] # r
          /\ UNCHANGED <<user, merchants, size, links, op, who, mid, seen, view,
                         blocked, faults, undone, failed>>
      BY <1>11, AssignFacts
    <2>3. \A i \in Rows : i > size => list'[i] = None
      <3>1. \A i \in Rows : i > size => i \notin S
        <4>1. size \in Int /\ Rows \subseteq Int
          BY DEF TypeOK
        <4>2. \A i \in S : i <= size
          BY <2>1
        <4> QED BY <4>1, <4>2
      <3> QED BY <2>1, <3>1 DEF ListInv
    <2>4. \A i \in Rows : list'[i] # None =>
              /\ list'[i] \in Requests \cap merchants
              /\ op[list'[i]] = "approve"
              /\ pc'[list'[i]] \in {"link", "access", "ok", "error"}
              /\ <<who[list'[i]], i>> \in links
      BY <2>1, <2>2 DEF ListInv, TypeOK
    <2>5. \A i, j \in Rows : list'[i] # None /\ list'[i] = list'[j] => i = j
      BY <2>1, <2>2 DEF ListInv
    <2>6. \A q \in Requests :
              op[q] = "approve" /\ pc'[q] \in {"get", "approve", "assign", "link", "access", "ok"} => q \in merchants
      BY <2>1, <2>2 DEF ListInv, TypeOK
    <2> QED BY <2>2, <2>3, <2>4, <2>5, <2>6 DEF ListInv
  <1>12. ASSUME NEW r \in Requests, Fail(r) PROVE ListInv'
    BY <1>12 DEF Fail, Unfinished, TypeOK, PhaseInv, ListInv
  <1>13. ASSUME NEW u \in Users, CreateUser(u) PROVE ListInv'
    BY <1>13 DEF CreateUser, TypeOK, PhaseInv, ListInv
  <1>14. ASSUME NEW u \in Users, Block(u) PROVE ListInv'
    BY <1>14 DEF Block, TypeOK, PhaseInv, ListInv
  <1>15. CASE Crash
    BY <1>15 DEF Crash, Unfinished, TypeOK, PhaseInv, ListInv
  <1>16. CASE Finished
    BY <1>16 DEF Finished, vars, TypeOK, PhaseInv, ListInv
  <1>17. ASSUME NEW r \in Requests, ApproveUserMerchant(r) PROVE ListInv'
    <2>1. UNCHANGED <<merchants, list, size, links, op, who>>
      BY <1>17, SnapshotFacts
    <2>2. \A q \in Requests : q = r \/ pc'[q] = pc[q]
      BY <1>17, SnapshotFacts DEF TypeOK
    <2>3. pc[r] = "approve" /\ pc'[r] = "assign"
      BY <1>17, SnapshotFacts DEF TypeOK
    <2> QED BY <2>1, <2>2, <2>3 DEF ListInv, TypeOK
  <1> QED BY <1>1, <1>2, <1>3, <1>4, <1>5, <1>6, <1>7, <1>8,
         <1>9, <1>10, <1>11, <1>12, <1>13, <1>14, <1>15, <1>16, <1>17 DEF Next, Http, Handle

(* A step that leaves the tables and the snapshots alone, and the requests *)
(* that took one at what they are about.                                   *)
LEMMA ViewKept ==
    ASSUME TypeOK, ViewInv, UNCHANGED <<list, size, links, view>>,
           \A q \in Requests : view[q] # {} =>
               /\ op'[q] = op[q] /\ who'[q] = who[q]
               /\ pc'[q] \in {"assign", "link", "access", "ok", "error"}
    PROVE  ViewInv'
  <1>1. \A q \in Requests : /\ NullRows(q)' = NullRows(q)
                            /\ NullRows(q) # {} => view[q] # {} /\ who'[q] = who[q]
    BY DEF NullRows
  <1>2. \A q, r \in Requests : NullRows(q) \cap NullRows(r) # {} => who'[q] = who'[r]
    BY <1>1 DEF ViewInv
  <1>3. \A q \in Requests : \A i \in NullRows(q) : i <= size' /\ <<who'[q], i>> \in links'
    BY <1>1 DEF ViewInv
  <1>4. \A i \in Rows, q \in Requests : list'[i] = q => i \in NullRows(q)
    BY DEF ViewInv
  <1>5. \A i \in Rows, l1, l2 \in links' :
            list'[i] = None /\ l1[2] = i /\ l2[2] = i => l1[1] = l2[1]
    BY DEF ViewInv
  <1>6. \A q \in Requests : view'[q] # {} =>
            op'[q] = "approve" /\ pc'[q] \in {"assign", "link", "access", "ok", "error"}
    BY DEF ViewInv
  <1> QED BY <1>1, <1>2, <1>3, <1>4, <1>5, <1>6 DEF ViewInv

(* Snapshots keep their meaning.                                           *)
LEMMA ViewStep ==
    ASSUME TypeOK, PhaseInv, ListInv, ViewInv, Next
    PROVE  ViewInv'
  <1> USE OnboardingAssumption DEF Goto, tables, request, Merchants, Rows
  <1>1. ASSUME NEW r \in Requests, WizardNames(r) PROVE ViewInv'
    <2>1. UNCHANGED <<list, size, links, view>>
      BY <1>1 DEF WizardNames, PageWizardMerchantUpdate
    <2>2. \A q \in Requests : view[q] # {} =>
              /\ op'[q] = op[q] /\ who'[q] = who[q]
              /\ pc'[q] \in {"assign", "link", "access", "ok", "error"}
      BY <1>1 DEF WizardNames, PageWizardMerchantUpdate, TypeOK, PhaseInv, ViewInv
    <2> QED BY <2>1, <2>2, ViewKept
  <1>2. ASSUME NEW r \in Requests, WizardLink(r) PROVE ViewInv'
    <2>1. UNCHANGED <<list, size, links, view>>
      BY <1>2 DEF WizardLink, PageWizardMerchantUpdate
    <2>2. \A q \in Requests : view[q] # {} =>
              /\ op'[q] = op[q] /\ who'[q] = who[q]
              /\ pc'[q] \in {"assign", "link", "access", "ok", "error"}
      BY <1>2 DEF WizardLink, PageWizardMerchantUpdate, TypeOK, PhaseInv, ViewInv
    <2> QED BY <2>1, <2>2, ViewKept
  <1>3. ASSUME NEW r \in Requests, WizardRequest(r) PROVE ViewInv'
    <2>1. UNCHANGED <<list, size, links, view>>
      BY <1>3 DEF WizardRequest, PageWizardMerchantUpdate
    <2>2. \A q \in Requests : view[q] # {} =>
              /\ op'[q] = op[q] /\ who'[q] = who[q]
              /\ pc'[q] \in {"assign", "link", "access", "ok", "error"}
      BY <1>3 DEF WizardRequest, PageWizardMerchantUpdate, TypeOK, PhaseInv, ViewInv
    <2> QED BY <2>1, <2>2, ViewKept
  <1>4. ASSUME NEW r \in Requests, PageRequestsAdminUpdate(r) PROVE ViewInv'
    <2>1. UNCHANGED <<list, size, links, view>>
      BY <1>4 DEF PageRequestsAdminUpdate
    <2>2. \A q \in Requests : view[q] # {} =>
              /\ op'[q] = op[q] /\ who'[q] = who[q]
              /\ pc'[q] \in {"assign", "link", "access", "ok", "error"}
      BY <1>4 DEF PageRequestsAdminUpdate, TypeOK, PhaseInv, ViewInv
    <2> QED BY <2>1, <2>2, ViewKept
  <1>5. ASSUME NEW r \in Requests, UpdateUser(r) PROVE ViewInv'
    <2>1. UNCHANGED <<list, size, links, view>>
      BY <1>5 DEF UpdateUser, WriteAccess
    <2>2. \A q \in Requests : view[q] # {} =>
              /\ op'[q] = op[q] /\ who'[q] = who[q]
              /\ pc'[q] \in {"assign", "link", "access", "ok", "error"}
      BY <1>5 DEF UpdateUser, WriteAccess, TypeOK, PhaseInv, ViewInv
    <2> QED BY <2>1, <2>2, ViewKept
  <1>6. ASSUME NEW r \in Requests, SetUserAccess(r) PROVE ViewInv'
    <2>1. UNCHANGED <<list, size, links, view>>
      BY <1>6 DEF SetUserAccess, WriteAccess
    <2>2. \A q \in Requests : view[q] # {} =>
              /\ op'[q] = op[q] /\ who'[q] = who[q]
              /\ pc'[q] \in {"assign", "link", "access", "ok", "error"}
      BY <1>6 DEF SetUserAccess, WriteAccess, TypeOK, PhaseInv, ViewInv
    <2> QED BY <2>1, <2>2, ViewKept
  <1>7. ASSUME NEW r \in Requests, LinkUserToMerchant(r) PROVE ViewInv'
    <2>1. \A l \in links' : l \in links \/ l[2] = 0 \/ list[l[2]] # None
      BY <1>7, LinkFacts DEF RowsOf
    <2>2. \A i \in Rows, l \in links' : list[i] = None /\ l[2] = i => l \in links
      BY <2>1
    <2>3. /\ pc[r] = "link" /\ links \subseteq links' /\ UNCHANGED <<list, size, op, who, view>>
          /\ \E p \in {"access", "error"} : pc' = [pc EXCEPT ![r] = p]
      BY <1>7, LinkFacts
    <2>4. \A q \in Requests : NullRows(q)' = NullRows(q)
      BY <2>3 DEF NullRows
    <2>5. \A q \in Requests : view[q] # {} =>
              pc'[q] \in {"assign", "link", "access", "ok", "error"}
      BY <2>3 DEF ViewInv, TypeOK
    <2> QED BY <2>2, <2>3, <2>4, <2>5 DEF ViewInv
  <1>8. ASSUME NEW r \in Requests, RequestMerchantForUser(r) PROVE ViewInv'
    <2>1. /\ size' = size + 1 /\ links' = links \cup {<<who[r], size'>>}
          /\ pc[r] = "request" /\ pc' = [pc EXCEPT ![r] = "ok"]
          /\ UNCHANGED <<list, op, who, view>>
      BY <1>8 DEF RequestMerchantForUser
    <2>2. \A l \in links : l[2] # size'
      BY <2>1 DEF TypeOK
    <2>3. \A i \in Rows, l1, l2 \in links' :
              list[i] = None /\ l1[2] = i /\ l2[2] = i => l1[1] = l2[1]
      BY <2>1, <2>2 DEF ViewInv
    <2>4. \A q \in Requests : NullRows(q)' = NullRows(q) /\ NullRows(q) \subseteq Rows
      BY <2>1 DEF NullRows
    <2>5. \A i \in Rows : i <= size => i <= size'
      BY <2>1 DEF TypeOK
    <2>6. \A q \in Requests : view[q] # {} =>
              pc'[q] \in {"assign", "link", "access", "ok", "error"}
      BY <2>1 DEF ViewInv, TypeOK
    <2> QED BY <2>1, <2>3, <2>4, <2>5, <2>6 DEF ViewInv
  <1>9. ASSUME NEW r \in Requests, CreateMerchants(r) PROVE ViewInv'
    <2>1. UNCHANGED <<list, size, links, view>>
      BY <1>9 DEF CreateMerchants
    <2>2. \A q \in Requests : view[q] # {} =>
              /\ op'[q] = op[q] /\ who'[q] = who[q]
              /\ pc'[q] \in {"assign", "link", "access", "ok", "error"}
      BY <1>9 DEF CreateMerchants, TypeOK, PhaseInv, ViewInv
    <2> QED BY <2>1, <2>2, ViewKept
  <1>10. ASSUME NEW r \in Requests, GetUser(r) PROVE ViewInv'
    <2>1. UNCHANGED <<list, size, links, view>>
      BY <1>10 DEF GetUser
    <2>2. \A q \in Requests : view[q] # {} =>
              /\ op'[q] = op[q] /\ who'[q] = who[q]
              /\ pc'[q] \in {"assign", "link", "access", "ok", "error"}
      BY <1>10 DEF GetUser, TypeOK, PhaseInv, ViewInv
    <2> QED BY <2>1, <2>2, ViewKept
  <1>11. ASSUME NEW r \in Requests, AssignMerchantId(r) PROVE ViewInv'
    <2>1. PICK S \in SUBSET Rows, p \in {"link", "error"} :
              /\ list' = [i \in Rows |-> IF i \in S THEN r ELSE list[i]]
              /\ pc' = [pc EXCEPT ![r] = p]
              /\ p = "error" => S = {}
              /\ \A i, j \in S : i = j
              /\ \A i \in S : i \in NullRows(r) /\ <<who[r], i>> \in links /\ i <= size
      BY <1>11, AssignFacts
    <2>2. /\ pc[r] = "assign" /\ r # None /\ UNCHANGED <<size, links, op, who, view>>
      BY <1>11, AssignFacts
    <2>3. \A q \in Requests : NullRows(q)' = NullRows(q)
      BY <2>2 DEF NullRows
    <2>4. \A i \in Rows : list'[i] = None => list[i] = None
      BY <2>1, <2>2
    <2>5. \A i \in Rows, q \in Requests : list'[i] = q => i \in NullRows(q)
      BY <2>1 DEF ViewInv
    <2>6. \A q \in Requests : view[q] # {} =>
              pc'[q] \in {"assign", "link", "access", "ok", "error"}
      BY <2>1 DEF ViewInv, TypeOK
    <2> QED BY <2>2, <2>3, <2>4, <2>5, <2>6 DEF ViewInv
  <1>12. ASSUME NEW r \in Requests, Fail(r) PROVE ViewInv'
    <2>1. UNCHANGED <<list, size, links, view>>
      BY <1>12 DEF Fail
    <2>2. \A q \in Requests : view[q] # {} =>
              /\ op'[q] = op[q] /\ who'[q] = who[q]
              /\ pc'[q] \in {"assign", "link", "access", "ok", "error"}
      BY <1>12 DEF Fail, TypeOK, PhaseInv, ViewInv
    <2> QED BY <2>1, <2>2, ViewKept
  <1>13. ASSUME NEW u \in Users, CreateUser(u) PROVE ViewInv'
    <2>1. UNCHANGED <<list, size, links, view>>
      BY <1>13 DEF CreateUser
    <2>2. \A q \in Requests : view[q] # {} =>
              /\ op'[q] = op[q] /\ who'[q] = who[q]
              /\ pc'[q] \in {"assign", "link", "access", "ok", "error"}
      BY <1>13 DEF CreateUser, TypeOK, PhaseInv, ViewInv
    <2> QED BY <2>1, <2>2, ViewKept
  <1>14. ASSUME NEW u \in Users, Block(u) PROVE ViewInv'
    <2>1. UNCHANGED <<list, size, links, view>>
      BY <1>14 DEF Block
    <2>2. \A q \in Requests : view[q] # {} =>
              /\ op'[q] = op[q] /\ who'[q] = who[q]
              /\ pc'[q] \in {"assign", "link", "access", "ok", "error"}
      BY <1>14 DEF Block, TypeOK, PhaseInv, ViewInv
    <2> QED BY <2>1, <2>2, ViewKept
  <1>15. CASE Crash
    <2>1. UNCHANGED <<list, size, links, view>>
      BY <1>15 DEF Crash
    <2>2. \A q \in Requests : view[q] # {} =>
              /\ op'[q] = op[q] /\ who'[q] = who[q]
              /\ pc'[q] \in {"assign", "link", "access", "ok", "error"}
      BY <1>15 DEF Crash, TypeOK, PhaseInv, ViewInv
    <2> QED BY <2>1, <2>2, ViewKept
  <1>16. CASE Finished
    <2>1. UNCHANGED <<list, size, links, view>>
      BY <1>16 DEF Finished, vars
    <2>2. \A q \in Requests : view[q] # {} =>
              /\ op'[q] = op[q] /\ who'[q] = who[q]
              /\ pc'[q] \in {"assign", "link", "access", "ok", "error"}
      BY <1>16 DEF Finished, vars, TypeOK, PhaseInv, ViewInv
    <2> QED BY <2>1, <2>2, ViewKept
  <1>17. ASSUME NEW r \in Requests, ApproveUserMerchant(r) PROVE ViewInv'
    <2>1. /\ pc[r] = "approve" /\ op[r] = "approve" /\ pc' = [pc EXCEPT ![r] = "assign"]
          /\ UNCHANGED <<list, size, links, op, who>>
      BY <1>17, SnapshotFacts DEF PhaseInv
    <2>2. \A q \in Requests : q # r => view'[q] = view[q] /\ NullRows(q)' = NullRows(q)
      BY <1>17, SnapshotFacts
    <2>3. \A i \in NullRows(r)' : i \in Rows /\ list[i] = None /\ <<who[r], i>> \in links /\ i <= size
      BY <1>17, SnapshotFacts DEF Pending, TypeOK
    <2>4. \A q \in Requests : view'[q] # {} =>
              op[q] = "approve" /\ pc'[q] \in {"assign", "link", "access", "ok", "error"}
      BY <2>1, <2>2 DEF ViewInv, TypeOK
    <2>5. \A q \in Requests : q # r /\ NullRows(q) \cap NullRows(r)' # {} => who[q] = who[r]
      <3>1. SUFFICES ASSUME NEW q \in Requests, NEW i \in NullRows(q), q # r, i \in NullRows(r)'
                     PROVE  who[q] = who[r]
        OBVIOUS
      <3>2. /\ i \in Rows /\ list[i] = None
            /\ <<who[q], i>> \in links /\ <<who[r], i>> \in links
        BY <2>3, <3>1 DEF ViewInv
      <3>3. \A l1, l2 \in links : l1[2] = i /\ l2[2] = i => l1[1] = l2[1]
        BY <3>2 DEF ViewInv
      <3> QED BY <3>2, <3>3
    <2>6. \A i \in Rows : list[i] # r
      BY <2>1 DEF ListInv
    <2> QED BY <2>1, <2>2, <2>3, <2>4, <2>5, <2>6 DEF ViewInv
  <1> QED BY <1>1, <1>2, <1>3, <1>4, <1>5, <1>6, <1>7, <1>8,
         <1>9, <1>10, <1>11, <1>12, <1>13, <1>14, <1>15, <1>16, <1>17 DEF Next, Http, Handle

(* Whoever is or will be marked onboarded has a merchant.                   *)
LEMMA GrantStep ==
    ASSUME TypeOK, PhaseInv, ListInv, ViewInv, GrantInv, Next
    PROVE  GrantInv'
  <1> USE OnboardingAssumption DEF Goto, tables, request, Merchants, Rows
  <1>1. ASSUME NEW r \in Requests, WizardNames(r) PROVE GrantInv'
    <2>1. \A u \in Users : HasMerchant(u) => HasMerchant(u)'
      BY <1>1, MerchantKept DEF WizardNames, PageWizardMerchantUpdate, TypeOK
    <2> QED BY <1>1, <2>1 DEF WizardNames, PageWizardMerchantUpdate, TypeOK, PhaseInv,
       GrantInv, OnboardedHasMerchant, Writing
  <1>2. ASSUME NEW r \in Requests, WizardLink(r) PROVE GrantInv'
    <2>1. \A u \in Users : HasMerchant(u) => HasMerchant(u)'
      BY <1>2, MerchantKept DEF WizardLink, PageWizardMerchantUpdate, TypeOK
    <2> QED BY <1>2, <2>1 DEF WizardLink, PageWizardMerchantUpdate, TypeOK, PhaseInv,
       GrantInv, OnboardedHasMerchant, Writing
  <1>3. ASSUME NEW r \in Requests, WizardRequest(r) PROVE GrantInv'
    <2>1. \A u \in Users : HasMerchant(u) => HasMerchant(u)'
      BY <1>3, MerchantKept DEF WizardRequest, PageWizardMerchantUpdate, TypeOK
    <2> QED BY <1>3, <2>1 DEF WizardRequest, PageWizardMerchantUpdate, TypeOK, PhaseInv,
       GrantInv, OnboardedHasMerchant, Writing
  <1>4. ASSUME NEW r \in Requests, PageRequestsAdminUpdate(r) PROVE GrantInv'
    <2>1. \A u \in Users : HasMerchant(u) => HasMerchant(u)'
      BY <1>4, MerchantKept DEF PageRequestsAdminUpdate, TypeOK
    <2> QED BY <1>4, <2>1 DEF PageRequestsAdminUpdate, TypeOK, PhaseInv, GrantInv,
       OnboardedHasMerchant, Writing
  <1>5. ASSUME NEW r \in Requests, UpdateUser(r) PROVE GrantInv'
    <2>1. \A u \in Users : HasMerchant(u) => HasMerchant(u)'
      BY <1>5, MerchantKept DEF UpdateUser, WriteAccess, TypeOK
    <2> QED BY <1>5, <2>1 DEF UpdateUser, WriteAccess, TypeOK, PhaseInv, GrantInv,
       OnboardedHasMerchant, Writing
  <1>6. ASSUME NEW r \in Requests, SetUserAccess(r) PROVE GrantInv'
    <2>1. \A u \in Users : HasMerchant(u) => HasMerchant(u)'
      BY <1>6, MerchantKept DEF SetUserAccess, WriteAccess, SetOnboarded, TypeOK
    <2> QED BY <1>6, <2>1 DEF SetUserAccess, WriteAccess, SetOnboarded, TypeOK, PhaseInv,
       GrantInv, OnboardedHasMerchant, Writing
  <1>7. ASSUME NEW r \in Requests, LinkUserToMerchant(r) PROVE GrantInv'
    <2>1. \A u \in Users : HasMerchant(u) => HasMerchant(u)'
      BY <1>7, MerchantKept, LinkFacts
    <2>2. pc'[r] = "access" => HasMerchant(who[r])'
      <3>1. SUFFICES ASSUME NEW i \in RowsOf(mid[r]) PROVE HasMerchant(who[r])'
        BY <1>7, LinkFacts DEF TypeOK
      <3>2. MerchantOf(i) = mid[r] /\ mid[r] # None
        BY <1>7, LinkFacts DEF RowsOf, MerchantOf
      <3>3. MerchantOf(i)' = MerchantOf(i) /\ <<who[r], i>> \in links' /\ who' = who
        BY <1>7, LinkFacts DEF MerchantOf
      <3> QED BY <3>2, <3>3 DEF HasMerchant
    <2>3. OnboardedHasMerchant'
      BY <1>7, <2>1, LinkFacts DEF GrantInv, OnboardedHasMerchant
    <2>4. \A q \in Requests : pc'[q] \in Writing => pc[q] \in Writing
      BY <1>7, LinkFacts DEF TypeOK, Writing
    <2>5. \A q \in Requests : q # r => pc'[q] = pc[q]
      BY <1>7, LinkFacts DEF TypeOK
    <2>6. UNCHANGED <<who, seen>> /\ \A q \in Requests : pc[q] \in Writing => who[q] \in Users
      BY <1>7, LinkFacts DEF TypeOK, Writing
    <2> QED BY <2>1, <2>2, <2>3, <2>4, <2>5, <2>6 DEF GrantInv, Writing
  <1>8. ASSUME NEW r \in Requests, RequestMerchantForUser(r) PROVE GrantInv'
    <2>1. \A u \in Users : HasMerchant(u) => HasMerchant(u)'
      BY <1>8, MerchantKept DEF RequestMerchantForUser, TypeOK
    <2> QED BY <1>8, <2>1 DEF RequestMerchantForUser, TypeOK, PhaseInv, GrantInv,
       OnboardedHasMerchant, Writing
  <1>9. ASSUME NEW r \in Requests, CreateMerchants(r) PROVE GrantInv'
    <2>1. \A u \in Users : HasMerchant(u) => HasMerchant(u)'
      BY <1>9, MerchantKept DEF CreateMerchants, TypeOK
    <2> QED BY <1>9, <2>1 DEF CreateMerchants, TypeOK, PhaseInv, GrantInv,
       OnboardedHasMerchant, Writing
  <1>10. ASSUME NEW r \in Requests, GetUser(r) PROVE GrantInv'
    <2>1. \A u \in Users : HasMerchant(u) => HasMerchant(u)'
      BY <1>10, MerchantKept DEF GetUser, TypeOK
    <2> QED BY <1>10, <2>1 DEF GetUser, TypeOK, PhaseInv, GrantInv, OnboardedHasMerchant,
       Writing
  <1>11. ASSUME NEW r \in Requests, AssignMerchantId(r) PROVE GrantInv'
    <2>1. PICK S \in SUBSET Rows, p \in {"link", "error"} :
              /\ list' = [i \in Rows |-> IF i \in S THEN r ELSE list[i]]
              /\ pc' = [pc EXCEPT ![r] = p]
              /\ p = "error" => S = {}
              /\ \A i, j \in S : i = j
              /\ \A i \in S : i \in NullRows(r) /\ <<who[r], i>> \in links /\ i <= size
      BY <1>11, AssignFacts
    <2>2. /\ pc[r] = "assign" /\ op[r] = "approve" /\ mid[r] = r /\ r # None
          /\ \A i \in Rows : list[i] # r
          /\ UNCHANGED <<user, merchants, size, links, op, who, mid, seen, view,
                         blocked, faults, undone, failed>>
      BY <1>11, AssignFacts
    <2>3. \A u \in Users : HasMerchant(u) => HasMerchant(u)'
      BY <2>1, <2>2, MerchantKept
    <2> QED BY <2>1, <2>2, <2>3 DEF GrantInv, OnboardedHasMerchant, TypeOK, Writing
  <1>12. ASSUME NEW r \in Requests, Fail(r) PROVE GrantInv'
    <2>1. \A u \in Users : HasMerchant(u) => HasMerchant(u)'
      BY <1>12, MerchantKept DEF Fail, Unfinished, TypeOK
    <2> QED BY <1>12, <2>1 DEF Fail, Unfinished, TypeOK, PhaseInv, GrantInv,
       OnboardedHasMerchant, Writing
  <1>13. ASSUME NEW w \in Users, CreateUser(w) PROVE GrantInv'
    <2>1. \A u \in Users : HasMerchant(u) => HasMerchant(u)'
      BY <1>13, MerchantKept DEF CreateUser, TypeOK
    <2> QED BY <1>13, <2>1 DEF CreateUser, TypeOK, PhaseInv, GrantInv, OnboardedHasMerchant,
       Writing
  <1>14. ASSUME NEW w \in Users, Block(w) PROVE GrantInv'
    <2>1. \A u \in Users : HasMerchant(u) => HasMerchant(u)'
      BY <1>14, MerchantKept DEF Block, TypeOK
    <2> QED BY <1>14, <2>1 DEF Block, TypeOK, PhaseInv, GrantInv, OnboardedHasMerchant, Writing
  <1>15. CASE Crash
    <2>1. \A u \in Users : HasMerchant(u) => HasMerchant(u)'
      BY <1>15, MerchantKept DEF Crash, TypeOK
    <2> QED BY <1>15, <2>1 DEF Crash, Unfinished, TypeOK, PhaseInv, GrantInv,
       OnboardedHasMerchant, Writing
  <1>16. CASE Finished
    <2>1. \A u \in Users : HasMerchant(u) => HasMerchant(u)'
      BY <1>16, MerchantKept DEF Finished, vars, TypeOK
    <2> QED BY <1>16, <2>1 DEF Finished, vars, TypeOK, PhaseInv, GrantInv,
       OnboardedHasMerchant, Writing
  <1>17. ASSUME NEW r \in Requests, ApproveUserMerchant(r) PROVE GrantInv'
    <2>1. \A u \in Users : HasMerchant(u) => HasMerchant(u)'
      BY <1>17, MerchantKept, SnapshotFacts
    <2> QED BY <1>17, <2>1, SnapshotFacts DEF GrantInv, OnboardedHasMerchant, TypeOK, Writing
  <1> QED BY <1>1, <1>2, <1>3, <1>4, <1>5, <1>6, <1>7, <1>8,
         <1>9, <1>10, <1>11, <1>12, <1>13, <1>14, <1>15, <1>16, <1>17 DEF Next, Http, Handle

(* A row an approval has filled stays filled.                              *)
LEMMA ApprovedStep ==
    ASSUME TypeOK, PhaseInv, ListInv, ViewInv, ApprovedInv, Next
    PROVE  ApprovedInv'
  <1> USE OnboardingAssumption DEF Goto, tables, request, Merchants, Rows
  <1>1. ASSUME NEW r \in Requests, WizardNames(r) PROVE ApprovedInv'
    BY <1>1 DEF WizardNames, PageWizardMerchantUpdate, TypeOK, PhaseInv, ListInv, ApprovedInv,
       NullRows
  <1>2. ASSUME NEW r \in Requests, WizardLink(r) PROVE ApprovedInv'
    BY <1>2 DEF WizardLink, PageWizardMerchantUpdate, TypeOK, PhaseInv, ListInv, ApprovedInv,
       NullRows
  <1>3. ASSUME NEW r \in Requests, WizardRequest(r) PROVE ApprovedInv'
    BY <1>3 DEF WizardRequest, PageWizardMerchantUpdate, TypeOK, PhaseInv, ListInv, ApprovedInv,
       NullRows
  <1>4. ASSUME NEW r \in Requests, PageRequestsAdminUpdate(r) PROVE ApprovedInv'
    BY <1>4 DEF PageRequestsAdminUpdate, TypeOK, PhaseInv, ListInv, ApprovedInv,
       NullRows
  <1>5. ASSUME NEW r \in Requests, UpdateUser(r) PROVE ApprovedInv'
    BY <1>5 DEF UpdateUser, WriteAccess, TypeOK, PhaseInv, ListInv, ApprovedInv,
       NullRows
  <1>6. ASSUME NEW r \in Requests, SetUserAccess(r) PROVE ApprovedInv'
    BY <1>6 DEF SetUserAccess, WriteAccess, SetOnboarded, TypeOK, PhaseInv, ListInv, ApprovedInv,
       NullRows
  <1>7. ASSUME NEW r \in Requests, LinkUserToMerchant(r) PROVE ApprovedInv'
    <2>1. \A q \in Requests : q # r => pc'[q] = pc[q]
      BY <1>7, LinkFacts DEF TypeOK
    <2>2. op[r] = "approve" /\ pc'[r] \in {"access", "ok"} =>
              \E i \in NullRows(r) : list[i] # None
      <3>1. SUFFICES ASSUME op[r] = "approve", NEW i \in RowsOf(r)
                     PROVE  i \in NullRows(r) /\ list[i] # None
        BY <1>7, LinkFacts DEF TypeOK, PhaseInv
      <3> QED BY <3>1, RowsOfRequest DEF ViewInv
    <2>3. UNCHANGED <<list, op>> /\ \A q \in Requests : NullRows(q)' = NullRows(q)
      BY <1>7, LinkFacts DEF NullRows
    <2> QED BY <2>1, <2>2, <2>3 DEF ApprovedInv
  <1>8. ASSUME NEW r \in Requests, RequestMerchantForUser(r) PROVE ApprovedInv'
    BY <1>8 DEF RequestMerchantForUser, TypeOK, PhaseInv, ListInv, ApprovedInv,
       NullRows
  <1>9. ASSUME NEW r \in Requests, CreateMerchants(r) PROVE ApprovedInv'
    BY <1>9 DEF CreateMerchants, TypeOK, PhaseInv, ListInv, ApprovedInv,
       NullRows
  <1>10. ASSUME NEW r \in Requests, GetUser(r) PROVE ApprovedInv'
    BY <1>10 DEF GetUser, TypeOK, PhaseInv, ListInv, ApprovedInv,
       NullRows
  <1>11. ASSUME NEW r \in Requests, AssignMerchantId(r) PROVE ApprovedInv'
    <2>1. PICK S \in SUBSET Rows, p \in {"link", "error"} :
              /\ list' = [i \in Rows |-> IF i \in S THEN r ELSE list[i]]
              /\ pc' = [pc EXCEPT ![r] = p]
              /\ p = "error" => S = {}
              /\ \A i, j \in S : i = j
              /\ \A i \in S : i \in NullRows(r) /\ <<who[r], i>> \in links /\ i <= size
      BY <1>11, AssignFacts
    <2>2. /\ pc[r] = "assign" /\ op[r] = "approve" /\ mid[r] = r /\ r # None
          /\ \A i \in Rows : list[i] # r
          /\ UNCHANGED <<user, merchants, size, links, op, who, mid, seen, view,
                         blocked, faults, undone, failed>>
      BY <1>11, AssignFacts
    <2>3. \A i \in Rows : list[i] # None => list'[i] # None
      BY <2>1, <2>2
    <2>4. \A q \in Requests : pc'[q] \in {"access", "ok"} => pc[q] \in {"access", "ok"}
      BY <2>1 DEF TypeOK
    <2>5. \A q \in Requests : NullRows(q)' = NullRows(q) /\ NullRows(q) \subseteq Rows
      BY <2>2 DEF NullRows
    <2> QED BY <2>2, <2>3, <2>4, <2>5 DEF ApprovedInv
  <1>12. ASSUME NEW r \in Requests, Fail(r) PROVE ApprovedInv'
    <2>1. UNCHANGED <<list, op>> /\ \A q \in Requests : NullRows(q)' = NullRows(q)
      BY <1>12 DEF Fail, NullRows
    <2>2. \A q \in Requests : pc'[q] \in {"access", "ok"} => pc[q] \in {"access", "ok"}
      BY <1>12 DEF Fail, TypeOK
    <2> QED BY <2>1, <2>2 DEF ApprovedInv
  <1>13. ASSUME NEW u \in Users, CreateUser(u) PROVE ApprovedInv'
    BY <1>13 DEF CreateUser, TypeOK, PhaseInv, ListInv, ApprovedInv,
       NullRows
  <1>14. ASSUME NEW u \in Users, Block(u) PROVE ApprovedInv'
    BY <1>14 DEF Block, TypeOK, PhaseInv, ListInv, ApprovedInv,
       NullRows
  <1>15. CASE Crash
    BY <1>15 DEF Crash, Unfinished, TypeOK, PhaseInv, ListInv, ApprovedInv,
       NullRows
  <1>16. CASE Finished
    BY <1>16 DEF Finished, vars, TypeOK, PhaseInv, ListInv, ApprovedInv,
       NullRows
  <1>17. ASSUME NEW r \in Requests, ApproveUserMerchant(r) PROVE ApprovedInv'
    BY <1>17, SnapshotFacts DEF ApprovedInv, TypeOK
  <1> QED BY <1>1, <1>2, <1>3, <1>4, <1>5, <1>6, <1>7, <1>8,
         <1>9, <1>10, <1>11, <1>12, <1>13, <1>14, <1>15, <1>16, <1>17 DEF Next, Http, Handle

(* A step leaves a merchant's user onboarded, or an excuse.                 *)
LEMMA GrantedStep ==
    ASSUME TypeOK, PhaseInv, ListInv, ViewInv, GrantedIsOnboarded, Next
    PROVE  GrantedIsOnboarded'
  <1> USE OnboardingAssumption DEF Goto, tables, request, Merchants, Rows
  <1>1. ASSUME NEW r \in Requests, WizardNames(r) PROVE GrantedIsOnboarded'
    BY <1>1 DEF WizardNames, PageWizardMerchantUpdate, TypeOK, PhaseInv, ListInv,
       GrantedIsOnboarded, RowsOf, Unfinished
  <1>2. ASSUME NEW r \in Requests, WizardLink(r) PROVE GrantedIsOnboarded'
    BY <1>2 DEF WizardLink, PageWizardMerchantUpdate, TypeOK, PhaseInv, ListInv,
       GrantedIsOnboarded, RowsOf, Unfinished
  <1>3. ASSUME NEW r \in Requests, WizardRequest(r) PROVE GrantedIsOnboarded'
    BY <1>3 DEF WizardRequest, PageWizardMerchantUpdate, TypeOK, PhaseInv, ListInv,
       GrantedIsOnboarded, RowsOf, Unfinished
  <1>4. ASSUME NEW r \in Requests, PageRequestsAdminUpdate(r) PROVE GrantedIsOnboarded'
    BY <1>4 DEF PageRequestsAdminUpdate, TypeOK, PhaseInv, ListInv, GrantedIsOnboarded,
       RowsOf, Unfinished
  <1>5. ASSUME NEW r \in Requests, UpdateUser(r) PROVE GrantedIsOnboarded'
    BY <1>5 DEF UpdateUser, WriteAccess, TypeOK, PhaseInv, ListInv, GrantedIsOnboarded,
       RowsOf, Unfinished
  <1>6. ASSUME NEW r \in Requests, SetUserAccess(r) PROVE GrantedIsOnboarded'
    BY <1>6 DEF SetUserAccess, WriteAccess, SetOnboarded, TypeOK, PhaseInv, ListInv,
       GrantedIsOnboarded, RowsOf, Unfinished
  <1>7. ASSUME NEW r \in Requests, LinkUserToMerchant(r) PROVE GrantedIsOnboarded'
    <2>1. \A q \in Requests : RowsOf(q)' = RowsOf(q)
      BY <1>7, LinkFacts DEF RowsOf
    <2>2. \A q \in Requests : q # r => pc'[q] = pc[q]
      <3>1. pc \in [Requests -> Phases]
        BY DEF TypeOK
      <3>2. \E p \in {"access", "error"} : pc' = [pc EXCEPT ![r] = p]
        BY <1>7, LinkFacts
      <3> QED BY <3>1, <3>2
    <2>3. /\ pc'[r] \in {"access", "error"}
          /\ pc'[r] = "error" /\ op[r] = "approve" => RowsOf(r) = {}
          /\ op[r] = "link" => RowsOf(r) = {}
      <3>1. pc'[r] \in {"access", "error"} /\ (pc'[r] = "error" => RowsOf(mid[r]) = {})
        BY <1>7, LinkFacts DEF TypeOK
      <3>2. op[r] = "approve" => mid[r] = r
        BY DEF PhaseInv
      <3>3. op[r] = "link" => \A i \in Rows : list[i] # r
        BY OnboardingAssumption DEF ListInv, Merchants
      <3> QED BY <3>1, <3>2, <3>3, RowsOfRequest
    <2>4. UNCHANGED <<user, op, who, failed, undone>>
      BY <1>7, LinkFacts
    <2>5. \A q \in Requests : q # r => Unfinished(q)' = Unfinished(q)
      BY <2>2 DEF Unfinished
    <2>6. pc'[r] = "access" => Unfinished(r)'
      BY DEF Unfinished
    <2> QED BY <2>1, <2>2, <2>3, <2>4, <2>5, <2>6 DEF GrantedIsOnboarded
  <1>8. ASSUME NEW r \in Requests, RequestMerchantForUser(r) PROVE GrantedIsOnboarded'
    BY <1>8 DEF RequestMerchantForUser, TypeOK, PhaseInv, ListInv, GrantedIsOnboarded,
       RowsOf, Unfinished
  <1>9. ASSUME NEW r \in Requests, CreateMerchants(r) PROVE GrantedIsOnboarded'
    BY <1>9 DEF CreateMerchants, TypeOK, PhaseInv, ListInv, GrantedIsOnboarded, RowsOf,
       Unfinished
  <1>10. ASSUME NEW r \in Requests, GetUser(r) PROVE GrantedIsOnboarded'
    BY <1>10 DEF GetUser, TypeOK, PhaseInv, ListInv, GrantedIsOnboarded, RowsOf, Unfinished
  <1>11. ASSUME NEW r \in Requests, AssignMerchantId(r) PROVE GrantedIsOnboarded'
    <2>1. PICK S \in SUBSET Rows, p \in {"link", "error"} :
              /\ list' = [i \in Rows |-> IF i \in S THEN r ELSE list[i]]
              /\ pc' = [pc EXCEPT ![r] = p]
              /\ p = "error" => S = {}
              /\ \A i, j \in S : i = j
              /\ \A i \in S : i \in NullRows(r) /\ <<who[r], i>> \in links /\ i <= size
      BY <1>11, AssignFacts
    <2>2. /\ pc[r] = "assign" /\ op[r] = "approve" /\ mid[r] = r /\ r # None
          /\ \A i \in Rows : list[i] # r
          /\ UNCHANGED <<user, merchants, size, links, op, who, mid, seen, view,
                         blocked, faults, undone, failed>>
      BY <1>11, AssignFacts
    <2>3. ListInv' /\ TypeOK'
      BY <1>11, ListStep, TypeStep DEF Next, Handle
    <2>4. \A q \in Requests : RowsOf(q)' = {i \in Rows : list'[i] = q}
      <3>1. \A q \in Requests, i \in Rows : list'[i] = q => i <= size'
        BY <2>3, OnboardingAssumption DEF Merchants, ListInv, TypeOK
      <3> QED BY <3>1, OnboardingAssumption DEF RowsOf, Merchants
    <2>5. \A q \in Requests : q # r => RowsOf(q)' \subseteq RowsOf(q) /\ pc'[q] = pc[q]
      <3>1. \A q \in Requests, i \in Rows : q # r /\ list'[i] = q => list[i] = q
        BY <2>1
      <3>2. \A q \in Requests : RowsOf(q) = {i \in Rows : list[i] = q}
        BY RowsOfRequest
      <3>3. \A q \in Requests : q # r => RowsOf(q)' \subseteq RowsOf(q)
        BY <2>4, <3>1, <3>2
      <3>4. \A q \in Requests : q # r => pc'[q] = pc[q]
        BY <2>1 DEF TypeOK
      <3> QED BY <3>3, <3>4
    <2>6. pc'[r] # "ok" /\ (pc'[r] = "link" \/ RowsOf(r)' = {})
      <3>1. p = "error" => \A i \in Rows : list'[i] # r
        BY <2>1, <2>2
      <3>2. pc'[r] = p
        BY <2>1 DEF TypeOK
      <3> QED BY <2>4, <3>1, <3>2
    <2>7. \A q \in Requests : q # r => Unfinished(q)' = Unfinished(q)
      BY <2>5 DEF Unfinished
    <2>8. pc'[r] = "link" => Unfinished(r)'
      BY DEF Unfinished
    <2> QED BY <2>2, <2>5, <2>6, <2>7, <2>8 DEF GrantedIsOnboarded
  <1>12. ASSUME NEW r \in Requests, Fail(r) PROVE GrantedIsOnboarded'
    BY <1>12 DEF Fail, Unfinished, TypeOK, PhaseInv, ListInv, GrantedIsOnboarded, RowsOf,
       Unfinished
  <1>13. ASSUME NEW u \in Users, CreateUser(u) PROVE GrantedIsOnboarded'
    BY <1>13 DEF CreateUser, TypeOK, PhaseInv, ListInv, GrantedIsOnboarded, RowsOf, Unfinished
  <1>14. ASSUME NEW u \in Users, Block(u) PROVE GrantedIsOnboarded'
    BY <1>14 DEF Block, TypeOK, PhaseInv, ListInv, GrantedIsOnboarded, RowsOf, Unfinished
  <1>15. CASE Crash
    BY <1>15 DEF Crash, Unfinished, TypeOK, PhaseInv, ListInv, GrantedIsOnboarded, RowsOf,
       Unfinished
  <1>16. CASE Finished
    BY <1>16 DEF Finished, vars, TypeOK, PhaseInv, ListInv, GrantedIsOnboarded, RowsOf,
       Unfinished
  <1>17. ASSUME NEW r \in Requests, ApproveUserMerchant(r) PROVE GrantedIsOnboarded'
    BY <1>17, SnapshotFacts DEF GrantedIsOnboarded, RowsOf, Unfinished, TypeOK
  <1> QED BY <1>1, <1>2, <1>3, <1>4, <1>5, <1>6, <1>7, <1>8,
         <1>9, <1>10, <1>11, <1>12, <1>13, <1>14, <1>15, <1>16, <1>17 DEF Next, Http, Handle

---------------------------------------------------------------------------
(* The inductive invariant.                                                *)
IInv == TypeOK /\ PhaseInv /\ ListInv /\ ViewInv /\ GrantInv /\ ApprovedInv /\ GrantedIsOnboarded

LEMMA IInvInit ==
    ASSUME Init
    PROVE  IInv
  <1> USE OnboardingAssumption DEF Init, Merchants, Rows
  <1>1. TypeOK
    BY DEF TypeOK, Operations, Phases, Access
  <1>2. PhaseInv /\ ApprovedInv
    BY DEF PhaseInv, ApprovedInv
  <1>3. ListInv /\ ViewInv
    BY DEF ListInv, ViewInv, NullRows
  <1>4. GrantInv
    BY DEF GrantInv, OnboardedHasMerchant, Writing
  <1>5. GrantedIsOnboarded
    BY DEF GrantedIsOnboarded
  <1> QED BY <1>1, <1>2, <1>3, <1>4, <1>5 DEF IInv

LEMMA Invariance == Spec => []IInv
  <1>1. IInv /\ [Next]_vars => IInv'
    <2>1. SUFFICES ASSUME IInv, [Next]_vars PROVE IInv'
      OBVIOUS
    <2>2. CASE Next
      BY <2>1, <2>2, TypeStep, PhaseStep, ListStep, ViewStep, GrantStep, ApprovedStep, GrantedStep
         DEF IInv
    <2>3. CASE UNCHANGED vars
      <3>2. TypeOK' /\ PhaseInv' /\ ApprovedInv'
        BY <2>1, <2>3 DEF vars, IInv, TypeOK, PhaseInv, ApprovedInv, NullRows
      <3>3. ListInv' /\ ViewInv' /\ GrantedIsOnboarded'
        BY <2>1, <2>3 DEF vars, IInv, ListInv, ViewInv, NullRows, GrantedIsOnboarded,
           RowsOf, Unfinished
      <3>4. GrantInv'
        BY <2>1, <2>3 DEF vars, IInv, GrantInv, OnboardedHasMerchant, HasMerchant, MerchantOf
      <3> QED BY <3>2, <3>3, <3>4 DEF IInv
    <2> QED BY <2>1, <2>2, <2>3
  <1> QED BY <1>1, IInvInit, PTL DEF Spec

---------------------------------------------------------------------------
(* The variables keep their types; only users with a row have links.       *)
THEOREM TypeCorrect == Spec => []TypeOK
  <1>1. IInv => TypeOK
    BY DEF IInv
  <1> QED BY <1>1, Invariance, PTL

(* Whatever older rows the forms write back, a user marked onboarded is    *)
(* linked to a merchant.                                                   *)
THEOREM OnboardedCorrect == Spec => []OnboardedHasMerchant
  <1>1. IInv => OnboardedHasMerchant
    BY DEF IInv, GrantInv
  <1> QED BY <1>1, Invariance, PTL

(* The merchant of a session is stored: the approval stores it before it   *)
(* fills the row.                                                          *)
THEOREM SessionCorrect == Spec => []SessionIsStored
  <1>1. IInv => SessionIsStored
    <2>1. SUFFICES ASSUME IInv, NEW u \in Users, Pending(u) = {},
                          NEW j \in Rows \cup {0}, <<u, j>> \in links
                   PROVE  MerchantOf(j) \in merchants
      BY DEF SessionIsStored, SessionMerchants
    <2>2. CASE j = 0
      BY <2>1, <2>2 DEF IInv, ListInv, MerchantOf
    <2>3. CASE j # 0
      BY <2>1, <2>3 DEF IInv, ListInv, MerchantOf, Pending
    <2> QED BY <2>2, <2>3
  <1> QED BY <1>1, Invariance, PTL

(* However many administrators approve a user at once, an approval         *)
(* answered as done has filled one row of that user, and if the row no     *)
(* longer has its merchant, an approval that overlapped it has taken it.   *)
THEOREM ApprovedCorrect == Spec => []ApprovedOrOverwritten
  <1>1. IInv => ApprovedOrOverwritten
    <2>1. SUFFICES ASSUME IInv, NEW r \in Requests, op[r] = "approve", pc[r] = "ok"
                   PROVE  \E i \in NullRows(r) :
                              /\ <<who[r], i>> \in links /\ RowsOf(r) \subseteq {i}
                              /\ \E q \in Requests : /\ list[i] = q /\ who[q] = who[r]
                                                      /\ <<i, None>> \in view[q]
      BY DEF ApprovedOrOverwritten
    <2>2. PICK i \in NullRows(r) : list[i] # None /\ RowsOf(r) \subseteq {i}
      <3>1. RowsOf(r) = {i \in Rows : list[i] = r}
        BY <2>1, RowsOfRequest DEF IInv
      <3>2. CASE RowsOf(r) = {}
        BY <2>1, <3>2 DEF IInv, ApprovedInv
      <3>3. CASE RowsOf(r) # {}
        <4>1. PICK i \in Rows : list[i] = r
          BY <3>1, <3>3
        <4>2. r # None
          BY OnboardingAssumption DEF Merchants
        <4>3. i \in NullRows(r) /\ RowsOf(r) \subseteq {i}
          BY <2>1, <3>1, <4>1, <4>2 DEF IInv, ListInv, ViewInv
        <4> QED BY <4>1, <4>2, <4>3
      <3> QED BY <3>2, <3>3
    <2>3. i \in Rows /\ list[i] \in Requests /\ i \in NullRows(list[i])
      BY <2>1, <2>2 DEF IInv, ListInv, ViewInv, NullRows
    <2>4. who[list[i]] = who[r]
      BY <2>1, <2>2, <2>3 DEF IInv, ViewInv
    <2>5. <<who[r], i>> \in links
      BY <2>1, <2>2 DEF IInv, ViewInv
    <2>6. <<i, None>> \in view[list[i]]
      BY <2>3 DEF NullRows
    <2> QED BY <2>2, <2>3, <2>4, <2>5, <2>6
  <1> QED BY <1>1, Invariance, PTL

(* Who got a merchant is marked onboarded, unless a statement failed or an *)
(* older row was written back.                                             *)
THEOREM GrantedCorrect == Spec => []GrantedIsOnboarded
  <1>1. IInv => GrantedIsOnboarded
    BY DEF IInv
  <1> QED BY <1>1, Invariance, PTL

(* A write takes back access bits only when the request read them before.  *)
LEMMA AccessStep ==
    ASSUME TypeOK, [Next]_vars
    PROVE  KeepsAccess
  <1>1. CASE user' = user
    BY <1>1 DEF KeepsAccess
  <1>2. ASSUME NEW r \in Requests, UpdateUser(r) PROVE KeepsAccess
    <2>1. /\ pc[r] = "update" /\ pc'[r] = "ok"
          /\ user' = [user EXCEPT ![who[r]] = seen[r]]
      BY <1>2 DEF UpdateUser, WriteAccess, Goto, TypeOK
    <2>2. [seen[r] EXCEPT !.onboarded = @ \/ pc[r] = "access"] = seen[r]
      <3>1. seen[r] \in Access
        BY <2>1 DEF TypeOK
      <3> QED BY <2>1, <3>1 DEF Access
    <2> QED BY <2>1, <2>2 DEF KeepsAccess, TypeOK
  <1>3. ASSUME NEW r \in Requests, SetUserAccess(r) PROVE KeepsAccess
    <2>1. /\ pc[r] = "access" /\ pc'[r] = "ok"
          /\ user' = [user EXCEPT ![who[r]] = [seen[r] EXCEPT !.onboarded = TRUE]]
      BY <1>3 DEF SetUserAccess, WriteAccess, SetOnboarded, Goto, TypeOK
    <2>2. [seen[r] EXCEPT !.onboarded = @ \/ pc[r] = "access"] = [seen[r] EXCEPT !.onboarded = TRUE]
      BY <2>1
    <2> QED BY <2>1, <2>2 DEF KeepsAccess, TypeOK
  <1>4. ASSUME NEW u \in Users, CreateUser(u) PROVE KeepsAccess
    BY <1>4 DEF CreateUser, KeepsAccess, TypeOK
  <1>5. ASSUME NEW u \in Users, Block(u) PROVE KeepsAccess
    <2>1. /\ user' = [user EXCEPT ![u] = [user[u] EXCEPT !.registered = FALSE]]
          /\ blocked' > blocked
      BY <1>5, OnboardingAssumption DEF Block, TypeOK
    <2> QED BY <2>1 DEF KeepsAccess, TypeOK
  <1>6. Next => \/ user' = user
                \/ \E r \in Requests : UpdateUser(r) \/ SetUserAccess(r)
                \/ \E u \in Users : CreateUser(u) \/ Block(u)
    BY DEF Next, Http, Handle, WizardNames, WizardLink, WizardRequest,
           PageWizardMerchantUpdate, PageRequestsAdminUpdate, LinkUserToMerchant,
           RequestMerchantForUser, CreateMerchants, GetUser, ApproveUserMerchant,
           AssignMerchantId, Fail, Crash, Finished, tables, vars
  <1> QED BY <1>1, <1>2, <1>3, <1>4, <1>5, <1>6 DEF vars

(* The access bits of a user change only by onboarding and by a block; a   *)
(* write takes either back only when its request had read the bits before. *)
THEOREM AccessCorrect == Spec => AccessHolds
  <1>1. IInv /\ [Next]_vars => [KeepsAccess]_vars
    BY AccessStep DEF IInv
  <1> QED BY <1>1, Invariance, PTL DEF Spec, AccessHolds

=============================================================================
