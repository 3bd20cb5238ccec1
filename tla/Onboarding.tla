------------------------------- MODULE Onboarding -------------------------------
(***************************************************************************)
(* Onboarding: how a user gets a merchant.  The forms of the wizard and    *)
(* the administrator's approval (handler/ui/wizard-merchant.go,            *)
(* handler/ui/dashboard-admin.go) run concurrently on the tables users,    *)
(* merchant_list, merchant_users and merchants, each statement on its own  *)
(* (READ COMMITTED, no transaction spans two).  The one that reads on its  *)
(* snapshot what it writes later, ApproveUserMerchant, is two steps.       *)
(*                                                                         *)
(* The middleware reads the user's row once, before the handler, and the   *)
(* handler writes the access bits back from that copy.  A user's names and *)
(* the data of a merchant are left out: no statement looks at them.        *)
(***************************************************************************)
EXTENDS FiniteSets, Naturals

CONSTANTS
    Requests,           \* form posts ever made
    Users,              \* identities of the sessions
    Known,              \* merchant id of the row 102-merchant-insert.sql inserts
    None,               \* merchant_id NULL; no row in table users
    MaxRows,            \* bound: rows of merchant_list the wizard inserts
    MaxBlocked,         \* bound: users an operator blocks
    MaxFaults           \* bound: failures and restarts

Rows == 1..MaxRows
(* An approval makes up a merchant id of its own (uuid.New): its name here.*)
Merchants == Requests \cup {Known}

ASSUME OnboardingAssumption ==
    /\ Known \notin Requests /\ None \notin Merchants
    /\ None \notin [registered: BOOLEAN, onboarded: BOOLEAN]
    /\ MaxRows \in Nat /\ MaxBlocked \in Nat /\ MaxFaults \in Nat

VARIABLES
    user,               \* table users: the access bits of each identity
    merchants,          \* keys of table merchants
    list, size,         \* table merchant_list: row -> merchant_id; rows inserted
    links,              \* table merchant_users: <<user, row>>, and <<user, 0>> for Known's row
    op, pc,             \* what a request is, and what it does next
    who, mid,           \* the user and the merchant it is about
    seen,               \* the access bits it read
    view,               \* the user's rows, as the snapshot of its approval shows them
    blocked, faults,    \* users blocked and failures so far
    (* observations *)
    undone,             \* users whose onboarding a write of an older row undid
    failed              \* requests that met a failure

tables == <<user, merchants, list, size, links>>
request == <<op, pc, who, mid, seen, view>>
vars == <<user, merchants, list, size, links, op, pc, who, mid, seen, view,
          blocked, faults, undone, failed>>

Operations == {"none", "names", "link", "request", "approve"}
Phases == {"idle", "update", "link", "access", "request", "create", "get",
           "approve", "assign", "ok", "error"}
Access == [registered: BOOLEAN, onboarded: BOOLEAN]

Init ==
    /\ user = [u \in Users |-> None]
    /\ merchants = {Known}
    /\ list = [i \in Rows |-> None] /\ size = 0
    /\ links = {}
    /\ op = [r \in Requests |-> "none"] /\ pc = [r \in Requests |-> "idle"]
    /\ who = [r \in Requests |-> None] /\ mid = [r \in Requests |-> None]
    /\ seen = [r \in Requests |-> None]
    /\ view = [r \in Requests |-> {}]
    /\ blocked = 0 /\ faults = 0
    /\ undone = {} /\ failed = {}

Unfinished(r) == pc[r] \notin {"idle", "ok", "error"}

(* The rows of merchant_list a user is linked to and waits for.            *)
Pending(u) == {i \in Rows : <<u, i>> \in links /\ list[i] = None}

(* The row of merchant_list with a merchant id, 0 for the inserted one.    *)
RowsOf(m) == {i \in Rows : i <= size /\ list[i] = m} \cup (IF m = Known THEN {0} ELSE {})
MerchantOf(i) == IF i = 0 THEN Known ELSE list[i]

IsOnboarded(u) == user[u] # None /\ user[u].registered /\ user[u].onboarded

(* What the middleware puts into the context of a session: the first of    *)
(* the user's merchants, in no defined order; and none at all while one of *)
(* them is pending, because its NULL id cannot be scanned.                 *)
SessionMerchants(u) ==
    IF Pending(u) # {} THEN {}
    ELSE {MerchantOf(i) : i \in {j \in Rows \cup {0} : <<u, j>> \in links}}

---------------------------------------------------------------------------
(* Users and operators                                                     *)

(* kratos/create-user: a second row of one identity is refused.            *)
CreateUser(u) ==
    /\ user[u] = None
    /\ user' = [user EXCEPT ![u] = [registered |-> TRUE, onboarded |-> FALSE]]
    /\ UNCHANGED <<merchants, list, size, links, request, blocked, faults, undone, failed>>

(* An operator clears the bit of UserRegistered in the database; no        *)
(* handler does.                                                           *)
Block(u) ==
    /\ blocked < MaxBlocked /\ blocked' = blocked + 1
    /\ user[u] # None /\ user[u].registered
    /\ user' = [user EXCEPT ![u].registered = FALSE]
    /\ UNCHANGED <<merchants, list, size, links, request, faults, undone, failed>>

---------------------------------------------------------------------------
(* The wizard.  The middleware reads the user, and turns blocked ones away.*)
PageWizardMerchantUpdate(r, u, o, p, m) ==
    /\ pc[r] = "idle"
    /\ user[u] # None /\ user[u].registered
    /\ op' = [op EXCEPT ![r] = o]
    /\ pc' = [pc EXCEPT ![r] = p]
    /\ who' = [who EXCEPT ![r] = u]
    /\ mid' = [mid EXCEPT ![r] = m]
    /\ seen' = [seen EXCEPT ![r] = user[u]]
    /\ UNCHANGED <<tables, view, blocked, faults, undone, failed>>

(* Steps 001, 002 and 003 of the wizard.                                   *)
WizardNames(r) == \E u \in Users :
    PageWizardMerchantUpdate(r, u, "names", "update", None)
WizardLink(r) == \E u \in Users, m \in Merchants :
    PageWizardMerchantUpdate(r, u, "link", "link", m)
WizardRequest(r) == \E u \in Users :
    PageWizardMerchantUpdate(r, u, "request", "request", None)

Goto(r, p) == pc' = [pc EXCEPT ![r] = p] /\ UNCHANGED <<op, who, mid, seen, view>>

(* The user's row is written back, access bits included.                   *)
WriteAccess(r, a) ==
    /\ user' = [user EXCEPT ![who[r]] = a]
    /\ undone' = undone \cup
           {u \in Users : u = who[r] /\ user[u].onboarded /\ ~a.onboarded}
    /\ UNCHANGED <<merchants, list, size, links, blocked, faults, failed>>

UpdateUser(r) ==
    /\ pc[r] = "update"
    /\ WriteAccess(r, seen[r])
    /\ Goto(r, "ok")

(* Slip: the access bits are replaced, not extended.                       *)
SetOnboardedOnly(a) == [registered |-> FALSE, onboarded |-> TRUE]

SetOnboarded(a) == [a EXCEPT !.onboarded = TRUE]

(* Slip: the bits are written as they were read.                           *)
SetUserAccessAsRead(r) ==
    /\ pc[r] = "access"
    /\ WriteAccess(r, seen[r])
    /\ Goto(r, "ok")

SetUserAccess(r) ==
    /\ pc[r] = "access"
    /\ WriteAccess(r, SetOnboarded(seen[r]))
    /\ Goto(r, "ok")

(* Slip: a link to a merchant that is not listed goes unnoticed.           *)
LinkUserToMerchantUnchecked(r) ==
    /\ pc[r] = "link"
    /\ links' = links \cup {<<who[r], i>> : i \in RowsOf(mid[r])}
    /\ Goto(r, "access")
    /\ UNCHANGED <<user, merchants, list, size, blocked, faults, undone, failed>>

(* The row id of a merchant that is not listed is NULL, which the table    *)
(* refuses.                                                                *)
LinkUserToMerchant(r) ==
    /\ pc[r] = "link"
    /\ \/ /\ RowsOf(mid[r]) # {}
          /\ links' = links \cup {<<who[r], i>> : i \in RowsOf(mid[r])}
          /\ Goto(r, "access")
       \/ /\ RowsOf(mid[r]) = {}
          /\ UNCHANGED links
          /\ Goto(r, "error")
    /\ UNCHANGED <<user, merchants, list, size, blocked, faults, undone, failed>>

(* One statement inserts the row and the link.                             *)
RequestMerchantForUser(r) ==
    /\ pc[r] = "request" /\ size < MaxRows
    /\ size' = size + 1
    /\ links' = links \cup {<<who[r], size + 1>>}
    /\ Goto(r, "ok")
    /\ UNCHANGED <<user, merchants, list, blocked, faults, undone, failed>>

---------------------------------------------------------------------------
(* The administrator approves a user from a list that may be out of date:  *)
(* the user had a pending row when it was made.                            *)
PageRequestsAdminUpdate(r) == \E u \in Users :
    /\ pc[r] = "idle"
    /\ \E i \in Rows : <<u, i>> \in links
    /\ op' = [op EXCEPT ![r] = "approve"]
    /\ pc' = [pc EXCEPT ![r] = "create"]
    /\ who' = [who EXCEPT ![r] = u]
    /\ mid' = [mid EXCEPT ![r] = r]
    /\ UNCHANGED <<tables, seen, view, blocked, faults, undone, failed>>

(* Slip: the error of the store is ignored.                                *)
CreateMerchantsUnchecked(r) ==
    /\ pc[r] = "create"
    /\ Goto(r, "get")
    /\ UNCHANGED <<tables, blocked, faults, undone, failed>>

CreateMerchants(r) ==
    /\ pc[r] = "create"
    /\ merchants' = merchants \cup {mid[r]}
    /\ Goto(r, "get")
    /\ UNCHANGED <<user, list, size, links, blocked, faults, undone, failed>>

(* Slip: the row is not read.                                              *)
GetUserUnread(r) ==
    /\ pc[r] = "get"
    /\ Goto(r, "approve")
    /\ UNCHANGED <<tables, blocked, faults, undone, failed>>

GetUser(r) ==
    /\ pc[r] = "get"
    /\ seen' = [seen EXCEPT ![r] = user[who[r]]]
    /\ pc' = [pc EXCEPT ![r] = "approve"]
    /\ UNCHANGED <<tables, op, who, mid, view, blocked, faults, undone, failed>>

(* The statement takes its snapshot: the user's rows with their merchants. *)
ApproveUserMerchant(r) ==
    /\ pc[r] = "approve"
    /\ view' = [view EXCEPT ![r] = {<<i, list[i]>> : i \in {j \in Rows : <<who[r], j>> \in links}}]
    /\ pc' = [pc EXCEPT ![r] = "assign"]
    /\ UNCHANGED <<tables, op, who, mid, seen, blocked, faults, undone, failed>>

(* Slip: rows that have a merchant are taken too.                          *)
AllRows(r) == {i \in Rows : \E m \in Merchants \cup {None} : <<i, m>> \in view[r]}

(* merchant_id_var: the rows whose merchant id is NULL on the snapshot.    *)
NullRows(r) == {i \in Rows : <<i, None>> \in view[r]}

(* The statement writes: all those rows get the new merchant, whatever an  *)
(* overlapping approval has put there, for only their ids are looked at    *)
(* again.  None is no error, and two are refused by the unique index.      *)
AssignMerchantId(r) ==
    /\ pc[r] = "assign"
    /\ \/ /\ Cardinality(NullRows(r)) <= 1
          /\ list' = [i \in Rows |-> IF i \in NullRows(r) THEN mid[r] ELSE list[i]]
          /\ Goto(r, "link")
       \/ /\ Cardinality(NullRows(r)) > 1
          /\ UNCHANGED list
          /\ Goto(r, "error")
    /\ UNCHANGED <<user, merchants, size, links, blocked, faults, undone, failed>>

---------------------------------------------------------------------------
(* A statement fails; that of SetUserAccess is only logged.                *)
Fail(r) ==
    /\ Unfinished(r)
    /\ faults < MaxFaults /\ faults' = faults + 1
    /\ failed' = failed \cup {r}
    /\ Goto(r, IF pc[r] = "access" THEN "ok" ELSE "error")
    /\ UNCHANGED <<tables, blocked, undone>>

(* A restart: every request in progress is lost.                           *)
Crash ==
    /\ \E r \in Requests : Unfinished(r)
    /\ faults < MaxFaults /\ faults' = faults + 1
    /\ failed' = failed \cup {r \in Requests : Unfinished(r)}
    /\ pc' = [r \in Requests |-> IF Unfinished(r) THEN "error" ELSE pc[r]]
    /\ UNCHANGED <<tables, op, who, mid, seen, view, blocked, undone>>

Http(r) == WizardNames(r) \/ WizardLink(r) \/ WizardRequest(r)
           \/ PageRequestsAdminUpdate(r)

Handle(r) == UpdateUser(r) \/ SetUserAccess(r) \/ LinkUserToMerchant(r)
             \/ RequestMerchantForUser(r) \/ CreateMerchants(r) \/ GetUser(r)
             \/ ApproveUserMerchant(r) \/ AssignMerchantId(r)

(* No more requests: the bound, not the end of the program.                *)
Finished ==
    /\ \A r \in Requests : ~Unfinished(r)
    /\ UNCHANGED vars

Next == \/ \E r \in Requests : Http(r) \/ Handle(r) \/ Fail(r)
        \/ \E u \in Users : CreateUser(u) \/ Block(u)
        \/ Crash
        \/ Finished

Spec == Init /\ [][Next]_vars

---------------------------------------------------------------------------
(* Properties                                                              *)

(* The types of the variables; only users with a row have links, and a     *)
(* request that writes access bits has read them.                          *)
TypeOK ==
    /\ user \in [Users -> Access \cup {None}]
    /\ merchants \subseteq Merchants
    /\ list \in [Rows -> Merchants \cup {None}] /\ size \in 0..MaxRows
    /\ links \subseteq Users \X (Rows \cup {0})
    /\ \A l \in links : user[l[1]] # None /\ l[2] <= size
    /\ op \in [Requests -> Operations] /\ pc \in [Requests -> Phases]
    /\ who \in [Requests -> Users \cup {None}]
    /\ mid \in [Requests -> Merchants \cup {None}]
    /\ seen \in [Requests -> Access \cup {None}]
    /\ view \in [Requests -> SUBSET (Rows \X (Merchants \cup {None}))]
    /\ \A r \in Requests :
           /\ pc[r] # "idle" => who[r] \in Users /\ user[who[r]] # None
           /\ pc[r] \in {"update", "link", "access", "approve", "assign"} => seen[r] # None
    /\ blocked \in 0..MaxBlocked /\ faults \in 0..MaxFaults
    /\ undone \subseteq Users /\ failed \subseteq Requests

(* Linked to a row that has its merchant id.                               *)
HasMerchant(u) == \E l \in links : l[1] = u /\ MerchantOf(l[2]) # None

(* The dashboard sends a user marked onboarded to the pages of a merchant: *)
(* there is one, whatever older rows other forms have written back since   *)
(* (dashboard.go:21, wizard-merchant.go:77-84).                            *)
OnboardedHasMerchant == \A u \in Users :
    user[u] # None /\ user[u].onboarded => HasMerchant(u)

(* The merchant a session works for has a value in table merchants, which  *)
(* every page of it reads (middleware.go:51-53, dashboard-admin.go:109).   *)
SessionIsStored == \A u \in Users : SessionMerchants(u) \subseteq merchants

(* An approval answered as done has given its merchant to one pending row  *)
(* of the user it named, and that row still has it, or that of another     *)
(* approval of the same user that had read the row as pending: a merchant  *)
(* is taken from its user only by an approval whose statement overlapped,  *)
(* and never to leave the row without one.  Both may answer done           *)
(* (dashboard-admin.go:110-139, users.go:194-208).                         *)
ApprovedOrOverwritten == \A r \in Requests :
    op[r] = "approve" /\ pc[r] = "ok" =>
        \E i \in NullRows(r) :
            /\ <<who[r], i>> \in links /\ RowsOf(r) \subseteq {i}
            /\ \E q \in Requests : list[i] = q /\ who[q] = who[r] /\ <<i, None>> \in view[q]

(* Who got a merchant, by the wizard or by an approval, is marked          *)
(* onboarded, unless a statement failed in between or a form that had read *)
(* the user's row before wrote it back (users.go:154-178).                 *)
GrantedIsOnboarded == \A r \in Requests :
    op[r] \in {"link", "approve"} /\ (pc[r] = "ok" \/ RowsOf(r) # {}) =>
        \/ user[who[r]].onboarded
        \/ Unfinished(r) \/ r \in failed \/ who[r] \in undone

(* The access bits of a user change only by onboarding and by an           *)
(* operator's block; a write undoes either only when the request read the  *)
(* user before it happened, and then the bits become those it had read,    *)
(* with onboarding when it has just linked (users.go:154-178).             *)
KeepsAccess == \A u \in Users :
    \/ user[u] \in {None, user'[u]}
    \/ user'[u] = [user[u] EXCEPT !.onboarded = TRUE]
    \/ /\ user'[u] = [user[u] EXCEPT !.registered = FALSE]
       /\ blocked' > blocked
    \/ \E r \in Requests :
           /\ who[r] = u /\ seen[r] # user[u]
           /\ pc[r] \in {"update", "access"} /\ pc'[r] = "ok"
           /\ user'[u] = [seen[r] EXCEPT !.onboarded = @ \/ pc[r] = "access"]
AccessHolds == [][KeepsAccess]_vars

=============================================================================
