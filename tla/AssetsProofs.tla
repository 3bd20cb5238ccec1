------------------------------ MODULE AssetsProofs ------------------------------
(***************************************************************************)
(* Theorems about Assets: what approvals, rejections, forms and failures   *)
(* cannot do to the rows of a code and to the tokens they stand for.       *)
(***************************************************************************)
EXTENDS Assets, SumTheorems, FiniteSetTheorems, TLAPS

Asking == {"get", "lookup", "store", "issue", "send", "activate"}
Known == issued \cup Foreign

(* What a request is at each step, and what it has behind it.              *)
RequestInv == \A r \in Requests :
    /\ pc[r] = "idle" <=> op[r] = "none"
    /\ pc[r] # "idle" => who[r] \in Merchants
    /\ pc[r] = "get" => op[r] \in {"approve", "reject"}
    /\ pc[r] \in {"unlink", "delete"} => op[r] = "reject"
    /\ pc[r] \in {"lookup", "store", "issue"} => op[r] \in {"approve", "newToken", "tokenSaver"}
    /\ pc[r] = "mint" => op[r] \in {"mint", "mintToken"}
    /\ pc[r] = "send" => op[r] \in {"approve", "newToken", "tokenSaver", "mint", "mintToken"}
    /\ pc[r] = "activate" => op[r] \in {"approve", "mintToken"}
    /\ pc[r] = "burn" => op[r] = "burn"
    /\ pc[r] = "create" => op[r] \in {"newToken", "newClass"}
    /\ pc[r] = "class" => op[r] = "newClass"
    /\ op[r] = "newClass" => issuer[r] \in Foreign
    /\ pc[r] = "nft" => op[r] = "mintToken"
    /\ pc[r] = "issue" => who[r] \in stored
    /\ op[r] \in {"approve", "reject", "newToken", "newClass"} => issuer[r] \in Known \cup {Null}
    /\ op[r] = "approve" /\ pc[r] \in {"lookup", "store", "issue", "send"} => issuer[r] = Null
    /\ op[r] = "approve" /\ issuer[r] = Null /\ pc[r] \in {"send", "activate", "ok"} =>
           who[r] \in issued

(* A row without an issuer is a merchant's own, pending and linked to it   *)
(* only; a row without an owner names an issuer that is known.             *)
RowInv == \A a \in Row : Present(a) =>
    /\ asset[a].issuer = Null =>
           /\ asset[a].status = "pending" /\ asset[a].owner \in Merchants
           /\ \A m \in Merchants : m # asset[a].owner => asset[a].links[m] = 0
    /\ asset[a].status = "pending" /\ asset[a].issuer # Null =>
           asset[a].owner = None /\ asset[a].issuer \in Known
    /\ asset[a].owner = None => asset[a].issuer \in Known

SomeUnlinked == \E r \in Requests : Unlinked(r)

(* An asset active under an issuer of ours is owned by that merchant.      *)
OwnInv == \A a \in Row :
    asset[a].status = "active" /\ asset[a].issuer \in Merchants =>
        asset[a].owner = asset[a].issuer \/ SomeUnlinked

(* The row an approval read is still there.                                *)
Asked(r, a) ==
    /\ Present(a)
    /\ IF issuer[r] = Null THEN asset[a].owner = who[r]
       ELSE asset[a].owner = None /\ asset[a].issuer = issuer[r]
AskedInv == \A r \in Requests :
    op[r] = "approve" /\ pc[r] \in Asking =>
        SomeUnlinked \/ \E a \in Row : Asked(r, a)

---------------------------------------------------------------------------
(* Two rows of a finite set are more than one.                             *)
LEMMA TwoRows ==
    ASSUME NEW S \in SUBSET Row, NEW x \in S, NEW y \in S, x # y
    PROVE  ~(Cardinality(S) <= 1)
  <1>1. IsFiniteSet(S)
    <2>1. MaxRows \in Int /\ 1 \in Int
      BY AssetsAssumption
    <2>2. IsFiniteSet(Row)
      BY <2>1, FS_Interval DEF Row
    <2> QED BY <2>2, FS_Subset
  <1>2. /\ IsFiniteSet(S \ {x}) /\ Cardinality(S \ {x}) = Cardinality(S) - 1
        /\ Cardinality(S) \in Nat /\ Cardinality(S \ {x}) \in Nat
    BY <1>1, FS_RemoveElement, FS_CardinalityType
  <1>3. Cardinality(S \ {x}) # 0
    BY <1>2, FS_EmptySet
  <1> QED BY <1>2, <1>3

(* The constants that must not be mixed up.                                *)
LEMMA Markers ==
    /\ Null # Empty /\ Null \notin Issuers /\ Empty \notin Issuers
    /\ None \notin Merchants /\ Foreign \cap Merchants = {}
    /\ Merchants \subseteq Issuers /\ Foreign \subseteq Issuers
    /\ Initial \in Nat
  BY AssetsAssumption DEF Issuers

LEMMA AmountType ==
    ASSUME NEW r \in Requests
    PROVE  Amount(r) \in Nat
  BY Markers DEF Amount

---------------------------------------------------------------------------
(* What the statements do to the table                                     *)

(* A new or a found row gets a link, and the others stay.                  *)
LEMMA CreateFacts ==
    ASSUME TypeOK, NEW m \in Merchants, NEW i \in Issuers \cup {Null}, CreateAsset(m, i)
    PROVE  /\ asset' \in [Row -> Asset]
           /\ \A a \in Row : Present(a) =>
                 /\ asset'[a].status = asset[a].status /\ asset'[a].issuer = asset[a].issuer
                 /\ asset'[a].owner = asset[a].owner
                 /\ \A n \in Merchants :
                       asset'[a].links[n] \in {asset[a].links[n], asset[a].links[n] + 1}
                 /\ asset[a].issuer = Null => asset'[a] = asset[a]
           /\ \A a \in Row : asset'[a].status # "absent" /\ ~Present(a) =>
                 /\ asset'[a].status = "pending" /\ asset'[a].issuer = i
                 /\ asset'[a].owner = IF i = Null THEN m ELSE None
                 /\ \A n \in Merchants : asset'[a].links[n] = IF n = m THEN 1 ELSE 0
  <1>a. \A a \in Row :
            /\ asset[a] \in Asset /\ asset[a].links \in [Merchants -> Nat]
            /\ asset[a].status \in {"absent", "pending", "active"}
    BY DEF TypeOK, Asset
  <1>1. CASE WithIssuer(i) # {} /\ i # Null
    <2>1. asset' = [a \in Row |-> IF a \in WithIssuer(i)
                                  THEN [asset[a] EXCEPT !.links[m] = @ + 1] ELSE asset[a]]
      BY <1>1 DEF CreateAsset
    <2> DEFINE more(a) == [asset[a].links EXCEPT ![m] = asset[a].links[m] + 1]
    <2>2. \A a \in Row : a \in WithIssuer(i) => asset'[a] = [asset[a] EXCEPT !.links = more(a)]
      BY <2>1, <1>a DEF Asset
    <2>3. \A a \in Row : a \notin WithIssuer(i) => asset'[a] = asset[a]
      BY <2>1
    <2>4. \A a \in Row :
             /\ more(a) \in [Merchants -> Nat]
             /\ \A n \in Merchants : more(a)[n] \in {asset[a].links[n], asset[a].links[n] + 1}
      BY <1>a
    <2> HIDE DEF more
    <2>5. ASSUME NEW a \in Row PROVE asset'[a] \in Asset
      <3>1. CASE a \in WithIssuer(i)
        BY <3>1, <2>2, <2>4, <1>a DEF Asset
      <3> QED BY <3>1, <2>3, <1>a
    <2>6. asset' \in [Row -> Asset]
      BY <2>1, <2>5
    <2>7. ASSUME NEW a \in Row
          PROVE  /\ asset'[a].status = asset[a].status /\ asset'[a].issuer = asset[a].issuer
                 /\ asset'[a].owner = asset[a].owner
                 /\ \A n \in Merchants :
                       asset'[a].links[n] \in {asset[a].links[n], asset[a].links[n] + 1}
      <3>1. CASE a \in WithIssuer(i)
        <4>1. asset'[a] = [asset[a] EXCEPT !.links = more(a)]
          BY <3>1, <2>2
        <4>2. /\ asset'[a].status = asset[a].status /\ asset'[a].issuer = asset[a].issuer
              /\ asset'[a].owner = asset[a].owner /\ asset'[a].links = more(a)
          BY <4>1, <1>a DEF Asset
        <4> QED BY <4>2, <2>4
      <3> QED BY <3>1, <2>3, <1>a
    <2>8. \A a \in Row : asset[a].issuer = Null => asset'[a] = asset[a]
      BY <1>1, <2>3 DEF WithIssuer
    <2> QED BY <2>6, <2>7, <2>8 DEF Present
  <1>2. CASE ~(WithIssuer(i) # {} /\ i # Null)
    <2> DEFINE fresh == [status |-> "pending", issuer |-> i,
                         owner |-> IF i = Null THEN m ELSE None,
                         links |-> [n \in Merchants |-> IF n = m THEN 1 ELSE 0]]
    <2>1. PICK a \in Unused : asset' = [asset EXCEPT ![a] = fresh]
      BY <1>2 DEF CreateAsset
    <2>2. a \in Row /\ ~Present(a)
      BY DEF Unused
    <2>6. fresh \in Asset
      BY DEF Asset
    <2>7. asset' \in [Row -> Asset] /\ asset'[a] = fresh
      BY <2>1, <2>2, <2>6 DEF TypeOK
    <2>8. \A b \in Row : b # a => asset'[b] = asset[b]
      BY <2>1 DEF TypeOK
    <2>9. \A b \in Row : Present(b) => asset'[b] = asset[b]
      BY <2>2, <2>8
    <2>10. \A b \in Row : asset'[b].status # "absent" /\ ~Present(b) => asset'[b] = fresh
      BY <2>7, <2>8 DEF Present
    <2> QED BY <2>7, <2>9, <2>10
  <1> QED BY <1>1, <1>2

(* An activation changes rows of one owner only.                           *)
LEMMA ActivateFacts ==
    ASSUME TypeOK, NEW m \in Merchants, NEW i \in Issuers \cup {Null, Empty}, ActivateAsset(m, i)
    PROVE  /\ asset' \in [Row -> Asset]
           /\ \A a \in Row : asset'[a].owner = asset[a].owner /\ asset'[a].links = asset[a].links
           /\ \A a \in Row : asset'[a].status # "absent" <=> Present(a)
           /\ \A a \in Row : Present(a) /\ asset[a].owner = m =>
                 asset'[a].status = "active" /\ asset'[a].issuer = i
           /\ \A a \in Row : asset[a].owner # m \/ ~Present(a) => asset'[a] = asset[a]
  <1>1. asset' = [a \in Row |-> IF a \in Owned(m)
                                THEN [asset[a] EXCEPT !.status = "active", !.issuer = i]
                                ELSE asset[a]]
    BY DEF ActivateAsset
  <1>2. \A a \in Row : asset[a] \in Asset
    BY DEF TypeOK
  <1>3. \A a \in Row : a \notin Owned(m) => asset'[a] = asset[a]
    BY <1>1
  <1>4. \A a \in Row : a \in Owned(m) =>
            asset'[a] = [asset[a] EXCEPT !.status = "active", !.issuer = i]
    BY <1>1
  <1>5. \A a \in Row : a \in Owned(m) =>
            /\ asset'[a] \in Asset
            /\ asset'[a].status = "active" /\ asset'[a].issuer = i
            /\ asset'[a].owner = asset[a].owner /\ asset'[a].links = asset[a].links
    BY <1>2, <1>4 DEF Asset
  <1>6. asset' \in [Row -> Asset]
    BY <1>1, <1>2, <1>3, <1>5
  <1> QED BY <1>3, <1>5, <1>6 DEF Owned, Present

---------------------------------------------------------------------------
(* Types and requests                                                      *)
Small == TypeOK /\ RequestInv

LEMMA SmallInit == Init => Small
  BY Markers, AssetsAssumption DEF Init, Small, TypeOK, RequestInv, Asset, NoAsset, Operations,
     Phases, Issuers, Row

(* A sum of amounts never falls below zero where the chain allows it.      *)
LEMMA HeldType ==
    ASSUME TypeOK, NEW r \in Requests, who[r] \in Merchants
    PROVE  /\ held[who[r]] \in Nat /\ burned[who[r]] \in Nat /\ Amount(r) \in Nat
           /\ held[who[r]] + Amount(r) \in Nat /\ burned[who[r]] + Amount(r) \in Nat
           /\ Amount(r) <= held[who[r]] => held[who[r]] - Amount(r) \in Nat
  <1>1. held[who[r]] \in Nat /\ burned[who[r]] \in Nat /\ Amount(r) \in Nat
    BY AmountType DEF TypeOK
  <1> QED BY <1>1

(* Every step keeps the types and what a request is at each step.          *)

LEMMA GetAssetSmall ==
    ASSUME Small, NEW r \in Requests, GetAsset(r)
    PROVE  Small'
  <1>1. who[r] \in Merchants /\ pc[r] # "idle"
    BY DEF Small, RequestInv, GetAsset, Go
  <1>2. asset' \in [Row -> Asset]
    BY DEF Small, TypeOK, GetAsset, Go
  <1>3. held' \in [Merchants -> Nat] /\ burned' \in [Merchants -> Nat]
    BY DEF Small, TypeOK, observations, chain, GetAsset, Go
  <1>4. /\ stored' \subseteq Merchants /\ issued' \subseteq stored'
        /\ classes' \subseteq Foreign
    BY <1>1 DEF Small, TypeOK, chain, GetAsset, Go
  <1>5. op' \in [Requests -> Operations] /\ pc' \in [Requests -> Phases]
    BY DEF Small, TypeOK, request, Phases, GetAsset, Go
  <1>6. /\ who' \in [Requests -> Merchants \cup {None}]
        /\ issuer' \in [Requests -> Issuers \cup {Null}]
    BY DEF Small, TypeOK, request, GetAsset, Go
  <1>7. faults' \in 0..MaxFaults /\ left' \subseteq Requests /\ failed' \subseteq Requests
    BY AssetsAssumption DEF Small, TypeOK, observations, GetAsset, Go
  <1>8. RequestInv'
    BY <1>1, Markers DEF Small, TypeOK, RequestInv, Known, request, chain,
       GetAsset, Go
  <1> QED BY <1>2, <1>3, <1>4, <1>5, <1>6, <1>7, <1>8 DEF Small, TypeOK


LEMMA DeleteLinkSmall ==
    ASSUME Small, NEW r \in Requests, DeleteLink(r)
    PROVE  Small'
  <1>1. who[r] \in Merchants /\ pc[r] # "idle"
    BY DEF Small, RequestInv, DeleteLink, Go
  <1>2. asset' \in [Row -> Asset]
    <2>1. ASSUME NEW a \in Row PROVE [asset[a] EXCEPT !.links[who[r]] = 0] \in Asset
      <3>1. asset[a] \in Asset
        BY DEF Small, TypeOK
      <3> QED BY <1>1, <3>1 DEF Asset
    <2> QED BY <2>1 DEF Small, TypeOK, DeleteLink
  <1>3. held' \in [Merchants -> Nat] /\ burned' \in [Merchants -> Nat]
    BY DEF Small, TypeOK, observations, chain, DeleteLink, Go
  <1>4. /\ stored' \subseteq Merchants /\ issued' \subseteq stored'
        /\ classes' \subseteq Foreign
    BY <1>1 DEF Small, TypeOK, chain, DeleteLink, Go
  <1>5. op' \in [Requests -> Operations] /\ pc' \in [Requests -> Phases]
    BY DEF Small, TypeOK, request, Phases, DeleteLink, Go
  <1>6. /\ who' \in [Requests -> Merchants \cup {None}]
        /\ issuer' \in [Requests -> Issuers \cup {Null}]
    BY DEF Small, TypeOK, request, DeleteLink, Go
  <1>7. faults' \in 0..MaxFaults /\ left' \subseteq Requests /\ failed' \subseteq Requests
    BY AssetsAssumption DEF Small, TypeOK, observations, DeleteLink, Go
  <1>8. RequestInv'
    BY <1>1 DEF Small, TypeOK, RequestInv, Known, request, chain,
       DeleteLink, Go
  <1> QED BY <1>2, <1>3, <1>4, <1>5, <1>6, <1>7, <1>8 DEF Small, TypeOK


LEMMA DeleteAssetSmall ==
    ASSUME Small, NEW r \in Requests, DeleteAsset(r)
    PROVE  Small'
  <1>1. who[r] \in Merchants /\ pc[r] # "idle"
    BY DEF Small, RequestInv, DeleteAsset, Go
  <1>2. asset' \in [Row -> Asset]
    <2>1. NoAsset \in Asset
      BY DEF NoAsset, Asset
    <2> QED BY <2>1 DEF Small, TypeOK, DeleteAsset
  <1>3. held' \in [Merchants -> Nat] /\ burned' \in [Merchants -> Nat]
    BY DEF Small, TypeOK, observations, chain, DeleteAsset, Go
  <1>4. /\ stored' \subseteq Merchants /\ issued' \subseteq stored'
        /\ classes' \subseteq Foreign
    BY <1>1 DEF Small, TypeOK, chain, DeleteAsset, Go
  <1>5. op' \in [Requests -> Operations] /\ pc' \in [Requests -> Phases]
    BY DEF Small, TypeOK, request, Phases, DeleteAsset, Go
  <1>6. /\ who' \in [Requests -> Merchants \cup {None}]
        /\ issuer' \in [Requests -> Issuers \cup {Null}]
    BY DEF Small, TypeOK, request, DeleteAsset, Go
  <1>7. faults' \in 0..MaxFaults /\ left' \subseteq Requests /\ failed' \subseteq Requests
    BY AssetsAssumption DEF Small, TypeOK, observations, DeleteAsset, Go
  <1>8. RequestInv'
    BY <1>1 DEF Small, TypeOK, RequestInv, Known, request, chain,
       DeleteAsset, Go
  <1> QED BY <1>2, <1>3, <1>4, <1>5, <1>6, <1>7, <1>8 DEF Small, TypeOK


LEMMA LookupIssuerSmall ==
    ASSUME Small, NEW r \in Requests, LookupIssuer(r)
    PROVE  Small'
  <1>1. who[r] \in Merchants /\ pc[r] # "idle"
    BY DEF Small, RequestInv, LookupIssuer, Go
  <1>2. asset' \in [Row -> Asset]
    BY DEF Small, TypeOK, LookupIssuer, Go
  <1>3. held' \in [Merchants -> Nat] /\ burned' \in [Merchants -> Nat]
    BY DEF Small, TypeOK, observations, chain, LookupIssuer, Go
  <1>4. /\ stored' \subseteq Merchants /\ issued' \subseteq stored'
        /\ classes' \subseteq Foreign
    BY <1>1 DEF Small, TypeOK, chain, LookupIssuer, Go
  <1>5. op' \in [Requests -> Operations] /\ pc' \in [Requests -> Phases]
    BY DEF Small, TypeOK, request, Phases, LookupIssuer, Go
  <1>6. /\ who' \in [Requests -> Merchants \cup {None}]
        /\ issuer' \in [Requests -> Issuers \cup {Null}]
    BY DEF Small, TypeOK, request, LookupIssuer, Go
  <1>7. faults' \in 0..MaxFaults /\ left' \subseteq Requests /\ failed' \subseteq Requests
    BY AssetsAssumption DEF Small, TypeOK, observations, LookupIssuer, Go
  <1>8. RequestInv'
    BY <1>1 DEF Small, TypeOK, RequestInv, Known, request, chain,
       LookupIssuer, Go
  <1> QED BY <1>2, <1>3, <1>4, <1>5, <1>6, <1>7, <1>8 DEF Small, TypeOK


LEMMA StoreIssuerSmall ==
    ASSUME Small, NEW r \in Requests, StoreIssuer(r)
    PROVE  Small'
  <1>1. who[r] \in Merchants /\ pc[r] # "idle"
    BY DEF Small, RequestInv, StoreIssuer, Go
  <1>2. asset' \in [Row -> Asset]
    BY DEF Small, TypeOK, StoreIssuer, Go
  <1>3. held' \in [Merchants -> Nat] /\ burned' \in [Merchants -> Nat]
    BY DEF Small, TypeOK, observations, chain, StoreIssuer, Go
  <1>4. /\ stored' \subseteq Merchants /\ issued' \subseteq stored'
        /\ classes' \subseteq Foreign
    BY <1>1 DEF Small, TypeOK, chain, StoreIssuer, Go
  <1>5. op' \in [Requests -> Operations] /\ pc' \in [Requests -> Phases]
    BY DEF Small, TypeOK, request, Phases, StoreIssuer, Go
  <1>6. /\ who' \in [Requests -> Merchants \cup {None}]
        /\ issuer' \in [Requests -> Issuers \cup {Null}]
    BY DEF Small, TypeOK, request, StoreIssuer, Go
  <1>7. faults' \in 0..MaxFaults /\ left' \subseteq Requests /\ failed' \subseteq Requests
    BY AssetsAssumption DEF Small, TypeOK, observations, StoreIssuer, Go
  <1>8. RequestInv'
    BY <1>1 DEF Small, TypeOK, RequestInv, Known, request, chain,
       StoreIssuer, Go
  <1> QED BY <1>2, <1>3, <1>4, <1>5, <1>6, <1>7, <1>8 DEF Small, TypeOK


LEMMA IssueSmall ==
    ASSUME Small, NEW r \in Requests, Issue(r)
    PROVE  Small'
  <1>1. who[r] \in Merchants /\ pc[r] # "idle"
    BY DEF Small, RequestInv, Issue, IssueTransfer, Go
  <1>2. asset' \in [Row -> Asset]
    BY DEF Small, TypeOK, Issue, IssueTransfer, Go
  <1>3. held' \in [Merchants -> Nat] /\ burned' \in [Merchants -> Nat]
    <2>1. TypeOK
      BY DEF Small
    <2> QED BY <1>1, <2>1, HeldType DEF TypeOK, observations, chain, Issue, IssueTransfer, Go
  <1>4. /\ stored' \subseteq Merchants /\ issued' \subseteq stored'
        /\ classes' \subseteq Foreign
    BY <1>1 DEF Small, TypeOK, RequestInv, chain, Issue, IssueTransfer, Go
  <1>5. op' \in [Requests -> Operations] /\ pc' \in [Requests -> Phases]
    BY DEF Small, TypeOK, request, Phases, Issue, IssueTransfer, Go
  <1>6. /\ who' \in [Requests -> Merchants \cup {None}]
        /\ issuer' \in [Requests -> Issuers \cup {Null}]
    BY DEF Small, TypeOK, request, Issue, IssueTransfer, Go
  <1>7. faults' \in 0..MaxFaults /\ left' \subseteq Requests /\ failed' \subseteq Requests
    BY AssetsAssumption DEF Small, TypeOK, observations, Issue, IssueTransfer, Go
  <1>8. RequestInv'
    BY <1>1 DEF Small, TypeOK, RequestInv, Known, request, chain,
       Issue, IssueTransfer, Go
  <1> QED BY <1>2, <1>3, <1>4, <1>5, <1>6, <1>7, <1>8 DEF Small, TypeOK


LEMMA IssueClassSmall ==
    ASSUME Small, NEW r \in Requests, IssueClass(r)
    PROVE  Small'
  <1>1. who[r] \in Merchants /\ pc[r] # "idle"
    BY DEF Small, RequestInv, IssueClass, IssueClassTransfer, Go
  <1>2. asset' \in [Row -> Asset]
    BY DEF Small, TypeOK, IssueClass, IssueClassTransfer, Go
  <1>3. held' \in [Merchants -> Nat] /\ burned' \in [Merchants -> Nat]
    <2>1. TypeOK
      BY DEF Small
    <2> QED BY <1>1, <2>1, HeldType DEF TypeOK, observations, chain, IssueClass, IssueClassTransfer, Go
  <1>4. /\ stored' \subseteq Merchants /\ issued' \subseteq stored'
        /\ classes' \subseteq Foreign
    BY <1>1 DEF Small, TypeOK, RequestInv, chain, IssueClass, IssueClassTransfer, Go
  <1>5. op' \in [Requests -> Operations] /\ pc' \in [Requests -> Phases]
    BY DEF Small, TypeOK, request, Phases, IssueClass, IssueClassTransfer, Go
  <1>6. /\ who' \in [Requests -> Merchants \cup {None}]
        /\ issuer' \in [Requests -> Issuers \cup {Null}]
    BY DEF Small, TypeOK, request, IssueClass, IssueClassTransfer, Go
  <1>7. faults' \in 0..MaxFaults /\ left' \subseteq Requests /\ failed' \subseteq Requests
    BY AssetsAssumption DEF Small, TypeOK, observations, IssueClass, IssueClassTransfer, Go
  <1>8. RequestInv'
    BY <1>1 DEF Small, TypeOK, RequestInv, Known, request, chain,
       IssueClass, IssueClassTransfer, Go
  <1> QED BY <1>2, <1>3, <1>4, <1>5, <1>6, <1>7, <1>8 DEF Small, TypeOK


LEMMA MintSmall ==
    ASSUME Small, NEW r \in Requests, Mint(r)
    PROVE  Small'
  <1>1. who[r] \in Merchants /\ pc[r] # "idle"
    BY DEF Small, RequestInv, Mint, IssueTransfer, Go
  <1>2. asset' \in [Row -> Asset]
    BY DEF Small, TypeOK, Mint, IssueTransfer, Go
  <1>3. held' \in [Merchants -> Nat] /\ burned' \in [Merchants -> Nat]
    <2>1. TypeOK
      BY DEF Small
    <2> QED BY <1>1, <2>1, HeldType DEF TypeOK, observations, chain, Mint, IssueTransfer, Go
  <1>4. /\ stored' \subseteq Merchants /\ issued' \subseteq stored'
        /\ classes' \subseteq Foreign
    BY <1>1 DEF Small, TypeOK, RequestInv, chain, Mint, IssueTransfer, Go
  <1>5. op' \in [Requests -> Operations] /\ pc' \in [Requests -> Phases]
    BY DEF Small, TypeOK, request, Phases, Mint, IssueTransfer, Go
  <1>6. /\ who' \in [Requests -> Merchants \cup {None}]
        /\ issuer' \in [Requests -> Issuers \cup {Null}]
    BY DEF Small, TypeOK, request, Mint, IssueTransfer, Go
  <1>7. faults' \in 0..MaxFaults /\ left' \subseteq Requests /\ failed' \subseteq Requests
    BY AssetsAssumption DEF Small, TypeOK, observations, Mint, IssueTransfer, Go
  <1>8. RequestInv'
    BY <1>1 DEF Small, TypeOK, RequestInv, Known, request, chain,
       Mint, IssueTransfer, Go
  <1> QED BY <1>2, <1>3, <1>4, <1>5, <1>6, <1>7, <1>8 DEF Small, TypeOK


LEMMA MintNFTSmall ==
    ASSUME Small, NEW r \in Requests, MintNFT(r)
    PROVE  Small'
  <1>1. who[r] \in Merchants /\ pc[r] # "idle"
    BY DEF Small, RequestInv, MintNFT, Go
  <1>2. asset' \in [Row -> Asset]
    BY DEF Small, TypeOK, MintNFT, Go
  <1>3. held' \in [Merchants -> Nat] /\ burned' \in [Merchants -> Nat]
    BY DEF Small, TypeOK, observations, chain, MintNFT, Go
  <1>4. /\ stored' \subseteq Merchants /\ issued' \subseteq stored'
        /\ classes' \subseteq Foreign
    BY <1>1 DEF Small, TypeOK, chain, MintNFT, Go
  <1>5. op' \in [Requests -> Operations] /\ pc' \in [Requests -> Phases]
    BY DEF Small, TypeOK, request, Phases, MintNFT, Go
  <1>6. /\ who' \in [Requests -> Merchants \cup {None}]
        /\ issuer' \in [Requests -> Issuers \cup {Null}]
    BY DEF Small, TypeOK, request, MintNFT, Go
  <1>7. faults' \in 0..MaxFaults /\ left' \subseteq Requests /\ failed' \subseteq Requests
    BY AssetsAssumption DEF Small, TypeOK, observations, MintNFT, Go
  <1>8. RequestInv'
    BY <1>1 DEF Small, TypeOK, RequestInv, Known, request, chain,
       MintNFT, Go
  <1> QED BY <1>2, <1>3, <1>4, <1>5, <1>6, <1>7, <1>8 DEF Small, TypeOK


LEMMA SendSmall ==
    ASSUME Small, NEW r \in Requests, Send(r)
    PROVE  Small'
  <1>1. who[r] \in Merchants /\ pc[r] # "idle"
    BY DEF Small, RequestInv, Send, Sendable, Sent, Go
  <1>2. asset' \in [Row -> Asset]
    BY DEF Small, TypeOK, Send, Sendable, Sent, Go
  <1>3. held' \in [Merchants -> Nat] /\ burned' \in [Merchants -> Nat]
    <2>1. TypeOK
      BY DEF Small
    <2> QED BY <1>1, <2>1, HeldType DEF TypeOK, observations, chain, Send, Sendable, Sent, Go
  <1>4. /\ stored' \subseteq Merchants /\ issued' \subseteq stored'
        /\ classes' \subseteq Foreign
    BY <1>1 DEF Small, TypeOK, RequestInv, chain, Send, Sendable, Sent, Go
  <1>5. op' \in [Requests -> Operations] /\ pc' \in [Requests -> Phases]
    BY DEF Small, TypeOK, request, Phases, Send, Sendable, Sent, Go
  <1>6. /\ who' \in [Requests -> Merchants \cup {None}]
        /\ issuer' \in [Requests -> Issuers \cup {Null}]
    BY DEF Small, TypeOK, request, Send, Sendable, Sent, Go
  <1>7. faults' \in 0..MaxFaults /\ left' \subseteq Requests /\ failed' \subseteq Requests
    BY AssetsAssumption DEF Small, TypeOK, observations, Send, Sendable, Sent, Go
  <1>8. RequestInv'
    BY <1>1, Markers DEF Small, TypeOK, RequestInv, Known, request, chain,
       Send, Sendable, Sent, Go, Amount
  <1> QED BY <1>2, <1>3, <1>4, <1>5, <1>6, <1>7, <1>8 DEF Small, TypeOK


LEMMA BurnSmall ==
    ASSUME Small, NEW r \in Requests, Burn(r)
    PROVE  Small'
  <1>1. who[r] \in Merchants /\ pc[r] # "idle"
    BY DEF Small, RequestInv, Burn, Burned, Go
  <1>2. asset' \in [Row -> Asset]
    BY DEF Small, TypeOK, Burn, Burned, Go
  <1>3. held' \in [Merchants -> Nat] /\ burned' \in [Merchants -> Nat]
    <2>1. TypeOK
      BY DEF Small
    <2> QED BY <1>1, <2>1, HeldType DEF TypeOK, observations, chain, Burn, Burned, Go
  <1>4. /\ stored' \subseteq Merchants /\ issued' \subseteq stored'
        /\ classes' \subseteq Foreign
    BY <1>1 DEF Small, TypeOK, RequestInv, chain, Burn, Burned, Go
  <1>5. op' \in [Requests -> Operations] /\ pc' \in [Requests -> Phases]
    BY DEF Small, TypeOK, request, Phases, Burn, Burned, Go
  <1>6. /\ who' \in [Requests -> Merchants \cup {None}]
        /\ issuer' \in [Requests -> Issuers \cup {Null}]
    BY DEF Small, TypeOK, request, Burn, Burned, Go
  <1>7. faults' \in 0..MaxFaults /\ left' \subseteq Requests /\ failed' \subseteq Requests
    BY AssetsAssumption DEF Small, TypeOK, observations, Burn, Burned, Go
  <1>8. RequestInv'
    BY <1>1 DEF Small, TypeOK, RequestInv, Known, request, chain,
       Burn, Burned, Go
  <1> QED BY <1>2, <1>3, <1>4, <1>5, <1>6, <1>7, <1>8 DEF Small, TypeOK


LEMMA ActivateSmall ==
    ASSUME Small, NEW r \in Requests, Activate(r)
    PROVE  Small'
  <1>1. who[r] \in Merchants /\ pc[r] # "idle"
    BY DEF Small, RequestInv, Activate, Go
  <1>a. ActivatedIssuer(r) \in Issuers \cup {Null, Empty}
    BY <1>1, Markers DEF ActivatedIssuer, Small, TypeOK
  <1>2. asset' \in [Row -> Asset]
    BY <1>1, <1>a, ActivateFacts DEF Small, TypeOK, Activate
  <1>3. held' \in [Merchants -> Nat] /\ burned' \in [Merchants -> Nat]
    BY DEF Small, TypeOK, observations, chain, Activate, Go
  <1>4. /\ stored' \subseteq Merchants /\ issued' \subseteq stored'
        /\ classes' \subseteq Foreign
    BY <1>1 DEF Small, TypeOK, chain, Activate, Go
  <1>5. op' \in [Requests -> Operations] /\ pc' \in [Requests -> Phases]
    BY DEF Small, TypeOK, request, Phases, Activate, Go
  <1>6. /\ who' \in [Requests -> Merchants \cup {None}]
        /\ issuer' \in [Requests -> Issuers \cup {Null}]
    BY DEF Small, TypeOK, request, Activate, Go
  <1>7. faults' \in 0..MaxFaults /\ left' \subseteq Requests /\ failed' \subseteq Requests
    BY AssetsAssumption DEF Small, TypeOK, observations, Activate, Go
  <1>8. RequestInv'
    BY <1>1, Markers DEF Small, TypeOK, RequestInv, Known, request, chain,
       Activate, Go
  <1> QED BY <1>2, <1>3, <1>4, <1>5, <1>6, <1>7, <1>8 DEF Small, TypeOK


LEMMA CreateSmall ==
    ASSUME Small, NEW r \in Requests, Create(r)
    PROVE  Small'
  <1>1. who[r] \in Merchants /\ pc[r] # "idle"
    BY DEF Small, RequestInv, Create, Go
  <1>2. asset' \in [Row -> Asset]
    BY <1>1, CreateFacts DEF Small, TypeOK, Create
  <1>3. held' \in [Merchants -> Nat] /\ burned' \in [Merchants -> Nat]
    BY DEF Small, TypeOK, observations, chain, Create, Go
  <1>4. /\ stored' \subseteq Merchants /\ issued' \subseteq stored'
        /\ classes' \subseteq Foreign
    BY <1>1 DEF Small, TypeOK, chain, Create, Go
  <1>5. op' \in [Requests -> Operations] /\ pc' \in [Requests -> Phases]
    BY DEF Small, TypeOK, request, Phases, Create, Go
  <1>6. /\ who' \in [Requests -> Merchants \cup {None}]
        /\ issuer' \in [Requests -> Issuers \cup {Null}]
    BY DEF Small, TypeOK, request, Create, Go
  <1>7. faults' \in 0..MaxFaults /\ left' \subseteq Requests /\ failed' \subseteq Requests
    BY AssetsAssumption DEF Small, TypeOK, observations, Create, Go
  <1>8. RequestInv'
    BY <1>1 DEF Small, TypeOK, RequestInv, Known, request, chain,
       Create, Go
  <1> QED BY <1>2, <1>3, <1>4, <1>5, <1>6, <1>7, <1>8 DEF Small, TypeOK


LEMMA FailSmall ==
    ASSUME Small, NEW r \in Requests, Fail(r)
    PROVE  Small'
  <1>1. who[r] \in Merchants /\ pc[r] # "idle"
    BY DEF Small, RequestInv, Fail, Stop, Unfinished
  <1>2. asset' \in [Row -> Asset]
    BY DEF Small, TypeOK, Fail, Stop, Unfinished
  <1>3. held' \in [Merchants -> Nat] /\ burned' \in [Merchants -> Nat]
    BY DEF Small, TypeOK, observations, chain, Fail, Stop, Unfinished
  <1>4. /\ stored' \subseteq Merchants /\ issued' \subseteq stored'
        /\ classes' \subseteq Foreign
    BY <1>1 DEF Small, TypeOK, chain, Fail, Stop, Unfinished
  <1>5. op' \in [Requests -> Operations] /\ pc' \in [Requests -> Phases]
    BY DEF Small, TypeOK, request, Phases, Fail, Stop, Unfinished
  <1>6. /\ who' \in [Requests -> Merchants \cup {None}]
        /\ issuer' \in [Requests -> Issuers \cup {Null}]
    BY DEF Small, TypeOK, request, Fail, Stop, Unfinished
  <1>7. faults' \in 0..MaxFaults /\ left' \subseteq Requests /\ failed' \subseteq Requests
    BY AssetsAssumption DEF Small, TypeOK, observations, Fail, Stop, Unfinished
  <1>8. RequestInv'
    BY <1>1 DEF Small, TypeOK, RequestInv, Known, request, chain,
       Fail, Stop, Unfinished
  <1> QED BY <1>2, <1>3, <1>4, <1>5, <1>6, <1>7, <1>8 DEF Small, TypeOK


LEMMA LandLateSmall ==
    ASSUME Small, NEW r \in Requests, LandLate(r)
    PROVE  Small'
  <1>1. who[r] \in Merchants /\ pc[r] # "idle"
    BY DEF Small, RequestInv, LandLate, Stop, Unfinished, IssueTransfer, IssueClassTransfer,
       Sendable, Sent, Burned
  <1>2. asset' \in [Row -> Asset]
    BY DEF Small, TypeOK, LandLate, Stop, Unfinished, IssueTransfer, IssueClassTransfer,
       Sendable, Sent, Burned
  <1>3. held' \in [Merchants -> Nat] /\ burned' \in [Merchants -> Nat]
    <2>1. TypeOK
      BY DEF Small
    <2> QED BY <1>1, <2>1, HeldType DEF TypeOK, observations, chain, LandLate, Stop, Unfinished, IssueTransfer, IssueClassTransfer,
       Sendable, Sent, Burned
  <1>4. /\ stored' \subseteq Merchants /\ issued' \subseteq stored'
        /\ classes' \subseteq Foreign
    BY <1>1 DEF Small, TypeOK, RequestInv, chain, LandLate, Stop, Unfinished, IssueTransfer, IssueClassTransfer,
       Sendable, Sent, Burned
  <1>5. op' \in [Requests -> Operations] /\ pc' \in [Requests -> Phases]
    BY DEF Small, TypeOK, request, Phases, LandLate, Stop, Unfinished, IssueTransfer, IssueClassTransfer,
       Sendable, Sent, Burned
  <1>6. /\ who' \in [Requests -> Merchants \cup {None}]
        /\ issuer' \in [Requests -> Issuers \cup {Null}]
    BY DEF Small, TypeOK, request, LandLate, Stop, Unfinished, IssueTransfer, IssueClassTransfer,
       Sendable, Sent, Burned
  <1>7. faults' \in 0..MaxFaults /\ left' \subseteq Requests /\ failed' \subseteq Requests
    BY AssetsAssumption DEF Small, TypeOK, observations, LandLate, Stop, Unfinished, IssueTransfer, IssueClassTransfer,
       Sendable, Sent, Burned
  <1>8. RequestInv'
    BY <1>1 DEF Small, TypeOK, RequestInv, Known, request, chain,
       LandLate, Stop, Unfinished, IssueTransfer, IssueClassTransfer,
       Sendable, Sent, Burned
  <1> QED BY <1>2, <1>3, <1>4, <1>5, <1>6, <1>7, <1>8 DEF Small, TypeOK


LEMMA CrashSmall ==
    ASSUME Small, Crash
    PROVE  Small'
  <1>1. TypeOK'
    BY AssetsAssumption DEF Small, TypeOK, Crash, Stop, Unfinished, chain, request, Phases
  <1>2. RequestInv'
    BY DEF Small, TypeOK, RequestInv, Known, Crash, Stop, Unfinished, chain, request
  <1> QED BY <1>1, <1>2 DEF Small

(* A request arrives and nothing else happens.                             *)
LEMMA ArriveSmall ==
    ASSUME Small, NEW r \in Requests, NEW o, NEW p,
           NEW m \in Merchants, NEW i \in Issuers \cup {Null}, Arrive(r, o, p, m, i),
           \/ o \in {"approve", "reject"} /\ p = "get" /\ i \in Known \cup {Null}
           \/ o = "newToken" /\ p = "lookup" /\ i \in Foreign
           \/ o = "tokenSaver" /\ p = "lookup"
           \/ o = "newClass" /\ p = "class" /\ i \in Foreign
           \/ o = "mint" /\ p = "mint"
           \/ o = "mintToken" /\ p \in {"mint", "nft", "activate"}
           \/ o = "burn" /\ p = "burn"
    PROVE  Small'
  <1>1. o \in Operations /\ p \in Phases /\ o # "none" /\ p # "idle"
    BY DEF Operations, Phases
  <1>2. TypeOK'
    BY <1>1 DEF Small, TypeOK, Arrive, chain, observations
  <1>3. RequestInv'
    BY <1>1 DEF Small, TypeOK, RequestInv, Known, Arrive, chain, observations
  <1> QED BY <1>2, <1>3 DEF Small

(* The form of a merchant touches the table only.                          *)
LEMMA FormSmall ==
    ASSUME Small, NEW m \in Merchants, AssetRequestMerchant(m)
    PROVE  Small'
  <1>1. PICK i \in Foreign \cup issued \cup {Null} : CreateAsset(m, i)
    BY DEF AssetRequestMerchant
  <1>2. i \in Issuers \cup {Null} /\ TypeOK
    BY <1>1, Markers DEF Small, TypeOK
  <1>3. asset' \in [Row -> Asset]
    BY <1>1, <1>2, CreateFacts
  <1>4. TypeOK'
    BY <1>2, <1>3 DEF TypeOK, AssetRequestMerchant, chain, request, observations
  <1>5. RequestInv'
    BY DEF Small, RequestInv, Known, AssetRequestMerchant, chain, request, observations
  <1> QED BY <1>4, <1>5 DEF Small

---------------------------------------------------------------------------
(* Steps that leave the table alone                                        *)

Rest == RowInv /\ OwnInv /\ AskedInv /\ UnlinkedByReject /\ ActiveIsIssued /\ ApprovedIsActive

(* Requests keep what they are, and no approval starts or ends.            *)
SameRequests ==
    /\ UNCHANGED request /\ issued \subseteq issued'
    /\ \A r \in Requests :
          /\ op[r] = "approve" /\ pc'[r] \in Asking => pc[r] \in Asking
          /\ op[r] = "approve" /\ pc'[r] = "ok" => pc[r] = "ok"
          /\ Unlinked(r) => Unlinked(r)'
          /\ op[r] = "mintToken" /\ pc[r] = "ok" => pc'[r] = "ok"

(* What an approval may count on stays.                                    *)
LEMMA ExcusesKept ==
    ASSUME SameRequests
    PROVE  /\ SomeUnlinked => SomeUnlinked'
           /\ \A q \in Requests : \A m : Emptied(q, m) => Emptied(q, m)'
  <1>1. SomeUnlinked => SomeUnlinked'
    BY DEF SameRequests, SomeUnlinked
  <1>2. \A q \in Requests : \A m : Emptied(q, m) => Emptied(q, m)'
    BY DEF SameRequests, Emptied, request
  <1> QED BY <1>1, <1>2

(* Active rows that are kept, or whose status and issuer are.              *)
LEMMA ActiveKept ==
    ASSUME ActiveIsIssued, issued \subseteq issued',
           \A q \in Requests : \A m : Emptied(q, m) => Emptied(q, m)',
           \A a \in Row : asset'[a].status = "active" =>
               \/ /\ asset[a].status = "active" /\ asset'[a].issuer = asset[a].issuer
                  /\ asset'[a].owner = asset[a].owner
               \/ asset'[a].issuer \in issued' \cup Foreign
               \/ asset'[a].issuer = Empty /\ \E r \in Requests : Emptied(r, asset[a].owner)'
    PROVE  ActiveIsIssued'
  <1>1. SUFFICES ASSUME NEW a \in Row, asset'[a].status = "active",
                        asset'[a].issuer \notin issued' \cup Foreign
                 PROVE  /\ asset'[a].issuer = Empty
                        /\ \E r \in Requests : Emptied(r, asset[a].owner)'
    BY DEF ActiveIsIssued
  <1>2. CASE /\ asset[a].status = "active" /\ asset'[a].issuer = asset[a].issuer
             /\ asset'[a].owner = asset[a].owner
    <2>1. asset[a].issuer \notin issued \cup Foreign
      BY <1>1, <1>2
    <2>2. asset[a].issuer = Empty /\ \E r \in Requests : Emptied(r, asset[a].owner)
      BY <1>2, <2>1 DEF ActiveIsIssued
    <2>3. PICK r \in Requests : Emptied(r, asset[a].owner)
      BY <2>2
    <2>4. op'[r] = "mintToken" /\ pc'[r] = "ok" /\ who'[r] = asset[a].owner
      BY <2>3 DEF Emptied
    <2> QED BY <1>2, <2>2, <2>4 DEF Emptied
  <1> QED BY <1>1, <1>2

LEMMA QuietRest ==
    ASSUME Rest, SameRequests, UNCHANGED asset
    PROVE  Rest'
  <1>0. Known \subseteq Known'
    BY DEF Known, SameRequests
  <1>1. RowInv'
    BY <1>0 DEF Rest, RowInv, Present
  <1>2. OwnInv'
    BY ExcusesKept DEF Rest, OwnInv
  <1>3. AskedInv'
    BY ExcusesKept DEF Rest, AskedInv, SameRequests, Asked, Present, request
  <1>4. UnlinkedByReject'
    BY ExcusesKept DEF Rest, UnlinkedByReject, SomeUnlinked, Present, Linked
  <1>5. ActiveIsIssued'
    <2>1. issued \subseteq issued'
      BY DEF SameRequests
    <2> QED BY <2>1, ActiveKept, ExcusesKept DEF Rest
  <1>6. ApprovedIsActive'
    <2>1. SUFFICES ASSUME NEW r \in Requests, Approved(r)'
                   PROVE  (ActiveAs(who[r]) \/ \E q \in Requests : Unlinked(q) \/ Emptied(q, who[r]))'
      BY DEF ApprovedIsActive
    <2>2. Approved(r) /\ who'[r] = who[r]
      BY <2>1 DEF Approved, SameRequests, request
    <2>3. CASE ActiveAs(who[r])
      BY <2>2, <2>3 DEF ActiveAs, WithIssuer, Present
    <2>4. CASE SomeUnlinked
      BY <2>2, <2>4, ExcusesKept DEF SomeUnlinked
    <2>5. CASE \E q \in Requests : Emptied(q, who[r])
      BY <2>2, <2>5 DEF SameRequests, Emptied, request
    <2> QED BY <2>2, <2>3, <2>4, <2>5 DEF Rest, ApprovedIsActive, SomeUnlinked
  <1> QED BY <1>1, <1>2, <1>3, <1>4, <1>5, <1>6 DEF Rest

(* The steps of one request that leave the table alone.                    *)
LEMMA QuietSteps ==
    ASSUME Small, NEW r \in Requests,
           \/ GetAsset(r) \/ LookupIssuer(r) \/ StoreIssuer(r) \/ Issue(r) \/ IssueClass(r)
           \/ Mint(r) \/ MintNFT(r) \/ Send(r) \/ Burn(r) \/ Fail(r) \/ LandLate(r)
    PROVE  SameRequests /\ UNCHANGED asset
  <1>1. CASE GetAsset(r)
    BY <1>1 DEF GetAsset, Go, SameRequests, Asking, Unlinked,
          Small, TypeOK, RequestInv, chain, request
  <1>2. CASE LookupIssuer(r)
    BY <1>2 DEF LookupIssuer, Go, SameRequests, Asking, Unlinked,
          Small, TypeOK, RequestInv, chain, request
  <1>3. CASE StoreIssuer(r)
    BY <1>3 DEF StoreIssuer, Go, SameRequests, Asking, Unlinked,
          Small, TypeOK, RequestInv, chain, request
  <1>4. CASE Issue(r)
    BY <1>4 DEF Issue, IssueTransfer, Go, SameRequests, Asking, Unlinked,
          Small, TypeOK, RequestInv, chain, request
  <1>5. CASE Mint(r)
    BY <1>5 DEF Mint, IssueTransfer, Go, SameRequests, Asking, Unlinked,
          Small, TypeOK, RequestInv, chain, request
  <1>6. CASE Send(r)
    BY <1>6 DEF Send, Go, SameRequests, Asking, Unlinked,
          Small, TypeOK, RequestInv, chain, request
  <1>7. CASE Burn(r)
    BY <1>7 DEF Burn, Go, SameRequests, Asking, Unlinked,
          Small, TypeOK, RequestInv, chain, request
  <1>8. CASE Fail(r)
    BY <1>8 DEF Fail, Stop, Unfinished, SameRequests, Asking, Unlinked,
          Small, TypeOK, RequestInv, chain, request
  <1>9. CASE LandLate(r)
    BY <1>9 DEF LandLate, IssueTransfer, IssueClassTransfer, Stop, SameRequests, Asking, Unlinked,
          Small, TypeOK, RequestInv, chain, request
  <1>10. CASE IssueClass(r)
    BY <1>10 DEF IssueClass, Go, SameRequests, Asking, Unlinked,
          Small, TypeOK, RequestInv, chain, request
  <1>11. CASE MintNFT(r)
    BY <1>11 DEF MintNFT, Go, SameRequests, Asking, Unlinked,
          Small, TypeOK, RequestInv, chain, request
  <1> QED BY <1>1, <1>2, <1>3, <1>4, <1>5, <1>6, <1>7, <1>8, <1>9, <1>10, <1>11

LEMMA CrashQuiet ==
    ASSUME Small, Crash
    PROVE  SameRequests /\ UNCHANGED asset
  BY DEF Crash, Stop, Unfinished, SameRequests, Asking, Unlinked, Small, TypeOK, RequestInv, chain, request

(* A request that arrives and is not an approval changes nothing; an       *)
(* approval has read the row of its merchant or of its issuer.             *)
LEMMA ArriveRest ==
    ASSUME Small, Rest, NEW r \in Requests, NEW o, NEW p, NEW m \in Merchants, NEW i,
           Arrive(r, o, p, m, i), o # "none", p \notin {"ok", "error", "delete"},
           o = "approve" => /\ p = "get"
                            /\ \E a \in Row : /\ asset[a].status = "pending" /\ asset[a].links[m] > 0
                                              /\ i = asset[a].issuer
    PROVE  Rest'
  <1>0. /\ op' = [op EXCEPT ![r] = o] /\ pc' = [pc EXCEPT ![r] = p]
        /\ who' = [who EXCEPT ![r] = m] /\ issuer' = [issuer EXCEPT ![r] = i]
        /\ UNCHANGED <<asset, issued>> /\ pc[r] = "idle" /\ op[r] = "none"
    BY DEF Arrive, chain, Small, RequestInv
  <1>a. /\ op'[r] = o /\ pc'[r] = p /\ who'[r] = m /\ issuer'[r] = i
        /\ \A q \in Requests : q # r =>
              op'[q] = op[q] /\ pc'[q] = pc[q] /\ who'[q] = who[q] /\ issuer'[q] = issuer[q]
    BY <1>0 DEF Small, TypeOK
  <1>b. \A q \in Requests : Unlinked(q) => Unlinked(q)'
    BY <1>0, <1>a DEF Unlinked
  <1>c. SomeUnlinked => SomeUnlinked'
    BY <1>b DEF SomeUnlinked
  <1>1. RowInv'
    BY <1>0 DEF Rest, RowInv, Present, Known
  <1>2. OwnInv'
    BY <1>0, <1>c DEF Rest, OwnInv
  <1>3. AskedInv'
    <2>1. SUFFICES ASSUME NEW q \in Requests, op'[q] = "approve", pc'[q] \in Asking, ~SomeUnlinked'
                   PROVE  \E a \in Row : Asked(q, a)'
      BY DEF AskedInv
    <2>2. CASE q = r
      <3>1. PICK a \in Row : /\ asset[a].status = "pending" /\ asset[a].links[m] > 0
                             /\ i = asset[a].issuer
        BY <2>1, <2>2, <1>a
      <3>2. Present(a) /\ asset'[a] = asset[a]
        BY <3>1, <1>0 DEF Present
      <3>3. CASE i = Null
        <4>1. m # asset[a].owner => asset[a].links[m] = 0
          BY <3>1, <3>2, <3>3 DEF Rest, RowInv
        <4>2. ~(0 > 0)
          OBVIOUS
        <4>3. asset[a].owner = m
          BY <4>1, <4>2, <3>1
        <4> QED BY <4>3, <3>2, <3>3, <2>2, <1>a DEF Asked, Present
      <3>4. CASE i # Null
        <4>1. asset[a].owner = None
          BY <3>1, <3>2, <3>4 DEF Rest, RowInv
        <4> QED BY <4>1, <3>1, <3>2, <3>4, <2>2, <1>a DEF Asked, Present
      <3> QED BY <3>3, <3>4
    <2>3. CASE q # r
      BY <2>1, <2>3, <1>0, <1>a, <1>c DEF Rest, AskedInv, Asked, Present
    <2> QED BY <2>2, <2>3
  <1>4. UnlinkedByReject'
    BY <1>0, <1>b DEF Rest, UnlinkedByReject, Present, Linked
  <1>d. \A q \in Requests : \A n : Emptied(q, n) => Emptied(q, n)'
    BY <1>0, <1>a DEF Emptied
  <1>5. ActiveIsIssued'
    BY <1>0, <1>d, ActiveKept DEF Rest
  <1>6. ApprovedIsActive'
    <2>1. SUFFICES ASSUME NEW q \in Requests, Approved(q)'
                   PROVE  (ActiveAs(who[q]) \/ \E x \in Requests : Unlinked(x) \/ Emptied(x, who[q]))'
      BY DEF ApprovedIsActive
    <2>2. q # r /\ Approved(q) /\ who'[q] = who[q]
      BY <2>1, <1>a DEF Approved
    <2>3. CASE ActiveAs(who[q])
      BY <2>2, <2>3, <1>0 DEF ActiveAs, WithIssuer, Present
    <2>4. CASE SomeUnlinked
      BY <2>2, <2>4, <1>c DEF SomeUnlinked
    <2>5. CASE \E x \in Requests : Emptied(x, who[q])
      <3>1. PICK x \in Requests : Emptied(x, who[q])
        BY <2>5
      <3>2. x # r
        BY <3>1, <1>0 DEF Emptied
      <3> QED BY <3>1, <3>2, <2>2, <1>a DEF Emptied
    <2> QED BY <2>2, <2>3, <2>4, <2>5 DEF Rest, ApprovedIsActive, SomeUnlinked
  <1> QED BY <1>1, <1>2, <1>3, <1>4, <1>5, <1>6 DEF Rest

---------------------------------------------------------------------------
(* Steps that change the table                                             *)

(* A rejection that has deleted the link excuses what is missing.          *)
LEMMA RejectingRest ==
    ASSUME Rest, SomeUnlinked', RowInv', ActiveIsIssued'
    PROVE  Rest'
  BY DEF Rest, OwnInv, AskedInv, UnlinkedByReject, ApprovedIsActive, SomeUnlinked

LEMMA DeleteLinkRest ==
    ASSUME Small, Rest, NEW r \in Requests, DeleteLink(r)
    PROVE  Rest'
  <1>1. op[r] = "reject" /\ op' = op /\ pc' = [pc EXCEPT ![r] = "delete"] /\ issued' = issued
    BY DEF Small, RequestInv, DeleteLink, Go, request, chain
  <1>2. SomeUnlinked'
    BY <1>1 DEF SomeUnlinked, Unlinked, Small, TypeOK
  <1>3. RejectedIssuer(r) # Null
    BY Markers DEF RejectedIssuer
  <1>4. ASSUME NEW a \in Row
        PROVE  /\ asset'[a].status = asset[a].status /\ asset'[a].issuer = asset[a].issuer
               /\ asset'[a].owner = asset[a].owner
               /\ asset[a].issuer = Null => asset'[a] = asset[a]
    <2>1. asset'[a] = IF a \in WithIssuer(RejectedIssuer(r))
                      THEN [asset[a] EXCEPT !.links[who[r]] = 0] ELSE asset[a]
      BY DEF DeleteLink
    <2>2. asset[a] \in Asset
      BY DEF Small, TypeOK
    <2>3. asset[a].issuer = Null => asset'[a] = asset[a]
      BY <2>1, <1>3 DEF WithIssuer
    <2> QED BY <2>1, <2>2, <2>3 DEF Asset
  <1>5. RowInv'
    BY <1>1, <1>4 DEF Rest, RowInv, Present, Known
  <1>6. ActiveIsIssued'
    <2>1. pc[r] = "unlink" /\ who' = who
      BY DEF DeleteLink, request
    <2>2. \A q \in Requests : \A n : Emptied(q, n) => Emptied(q, n)'
      BY <1>1, <2>1 DEF Emptied, Small, TypeOK
    <2> QED BY <1>1, <1>4, <2>2, ActiveKept DEF Rest
  <1> QED BY <1>2, <1>5, <1>6, RejectingRest

LEMMA DeleteAssetRest ==
    ASSUME Small, Rest, NEW r \in Requests, DeleteAsset(r)
    PROVE  Rest'
  <1>1. /\ op[r] = "reject" /\ op' = op /\ issued' = issued
        /\ pc' = [pc EXCEPT ![r] = "ok"] \/ pc' = [pc EXCEPT ![r] = "error"]
    BY DEF Small, RequestInv, DeleteAsset, Go, request, chain
  <1>2. SomeUnlinked'
    BY <1>1 DEF SomeUnlinked, Unlinked, Small, TypeOK
  <1>3. \A a \in Row : asset'[a] = asset[a] \/ asset'[a] = NoAsset
    BY DEF DeleteAsset
  <1>4. NoAsset.status = "absent"
    BY DEF NoAsset
  <1>5. RowInv'
    BY <1>1, <1>3, <1>4 DEF Rest, RowInv, Present, Known
  <1>6. ActiveIsIssued'
    <2>1. pc[r] = "delete" /\ who' = who
      BY DEF DeleteAsset, request
    <2>2. \A q \in Requests : \A n : Emptied(q, n) => Emptied(q, n)'
      BY <1>1, <2>1 DEF Emptied, Small, TypeOK
    <2> QED BY <1>1, <1>3, <1>4, <2>2, ActiveKept DEF Rest
  <1> QED BY <1>2, <1>5, <1>6, RejectingRest

(* A row made for a request is pending and linked; others keep their       *)
(* issuer, owner and status.                                               *)
LEMMA CreatedRest ==
    ASSUME Small, Rest, SameRequests, issued' = issued,
           NEW m \in Merchants, NEW i \in Known \cup {Null}, CreateAsset(m, i)
    PROVE  Rest'
  <1>0. TypeOK /\ i \in Issuers \cup {Null}
    BY Markers DEF Small, TypeOK, Known
  <1>a. \A a \in Row : Present(a) =>
            /\ asset'[a].status = asset[a].status /\ asset'[a].issuer = asset[a].issuer
            /\ asset'[a].owner = asset[a].owner
            /\ \A n \in Merchants : asset'[a].links[n] \in {asset[a].links[n], asset[a].links[n] + 1}
            /\ asset[a].issuer = Null => asset'[a] = asset[a]
    BY <1>0, CreateFacts
  <1>b. \A a \in Row : asset'[a].status # "absent" /\ ~Present(a) =>
            /\ asset'[a].status = "pending" /\ asset'[a].issuer = i
            /\ asset'[a].owner = IF i = Null THEN m ELSE None
            /\ \A n \in Merchants : asset'[a].links[n] = IF n = m THEN 1 ELSE 0
    BY <1>0, CreateFacts
  <1>c. Known' = Known
    BY DEF Known
  <1>1. RowInv'
    <2>1. SUFFICES ASSUME NEW a \in Row, asset'[a].status # "absent"
                   PROVE  /\ asset'[a].issuer = Null =>
                                /\ asset'[a].status = "pending" /\ asset'[a].owner \in Merchants
                                /\ \A n \in Merchants : n # asset'[a].owner => asset'[a].links[n] = 0
                          /\ asset'[a].status = "pending" /\ asset'[a].issuer # Null =>
                                asset'[a].owner = None /\ asset'[a].issuer \in Known
                          /\ asset'[a].owner = None => asset'[a].issuer \in Known
      BY <1>c DEF RowInv, Present
    <2>2. CASE Present(a)
      BY <2>2, <1>a DEF Rest, RowInv
    <2>3. CASE ~Present(a)
      BY <2>1, <2>3, <1>b, Markers
    <2> QED BY <2>2, <2>3
  <1>2. OwnInv'
    <2>1. SUFFICES ASSUME NEW a \in Row, asset'[a].status = "active", asset'[a].issuer \in Merchants
                   PROVE  asset'[a].owner = asset'[a].issuer \/ SomeUnlinked'
      BY DEF OwnInv
    <2>2. Present(a)
      BY <2>1, <1>b
    <2> QED BY <2>1, <2>2, <1>a, ExcusesKept DEF Rest, OwnInv
  <1>3. AskedInv'
    <2>1. SUFFICES ASSUME NEW r \in Requests, op'[r] = "approve", pc'[r] \in Asking
                   PROVE  SomeUnlinked' \/ \E a \in Row : Asked(r, a)'
      BY DEF AskedInv
    <2>2. op[r] = "approve" /\ pc[r] \in Asking /\ who'[r] = who[r] /\ issuer'[r] = issuer[r]
      BY <2>1 DEF SameRequests, request
    <2>3. CASE SomeUnlinked
      BY <2>3, ExcusesKept
    <2>4. CASE \E a \in Row : Asked(r, a)
      BY <2>2, <2>4, <1>a DEF Asked, Present
    <2> QED BY <2>2, <2>3, <2>4 DEF Rest, AskedInv
  <1>4. UnlinkedByReject'
    <2>1. SUFFICES ASSUME NEW a \in Row, asset'[a].status # "absent", ~Linked(a)'
                   PROVE  \E r \in Requests : Unlinked(r)'
      BY DEF UnlinkedByReject, Present
    <2>2. CASE Present(a)
      <3>1. \A n \in Merchants : asset[a].links[n] \in Nat
        BY <1>0 DEF TypeOK, Asset
      <3>2. ~Linked(a)
        <4>1. SUFFICES ASSUME NEW n \in Merchants, asset[a].links[n] > 0 PROVE asset'[a].links[n] > 0
          BY <2>1 DEF Linked
        <4>2. asset'[a].links[n] = asset[a].links[n] \/ asset'[a].links[n] = asset[a].links[n] + 1
          BY <2>2, <1>a
        <4> QED BY <4>1, <4>2, <3>1
      <3> QED BY <2>2, <3>2 DEF Rest, UnlinkedByReject, SameRequests
    <2>3. CASE ~Present(a)
      <3>1. asset'[a].links[m] = 1
        BY <2>1, <2>3, <1>b
      <3> QED BY <3>1, <2>1 DEF Linked
    <2> QED BY <2>2, <2>3
  <1>5. ActiveIsIssued'
    <2>1. \A a \in Row : asset'[a].status = "active" => Present(a)
      BY <1>b
    <2>2. issued \subseteq issued'
      BY DEF SameRequests
    <2> QED BY <1>a, <2>1, <2>2, ExcusesKept, ActiveKept DEF Rest
  <1>6. ApprovedIsActive'
    <2>1. SUFFICES ASSUME NEW r \in Requests, Approved(r)'
                   PROVE  (ActiveAs(who[r]) \/ \E q \in Requests : Unlinked(q) \/ Emptied(q, who[r]))'
      BY DEF ApprovedIsActive
    <2>2. Approved(r) /\ who'[r] = who[r]
      BY <2>1 DEF Approved, SameRequests, request
    <2>3. CASE ActiveAs(who[r])
      BY <2>2, <2>3, <1>a DEF ActiveAs, WithIssuer, Present
    <2>4. CASE SomeUnlinked
      BY <2>2, <2>4, ExcusesKept DEF SomeUnlinked
    <2>5. CASE \E q \in Requests : Emptied(q, who[r])
      BY <2>2, <2>5 DEF SameRequests, Emptied, request
    <2> QED BY <2>2, <2>3, <2>4, <2>5 DEF Rest, ApprovedIsActive, SomeUnlinked
  <1> QED BY <1>1, <1>2, <1>3, <1>4, <1>5, <1>6 DEF Rest

LEMMA FormRest ==
    ASSUME Small, Rest, NEW m \in Merchants, AssetRequestMerchant(m)
    PROVE  Rest'
  <1>1. PICK i \in Foreign \cup issued \cup {Null} : CreateAsset(m, i)
    BY DEF AssetRequestMerchant
  <1>2. SameRequests /\ issued' = issued
    BY DEF AssetRequestMerchant, SameRequests, Unlinked, request, chain
  <1>3. i \in Known \cup {Null}
    BY DEF Known
  <1> QED BY <1>1, <1>2, <1>3, CreatedRest

LEMMA CreateRest ==
    ASSUME Small, Rest, NEW r \in Requests, Create(r)
    PROVE  Rest'
  <1>1. SameRequests /\ issued' = issued
    BY DEF Create, Go, SameRequests, Asking, Unlinked, Small, TypeOK, RequestInv, chain, request
  <1>2. who[r] \in Merchants /\ issuer[r] \in Known \cup {Null} /\ CreateAsset(who[r], issuer[r])
    BY DEF Create, Small, RequestInv, Known
  <1> QED BY <1>1, <1>2, CreatedRest

(* An activation that changes a row of merchant m names m, an issuer that  *)
(* no other row has, or nobody (for /token_mint).                          *)
LEMMA ActivateRest ==
    ASSUME Small, Rest, NEW r \in Requests, Activate(r)
    PROVE  Rest'
  <1> DEFINE m == who[r]
  <1> DEFINE i == ActivatedIssuer(r)
  <1>1. /\ pc[r] = "activate" /\ op[r] \in {"approve", "mintToken"} /\ m \in Merchants
        /\ op' = op /\ who' = who /\ issuer' = issuer /\ issued' = issued /\ TypeOK
        /\ op[r] = "approve" /\ issuer[r] = Null => m \in issued
        /\ op[r] = "approve" => issuer[r] \in Known \cup {Null}
    BY DEF Activate, Small, RequestInv, request, chain
  <1>2. CASE ~Activatable(m, i)
    <2>1. UNCHANGED asset /\ pc' = [pc EXCEPT ![r] = "error"]
      BY <1>2 DEF Activate, Go
    <2>2. SameRequests
      BY <2>1, <1>1 DEF SameRequests, Unlinked, Asking, TypeOK, request
    <2> QED BY <2>1, <2>2, QuietRest
  <1>3. CASE Activatable(m, i)
    <2>1. ActivateAsset(m, i) /\ pc' = [pc EXCEPT ![r] = "ok"]
      BY <1>3 DEF Activate, Go
    <2>2. /\ op[r] = "mintToken" => i = Empty
          /\ op[r] = "approve" /\ issuer[r] = Null => i = m
          /\ op[r] = "approve" /\ issuer[r] # Null => i = issuer[r]
      BY DEF ActivatedIssuer
    <2>3. i \in Issuers \cup {Null, Empty}
      BY <1>1, <2>2, Markers DEF TypeOK
    <2>4. \A a \in Row : /\ asset'[a].owner = asset[a].owner /\ asset'[a].links = asset[a].links
                         /\ asset'[a].status # "absent" <=> Present(a)
      BY <1>1, <2>1, <2>3, ActivateFacts
    <2>5. \A a \in Row : Present(a) /\ asset[a].owner = m =>
                            asset'[a].status = "active" /\ asset'[a].issuer = i
      BY <1>1, <2>1, <2>3, ActivateFacts
    <2>6. \A a \in Row : asset[a].owner # m \/ ~Present(a) => asset'[a] = asset[a]
      BY <1>1, <2>1, <2>3, ActivateFacts
    <2>7. /\ \A q \in Requests : Unlinked(q) => Unlinked(q)'
          /\ SomeUnlinked => SomeUnlinked'
          /\ \A q \in Requests : \A n : Emptied(q, n) => Emptied(q, n)'
      BY <1>1, <2>1 DEF Unlinked, SomeUnlinked, Emptied, TypeOK
    <2>8. ASSUME NEW a \in Row, Present(a), asset[a].owner = m,
                 op[r] = "approve", issuer[r] # Null
          PROVE  SomeUnlinked
      <3>1. SUFFICES ASSUME NEW b \in Row, Asked(r, b) PROVE FALSE
        BY <1>1, <2>8 DEF Rest, AskedInv, Asking
      <3>2. Present(b) /\ asset[b].owner = None /\ asset[b].issuer = i
        BY <2>2, <2>8, <3>1 DEF Asked
      <3>3. a # b
        BY <2>8, <3>2, <1>1, Markers
      <3>4. a \in Owned(m) /\ b \in WithIssuer(i)
        BY <2>8, <3>2 DEF Owned, WithIssuer
      <3>5. Owned(m) \cup WithIssuer(i) \in SUBSET Row
        BY DEF Owned, WithIssuer
      <3>6. ~(Cardinality(Owned(m) \cup WithIssuer(i)) <= 1)
        BY <3>3, <3>4, <3>5, TwoRows
      <3> QED BY <1>3, <3>4, <3>6 DEF Activatable
    <2>9. RowInv'
      <3>1. SUFFICES ASSUME NEW a \in Row, Present(a)
                     PROVE  /\ asset'[a].issuer = Null =>
                                  /\ asset'[a].status = "pending" /\ asset'[a].owner \in Merchants
                                  /\ \A n \in Merchants : n # asset'[a].owner => asset'[a].links[n] = 0
                            /\ asset'[a].status = "pending" /\ asset'[a].issuer # Null =>
                                  asset'[a].owner = None /\ asset'[a].issuer \in Known
                            /\ asset'[a].owner = None => asset'[a].issuer \in Known
        BY <1>1, <2>4 DEF RowInv, Present, Known
      <3>2. CASE asset[a].owner = m
        <4>1. asset'[a].status = "active" /\ asset'[a].issuer = i /\ asset'[a].owner = m
          BY <2>4, <2>5, <3>1, <3>2
        <4>2. i # Null
          BY <1>1, <2>2, Markers
        <4> QED BY <4>1, <4>2, <1>1, Markers
      <3>3. CASE asset[a].owner # m
        BY <3>1, <3>3, <2>6 DEF Rest, RowInv
      <3> QED BY <3>2, <3>3
    <2>10. OwnInv'
      <3>1. SUFFICES ASSUME NEW a \in Row, asset'[a].status = "active", asset'[a].issuer \in Merchants
                     PROVE  asset'[a].owner = asset'[a].issuer \/ SomeUnlinked'
        BY DEF OwnInv
      <3>2. Present(a)
        BY <2>4, <3>1
      <3>3. CASE asset[a].owner = m
        <4>1. asset'[a].issuer = i /\ asset'[a].owner = m
          BY <2>4, <2>5, <3>2, <3>3
        <4>2. CASE op[r] = "mintToken"
          BY <4>1, <4>2, <3>1, <2>2, Markers
        <4>3. CASE op[r] = "approve" /\ issuer[r] = Null
          BY <4>1, <4>3, <2>2
        <4>4. CASE op[r] = "approve" /\ issuer[r] # Null
          BY <4>4, <3>2, <3>3, <2>7, <2>8
        <4> QED BY <1>1, <4>2, <4>3, <4>4
      <3>4. CASE asset[a].owner # m
        BY <3>1, <3>4, <2>6, <2>7 DEF Rest, OwnInv
      <3> QED BY <3>3, <3>4
    <2>11. AskedInv'
      <3>1. SUFFICES ASSUME NEW q \in Requests, op'[q] = "approve", pc'[q] \in Asking, ~SomeUnlinked'
                     PROVE  \E a \in Row : Asked(q, a)'
        BY DEF AskedInv
      <3>2. op[q] = "approve" /\ pc[q] \in Asking /\ ~SomeUnlinked
        BY <3>1, <1>1, <2>1, <2>7 DEF Asking, TypeOK
      <3>3. PICK a \in Row : Asked(q, a)
        BY <3>2 DEF Rest, AskedInv
      <3>4. CASE issuer[q] = Null
        BY <3>3, <3>4, <2>4, <1>1 DEF Asked, Present
      <3>5. CASE issuer[q] # Null
        <4>1. asset[a].owner # m
          BY <3>3, <3>5, <1>1, Markers DEF Asked
        <4> QED BY <4>1, <3>3, <3>5, <2>6, <1>1 DEF Asked, Present
      <3> QED BY <3>4, <3>5
    <2>12. UnlinkedByReject'
      BY <2>4, <2>7 DEF Rest, UnlinkedByReject, Present, Linked
    <2>13. ActiveIsIssued'
      <3>1. SUFFICES ASSUME NEW a \in Row, asset'[a].status = "active"
                     PROVE  \/ /\ asset[a].status = "active" /\ asset'[a].issuer = asset[a].issuer
                               /\ asset'[a].owner = asset[a].owner
                            \/ asset'[a].issuer \in issued' \cup Foreign
                            \/ /\ asset'[a].issuer = Empty
                               /\ \E q \in Requests : Emptied(q, asset[a].owner)'
        BY <1>1, <2>7, ActiveKept DEF Rest
      <3>2. Present(a)
        BY <2>4, <3>1
      <3>3. CASE asset[a].owner = m
        <4>1. asset'[a].issuer = i /\ asset'[a].owner = m
          BY <2>4, <2>5, <3>2, <3>3
        <4>2. CASE op[r] = "mintToken"
          <5>1. Emptied(r, asset[a].owner)'
            BY <1>1, <2>1, <4>1, <4>2 DEF Emptied, TypeOK
          <5> QED BY <2>2, <4>1, <4>2, <5>1
        <4>3. CASE op[r] = "approve"
          BY <4>1, <4>3, <1>1, <2>2 DEF Known
        <4> QED BY <1>1, <4>2, <4>3
      <3>4. CASE asset[a].owner # m
        BY <3>1, <3>4, <2>6
      <3> QED BY <3>3, <3>4
    <2>14. ApprovedIsActive'
      <3>1. SUFFICES ASSUME NEW q \in Requests, Approved(q)', ~SomeUnlinked',
                            ~ \E x \in Requests : Emptied(x, who[q])'
                     PROVE  ActiveAs(who[q])'
        BY DEF ApprovedIsActive, SomeUnlinked
      <3>2. /\ op[q] = "approve" /\ issuer[q] = Null /\ who'[q] = who[q] /\ ~SomeUnlinked
            /\ who[q] \in Merchants
        BY <3>1, <1>1, <2>7 DEF Approved, Small, RequestInv
      <3>3. SUFFICES \E a \in Row : /\ asset'[a].status = "active"
                                    /\ asset'[a].issuer = who[q]
        BY <3>2 DEF ActiveAs, WithIssuer, Present
      <3>4. CASE q = r
        <4>1. PICK a \in Row : Asked(r, a)
          BY <3>2, <3>4, <1>1 DEF Rest, AskedInv, Asking
        <4> QED BY <4>1, <3>2, <3>4, <2>2, <2>5 DEF Asked
      <3>5. CASE q # r
        <4>1. Approved(q)
          BY <3>1, <3>2, <3>5, <2>1 DEF Approved, TypeOK
        <4>2. ~ \E x \in Requests : Emptied(x, who[q])
          BY <3>1, <3>2, <2>7 DEF Emptied
        <4>3. PICK a \in Row : Present(a) /\ asset[a].issuer = who[q] /\ asset[a].status = "active"
          BY <4>1, <4>2, <3>2 DEF Rest, ApprovedIsActive, SomeUnlinked, ActiveAs, WithIssuer
        <4>4. asset[a].owner = who[q]
          BY <4>3, <3>2 DEF Rest, OwnInv
        <4>5. CASE who[q] # m
          BY <4>3, <4>4, <4>5, <2>6
        <4>6. CASE who[q] = m
          <5>1. asset'[a].status = "active" /\ asset'[a].issuer = i
            BY <4>3, <4>4, <4>6, <2>5
          <5>2. op[r] # "mintToken"
            BY <4>6, <3>1, <3>2, <1>1, <2>1 DEF Emptied, TypeOK
          <5>3. ~(op[r] = "approve" /\ issuer[r] # Null)
            BY <4>3, <4>4, <4>6, <3>2, <2>8
          <5> QED BY <5>1, <5>2, <5>3, <4>6, <1>1, <2>2
        <4> QED BY <4>5, <4>6
      <3> QED BY <3>4, <3>5
    <2> QED BY <2>9, <2>10, <2>11, <2>12, <2>13, <2>14 DEF Rest
  <1> QED BY <1>2, <1>3

---------------------------------------------------------------------------
(* The requests of every handler are among those of ArriveSmall.           *)
LEMMA HttpInv ==
    ASSUME Small, Rest, NEW r \in Requests, Http(r)
    PROVE  Small' /\ Rest'
  <1>0. stored \subseteq Merchants /\ Merchants \subseteq Issuers
    BY Markers DEF Small, TypeOK
  <1>1. CASE PageAssetRequestsAdminUpdate(r)
    <2>1. PICK a \in Row, m \in Merchants :
              /\ asset[a].status = "pending" /\ asset[a].links[m] > 0
              /\ \E o \in {"approve", "reject"} : Arrive(r, o, "get", m, asset[a].issuer)
      BY <1>1 DEF PageAssetRequestsAdminUpdate
    <2>2. asset[a].issuer \in Known \cup {Null} /\ asset[a].issuer \in Issuers \cup {Null}
      BY <2>1, Markers DEF Rest, RowInv, Present, Known, Small, TypeOK
    <2>3. PICK o \in {"approve", "reject"} : Arrive(r, o, "get", m, asset[a].issuer)
      BY <2>1
    <2>4. Small'
      BY <2>2, <2>3, ArriveSmall
    <2>5. \E b \in Row : /\ asset[b].status = "pending" /\ asset[b].links[m] > 0
                         /\ asset[a].issuer = asset[b].issuer
      BY <2>1
    <2>6. Rest'
      <3>1. o # "none" /\ "get" \notin {"ok", "error", "delete"}
        BY <2>3
      <3> QED BY <2>3, <2>5, <3>1, ArriveRest
    <2> QED BY <2>4, <2>6
  <1>2. CASE NewToken(r)
    <2>1. PICK i \in Foreign : \/ Arrive(r, "newToken", "lookup", Holder[i], i)
                               \/ Arrive(r, "newClass", "class", Holder[i], i)
      BY <1>2 DEF NewToken
    <2>2. i \in Issuers \cup {Null} /\ Holder[i] \in Merchants
      BY Markers, AssetsAssumption
    <2> QED BY <2>1, <2>2, ArriveSmall, ArriveRest
  <1>3. CASE NewTokenSaver(r)
    <2>1. PICK m \in Merchants : Arrive(r, "tokenSaver", "lookup", m, Null)
      BY <1>3, AssetsAssumption DEF NewTokenSaver
    <2> QED BY <2>1, ArriveSmall, ArriveRest
  <1>4. CASE MintTokenMerchant(r)
    <2>1. PICK m \in stored : Arrive(r, "mint", "mint", m, m)
      BY <1>4 DEF MintTokenMerchant
    <2>2. m \in Merchants /\ m \in Issuers \cup {Null}
      BY <1>0
    <2> QED BY <2>1, <2>2, ArriveSmall, ArriveRest
  <1>5. CASE MintToken(r)
    <2>1. CASE \E m \in stored : Arrive(r, "mintToken", "mint", m, m)
      <3>1. PICK m \in stored : Arrive(r, "mintToken", "mint", m, m)
        BY <2>1
      <3>2. m \in Merchants /\ m \in Issuers \cup {Null}
        BY <1>0
      <3> QED BY <3>1, <3>2, ArriveSmall, ArriveRest
    <2>2. CASE \E i \in Foreign : Arrive(r, "mintToken", "nft", Holder[i], i)
      <3>1. PICK i \in Foreign : Arrive(r, "mintToken", "nft", Holder[i], i)
        BY <2>2
      <3>2. i \in Issuers \cup {Null} /\ Holder[i] \in Merchants
        BY Markers, AssetsAssumption
      <3> QED BY <3>1, <3>2, ArriveSmall, ArriveRest
    <2>3. CASE \E m \in Merchants : Arrive(r, "mintToken", "activate", m, Null)
      BY <2>3, ArriveSmall, ArriveRest
    <2> QED BY <1>5, <2>1, <2>2, <2>3 DEF MintToken
  <1>6. CASE BurnTokenMerchant(r)
    <2>1. PICK m \in stored : Arrive(r, "burn", "burn", m, m)
      BY <1>6 DEF BurnTokenMerchant
    <2>2. m \in Merchants /\ m \in Issuers \cup {Null}
      BY <1>0
    <2> QED BY <2>1, <2>2, ArriveSmall, ArriveRest
  <1> QED BY <1>1, <1>2, <1>3, <1>4, <1>5, <1>6 DEF Http

LEMMA RestInit ==
    ASSUME Init
    PROVE  Rest
  <1>1. \A a \in Row : ~Present(a) /\ asset[a].status = "absent"
    BY DEF Init, Present, NoAsset
  <1>2. \A r \in Requests : op[r] = "none"
    BY DEF Init
  <1>3. RowInv /\ OwnInv /\ UnlinkedByReject /\ ActiveIsIssued
    BY <1>1 DEF RowInv, OwnInv, UnlinkedByReject, ActiveIsIssued
  <1>4. AskedInv /\ ApprovedIsActive
    BY <1>2 DEF AskedInv, ApprovedIsActive, Approved
  <1> QED BY <1>3, <1>4 DEF Rest

LEMMA StutterInv ==
    ASSUME Small, Rest, UNCHANGED vars
    PROVE  Small' /\ Rest'
  <1>1. /\ asset' = asset /\ stored' = stored /\ issued' = issued /\ held' = held
        /\ classes' = classes /\ op' = op
        /\ who' = who /\ issuer' = issuer /\ pc' = pc /\ faults' = faults
        /\ burned' = burned /\ left' = left /\ failed' = failed
    BY DEF vars, chain, request, observations
  <1>2. Small'
    BY <1>1 DEF Small, TypeOK, RequestInv, Known
  <1>3. SameRequests
    BY <1>1 DEF SameRequests, Unlinked, request
  <1> QED BY <1>1, <1>2, <1>3, QuietRest

LEMMA NextInv ==
    ASSUME Small, Rest, [Next]_vars
    PROVE  Small' /\ Rest'
  <1>1. ASSUME NEW m \in Merchants, AssetRequestMerchant(m) PROVE Small' /\ Rest'
    BY <1>1, FormSmall, FormRest
  <1>2. ASSUME NEW r \in Requests, Http(r) PROVE Small' /\ Rest'
    BY <1>2, HttpInv
  <1>3. ASSUME NEW r \in Requests, Handle(r) PROVE Small' /\ Rest'
    <2>1. CASE DeleteLink(r)
      BY <2>1, DeleteLinkSmall, DeleteLinkRest
    <2>2. CASE DeleteAsset(r)
      BY <2>2, DeleteAssetSmall, DeleteAssetRest
    <2>3. CASE Activate(r)
      BY <2>3, ActivateSmall, ActivateRest
    <2>4. CASE Create(r)
      BY <2>4, CreateSmall, CreateRest
    <2>5. CASE \/ GetAsset(r) \/ LookupIssuer(r) \/ StoreIssuer(r) \/ Issue(r)
               \/ IssueClass(r) \/ Mint(r) \/ MintNFT(r) \/ Send(r) \/ Burn(r)
      <3>1. Rest'
        BY <2>5, QuietSteps, QuietRest
      <3>2. Small'
        BY <2>5, GetAssetSmall, LookupIssuerSmall, StoreIssuerSmall, IssueSmall, IssueClassSmall,
           MintSmall, MintNFTSmall, SendSmall, BurnSmall
      <3> QED BY <3>1, <3>2
    <2> QED BY <1>3, <2>1, <2>2, <2>3, <2>4, <2>5 DEF Handle
  <1>4. ASSUME NEW r \in Requests, Fail(r) \/ LandLate(r) PROVE Small' /\ Rest'
    BY <1>4, FailSmall, LandLateSmall, QuietSteps, QuietRest
  <1>5. CASE Crash
    BY <1>5, CrashSmall, CrashQuiet, QuietRest
  <1>6. CASE Finished \/ UNCHANGED vars
    BY <1>6, StutterInv DEF Finished
  <1> QED BY <1>1, <1>2, <1>3, <1>4, <1>5, <1>6 DEF Next

LEMMA Invariance == Spec => [](Small /\ Rest)
  <1>1. Init => Small /\ Rest
    BY SmallInit, RestInit
  <1>2. (Small /\ Rest) /\ [Next]_vars => (Small /\ Rest)'
    BY NextInv
  <1> QED BY <1>1, <1>2, PTL DEF Spec

---------------------------------------------------------------------------
(* The theorems                                                            *)

(* Every variable keeps its type, and no issuer holds less than nothing.   *)
THEOREM TypeCorrect == Spec => []TypeOK
  <1>1. Small /\ Rest => TypeOK
    BY DEF Small
  <1> QED BY <1>1, Invariance, PTL

(* Only a rejection leaves a row without links, which no query finds       *)
(* (storage/assets.go:207-226).                                            *)
THEOREM UnlinkedCorrect == Spec => []UnlinkedByReject
  <1>1. Small /\ Rest => UnlinkedByReject
    BY DEF Rest
  <1> QED BY <1>1, Invariance, PTL

(* An asset active under an issuer of ours has a token, and one without    *)
(* issuer was activated by /token_mint (dashboard-admin.go:217-247,        *)
(* handler/transfer.go:304).                                               *)
THEOREM ActiveCorrect == Spec => []ActiveIsIssued
  <1>1. Small /\ Rest => ActiveIsIssued
    BY DEF Rest
  <1> QED BY <1>1, Invariance, PTL

(* An approval of a merchant's own token that was answered leaves an       *)
(* active asset, but for a rejection let in before and for /token_mint     *)
(* (dashboard-admin.go:237-247).                                           *)
THEOREM ApprovedCorrect == Spec => []ApprovedIsActive
  <1>1. Small /\ Rest => ApprovedIsActive
    BY DEF Rest
  <1> QED BY <1>1, Invariance, PTL

---------------------------------------------------------------------------
(* The tokens at the issuers                                               *)

(* A request whose tokens were left at the issuer has ended.               *)
LeftEnded == \A r \in left : pc[r] = "error"

(* Only finitely many requests were made, however many may be.             *)
Started == {r \in Requests : pc[r] # "idle"}

StrandInv ==
    /\ IsFiniteSet(Started)
    /\ LeftEnded
    /\ IssuerHoldsStranded

(* Once a request was made it stays made.                                  *)
SameStarted == \A r \in Requests : pc'[r] = "idle" <=> pc[r] = "idle"

(* One request moves on, and what requests are stays.                      *)
Moves(r) == /\ request' = request
            /\ \A q \in Requests : q # r => pc'[q] = pc[q]
            /\ pc[r] \notin {"idle", "error"} /\ pc'[r] # "idle"

LEMMA AtIssuerFinite ==
    ASSUME TypeOK, StrandInv, NEW m \in Merchants
    PROVE  /\ IsFiniteSet(AtIssuer(m)) /\ AtIssuer(m) \subseteq Requests
           /\ \A r \in Requests : Amounts[r] = Amount(r) /\ Amounts[r] \in Int
  <1>1. AtIssuer(m) \subseteq Started
    BY DEF AtIssuer, Started, StrandInv, LeftEnded
  <1>2. IsFiniteSet(AtIssuer(m))
    BY <1>1, FS_Subset DEF StrandInv
  <1>3. \A r \in Requests : Amounts[r] = Amount(r) /\ Amounts[r] \in Int
    BY AmountType DEF Amounts
  <1> QED BY <1>2, <1>3 DEF AtIssuer

(* Amounts depend on what the requests are.                                *)
LEMMA AmountsKept ==
    ASSUME request' = request
    PROVE  Amounts' = Amounts
  BY DEF request, Amounts, Amount

LEMMA StartedKept ==
    ASSUME StrandInv, SameStarted
    PROVE  IsFiniteSet(Started')
  <1>1. Started' = Started
    BY DEF SameStarted, Started
  <1> QED BY <1>1 DEF StrandInv

LEMMA MovesKeep ==
    ASSUME TypeOK, StrandInv, NEW r \in Requests, Moves(r)
    PROVE  /\ IsFiniteSet(Started') /\ Amounts' = Amounts /\ r \notin left
           /\ \A q \in left : pc'[q] = "error"
  <1>1. SameStarted
    BY DEF Moves, SameStarted
  <1>2. r \notin left
    BY DEF Moves, StrandInv, LeftEnded
  <1> QED BY <1>1, <1>2, StartedKept, AmountsKept DEF Moves, StrandInv, LeftEnded, TypeOK

(* Nothing moves to an issuer or away from it.                             *)
LEMMA StrandKept ==
    ASSUME StrandInv, request' = request, SameStarted, LeftEnded',
           \A m \in Merchants : held'[m] + burned'[m] = held[m] + burned[m],
           \A m \in Merchants : AtIssuer(m)' = AtIssuer(m)
    PROVE  StrandInv'
  <1>1. Amounts' = Amounts
    BY AmountsKept
  <1>2. IssuerHoldsStranded'
    BY <1>1 DEF StrandInv, IssuerHoldsStranded
  <1> QED BY <1>2, StartedKept DEF StrandInv

(* A request that passes by: neither before nor after the step are tokens  *)
(* of it at the issuer.                                                    *)
LEMMA StrandPass ==
    ASSUME TypeOK, StrandInv, NEW r \in Requests, Moves(r), left' = left,
           pc[r] # "send", pc'[r] # "send",
           \A m \in Merchants : held'[m] + burned'[m] = held[m] + burned[m]
    PROVE  StrandInv'
  <1>1. r \notin left /\ LeftEnded'
    BY MovesKeep DEF LeftEnded
  <1>2. \A m \in Merchants : AtIssuer(m)' = AtIssuer(m)
    BY <1>1 DEF AtIssuer, Moves, request
  <1>3. SameStarted
    BY DEF Moves, SameStarted
  <1> QED BY <1>1, <1>2, <1>3, StrandKept DEF Moves

(* A request that ends before its tokens were sent leaves them.            *)
LEMMA StrandLeave ==
    ASSUME TypeOK, StrandInv, NEW r \in Requests, Moves(r), left' = left \cup {r},
           pc[r] = "send", pc'[r] = "error", held' = held, burned' = burned
    PROVE  StrandInv'
  <1>1. r \notin left /\ LeftEnded'
    BY MovesKeep DEF LeftEnded
  <1>2. \A m \in Merchants : AtIssuer(m)' = AtIssuer(m)
    BY <1>1 DEF AtIssuer, Moves, request
  <1>3. SameStarted
    BY DEF Moves, SameStarted
  <1> QED BY <1>1, <1>2, <1>3, StrandKept DEF Moves

(* New tokens are of the request that asked for them, which goes on to     *)
(* send them, or ended without knowing that they were made.                *)
LEMMA StrandMade ==
    ASSUME TypeOK, StrandInv, NEW r \in Requests, Moves(r), who[r] \in Merchants,
           pc[r] # "send",
           \/ pc'[r] = "send" /\ left' = left
           \/ pc'[r] = "error" /\ left' = left \cup {r},
           held' = [held EXCEPT ![who[r]] = @ + Amount(r)], burned' = burned
    PROVE  StrandInv'
  <1>1. r \notin left /\ LeftEnded' /\ IsFiniteSet(Started') /\ Amounts' = Amounts
    BY MovesKeep DEF LeftEnded
  <1>2. \A m \in Merchants : m # who[r] => AtIssuer(m)' = AtIssuer(m)
    BY <1>1 DEF AtIssuer, Moves, request
  <1>3. \A m \in Merchants : m = who[r] =>
            AtIssuer(m)' = AtIssuer(m) \cup {r} /\ r \notin AtIssuer(m)
    BY <1>1 DEF AtIssuer, Moves, request
  <1>4. ASSUME NEW m \in Merchants
        PROVE  held'[m] + burned'[m] = SumFunctionOnSet(Amounts', AtIssuer(m)')
    <2>1. held[m] + burned[m] = SumFunctionOnSet(Amounts, AtIssuer(m))
      BY DEF StrandInv, IssuerHoldsStranded
    <2>2. CASE m = who[r]
      <3>1. SumFunctionOnSet(Amounts, AtIssuer(m) \cup {r})
                = Amounts[r] + SumFunctionOnSet(Amounts, AtIssuer(m))
        <4>1. \A x \in AtIssuer(m) \cup {r} : Amounts[x] \in Int
          BY AtIssuerFinite
        <4> QED BY <4>1, <2>2, <1>3, AtIssuerFinite, SumAdd
      <3>2. held'[m] = held[m] + Amounts[r] /\ burned'[m] = burned[m]
        BY <2>2, AtIssuerFinite DEF TypeOK
      <3>3. held[m] \in Int /\ burned[m] \in Int /\ Amounts[r] \in Int
        BY AtIssuerFinite DEF TypeOK
      <3>4. held'[m] + burned'[m] = Amounts[r] + SumFunctionOnSet(Amounts, AtIssuer(m))
        BY <2>1, <3>2, <3>3
      <3> QED BY <1>1, <1>3, <2>2, <3>1, <3>4
    <2>3. CASE m # who[r]
      BY <1>1, <1>2, <2>1, <2>3 DEF TypeOK
    <2> QED BY <2>2, <2>3
  <1>5. IssuerHoldsStranded'
    BY <1>4 DEF IssuerHoldsStranded
  <1> QED BY <1>1, <1>5 DEF StrandInv

(* What is sent is no longer at the issuer.                                *)
LEMMA StrandSent ==
    ASSUME TypeOK, StrandInv, NEW r \in Requests, Moves(r), who[r] \in Merchants,
           pc[r] = "send", pc'[r] # "send", left' = left,
           held' = [held EXCEPT ![who[r]] = @ - Amount(r)], burned' = burned
    PROVE  StrandInv'
  <1>1. r \notin left /\ LeftEnded' /\ IsFiniteSet(Started') /\ Amounts' = Amounts
    BY MovesKeep DEF LeftEnded
  <1>2. \A m \in Merchants : m # who[r] => AtIssuer(m)' = AtIssuer(m)
    BY <1>1 DEF AtIssuer, Moves, request
  <1>3. \A m \in Merchants : m = who[r] =>
            AtIssuer(m)' = AtIssuer(m) \ {r} /\ r \in AtIssuer(m)
    BY <1>1 DEF AtIssuer, Moves, request
  <1>4. ASSUME NEW m \in Merchants
        PROVE  held'[m] + burned'[m] = SumFunctionOnSet(Amounts', AtIssuer(m)')
    <2>1. held[m] + burned[m] = SumFunctionOnSet(Amounts, AtIssuer(m))
      BY DEF StrandInv, IssuerHoldsStranded
    <2>2. CASE m = who[r]
      <3>1. SumFunctionOnSet(Amounts, AtIssuer(m))
                = Amounts[r] + SumFunctionOnSet(Amounts, AtIssuer(m) \ {r})
        <4>1. \A x \in AtIssuer(m) : Amounts[x] \in Int
          BY AtIssuerFinite
        <4> QED BY <4>1, <2>2, <1>3, AtIssuerFinite, SumRemove
      <3>2. held'[m] = held[m] - Amounts[r] /\ burned'[m] = burned[m]
        BY <2>2, AtIssuerFinite DEF TypeOK
      <3>3. held[m] \in Int /\ burned[m] \in Int /\ Amounts[r] \in Int
        BY AtIssuerFinite DEF TypeOK
      <3>4. SumFunctionOnSet(Amounts, AtIssuer(m) \ {r}) \in Int
        <4>1. \A x \in AtIssuer(m) \ {r} : Amounts[x] \in Int
          BY AtIssuerFinite
        <4>2. IsFiniteSet(AtIssuer(m) \ {r})
          BY AtIssuerFinite, FS_Subset
        <4> QED BY <4>1, <4>2, SumInt
      <3>5. held'[m] + burned'[m] = SumFunctionOnSet(Amounts, AtIssuer(m) \ {r})
        BY <2>1, <3>1, <3>2, <3>3, <3>4
      <3> QED BY <1>1, <1>3, <2>2, <3>5
    <2>3. CASE m # who[r]
      BY <1>1, <1>2, <2>1, <2>3 DEF TypeOK
    <2> QED BY <2>2, <2>3
  <1>5. IssuerHoldsStranded'
    BY <1>4 DEF IssuerHoldsStranded
  <1> QED BY <1>1, <1>5 DEF StrandInv

---------------------------------------------------------------------------
(* A new request has nothing at an issuer yet.                             *)
LEMMA ArriveStrand ==
    ASSUME TypeOK, StrandInv, NEW r \in Requests, NEW o, NEW p, NEW m \in Merchants, NEW i,
           p \notin {"idle", "send"}, Arrive(r, o, p, m, i)
    PROVE  StrandInv'
  <1>1. /\ pc[r] = "idle" /\ pc'[r] = p /\ \A q \in Requests : q # r => pc'[q] = pc[q]
        /\ \A q \in Requests : q # r => op'[q] = op[q] /\ who'[q] = who[q]
        /\ held' = held /\ burned' = burned /\ left' = left
    BY DEF Arrive, TypeOK, chain, observations
  <1>2. r \notin left
    BY <1>1 DEF StrandInv, LeftEnded
  <1>3. LeftEnded'
    BY <1>1, <1>2 DEF StrandInv, LeftEnded, TypeOK
  <1>4. IsFiniteSet(Started')
    <2>1. Started' = Started \cup {r}
      BY <1>1 DEF Started
    <2> QED BY <2>1, FS_AddElement DEF StrandInv
  <1>5. ASSUME NEW n \in Merchants
        PROVE  held'[n] + burned'[n] = SumFunctionOnSet(Amounts', AtIssuer(n)')
    <2>1. AtIssuer(n)' = AtIssuer(n) /\ r \notin AtIssuer(n)
      BY <1>1, <1>2 DEF AtIssuer
    <2>2. \A q \in AtIssuer(n) : Amounts'[q] = Amounts[q]
      BY <1>1, <2>1 DEF Amounts, Amount, AtIssuer
    <2>3. SumFunctionOnSet(Amounts, AtIssuer(n)) = SumFunctionOnSet(Amounts', AtIssuer(n))
      BY <2>2, AtIssuerFinite, SumSame
    <2> QED BY <1>1, <2>1, <2>3 DEF StrandInv, IssuerHoldsStranded
  <1>6. IssuerHoldsStranded'
    BY <1>5 DEF IssuerHoldsStranded
  <1> QED BY <1>3, <1>4, <1>6 DEF StrandInv

LEMMA HttpStrand ==
    ASSUME Small, StrandInv, NEW r \in Requests, Http(r)
    PROVE  StrandInv'
  <1>1. TypeOK /\ stored \subseteq Merchants /\ WithWallets \subseteq Merchants
    BY AssetsAssumption DEF Small, TypeOK
  <1>2. \A i \in Foreign : Holder[i] \in Merchants
    BY AssetsAssumption
  <1>3. \E o \in Operations, p \in Phases \ {"idle", "send"}, m \in Merchants,
           i \in Issuers \cup {Null} \cup {asset[a].issuer : a \in Row} : Arrive(r, o, p, m, i)
    <2>1. CASE PageAssetRequestsAdminUpdate(r)
      BY <2>1 DEF PageAssetRequestsAdminUpdate, Operations, Phases
    <2>2. CASE NewToken(r)
      BY <2>2, <1>2, Markers DEF NewToken, Operations, Phases
    <2>3. CASE NewTokenSaver(r)
      BY <2>3, <1>1 DEF NewTokenSaver, Operations, Phases
    <2>4. CASE MintTokenMerchant(r)
      BY <2>4, <1>1, Markers DEF MintTokenMerchant, Operations, Phases
    <2>5. CASE MintToken(r)
      BY <2>5, <1>1, <1>2, Markers DEF MintToken, Operations, Phases
    <2>6. CASE BurnTokenMerchant(r)
      BY <2>6, <1>1, Markers DEF BurnTokenMerchant, Operations, Phases
    <2> QED BY <2>1, <2>2, <2>3, <2>4, <2>5, <2>6 DEF Http
  <1> QED BY <1>1, <1>3, ArriveStrand

(* Minting and issuing make tokens, or are refused.                        *)
LEMMA MakeStrand ==
    ASSUME Small, StrandInv, NEW r \in Requests, Issue(r) \/ Mint(r)
    PROVE  StrandInv'
  <1>1. /\ TypeOK /\ who[r] \in Merchants /\ pc[r] \in {"issue", "mint"}
        /\ left' = left /\ burned' = burned /\ request' = request
        /\ \E p \in {"send", "error"} : Go(r, p)
    BY DEF Small, RequestInv, Issue, Mint, observations
  <1>2. Moves(r) /\ pc'[r] \in {"send", "error"}
    BY <1>1 DEF Moves, Go, TypeOK
  <1>3. CASE IssueTransfer(r) /\ Go(r, "send")
    <2>1. pc'[r] = "send"
      BY <1>1, <1>3 DEF Go, TypeOK
    <2>2. held' = [held EXCEPT ![who[r]] = @ + Amount(r)]
      BY <1>3 DEF IssueTransfer
    <2> QED BY <1>1, <1>2, <2>1, <2>2, StrandMade
  <1>4. CASE held' = held /\ Go(r, "error")
    <2>1. pc'[r] = "error"
      BY <1>1, <1>4 DEF Go, TypeOK
    <2> QED BY <1>1, <1>2, <1>4, <2>1, StrandPass
  <1> QED BY <1>3, <1>4 DEF Issue, Mint

LEMMA SendStrand ==
    ASSUME Small, StrandInv, NEW r \in Requests, Send(r)
    PROVE  StrandInv'
  <1>1. /\ TypeOK /\ who[r] \in Merchants /\ pc[r] = "send"
        /\ burned' = burned /\ request' = request
        /\ \E p \in {"create", "ok", "activate", "error"} : Go(r, p)
    BY DEF Small, RequestInv, Send
  <1>2. Moves(r) /\ pc'[r] # "send"
    BY <1>1 DEF Moves, Go, TypeOK
  <1>3. CASE Sendable(r)
    <2>1. left' = left /\ held' = [held EXCEPT ![who[r]] = @ - Amount(r)]
      BY <1>3 DEF Send, Sent
    <2> QED BY <1>1, <1>2, <2>1, StrandSent
  <1>4. CASE ~Sendable(r)
    <2>1. left' = left \cup {r} /\ held' = held /\ pc'[r] = "error"
      BY <1>1, <1>4 DEF Send, Go, TypeOK
    <2> QED BY <1>1, <1>2, <2>1, StrandLeave
  <1> QED BY <1>3, <1>4

(* What is burned is no longer held; the sum stays.                        *)
LEMMA BurnedSum ==
    ASSUME TypeOK, NEW r \in Requests, who[r] \in Merchants, Burned(r)
    PROVE  \A m \in Merchants : held'[m] + burned'[m] = held[m] + burned[m]
  <1>1. TAKE m \in Merchants
  <1>2. held[m] \in Int /\ burned[m] \in Int /\ Amount(r) \in Int
    BY AmountType DEF TypeOK
  <1>3. CASE m = who[r]
    <2>1. held'[m] = held[m] - Amount(r) /\ burned'[m] = burned[m] + Amount(r)
      BY <1>3 DEF Burned, TypeOK
    <2> QED BY <1>2, <2>1
  <1>4. CASE m # who[r]
    BY <1>4 DEF Burned, TypeOK
  <1> QED BY <1>3, <1>4

LEMMA BurnStrand ==
    ASSUME Small, StrandInv, NEW r \in Requests, Burn(r)
    PROVE  StrandInv'
  <1>1. /\ TypeOK /\ who[r] \in Merchants /\ pc[r] = "burn" /\ left' = left
        /\ request' = request /\ \E p \in {"ok", "error"} : Go(r, p)
    BY DEF Small, RequestInv, Burn
  <1>2. Moves(r) /\ pc'[r] # "send"
    BY <1>1 DEF Moves, Go, TypeOK
  <1>3. \A m \in Merchants : held'[m] + burned'[m] = held[m] + burned[m]
    BY <1>1, BurnedSum DEF Burn
  <1> QED BY <1>1, <1>2, <1>3, StrandPass

(* The steps that move no token of the merchants.                          *)
LEMMA OtherStrand ==
    ASSUME Small, StrandInv, NEW r \in Requests,
           \/ GetAsset(r) \/ DeleteLink(r) \/ DeleteAsset(r) \/ LookupIssuer(r) \/ StoreIssuer(r)
           \/ IssueClass(r) \/ MintNFT(r) \/ Activate(r) \/ Create(r)
    PROVE  StrandInv'
  <1>1. /\ TypeOK /\ held' = held /\ burned' = burned /\ left' = left /\ request' = request
    BY DEF Small, GetAsset, DeleteLink, DeleteAsset, LookupIssuer, StoreIssuer, IssueClass,
       MintNFT, Activate, Create, chain, observations
  <1>2. /\ pc[r] \notin {"idle", "error", "send"}
        /\ \E p \in Phases \ {"idle", "send"} : Go(r, p)
    BY DEF GetAsset, DeleteLink, DeleteAsset, LookupIssuer, StoreIssuer, IssueClass,
       MintNFT, Activate, Create, Phases
  <1>3. Moves(r) /\ pc'[r] # "send"
    BY <1>1, <1>2 DEF Moves, Go, TypeOK
  <1> QED BY <1>1, <1>2, <1>3, StrandPass

LEMMA HandleStrand ==
    ASSUME Small, StrandInv, NEW r \in Requests, Handle(r)
    PROVE  StrandInv'
  BY MakeStrand, SendStrand, BurnStrand, OtherStrand DEF Handle

LEMMA FailStrand ==
    ASSUME Small, StrandInv, NEW r \in Requests, Fail(r)
    PROVE  StrandInv'
  <1>1. /\ TypeOK /\ held' = held /\ burned' = burned /\ request' = request
        /\ pc[r] \notin {"idle", "error"} /\ Stop({r})
    BY DEF Small, Fail, Unfinished, chain
  <1>2. Moves(r) /\ pc'[r] = "error"
    BY <1>1 DEF Moves, Stop
  <1>3. CASE pc[r] = "send"
    <2>1. left' = left \cup {r}
      BY <1>3 DEF Fail
    <2> QED BY <1>1, <1>2, <1>3, <2>1, StrandLeave
  <1>4. CASE pc[r] # "send"
    <2>1. left' = left
      BY <1>4 DEF Fail
    <2> QED BY <1>1, <1>2, <1>4, <2>1, StrandPass
  <1> QED BY <1>3, <1>4

LEMMA LandLateStrand ==
    ASSUME Small, StrandInv, NEW r \in Requests, LandLate(r)
    PROVE  StrandInv'
  <1>1. /\ TypeOK /\ who[r] \in Merchants /\ request' = request /\ Stop({r})
        /\ pc[r] \in {"issue", "mint", "class", "send", "burn"}
    BY DEF Small, RequestInv, LandLate
  <1>2. Moves(r) /\ pc'[r] = "error"
    BY <1>1 DEF Moves, Stop
  <1>3. CASE /\ pc[r] \in {"issue", "mint"} /\ IssueTransfer(r) /\ left' = left \cup {r}
             /\ burned' = burned
    BY <1>1, <1>2, <1>3, StrandMade DEF IssueTransfer
  <1>4. CASE pc[r] = "class" /\ held' = held /\ burned' = burned /\ left' = left
    BY <1>1, <1>2, <1>4, StrandPass
  <1>5. CASE pc[r] = "send" /\ Sent(r) /\ burned' = burned /\ left' = left
    BY <1>1, <1>2, <1>5, StrandSent DEF Sent
  <1>6. CASE pc[r] = "burn" /\ Burned(r) /\ left' = left
    BY <1>1, <1>2, <1>6, BurnedSum, StrandPass
  <1> QED BY <1>3, <1>4, <1>5, <1>6 DEF LandLate

(* A restart leaves what was on its way where it is.                       *)
LEMMA CrashStrand ==
    ASSUME Small, StrandInv, Crash
    PROVE  StrandInv'
  <1>1. /\ TypeOK /\ held' = held /\ burned' = burned /\ request' = request
        /\ left' = left \cup {r \in Requests : pc[r] = "send"}
        /\ \A r \in Requests : pc'[r] = IF Unfinished(r) THEN "error" ELSE pc[r]
    BY DEF Small, Crash, Stop, chain
  <1>2. SameStarted
    BY <1>1 DEF SameStarted, Unfinished
  <1>3. LeftEnded'
    BY <1>1 DEF StrandInv, LeftEnded, Unfinished, TypeOK
  <1>4. \A m \in Merchants : AtIssuer(m)' = AtIssuer(m)
    BY <1>1 DEF AtIssuer, Unfinished, request
  <1> QED BY <1>1, <1>2, <1>3, <1>4, StrandKept

LEMMA IdleStrand ==
    ASSUME StrandInv, request' = request, pc' = pc, held' = held, burned' = burned,
           left' = left
    PROVE  StrandInv'
  <1>1. SameStarted /\ LeftEnded'
    BY DEF SameStarted, StrandInv, LeftEnded
  <1>2. \A m \in Merchants : AtIssuer(m)' = AtIssuer(m)
    BY DEF AtIssuer, request
  <1> QED BY <1>1, <1>2, StrandKept

LEMMA StrandNext ==
    ASSUME Small, StrandInv, [Next]_vars
    PROVE  StrandInv'
  <1>1. ASSUME NEW m \in Merchants, AssetRequestMerchant(m) PROVE StrandInv'
    BY <1>1, IdleStrand DEF AssetRequestMerchant, chain, observations
  <1>2. ASSUME NEW r \in Requests, Http(r) \/ Handle(r) \/ Fail(r) \/ LandLate(r)
        PROVE  StrandInv'
    BY <1>2, HttpStrand, HandleStrand, FailStrand, LandLateStrand
  <1>3. CASE Crash
    BY <1>3, CrashStrand
  <1>4. CASE Finished \/ UNCHANGED vars
    BY <1>4, IdleStrand DEF Finished, vars, chain, observations, request
  <1> QED BY <1>1, <1>2, <1>3, <1>4 DEF Next

LEMMA StrandInit ==
    ASSUME Init
    PROVE  StrandInv
  <1>1. Started = {} /\ LeftEnded
    BY DEF Init, Started, LeftEnded
  <1>2. ASSUME NEW m \in Merchants
        PROVE  held[m] + burned[m] = SumFunctionOnSet(Amounts, AtIssuer(m))
    <2>1. AtIssuer(m) = {} /\ held[m] = 0 /\ burned[m] = 0
      BY DEF Init, AtIssuer
    <2> QED BY <2>1, SumEmpty
  <1> QED BY <1>1, <1>2, FS_EmptySet DEF StrandInv, IssuerHoldsStranded

(* What an issuer of ours holds or has burned is what is on its way to the *)
(* merchant, or was left there by a request that ended between its two     *)
(* transactions; BurnFT never burns what a merchant got (burn.go:47-49,    *)
(* issue.go:123, mint.go:52).                                              *)
THEOREM StrandedCorrect == Spec => []IssuerHoldsStranded
  <1>1. Init => StrandInv
    BY StrandInit
  <1>2. Small /\ StrandInv /\ [Next]_vars => StrandInv'
    BY StrandNext
  <1>3. StrandInv => IssuerHoldsStranded
    BY DEF StrandInv
  <1> QED BY <1>1, <1>2, <1>3, Invariance, PTL DEF Spec

=============================================================================
