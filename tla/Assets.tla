--------------------------------- MODULE Assets ---------------------------------
(***************************************************************************)
(* Assets: the tables of assets and of the merchants they are linked to,   *)
(* under concurrent requests of merchants and of an administrator, and the *)
(* fungible tokens on the blockchain that they stand for.                  *)
(*                                                                         *)
(* Every database statement and every blockchain transaction is a step of  *)
(* its own.  One blockchain and one (lower-case) code are modelled, because *)
(* no statement relates two codes.  The account that issues a merchant's   *)
(* token has the merchant's name: its wallet is stored under               *)
(* "<merchant>-<code>", and only a stored one is ever used.  An NFT class  *)
(* is issued by the wallet of a user; which NFTs it has is left out.       *)
(***************************************************************************)
EXTENDS Naturals, FiniteSets, FiniteSetsExt

CONSTANTS
    Requests,           \* requests ever made that take more than one step
    Merchants,
    WithWallets,        \* merchants whose wallets "-R" and "-S" were created
    Foreign,            \* addresses of accounts that are no issuer of ours
    Holder,             \* the merchant whose user has the account
    Null, Empty,        \* issuer columns: NULL and the empty string
    None,               \* no owner
    Initial,            \* tokens issued when an asset is issued
    MaxRows, MaxLinks,  \* bounds: rows at a time; links of one when asked for
    MaxFaults           \* bound: failures and restarts

Issuers == Merchants \cup Foreign

ASSUME AssetsAssumption ==
    /\ WithWallets \subseteq Merchants /\ Merchants \cap Foreign = {}
    /\ Null # Empty /\ {Null, Empty} \cap Issuers = {} /\ None \notin Merchants
    /\ Holder \in [Foreign -> Merchants]
    /\ Initial \in Nat \ {0} /\ {MaxRows, MaxLinks, MaxFaults} \subseteq Nat

VARIABLES
    asset,              \* table assets, with the links of merchant_assets
    stored,             \* merchants whose issuer wallet is in coreum_wallets
    issued, held,       \* tokens on the chain, and what their issuer holds
    classes,            \* accounts that issued an NFT class
    op, pc,             \* what a request is, and what it does next
    who, issuer,        \* the merchant and the issuer it names
    faults,             \* failures so far
    (* observations *)
    burned,             \* tokens destroyed
    left,               \* requests that ended with their tokens at the issuer
    failed              \* requests ended by a failure

chain == <<issued, held, classes>>
request == <<op, who, issuer>>
observations == <<burned, left, failed>>
vars == <<asset, stored, chain, request, pc, faults, observations>>

Operations == {"none", "approve", "reject", "newToken", "newClass", "tokenSaver",
               "mint", "mintToken", "burn"}
Phases == {"idle", "get", "unlink", "delete", "lookup", "store", "issue", "class", "mint",
           "nft", "send", "activate", "create", "burn", "ok", "error"}

Row == 1..MaxRows
Asset == [status: {"absent", "pending", "active"}, issuer: Issuers \cup {Null, Empty},
          owner: Merchants \cup {None}, links: [Merchants -> Nat]]
NoAsset == [status |-> "absent", issuer |-> Null, owner |-> None,
            links |-> [m \in Merchants |-> 0]]

Present(a) == asset[a].status # "absent"
Links(a) == FoldSet(LAMBDA m, n : n + asset[a].links[m], 0, Merchants)
Linked(a) == \E m \in Merchants : asset[a].links[m] > 0
Owned(m) == {a \in Row : Present(a) /\ asset[a].owner = m}
WithIssuer(i) == {a \in Row : Present(a) /\ asset[a].issuer = i}

(* The tokens a request issues, mints or burns; NewTokenSaver sets no      *)
(* initial amount.                                                         *)
Amount(r) == IF op[r] = "tokenSaver" THEN 0
             ELSE IF op[r] \in {"approve", "newToken"} THEN Initial ELSE 1

Unfinished(r) == pc[r] \notin {"idle", "ok", "error"}

Init ==
    /\ asset = [a \in Row |-> NoAsset]
    /\ stored = {} /\ issued = {} /\ classes = {}
    /\ held = [m \in Merchants |-> 0] /\ burned = [m \in Merchants |-> 0]
    /\ op = [r \in Requests |-> "none"] /\ pc = [r \in Requests |-> "idle"]
    /\ who = [r \in Requests |-> None] /\ issuer = [r \in Requests |-> Null]
    /\ faults = 0 /\ left = {} /\ failed = {}

---------------------------------------------------------------------------
(* Statements                                                              *)

Unused == {a \in Row : ~Present(a) /\ \A b \in Row : b < a => Present(b)}

(* Slip: the row is made and no link. *)
CreateAssetUnlinked(m, i) ==
    \E a \in Unused : asset' = [asset EXCEPT ![a] =
        [NoAsset EXCEPT !.status = "pending", !.issuer = i, !.owner = m]]

(* CreateAsset: a request without issuer makes a row of the merchant; one  *)
(* with issuer makes a row without owner, or finds it.  Both add a link.   *)
CreateAsset(m, i) ==
    IF WithIssuer(i) # {} /\ i # Null
    THEN asset' = [a \in Row |-> IF a \in WithIssuer(i)
                                 THEN [asset[a] EXCEPT !.links[m] = @ + 1] ELSE asset[a]]
    ELSE \E a \in Unused : asset' = [asset EXCEPT ![a] =
            [status |-> "pending", issuer |-> i, owner |-> IF i = Null THEN m ELSE None,
             links |-> [n \in Merchants |-> IF n = m THEN 1 ELSE 0]]]

(* Slip: the row is found by its issuer. *)
ActivateAssetByIssuer(m, i) ==
    asset' = [a \in Row |-> IF a \in WithIssuer(i)
                            THEN [asset[a] EXCEPT !.status = "active"] ELSE asset[a]]

(* ActivateAsset sets the issuer of every row of the merchant; the index   *)
(* on (blockchain, code, issuer) refuses a second row with that issuer.    *)
Activatable(m, i) == Cardinality(Owned(m) \cup WithIssuer(i)) <= 1 \/ Owned(m) = {}
ActivateAsset(m, i) ==
    asset' = [a \in Row |-> IF a \in Owned(m)
                            THEN [asset[a] EXCEPT !.status = "active", !.issuer = i]
                            ELSE asset[a]]

---------------------------------------------------------------------------
(* Requests arrive                                                         *)

(* The form of a merchant for a new or an existing token.                  *)
AssetRequestMerchant(m) == \E i \in Foreign \cup issued \cup {Null} :
    /\ \A a \in WithIssuer(i) : i = Null \/ Links(a) < MaxLinks
    /\ CreateAsset(m, i)
    /\ UNCHANGED <<stored, chain, request, pc, faults, observations>>

Arrive(r, o, p, m, i) ==
    /\ pc[r] = "idle"
    /\ op' = [op EXCEPT ![r] = o] /\ pc' = [pc EXCEPT ![r] = p]
    /\ who' = [who EXCEPT ![r] = m] /\ issuer' = [issuer EXCEPT ![r] = i]
    /\ UNCHANGED <<asset, stored, chain, faults, observations>>

(* The administrator sees the pending requests with their merchants.       *)
PageAssetRequestsAdminUpdate(r) == \E a \in Row, m \in Merchants :
    /\ asset[a].status = "pending" /\ asset[a].links[m] > 0
    /\ \E o \in {"approve", "reject"} : Arrive(r, o, "get", m, asset[a].issuer)
(* The merchant issues a token or an NFT class itself; the wallet of the   *)
(* user is stored as the issuer of both.                                   *)
NewToken(r) == \E i \in Foreign :
    \/ Arrive(r, "newToken", "lookup", Holder[i], i)
    \/ Arrive(r, "newClass", "class", Holder[i], i)
NewTokenSaver(r) == \E m \in WithWallets : Arrive(r, "tokenSaver", "lookup", m, Null)
(* Minting and burning name the issuer; another one than the stored wallet *)
(* is an error.                                                            *)
MintTokenMerchant(r) == \E m \in stored : Arrive(r, "mint", "mint", m, m)
(* The type of the token is the caller's: one that is neither FT nor NFT   *)
(* mints nothing and activates all the same.                               *)
MintToken(r) == \/ \E m \in stored : Arrive(r, "mintToken", "mint", m, m)
                \/ \E i \in Foreign : Arrive(r, "mintToken", "nft", Holder[i], i)
                \/ \E m \in Merchants : Arrive(r, "mintToken", "activate", m, Null)
BurnTokenMerchant(r) == \E m \in stored : Arrive(r, "burn", "burn", m, m)

---------------------------------------------------------------------------
(* The administrator                                                       *)
Go(r, p) == pc' = [pc EXCEPT ![r] = p]

(* GetBlockChainAssetByCodeAndIssuer wants one row in the join with links. *)
Found(i) == FoldSet(LAMBDA a, n : n + Links(a), 0, WithIssuer(i))

(* Slip: a request without issuer is activated before its token is issued. *)
GetAssetUnissued(r) ==
    /\ pc[r] = "get"
    /\ Go(r, IF Found(issuer[r]) # 1 THEN "error"
             ELSE IF op[r] = "reject" THEN "unlink" ELSE "activate")
    /\ UNCHANGED <<asset, stored, chain, request, faults, observations>>

GetAsset(r) ==
    /\ pc[r] = "get"
    /\ Go(r, IF Found(issuer[r]) # 1 THEN "error"
             ELSE IF op[r] = "reject" THEN "unlink"
             ELSE IF issuer[r] # Null THEN "activate" ELSE "lookup")
    /\ UNCHANGED <<asset, stored, chain, request, faults, observations>>

(* The issuer column is compared with the string of the asset found, which *)
(* is empty when the column is NULL.                                       *)
RejectedIssuer(r) == IF issuer[r] = Null THEN Empty ELSE issuer[r]

(* DeleteAssetRequest: first the link of the merchant, then the row, which *)
(* the foreign key protects as long as it has links.                       *)
DeleteLink(r) ==
    /\ pc[r] = "unlink"
    /\ asset' = [a \in Row |-> IF a \in WithIssuer(RejectedIssuer(r))
                               THEN [asset[a] EXCEPT !.links[who[r]] = 0] ELSE asset[a]]
    /\ Go(r, "delete")
    /\ UNCHANGED <<stored, chain, request, faults, observations>>

DeleteAsset(r) ==
    /\ pc[r] = "delete"
    /\ LET rows == WithIssuer(RejectedIssuer(r)) IN
       \/ /\ \A a \in rows : ~Linked(a)
          /\ asset' = [a \in Row |-> IF a \in rows THEN NoAsset ELSE asset[a]]
          /\ Go(r, "ok")
       \/ /\ \E a \in rows : Linked(a)
          /\ Go(r, "error")
          /\ UNCHANGED asset
    /\ UNCHANGED <<stored, chain, request, faults, observations>>

---------------------------------------------------------------------------
(* IssueFT, MintFT and BurnFT                                              *)

(* Slip: the wallet is used before it is stored. *)
LookupIssuerUnstored(r) ==
    /\ pc[r] = "lookup"
    /\ Go(r, "issue")
    /\ UNCHANGED <<asset, stored, chain, request, faults, observations>>

(* The issuer's wallet is created on first use; a second one is refused    *)
(* by the index of coreum_wallets.                                         *)
LookupIssuer(r) ==
    /\ pc[r] = "lookup"
    /\ Go(r, IF who[r] \in stored THEN "issue" ELSE "store")
    /\ UNCHANGED <<asset, stored, chain, request, faults, observations>>

StoreIssuer(r) ==
    /\ pc[r] = "store"
    /\ stored' = stored \cup {who[r]}
    /\ Go(r, IF who[r] \in stored THEN "error" ELSE "issue")
    /\ UNCHANGED <<asset, chain, request, faults, observations>>

IssueTransfer(r) ==
    /\ issued' = issued \cup {who[r]}
    /\ held' = [held EXCEPT ![who[r]] = @ + Amount(r)]

(* The chain refuses to issue a token twice.                               *)
Issue(r) ==
    /\ pc[r] = "issue"
    /\ \/ /\ who[r] \notin issued
          /\ IssueTransfer(r)
          /\ Go(r, "send")
       \/ /\ who[r] \in issued
          /\ Go(r, "error")
          /\ UNCHANGED <<issued, held>>
    /\ UNCHANGED <<asset, stored, classes, request, faults, observations>>

(* A class of one symbol is issued once by an account.                     *)
IssueClassTransfer(r) == classes' = classes \cup {issuer[r]}

IssueClass(r) ==
    /\ pc[r] = "class"
    /\ IssueClassTransfer(r)
    /\ Go(r, IF issuer[r] \in classes THEN "error" ELSE "create")
    /\ UNCHANGED <<asset, stored, issued, held, request, faults, observations>>

(* An NFT needs its class.                                                 *)
MintNFT(r) ==
    /\ pc[r] = "nft"
    /\ Go(r, IF issuer[r] \in classes THEN "activate" ELSE "error")
    /\ UNCHANGED <<asset, stored, chain, request, faults, observations>>

(* Slip: the error of the chain is dropped. *)
MintErrorDropped(r) ==
    /\ pc[r] = "mint"
    /\ Go(r, "send")
    /\ \/ who[r] \in issued /\ IssueTransfer(r)
       \/ who[r] \notin issued /\ UNCHANGED <<issued, held>>
    /\ UNCHANGED <<asset, stored, classes, request, faults, observations>>

Mint(r) ==
    /\ pc[r] = "mint"
    /\ \/ /\ who[r] \in issued
          /\ IssueTransfer(r)
          /\ Go(r, "send")
       \/ /\ who[r] \notin issued
          /\ Go(r, "error")
          /\ UNCHANGED <<issued, held>>
    /\ UNCHANGED <<asset, stored, classes, request, faults, observations>>

(* What was issued goes to the merchant's "-R", what was minted to "-S" or *)
(* another wallet.  The wallet is looked up only now, and the chain        *)
(* refuses a transfer of nothing.                                          *)
Sendable(r) == who[r] \in WithWallets /\ Amount(r) \in 1..held[who[r]]
Sent(r) == held' = [held EXCEPT ![who[r]] = @ - Amount(r)]

Send(r) ==
    /\ pc[r] = "send"
    /\ \/ /\ Sendable(r)
          /\ Sent(r)
          /\ Go(r, IF op[r] = "newToken" THEN "create"
                   ELSE IF op[r] = "mint" THEN "ok" ELSE "activate")
          /\ UNCHANGED left
       \/ /\ ~Sendable(r)
          /\ Go(r, "error")
          /\ left' = left \cup {r}
          /\ UNCHANGED held
    /\ UNCHANGED <<asset, stored, issued, classes, request, faults, burned, failed>>

Burned(r) ==
    /\ held' = [held EXCEPT ![who[r]] = @ - Amount(r)]
    /\ burned' = [burned EXCEPT ![who[r]] = @ + Amount(r)]

(* The issuer burns its own tokens, whoever asks for it.                   *)
Burn(r) ==
    /\ pc[r] = "burn"
    /\ \/ /\ Amount(r) <= held[who[r]]
          /\ Burned(r)
          /\ Go(r, "ok")
       \/ /\ Amount(r) > held[who[r]]
          /\ Go(r, "error")
          /\ UNCHANGED <<held, burned>>
    /\ UNCHANGED <<asset, stored, issued, classes, request, faults, left, failed>>

---------------------------------------------------------------------------
(* An approval names the issuer, MintToken passes an empty one.            *)
ActivatedIssuer(r) == IF op[r] = "mintToken" THEN Empty
                      ELSE IF issuer[r] = Null THEN who[r] ELSE issuer[r]

Activate(r) ==
    /\ pc[r] = "activate"
    /\ LET m == who[r]  i == ActivatedIssuer(r) IN
       \/ /\ Activatable(m, i)
          /\ ActivateAsset(m, i)
          /\ Go(r, "ok")
       \/ /\ ~Activatable(m, i)
          /\ Go(r, "error")
          /\ UNCHANGED asset
    /\ UNCHANGED <<stored, chain, request, faults, observations>>

Create(r) ==
    /\ pc[r] = "create"
    /\ CreateAsset(who[r], issuer[r])
    /\ Go(r, "ok")
    /\ UNCHANGED <<stored, chain, request, faults, observations>>

---------------------------------------------------------------------------
(* Failures                                                                *)
Stop(rs) ==
    /\ faults < MaxFaults /\ faults' = faults + 1
    /\ pc' = [r \in Requests |-> IF r \in rs THEN "error" ELSE pc[r]]
    /\ failed' = failed \cup rs

(* A statement or a transaction fails and did nothing.                     *)
Fail(r) ==
    /\ Unfinished(r)
    /\ Stop({r})
    /\ left' = IF pc[r] = "send" THEN left \cup {r} ELSE left
    /\ UNCHANGED <<asset, stored, chain, request, burned>>

(* A transaction lands although its broadcast reports an error.            *)
LandLate(r) ==
    /\ \/ /\ \/ pc[r] = "issue" /\ who[r] \notin issued
             \/ pc[r] = "mint" /\ who[r] \in issued
          /\ IssueTransfer(r)
          /\ left' = left \cup {r}
          /\ UNCHANGED <<burned, classes>>
       \/ /\ pc[r] = "class" /\ issuer[r] \notin classes
          /\ IssueClassTransfer(r)
          /\ UNCHANGED <<issued, held, burned, left>>
       \/ /\ pc[r] = "send" /\ Sendable(r)
          /\ Sent(r)
          /\ UNCHANGED <<issued, classes, burned, left>>
       \/ /\ pc[r] = "burn" /\ Amount(r) <= held[who[r]]
          /\ Burned(r)
          /\ UNCHANGED <<issued, classes, left>>
    /\ Stop({r})
    /\ UNCHANGED <<asset, stored, request>>

(* A restart: every request in progress is lost.                           *)
Crash ==
    /\ \E r \in Requests : Unfinished(r)
    /\ Stop({r \in Requests : Unfinished(r)})
    /\ left' = left \cup {r \in Requests : pc[r] = "send"}
    /\ UNCHANGED <<asset, stored, chain, request, burned>>

---------------------------------------------------------------------------
Http(r) == PageAssetRequestsAdminUpdate(r) \/ NewToken(r) \/ NewTokenSaver(r)
           \/ MintTokenMerchant(r) \/ MintToken(r) \/ BurnTokenMerchant(r)

Handle(r) == GetAsset(r) \/ DeleteLink(r) \/ DeleteAsset(r) \/ LookupIssuer(r)
             \/ StoreIssuer(r) \/ Issue(r) \/ IssueClass(r) \/ Mint(r) \/ MintNFT(r)
             \/ Send(r) \/ Burn(r) \/ Activate(r) \/ Create(r)

(* No more requests: the bound, not the end of the program.                *)
Finished ==
    /\ \A r \in Requests : pc[r] \in {"ok", "error", "create"}
    /\ UNCHANGED vars

Next == \/ \E m \in Merchants : AssetRequestMerchant(m)
        \/ \E r \in Requests : Http(r) \/ Handle(r) \/ Fail(r) \/ LandLate(r)
        \/ Crash
        \/ Finished

Spec == Init /\ [][Next]_vars

---------------------------------------------------------------------------
(* Properties                                                              *)

(* The types of the variables.                                             *)
TypeOK ==
    /\ asset \in [Row -> Asset]
    /\ stored \subseteq Merchants /\ issued \subseteq stored /\ classes \subseteq Foreign
    /\ held \in [Merchants -> Nat] /\ burned \in [Merchants -> Nat]
    /\ op \in [Requests -> Operations] /\ pc \in [Requests -> Phases]
    /\ who \in [Requests -> Merchants \cup {None}]
    /\ issuer \in [Requests -> Issuers \cup {Null}]
    /\ faults \in 0..MaxFaults
    /\ left \subseteq Requests /\ failed \subseteq Requests

(* What an issuer holds or has burned are tokens on their way to the       *)
(* merchant or left there by a request that ended in between: BurnFT       *)
(* burns from the issuer (burn.go:47-49) and never what a merchant got     *)
(* (issue.go:123, mint.go:52).                                             *)
AtIssuer(m) == {r \in Requests : who[r] = m /\ (pc[r] = "send" \/ r \in left)}
Amounts == [r \in Requests |-> Amount(r)]
IssuerHoldsStranded == \A m \in Merchants :
    held[m] + burned[m] = SumFunctionOnSet(Amounts, AtIssuer(m))

(* A row without links is invisible to every query; only a rejection       *)
(* leaves one, under way, failed, or overtaken by an activation that       *)
(* changed the issuer between its two statements                           *)
(* (storage/assets.go:207-226).                                            *)
Unlinked(r) == op[r] = "reject" /\ pc[r] \notin {"get", "unlink"}
UnlinkedByReject == \A a \in Row :
    Present(a) /\ ~Linked(a) => \E r \in Requests : Unlinked(r)

(* An asset is active under an issuer of ours only if the token was        *)
(* issued, and without issuer only after /token_mint was answered; what an *)
(* approval names is not looked at otherwise (dashboard-admin.go:217-247,  *)
(* handler/transfer.go:304).                                               *)
Emptied(q, m) == op[q] = "mintToken" /\ pc[q] = "ok" /\ who[q] = m
ActiveIsIssued == \A a \in Row :
    asset[a].status = "active" =>
        \/ asset[a].issuer \in issued \cup Foreign
        \/ asset[a].issuer = Empty /\ \E r \in Requests : Emptied(r, asset[a].owner)

(* An approval of a merchant's own token that was answered left an active  *)
(* asset under the merchant as issuer.  Only a rejection that was let in   *)
(* before can have removed it, and only /token_mint can have emptied its   *)
(* issuer (dashboard-admin.go:237-247, handler/transfer.go:304).           *)
Approved(r) == op[r] = "approve" /\ issuer[r] = Null /\ pc[r] = "ok"
ActiveAs(i) == \E a \in WithIssuer(i) : asset[a].status = "active"
ApprovedIsActive == \A r \in Requests :
    Approved(r) => \/ ActiveAs(who[r])
                   \/ \E q \in Requests : Unlinked(q) \/ Emptied(q, who[r])

---------------------------------------------------------------------------
(* What a comment says and the code does not do                            *)

(* "DeleteAssetRequest deletes the request for asset"                      *)
(* (storage/assets.go:206): after a rejection that is answered the request *)
(* it read is gone.                                                        *)
RejectedIsDeleted == [][\A r \in Requests :
    pc[r] = "delete" /\ pc'[r] = "ok" => WithIssuer(issuer[r])' = {}]_vars

=============================================================================
