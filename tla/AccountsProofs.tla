----------------------------- MODULE AccountsProofs -----------------------------
(***************************************************************************)
(* Theorems about Accounts: what concurrent requests cannot do to the      *)
(* wallets and to the merchant's value.                                    *)
(***************************************************************************)
EXTENDS Accounts, TLAPS

Creating == {"lookup", "choose", "fund", "activate", "put"}

(* Which ids a request handles, in which order.                            *)
ExtInv == \A r \in Requests :
    pc[r] \in Creating =>
        \/ op[r] = "deposit" /\ ext[r] \in Users
        \/ op[r] = "create" /\ ext[r] \in {Receiving, Sending}
        \/ op[r] = "commission" /\ ext[r] \in {Receiving, Sending}

(* A request may still create a wallet for e.                              *)
MayCreate(r, e) ==
    \/ pc[r] \in {"idle", "read", "reread"}
    \/ pc[r] = "write" /\ op[r] = "commission"
    \/ pc[r] \in Creating /\ (e = ext[r] \/ e = NextExt(op[r], ext[r]))

(* A wallet that may still be created is not stored, and not funded unless *)
(* its transactions are under way.                                         *)
FreshInv == \A r \in Requests, e \in Ext :
    /\ MayCreate(r, e) => keys[e] # <<r, e>>
    /\ MayCreate(r, e) /\ <<r, e>> \in funded =>
           e = ext[r] /\ pc[r] \in {"activate", "put"}

(* A record is under the id its address was created for.                   *)
KeyInv == \A e \in Ext : keys[e] # None => keys[e][2] = e

(* A wallet about to be stored is activated if it was funded.              *)
PutInv == \A r \in Requests :
    pc[r] = "put" /\ <<r, ext[r]>> \in funded => <<r, ext[r]>> \in activated

(* What a request has stored before it goes on to its second wallet.       *)
OrderInv == \A r \in Requests :
    /\ op[r] = "create" /\ ext[r] = Sending => keys[Receiving] # None
    /\ op[r] = "create" /\ pc[r] = "write" =>
           keys[Receiving] # None /\ keys[Sending] # None
    /\ op[r] = "commission" /\ ext[r] = Receiving => keys[Sending] # None
    /\ pc[r] = "write" => op[r] \notin {"none", "deposit"}
    /\ pc[r] \in {"reread"} => op[r] \in {"publicKey", "callbackUrl", "update", "commission"}
    /\ pc[r] \in {"read"} => op[r] \in {"publicKey", "callbackUrl", "create"}
    /\ pc[r] \in {"idle", "read", "reread", "write", "ok"} => ext[r] = None

Backed == \/ keys[Receiving] # None /\ keys[Sending] # None
          \/ \E r \in Requests : Incomplete(r)
EntryInv == /\ data.wallets # None => Backed
            /\ \A r \in Requests : seen[r].wallets # None => Backed

(* What a request will write back is what is there, but for its own fields *)
(* and those changed since it read them.                                   *)
StaleInv == \A r \in Requests :
    /\ op[r] = "publicKey" /\ pc[r] \in {"reread", "write"} /\ want[r].callback # data.callback
           => "callback" \in stale[r]
    /\ op[r] = "callbackUrl" /\ pc[r] \in {"reread", "write"} /\ want[r].key # data.key
           => "key" \in stale[r]
    /\ op[r] \in {"publicKey", "callbackUrl", "update"} /\ pc[r] = "write"
           /\ seen[r].wallets # data.wallets => "wallets" \in stale[r]
    /\ \/ op[r] = "commission" /\ pc[r] = "write"
       \/ op[r] = "create" /\ pc[r] \in Creating \cup {"write"}
       => /\ seen[r].key # data.key => "key" \in stale[r]
          /\ seen[r].callback # data.callback => "callback" \in stale[r]

---------------------------------------------------------------------------
(* Every request starts with Arrive, whatever it is.                       *)
LEMMA HttpArrives ==
    ASSUME NEW r \in Requests, Http(r), data \in MerchantData
    PROVE  \E o \in Operations \ {"none"}, p \in {"read", "reread", "lookup"},
              w \in MerchantData, e \in Users \cup {None} :
              /\ Arrive(r, o, p, w, e)
              /\ p = "lookup" <=> o = "deposit"
              /\ o = "deposit" => e \in Users
              /\ o # "deposit" => e = None
              /\ p = "reread" => o \in {"update", "commission"}
              /\ p = "read" => o \in {"publicKey", "callbackUrl", "create"}
  <1>1. CASE PublicKeySaver(r) BY <1>1 DEF PublicKeySaver, Operations, MerchantData
  <1>2. CASE UpdateCallbackUrl(r) BY <1>2 DEF UpdateCallbackUrl, Operations, MerchantData
  <1>3. CASE UpdateMerchant(r) BY <1>3 DEF UpdateMerchant, Operations, MerchantData
  <1>4. CASE UpdateMerchantCommission(r)
    BY <1>4 DEF UpdateMerchantCommission, Operations, MerchantData, Pairs
  <1>5. CASE CreateWallet(r) BY <1>5 DEF CreateWallet, Operations, MerchantData, Pairs
  <1>6. CASE Deposit(r) BY <1>6 DEF Deposit, Operations
  <1> QED BY <1>1, <1>2, <1>3, <1>4, <1>5, <1>6 DEF Http

(* What Advance does to the request that takes it, and to no other.        *)
LEMMA AdvanceEffect ==
    ASSUME TypeOK, NEW r \in Requests, NEW a \in Address, ext[r] \in Ext, Advance(r, a)
    PROVE  /\ ext' \in [Requests -> Ext \cup {None}]
           /\ pc' \in [Requests -> Phases]
           /\ answered' \subseteq Ext \X Address
           /\ ext'[r] = NextExt(op[r], ext[r])
           /\ pc'[r] \in Creating => ext'[r] \in Ext
           /\ pc'[r] \in {"write", "choose", "ok", "lookup"}
           /\ pc'[r] = "write" => op[r] = "create" /\ ext'[r] = None
           /\ pc'[r] = "ok" => op[r] # "create" /\ ext'[r] = None
           /\ pc'[r] = "choose" => op[r] = "create"
           /\ pc'[r] = "lookup" => op[r] # "create"
           /\ answered' \subseteq answered \cup {<<ext[r], a>>}
           /\ \A q \in Requests \ {r} : ext'[q] = ext[q] /\ pc'[q] = pc[q]
  <1> DEFINE e == NextExt(op[r], ext[r])
  <1>1. e \in Ext \cup {None}
    BY DEF NextExt, Ext
  <1>2. e \in {Sending, Receiving, None}
    BY DEF NextExt
  <1> HIDE DEF e
  <1> QED BY <1>1, <1>2, AccountsAssumption DEF Advance, TypeOK, Creating, Phases, Address,
     Ext, e

(* The types are kept by every step.                                       *)
LEMMA TypeStep ==
    ASSUME TypeOK, [Next]_vars
    PROVE  TypeOK'
  <1> USE AccountsAssumption DEF Ext, Pairs, record, chain, observations
  <1>1. ASSUME NEW r \in Requests, Http(r) PROVE TypeOK'
    <2>1. PICK o \in Operations, p \in {"read", "reread", "lookup"}, w \in MerchantData,
               e \in Users \cup {None} :
            /\ Arrive(r, o, p, w, e)
            /\ p = "lookup" => e \in Users
      BY <1>1, HttpArrives DEF TypeOK
    <2> QED BY <2>1 DEF Arrive, TypeOK, Operations, Phases
  <1>13. ASSUME NEW r \in Requests, ReadForm(r) PROVE TypeOK'
    <2>1. want'[r] \in MerchantData
      BY <1>13 DEF ReadForm, TypeOK, MerchantData
    <2> QED BY <1>13, <2>1 DEF ReadForm, TypeOK, Phases
  <1>2. ASSUME NEW r \in Requests, ReadCreate(r) PROVE TypeOK'
    BY <1>2 DEF ReadCreate, TypeOK, Phases
  <1>3. ASSUME NEW r \in Requests, ReadAgain(r) PROVE TypeOK'
    BY <1>3 DEF ReadAgain, TypeOK, Phases, MerchantData, Fields
  <1>4. ASSUME NEW r \in Requests, WriteMerchant(r) PROVE TypeOK'
    BY <1>4 DEF WriteMerchant, TypeOK, Phases, MerchantData, Merged, Changed, Fields
  <1>5. ASSUME NEW r \in Requests, Lookup(r) PROVE TypeOK'
    <2>1. CASE keys[ext[r]] # None
      <3>1. ext[r] \in Ext /\ keys[ext[r]] \in Address /\ Advance(r, keys[ext[r]])
        BY <1>5, <2>1 DEF Lookup, TypeOK
      <3> QED BY <3>1, AdvanceEffect, <1>5 DEF Lookup, TypeOK, Creating
    <2>2. CASE keys[ext[r]] = None
      BY <1>5, <2>2 DEF Lookup, TypeOK, Phases
    <2> QED BY <2>1, <2>2
  <1>6. ASSUME NEW r \in Requests, ChooseSigners(r) PROVE TypeOK'
    BY <1>6 DEF ChooseSigners, TypeOK, Phases, MerchantData
  <1>7. ASSUME NEW r \in Requests, Fund(r) PROVE TypeOK'
    BY <1>7 DEF Fund, TypeOK, Phases, MerchantData, Address
  <1>8. ASSUME NEW r \in Requests, Activate(r) PROVE TypeOK'
    BY <1>8 DEF Activate, TypeOK, Phases, MerchantData, Address
  <1>9. ASSUME NEW r \in Requests, Put(r) PROVE TypeOK'
    <2>1. CASE keys[ext[r]] = None
      <3>1. ext[r] \in Ext /\ <<r, ext[r]>> \in Address /\ Advance(r, <<r, ext[r]>>)
        BY <1>9, <2>1 DEF Put, TypeOK, Address
      <3> QED BY <3>1, AdvanceEffect, <1>9, <2>1 DEF Put, TypeOK, Creating
    <2>2. CASE keys[ext[r]] # None
      BY <1>9, <2>2 DEF Put, TypeOK, Phases
    <2> QED BY <2>1, <2>2
  <1>10. ASSUME NEW r \in Requests, Fail(r) \/ LandLate(r) PROVE TypeOK'
    BY <1>10 DEF Fail, LandLate, Stop, TypeOK, Phases, Address
  <1>11. ASSUME Crash PROVE TypeOK'
    BY <1>11 DEF Crash, Stop, TypeOK, Phases, Unfinished
  <1>12. CASE UNCHANGED vars BY <1>12 DEF TypeOK, vars
  <1> QED BY <1>1, <1>13, <1>2, <1>3, <1>4, <1>5, <1>6, <1>7, <1>8, <1>9, <1>10, <1>11, <1>12
         DEF Next, Handle, Finished

(* Requests handle the ids of their operation, in its order.                *)
LEMMA ExtStep ==
    ASSUME TypeOK, ExtInv, OrderInv, Next
    PROVE  ExtInv'
  <1> USE AccountsAssumption DEF Ext, record, chain, observations, Creating
  <1>1. ASSUME NEW r \in Requests, Http(r) PROVE ExtInv'
    <2>1. PICK o \in Operations \ {"none"}, p \in {"read", "reread", "lookup"},
               w \in MerchantData, e \in Users \cup {None} :
            /\ Arrive(r, o, p, w, e)
            /\ p = "lookup" <=> o = "deposit"
            /\ o = "deposit" => e \in Users
            /\ o # "deposit" => e = None
            /\ p = "reread" => o \in {"update", "commission"}
            /\ p = "read" => o \in {"publicKey", "callbackUrl", "create"}
      BY <1>1, HttpArrives DEF TypeOK
    <2> QED BY <2>1 DEF Arrive, ExtInv, OrderInv, TypeOK
  <1>2. ASSUME NEW r \in Requests, ReadForm(r) PROVE ExtInv'
    BY <1>2 DEF ReadForm, ExtInv, OrderInv, TypeOK
  <1>3. ASSUME NEW r \in Requests, ReadCreate(r) PROVE ExtInv'
    BY <1>3 DEF ReadCreate, ExtInv, OrderInv, TypeOK
  <1>4. ASSUME NEW r \in Requests, ReadAgain(r) PROVE ExtInv'
    BY <1>4 DEF ReadAgain, ExtInv, OrderInv, TypeOK
  <1>5. ASSUME NEW r \in Requests, WriteMerchant(r) PROVE ExtInv'
    BY <1>5 DEF WriteMerchant, Merged, ExtInv, OrderInv, TypeOK
  <1>6. ASSUME NEW r \in Requests, ChooseSigners(r) PROVE ExtInv'
    BY <1>6 DEF ChooseSigners, ExtInv, OrderInv, TypeOK
  <1>7. ASSUME NEW r \in Requests, Fund(r) PROVE ExtInv'
    BY <1>7 DEF Fund, Address, ExtInv, OrderInv, TypeOK
  <1>8. ASSUME NEW r \in Requests, Activate(r) PROVE ExtInv'
    BY <1>8 DEF Activate, Address, ExtInv, OrderInv, TypeOK
  <1>9. ASSUME NEW r \in Requests, Fail(r) PROVE ExtInv'
    BY <1>9 DEF Fail, Stop, Unfinished, ExtInv, OrderInv, TypeOK
  <1>10. ASSUME NEW r \in Requests, LandLate(r) PROVE ExtInv'
    BY <1>10 DEF LandLate, Stop, Unfinished, ExtInv, OrderInv, TypeOK
  <1>11. ASSUME NEW r \in Requests, Lookup(r) PROVE ExtInv'
    <2>1. CASE keys[ext[r]] # None
      <3>1. ext[r] \in Ext /\ keys[ext[r]] \in Address /\ Advance(r, keys[ext[r]])
        BY <1>11, <2>1 DEF Lookup, TypeOK
      <3> QED BY <3>1, AdvanceEffect, <1>11, <2>1 DEF Lookup, NextExt, ExtInv, OrderInv, TypeOK
    <2>2. CASE keys[ext[r]] = None
      BY <1>11, <2>2 DEF Lookup, ExtInv, OrderInv, TypeOK
    <2> QED BY <2>1, <2>2
  <1>12. ASSUME NEW r \in Requests, Put(r) PROVE ExtInv'
    <2>1. CASE keys[ext[r]] = None
      <3>1. ext[r] \in Ext /\ <<r, ext[r]>> \in Address /\ Advance(r, <<r, ext[r]>>)
        BY <1>12, <2>1 DEF Put, TypeOK, Address
      <3> QED BY <3>1, AdvanceEffect, <1>12, <2>1 DEF Put, NextExt, ExtInv, OrderInv, TypeOK,
         Address
    <2>2. CASE keys[ext[r]] # None
      BY <1>12, <2>2 DEF Put, ExtInv, OrderInv, TypeOK
    <2> QED BY <2>1, <2>2
  <1>13. ASSUME Crash PROVE ExtInv'
    BY <1>13 DEF Crash, Stop, Unfinished, ExtInv, OrderInv, TypeOK
  <1>14. CASE Finished BY <1>14 DEF Finished, vars, ExtInv, OrderInv
  <1> QED BY <1>1, <1>2, <1>3, <1>4, <1>5, <1>6, <1>7, <1>8,
         <1>9, <1>10, <1>11, <1>12, <1>13, <1>14 DEF Next, Handle

(* Before its second wallet, and before its write, the first is stored.     *)
LEMMA OrderStep ==
    ASSUME TypeOK, ExtInv, OrderInv, Next
    PROVE  OrderInv'
  <1> USE AccountsAssumption DEF Ext, record, chain, observations, Creating
  <1>1. ASSUME NEW r \in Requests, Http(r) PROVE OrderInv'
    <2>1. PICK o \in Operations \ {"none"}, p \in {"read", "reread", "lookup"},
               w \in MerchantData, e \in Users \cup {None} :
            /\ Arrive(r, o, p, w, e)
            /\ p = "lookup" <=> o = "deposit"
            /\ o = "deposit" => e \in Users
            /\ o # "deposit" => e = None
            /\ p = "reread" => o \in {"update", "commission"}
            /\ p = "read" => o \in {"publicKey", "callbackUrl", "create"}
      BY <1>1, HttpArrives DEF TypeOK
    <2> QED BY <2>1 DEF Arrive, ExtInv, OrderInv, TypeOK
  <1>2. ASSUME NEW r \in Requests, ReadForm(r) PROVE OrderInv'
    BY <1>2 DEF ReadForm, ExtInv, OrderInv, TypeOK
  <1>3. ASSUME NEW r \in Requests, ReadCreate(r) PROVE OrderInv'
    BY <1>3 DEF ReadCreate, ExtInv, OrderInv, TypeOK
  <1>4. ASSUME NEW r \in Requests, ReadAgain(r) PROVE OrderInv'
    BY <1>4 DEF ReadAgain, ExtInv, OrderInv, TypeOK
  <1>5. ASSUME NEW r \in Requests, WriteMerchant(r) PROVE OrderInv'
    BY <1>5 DEF WriteMerchant, Merged, ExtInv, OrderInv, TypeOK
  <1>6. ASSUME NEW r \in Requests, ChooseSigners(r) PROVE OrderInv'
    BY <1>6 DEF ChooseSigners, ExtInv, OrderInv, TypeOK
  <1>7. ASSUME NEW r \in Requests, Fund(r) PROVE OrderInv'
    BY <1>7 DEF Fund, Address, ExtInv, OrderInv, TypeOK
  <1>8. ASSUME NEW r \in Requests, Activate(r) PROVE OrderInv'
    BY <1>8 DEF Activate, Address, ExtInv, OrderInv, TypeOK
  <1>9. ASSUME NEW r \in Requests, Fail(r) PROVE OrderInv'
    BY <1>9 DEF Fail, Stop, Unfinished, ExtInv, OrderInv, TypeOK
  <1>10. ASSUME NEW r \in Requests, LandLate(r) PROVE OrderInv'
    BY <1>10 DEF LandLate, Stop, Unfinished, ExtInv, OrderInv, TypeOK
  <1>11. ASSUME NEW r \in Requests, Lookup(r) PROVE OrderInv'
    <2>1. CASE keys[ext[r]] # None
      <3>1. ext[r] \in Ext /\ keys[ext[r]] \in Address /\ Advance(r, keys[ext[r]])
        BY <1>11, <2>1 DEF Lookup, TypeOK
      <3> QED BY <3>1, AdvanceEffect, <1>11, <2>1 DEF Lookup, NextExt, ExtInv, OrderInv, TypeOK
    <2>2. CASE keys[ext[r]] = None
      BY <1>11, <2>2 DEF Lookup, ExtInv, OrderInv, TypeOK
    <2> QED BY <2>1, <2>2
  <1>12. ASSUME NEW r \in Requests, Put(r) PROVE OrderInv'
    <2>1. CASE keys[ext[r]] = None
      <3>1. ext[r] \in Ext /\ <<r, ext[r]>> \in Address /\ Advance(r, <<r, ext[r]>>)
        BY <1>12, <2>1 DEF Put, TypeOK, Address
      <3> QED BY <3>1, AdvanceEffect, <1>12, <2>1 DEF Put, NextExt, ExtInv, OrderInv, TypeOK,
         Address
    <2>2. CASE keys[ext[r]] # None
      BY <1>12, <2>2 DEF Put, ExtInv, OrderInv, TypeOK
    <2> QED BY <2>1, <2>2
  <1>13. ASSUME Crash PROVE OrderInv'
    BY <1>13 DEF Crash, Stop, Unfinished, ExtInv, OrderInv, TypeOK
  <1>14. CASE Finished BY <1>14 DEF Finished, vars, ExtInv, OrderInv
  <1> QED BY <1>1, <1>2, <1>3, <1>4, <1>5, <1>6, <1>7, <1>8,
         <1>9, <1>10, <1>11, <1>12, <1>13, <1>14 DEF Next, Handle

(* What a request may still create only shrinks; a funded wallet stays put. *)
LEMMA MayCreateShrinks ==
    ASSUME TypeOK, ExtInv, OrderInv, NEW r0 \in Requests, NEW e0 \in Ext, Next
    PROVE  /\ MayCreate(r0, e0)' => MayCreate(r0, e0)
           /\ MayCreate(r0, e0)' /\ e0 = ext[r0] /\ pc[r0] \in {"activate", "put"} =>
                  e0 = ext'[r0] /\ pc'[r0] \in {"activate", "put"}
  <1> DEFINE Q == /\ MayCreate(r0, e0)' => MayCreate(r0, e0)
                  /\ MayCreate(r0, e0)' /\ e0 = ext[r0] /\ pc[r0] \in {"activate", "put"} =>
                         e0 = ext'[r0] /\ pc'[r0] \in {"activate", "put"}
  <1> USE AccountsAssumption DEF Ext, record, chain, observations, Creating
  <1>1. ASSUME NEW r \in Requests, Http(r) PROVE Q
    <2>1. PICK o \in Operations \ {"none"}, p \in {"read", "reread", "lookup"},
               w \in MerchantData, e \in Users \cup {None} :
            /\ Arrive(r, o, p, w, e)
            /\ p = "lookup" <=> o = "deposit"
            /\ o = "deposit" => e \in Users
            /\ o # "deposit" => e = None
            /\ p = "reread" => o \in {"update", "commission"}
            /\ p = "read" => o \in {"publicKey", "callbackUrl", "create"}
      BY <1>1, HttpArrives DEF TypeOK
    <2> QED BY <2>1 DEF Arrive, ExtInv, OrderInv, MayCreate, NextExt, TypeOK
  <1>2. ASSUME NEW r \in Requests, ReadForm(r) PROVE Q
    BY <1>2 DEF ReadForm, ExtInv, OrderInv, MayCreate, NextExt, TypeOK
  <1>3. ASSUME NEW r \in Requests, ReadCreate(r) PROVE Q
    BY <1>3 DEF ReadCreate, ExtInv, OrderInv, MayCreate, NextExt, TypeOK
  <1>4. ASSUME NEW r \in Requests, ReadAgain(r) PROVE Q
    BY <1>4 DEF ReadAgain, ExtInv, OrderInv, MayCreate, NextExt, TypeOK
  <1>5. ASSUME NEW r \in Requests, WriteMerchant(r) PROVE Q
    BY <1>5 DEF WriteMerchant, Merged, ExtInv, OrderInv, MayCreate, NextExt, TypeOK
  <1>6. ASSUME NEW r \in Requests, ChooseSigners(r) PROVE Q
    BY <1>6 DEF ChooseSigners, ExtInv, OrderInv, MayCreate, NextExt, TypeOK
  <1>7. ASSUME NEW r \in Requests, Fund(r) PROVE Q
    BY <1>7 DEF Fund, Address, ExtInv, OrderInv, MayCreate, NextExt, TypeOK
  <1>8. ASSUME NEW r \in Requests, Activate(r) PROVE Q
    BY <1>8 DEF Activate, Address, ExtInv, OrderInv, MayCreate, NextExt, TypeOK
  <1>9. ASSUME NEW r \in Requests, Fail(r) PROVE Q
    BY <1>9 DEF Fail, Stop, Unfinished, ExtInv, OrderInv, MayCreate, NextExt, TypeOK
  <1>10. ASSUME NEW r \in Requests, LandLate(r) PROVE Q
    BY <1>10 DEF LandLate, Stop, Unfinished, ExtInv, OrderInv, MayCreate, NextExt, TypeOK
  <1>11. ASSUME NEW r \in Requests, Lookup(r) PROVE Q
    <2>1. CASE keys[ext[r]] # None
      <3>1. ext[r] \in Ext /\ keys[ext[r]] \in Address /\ Advance(r, keys[ext[r]])
        BY <1>11, <2>1 DEF Lookup, TypeOK
      <3> QED BY <3>1, AdvanceEffect, <1>11, <2>1 DEF Lookup, NextExt, ExtInv, OrderInv,
         MayCreate, NextExt, TypeOK
    <2>2. CASE keys[ext[r]] = None
      BY <1>11, <2>2 DEF Lookup, ExtInv, OrderInv, MayCreate, NextExt, TypeOK
    <2> QED BY <2>1, <2>2
  <1>12. ASSUME NEW r \in Requests, Put(r) PROVE Q
    <2>1. CASE keys[ext[r]] = None
      <3>1. ext[r] \in Ext /\ <<r, ext[r]>> \in Address /\ Advance(r, <<r, ext[r]>>)
        BY <1>12, <2>1 DEF Put, TypeOK, Address
      <3> QED BY <3>1, AdvanceEffect, <1>12, <2>1 DEF Put, NextExt, ExtInv, OrderInv,
         MayCreate, NextExt, TypeOK, Address
    <2>2. CASE keys[ext[r]] # None
      BY <1>12, <2>2 DEF Put, ExtInv, OrderInv, MayCreate, NextExt, TypeOK
    <2> QED BY <2>1, <2>2
  <1>13. ASSUME Crash PROVE Q
    BY <1>13 DEF Crash, Stop, Unfinished, ExtInv, OrderInv, MayCreate, NextExt, TypeOK
  <1>14. CASE Finished
    BY <1>14 DEF Finished, vars, ExtInv, OrderInv, MayCreate, NextExt
  <1> QED BY <1>1, <1>2, <1>3, <1>4, <1>5, <1>6, <1>7, <1>8,
         <1>9, <1>10, <1>11, <1>12, <1>13, <1>14 DEF Next, Handle

(* A record appears only for a request that then cannot create it again.   *)
LEMMA KeysGrow ==
    ASSUME TypeOK, ExtInv, OrderInv, Next, NEW e \in Ext, keys'[e] # keys[e]
    PROVE  \E r \in Requests :
               /\ pc[r] = "put" /\ ext[r] = e /\ keys[e] = None
               /\ keys'[e] = <<r, e>> /\ ~MayCreate(r, e)'
  <1>1. PICK r \in Requests : Put(r) /\ keys[ext[r]] = None
    BY DEF Next, Http, Handle, PublicKeySaver, UpdateCallbackUrl, UpdateMerchant,
           UpdateMerchantCommission, CreateWallet, Deposit, Arrive, ReadForm, ReadCreate,
           ReadAgain, WriteMerchant, Lookup, ChooseSigners, Fund, Activate, Put, Fail,
           LandLate, Crash, Finished, vars, record, chain
  <1>2. keys' = [keys EXCEPT ![ext[r]] = <<r, ext[r]>>] /\ Advance(r, <<r, ext[r]>>)
        /\ pc[r] = "put"
    BY <1>1 DEF Put
  <1>3. e = ext[r] /\ keys'[e] = <<r, e>> /\ keys[e] = None
    BY <1>1, <1>2 DEF TypeOK
  <1>4. ext[r] \in Ext /\ <<r, ext[r]>> \in Address
    BY <1>3 DEF Address
  <1>5. ~MayCreate(r, e)'
    <2>1. op' = op
      BY <1>1 DEF Put
    <2>2. /\ ext'[r] = NextExt(op[r], e) /\ pc'[r] \in {"write", "choose", "ok", "lookup"}
          /\ pc'[r] = "write" => op[r] = "create"
      BY <1>2, <1>3, <1>4, AdvanceEffect
    <2>3. NextExt(op[r], e) # e /\ NextExt(op[r], NextExt(op[r], e)) # e
      BY <1>2, <1>3, AccountsAssumption DEF NextExt, Ext, ExtInv, Creating
    <2> QED BY <2>1, <2>2, <2>3 DEF MayCreate, Creating
  <1> QED BY <1>2, <1>3, <1>5

(* An account gets gas only from the request that is at that step.         *)
LEMMA FundedGrows ==
    ASSUME TypeOK, Next, NEW a \in funded', a \notin funded
    PROVE  \E r \in Requests :
               /\ pc[r] = "fund" /\ a = <<r, ext[r]>> /\ ext[r] \in Ext
               /\ ext'[r] = ext[r] /\ pc'[r] \in {"activate", "error"}
  <1>1. PICK r \in Requests : Fund(r) \/ LandLate(r)
    BY DEF Next, Http, Handle, PublicKeySaver, UpdateCallbackUrl, UpdateMerchant,
           UpdateMerchantCommission, CreateWallet, Deposit, Arrive, ReadForm, ReadCreate,
           ReadAgain, WriteMerchant, Lookup, ChooseSigners, Activate, Put, Fail,
           Crash, Finished, vars, record, chain
  <1> QED BY <1>1 DEF Fund, LandLate, Stop, TypeOK

(* Wallets still to be created are not in the table.                       *)
LEMMA FreshStep ==
    ASSUME TypeOK, ExtInv, OrderInv, FreshInv, Next
    PROVE  FreshInv'
  <1> SUFFICES ASSUME NEW r \in Requests, NEW e \in Ext, MayCreate(r, e)'
               PROVE  /\ keys'[e] # <<r, e>>
                      /\ <<r, e>> \in funded' =>
                             e = ext'[r] /\ pc'[r] \in {"activate", "put"}
    BY DEF FreshInv
  <1>1. MayCreate(r, e)
    BY MayCreateShrinks
  <1>2. keys'[e] # <<r, e>>
    <2>1. CASE keys'[e] = keys[e]
      BY <1>1, <2>1 DEF FreshInv
    <2>2. CASE keys'[e] # keys[e]
      BY <2>2, KeysGrow
    <2> QED BY <2>1, <2>2
  <1>3. ASSUME <<r, e>> \in funded' PROVE e = ext'[r] /\ pc'[r] \in {"activate", "put"}
    <2>1. CASE <<r, e>> \in funded
      <3>1. e = ext[r] /\ pc[r] \in {"activate", "put"}
        BY <1>1, <2>1 DEF FreshInv
      <3> QED BY <3>1, MayCreateShrinks
    <2>2. CASE <<r, e>> \notin funded
      <3>1. e = ext[r] /\ ext'[r] = ext[r] /\ pc'[r] \in {"activate", "error"}
        BY <1>3, <2>2, FundedGrows
      <3> QED BY <3>1 DEF MayCreate, Creating
    <2> QED BY <2>1, <2>2
  <1> QED BY <1>2, <1>3

(* A funded wallet is activated before it is stored.                        *)
LEMMA PutStep ==
    ASSUME TypeOK, ExtInv, FreshInv, PutInv, Next
    PROVE  PutInv'
  <1> USE AccountsAssumption DEF Ext, record, chain, observations, Creating
  <1>1. ASSUME NEW r \in Requests, Http(r) PROVE PutInv'
    <2>1. PICK o \in Operations \ {"none"}, p \in {"read", "reread", "lookup"},
               w \in MerchantData, e \in Users \cup {None} :
            /\ Arrive(r, o, p, w, e)
            /\ p = "lookup" <=> o = "deposit"
            /\ o = "deposit" => e \in Users
            /\ o # "deposit" => e = None
            /\ p = "reread" => o \in {"update", "commission"}
            /\ p = "read" => o \in {"publicKey", "callbackUrl", "create"}
      BY <1>1, HttpArrives DEF TypeOK
    <2> QED BY <2>1 DEF Arrive, ExtInv, FreshInv, MayCreate, NextExt, PutInv, TypeOK
  <1>2. ASSUME NEW r \in Requests, ReadForm(r) PROVE PutInv'
    BY <1>2 DEF ReadForm, ExtInv, FreshInv, MayCreate, NextExt, PutInv, TypeOK
  <1>3. ASSUME NEW r \in Requests, ReadCreate(r) PROVE PutInv'
    BY <1>3 DEF ReadCreate, ExtInv, FreshInv, MayCreate, NextExt, PutInv, TypeOK
  <1>4. ASSUME NEW r \in Requests, ReadAgain(r) PROVE PutInv'
    BY <1>4 DEF ReadAgain, ExtInv, FreshInv, MayCreate, NextExt, PutInv, TypeOK
  <1>5. ASSUME NEW r \in Requests, WriteMerchant(r) PROVE PutInv'
    BY <1>5 DEF WriteMerchant, Merged, ExtInv, FreshInv, MayCreate, NextExt, PutInv, TypeOK
  <1>6. ASSUME NEW r \in Requests, ChooseSigners(r) PROVE PutInv'
    BY <1>6 DEF ChooseSigners, ExtInv, FreshInv, MayCreate, NextExt, PutInv, TypeOK
  <1>7. ASSUME NEW r \in Requests, Fund(r) PROVE PutInv'
    BY <1>7 DEF Fund, Address, ExtInv, FreshInv, MayCreate, NextExt, PutInv, TypeOK
  <1>8. ASSUME NEW r \in Requests, Activate(r) PROVE PutInv'
    BY <1>8 DEF Activate, Address, ExtInv, FreshInv, MayCreate, NextExt, PutInv, TypeOK
  <1>9. ASSUME NEW r \in Requests, Fail(r) PROVE PutInv'
    BY <1>9 DEF Fail, Stop, Unfinished, ExtInv, FreshInv, MayCreate, NextExt, PutInv, TypeOK
  <1>10. ASSUME NEW r \in Requests, LandLate(r) PROVE PutInv'
    BY <1>10 DEF LandLate, Stop, Unfinished, ExtInv, FreshInv, MayCreate, NextExt, PutInv,
       TypeOK
  <1>11. ASSUME NEW r \in Requests, Lookup(r) PROVE PutInv'
    <2>1. CASE keys[ext[r]] # None
      <3>1. ext[r] \in Ext /\ keys[ext[r]] \in Address /\ Advance(r, keys[ext[r]])
        BY <1>11, <2>1 DEF Lookup, TypeOK
      <3> QED BY <3>1, AdvanceEffect, <1>11, <2>1 DEF Lookup, NextExt, ExtInv, FreshInv,
         MayCreate, NextExt, PutInv, TypeOK
    <2>2. CASE keys[ext[r]] = None
      BY <1>11, <2>2 DEF Lookup, ExtInv, FreshInv, MayCreate, NextExt, PutInv, TypeOK
    <2> QED BY <2>1, <2>2
  <1>12. ASSUME NEW r \in Requests, Put(r) PROVE PutInv'
    <2>1. CASE keys[ext[r]] = None
      <3>1. ext[r] \in Ext /\ <<r, ext[r]>> \in Address /\ Advance(r, <<r, ext[r]>>)
        BY <1>12, <2>1 DEF Put, TypeOK, Address
      <3> QED BY <3>1, AdvanceEffect, <1>12, <2>1 DEF Put, NextExt, ExtInv, FreshInv,
         MayCreate, NextExt, PutInv, TypeOK, Address
    <2>2. CASE keys[ext[r]] # None
      BY <1>12, <2>2 DEF Put, ExtInv, FreshInv, MayCreate, NextExt, PutInv, TypeOK
    <2> QED BY <2>1, <2>2
  <1>13. ASSUME Crash PROVE PutInv'
    BY <1>13 DEF Crash, Stop, Unfinished, ExtInv, FreshInv, MayCreate, NextExt, PutInv, TypeOK
  <1>14. CASE Finished BY <1>14 DEF Finished, vars, ExtInv, FreshInv, MayCreate, NextExt, PutInv
  <1> QED BY <1>1, <1>2, <1>3, <1>4, <1>5, <1>6, <1>7, <1>8,
         <1>9, <1>10, <1>11, <1>12, <1>13, <1>14 DEF Next, Handle

(* A commission request stays incomplete until both wallets are there.      *)
LEMMA IncompleteStays ==
    ASSUME TypeOK, ExtInv, OrderInv, NEW r0 \in Requests, Incomplete(r0), Next
    PROVE  Incomplete(r0)' \/ (keys'[Receiving] # None /\ keys'[Sending] # None)
  <1> DEFINE Q == Incomplete(r0)' \/ (keys'[Receiving] # None /\ keys'[Sending] # None)
  <1> USE AccountsAssumption DEF Ext, record, chain, observations, Creating
  <1>1. ASSUME NEW r \in Requests, Http(r) PROVE Q
    <2>1. PICK o \in Operations \ {"none"}, p \in {"read", "reread", "lookup"},
               w \in MerchantData, e \in Users \cup {None} :
            /\ Arrive(r, o, p, w, e)
            /\ p = "lookup" <=> o = "deposit"
            /\ o = "deposit" => e \in Users
            /\ o # "deposit" => e = None
            /\ p = "reread" => o \in {"update", "commission"}
            /\ p = "read" => o \in {"publicKey", "callbackUrl", "create"}
      BY <1>1, HttpArrives DEF TypeOK
    <2> QED BY <2>1 DEF Arrive, ExtInv, OrderInv, Incomplete, NextExt, TypeOK
  <1>2. ASSUME NEW r \in Requests, ReadForm(r) PROVE Q
    BY <1>2 DEF ReadForm, ExtInv, OrderInv, Incomplete, NextExt, TypeOK
  <1>3. ASSUME NEW r \in Requests, ReadCreate(r) PROVE Q
    BY <1>3 DEF ReadCreate, ExtInv, OrderInv, Incomplete, NextExt, TypeOK
  <1>4. ASSUME NEW r \in Requests, ReadAgain(r) PROVE Q
    BY <1>4 DEF ReadAgain, ExtInv, OrderInv, Incomplete, NextExt, TypeOK
  <1>5. ASSUME NEW r \in Requests, WriteMerchant(r) PROVE Q
    BY <1>5 DEF WriteMerchant, Merged, ExtInv, OrderInv, Incomplete, NextExt, TypeOK
  <1>6. ASSUME NEW r \in Requests, ChooseSigners(r) PROVE Q
    BY <1>6 DEF ChooseSigners, ExtInv, OrderInv, Incomplete, NextExt, TypeOK
  <1>7. ASSUME NEW r \in Requests, Fund(r) PROVE Q
    BY <1>7 DEF Fund, Address, ExtInv, OrderInv, Incomplete, NextExt, TypeOK
  <1>8. ASSUME NEW r \in Requests, Activate(r) PROVE Q
    BY <1>8 DEF Activate, Address, ExtInv, OrderInv, Incomplete, NextExt, TypeOK
  <1>9. ASSUME NEW r \in Requests, Fail(r) PROVE Q
    BY <1>9 DEF Fail, Stop, Unfinished, ExtInv, OrderInv, Incomplete, NextExt, TypeOK
  <1>10. ASSUME NEW r \in Requests, LandLate(r) PROVE Q
    BY <1>10 DEF LandLate, Stop, Unfinished, ExtInv, OrderInv, Incomplete, NextExt, TypeOK
  <1>11. ASSUME NEW r \in Requests, Lookup(r) PROVE Q
    <2>1. CASE keys[ext[r]] # None
      <3>1. ext[r] \in Ext /\ keys[ext[r]] \in Address /\ Advance(r, keys[ext[r]])
        BY <1>11, <2>1 DEF Lookup, TypeOK
      <3> QED BY <3>1, AdvanceEffect, <1>11, <2>1 DEF Lookup, NextExt, ExtInv, OrderInv,
         Incomplete, NextExt, TypeOK
    <2>2. CASE keys[ext[r]] = None
      BY <1>11, <2>2 DEF Lookup, ExtInv, OrderInv, Incomplete, NextExt, TypeOK
    <2> QED BY <2>1, <2>2
  <1>12. ASSUME NEW r \in Requests, Put(r) PROVE Q
    <2>1. CASE keys[ext[r]] = None
      <3>1. ext[r] \in Ext /\ <<r, ext[r]>> \in Address /\ Advance(r, <<r, ext[r]>>)
        BY <1>12, <2>1 DEF Put, TypeOK, Address
      <3> QED BY <3>1, AdvanceEffect, <1>12, <2>1 DEF Put, NextExt, ExtInv, OrderInv,
         Incomplete, NextExt, TypeOK, Address
    <2>2. CASE keys[ext[r]] # None
      BY <1>12, <2>2 DEF Put, ExtInv, OrderInv, Incomplete, NextExt, TypeOK
    <2> QED BY <2>1, <2>2
  <1>13. ASSUME Crash PROVE Q
    BY <1>13 DEF Crash, Stop, Unfinished, ExtInv, OrderInv, Incomplete, NextExt, TypeOK
  <1>14. CASE Finished
    BY <1>14 DEF Finished, vars, ExtInv, OrderInv, Incomplete, NextExt
  <1> QED BY <1>1, <1>2, <1>3, <1>4, <1>5, <1>6, <1>7, <1>8,
         <1>9, <1>10, <1>11, <1>12, <1>13, <1>14 DEF Next, Handle

(* A record is never removed or replaced.                                  *)
LEMMA KeysStay ==
    ASSUME TypeOK, ExtInv, OrderInv, Next, NEW e \in Ext, keys[e] # None
    PROVE  keys'[e] = keys[e]
  BY KeysGrow

(* An entry with wallets keeps them.                                       *)
LEMMA BackedStays ==
    ASSUME TypeOK, ExtInv, OrderInv, Next, Backed
    PROVE  Backed'
  <1>1. CASE keys[Receiving] # None /\ keys[Sending] # None
    BY <1>1, KeysStay DEF Backed, Ext
  <1>2. ASSUME NEW r \in Requests, Incomplete(r) PROVE Backed'
    BY <1>2, IncompleteStays DEF Backed
  <1> QED BY <1>1, <1>2 DEF Backed

(* No write brings an entry without wallets.                               *)
LEMMA EntryStep ==
    ASSUME TypeOK, ExtInv, OrderInv, EntryInv, Next
    PROVE  EntryInv'
  <1>1. ASSUME NEW r \in Requests, seen'[r] # seen[r] PROVE seen'[r] = data
    BY <1>1 DEF Next, Http, Handle, PublicKeySaver, UpdateCallbackUrl, UpdateMerchant,
           UpdateMerchantCommission, CreateWallet, Deposit, Arrive, ReadForm, ReadCreate,
           ReadAgain, WriteMerchant, Lookup, ChooseSigners, Fund, Activate, Put, Fail,
           LandLate, Crash, Finished, vars, TypeOK
  <1>2. ASSUME NEW r \in Requests, seen'[r].wallets # None PROVE Backed'
    BY <1>1, <1>2, BackedStays DEF EntryInv
  <1>3. ASSUME data'.wallets # None PROVE Backed'
    <2>1. CASE data' = data
      BY <1>3, <2>1, BackedStays DEF EntryInv
    <2>2. CASE data' # data
      <3>1. PICK r \in Requests : WriteMerchant(r)
        BY <2>2 DEF Next, Http, Handle, PublicKeySaver, UpdateCallbackUrl, UpdateMerchant,
               UpdateMerchantCommission, CreateWallet, Deposit, Arrive, ReadForm, ReadCreate,
               ReadAgain, Lookup, ChooseSigners, Fund, Activate, Put, Fail,
               LandLate, Crash, Finished, vars, record
      <3>2. CASE op[r] = "commission"
        <4>1. op'[r] = "commission" /\ ext'[r] = Sending
          BY <3>1, <3>2 DEF WriteMerchant, TypeOK
        <4> QED BY <4>1, AccountsAssumption DEF Backed, Incomplete, Ext
      <3>3. CASE op[r] = "create"
        <4>1. keys[Receiving] # None /\ keys[Sending] # None
          BY <3>1, <3>3 DEF WriteMerchant, OrderInv
        <4> QED BY <4>1, BackedStays DEF Backed
      <3>4. CASE op[r] \notin {"commission", "create"}
        <4>1. data'.wallets = seen[r].wallets
          BY <3>1, <3>4 DEF WriteMerchant, Merged, TypeOK, MerchantData
        <4> QED BY <4>1, <1>3, BackedStays DEF EntryInv
      <3> QED BY <3>2, <3>3, <3>4
    <2> QED BY <2>1, <2>2
  <1> QED BY <1>2, <1>3 DEF EntryInv

(* An answer is a record that is there.                                    *)
LEMMA AnswersStep ==
    ASSUME TypeOK, ExtInv, OrderInv, AnswersHold, Next
    PROVE  AnswersHold'
  <1> SUFFICES ASSUME NEW e \in Ext, NEW a \in Address, <<e, a>> \in answered'
               PROVE  keys'[e] = a
    BY DEF AnswersHold
  <1> a # None
    BY AccountsAssumption DEF Address
  <1>1. CASE <<e, a>> \in answered
    BY <1>1, KeysStay DEF AnswersHold
  <1>2. CASE <<e, a>> \notin answered
    <2>1. PICK r \in Requests : Lookup(r) \/ Put(r)
      BY <1>2 DEF Next, Http, Handle, PublicKeySaver, UpdateCallbackUrl, UpdateMerchant,
             UpdateMerchantCommission, CreateWallet, Deposit, Arrive, ReadForm, ReadCreate,
             ReadAgain, WriteMerchant, ChooseSigners, Fund, Activate, Fail,
             LandLate, Crash, Finished, vars, observations
    <2>2. ext[r] \in Ext
      BY <2>1 DEF Lookup, Put, TypeOK
    <2>3. CASE Lookup(r)
      BY <1>2, <2>2, <2>3 DEF Lookup, Advance, record
    <2>4. CASE Put(r)
      BY <1>2, <2>2, <2>4 DEF Put, Advance, TypeOK
    <2> QED BY <2>1, <2>3, <2>4
  <1> QED BY <1>1, <1>2

(* A request with a funded account stores it, goes on, or ends in an error. *)
LEMMA FundedMoves ==
    ASSUME TypeOK, NEW r0 \in Requests, Next
    PROVE  /\ pc[r0] = "error" => pc'[r0] = "error"
           /\ pc[r0] \in {"activate", "put"} =>
                  \/ pc'[r0] \in {"activate", "put"} /\ ext'[r0] = ext[r0]
                  \/ pc'[r0] = "error"
                  \/ keys'[ext[r0]] = <<r0, ext[r0]>>
  <1> DEFINE Q ==
           /\ pc[r0] = "error" => pc'[r0] = "error"
           /\ pc[r0] \in {"activate", "put"} =>
                  \/ pc'[r0] \in {"activate", "put"} /\ ext'[r0] = ext[r0]
                  \/ pc'[r0] = "error"
                  \/ keys'[ext[r0]] = <<r0, ext[r0]>>
  <1> USE AccountsAssumption DEF Ext, record, chain, observations, Creating
  <1>1. ASSUME NEW r \in Requests, Http(r) PROVE Q
    <2>1. PICK o \in Operations \ {"none"}, p \in {"read", "reread", "lookup"},
               w \in MerchantData, e \in Users \cup {None} :
            /\ Arrive(r, o, p, w, e)
            /\ p = "lookup" <=> o = "deposit"
            /\ o = "deposit" => e \in Users
            /\ o # "deposit" => e = None
            /\ p = "reread" => o \in {"update", "commission"}
            /\ p = "read" => o \in {"publicKey", "callbackUrl", "create"}
      BY <1>1, HttpArrives DEF TypeOK
    <2> QED BY <2>1 DEF Arrive, TypeOK
  <1>2. ASSUME NEW r \in Requests, ReadForm(r) PROVE Q
    BY <1>2 DEF ReadForm, TypeOK
  <1>3. ASSUME NEW r \in Requests, ReadCreate(r) PROVE Q
    BY <1>3 DEF ReadCreate, TypeOK
  <1>4. ASSUME NEW r \in Requests, ReadAgain(r) PROVE Q
    BY <1>4 DEF ReadAgain, TypeOK
  <1>5. ASSUME NEW r \in Requests, WriteMerchant(r) PROVE Q
    BY <1>5 DEF WriteMerchant, Merged, TypeOK
  <1>6. ASSUME NEW r \in Requests, ChooseSigners(r) PROVE Q
    BY <1>6 DEF ChooseSigners, TypeOK
  <1>7. ASSUME NEW r \in Requests, Fund(r) PROVE Q
    BY <1>7 DEF Fund, Address, TypeOK
  <1>8. ASSUME NEW r \in Requests, Activate(r) PROVE Q
    BY <1>8 DEF Activate, Address, TypeOK
  <1>9. ASSUME NEW r \in Requests, Fail(r) PROVE Q
    BY <1>9 DEF Fail, Stop, Unfinished, TypeOK
  <1>10. ASSUME NEW r \in Requests, LandLate(r) PROVE Q
    BY <1>10 DEF LandLate, Stop, Unfinished, TypeOK
  <1>11. ASSUME NEW r \in Requests, Lookup(r) PROVE Q
    <2>1. CASE keys[ext[r]] # None
      <3>1. ext[r] \in Ext /\ keys[ext[r]] \in Address /\ Advance(r, keys[ext[r]])
        BY <1>11, <2>1 DEF Lookup, TypeOK
      <3> QED BY <3>1, AdvanceEffect, <1>11, <2>1 DEF Lookup, NextExt, TypeOK
    <2>2. CASE keys[ext[r]] = None
      BY <1>11, <2>2 DEF Lookup, TypeOK
    <2> QED BY <2>1, <2>2
  <1>12. ASSUME NEW r \in Requests, Put(r) PROVE Q
    <2>1. CASE keys[ext[r]] = None
      <3>1. ext[r] \in Ext /\ <<r, ext[r]>> \in Address /\ Advance(r, <<r, ext[r]>>)
        BY <1>12, <2>1 DEF Put, TypeOK, Address
      <3> QED BY <3>1, AdvanceEffect, <1>12, <2>1 DEF Put, NextExt, TypeOK, Address
    <2>2. CASE keys[ext[r]] # None
      BY <1>12, <2>2 DEF Put, TypeOK
    <2> QED BY <2>1, <2>2
  <1>13. ASSUME Crash PROVE Q
    BY <1>13 DEF Crash, Stop, Unfinished, TypeOK
  <1>14. CASE Finished
    BY <1>14 DEF Finished, vars
  <1> QED BY <1>1, <1>2, <1>3, <1>4, <1>5, <1>6, <1>7, <1>8,
         <1>9, <1>10, <1>11, <1>12, <1>13, <1>14 DEF Next, Handle

(* Tokens are in a stored account, on their way, or a request failed.      *)
LEMMA FundedStep ==
    ASSUME TypeOK, ExtInv, OrderInv, FundedIsStored, Next
    PROVE  FundedIsStored'
  <1> SUFFICES ASSUME NEW a \in funded'
               PROVE  \/ keys'[a[2]] = a
                      \/ pc'[a[1]] \in {"activate", "put"} /\ ext'[a[1]] = a[2]
                      \/ pc'[a[1]] = "error"
    BY DEF FundedIsStored
  <1>1. CASE a \in funded
    <2>1. a[1] \in Requests /\ a[2] \in Ext /\ a = <<a[1], a[2]>> /\ a # None
      BY <1>1, AccountsAssumption DEF TypeOK, Address
    <2>2. CASE keys[a[2]] = a
      BY <2>1, <2>2, KeysStay
    <2>3. CASE pc[a[1]] \in {"activate", "put"} /\ ext[a[1]] = a[2]
      BY <2>1, <2>3, FundedMoves
    <2>4. CASE pc[a[1]] = "error"
      BY <2>1, <2>4, FundedMoves
    <2> QED BY <1>1, <2>2, <2>3, <2>4 DEF FundedIsStored
  <1>2. CASE a \notin funded
    BY <1>2, FundedGrows
  <1> QED BY <1>1, <1>2

(* Records stay under the id their address was created for.                *)
LEMMA KeyStep ==
    ASSUME TypeOK, ExtInv, OrderInv, KeyInv, Next
    PROVE  KeyInv'
  <1> SUFFICES ASSUME NEW e \in Ext, keys'[e] # None PROVE keys'[e][2] = e
    BY DEF KeyInv
  <1>1. CASE keys'[e] = keys[e]
    BY <1>1 DEF KeyInv
  <1>2. CASE keys'[e] # keys[e]
    BY <1>2, KeysGrow
  <1> QED BY <1>1, <1>2

(* What is stored was activated if it was funded.                          *)
LEMMA ActivatedStep ==
    ASSUME TypeOK, ExtInv, OrderInv, FreshInv, KeyInv, PutInv, StoredIsActivated, Next
    PROVE  StoredIsActivated'
  <1> SUFFICES ASSUME NEW e \in Ext, keys'[e] \in funded' PROVE keys'[e] \in activated'
    BY DEF StoredIsActivated
  <1>1. activated \subseteq activated'
    BY DEF Next, Http, Handle, PublicKeySaver, UpdateCallbackUrl, UpdateMerchant,
           UpdateMerchantCommission, CreateWallet, Deposit, Arrive, ReadForm, ReadCreate,
           ReadAgain, WriteMerchant, Lookup, ChooseSigners, Fund, Activate, Put, Fail,
           LandLate, Crash, Finished, vars, chain
  <1>2. CASE keys'[e] # keys[e]
    <2>1. PICK r \in Requests : /\ pc[r] = "put" /\ ext[r] = e
                                /\ keys'[e] = <<r, e>>
      BY <1>2, KeysGrow
    <2>2. <<r, e>> \in funded
      BY <2>1, FundedGrows
    <2> QED BY <1>1, <2>1, <2>2 DEF PutInv
  <1>3. CASE keys'[e] = keys[e]
    <2>1. CASE keys[e] \in funded
      BY <1>1, <1>3, <2>1 DEF StoredIsActivated
    <2>2. CASE keys[e] \notin funded
      <3>1. PICK r \in Requests : /\ pc[r] = "fund" /\ keys[e] = <<r, ext[r]>>
                                  /\ ext[r] \in Ext
        BY <1>3, <2>2, FundedGrows
      <3>2. keys[ext[r]] # <<r, ext[r]>>
        BY <3>1 DEF FreshInv, MayCreate, Creating
      <3>3. keys[e] # None
        BY <3>1, AccountsAssumption DEF Address
      <3>4. keys[e][2] = e
        BY <3>3 DEF KeyInv
      <3>5. ext[r] = e
        BY <3>1, <3>4
      <3> QED BY <3>1, <3>2, <3>5
    <2> QED BY <2>1, <2>2
  <1> QED BY <1>2, <1>3

(* A request knows which of the fields it will write are out of date.       *)
LEMMA StaleStep ==
    ASSUME TypeOK, ExtInv, OrderInv, StaleInv, Next
    PROVE  StaleInv'
  <1> USE AccountsAssumption DEF Ext, record, chain, observations, Creating
  <1>1. ASSUME NEW r \in Requests, Http(r) PROVE StaleInv'
    <2>1. PICK o \in Operations \ {"none"}, p \in {"read", "reread", "lookup"},
               w \in MerchantData, e \in Users \cup {None} :
            /\ Arrive(r, o, p, w, e)
            /\ p = "lookup" <=> o = "deposit"
            /\ o = "deposit" => e \in Users
            /\ o # "deposit" => e = None
            /\ p = "reread" => o \in {"update", "commission"}
            /\ p = "read" => o \in {"publicKey", "callbackUrl", "create"}
      BY <1>1, HttpArrives DEF TypeOK
    <2> QED BY <2>1 DEF Arrive, ExtInv, OrderInv, StaleInv, Changed, Fields, MerchantData,
       TypeOK
  <1>2. ASSUME NEW r \in Requests, ReadForm(r) PROVE StaleInv'
    BY <1>2 DEF ReadForm, ExtInv, OrderInv, StaleInv, Changed, Fields, MerchantData, TypeOK
  <1>3. ASSUME NEW r \in Requests, ReadCreate(r) PROVE StaleInv'
    BY <1>3 DEF ReadCreate, ExtInv, OrderInv, StaleInv, Changed, Fields, MerchantData, TypeOK
  <1>4. ASSUME NEW r \in Requests, ReadAgain(r) PROVE StaleInv'
    BY <1>4 DEF ReadAgain, ExtInv, OrderInv, StaleInv, Changed, Fields, MerchantData, TypeOK
  <1>5. ASSUME NEW r \in Requests, WriteMerchant(r) PROVE StaleInv'
    BY <1>5 DEF WriteMerchant, Merged, ExtInv, OrderInv, StaleInv, Changed, Fields,
       MerchantData, TypeOK
  <1>6. ASSUME NEW r \in Requests, ChooseSigners(r) PROVE StaleInv'
    BY <1>6 DEF ChooseSigners, ExtInv, OrderInv, StaleInv, Changed, Fields, MerchantData, TypeOK
  <1>7. ASSUME NEW r \in Requests, Fund(r) PROVE StaleInv'
    BY <1>7 DEF Fund, Address, ExtInv, OrderInv, StaleInv, Changed, Fields, MerchantData, TypeOK
  <1>8. ASSUME NEW r \in Requests, Activate(r) PROVE StaleInv'
    BY <1>8 DEF Activate, Address, ExtInv, OrderInv, StaleInv, Changed, Fields, MerchantData,
       TypeOK
  <1>9. ASSUME NEW r \in Requests, Fail(r) PROVE StaleInv'
    BY <1>9 DEF Fail, Stop, Unfinished, ExtInv, OrderInv, StaleInv, Changed, Fields,
       MerchantData, TypeOK
  <1>10. ASSUME NEW r \in Requests, LandLate(r) PROVE StaleInv'
    BY <1>10 DEF LandLate, Stop, Unfinished, ExtInv, OrderInv, StaleInv, Changed, Fields,
       MerchantData, TypeOK
  <1>11. ASSUME NEW r \in Requests, Lookup(r) PROVE StaleInv'
    <2>1. CASE keys[ext[r]] # None
      <3>1. ext[r] \in Ext /\ keys[ext[r]] \in Address /\ Advance(r, keys[ext[r]])
        BY <1>11, <2>1 DEF Lookup, TypeOK
      <3> QED BY <3>1, AdvanceEffect, <1>11, <2>1 DEF Lookup, NextExt, ExtInv, OrderInv,
         StaleInv, Changed, Fields, MerchantData, TypeOK
    <2>2. CASE keys[ext[r]] = None
      BY <1>11, <2>2 DEF Lookup, ExtInv, OrderInv, StaleInv, Changed, Fields, MerchantData,
         TypeOK
    <2> QED BY <2>1, <2>2
  <1>12. ASSUME NEW r \in Requests, Put(r) PROVE StaleInv'
    <2>1. CASE keys[ext[r]] = None
      <3>1. ext[r] \in Ext /\ <<r, ext[r]>> \in Address /\ Advance(r, <<r, ext[r]>>)
        BY <1>12, <2>1 DEF Put, TypeOK, Address
      <3> QED BY <3>1, AdvanceEffect, <1>12, <2>1 DEF Put, NextExt, ExtInv, OrderInv,
         StaleInv, Changed, Fields, MerchantData, TypeOK, Address
    <2>2. CASE keys[ext[r]] # None
      BY <1>12, <2>2 DEF Put, ExtInv, OrderInv, StaleInv, Changed, Fields, MerchantData, TypeOK
    <2> QED BY <2>1, <2>2
  <1>13. ASSUME Crash PROVE StaleInv'
    BY <1>13 DEF Crash, Stop, Unfinished, ExtInv, OrderInv, StaleInv, Changed, Fields,
       MerchantData, TypeOK
  <1>14. CASE Finished BY <1>14 DEF Finished, vars, ExtInv, OrderInv, StaleInv, Changed, Fields, MerchantData
  <1> QED BY <1>1, <1>2, <1>3, <1>4, <1>5, <1>6, <1>7, <1>8,
         <1>9, <1>10, <1>11, <1>12, <1>13, <1>14 DEF Next, Handle

---------------------------------------------------------------------------
(* A deposit is refused only for another request that was first.           *)
FailedInv == \A r \in Requests :
    /\ r \in failed => pc[r] = "error"
    /\ op[r] = "deposit" /\ pc[r] = "error" => ext[r] \in Ext

(* What a step does to an attempt at a wallet, and to a refusal.           *)
LEMMA RefusedMoves ==
    ASSUME TypeOK, ExtInv, OrderInv, FailedInv, NEW r0 \in Requests, Next
    PROVE  /\ r0 \in failed => r0 \in failed' /\ ext'[r0] = ext[r0]
           /\ r0 \in failed' => pc'[r0] = "error"
           /\ pc[r0] \in {"fund", "activate", "put"} =>
                  \/ /\ ext'[r0] = ext[r0]
                     /\ pc'[r0] \in {"fund", "activate", "put"} \/ r0 \in failed'
                  \/ keys'[ext[r0]] # None
           /\ op'[r0] = "deposit" /\ pc'[r0] = "error" => ext'[r0] \in Ext
           /\ op'[r0] = "deposit" /\ pc'[r0] = "error" /\ r0 \notin failed' =>
                  /\ ext'[r0] = ext[r0]
                  /\ \/ op[r0] = "deposit" /\ pc[r0] = "error" /\ r0 \notin failed
                     \/ keys[ext[r0]] # None
                     \/ InKeyring(ext[r0])
  <1> DEFINE Q ==
           /\ r0 \in failed => r0 \in failed' /\ ext'[r0] = ext[r0]
           /\ r0 \in failed' => pc'[r0] = "error"
           /\ pc[r0] \in {"fund", "activate", "put"} =>
                  \/ /\ ext'[r0] = ext[r0]
                     /\ pc'[r0] \in {"fund", "activate", "put"} \/ r0 \in failed'
                  \/ keys'[ext[r0]] # None
           /\ op'[r0] = "deposit" /\ pc'[r0] = "error" => ext'[r0] \in Ext
           /\ op'[r0] = "deposit" /\ pc'[r0] = "error" /\ r0 \notin failed' =>
                  /\ ext'[r0] = ext[r0]
                  /\ \/ op[r0] = "deposit" /\ pc[r0] = "error" /\ r0 \notin failed
                     \/ keys[ext[r0]] # None
                     \/ InKeyring(ext[r0])
  <1> USE AccountsAssumption DEF Ext, record, chain, observations, Creating
  <1>1. ASSUME NEW r \in Requests, Http(r) PROVE Q
    <2>1. PICK o \in Operations \ {"none"}, p \in {"read", "reread", "lookup"},
               w \in MerchantData, e \in Users \cup {None} :
            /\ Arrive(r, o, p, w, e)
            /\ p = "lookup" <=> o = "deposit"
            /\ o = "deposit" => e \in Users
            /\ o # "deposit" => e = None
            /\ p = "reread" => o \in {"update", "commission"}
            /\ p = "read" => o \in {"publicKey", "callbackUrl", "create"}
      BY <1>1, HttpArrives DEF TypeOK
    <2> QED BY <2>1 DEF Arrive, FailedInv, TypeOK
  <1>2. ASSUME NEW r \in Requests, ReadForm(r) PROVE Q
    BY <1>2 DEF ReadForm, FailedInv, TypeOK
  <1>3. ASSUME NEW r \in Requests, ReadCreate(r) PROVE Q
    BY <1>3 DEF ReadCreate, FailedInv, TypeOK
  <1>4. ASSUME NEW r \in Requests, ReadAgain(r) PROVE Q
    BY <1>4 DEF ReadAgain, FailedInv, TypeOK
  <1>5. ASSUME NEW r \in Requests, WriteMerchant(r) PROVE Q
    BY <1>5 DEF WriteMerchant, Merged, FailedInv, TypeOK
  <1>6. ASSUME NEW r \in Requests, ChooseSigners(r) PROVE Q
    BY <1>6 DEF ChooseSigners, FailedInv, TypeOK
  <1>7. ASSUME NEW r \in Requests, Fund(r) PROVE Q
    BY <1>7 DEF Fund, Address, FailedInv, TypeOK
  <1>8. ASSUME NEW r \in Requests, Activate(r) PROVE Q
    BY <1>8 DEF Activate, Address, FailedInv, TypeOK
  <1>9. ASSUME NEW r \in Requests, Fail(r) PROVE Q
    BY <1>9 DEF Fail, Stop, Unfinished, FailedInv, OrderInv, Phases, TypeOK
  <1>10. ASSUME NEW r \in Requests, LandLate(r) PROVE Q
    BY <1>10 DEF LandLate, Stop, Unfinished, FailedInv, TypeOK
  <1>11. ASSUME NEW r \in Requests, Lookup(r) PROVE Q
    <2>1. CASE keys[ext[r]] # None
      <3>1. ext[r] \in Ext /\ keys[ext[r]] \in Address /\ Advance(r, keys[ext[r]])
        BY <1>11, <2>1 DEF Lookup, FailedInv, TypeOK
      <3> QED BY <3>1, AdvanceEffect, <1>11, <2>1 DEF Lookup, NextExt, FailedInv, TypeOK
    <2>2. CASE keys[ext[r]] = None
      BY <1>11, <2>2 DEF Lookup, FailedInv, TypeOK
    <2> QED BY <2>1, <2>2
  <1>12. ASSUME NEW r \in Requests, Put(r) PROVE Q
    <2>1. CASE keys[ext[r]] = None
      <3>1. ext[r] \in Ext /\ <<r, ext[r]>> \in Address /\ Advance(r, <<r, ext[r]>>)
        BY <1>12, <2>1 DEF Put, FailedInv, TypeOK, Address
      <3> QED BY <3>1, AdvanceEffect, <1>12, <2>1 DEF Put, NextExt, FailedInv, TypeOK, Address
    <2>2. CASE keys[ext[r]] # None
      BY <1>12, <2>2 DEF Put, FailedInv, TypeOK
    <2> QED BY <2>1, <2>2
  <1>13. ASSUME Crash PROVE Q
    BY <1>13 DEF Crash, Stop, Unfinished, FailedInv, OrderInv, Phases, TypeOK
  <1>14. CASE Finished
    BY <1>14 DEF Finished, vars, FailedInv
  <1> QED BY <1>1, <1>2, <1>3, <1>4, <1>5, <1>6, <1>7, <1>8,
         <1>9, <1>10, <1>11, <1>12, <1>13, <1>14 DEF Next, Handle

(* A refusal is backed by a wallet or by an attempt at one.                *)
LEMMA RefusedStep ==
    ASSUME TypeOK, ExtInv, OrderInv, FailedInv, RefusedHasWallet, Next
    PROVE  FailedInv' /\ RefusedHasWallet'
  <1>1. FailedInv'
    BY RefusedMoves, TypeStep DEF FailedInv, TypeOK
  <1>2. ASSUME NEW e \in Ext, keys[e] # None \/ Attempted(e)
        PROVE  keys'[e] # None \/ Attempted(e)'
    <2>1. CASE keys[e] # None
      BY <2>1, KeysStay
    <2>2. CASE Attempted(e)
      BY <2>2, RefusedMoves DEF Attempted
    <2> QED BY <1>2, <2>1, <2>2
  <1>3. ASSUME NEW r \in Requests, op'[r] = "deposit", pc'[r] = "error", r \notin failed'
        PROVE  keys'[ext'[r]] # None \/ (\E q \in Requests :
                   ext'[q] = ext'[r] /\ (pc'[q] \in {"fund", "activate", "put"} \/ q \in failed'))
    <2>1. ext'[r] = ext[r] /\ (keys[ext[r]] # None \/ Attempted(ext[r]))
      BY <1>3, RefusedMoves DEF RefusedHasWallet, InKeyring, Attempted
    <2>2. ext[r] \in Ext
      BY <1>1, <1>3, <2>1 DEF FailedInv
    <2>3. keys'[ext[r]] # None \/ Attempted(ext[r])'
      BY <2>1, <2>2, <1>2
    <2> QED BY <2>1, <2>3 DEF Attempted
  <1> QED BY <1>1, <1>3 DEF RefusedHasWallet, Attempted

---------------------------------------------------------------------------
(* The inductive invariant, and the theorems.                              *)
AccountsInv ==
    /\ TypeOK /\ ExtInv /\ OrderInv /\ FreshInv /\ KeyInv /\ PutInv
    /\ AnswersHold /\ FundedIsStored /\ StoredIsActivated
    /\ EntryInv /\ StaleInv /\ FailedInv /\ RefusedHasWallet

LEMMA AccountsInit == ASSUME Init PROVE AccountsInv
  <1> USE AccountsAssumption DEF Init
  <1>1. data \in MerchantData /\ data.wallets = None
    BY DEF MerchantData
  <1>2. TypeOK
    BY <1>1 DEF TypeOK, Operations, Phases, Ext
  <1>3. ExtInv /\ OrderInv /\ PutInv
    BY DEF ExtInv, OrderInv, PutInv, Creating, Ext
  <1>4. FreshInv /\ KeyInv
    BY DEF FreshInv, KeyInv, MayCreate, Ext, Address
  <1>5. AnswersHold /\ FundedIsStored /\ StoredIsActivated
    BY DEF AnswersHold, FundedIsStored, StoredIsActivated
  <1>6. EntryInv
    BY <1>1 DEF EntryInv
  <1>7. StaleInv
    BY DEF StaleInv, Creating
  <1>8. FailedInv /\ RefusedHasWallet
    BY DEF FailedInv, RefusedHasWallet
  <1> QED BY <1>2, <1>3, <1>4, <1>5, <1>6, <1>7, <1>8 DEF AccountsInv

LEMMA AccountsStep == ASSUME AccountsInv, [Next]_vars PROVE AccountsInv'
  <1>1. CASE Next
    BY <1>1, TypeStep, ExtStep, OrderStep, FreshStep, KeyStep, PutStep, AnswersStep,
       FundedStep, ActivatedStep, EntryStep, StaleStep, RefusedStep DEF AccountsInv
  <1>2. CASE UNCHANGED vars
    BY <1>2 DEF AccountsInv, vars, TypeOK, ExtInv, OrderInv, FreshInv, MayCreate, KeyInv,
           PutInv, AnswersHold, FundedIsStored, StoredIsActivated, EntryInv, Backed,
           Incomplete, StaleInv, FailedInv, RefusedHasWallet, Attempted
  <1> QED BY <1>1, <1>2

THEOREM Invariant == Spec => []AccountsInv
  BY AccountsInit, AccountsStep, PTL DEF Spec

(* Every variable keeps its type, and a request that handles a wallet      *)
(* knows its external id.                                                  *)
THEOREM TypeCorrect == Spec => []TypeOK
  <1>1. AccountsInv => TypeOK BY DEF AccountsInv
  <1> QED BY Invariant, <1>1, PTL

(* The address a user was told is the one in the table, for any number of  *)
(* concurrent requests (deposit.go:14-51, keys.go:42-56).                  *)
THEOREM AnswersCorrect == Spec => []AnswersHold
  <1>1. AccountsInv => AnswersHold BY DEF AccountsInv
  <1> QED BY Invariant, <1>1, PTL

(* Tokens sent to a new account are lost with its keys only when the       *)
(* request ends in an error (createwallet.go:127-133).                     *)
THEOREM FundedCorrect == Spec => []FundedIsStored
  <1>1. AccountsInv => FundedIsStored BY DEF AccountsInv
  <1> QED BY Invariant, <1>1, PTL

(* A stored multisignature wallet has made its first transaction           *)
(* (createwallet.go:135-260).                                              *)
THEOREM ActivatedCorrect == Spec => []StoredIsActivated
  <1>1. AccountsInv => StoredIsActivated BY DEF AccountsInv
  <1> QED BY Invariant, <1>1, PTL

(* An entry has its wallets, or a commission request did not finish        *)
(* (service.go:226-248, merchants.go:101-177).                             *)
THEOREM EntryCorrect == Spec => []EntryHasWallets
  <1>1. AccountsInv => EntryHasWallets
    BY DEF AccountsInv, EntryInv, Backed, EntryHasWallets
  <1> QED BY Invariant, <1>1, PTL

(* No two requests for the wallet of one user refuse each other: a refused *)
(* one leaves a wallet or an attempt at one (deposit.go:14-51).            *)
THEOREM RefusedCorrect == Spec => []RefusedHasWallet
  <1>1. AccountsInv => RefusedHasWallet BY DEF AccountsInv
  <1> QED BY Invariant, <1>1, PTL

(* A write loses nothing but what another request changed since it read    *)
(* (form.go:38-97, merchant.go:56-115).                                    *)
THEOREM LossCorrect == Spec => NoOtherLoss
  <1>1. ASSUME AccountsInv, [Next]_vars PROVE [LosesOnlyOverlapping]_vars
    <2> SUFFICES ASSUME Next, NEW r \in Requests, pc[r] = "write",
                        pc'[r] \notin {"write", "error"}
                 PROVE  Changed(data, data') \subseteq About(op[r]) \cup stale[r]
      BY <1>1 DEF LosesOnlyOverlapping
    <2>1. CASE data' = data
      BY <2>1 DEF Changed
    <2>2. CASE data' # data
      <3>1. PICK q \in Requests : WriteMerchant(q)
        BY <2>2 DEF Next, Http, Handle, PublicKeySaver, UpdateCallbackUrl, UpdateMerchant,
               UpdateMerchantCommission, CreateWallet, Deposit, Arrive, ReadForm, ReadCreate,
               ReadAgain, Lookup, ChooseSigners, Fund, Activate, Put, Fail,
               LandLate, Crash, Finished, vars, record
      <3>2. q = r
        BY <1>1, <3>1 DEF WriteMerchant, AccountsInv, TypeOK
      <3>3. op[r] \in {"publicKey", "callbackUrl", "update", "commission", "create"}
        BY <1>1 DEF AccountsInv, OrderInv, TypeOK, Operations
      <3>4. data' = Merged(r)
        BY <3>1, <3>2 DEF WriteMerchant
      <3> QED BY <1>1, <3>3, <3>4 DEF AccountsInv, StaleInv, TypeOK, MerchantData, Merged,
                   Changed, Fields, About
    <2> QED BY <2>1, <2>2
  <1> QED BY Invariant, <1>1, PTL DEF Spec, NoOtherLoss

---------------------------------------------------------------------------
(* The refinement                                                          *)

(* A first transaction is due for an address with gas, and only once.      *)
SentInv == /\ activated \subseteq funded
           /\ \A r \in Requests :
                  pc[r] = "activate" => <<r, ext[r]>> \in funded \ activated

WalletInv == AccountsInv /\ SentInv

(* An address that may still be created is not stored for any id.          *)
LEMMA FreshUnstored ==
    ASSUME AccountsInv, NEW r \in Requests, pc[r] \in {"fund", "activate", "put"}
    PROVE  /\ ext[r] \in Ext /\ <<r, ext[r]>> \in Address
           /\ Contract!Unstored(<<r, ext[r]>>)
           /\ pc[r] = "fund" => <<r, ext[r]>> \notin funded
  <1>1. ext[r] \in Ext /\ MayCreate(r, ext[r])
    BY DEF AccountsInv, TypeOK, MayCreate, Creating
  <1>2. keys[ext[r]] # <<r, ext[r]>> /\ (<<r, ext[r]>> \in funded => pc[r] # "fund")
    BY <1>1 DEF AccountsInv, FreshInv
  <1>3. ASSUME NEW e \in Ext, keys[e] = <<r, ext[r]>> PROVE FALSE
    <2>1. e = ext[r]
      BY <1>3, AccountsAssumption, <1>1 DEF AccountsInv, KeyInv
    <2> QED BY <1>2, <1>3, <2>1
  <1> QED BY <1>1, <1>2, <1>3 DEF Contract!Unstored, Address

(* Every other step leaves the chain and the first transactions alone.     *)
Rests == /\ UNCHANGED chain
         /\ \A q \in Requests : pc'[q] = "activate" => pc[q] = "activate" /\ ext'[q] = ext[q]

LEMMA RestStep ==
    ASSUME TypeOK, Next
    PROVE  Rests \/ \E r \in Requests : Fund(r) \/ Activate(r) \/ LandLate(r)
  <1> USE DEF Rests, TypeOK
  <1>1. ASSUME NEW r \in Requests, Http(r) PROVE Rests
    <2>1. PICK o \in Operations \ {"none"}, p \in {"read", "reread", "lookup"},
               w \in MerchantData, e \in Users \cup {None} : Arrive(r, o, p, w, e)
      BY <1>1, HttpArrives
    <2> QED BY <2>1 DEF Arrive
  <1>2. ASSUME NEW r \in Requests, ReadForm(r) \/ ReadCreate(r) \/ ReadAgain(r)
        PROVE  Rests
    BY <1>2 DEF ReadForm, ReadCreate, ReadAgain
  <1>3. ASSUME NEW r \in Requests, WriteMerchant(r) \/ ChooseSigners(r) PROVE Rests
    BY <1>3 DEF WriteMerchant, ChooseSigners
  <1>4. ASSUME NEW r \in Requests, Lookup(r) PROVE Rests
    BY <1>4 DEF Lookup, Advance
  <1>5. ASSUME NEW r \in Requests, Put(r) PROVE Rests
    BY <1>5 DEF Put, Advance
  <1>6. ASSUME NEW r \in Requests, Fail(r) PROVE Rests
    BY <1>6 DEF Fail, Stop
  <1>7. CASE Crash
    BY <1>7 DEF Crash, Stop
  <1>8. CASE Finished
    BY <1>8 DEF Finished, vars, chain
  <1> QED BY <1>1, <1>2, <1>3, <1>4, <1>5, <1>6, <1>7, <1>8 DEF Next, Handle

LEMMA SentStep ==
    ASSUME WalletInv, [Next]_vars
    PROVE  SentInv'
  <1> USE DEF WalletInv, SentInv
  <1>0. TypeOK
    BY DEF AccountsInv
  <1>1. CASE Rests
    BY <1>1 DEF Rests, chain
  <1>2. ASSUME NEW r \in Requests, Fund(r) PROVE SentInv'
    <2>1. <<r, ext[r]>> \notin funded
      BY <1>2, FreshUnstored DEF Fund
    <2>2. /\ funded' = funded \cup {<<r, ext[r]>>} /\ activated' = activated /\ ext' = ext
          /\ pc' = [pc EXCEPT ![r] = "activate"]
      BY <1>2 DEF Fund
    <2> QED BY <1>0, <2>1, <2>2 DEF TypeOK
  <1>3. ASSUME NEW r \in Requests, Activate(r) \/ LandLate(r) PROVE SentInv'
    <2>1. /\ ext' = ext /\ pc'[r] # "activate" /\ \A q \in Requests \ {r} : pc'[q] = pc[q]
          /\ \/ funded' = funded \cup {<<r, ext[r]>>} /\ activated' = activated
             \/ /\ pc[r] = "activate"
                /\ activated' = activated \cup {<<r, ext[r]>>} /\ funded' = funded
      BY <1>0, <1>3 DEF Activate, LandLate, Stop, TypeOK
    <2> QED BY <2>1
  <1>4. CASE UNCHANGED vars
    BY <1>4 DEF vars
  <1> QED BY <1>0, <1>1, <1>2, <1>3, <1>4, RestStep

LEMMA WalletHolds == Spec => []WalletInv
  <1>1. Init => SentInv
    BY DEF Init, SentInv
  <1>2. AccountsInv /\ SentInv /\ [Next]_vars => SentInv'
    BY SentStep DEF WalletInv
  <1> QED BY <1>1, <1>2, Invariant, PTL DEF Spec, WalletInv

(* A record and an address that was given go together.                     *)
LEMMA PutRefines ==
    ASSUME WalletInv, NEW r \in Requests, Put(r)
    PROVE  [Contract!Next]_(Contract!contractVars)
  <1> DEFINE a == <<r, ext[r]>>
  <1>1. ext[r] \in Ext /\ a \in Address /\ Contract!Unstored(a)
    BY FreshUnstored DEF WalletInv, Put
  <1>2. CASE keys[ext[r]] = None
    <2>1. keys' = [keys EXCEPT ![ext[r]] = a] /\ UNCHANGED chain
      BY <1>2 DEF Put
    <2>2. answered' \in {answered, answered \cup {<<ext[r], a>>}}
      BY <1>2 DEF Put, Advance
    <2>3. a \in funded => a \in activated
      BY DEF WalletInv, AccountsInv, PutInv, Put
    <2>4. Contract!Store(ext[r], a)
      BY <1>1, <1>2, <2>1, <2>2, <2>3 DEF Contract!Store, chain
    <2> QED BY <1>1, <2>4 DEF Contract!Next
  <1>3. CASE keys[ext[r]] # None
    BY <1>3 DEF Put, Contract!contractVars, chain
  <1> QED BY <1>2, <1>3

LEMMA LookupRefines ==
    ASSUME WalletInv, NEW r \in Requests, Lookup(r)
    PROVE  [Contract!Next]_(Contract!contractVars)
  <1>1. ext[r] \in Ext
    BY DEF WalletInv, AccountsInv, TypeOK, Lookup
  <1>2. UNCHANGED <<keys, funded, activated>>
    BY DEF Lookup, record, chain
  <1>3. CASE keys[ext[r]] # None /\ answered' = answered \cup {<<ext[r], keys[ext[r]]>>}
    <2>1. Contract!Give(ext[r])
      BY <1>2, <1>3 DEF Contract!Give
    <2> QED BY <1>1, <2>1 DEF Contract!Next
  <1>4. CASE answered' = answered
    BY <1>2, <1>4 DEF Contract!contractVars
  <1> QED BY <1>3, <1>4 DEF Lookup, Advance

(* Tokens and first transactions go to addresses that are not stored yet.  *)
LEMMA ChainRefines ==
    ASSUME WalletInv, NEW r \in Requests, Fund(r) \/ Activate(r) \/ LandLate(r)
    PROVE  Contract!Next
  <1> DEFINE a == <<r, ext[r]>>
  <1>1. pc[r] \in {"fund", "activate"} /\ UNCHANGED <<keys, answered>>
    BY DEF Fund, Activate, LandLate, record, observations
  <1>2. a \in Address /\ Contract!Unstored(a) /\ (pc[r] = "fund" => a \notin funded)
    BY <1>1, FreshUnstored DEF WalletInv
  <1>3. pc[r] = "activate" => a \in funded \ activated
    BY DEF WalletInv, SentInv
  <1>4. \/ pc[r] = "fund" /\ funded' = funded \cup {a} /\ activated' = activated
        \/ pc[r] = "activate" /\ activated' = activated \cup {a} /\ funded' = funded
    BY DEF Fund, Activate, LandLate
  <1>5. Contract!Pay(a) \/ Contract!Activate(a)
    BY <1>1, <1>2, <1>3, <1>4 DEF Contract!Pay, Contract!Activate
  <1> QED BY <1>2, <1>5 DEF Contract!Next

LEMMA ContractStep ==
    ASSUME WalletInv, [Next]_vars
    PROVE  [Contract!Next]_(Contract!contractVars)
  <1> USE DEF Contract!contractVars, record, chain, observations
  <1>1. CASE \E r \in Requests : Put(r) \/ Lookup(r)
    BY <1>1, PutRefines, LookupRefines
  <1>2. CASE \E r \in Requests : Fund(r) \/ Activate(r) \/ LandLate(r)
    BY <1>2, ChainRefines
  <1>3. ASSUME NEW r \in Requests, Http(r) PROVE UNCHANGED Contract!contractVars
    BY <1>3 DEF Http, PublicKeySaver, UpdateCallbackUrl, UpdateMerchant,
                UpdateMerchantCommission, CreateWallet, Deposit, Arrive
  <1>4. ASSUME NEW r \in Requests,
               \/ ReadForm(r) \/ ReadCreate(r) \/ ReadAgain(r) \/ WriteMerchant(r)
               \/ ChooseSigners(r) \/ Fail(r)
        PROVE  UNCHANGED Contract!contractVars
    BY <1>4 DEF ReadForm, ReadCreate, ReadAgain, WriteMerchant, ChooseSigners, Fail
  <1>5. CASE Crash \/ Finished \/ UNCHANGED vars
    BY <1>5 DEF Crash, Finished, vars
  <1> QED BY <1>1, <1>2, <1>3, <1>4, <1>5 DEF Next, Handle

(* The wallets keep what WalletContract promises about them, for any       *)
(* number of requests for one id at once (createwallet.go:89-133,          *)
(* deposit.go:14-51, keys.go:42-56).                                       *)
THEOREM Refinement == Spec => ImplementsContract
  <1>1. Init => Contract!Init
    BY DEF Init, Contract!Init
  <1>2. WalletInv /\ [Next]_vars => [Contract!Next]_(Contract!contractVars)
    BY ContractStep
  <1> QED BY <1>1, <1>2, WalletHolds, PTL DEF Spec, ImplementsContract, Contract!Spec

=============================================================================
