--------------------------- MODULE AuthorizedProofs ---------------------------
(* Type correctness of Authorized and the verdicts of the directive, for any  *)
(* requests, tenants, caches and changes on the servers.                      *)
EXTENDS Authorized, TLAPS, SequenceTheorems

-----------------------------------------------------------------------------
(* The operators on caches.                                                  *)

Entries(c) == {c[i] : i \in DOMAIN c}

\* A key that is in a cache has a place there, and an entry.
LEMMA PlaceOfKey ==
  ASSUME NEW K, NEW V, NEW c \in Seq(K \X V), NEW k \in Keys(c)
  PROVE  /\ Place(c, k) \in 1..Len(c)
         /\ <<k, Val(c, k)>> \in Entries(c)
<1>1. PICK i \in DOMAIN c : c[i][1] = k
  BY DEF Keys
<1>2. Place(c, k) \in DOMAIN c /\ c[Place(c, k)][1] = k
  BY <1>1 DEF Place
<1>3. c[Place(c, k)] \in K \X V
  BY <1>2
<1>4. c[Place(c, k)] = <<k, Val(c, k)>>
  BY <1>2, <1>3 DEF Val
<1> QED
  BY <1>2, <1>4 DEF Entries

\* What is left is what was there, and only one entry goes.
LEMMA RemovedFromCache ==
  ASSUME NEW S, NEW c \in Seq(S), NEW i \in 1..Len(c)
  PROVE  /\ RemoveAt(c, i) \in Seq(S)
         /\ Len(RemoveAt(c, i)) = Len(c) - 1
         /\ \A j \in 1..Len(c) - 1 :
              RemoveAt(c, i)[j] = IF j < i THEN c[j] ELSE c[j + 1]
<1> DEFINE front == SubSeq(c, 1, i - 1)
           back_ == SubSeq(c, i + 1, Len(c))
<1>1. /\ front \in Seq(S) /\ Len(front) = i - 1
      /\ \A j \in 1..(i - 1) : front[j] = c[j]
  BY SubSeqProperties
<1>2. /\ back_ \in Seq(S) /\ Len(back_) = Len(c) - i
      /\ \A j \in 1..(Len(c) - i) : back_[j] = c[i + j]
  BY SubSeqProperties
<1>3. RemoveAt(c, i) = front \o back_
  BY DEF RemoveAt
<1> HIDE DEF front, back_
<1>4. /\ front \o back_ \in Seq(S) /\ Len(front \o back_) = Len(c) - 1
      /\ \A j \in 1..Len(c) - 1 :
           (front \o back_)[j] = IF j <= i - 1 THEN front[j] ELSE back_[j - (i - 1)]
  <2>1. /\ front \o back_ \in Seq(S)
        /\ Len(front \o back_) = Len(front) + Len(back_)
        /\ \A j \in 1..Len(front) + Len(back_) :
             (front \o back_)[j] = IF j <= Len(front) THEN front[j]
                                                     ELSE back_[j - Len(front)]
    BY <1>1, <1>2, ConcatProperties, Zenon
  <2>2. Len(front) + Len(back_) = Len(c) - 1
    BY <1>1, <1>2, LenProperties
  <2> QED
    BY <1>1, <1>2, <2>1, <2>2
<1> QED
  BY <1>1, <1>2, <1>3, <1>4

\* So it is when the entry of a key goes; the key goes with it.
LEMMA WithoutFacts ==
  ASSUME NEW K, NEW V, NEW c \in Seq(K \X V), NEW k
  PROVE  /\ Without(c, k) \in Seq(K \X V)
         /\ Len(Without(c, k)) = IF k \in Keys(c) THEN Len(c) - 1 ELSE Len(c)
         /\ Entries(Without(c, k)) \subseteq Entries(c)
         /\ Keys(c) \ {k} \subseteq Keys(Without(c, k))
<1>1. CASE k \notin Keys(c)
  BY <1>1 DEF Without
<1>2. CASE k \in Keys(c)
  <2> DEFINE i == Place(c, k)
             r == RemoveAt(c, i)
  <2>0. i \in 1..Len(c)
    BY <1>2, PlaceOfKey
  <2>1. i \in 1..Len(c) /\ i \in DOMAIN c
    BY <2>0, LenProperties
  <2>2. c[i][1] = k
    BY <1>2 DEF Place, Keys
  <2>3. /\ r \in Seq(K \X V) /\ Len(r) = Len(c) - 1
        /\ \A j \in 1..Len(c) - 1 : r[j] = IF j < i THEN c[j] ELSE c[j + 1]
    BY <2>1, RemovedFromCache
  <2>4. Without(c, k) = r
    BY <1>2 DEF Without
  <2> HIDE DEF r, i
  <2>5. DOMAIN r = 1..Len(c) - 1 /\ DOMAIN c = 1..Len(c) /\ Len(c) \in Nat
    BY <2>3
  <2>6. Entries(r) \subseteq Entries(c)
    <3> SUFFICES ASSUME NEW j \in 1..Len(c) - 1 PROVE r[j] \in Entries(c)
      BY <2>5 DEF Entries
    <3>1. j \in DOMAIN c /\ j + 1 \in DOMAIN c
      BY <2>5
    <3> QED
      BY <2>3, <3>1 DEF Entries
  <2>7. Keys(c) \ {k} \subseteq Keys(r)
    <3> SUFFICES ASSUME NEW m \in DOMAIN c, c[m][1] # k PROVE c[m][1] \in Keys(r)
      BY DEF Keys
    <3>1. m # i
      BY <2>2
    <3>2. CASE m < i
      <4>1. m \in DOMAIN r /\ r[m] = c[m]
        BY <2>1, <2>3, <2>5, <3>2
      <4> QED
        BY <4>1 DEF Keys
    <3>3. CASE m > i
      <4>1. m - 1 \in DOMAIN r /\ r[m - 1] = c[m]
        BY <2>1, <2>3, <2>5, <3>3
      <4> QED
        BY <4>1 DEF Keys
    <3> QED
      BY <2>1, <2>5, <3>1, <3>2, <3>3
  <2> QED
    BY <1>2, <2>3, <2>4, <2>6, <2>7
<1> QED
  BY <1>1, <1>2

\* An entry in front of the others.
LEMMA InFront ==
  ASSUME NEW S, NEW c \in Seq(S), NEW e \in S
  PROVE  /\ <<e>> \o c \in Seq(S)
         /\ Len(<<e>> \o c) = Len(c) + 1
         /\ Entries(<<e>> \o c) = {e} \cup Entries(c)
         /\ Keys(<<e>> \o c) = {e[1]} \cup Keys(c)
<1> DEFINE all == <<e>> \o c
<1>1. <<e>> \in Seq(S) /\ Len(<<e>>) = 1 /\ <<e>>[1] = e
  OBVIOUS
<1>2. /\ all \in Seq(S) /\ Len(all) = Len(c) + 1
      /\ \A i \in 1..Len(c) + 1 : all[i] = IF i <= 1 THEN <<e>>[i] ELSE c[i - 1]
  BY <1>1, ConcatProperties
<1> HIDE DEF all
<1>3. /\ DOMAIN all = 1..Len(c) + 1 /\ DOMAIN c = 1..Len(c) /\ Len(c) \in Nat
  BY <1>2
<1>4. all[1] = e /\ 1 \in DOMAIN all
  BY <1>1, <1>2, <1>3
<1>5. \A i \in DOMAIN c : i + 1 \in DOMAIN all /\ all[i + 1] = c[i]
  BY <1>2, <1>3
<1>6. \A i \in DOMAIN all : i = 1 \/ (i - 1 \in DOMAIN c /\ all[i] = c[i - 1])
  BY <1>2, <1>3
<1>7. Entries(all) = {e} \cup Entries(c)
  BY <1>4, <1>5, <1>6 DEF Entries
<1>8. Keys(all) = {e[1]} \cup Keys(c)
  BY <1>4, <1>5, <1>6 DEF Keys
<1> QED
  BY <1>2, <1>7, <1>8 DEF all

\* Reading an entry moves it, and that is all.
LEMMA UsedFacts ==
  ASSUME NEW K, NEW V, NEW c \in Seq(K \X V), NEW k \in Keys(c)
  PROVE  /\ Used(c, k) \in Seq(K \X V) /\ Len(Used(c, k)) <= Len(c)
         /\ Entries(Used(c, k)) \subseteq Entries(c)
         /\ Keys(c) \subseteq Keys(Used(c, k))
<1> DEFINE e == <<k, Val(c, k)>>
           w == Without(c, k)
<1>1. e \in Entries(c) /\ e \in K \X V /\ e[1] = k
  <2>1. e \in Entries(c)
    BY PlaceOfKey
  <2>2. e \in K \X V
    BY <2>1 DEF Entries
  <2> QED
    BY <2>1, <2>2
<1>2. /\ w \in Seq(K \X V) /\ Len(w) = Len(c) - 1
      /\ Entries(w) \subseteq Entries(c) /\ Keys(c) \ {k} \subseteq Keys(w)
  BY WithoutFacts
<1>3. Used(c, k) = <<e>> \o w
  BY DEF Used
<1> HIDE DEF e, w
<1>4. /\ <<e>> \o w \in Seq(K \X V) /\ Len(<<e>> \o w) = Len(w) + 1
      /\ Entries(<<e>> \o w) = {e} \cup Entries(w)
      /\ Keys(<<e>> \o w) = {e[1]} \cup Keys(w)
  BY <1>1, <1>2, InFront
<1> QED
  BY <1>1, <1>2, <1>3, <1>4

\* Adding an entry brings nothing else in, and keeps to the size.
LEMMA AddedFacts ==
  ASSUME NEW K, NEW V, NEW c \in Seq(K \X V), NEW k \in K, NEW v \in V,
         NEW n \in Nat \ {0}, Len(c) <= n
  PROVE  /\ Added(c, k, v, n) \in Seq(K \X V) /\ Len(Added(c, k, v, n)) <= n
         /\ Entries(Added(c, k, v, n)) \subseteq Entries(c) \cup {<<k, v>>}
<1> DEFINE e == <<k, v>>
           w == Without(c, k)
           all == <<e>> \o w
<1>1. e \in K \X V
  OBVIOUS
<1>2. w \in Seq(K \X V) /\ Entries(w) \subseteq Entries(c)
  BY WithoutFacts
<1>3. Added(c, k, v, n) = IF Len(all) > n THEN SubSeq(all, 1, n) ELSE all
  BY DEF Added
<1> HIDE DEF e, w
<1>4. all \in Seq(K \X V) /\ Entries(all) \subseteq Entries(c) \cup {e}
  BY <1>1, <1>2, InFront
<1> HIDE DEF all
<1>5. CASE Len(all) > n
  <2>1. /\ SubSeq(all, 1, n) \in Seq(K \X V) /\ Len(SubSeq(all, 1, n)) = n
        /\ \A j \in 1..n : SubSeq(all, 1, n)[j] = all[j]
    BY <1>4, <1>5, SubSeqProperties
  <2>2. DOMAIN SubSeq(all, 1, n) = 1..n /\ \A j \in 1..n : j \in DOMAIN all
    BY <1>4, <1>5, <2>1
  <2>3. Entries(SubSeq(all, 1, n)) \subseteq Entries(all)
    BY <2>1, <2>2 DEF Entries
  <2> QED
    BY <1>3, <1>4, <1>5, <2>1, <2>3 DEF e
<1>6. CASE ~(Len(all) > n)
  BY <1>3, <1>4, <1>6 DEF e
<1> QED
  BY <1>5, <1>6

-----------------------------------------------------------------------------
(* What a request holds on its way to a verdict.                             *)

\* Where a call looks ids up.
LookingUp == {"storeGet", "list", "storeAdd", "modelGet", "readModels", "modelAdd"}

\* The caches keep to their sizes; a store id is under its tenant's key, and a
\* tenant under a key that the IAM service has named it for.
StoreCacheOK ==
  /\ cache \in Seq(CacheKeys \X (StoreIds \cup ModelIds)) /\ Len(cache) <= CacheSize
  /\ old \subseteq Keys(cache)
  /\ \A e \in Entries(cache) :
       IF e[1][1] = "tenant-" THEN e[2] \in StoreIds /\ e[2].tenant = e[1][2]
                              ELSE e[2] \in ModelIds
TenantCacheOK ==
  /\ tenantCache \in Seq(TokenKeys \X Tenants) /\ Len(tenantCache) <= TenantCacheSize
  /\ \A e \in Entries(tenantCache) : e[2] \in mapped[e[1]]

\* What the IAM service says now it has said.
IamOK == \A k \in TokenKeys : iam[k] # None => iam[k] \in mapped[k]

\* What the store s would answer about p's sender now, p has heard of.
Known(p, s) ==
  /\ s.tenant = tenant[p]
  /\ IF <<s, Sender(p)>> \in grants THEN <<tenant[p], TRUE>> \in heard[p]
                                   ELSE <<tenant[p], FALSE>> \in heard[p]

\* Where the tenant of a call comes from.
TenantOK(p) ==
  /\ pc[p] \in {"tenantGet", "readTenant", "tenantAdd"} => TokenKey(p) # None
  /\ pc[p] \in Resting \cup {"tenantGet", "readTenant"} => tenant[p] = None
  /\ pc[p] = "tenantAdd" => tenant[p] \in mapped[TokenKey(p)]
  /\ (pc[p] = "directive" /\ tenant[p] # None) =>
       TokenKey(p) # None /\ tenant[p] \in mapped[TokenKey(p)]
  /\ pc[p] \in LookingUp \cup {"check"} => tenant[p] \in RightfulTenants(p)

\* The store ids of a call are of its tenant, and known.
IdsOK(p) ==
  /\ pc[p] = "storeAdd" => Known(p, found[p])
  /\ (\/ pc[p] \in {"modelGet", "readModels", "modelAdd", "check"}
      \/ pc[p] \in {"storeGet", "list", "storeAdd"} /\ back[p] = "readModels")
       => Known(p, sid[p])

\* The history is up to date, and a verdict is one of it.
HeardOK(p) ==
  /\ pc[p] \notin Resting => HeardNow(p) \subseteq heard[p]
  /\ (enabled /\ pc[p] = "resolved") =>
       \E t \in RightfulTenants(p) : <<t, TRUE>> \in heard[p]
  /\ pc[p] = "refused" => \E t \in RightfulTenants(p) : <<t, FALSE>> \in heard[p]

\* All of it, of every call.
CallOK == \A p \in Requests : TenantOK(p) /\ IdsOK(p) /\ HeardOK(p)
\* The inductive invariant.
AuthInv == TypeOK /\ StoreCacheOK /\ TenantCacheOK /\ IamOK /\ CallOK

\* What the requests say is fixed, and what the IAM service has named only grows.
LEMMA JobTypes ==
  ASSUME TypeOK, NEW p \in Requests
  PROVE  /\ TokenKey(p) # None => TokenKey(p) \in TokenKeys
         /\ RightfulTenants(p) \subseteq Tenants
         /\ User(p) # None => User(p) = Sender(p)
<1>1. job[p] \in RequestRecords
  BY DEF TypeOK
<1>2. WebToken(p) \in Tokens \cup {NoToken}
  BY <1>1 DEF WebToken, RequestRecords
<1>3. TokenKey(p) # None => TokenKey(p) \in TokenKeys
  BY <1>2 DEF TokenKey, Tokens, NoToken
<1>4. RightfulTenants(p) \subseteq Tenants
  BY <1>3 DEF RightfulTenants, TypeOK, RetrieverTypeOK
<1>5. ASSUME User(p) # None PROVE User(p) = Sender(p)
  <2>1. CASE ~HasAuthHeader(p)
    BY <2>1 DEF User, Sender, HasAuthHeader, Spiffe
  <2>2. CASE HasAuthHeader(p)
    <3>1. User(p) = WebToken(p).subject /\ WebToken(p) # NoToken
      BY <1>5, <2>2 DEF User, NoToken
    <3>2. WebToken(p) = job[p].token /\ WebToken(p) \in Tokens
      BY <1>2, <3>1 DEF WebToken
    <3> QED
      BY <2>2, <3>1, <3>2 DEF Sender, HasAuthHeader
  <2> QED
    BY <2>1, <2>2
<1> QED
  BY <1>3, <1>4, <1>5

\* A request does not change, and a tenant the IAM service has named stays named.
LEMMA RequestsFixed ==
  ASSUME TypeOK, [Next]_vars
  PROVE  /\ job' = job /\ enabled' = enabled
         /\ \A k \in TokenKeys : mapped[k] \subseteq mapped'[k]
<1> USE DEF retrieverVars, iamVars
<1>1. ASSUME NEW p \in Requests, Step(p)
      PROVE  job' = job /\ enabled' = enabled /\ mapped' = mapped
  <2>1. CASE LookUp(p) \/ Start(p) \/ Pass(p) \/ Refuse(p) \/ Enter(p)
    BY <1>1, <2>1 DEF Step, Start, Pass, Refuse, Enter, LookUp, StoreCached, StoreNotCached,
       ListStores, StoreAdd, ModelCached, ModelNotCached, ReadModels, ModelAdd,
       RetrieveTenant, TenantCached, TenantNotCached, ReadTenant, TenantAdd, NoUser, Check, Fault
  <2>2. CASE RetrieveTenant(p, TokenKey(p)) /\ UNCHANGED <<enabled, grants, job>>
    BY <2>2 DEF RetrieveTenant, TenantCached, TenantNotCached, ReadTenant, TenantAdd
  <2>3. CASE NoUser(p) \/ Check(p) \/ Fault(p)
    BY <2>3 DEF NoUser, Check, Fault
  <2> QED
    BY <1>1, <2>1, <2>2, <2>3 DEF Step
<1>2. CASE World
  <2>1. CASE \E k \in CacheKeys : Ages(k) \/ Expires(k)
    BY <2>1 DEF Ages, Expires
  <2>2. CASE ServerChanges /\ UNCHANGED <<retrieverVars, enabled, grants, job>>
    BY <2>2
  <2>3. CASE IamChanges /\ UNCHANGED <<enabled, grants, job>>
    BY <2>3 DEF IamChanges, TypeOK, RetrieverTypeOK
  <2>4. CASE Grant
    BY <2>4 DEF Grant
  <2> QED
    BY <1>2, <2>1, <2>2, <2>3, <2>4 DEF World
<1>3. CASE UNCHANGED vars
  BY <1>3 DEF vars, callVars
<1> QED
  BY <1>1, <1>2, <1>3 DEF Next

\* So whom a request speaks for is fixed, and the tenants it may be served in
\* only get more.
LEMMA RightfulGrows ==
  ASSUME TypeOK, [Next]_vars, NEW p \in Requests
  PROVE  /\ TokenKey(p)' = TokenKey(p) /\ Sender(p)' = Sender(p)
         /\ RightfulTenants(p) \subseteq RightfulTenants(p)'
<1>1. /\ job' = job /\ \A k \in TokenKeys : mapped[k] \subseteq mapped'[k]
  BY RequestsFixed
<1>2. TokenKey(p)' = TokenKey(p) /\ Sender(p)' = Sender(p)
  BY <1>1 DEF TokenKey, WebToken, Sender
<1> QED
  BY <1>1, <1>2, JobTypes DEF RightfulTenants, Spiffe

\* Only the answers of a tenant's present store change.
LEMMA GrantStep ==
  ASSUME TypeOK, [Next]_vars, NEW s \in StoreIds, NEW u, s # CurrentStore(s.tenant)'
  PROVE  <<s, u>> \in grants' <=> <<s, u>> \in grants
<1>1. CASE Grant
  <2>1. PICK t \in Tenants, v \in Users :
          LET held == {CurrentStore(t)} \X {v}
          IN  grants' = IF held \subseteq grants THEN grants \ held ELSE grants \cup held
    BY <1>1 DEF Grant
  <2>2. s # CurrentStore(t)
    <3>1. store' = store
      BY <1>1 DEF Grant, serverIds
    <3>2. CurrentStore(t).tenant = t
      BY DEF CurrentStore, Store
    <3> QED
      BY <3>1, <3>2 DEF CurrentStore
  <2> QED
    BY <2>1, <2>2
<1>2. CASE ~Grant
  <2> USE DEF retrieverVars, iamVars
  <2>1. ASSUME NEW p \in Requests, Step(p) PROVE grants' = grants
    BY <2>1 DEF Step, Start, Pass, Refuse, Enter, NoUser, Check, Fault
  <2>2. World => grants' = grants
    BY <1>2 DEF World, Ages, Expires
  <2>3. UNCHANGED vars => grants' = grants
    BY DEF vars, callVars
  <2> QED
    BY <2>1, <2>2, <2>3 DEF Next
<1> QED
  BY <1>1, <1>2

\* The history of a call under way is brought up to date by every step.
LEMMA HeardUpdated ==
  ASSUME TypeOK, CallOK, [Next]_vars, NEW p \in Requests
  PROVE  /\ pc'[p] \notin Resting => HeardNow(p)' \subseteq heard'[p]
         /\ pc[p] \notin Resting => /\ heard[p] \subseteq heard'[p]
                                    /\ HeardNow(p)' \subseteq heard'[p]
         /\ pc[p] \in Resting /\ pc'[p] \in Resting => heard'[p] = heard[p]
<1>1. CASE Track
  <2>1. heard'[p] = IF pc[p] \in Resting
                    THEN IF pc'[p] \in Resting THEN heard[p] ELSE HeardNow(p)'
                    ELSE heard[p] \cup HeardNow(p)'
    BY <1>1 DEF Track
  <2> QED
    BY <2>1
<1>2. CASE UNCHANGED vars
  <2>1. HeardNow(p)' = HeardNow(p)
    BY <1>2 DEF vars, callVars, storeVars, serverIds, cacheVars, retrieverVars, iamVars,
       HeardNow, RightfulTenants, Spiffe, TokenKey, WebToken, Sender, Settled, CurrentStore
  <2>2. heard' = heard /\ pc' = pc
    BY <1>2 DEF vars, callVars, storeVars
  <2> QED
    BY <2>1, <2>2 DEF CallOK, HeardOK
<1> QED
  BY <1>1, <1>2 DEF Next

\* What a call knows of a store it goes on knowing.
LEMMA KnownKept ==
  ASSUME TypeOK, CallOK, [Next]_vars, NEW p \in Requests, pc[p] \notin Resting,
         NEW s \in StoreIds, Known(p, s),
         NEW t \in RightfulTenants(p), t = tenant[p]
  PROVE  IF <<s, Sender(p)>> \in grants' THEN <<t, TRUE>> \in heard'[p]
                                        ELSE <<t, FALSE>> \in heard'[p]
<1>1. heard[p] \subseteq heard'[p] /\ HeardNow(p)' \subseteq heard'[p]
  BY HeardUpdated
<1>2. CASE s # CurrentStore(t)'
  <2>1. s.tenant = t
    BY DEF Known
  <2>2. <<s, Sender(p)>> \in grants' <=> <<s, Sender(p)>> \in grants
    BY <1>2, <2>1, GrantStep
  <2> QED
    BY <1>1, <2>2 DEF Known
<1>3. CASE s = CurrentStore(t)'
  <2>1. t \in RightfulTenants(p)' /\ Sender(p)' = Sender(p)
    BY RightfulGrows
  <2>2. CASE <<s, Sender(p)>> \in grants'
    <3>1. <<t, TRUE>> \in HeardNow(p)'
      BY <1>3, <2>1, <2>2 DEF HeardNow
    <3> QED
      BY <1>1, <2>2, <3>1
  <2>3. CASE <<s, Sender(p)>> \notin grants'
    <3>1. <<t, FALSE>> \in HeardNow(p)'
      BY <1>3, <2>1, <2>3 DEF HeardNow
    <3> QED
      BY <1>1, <2>3, <3>1
  <2> QED
    BY <2>2, <2>3
<1> QED
  BY <1>2, <1>3

\* A call that the step is not of.
Rests(q) == /\ pc'[q] = pc[q] /\ tenant'[q] = tenant[q] /\ back'[q] = back[q]
            /\ found'[q] = found[q] /\ sid'[q] = sid[q]

\* A step is of one call.
LEMMA OthersRest ==
  ASSUME TypeOK, NEW p \in Requests, Step(p), NEW q \in Requests, q # p
  PROVE  Rests(q)
<1> USE DEF TypeOK, StoresTypeOK, Rests, Goto, Return, localIds, CallStoreId, StoreIdReturns
<1>1. CASE StoreCached(p) \/ StoreNotCached(p) \/ ListStores(p) \/ StoreAdd(p)
  BY <1>1 DEF StoreCached, StoreNotCached, ListStores, StoreAdd
<1>2. CASE ModelCached(p) \/ ModelNotCached(p) \/ ReadModels(p) \/ ModelAdd(p)
  BY <1>2 DEF ModelCached, ModelNotCached, ReadModels, ModelAdd
<1>3. CASE RetrieveTenant(p, TokenKey(p))
  BY <1>3 DEF RetrieveTenant, TenantCached, TenantNotCached, ReadTenant, TenantAdd
<1>4. CASE Start(p) \/ Pass(p) \/ Refuse(p) \/ Enter(p)
  BY <1>4 DEF Start, Pass, Refuse, Enter
<1>5. CASE NoUser(p) \/ Check(p) \/ Fault(p)
  BY <1>5 DEF NoUser, Check, Fault
<1> QED
  BY <1>1, <1>2, <1>3, <1>4, <1>5 DEF Step, LookUp

\* And no step of the world is of any.
LEMMA AllRest ==
  ASSUME World \/ UNCHANGED vars, NEW q \in Requests
  PROVE  Rests(q)
<1> USE DEF Rests, localIds
<1>1. CASE UNCHANGED vars
  BY <1>1 DEF vars, callVars, storeVars
<1>2. CASE World
  BY <1>2 DEF World, Ages, Expires, Age, Expire, ServerChanges, IamChanges, Grant
<1> QED
  BY <1>1, <1>2

\* The same as long as the call goes on for its tenant.
LEMMA KnownNext ==
  ASSUME TypeOK, CallOK, [Next]_vars, NEW p \in Requests, tenant'[p] = tenant[p],
         pc[p] \in LookingUp \cup {"check"}, NEW s \in StoreIds, Known(p, s)
  PROVE  /\ s.tenant = tenant'[p]
         /\ IF <<s, Sender(p)'>> \in grants' THEN <<tenant'[p], TRUE>> \in heard'[p]
                                          ELSE <<tenant'[p], FALSE>> \in heard'[p]
<1>1. pc[p] \notin Resting
  BY DEF LookingUp, Resting
<1>2. PICK t \in RightfulTenants(p) : t = tenant[p]
  BY DEF CallOK, TenantOK
<1>3. Sender(p)' = Sender(p)
  BY RightfulGrows
<1> QED
  BY <1>1, <1>2, <1>3, KnownKept DEF Known

\* What holds of a call goes on holding while others move.
LEMMA RestingCall ==
  ASSUME TypeOK, CallOK, [Next]_vars, NEW q \in Requests, Rests(q)
  PROVE  TenantOK(q)' /\ IdsOK(q)' /\ HeardOK(q)'
<1> USE DEF Rests
<1>1. TenantOK(q) /\ IdsOK(q) /\ HeardOK(q)
  BY DEF CallOK
<1>2. /\ TokenKey(q)' = TokenKey(q) /\ Sender(q)' = Sender(q)
      /\ RightfulTenants(q) \subseteq RightfulTenants(q)' /\ enabled' = enabled
  BY RightfulGrows, RequestsFixed
<1>3. TokenKey(q) # None => mapped[TokenKey(q)] \subseteq mapped'[TokenKey(q)]
  BY JobTypes, RequestsFixed
<1>4. TenantOK(q)'
  BY <1>1, <1>2, <1>3 DEF TenantOK
<1>5. found[q] \in StoreIds /\ sid[q] \in StoreIds
  BY DEF TypeOK, StoresTypeOK
<1>6. IdsOK(q)'
  <2>1. pc[q] = "storeAdd" => Known(q, found[q])'
    BY <1>1, <1>5, KnownNext DEF IdsOK, Known, LookingUp
  <2>2. (\/ pc[q] \in {"modelGet", "readModels", "modelAdd", "check"}
         \/ pc[q] \in {"storeGet", "list", "storeAdd"} /\ back[q] = "readModels")
          => Known(q, sid[q])'
    BY <1>1, <1>5, KnownNext DEF IdsOK, Known, LookingUp
  <2> QED
    BY <2>1, <2>2 DEF IdsOK, Known
<1>7. HeardOK(q)'
  <2>1. pc'[q] \notin Resting => HeardNow(q)' \subseteq heard'[q]
    BY HeardUpdated
  <2>2. pc[q] \in Resting => heard'[q] = heard[q]
    BY HeardUpdated
  <2>3. (enabled /\ pc[q] = "resolved") =>
          \E t \in RightfulTenants(q)' : <<t, TRUE>> \in heard'[q]
    BY <1>1, <1>2, <2>2 DEF HeardOK, Resting
  <2>4. pc[q] = "refused" => \E t \in RightfulTenants(q)' : <<t, FALSE>> \in heard'[q]
    BY <1>1, <1>2, <2>2 DEF HeardOK, Resting
  <2> QED
    BY <1>2, <2>1, <2>3, <2>4 DEF HeardOK
<1> QED
  BY <1>4, <1>6, <1>7

\* A call that ends knows nothing any more.
LEMMA ReturnedCall ==
  ASSUME TypeOK, CallOK, [Next]_vars, NEW p \in Requests, NEW how \in Resting,
         Return(p, how),
         how = "resolved" /\ enabled =>
           \E t \in RightfulTenants(p)' : <<t, TRUE>> \in heard'[p],
         how = "refused" => \E t \in RightfulTenants(p)' : <<t, FALSE>> \in heard'[p]
  PROVE  TenantOK(p)' /\ IdsOK(p)' /\ HeardOK(p)'
<1>1. pc'[p] = how /\ tenant'[p] = None
  BY DEF Return, Goto, TypeOK, StoresTypeOK
<1>2. how \notin {"tenantGet", "readTenant", "tenantAdd", "directive", "check"} \cup LookingUp
  BY DEF Resting, LookingUp
<1>3. TenantOK(p)'
  BY <1>1, <1>2 DEF TenantOK
<1>4. IdsOK(p)'
  BY <1>1, <1>2 DEF IdsOK, LookingUp
<1>5. HeardOK(p)'
  <2>1. enabled' = enabled
    BY RequestsFixed
  <2> QED
    BY <1>1, <2>1 DEF HeardOK
<1> QED
  BY <1>3, <1>4, <1>5

\* A call that goes on: what its ids and its tenant are is all there is to show.
LEMMA OngoingCall ==
  ASSUME TypeOK, CallOK, [Next]_vars, NEW p \in Requests,
         pc'[p] \notin Resting
  PROVE  HeardOK(p)'
<1>1. HeardNow(p)' \subseteq heard'[p]
  BY HeardUpdated
<1> QED
  BY <1>1 DEF HeardOK, Resting

\* A call that goes on looking up ids for its tenant.
LEMMA LookingCall ==
  ASSUME TypeOK, CallOK, [Next]_vars, NEW p \in Requests,
         pc[p] \in LookingUp, pc'[p] \in LookingUp \cup {"check"},
         tenant'[p] = tenant[p]
  PROVE  TenantOK(p)' /\ HeardOK(p)'
<1>1. pc'[p] \notin Resting \cup {"tenantGet", "readTenant", "tenantAdd", "directive"}
  BY DEF LookingUp, Resting
<1>2. tenant'[p] \in RightfulTenants(p)'
  BY RightfulGrows DEF CallOK, TenantOK
<1>3. TenantOK(p)'
  BY <1>1, <1>2 DEF TenantOK
<1> QED
  BY <1>1, <1>3, OngoingCall

\* A store id that is in the cache or that the server names is known.
LEMMA KnownFromCache ==
  ASSUME TypeOK, StoreCacheOK, CallOK, NEW p \in Requests, pc[p] \in LookingUp,
         StoreKey(p) \in Keys(cache)
  PROVE  Val(cache, StoreKey(p)) \in StoreIds /\ Known(p, Val(cache, StoreKey(p)))
<1> DEFINE s == Val(cache, StoreKey(p))
           t == tenant[p]
<1>1. <<StoreKey(p), s>> \in Entries(cache)
  <2>1. cache \in Seq(CacheKeys \X (StoreIds \cup ModelIds))
    BY DEF StoreCacheOK
  <2> QED
    BY <2>1, PlaceOfKey
<1> HIDE DEF s
<1>2. s \in StoreIds /\ s.tenant = t
  BY <1>1 DEF StoreCacheOK, StoreKey
<1>3. t \in RightfulTenants(p) /\ HeardNow(p) \subseteq heard[p]
  BY DEF CallOK, TenantOK, HeardOK, LookingUp, Resting
<1>4. Settled(t) => s = CurrentStore(t)
  BY DEF Settled, StoreKey, s
<1>5. IF <<s, Sender(p)>> \in grants THEN <<t, TRUE>> \in HeardNow(p)
                                    ELSE <<t, FALSE>> \in HeardNow(p)
  BY <1>3, <1>4 DEF HeardNow
<1> QED
  BY <1>2, <1>3, <1>5 DEF Known, s

\* The answer of the server names the present store, whose answers are heard.
LEMMA KnownFromServer ==
  ASSUME TypeOK, CallOK, NEW p \in Requests, pc[p] \in LookingUp
  PROVE  CurrentStore(tenant[p]) \in StoreIds /\ Known(p, CurrentStore(tenant[p]))
<1> DEFINE t == tenant[p]
<1>1. t \in RightfulTenants(p) /\ HeardNow(p) \subseteq heard[p]
  BY DEF CallOK, TenantOK, HeardOK, LookingUp, Resting
<1>2. t \in Tenants
  BY <1>1, JobTypes
<1>3. CurrentStore(t) \in StoreIds /\ CurrentStore(t).tenant = t
  BY <1>2 DEF CurrentStore, Store, StoreIds, TypeOK, StoresTypeOK
<1>4. IF <<CurrentStore(t), Sender(p)>> \in grants THEN <<t, TRUE>> \in HeardNow(p)
                                                   ELSE <<t, FALSE>> \in HeardNow(p)
  BY <1>1 DEF HeardNow
<1> QED
  BY <1>1, <1>3, <1>4 DEF Known

\* The ids that a call looks up are of its tenant, and known.
LEMMA OwnLookUp ==
  ASSUME TypeOK, StoreCacheOK, CallOK, [Next]_vars, NEW p \in Requests, LookUp(p)
  PROVE  TenantOK(p)' /\ IdsOK(p)' /\ HeardOK(p)'
<1> USE DEF LookingUp
<1>0. /\ pc \in [Requests -> Resting \cup LookingUp \cup
                   {"tenantGet", "readTenant", "tenantAdd", "directive", "check"}]
      /\ back \in [Requests -> {"modelGet", "readModels"}]
      /\ tenant \in [Requests -> Tenants \cup {None}]
      /\ found \in [Requests -> StoreIds] /\ sid \in [Requests -> StoreIds]
  BY DEF TypeOK, StoresTypeOK, LookingUp
<1>1. IdsOK(p)
  BY DEF CallOK
<1>2. CASE StoreCached(p) \/ StoreAdd(p)
  <2>1. PICK s \in StoreIds :
          /\ Known(p, s) /\ StoreIdReturns(p, s) /\ tenant' = tenant
          /\ pc[p] \in {"storeGet", "storeAdd"}
    BY <1>0, <1>1, <1>2, KnownFromCache DEF StoreCached, StoreAdd, Hit, IdsOK
  <2>2. /\ pc'[p] = back[p] /\ tenant'[p] = tenant[p]
        /\ sid'[p] = IF back[p] = "modelGet" THEN s ELSE sid[p]
    BY <1>0, <2>1 DEF StoreIdReturns, Goto
  <2>3. pc'[p] \in {"modelGet", "readModels"} /\ pc[p] \in LookingUp
    BY <1>0, <2>1, <2>2
  <2>4. back[p] = "readModels" => Known(p, sid[p])
    BY <1>1, <2>1 DEF IdsOK
  <2>5. sid'[p] \in StoreIds /\ Known(p, IF back[p] = "modelGet" THEN s ELSE sid[p])
    BY <1>0, <2>1, <2>2, <2>4
  <2>6. IdsOK(p)'
    BY <2>2, <2>3, <2>5, KnownNext DEF IdsOK, Known
  <2> QED
    BY <2>2, <2>3, <2>6, LookingCall
<1>3. CASE ListStores(p)
  <2>1. CASE store[tenant[p]] # 0
    <3>1. /\ pc'[p] = "storeAdd" /\ pc[p] = "list" /\ tenant'[p] = tenant[p]
          /\ back' = back /\ sid' = sid
          /\ found'[p] = CurrentStore(tenant[p])
      BY <1>0, <1>3, <2>1 DEF ListStores, Goto
    <3>2. found'[p] \in StoreIds /\ Known(p, CurrentStore(tenant[p]))
      BY <3>1, KnownFromServer
    <3>3. IdsOK(p)'
      BY <1>0, <1>1, <3>1, <3>2, KnownNext DEF IdsOK, Known
    <3> QED
      BY <3>1, <3>3, LookingCall
  <2>2. CASE store[tenant[p]] = 0
    BY <1>3, <2>2, ReturnedCall DEF ListStores, Resting
  <2> QED
    BY <2>1, <2>2
<1>4. CASE ReadModels(p) /\ Return(p, "error")
  BY <1>4, ReturnedCall DEF Resting
<1>5. CASE \/ StoreNotCached(p) \/ ModelCached(p) \/ ModelNotCached(p) \/ ModelAdd(p)
           \/ ReadModels(p) /\ ~Return(p, "error")
  <2>1. /\ tenant'[p] = tenant[p] /\ sid'[p] = sid[p]
        /\ pc[p] \in LookingUp /\ pc'[p] \in LookingUp \cup {"check"} /\ pc'[p] # "storeAdd"
        /\ \/ pc[p] \in {"modelGet", "readModels", "modelAdd"}
           \/ pc[p] = "storeGet" /\ pc'[p] = "list" /\ back'[p] = back[p]
    BY <1>0, <1>5 DEF StoreNotCached, ModelCached, ModelNotCached, ModelAdd, ReadModels, Goto,
       CallStoreId, localIds
  <2>2. IdsOK(p)'
    BY <1>0, <1>1, <2>1, KnownNext DEF IdsOK, Known
  <2> QED
    BY <2>1, <2>2, LookingCall
<1> QED
  BY <1>2, <1>3, <1>4, <1>5 DEF LookUp

\* The retriever names a tenant that the IAM service has named.
LEMMA OwnRetrieve ==
  ASSUME TypeOK, TenantCacheOK, IamOK, CallOK, [Next]_vars, NEW p \in Requests,
         RetrieveTenant(p, TokenKey(p)), UNCHANGED <<enabled, grants, job>>
  PROVE  TenantOK(p)' /\ IdsOK(p)' /\ HeardOK(p)'
<1> DEFINE k == TokenKey(p)
<1>0. pc \in [Requests -> Resting \cup LookingUp \cup
                {"tenantGet", "readTenant", "tenantAdd", "directive", "check"}]
      /\ tenant \in [Requests -> Tenants \cup {None}]
  BY DEF TypeOK, StoresTypeOK, LookingUp
<1>1. k # None /\ k \in TokenKeys /\ TenantOK(p)
  BY JobTypes DEF RetrieveTenant, TenantCached, TenantNotCached, ReadTenant, TenantAdd,
     CallOK, TenantOK
<1>2. TokenKey(p)' = TokenKey(p) /\ mapped' = mapped
  <2>1. mapped' = mapped
    BY DEF RetrieveTenant, TenantCached, TenantNotCached, ReadTenant, TenantAdd,
       iamVars, retrieverVars
  <2> QED
    BY <2>1, RightfulGrows
<1> HIDE DEF k
<1>3. CASE TenantCached(p, k)
  <2>1. <<k, Val(tenantCache, k)>> \in Entries(tenantCache)
    <3>1. tenantCache \in Seq(TokenKeys \X Tenants)
      BY DEF TenantCacheOK
    <3> QED
      BY <1>3, <3>1, PlaceOfKey DEF TenantCached
  <2>2. Val(tenantCache, k) \in mapped[k]
    BY <2>1 DEF TenantCacheOK
  <2>3. pc'[p] = "directive" /\ tenant'[p] = Val(tenantCache, k)
    BY <1>0, <1>3 DEF TenantCached, Goto
  <2>4. TenantOK(p)' /\ IdsOK(p)'
    BY <1>1, <1>2, <2>2, <2>3 DEF TenantOK, IdsOK, Resting, LookingUp, k
  <2> QED
    BY <2>3, <2>4, OngoingCall DEF Resting
<1>4. CASE TenantNotCached(p, k)
  <2>1. pc[p] = "tenantGet" /\ pc'[p] = "readTenant" /\ tenant'[p] = tenant[p]
    BY <1>0, <1>4 DEF TenantNotCached, Goto
  <2>2. TenantOK(p)' /\ IdsOK(p)'
    BY <1>1, <1>2, <2>1 DEF TenantOK, IdsOK, Resting, LookingUp
  <2> QED
    BY <2>1, <2>2, OngoingCall DEF Resting
<1>5. CASE ReadTenant(p, k) /\ iam[k] # None
  <2>1. pc'[p] = "tenantAdd" /\ tenant'[p] = iam[k] /\ iam[k] \in mapped[k]
    BY <1>0, <1>1, <1>5 DEF ReadTenant, Goto, IamOK
  <2>2. TenantOK(p)' /\ IdsOK(p)'
    BY <1>1, <1>2, <2>1 DEF TenantOK, IdsOK, Resting, LookingUp, k
  <2> QED
    BY <2>1, <2>2, OngoingCall DEF Resting
<1>6. CASE ReadTenant(p, k) /\ iam[k] = None
  BY <1>6, ReturnedCall DEF ReadTenant, Resting
<1>7. CASE TenantAdd(p, k)
  <2>1. pc[p] = "tenantAdd" /\ pc'[p] = "directive" /\ tenant'[p] = tenant[p]
    BY <1>0, <1>7 DEF TenantAdd, Goto
  <2>2. TenantOK(p)' /\ IdsOK(p)'
    BY <1>1, <1>2, <2>1 DEF TenantOK, IdsOK, Resting, LookingUp
  <2> QED
    BY <2>1, <2>2, OngoingCall DEF Resting
<1> QED
  BY <1>3, <1>4, <1>5, <1>6, <1>7 DEF RetrieveTenant, k

\* The tenant that the directive goes on with is a rightful one.
LEMMA RightfulTenant ==
  ASSUME TypeOK, CallOK, NEW p \in Requests, pc[p] = "directive", ~Unusable(p)
  PROVE  TenantInContext(p) \in RightfulTenants(p)
<1>1. TenantOK(p)
  BY DEF CallOK
<1>2. TakesArgument(p) <=> job[p].technical \/ Spiffe(p) # None
  BY DEF TakesArgument
<1>3. CASE TakesArgument(p) /\ job[p].arg \in Tenants
  BY <1>2, <1>3 DEF TenantInContext, RightfulTenants
<1>4. CASE ~(TakesArgument(p) /\ job[p].arg \in Tenants)
  BY <1>1, <1>2, <1>4 DEF TenantInContext, RightfulTenants, Unusable, TenantOK
<1> QED
  BY <1>3, <1>4

\* The verdict is one that the call has heard of.
LEMMA OwnCheck ==
  ASSUME TypeOK, CallOK, [Next]_vars, NEW p \in Requests, Check(p)
  PROVE  TenantOK(p)' /\ IdsOK(p)' /\ HeardOK(p)'
<1>1. /\ pc[p] = "check" /\ User(p) = Sender(p)
      /\ Return(p, Verdict(p))
  BY JobTypes DEF Check
<1>2. Known(p, sid[p]) /\ tenant[p] \in RightfulTenants(p)
  BY <1>1 DEF CallOK, IdsOK, TenantOK
<1>3. heard[p] \subseteq heard'[p] /\ RightfulTenants(p) \subseteq RightfulTenants(p)'
  <2>1. pc[p] \notin Resting
    BY <1>1 DEF Resting
  <2> QED
    BY <2>1, HeardUpdated, RightfulGrows
<1>4. Verdict(p) \in Resting
  BY DEF Verdict, Resting
<1>5. Verdict(p) = "resolved" => \E t \in RightfulTenants(p)' : <<t, TRUE>> \in heard'[p]
  BY <1>1, <1>2, <1>3 DEF Verdict, Known
<1>6. Verdict(p) = "refused" => \E t \in RightfulTenants(p)' : <<t, FALSE>> \in heard'[p]
  BY <1>1, <1>2, <1>3 DEF Verdict, Known
<1> QED
  BY <1>1, <1>4, <1>5, <1>6, ReturnedCall

\* The other steps of a call.
LEMMA OwnDirective ==
  ASSUME TypeOK, CallOK, [Next]_vars, NEW p \in Requests,
         Start(p) \/ Pass(p) \/ Refuse(p) \/ Enter(p) \/ NoUser(p) \/ Fault(p)
  PROVE  TenantOK(p)' /\ IdsOK(p)' /\ HeardOK(p)'
<1>0. pc \in [Requests -> Resting \cup LookingUp \cup
                {"tenantGet", "readTenant", "tenantAdd", "directive", "check"}]
      /\ tenant \in [Requests -> Tenants \cup {None}]
      /\ back \in [Requests -> {"modelGet", "readModels"}]
  BY DEF TypeOK, StoresTypeOK, LookingUp
<1>1. TenantOK(p) /\ TokenKey(p)' = TokenKey(p)
  BY RightfulGrows DEF CallOK
<1>2. CASE Start(p)
  <2>1. /\ pc[p] \in Resting /\ tenant'[p] = tenant[p]
        /\ pc'[p] = IF TokenKey(p) # None THEN "tenantGet" ELSE "directive"
    BY <1>0, <1>2 DEF Start, Goto
  <2>2. TenantOK(p)' /\ IdsOK(p)'
    BY <1>1, <2>1 DEF TenantOK, IdsOK, Resting, LookingUp
  <2> QED
    BY <2>1, <2>2, OngoingCall DEF Resting
<1>3. CASE Pass(p)
  BY <1>3, ReturnedCall DEF Pass, Resting
<1>4. CASE Refuse(p) \/ NoUser(p) \/ Fault(p)
  BY <1>4, ReturnedCall DEF Refuse, NoUser, Fault, Resting
<1>5. CASE Enter(p)
  <2>1. /\ pc[p] = "directive" /\ ~Unusable(p) /\ pc'[p] = "storeGet"
        /\ tenant'[p] = TenantInContext(p) /\ back'[p] = "modelGet"
    BY <1>0, <1>5 DEF Enter, CallStoreId, Goto
  <2>2. tenant'[p] \in RightfulTenants(p)'
    BY <2>1, RightfulTenant, RightfulGrows
  <2>3. TenantOK(p)' /\ IdsOK(p)'
    BY <2>1, <2>2 DEF TenantOK, IdsOK, Resting, LookingUp
  <2> QED
    BY <2>1, <2>3, OngoingCall DEF Resting
<1> QED
  BY <1>2, <1>3, <1>4, <1>5

\* What holds of the calls is kept by every step.
LEMMA CallStep ==
  ASSUME TypeOK, StoreCacheOK, TenantCacheOK, IamOK, CallOK, [Next]_vars
  PROVE  CallOK'
<1> SUFFICES ASSUME NEW q \in Requests PROVE TenantOK(q)' /\ IdsOK(q)' /\ HeardOK(q)'
  BY DEF CallOK
<1>1. ASSUME NEW p \in Requests, Step(p), q # p
      PROVE  TenantOK(q)' /\ IdsOK(q)' /\ HeardOK(q)'
  BY <1>1, OthersRest, RestingCall
<1>2. CASE Step(q)
  BY <1>2, OwnLookUp, OwnRetrieve, OwnCheck, OwnDirective DEF Step
<1>3. CASE World \/ UNCHANGED vars
  BY <1>3, AllRest, RestingCall
<1> QED
  BY <1>1, <1>2, <1>3 DEF Next

-----------------------------------------------------------------------------
(* The caches, the servers and the types.                                    *)

\* Reading the cache keeps it sound.
LEMMA HitKeeps ==
  ASSUME StoreCacheOK, NEW k, Hit(k)
  PROVE  StoreCacheOK'
<1>1. k \in Keys(cache) /\ cache' = Used(cache, k) /\ old' = old
  BY DEF Hit
<1>2. cache \in Seq(CacheKeys \X (StoreIds \cup ModelIds))
  BY DEF StoreCacheOK
<1>3. /\ Used(cache, k) \in Seq(CacheKeys \X (StoreIds \cup ModelIds))
      /\ Len(Used(cache, k)) <= Len(cache)
      /\ Entries(Used(cache, k)) \subseteq Entries(cache)
      /\ Keys(cache) \subseteq Keys(Used(cache, k))
  BY <1>1, <1>2, UsedFacts
<1>4. Len(Used(cache, k)) <= CacheSize
  BY <1>2, <1>3, LenProperties, StoresAssumption DEF StoreCacheOK
<1> QED
  BY <1>1, <1>3, <1>4 DEF StoreCacheOK

\* And so does an entry that is sound itself.
LEMMA PutKeeps ==
  ASSUME StoreCacheOK, NEW k \in CacheKeys, NEW id \in StoreIds \cup ModelIds, Put(k, id),
         IF k[1] = "tenant-" THEN id \in StoreIds /\ id.tenant = k[2] ELSE id \in ModelIds
  PROVE  StoreCacheOK'
<1>1. /\ cache' \in Seq(CacheKeys \X (StoreIds \cup ModelIds)) /\ Len(cache') <= CacheSize
      /\ Entries(cache') \subseteq Entries(cache) \cup {<<k, id>>}
  BY AddedFacts, StoresAssumption DEF StoreCacheOK, Put
<1>2. old' \subseteq Keys(cache')
  BY DEF Put
<1> QED
  BY <1>1, <1>2 DEF StoreCacheOK

\* The ids of models that ReadModels can bring.
LEMMA ModelIdTypes ==
  ASSUME TypeOK, NEW p \in Requests
  PROVE  /\ sid[p] \in StoreIds /\ found[p] \in StoreIds /\ mid[p] \in ModelIds
         /\ Model(found[p], found[p].num) \in ModelIds
         /\ tenant[p] \in Tenants => CurrentModel(tenant[p]) \in ModelIds
         /\ tenant[p] \in Tenants => CurrentStore(tenant[p]) \in StoreIds
         /\ NoStore \in StoreIds /\ NoModel \in ModelIds
<1>1. 0 \in Numbers
  BY StoresAssumption DEF Numbers
<1>2. found[p].num \in Numbers
  BY <1>1 DEF TypeOK, StoresTypeOK, StoreIds, NoStore, Store
<1>3. NoStore \in StoreIds /\ NoModel \in ModelIds
  BY <1>1 DEF NoStore, StoreIds, ModelIds, NoModel, Model
<1> QED
  BY <1>2, <1>3 DEF TypeOK, StoresTypeOK, Model, ModelIds, CurrentModel, CurrentStore,
     Store, StoreIds

\* A call that looks ids up has a tenant.
LEMMA LookingTenant ==
  ASSUME TypeOK, CallOK, NEW p \in Requests, pc[p] \in LookingUp
  PROVE  tenant[p] \in Tenants
BY JobTypes DEF CallOK, TenantOK

\* The cache of ids is kept sound by every step.
LEMMA StoreCacheStep ==
  ASSUME TypeOK, CallOK, StoreCacheOK, [Next]_vars
  PROVE  StoreCacheOK'
<1>1. CASE UNCHANGED cacheVars
  BY <1>1 DEF cacheVars, StoreCacheOK
<1>2. ASSUME NEW p \in Requests, LookUp(p) PROVE StoreCacheOK'
  <2>1. CASE StoreCached(p) \/ ModelCached(p)
    BY <2>1, HitKeeps DEF StoreCached, ModelCached
  <2>2. CASE StoreAdd(p)
    <3>1. tenant[p] \in Tenants /\ found[p] \in StoreIds /\ found[p].tenant = tenant[p]
      BY <2>2, LookingTenant, ModelIdTypes DEF StoreAdd, LookingUp, CallOK, IdsOK, Known
    <3> QED
      BY <2>2, <3>1, PutKeeps DEF StoreAdd, StoreKey, CacheKeys
  <2>3. CASE ModelAdd(p)
    <3>1. tenant[p] \in Tenants /\ mid[p] \in ModelIds
      BY <2>3, LookingTenant, ModelIdTypes DEF ModelAdd, LookingUp
    <3> QED
      BY <2>3, <3>1, PutKeeps DEF ModelAdd, ModelKey, CacheKeys
  <2>4. CASE StoreNotCached(p) \/ ListStores(p) \/ ModelNotCached(p) \/ ReadModels(p)
    BY <1>1, <2>4 DEF StoreNotCached, ListStores, ModelNotCached, ReadModels
  <2> QED
    BY <1>2, <2>1, <2>2, <2>3, <2>4 DEF LookUp
<1>3. ASSUME NEW p \in Requests, Step(p), ~LookUp(p) PROVE StoreCacheOK'
  <2>1. UNCHANGED cacheVars
    BY <1>3 DEF Step, RetrieveTenant, TenantCached, TenantNotCached, ReadTenant, TenantAdd,
       Start, Pass, Refuse, Enter, NoUser, Check, Fault
  <2> QED
    BY <1>1, <2>1
<1>4. ASSUME NEW k \in CacheKeys, Ages(k) PROVE StoreCacheOK'
  BY <1>4 DEF Ages, Age, StoreCacheOK
<1>5. ASSUME NEW k \in CacheKeys, Expires(k) PROVE StoreCacheOK'
  <2>1. /\ Without(cache, k) \in Seq(CacheKeys \X (StoreIds \cup ModelIds))
        /\ Len(Without(cache, k)) = IF k \in Keys(cache) THEN Len(cache) - 1 ELSE Len(cache)
        /\ Entries(Without(cache, k)) \subseteq Entries(cache)
        /\ Keys(cache) \ {k} \subseteq Keys(Without(cache, k))
    BY WithoutFacts DEF StoreCacheOK
  <2>2. Len(Without(cache, k)) <= CacheSize
    BY <2>1, LenProperties, StoresAssumption DEF StoreCacheOK
  <2> QED
    BY <1>5, <2>1, <2>2 DEF Expires, Expire, StoreCacheOK
<1>6. CASE ServerChanges \/ IamChanges \/ Grant \/ UNCHANGED vars
  BY <1>1, <1>6 DEF ServerChanges, IamChanges, Grant, vars, callVars, storeVars
<1> QED
  BY <1>2, <1>3, <1>4, <1>5, <1>6 DEF Next, World

\* And so is the cache of tenants.
LEMMA TenantCacheStep ==
  ASSUME TypeOK, IamOK, CallOK, TenantCacheOK, [Next]_vars
  PROVE  TenantCacheOK'
<1>0. \A k \in TokenKeys : mapped[k] \subseteq mapped'[k]
  BY RequestsFixed
<1>1. ASSUME NEW e \in Entries(tenantCache)
      PROVE  e[1] \in TokenKeys /\ e[2] \in mapped'[e[1]]
  <2>1. e \in TokenKeys \X Tenants
    BY <1>1 DEF TenantCacheOK, Entries
  <2> QED
    BY <1>0, <1>1, <2>1 DEF TenantCacheOK
<1>2. CASE tenantCache' = tenantCache
  BY <1>1, <1>2 DEF TenantCacheOK
<1>3. ASSUME NEW p \in Requests, TenantCached(p, TokenKey(p)) PROVE TenantCacheOK'
  <2>1. /\ TokenKey(p) \in Keys(tenantCache) /\ tenantCache' = Used(tenantCache, TokenKey(p))
    BY <1>3 DEF TenantCached
  <2>2. /\ tenantCache' \in Seq(TokenKeys \X Tenants) /\ Len(tenantCache') <= Len(tenantCache)
        /\ Entries(tenantCache') \subseteq Entries(tenantCache)
    <3>1. tenantCache \in Seq(TokenKeys \X Tenants)
      BY DEF TenantCacheOK
    <3> QED
      BY <2>1, <3>1, UsedFacts
  <2>3. Len(tenantCache') <= TenantCacheSize
    BY <2>2, LenProperties, RetrieverAssumption DEF TenantCacheOK
  <2> QED
    BY <1>1, <2>2, <2>3 DEF TenantCacheOK
<1>4. ASSUME NEW p \in Requests, TenantAdd(p, TokenKey(p)) PROVE TenantCacheOK'
  <2>1. /\ TokenKey(p) \in TokenKeys /\ tenant[p] \in mapped[TokenKey(p)]
        /\ tenant[p] \in Tenants
    BY <1>4, JobTypes DEF TenantAdd, CallOK, TenantOK, TypeOK, RetrieverTypeOK
  <2>2. /\ tenantCache' \in Seq(TokenKeys \X Tenants)
        /\ Len(tenantCache') <= TenantCacheSize
        /\ Entries(tenantCache') \subseteq
             Entries(tenantCache) \cup {<<TokenKey(p), tenant[p]>>}
    BY <1>4, <2>1, AddedFacts, RetrieverAssumption DEF TenantAdd, TenantCacheOK
  <2> QED
    BY <1>0, <1>1, <2>1, <2>2 DEF TenantCacheOK
<1>5. ASSUME NEW p \in Requests, Step(p),
             ~TenantCached(p, TokenKey(p)), ~TenantAdd(p, TokenKey(p))
      PROVE  tenantCache' = tenantCache
  BY <1>5 DEF Step, RetrieveTenant, TenantNotCached, ReadTenant, Start, Pass, Refuse,
     Enter, NoUser, Check, Fault, retrieverVars
<1>6. World \/ UNCHANGED vars => tenantCache' = tenantCache
  BY DEF World, Ages, Expires, ServerChanges, IamChanges, Grant, retrieverVars, vars, callVars
<1> QED
  BY <1>2, <1>3, <1>4, <1>5, <1>6 DEF Next

\* What calls hold.
LocalTypes ==
  /\ pc \in [Requests -> Resting \cup LookingUp \cup
               {"tenantGet", "readTenant", "tenantAdd", "directive", "check"}]
  /\ tenant \in [Requests -> Tenants \cup {None}]
  /\ back \in [Requests -> {"modelGet", "readModels"}]
  /\ found \in [Requests -> StoreIds] /\ sid \in [Requests -> StoreIds]
  /\ mid \in [Requests -> ModelIds]

\* What the servers hold, and the requests.
WorldTypes ==
  /\ store \in [Tenants -> Numbers] /\ model \in [Tenants -> Numbers]
  /\ changes \in 0..MaxChanges
  /\ iam \in [TokenKeys -> Tenants \cup {None}]
  /\ mapped \in [TokenKeys -> SUBSET Tenants]
  /\ enabled \in BOOLEAN
  /\ grants \subseteq StoreIds \X Users
  /\ job \in [Requests -> RequestRecords]

\* And the history.
HeardTypes == heard \in [Requests -> SUBSET (Tenants \X BOOLEAN)]

\* TypeOK is the types of the calls, of the world and of the history, and the caches.
LEMMA TypeParts ==
  /\ TypeOK => LocalTypes /\ WorldTypes /\ HeardTypes
  /\ LocalTypes /\ WorldTypes /\ HeardTypes /\ StoreCacheOK /\ TenantCacheOK => TypeOK
<1>1. Resting \cup LookingUp \cup
        {"tenantGet", "readTenant", "tenantAdd", "directive", "check"}
      = Resting \cup {"tenantGet", "readTenant", "tenantAdd", "directive",
          "storeGet", "list", "storeAdd", "modelGet", "readModels", "modelAdd", "check"}
  BY DEF LookingUp
<1>2. TypeOK => LocalTypes /\ WorldTypes /\ HeardTypes
  BY <1>1 DEF TypeOK, StoresTypeOK, RetrieverTypeOK, LocalTypes, WorldTypes, HeardTypes
<1>3. LocalTypes /\ WorldTypes /\ HeardTypes /\ StoreCacheOK /\ TenantCacheOK => TypeOK
  BY <1>1 DEF TypeOK, StoresTypeOK, RetrieverTypeOK, LocalTypes, WorldTypes, HeardTypes,
     StoreCacheOK, TenantCacheOK
<1> QED
  BY <1>2, <1>3

\* The types of what calls hold.
LEMMA LocalTypeStep ==
  ASSUME AuthInv, [Next]_vars
  PROVE  LocalTypes'
<1> USE DEF LocalTypes, Resting, LookingUp, Goto, localIds
<1>0. LocalTypes /\ TypeOK /\ StoreCacheOK /\ TenantCacheOK /\ IamOK /\ CallOK
  BY TypeParts DEF AuthInv
<1>1. ASSUME NEW p \in Requests, NEW how \in Resting, Return(p, how) PROVE LocalTypes'
  BY <1>0, <1>1, ModelIdTypes DEF Return
<1>2. ASSUME NEW p \in Requests, NEW s \in StoreIds, StoreIdReturns(p, s),
             UNCHANGED <<tenant, back, mid>>
      PROVE  LocalTypes'
  BY <1>0, <1>2, ModelIdTypes DEF StoreIdReturns
<1>3. ASSUME NEW p \in Requests, LookUp(p) PROVE LocalTypes'
  <2>1. CASE StoreCached(p)
    <3>1. Val(cache, StoreKey(p)) \in StoreIds
      BY <1>0, <2>1, KnownFromCache DEF StoreCached, Hit
    <3> QED
      BY <1>2, <2>1, <3>1 DEF StoreCached
  <2>2. CASE StoreAdd(p)
    BY <1>0, <1>2, <2>2, ModelIdTypes DEF StoreAdd
  <2>3. CASE StoreNotCached(p) \/ ModelAdd(p)
    BY <1>0, <2>3 DEF StoreNotCached, ModelAdd
  <2>4. CASE ListStores(p)
    <3>1. CurrentStore(tenant[p]) \in StoreIds
      BY <1>0, <2>4, ModelIdTypes, LookingTenant DEF ListStores
    <3>2. CASE Return(p, "error")
      BY <1>1, <3>2
    <3> QED
      BY <1>0, <2>4, <3>1, <3>2 DEF ListStores
  <2>5. CASE ModelCached(p)
    <3>1. <<ModelKey(p), Val(cache, ModelKey(p))>> \in Entries(cache)
      <4>1. cache \in Seq(CacheKeys \X (StoreIds \cup ModelIds))
        BY <1>0 DEF StoreCacheOK
      <4> QED
        BY <2>5, <4>1, PlaceOfKey DEF ModelCached, Hit
    <3>2. Val(cache, ModelKey(p)) \in ModelIds
      BY <1>0, <3>1 DEF StoreCacheOK, ModelKey
    <3> QED
      BY <1>0, <2>5, <3>2 DEF ModelCached
  <2>6. CASE ModelNotCached(p)
    BY <1>0, <2>6 DEF ModelNotCached, CallStoreId
  <2>7. CASE ReadModels(p)
    <3>1. /\ CurrentModel(tenant[p]) \in ModelIds /\ NoStore \in StoreIds
          /\ Model(found[p], found[p].num) \in ModelIds
      BY <1>0, <2>7, ModelIdTypes, LookingTenant DEF ReadModels
    <3>2. CASE Return(p, "error")
      BY <1>1, <3>2
    <3> QED
      BY <1>0, <2>7, <3>1, <3>2 DEF ReadModels
  <2> QED
    BY <1>3, <2>1, <2>2, <2>3, <2>4, <2>5, <2>6, <2>7 DEF LookUp
<1>4. ASSUME NEW p \in Requests, RetrieveTenant(p, TokenKey(p)) PROVE LocalTypes'
  <2> DEFINE k == TokenKey(p)
  <2>1. k \in TokenKeys
    BY <1>0, <1>4, JobTypes DEF RetrieveTenant, TenantCached, TenantNotCached, ReadTenant,
       TenantAdd, CallOK, TenantOK
  <2> HIDE DEF k
  <2>2. CASE TenantCached(p, k)
    <3>1. tenantCache \in Seq(TokenKeys \X Tenants)
      BY <1>0 DEF TenantCacheOK
    <3>2. <<k, Val(tenantCache, k)>> \in Entries(tenantCache)
      BY <2>2, <3>1, PlaceOfKey DEF TenantCached
    <3>3. Val(tenantCache, k) \in Tenants
      BY <1>0, <2>1, <3>2 DEF TenantCacheOK, TypeOK, RetrieverTypeOK
    <3> QED
      BY <1>0, <2>2, <3>3 DEF TenantCached
  <2>3. CASE TenantNotCached(p, k) \/ TenantAdd(p, k)
    BY <1>0, <2>3 DEF TenantNotCached, TenantAdd
  <2>4. CASE ReadTenant(p, k)
    <3>1. CASE Return(p, "error")
      BY <1>1, <3>1
    <3>2. iam[k] \in Tenants \cup {None}
      BY <1>0, <2>1 DEF TypeOK, RetrieverTypeOK
    <3> QED
      BY <1>0, <2>4, <3>1, <3>2 DEF ReadTenant
  <2> QED
    BY <1>4, <2>2, <2>3, <2>4 DEF RetrieveTenant, k
<1>5. ASSUME NEW p \in Requests, Start(p) PROVE LocalTypes'
  BY <1>0, <1>5 DEF Start
<1>6. ASSUME NEW p \in Requests, Enter(p) PROVE LocalTypes'
  <2>1. TenantInContext(p) \in Tenants \cup {None}
    BY <1>0 DEF TenantInContext
  <2> QED
    BY <1>0, <1>6, <2>1 DEF Enter, CallStoreId
<1>7. ASSUME NEW p \in Requests, Pass(p) \/ Refuse(p) \/ NoUser(p) \/ Check(p) \/ Fault(p)
      PROVE  LocalTypes'
  BY <1>1, <1>7 DEF Pass, Refuse, NoUser, Check, Fault, Verdict
<1>8. CASE World \/ UNCHANGED vars
  BY <1>0, <1>8 DEF World, Ages, Expires, Age, Expire, ServerChanges, IamChanges, Grant,
     vars, callVars, storeVars
<1> QED
  BY <1>3, <1>4, <1>5, <1>6, <1>7, <1>8 DEF Next, Step

\* The types of the servers and the requests.
LEMMA WorldTypeStep ==
  ASSUME AuthInv, [Next]_vars
  PROVE  WorldTypes' /\ IamOK'
<1>0. WorldTypes /\ TypeOK /\ IamOK
  BY TypeParts DEF AuthInv
<1>1. CASE UNCHANGED <<serverIds, changes, iamVars, enabled, grants, job>>
  BY <1>0, <1>1 DEF serverIds, iamVars, WorldTypes, IamOK
<1>2. ASSUME NEW p \in Requests, Step(p) PROVE WorldTypes' /\ IamOK'
  <2> USE DEF retrieverVars, iamVars, serverIds
  <2>1. CASE LookUp(p)
    BY <1>1, <1>2, <2>1 DEF Step, LookUp, StoreCached, StoreNotCached, ListStores, StoreAdd,
       ModelCached, ModelNotCached, ReadModels, ModelAdd, RetrieveTenant, TenantCached,
       TenantNotCached, ReadTenant, TenantAdd, Start, Pass, Refuse, Enter, NoUser, Check, Fault
  <2>2. CASE RetrieveTenant(p, TokenKey(p)) /\ UNCHANGED <<enabled, grants, job>>
    BY <1>1, <2>2 DEF RetrieveTenant, TenantCached, TenantNotCached, ReadTenant, TenantAdd
  <2>3. CASE \/ Start(p) \/ Pass(p) \/ Refuse(p) \/ Enter(p) \/ NoUser(p) \/ Check(p)
             \/ Fault(p)
    BY <1>1, <2>3 DEF Start, Pass, Refuse, Enter, NoUser, Check, Fault
  <2> QED
    BY <1>2, <2>1, <2>2, <2>3 DEF Step
<1>3. CASE \E k \in CacheKeys : Ages(k) \/ Expires(k)
  BY <1>1, <1>3 DEF Ages, Expires, Age, Expire, retrieverVars
<1>4. CASE ServerChanges /\ UNCHANGED <<retrieverVars, enabled, grants, job>>
  <2>1. changes' \in 0..MaxChanges /\ changes' + 1 \in Numbers /\ 0 \in Numbers
    BY <1>0, <1>4, StoresAssumption DEF ServerChanges, WorldTypes, Numbers
  <2>2. store' \in [Tenants -> Numbers]
    BY <1>0, <1>4, <2>1 DEF ServerChanges, WorldTypes
  <2>3. model' \in [Tenants -> Numbers]
    BY <1>0, <1>4, <2>1, <2>2 DEF ServerChanges, WorldTypes
  <2> QED
    BY <1>0, <1>4, <2>1, <2>2, <2>3 DEF retrieverVars, iamVars, WorldTypes, IamOK
<1>5. CASE IamChanges /\ UNCHANGED <<enabled, grants, job>>
  <2>1. changes' \in 0..MaxChanges
    BY <1>0, <1>5, StoresAssumption DEF IamChanges, WorldTypes
  <2>2. PICK k \in TokenKeys, t \in Tenants \cup {None} :
          /\ iam' = [iam EXCEPT ![k] = t]
          /\ mapped' = [mapped EXCEPT ![k] = @ \cup ({t} \ {None})]
    BY <1>5 DEF IamChanges
  <2> QED
    BY <1>0, <1>5, <2>1, <2>2 DEF IamChanges, serverIds, WorldTypes, IamOK
<1>6. CASE Grant
  <2>1. changes' \in 0..MaxChanges
    BY <1>0, <1>6, StoresAssumption DEF Grant, WorldTypes
  <2>2. PICK t \in Tenants, u \in Users :
          LET held == {CurrentStore(t)} \X {u}
          IN  grants' = IF held \subseteq grants THEN grants \ held ELSE grants \cup held
    BY <1>6 DEF Grant
  <2>3. CurrentStore(t) \in StoreIds
    BY <1>0 DEF WorldTypes, CurrentStore, Store, StoreIds
  <2>4. grants' \subseteq StoreIds \X Users
    BY <1>0, <2>2, <2>3 DEF WorldTypes
  <2> QED
    BY <1>0, <1>6, <2>1, <2>4 DEF Grant, serverIds, retrieverVars, iamVars, WorldTypes, IamOK
<1>7. CASE UNCHANGED vars
  BY <1>1, <1>7 DEF vars, callVars, storeVars, retrieverVars
<1> QED
  BY <1>2, <1>3, <1>4, <1>5, <1>6, <1>7 DEF Next, World

\* The type of the history.
LEMMA HeardTypeStep ==
  ASSUME AuthInv, [Next]_vars, WorldTypes'
  PROVE  HeardTypes'
<1>1. HeardTypes
  BY TypeParts DEF AuthInv
<1>2. ASSUME NEW p \in Requests PROVE HeardNow(p)' \in SUBSET (Tenants \X BOOLEAN)
  <2>1. TokenKey(p)' = TokenKey(p) /\ (TokenKey(p) # None => TokenKey(p) \in TokenKeys)
    BY JobTypes, RightfulGrows DEF AuthInv
  <2>2. RightfulTenants(p)' \subseteq Tenants
    BY <2>1 DEF RightfulTenants, WorldTypes
  <2> QED
    BY <2>2 DEF HeardNow
<1>3. CASE Track
  BY <1>1, <1>2, <1>3 DEF Track, HeardTypes
<1>4. CASE UNCHANGED vars
  BY <1>1, <1>4 DEF vars, HeardTypes
<1> QED
  BY <1>3, <1>4 DEF Next

\* The invariant holds at first.
LEMMA AuthInit == Init => AuthInv
<1> SUFFICES ASSUME Init PROVE AuthInv
  OBVIOUS
<1> USE DEF Init, InitStores, InitRetriever
<1>1. 0 \in Numbers /\ 1 \in Numbers /\ 0 \in 0..MaxChanges
  BY StoresAssumption DEF Numbers
<1>2. LocalTypes
  <2>1. NoStore \in StoreIds /\ NoModel \in ModelIds
    BY <1>1 DEF NoStore, Store, StoreIds, NoModel, Model, ModelIds
  <2> QED
    BY <2>1 DEF LocalTypes, Resting
<1>3. grants \subseteq StoreIds \X Users
  <2>1. PICK holders \in Holders :
          grants = {<<Store(h[1], 1), h[2]>> : h \in {g \in holders : store[g[1]] = 1}}
    OBVIOUS
  <2> HIDE DEF Init, InitStores, InitRetriever
  <2> SUFFICES ASSUME NEW g \in grants PROVE g \in StoreIds \X Users
    OBVIOUS
  <2>2. PICK h \in holders : g = <<Store(h[1], 1), h[2]>>
    BY <2>1
  <2>3. h \in Tenants \X Users
    BY <2>1, JobsAssumption
  <2>4. Store(h[1], 1) \in StoreIds /\ h[2] \in Users
    BY <1>1, <2>3 DEF Store, StoreIds
  <2> QED
    BY <2>2, <2>4
<1>4. /\ iam \in [TokenKeys -> Tenants \cup {None}]
      /\ mapped = [k \in TokenKeys |-> {iam[k]} \ {None}]
  BY RetrieverAssumption
<1>5. WorldTypes /\ IamOK
  BY <1>1, <1>3, <1>4, JobsAssumption DEF WorldTypes, IamOK
<1>6. HeardTypes
  BY DEF HeardTypes
<1>7. StoreCacheOK /\ TenantCacheOK
  <2>1. cache = <<>> /\ tenantCache = <<>> /\ old = {}
    OBVIOUS
  <2>2. /\ cache \in Seq(CacheKeys \X (StoreIds \cup ModelIds)) /\ Len(cache) = 0
        /\ tenantCache \in Seq(TokenKeys \X Tenants) /\ Len(tenantCache) = 0
    BY <2>1, EmptySeq
  <2>3. Entries(cache) = {} /\ Entries(tenantCache) = {}
    BY <2>2, LenProperties DEF Entries
  <2> QED
    BY <2>1, <2>2, <2>3, StoresAssumption, RetrieverAssumption
       DEF StoreCacheOK, TenantCacheOK
<1>8. CallOK
  <2> SUFFICES ASSUME NEW p \in Requests PROVE TenantOK(p) /\ IdsOK(p) /\ HeardOK(p)
    BY DEF CallOK
  <2>1. pc[p] = "idle" /\ tenant[p] = None
    OBVIOUS
  <2> QED
    BY <2>1 DEF TenantOK, IdsOK, HeardOK, LookingUp, Resting
<1> QED
  BY <1>2, <1>5, <1>6, <1>7, <1>8, TypeParts DEF AuthInv

\* And it is inductive.
LEMMA AuthInductive ==
  /\ Init => AuthInv
  /\ AuthInv /\ [Next]_vars => AuthInv'
<1>1. ASSUME AuthInv, [Next]_vars PROVE AuthInv'
  <2>1. StoreCacheOK' /\ TenantCacheOK' /\ CallOK'
    BY <1>1, StoreCacheStep, TenantCacheStep, CallStep DEF AuthInv
  <2>2. LocalTypes' /\ WorldTypes' /\ IamOK'
    BY <1>1, LocalTypeStep, WorldTypeStep
  <2>3. HeardTypes'
    BY <1>1, <2>2, HeardTypeStep
  <2>4. TypeOK'
    BY <2>1, <2>2, <2>3, TypeParts DEF TypeOK, StoresTypeOK, RetrieverTypeOK, LocalTypes,
       WorldTypes, HeardTypes, StoreCacheOK, TenantCacheOK, LookingUp
  <2> QED
    BY <2>1, <2>2, <2>4 DEF AuthInv
<1> QED
  BY <1>1, AuthInit

\* The caches keep to their sizes and hold ids of the kind their keys say, and a
\* call holds ids of the server's making, for any number of requests, tenants and
\* changes on the servers (fga/helpers, policy_services/tenantRetriever.go:75-88).
THEOREM AuthTypes == Spec => []TypeOK
<1>1. AuthInv => TypeOK
  BY DEF AuthInv
<1> QED
  BY <1>1, AuthInductive, PTL DEF Spec

\* The resolver runs (directive/authorized.go:149-154) only if at some time of
\* the call the store of a tenant the request may be served in would have said
\* that the user the request speaks for may, or was not settled: no cached or
\* late answer of another tenant, another user or another call decides.  Of a
\* service this user is what jwt/spiffe.go:8 leaves of its id: the theorem says
\* nothing that would tell services apart whose ids are cut alike.
THEOREM ResolutionIsRightful == Spec => []ResolvedRightly
<1>1. AuthInv => ResolvedRightly
  BY DEF AuthInv, CallOK, HeardOK, ResolvedRightly
<1> QED
  BY <1>1, AuthInductive, PTL DEF Spec

\* And the same of a refusal: it is about the shortened id of a service.
THEOREM RefusalIsRightful == Spec => []RefusedRightly
<1>1. AuthInv => RefusedRightly
  BY DEF AuthInv, CallOK, HeardOK, RefusedRightly
<1> QED
  BY <1>1, AuthInductive, PTL DEF Spec
=============================================================================
