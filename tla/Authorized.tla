----------------------------- MODULE Authorized -----------------------------
(***************************************************************************)
(* A field of a GraphQL request is resolved under the Authorized directive: *)
(* the auth middlewares put what the headers say into the context, the      *)
(* service adds the tenant that RetrieveTenant names, and the directive     *)
(* asks OpenFGA whether the user has the relation to the object the         *)
(* arguments name.  One relation and one object are modelled.               *)
(***************************************************************************)
EXTENDS TenantRetriever

CONSTANTS
  Users,   \* whom checks ask about and tuples name, as SanitizeUserID leaves them
  SpiffeIds, \* the ids in client certificates
  Cut,     \* Cut[i]: what the service makes of the id i
  Holders, \* who may have the relation at first, in which tenant: sets of pairs
  Jobs     \* what the requests may be: ways to give each one a record

Unset == "unset"

\* The user of the empty name, to whom nobody gives a relation.
Nobody == ""

\* A web token; NoToken stands for one that does not parse.  A token without
\* issuer or audiences has the key None, one without subject is Nobody's.
Tokens == [key : TokenKeys \cup {None}, subject : Users \cup {Nobody}]
NoToken == [key |-> None, subject |-> None]

\* header: the Authorization header, that is none, a bearer token, or other;
\* token: the token of a bearer; cert: the id in the client certificate, or None;
\* technical: a service put the mark of a technical issuer into the context;
\* arg: the argument tenantId; object: the arguments name an object and its type.
RequestRecords ==
  [header : {"none", "bearer", "other"}, token : Tokens \cup {NoToken},
   cert : SpiffeIds \cup {None}, technical : BOOLEAN,
   arg : Tenants \cup {Unset, "nil"}, object : BOOLEAN]

\* The pattern for ids ends at the first digit, capital or underscore, so that
\* several ids may become one user, or Nobody if the scheme alone is left; and
\* the service does not see an id of which nothing is left.
ASSUME CutAssumption == /\ Cut \in [SpiffeIds -> Users \cup {Nobody, None}]
                        /\ None \notin Users \cup SpiffeIds /\ Nobody \notin Users

ASSUME JobsAssumption == /\ Jobs \subseteq [Requests -> RequestRecords]
                         /\ Holders \subseteq SUBSET (Tenants \X Users)

VARIABLES
  enabled, \* DirectivesAuthorizationEnabled when the directive was made
  grants,  \* who has the relation to the object: pairs of a store and a user
  job,     \* job[p]: the request p
  heard    \* heard[p]: what the tenants' stores would have answered about whom p
           \* speaks for at some time of p's call: pairs of a tenant and an answer,
           \* both answers if the store was not settled (history)

callVars == <<storeVars, retrieverVars, enabled, grants, job>>
vars == <<callVars, heard>>

Init ==
  /\ InitStores /\ InitRetriever
  /\ enabled \in BOOLEAN
  /\ \E holders \in Holders :
       grants = {<<Store(h[1], 1), h[2]>> : h \in {g \in holders : store[g[1]] = 1}}
  /\ job \in Jobs
  /\ heard = [p \in Requests |-> {}]

-----------------------------------------------------------------------------
(* What the middlewares store in the context.                               *)

\* StoreWebToken stores the token of a bearer, if it parses.
WebToken(p) == IF job[p].header = "bearer" THEN job[p].token ELSE NoToken

\* StoreAuthHeader stores any header.
HasAuthHeader(p) == job[p].header # "none"

\* StoreSpiffeHeader stores what its pattern finds in the certificate's header.
Spiffe(p) == IF job[p].cert = None THEN None ELSE Cut[job[p].cert]

\* RetrieveTenant wants a token with an issuer and audiences.
TokenKey(p) == WebToken(p).key

-----------------------------------------------------------------------------
Resting == {"idle", "error", "refused", "resolved"}

\* The request comes in, and the service retrieves the tenant if there is a
\* token it can retrieve one for.
Start(p) ==
  /\ pc[p] \in Resting
  /\ Goto(p, IF TokenKey(p) # None THEN "tenantGet" ELSE "directive")
  /\ UNCHANGED <<serverIds, changes, cacheVars, tenant, localIds, retrieverVars,
                 enabled, grants, job>>

\* A mutation of TakesArgument: any request may name its tenant.
TakesArgumentAlways(p) == TRUE

\* setTenantToContextForTechnicalUsers looks at the arguments.
TakesArgument(p) == job[p].technical \/ Spiffe(p) # None

\* The tenant in the context after it.
TenantInContext(p) ==
  IF TakesArgument(p) /\ job[p].arg \in Tenants THEN job[p].arg ELSE tenant[p]

\* The directive is off: the resolver runs.
Pass(p) ==
  /\ pc[p] = "directive" /\ ~enabled
  /\ Return(p, "resolved")
  /\ UNCHANGED <<serverIds, changes, cacheVars, retrieverVars, enabled, grants, job>>

\* What the directive refuses before it asks anyone: a nil tenant, arguments
\* that name no object or no type, no tenant.
Unusable(p) ==
  \/ TakesArgument(p) /\ job[p].arg = "nil"
  \/ ~job[p].object
  \/ TenantInContext(p) = None

Refuse(p) ==
  /\ pc[p] = "directive" /\ enabled /\ Unusable(p)
  /\ Return(p, "error")
  /\ UNCHANGED <<serverIds, changes, cacheVars, retrieverVars, enabled, grants, job>>

Enter(p) ==
  /\ pc[p] = "directive" /\ enabled /\ ~Unusable(p)
  /\ tenant' = [tenant EXCEPT ![p] = TenantInContext(p)]
  /\ CallStoreId(p, "modelGet")
  /\ UNCHANGED <<serverIds, changes, cacheVars, found, sid, mid, retrieverVars,
                 enabled, grants, job>>

\* The user of the check: whoever sent an auth header must have a token that
\* parses, be it Nobody's, and others a certificate.  None if they have not.
User(p) == IF HasAuthHeader(p) THEN WebToken(p).subject ELSE Spiffe(p)

NoUser(p) ==
  /\ pc[p] = "check" /\ User(p) = None
  /\ Return(p, "error")
  /\ UNCHANGED <<serverIds, changes, cacheVars, retrieverVars, enabled, grants, job>>

\* A mutation of Verdict: the answer is looked at the wrong way round.
VerdictInverted(p) == IF <<sid[p], User(p)>> \in grants THEN "refused" ELSE "resolved"

\* Check, and what follows from its answer.
Verdict(p) == IF <<sid[p], User(p)>> \in grants THEN "resolved" ELSE "refused"

Check(p) ==
  /\ pc[p] = "check" /\ User(p) # None
  /\ mid[p].store = sid[p]
  /\ Return(p, Verdict(p))
  /\ UNCHANGED <<serverIds, changes, cacheVars, retrieverVars, enabled, grants, job>>

\* A request to another service fails: it is not reached or in time, the store
\* is gone, or the model is one of another store.
Fault(p) ==
  /\ pc[p] \in {"readTenant", "list", "readModels", "check"}
  /\ Return(p, "error")
  /\ UNCHANGED <<serverIds, changes, cacheVars, retrieverVars, enabled, grants, job>>

Step(p) == \/ LookUp(p) /\ UNCHANGED <<retrieverVars, enabled, grants, job>>
           \/ RetrieveTenant(p, TokenKey(p)) /\ UNCHANGED <<enabled, grants, job>>
           \/ Start(p) \/ Pass(p) \/ Refuse(p) \/ Enter(p)
           \/ NoUser(p) \/ Check(p) \/ Fault(p)

-----------------------------------------------------------------------------
\* A user gets the relation in a tenant's store, or loses it.
Grant ==
  /\ changes < MaxChanges /\ changes' = changes + 1
  /\ \E t \in Tenants, u \in Users :
       /\ store[t] # 0
       /\ LET held == {CurrentStore(t)} \X {u}
          IN  grants' = IF held \subseteq grants THEN grants \ held ELSE grants \cup held
  /\ UNCHANGED <<serverIds, cacheVars, pc, tenant, localIds, retrieverVars, enabled, job>>

Ages(k)    == Age(k) /\ UNCHANGED <<retrieverVars, enabled, grants, job>>
Expires(k) == Expire(k) /\ UNCHANGED <<retrieverVars, enabled, grants, job>>

World == \/ \E k \in CacheKeys : Ages(k) \/ Expires(k)
         \/ ServerChanges /\ UNCHANGED <<retrieverVars, enabled, grants, job>>
         \/ IamChanges /\ UNCHANGED <<enabled, grants, job>>
         \/ Grant

\* The tenants a request may be served in: the one it names, if the service sees
\* that it comes from a technical user, or one that the IAM service has named
\* for its token.
RightfulTenants(p) ==
  IF (job[p].technical \/ Spiffe(p) # None) /\ job[p].arg \in Tenants
  THEN {job[p].arg}
  ELSE IF TokenKey(p) = None THEN {} ELSE mapped[TokenKey(p)]

\* Whom a request speaks for: the subject of its token, and without one the user
\* that its certificate's id is cut to.  That is its sender only if the cut
\* leaves the id as it is: all senders whose ids are cut alike are one user.
Sender(p) ==
  IF job[p].header # "none" THEN job[p].token.subject
  ELSE IF job[p].cert = None THEN None ELSE Cut[job[p].cert]

\* What the stores of these tenants answer about this user.
HeardNow(p) ==
  {h \in RightfulTenants(p) \X BOOLEAN :
     Settled(h[1]) => (h[2] <=> <<CurrentStore(h[1]), Sender(p)>> \in grants)}

\* The history follows a call from its start to its end.
Track ==
  heard' = [p \in Requests |->
              IF pc[p] \in Resting
              THEN IF pc'[p] \in Resting THEN heard[p] ELSE HeardNow(p)'
              ELSE heard[p] \cup HeardNow(p)']

Next == ((\E p \in Requests : Step(p)) \/ World) /\ Track

\* Every request is served, clients ask again, and time passes.
Fairness == /\ \A p \in Requests : WF_callVars(Step(p))
            /\ \A k \in CacheKeys : WF_callVars(Ages(k)) /\ WF_callVars(Expires(k))

Spec == Init /\ [][Next]_vars /\ Fairness

-----------------------------------------------------------------------------
TypeOK ==
  /\ StoresTypeOK /\ RetrieverTypeOK
  /\ pc \in [Requests -> Resting \cup {"tenantGet", "readTenant", "tenantAdd", "directive",
                "storeGet", "list", "storeAdd", "modelGet", "readModels", "modelAdd", "check"}]
  /\ enabled \in BOOLEAN
  /\ grants \subseteq StoreIds \X Users
  /\ job \in [Requests -> RequestRecords]
  /\ heard \in [Requests -> SUBSET (Tenants \X BOOLEAN)]

\* The resolver ran only if at some time of the call the store of a tenant the
\* request may be served in would have answered that the user it speaks for may.
\* The code keeps no more than this: a service whose id has a digit
\* (jwt/spiffe.go:8) is let in with the rights of the shortened id, and so is
\* every other service whose id shortens to it.
ResolvedRightly ==
  \A p \in Requests :
    enabled /\ pc[p] = "resolved"
      => \E t \in RightfulTenants(p) : <<t, TRUE>> \in heard[p]

\* And it was refused only if one of these stores would have refused this user;
\* what the store knows of the whole id of a service does not count.
RefusedRightly ==
  \A p \in Requests :
    pc[p] = "refused" => \E t \in RightfulTenants(p) : <<t, FALSE>> \in heard[p]

\* Once stores and models no longer change, checks are made in the tenants'
\* present stores and with their latest models: no entry of the cache outlives
\* its time because it is asked for.
FollowsServer ==
  <>[](\A p \in Requests :
         pc[p] = "check" => /\ sid[p] = CurrentStore(tenant[p])
                            /\ mid[p] = CurrentModel(tenant[p]))
=============================================================================
