# A TLA+ model of golang-commons

`golang-commons` is the library that the platform-mesh controllers and services
are built on. Its own logic lies in the Kubernetes reconcile loop and what starts,
feeds and stops it (`controller`, `context`), in optimistic updates
(`controller/client`), in the OpenFGA clients with their caches (`fga`), and in the
GraphQL authorization directive with the tenant lookup before it (`directive`,
`policy_services`). This directory models that logic in TLA+, checks it with TLC on
small instances and proves the main results with TLAPS for all instances.

1. [Inventory](#inventory)
2. [Modules](#modules)
3. [What the runs check](#runs)
4. [What is proved](#proofs)
5. [Deviations found](#deviations)
6. [What is not modelled](#not-modelled)
7. [Plan](#plan)

## Inventory

| Component | State | Operations | What is hard | Correct when |
|---|---|---|---|---|
| **Reconcile** (`controller/lifecycle/lifecycle.go`) | none of its own; the object on the API server (finalizers, generation, conditions, observed generation, next reconcile time, labels, initializers, terminators), the instance and its copy during a pass | one pass: Get, spread check, add finalizers, prepare the context, run the subroutines, remove finalizers, claims, status, label | every call leaves the process: edits, deletion, conflicts, lost responses, restarts, stale reads in between; a patch response replaces the instance in mid-pass | finalizers cover what was created; nothing is reported processed that was not; requeues survive; deletion completes; the controller comes to rest |
| **Conditions manager** (`conditions`) | the condition list | set to unknown, complete, failed, ready | the list is replaced by patch responses; one of its copies is lost | Ready=True is about a generation that was processed |
| **Spread manager** (`spread`) | next reconcile time, observed generation, refresh label | is a pass required, when is the next, mark, unlabel | time passes between check and use; the label outlives or predates the work | the last generation is processed; no hot loop |
| **Managers** (`controllerruntime`, `multicluster`, `builder`) | configuration | With..., Build..., SetupWithManager | checks at setup that Reconcile relies on; options that one of two managers ignores | a manager that starts has what its options need |
| **Debug label filter** (`controller/filter`) | none | a predicate for create, update, delete and generic events | controllers with different labels share the objects | an object is taken over by the controller its label names, and let go by the others |
| **Rate limiter** (`ratelimiter`) | time of the first attempt and failures per item | When, Forget | two limiters with their own counts | delays grow, and are forgotten together |
| **Update with retry** (`controller/client/retry.go`) | none | Get, adjust, Update, again on conflict | rivals, lagging cache, lost responses | a call stores at most one update, made from the current object |
| **FGA client** (`fga/client`) | TTL cache of store and model ids | StoreId, ModelId, Check, Read, Exists, Write(s), WriteIfNeeded, DeleteIfNeeded | stale ids, reads that renew entries, check-then-act batches | ids belong together; batches converge |
| **FGA store and helpers** (`fga/store`, `fga/helpers`) | expiring LRU of ten entries | store and model id of a tenant | eviction, one cache for several clients | as above |
| **FGA model and util** (`fga/model`, `fga/util`) | none | write a module's model, tuple helpers | | |
| **Authorized directive** (`directive`) | none | resolve a tenant and an object, check, go on or refuse | the user, the tenant and the store come from different places, read at different times | the resolver runs only if the store of a rightful tenant allowed it |
| **Tenant readers** (`policy_services`) | LRU of five tenants without expiry | retrieve or add | an answer cached after a newer one; entries that never expire | a tenant is one that was named for this key |
| **Context** (`context`) | cancellation, its cause, the signal channel | start, signal, stop, shutdown, recover, values of the request | a signal racing a stop or the start of its goroutine; recover called at a distance | no signal is lost; what watches the context has time to stop |
| **Middleware, jwt** | none | the token and the headers go into the context | which header decides what | |
| **Errors, retriable errors** (`errors`, `controller/errors`) | none | predicates, walk over causes | | |
| **Token source** (`oauth`), **sentry**, **logger**, **traces**, **config** | little | wrap other libraries | | |

The components meet in two places. A controller: the builder gives its manager the optional
conditions manager, spread manager and rate limiter; `SetupWithManager` refuses what cannot
work; the informers' events pass the label filter into the work queue; controller-runtime
calls Reconcile with a key and turns its result into a timer (through the rate limiter
after an error); the API server's writes come back as watch events. The context that
`StartContext` made ends all of it. Subroutines are the user's code: Reconcile calls them and
only sees their result, a requeue wish, or an error with or without retry. A subroutine may
use RetryUpdate on further objects and the FGA client for permissions. A service: the
middlewares put token and headers into the context, `RetrieveTenant` adds the tenant, and the
directive looks up store and model through `fga/helpers` and asks OpenFGA, before each
field that carries it.

## Modules

| Module | What it is |
|---|---|
| `Lifecycle` | Reconcile with the conditions and spread managers, the API server, the informer cache, the work queue and the other actors |
| `MCLifecycle` | constant values for its runs |
| `LifecycleTypes`, `LifecycleSafety`, `LifecycleFinalizers` | proofs about `Lifecycle` |
| `ResourceContract` | abstract: what Reconcile promises the subroutines about one object; `Lifecycle` refines it |
| `AtomicUpdate` | abstract: an update takes effect in one step at most, adjusted once but for one case |
| `RetryUpdate` | RetryUpdate and RetryStatusUpdate with several callers; refines `AtomicUpdate` |
| `MCRetryUpdate`, `RetryUpdateProofs` | its constant values; its proofs, the refinement among them |
| `RateLimiter`, `RateLimiterProofs` | the static-then-exponential rate limiter in the work queue; its proofs |
| `Managers` | the builder's options, what each manager makes of them, what setup refuses |
| `Shutdown` | the context of a process: signals, stop, the deferred shutdown function |
| `Operator` | composes the three with the label filter: a controller's process from setup to end |
| `MCOperator`, `OperatorProofs` | its constant values; its proofs |
| `TenantIds` | the lookups of a tenant's store and model id through the client's cache, and the server they ask |
| `FGAClient` | the calls of the OpenFGA client on top of `TenantIds` |
| `MCFGAClient`, `FGAClientProofs` | its constant values; its proofs |
| `Lru` | the caches of golang-lru |
| `TenantStores` | the lookups of `fga/helpers` and `fga/store` for all tenants through one LRU |
| `TenantRetriever` | the tenant of a token through the LRU of `policy_services`, on top of `TenantStores` |
| `Authorized` | a field under the directive, from the headers to the resolver, on top of both |
| `MCAuthorized`, `AuthorizedProofs` | its constant values; its proofs, and the facts about `Lru` |

### Lifecycle

One object, one worker (the work queue never hands a key to two). `pc` is where the
worker is in `Reconcile`; each call that leaves the process is one action, and
everything else may happen between two of them. The pure code between two calls
belongs to the action next to it.

| Variables | Code |
|---|---|
| `obj` | the object on the API server |
| `cache`, `synced` | the copy `cl.Get` returns; whether a watch event is outstanding |
| `queued`, `wake`, `now` | the work queue, its delaying queue, the clock |
| `inst`, `orig`, `condArr`, `requeue`, `pos` | `instance`, `originalCopy`, `condArr`, `result.RequeueAfter > 0`, the loop index |
| `fresh` | `instance` carries the server's resource version, so an update that names it is accepted |
| `ret` | what Reconcile returned |
| `res`, `ran`, `full`, `gaveUp`, `owed`, `dropped`, `flipped` | history: what the properties speak about. Actions only write them |

| Action | Code (`lifecycle.go`) |
|---|---|
| `Begin` | Get, the copy, the spreader's decision (30-67) |
| `SkipReconcile` | `OnNextReconcile` (`spread.go` 41-46) |
| `AddFinalizers` | `AddFinalizersIfNeeded` (425-462): one merge patch with the whole list |
| `PrepareContext` | conditions set to unknown, `PrepareContextFunc` (75-87) |
| `RunSubroutine` | one turn of the loop (97-138) with `reconcileSubroutine` (194-247); its alternatives are `Succeed`, `Finalized`, `AskForRequeue`, `FailForNow`, `FailForGood` |
| `RemoveFinalizers` | `removeFinalizerIfNeeded` (258-281) |
| `UpdateStatusAfterError` | the status update in the error branch, whose error is dropped (121) |
| `Conclude` | after the loop (140-147) |
| `RemoveTerminator`, `RemoveInitializer` | 149-161, 283-359 |
| `UpdateStatus` | 163-177, 361-402 |
| `RemoveRefreshLabel` | 179-188 |
| `HandleResult`, `FireTimer`, `Notify`, `Restart` | controller-runtime and the process |
| `ChangeSpec`, `RequestRefresh`, `Delete`, `HoldForeign`, `ReleaseForeign`, `ReleaseClaim` | users and other controllers |
| `Tick` | the clock |

A client call (`CallSucceeds`, `CallFails`) is accepted, refused, fails before it
reaches the server, or fails after the server stored it (a lost response). A merge
patch names no resource version and replaces a whole list; a status update names one
and meets a conflict when `fresh` is false. The response of a patch is decoded into
the instance: that is how a pass learns in the middle of a new generation or of a
deletion.

Details the model keeps because the code depends on them: Ready is appended to a copy
of the slice in `MarkResourceAsFinal` and lost when it was not there yet
(`MarkedReady`); the claims are patched in read-only mode as well; the order of the
subroutines and the names of the conditions follow the object as it was read, the
branch of each subroutine the instance as it is now; a requeue does not stop the
later subroutines; `RequeueAfter <= 0` requeues nothing.

Abstractions: messages and transition times of conditions; the minutes of the spread
time (half the maximum plus a jitter, on ticks of a clock); the size of
`RequeueAfter` (positive or not; the delaying queue may fire at once); log, trace and
Sentry calls. No event filter such as "generation changed" is assumed: the managers
install none of their own besides the debug label filter. An object that is gone is
not created again. A subroutine's `Process` and `Initialize` may leave something
behind even when they fail (`res`); a `Finalize` or `Terminate` that ends well has
removed it.

### ResourceContract

The same seen by one subroutine that has finalizers of its own and is no terminating one
(`Guarded`). Its finalizers come on a live object together with all others (`Hold`); it
may leave something behind only while they are there (`Make`), is cleaned up in deletion
only (`Clean`), and its finalizers come off a deleted object only when nothing of it is left
(`Release`). Nothing is put on in deletion, so what was released is never made again, and the
object goes when it is held for nobody. The one concession is `Excuse`, with a lagging cache: after
a pass learned of the deletion from the answer to its own patch, later passes that still read
the live object may make things again (see [Deviations](#deviations-found)). With live reads
(`Lagging` FALSE) it has no step.

### AtomicUpdate and RetryUpdate

The object is a function from fields to numbers, 0 for an absent field, and each
caller's `UpdateFunc` increments one field, so that an adjustment applied twice or on
an old value shows. `GetSucceeds`, `UpdateAccepted`, `UpdateConflicts` and `Fails` are the
steps of `operation` and of `RetryOnConflict`. Callers in `Live` read from the API
server: the response is decoded into the object they passed in, and what it does not
mention stays there, adjusted or not. Others read from a cache that may lag. A status
caller writes the status fields only.

`AtomicUpdate` says what is promised: a call stores at most one update, overwrites nothing that
others stored, and success means stored. The update is one application of `UpdateFunc`
(`Once`) for every caller that reads through a cache and for every one that met no conflict.
It is not for a live caller after a conflict (`op` is "again"): `cl.Get` at `retry.go` 18
decodes into the object that the first attempt had already adjusted, and a field the server
does not have keeps its adjusted value. Such a call may store 2 where one increment
of an absent field gives 1, and bring back fields that others removed. `Leftover` admits that
for absent fields and for nothing else: fields that are present are adjusted exactly once.
No comment or test of the repository says otherwise, so it is a limit of what is
promised and not a finding; callers whose `UpdateFunc` sets values rather than derives
them from the old ones do not notice.

### RateLimiter

Ages and timers are relative and capped, so the state space is finite without a bound
on the clock. The work queue's `Take`, `Expire` and `Event` are external; a watch event
may run an item before its timer. A pass ends in `Fail` (`When` and a timer), `Succeed`
(`Forget`), or `Again` (`Forget` and a timer of `RequeueAfter`); of two timers the sooner one
stays, as in the delaying queue. The queue never runs an item twice at a time, which is why
`When` is one step.

### Managers, Shutdown and Operator

`Managers` has no state: `Setups` are the combinations of the builder's calls, of the manager
that is built and of the interfaces the instance has; `Built` is what stays in force and
`SetupRefuses` the errors of `SetupWithManager`. What is not refused is no promise: a read-only
manager of several clusters with an initializer is accepted, and writes the status
(`ReadOnlyStatus`).

`Shutdown` has one action per step that another goroutine can come between: `Signal` puts
a signal into the channel or, without Notify, ends the process; `Listen` is the goroutine of
`NotifyShutdownContext`; `MainReturns` starts the deferred function, whose steps are `StopCancels`,
`StopNotification` and `Exit`. `work` stands for everything that watches `Done`: it stops
within `WorkTime`, which is assumed to be shorter than `Timeout`. `cause` keeps the first cause
(`context.WithCancelCause`), or is one from the beginning, when the parent was done.

`Operator` adds the controller. `SetUp` refuses or starts; `Appear` and `Change` are the
informers' events, which `Digested`, the filter, lets into the queue or not: for an update it
looks at the new object, for a deletion at the last state. `label` has the objects' values of the
debug label and `mine` the controller's, "" standing for none on both sides. `Begin` and `End` are a worker; `MainMustReturn` says when the manager
returns. `TimePasses` is the tick of both clocks at once: timers and ages of the queue, and the
waits of the shutdown. `due` is a history: the object was created or changed under this
controller's label value and no pass has begun since.

### TenantIds and FGAClient

One tenant, several callers of one client. `TenantIds` is `StoreId` and `ModelId` of
`fga/client/store.go`: each look into the cache, each request and each cache write is a
step, so that callers, expiry and the server come in between. `StoreId` is called from two
places; `back` is the place it returns to. `ModelId` calls it once more, and may get another
store than its caller did: `found` is that one, `sid` the caller's. An entry may
disappear between any two steps, because its time is over or the entries of other tenants
push it out; this covers the TTL cache of the client, which renews an entry on every
read, and the expiring LRU of `fga/store` and `fga/helpers`, whose two lookups
have the same control. Values are never forgotten while they are in use, so no bound on their age
is claimed.

`FGAClient` adds the calls. `Start` begins one, `Exists` is one turn of the loops in
`WriteIfNeeded` and `DeleteIfNeeded` (`write.go` 49-61, 74-83), `RequestServed` and
`RequestRefused` are the request of `Writes` and `Check`, `Fault` a request that does not
arrive, `StoreGone` one to a store that was deleted. `RequestServed` may end in an
error: the answer was lost. `Write`, `Delete` and `Writes` are calls with `ifNeeded` FALSE,
whose batch is not looked at first. A call that returned an error is made again, until it
succeeds, as reconcilers do. The server is external: it takes a request as a whole or not at
all, refuses a model of another store, a tuple named twice, and a tuple that is there (or
not there, for a delete); a deleted store may still answer.

`luck` and `seen` are histories of a call: whether the tenant's store was unsettled at
some time of it, or a request failed or a rival changed its tuples; and which tuples were
as wanted in the tenant's store at some time. Only `Track` writes them.

### TenantStores, TenantRetriever and Authorized

Unlike `TenantIds`, these model all tenants in caches of few entries, with their order of
use: what one request looks up may push out what another one is about to read, and an entry
expires a fixed time after it was put (`Age`, `Expire`), however often it is read; the
retriever's entries never expire. Each look into a cache, each request and each cache write
is a step of its own, so an answer may be added long after it was given. The server's
stores and models, the IAM service's mapping and the relations change in between, at most
`MaxChanges` times.

`Authorized` follows one request. `WebToken`, `HasAuthHeader` and `Spiffe` are what the
middlewares put into the context; `Start` sends a request with a usable token through
`RetrieveTenant`; `TakesArgument` and `TenantInContext` are the argument by which technical users
name a tenant; `Pass`, `Refuse`, `Enter`, `NoUser`, `Check` and `Fault` are the ways through the
directive. A token's issuer and audiences are one key, as in the cache, where two tokens that
spell the same key are the same. `heard` is the history the properties speak of: what the stores of
the tenants in `RightfulTenants` would have answered about the `Sender` at the times of the
call. Both are written down from the roles of the headers, not from the directive's own lookup. A
missing client and the nested shape of arguments are left out.

A certificate names one of `SpiffeIds`, and `Cut` is what the service makes of it. The pattern
in `jwt/spiffe.go` 8 takes lower-case letters, colons, slashes, dots and dashes, so an id ends
at its first digit, capital or underscore: the ids of `middleware/spiffe_test.go` 118-119,
`spiffe://example.org/workload1` and `.../workload2`, are one user. An id of which nothing is left
is not seen at all (`None`), and of one that is cut to the scheme the directive makes the
empty name (`Nobody`), as of a token without a subject; the check is made all the same.
`Sender`, and with it every answer in `heard`, is therefore the user that the service takes the
sender for. That is the sender itself where `Cut` leaves the id as it is; of services
whose ids are cut alike the properties cannot and do not say which of them asked.

## Runs

| Run | Properties | Instance |
|---|---|---|
| `Finalize` | `CoveredUnlessFlipped`, `RequeueHonoured`, `TerminatorHeld`, `HonoursContract` | three subroutines, two with a finalizer each and a terminating one with its claim, all outcomes of subroutines and context, a foreign finalizer, lagging cache |
| `SpreadConditions` | `TypeOK`, `ObservedMeansProcessed`, `ReadyIsHonest`, `InitializerHeld` | two subroutines, one of them initializing, the claim, conditions and spreading, all outcomes, lagging cache |
| `Rest` | `Quiesces`, `DeletionCompletes` | conditions; the last subroutine always ends in a final error; a foreign finalizer |
| `Settle` | `Converges`, `Initializes`, `Quiesces` | spreading, an initializer, the clock |
| `Retry` | `TypeOK`, `ConflictsHaveRivals`, `ImplementsAtomic`, `Returns` | three callers, one live, one on the status; five steps as in the code |
| `Operator` | `OperatorTypeOK`, `ChangesQueued`, `StoppedInTime`, `NeverShrinks`, `KeepsBackingOff`, `SignalHeeded`, `TakenOver`, `HandedOver` | three setups, two of them refused for one reason each; one item, whose label comes and goes, and a controller for the label's value or for objects without it; the maximum backoff is no power of the initial one; signals and cancellations at any time |
| `Client` | `TypeOK`, `Ensured`, `FailuresExplained`, `Converges` | two callers: a batch of two with a rival that undoes or blindly writes a tuple of it, a check beside a batch that names a tuple twice; the store is deleted and created anew, or gets a model |
| `Authorize` | `TypeOK`, `ResolvedRightly`, `RefusedRightly`, `FollowsServer` | six pairs of requests of two tenants, with tokens, certificates and arguments in different roles, among them two services of one user, a token without subject and an id of which nothing is left; a cache of two ids and one of one tenant |
| `SkipOwed`, `Label`, `ReadOnlyStatus`, `FinalLoop` | one each | violated by the code: see [Deviations](#deviations-found) |

The `Lifecycle` runs say: Reconcile keeps its contract; what a subroutine created is covered by its finalizers until its
Finalize ended well, and no requeue is forgotten unless a final error drops it; an observed generation, and a Ready=True
condition, are about a generation that one single pass carried through all subroutines
(or, for the former, gave up on); the claims of a workspace go only when the work is done;
deletion, convergence and rest happen at all. `Client` says that a batch call that succeeds can
be trusted, that one that fails has a reason other than the client itself, and that
repeating it helps. `Operator` says that no change of an object is lost to a pass under way, that retries
slow down and stay slow, that every signal ends the process and the end leaves nothing at work, and
that an object moves between controllers with its label. `Authorize` says that nobody is
let through, or refused, on the answer of a store that is not of a rightful tenant, or about
another user than the token's or the one the certificate's id is cut to, however lookups, evictions and changes mix; and that
checks follow the server once it stops changing.

*Requeues and final errors.* Reconcile notes the shortest `RequeueAfter` of its subroutines
(128-132) and returns it at the end. A final error of a later subroutine, or of
`PrepareContextFunc`, returns an empty result instead (123-125, 84), and what earlier ones asked
for is lost: `Finalize` reaches such states. `owed` keeps the subroutines that asked, `dropped`
those among them whose request was lost that way, and `RequeueHonoured` is about the others
(`Waiting`): successes and passing errors of later subroutines, failed writes, lost
responses and restarts forget nothing.

*Bounds.* `MaxEdits` (edits of the spec, refresh requests, foreign finalizers)
is 1, so that together with the deletion, which is not counted, three generations and
two rival writes fall into any pass; `MaxFaults` (failed or lost calls, retries,
requeues, restarts) is 1 or 2: two are needed for a lost response followed by a
restart, and a fault's effect does not depend on the number of earlier ones, since a
pass starts from the object alone. Two subroutines show order and interference; the
invariants of the proofs speak of one or two subroutines at a time. The clock counts
to 1 or 2, enough for a next reconcile time to pass before, during and after a pass.
In `Client` two changes are a
deletion and a new store, or two models; one failing request suffices, since a call
repeated after it starts from the cache alone, and two tuples make a batch of which a part
changes. In `Authorize` one change (`MaxChanges`) can meet any step of any of the two requests,
which are made again and again; a cache of two entries (`CacheSize`) cannot hold the
store and model ids of two tenants and one of a single entry (`TenantCacheSize`) not two tokens, so
every lookup can be one that was pushed out. The pairs of requests (`MCJobs`) are chosen
so that the two compete for the same entries, and each field of a record decides in one of
them; `MCCut` has an id that is kept, one that is cut to it and one of which nothing is left.
In `Operator` one item suffices, as neither the limiter nor the filter relates items (the
theorems are for any number), and two values of the label, the empty one among them, let
an object be this controller's, another's or nobody's; `Timeout` exceeds `WorkTime` by one, the least the
assumption allows. No symmetry is used: subroutines are ordered, and liveness is checked.
Deadlock is not checked where the object can be gone, all calls have returned, or the process has
ended, and nothing is left to do.

*Fairness.* `Lifecycle`: the worker, the watch, the delaying queue and the clock go on (weak
fairness on each): these are goroutines of controller-runtime that nothing stops while
the process lives. Other controllers let go of an object in deletion
(`ReleaseForeign /\ obj.deleting`), which the API expects of them. Nobody has to edit or
delete, and subroutines need not succeed: repeated failures are bounded by `MaxFaults`,
not excluded by fairness. `RetryUpdate`: each caller's goroutine goes on; the cache need
never catch up. `Operator`: setup, informers, timers, workers, the clock, the signal goroutine and the steps of
the shutdown function go on, and the main goroutine returns once the setup was refused or `Done` is
closed and no pass runs, which is what the manager's Start does; nobody has to send a
signal, change an object or cancel, and no pass has to succeed. `Authorized`: each request goes on
and is made again, and entries grow old and expire; nothing has to change and nobody has to fail.
`FGAClient`: each caller goes on and repeats a failed call; the cache need not
expire and the server need not change. `Converges` assumes that the tenant's store is in place
for good and that the cache holds no other one.

## Proofs

All theorems hold for every value of the constants that the named assumptions allow
(`LifecycleAssumption`, `SetupAssumption`, `RetryAssumption`, `ValidConfig`,
`IdsAssumption`, `StoresAssumption`, `RetrieverAssumption`, `CutAssumption`, `JobsAssumption`,
`ShutdownAssumption`, `CasesAssumption`).

| Theorem | Says |
|---|---|
| `LifecycleTypes!TypeCorrect` | `Spec => [](TypeOK /\ GenOK)` |
| `LifecycleSafety!ObservedIsProcessed` | `Spec => []ObservedMeansProcessed` |
| `LifecycleSafety!InitializerIsHeld` | `Spec => []InitializerHeld` |
| `LifecycleSafety!TerminatorIsHeld` | `Spec => []TerminatorHeld` |
| `LifecycleSafety!ReadyTellsTheTruth` | `Spec => []ReadyIsHonest` |
| `LifecycleFinalizers!FinalizersCover` | `Spec => []CoveredUnlessFlipped` |
| `LifecycleFinalizers!LiveReadsCover` | with live reads (`~Cached`), `Spec => []Covered` |
| `LifecycleFinalizers!ReconcileHonoursContract` | `Spec => HonoursContract`, a refinement |
| `LifecycleFinalizers!OwedIsHonoured` | without spreading (`~HasSpread`), `Spec => []RequeueHonoured` |
| `RetryUpdateProofs!RetryIsAtomic` | `Spec => ImplementsAtomic`, a refinement |
| `RetryUpdateProofs!RivalsOnly` | `Spec => []ConflictsHaveRivals` |
| `RetryUpdateProofs!RetryTypes` | `Spec => []TypeOK` |
| `RateLimiterProofs!LimiterTypes` | `Spec => []TypeOK` |
| `RateLimiterProofs!DelaysNeverShrink` | if `StaticDelay <= MaxBackoff`, `Spec => NeverShrinks` |
| `OperatorProofs!OperatorUsesLimiter` | `OperatorSpec => Spec` of `RateLimiter` |
| `OperatorProofs!OperatorNeverShrinks` | if `StaticDelay <= MaxBackoff`, `OperatorSpec => NeverShrinks` |
| `OperatorProofs!OperatorKeepsChanges` | `OperatorSpec => []ChangesQueued` |
| `OperatorProofs!OperatorStopsInTime` | `OperatorSpec => []StoppedInTime` |
| `OperatorProofs!OperatorTypes` | `OperatorSpec => []OperatorTypeOK` |
| `FGAClientProofs!ClientTypes` | `Spec => []TypeOK` |
| `FGAClientProofs!BatchesEnsured` | `Spec => []Ensured` |
| `FGAClientProofs!FailuresAreExplained` | `Spec => []FailuresExplained` |
| `AuthorizedProofs!AuthTypes` | `Spec => []TypeOK` |
| `AuthorizedProofs!ResolutionIsRightful` | `Spec => []ResolvedRightly` |
| `AuthorizedProofs!RefusalIsRightful` | `Spec => []RefusedRightly` |

*Types.* `GenOK` is needed besides `TypeOK`: no copy carries a generation the server has
not reached, and generations are bounded by the number of edits; without it
`Generations` is not closed under `ChangeSpec`.

*Observed generation.* `ObservedMeansProcessed` speaks of `obj` only, but a pass writes what
it carries. The invariant `ObsInv` adds: a copy in deletion implies that the server's
object is (`DeletionOK`); in a pass that is not in deletion, every subroutine before
`pos` ran for a generation no newer than the instance's, and while no requeue is noted it
ran for exactly that of its time (`PassOK`); the observed generations of cache, instance and
copy are processed ones as well (`ObsOK`). The patch in the middle of a pass that
brings a new generation is what makes `PassOK` necessary.

*Claims.* `InitializerHeld` follows from `HoldOK`: the worker is at the removal of the
initializer only after a pass was counted in `full` or the object is being deleted, and
no copy lacks the initializer before that.
`TerminatorHeld` needs more (`TornOK`), because what was torn down might be made again: a pass that
runs in deletion took its copy from a server, or a cache, that shows the deletion, and with a cache
the cache shows it from then on; within it every terminating subroutine before `pos` has torn
down its resource unless a requeue is noted; and as soon as one copy lacks the terminator,
all are torn down and no later pass can run a subroutine forwards (`TornForGood`). The
case that a pass learns of the deletion halfway runs forwards, and leaves the terminator.

*Ready.* `HonestOK` says of the conditions of object, cache and the list of the pass what
`ReadyIsHonest` says of the object, and that in a pass without a requeue the subroutines
before `pos` have their own condition True. A patch response may put an older list in place
of the pass's own (`ListKept` and `CondsOfObj` say where lists come from), which is why all three are
needed: the old list must be honest by itself. Once the object is in deletion nothing is
said, as the conditions are then about finalizing.

*Contract.* The refinement maps the object's way to `Phase`, its finalizers to `HeldFor` and the
guarded subroutines' leftovers to `Made`. `QuietStep` serves every step that neither adds, removes
nor makes anything (the deletion and the last foreign finalizer are its only visible
cases), `ReleaseStep` the removal of finalizers, whose guard in the contract is the invariant
after the step. `ContractOK` adds to `CoverInv` that the worker is at a removal only in
deletion, which holds after an excuse too, and that without a cache nothing is ever excused.

*Requeues.* `OwedOK` follows what is owed through a pass: while no requeue is noted, no subroutine
before `pos` is owed one; behind the loop a requeue is noted or nothing is owed; a pass ends
with an error or a time if something is owed, and not dropped, and the object is there; and an object that
the cache does not show is gone (nobody makes it anew, `NotRemade`). The condition
`~HasSpread` cannot be dropped: with spreading, `SkipOwed` and `Label` are runs in which the
code forgets a requeue. It is the code's own option, and the run `Finalize` has it so.

*Finalizers.* `CoverInv` says of each guarded subroutine with something to clean up where
the finalizers are that hold the object for it: on the object and in every copy that a
later patch may write back, with an exception for the pass that has just finalized and
is about to take them off. Merge patches make this necessary: they write the list
the pass has seen, not the server's. The exception `flipped` (a pass was told of the deletion
by the response of its own finalizer patch) cannot be proved away with a cache, and
TLC shows why: such a pass finalizes while the cache still shows the object alive. With live
reads `LiveOK` shows that the next read reveals the deletion, hence `LiveReadsCover`.

*Retry.* The refinement distinguishes calls that met a conflict ("again") from those that did not.
`RetryInv`, with `RetryTypes` as one of its parts: the cache shows the server's object or an older version; what a caller
read agrees with the server as long as the versions do. So an accepted update is the
abstract `Apply`, a refusal and the last conflict are `Refuse`, everything else is
`Foreign` or a stutter. The lemma `OpMoves` carries the mapping of `pc` to the abstract
outcome.

*Rate limiter.* `DelaysOK`: an item in its window has only had static delays, and no delay
exceeds what the exponential limiter answers next.

*Operator.* `StepParts` sorts the steps: a step is one of the limiter's queue, one of the process, or
time passing for both. The first kind gives `OperatorUsesLimiter`, and what was proved of the
limiter carries over. `ChangesQueued` is inductive with the types: an event under the controller's
label adds the key whether or not a worker has it, a timer only adds keys, and what takes
one off the queue is `Begin`. `StoppedInTime` follows from `InTime`, an inductive invariant
of the shutdown: once the deferred function waits, the context is closed, and what is left of the
work's time is less than what is left of the wait. The clock takes from both at once
(`TimeHolds`), so the wait cannot be over first.

*FGA client.* `CallInv` has one part for the place of a call (`Places`: what the loop has looked
at, what it found) and one for its work (`Calling`). `IdsOK`: as long as the store was
settled, the ids in hand are those of the tenant's store, although they were read at
different times. `WorkOK`: each tuple looked at was as wanted, or is in `todo` and, without a
rival, still needs the change. Without the first a refusal could be the client's own
doing; without the second a success would say nothing of the tuples that were left out.

*Authorized.* `AuthInv` says of a call that is looking ids up that its tenant is a rightful one
(`TenantOK`), whether an argument or the retriever named it, and of each store id in its hands
that it is of that tenant and that what this store would answer now is in `heard` (`Known` in
`IdsOK`). That an answer of a store stays what the call has heard is the heart of the proof: a
store that is no longer the tenant's gets no new relations (`GrantStep`), and one that is was
heard again by the very step that changed it (`HeardUpdated`, `KnownKept`). An id that comes from
the cache may be older than the call; then the store was not settled when it was taken
out, and both answers were heard (`KnownFromCache`). Of the caches it is needed that a store
id lies under its own tenant's key and a tenant under a key it was named for
(`StoreCacheOK`, `TenantCacheOK`); the lemmas `WithoutFacts`, `UsedFacts` and `AddedFacts` on `Lru`
carry that through any sequence of reads, additions and evictions, for every size.

Only model-checked: all liveness properties (`DeletionCompletes`, both `Converges`,
`Initializes`, `Quiesces`, `Returns`, `KeepsBackingOff`, `SignalHeeded`, `TakenOver`, `HandedOver`,
`FollowsServer`): fairness and ENABLED are out of the prover's reach. Every invariant and every
action property of a passing run is proved; `RequeueHonoured` under `~HasSpread`, `NeverShrinks` under
`StaticDelay <= MaxBackoff`.

## Deviations found

Each of the first four is a run in which TLC shows a behaviour of the code that a comment or a
test of the repository excludes.

* `SkipOwed`: a refresh pass in which a subroutine asks for a requeue removes the refresh
  label all the same (`lifecycle.go` 179-188 does not look at the result). The requeued pass
  then finds the generation observed, the time not come and no label, and is skipped; the log
  calls that "Completed reconciliation, no processing needed" (`spread.go` 44). The work is
  resumed at the next reconcile time, up to a day later.
* `Label`: when the label's patch fails, `HandleClientError` is given `err`, which is nil, in
  place of `updateErr` (185). The pass reports success, the label stays, a requeue wish is lost.
* `ReadOnlyStatus`: removing an initializer or a terminator patches the status in read-only
  mode (151, 158), which "will not update the status" (`controllerruntime/lifecycle.go` 124, and the same at
  `multicluster/lifecycle.go` 144).
* `FinalLoop`: a final error with the refresh label set leaves the label (117-125). Every pass is
  then required, draws another next reconcile time, writes it, and the write's own
  event starts the next pass, without the rate limiter.

One more disagreement of a document with the code is in the model and holds there by the code's
side. `src/controller/README.md` 131 says of `debugLabelValue` "If the value is empty string, all
resources will be reconciled"; `filter.go` 19-32 compares for equality, so that the empty
value lets only objects without the label through (`filter.go` 14 says so too). `Operator` has
controllers with the empty value; `HandedOver` states what the code does, namely that
they leave a labelled object alone, and the variant `DigestedAllIfEmpty`, which does what
the README says, violates it.

Seen while modelling, without a run of their own: a pass that read the object from a lagging
cache and learns of the deletion from its finalizer patch finalizes in forward order, with
`_Ready` conditions and without removing the terminator (58, 92, against the comment at
89); a subroutine that is a Terminator is terminated while it has finalizers, and they are never
taken off, so the deletion does not complete (203 comes before 213; `subroutine.go` 19-20 speaks
of objects "without finalizer"); a subroutine that was complete and asks for a requeue
keeps its condition True, since 134 leaves out the call that would reach "processing is still
processing" (`conditions.go` 102); a maximum backoff below the static delay passes
`validate` and makes the delay shrink when the window ends; two subroutines that share a
finalizer name skip the second one's Finalize after the first one's removal (213); a final error
drops the requeue an earlier subroutine of the pass asked for (124; in the model, `dropped`); the next reconcile time may pass
between `ReconcileRequired` and `OnNextReconcile`, whose negative `RequeueAfter` then requeues
nothing (`spread.go` 43).

About the process: `BuildControllerRuntime` drops a terminator and an initializer that the
builder was given (`builder.go` 67), without a word; options set on a manager after
`SetupWithManager` escape its checks; a pass that is in backoff, or asked for a
requeue, keeps a controller busy with an object whose label already names another
(`HandedOver` therefore waits for the last timer); `Recover`, called inside the deferred
function (`context.go` 33), recovers nothing; the flush to Sentry may take five seconds and the default
wait at shutdown is three, so that with both defaults the assumption on `WorkTime` may
not hold.

About requests: a SPIFFE id is cut at its first digit, capital or underscore (`jwt/spiffe.go` 8),
so that services share a user, and its rights, that `StoreSpiffeHeader` seems to keep apart
("extracts a SPIFFE URL", `middleware/spiffe.go` 10); outside the tests nothing sets the directive's configuration
(`directive/config.go` 7), so the directive lets everything pass unless the service does;
the retriever's key joins issuer and audiences with a dash, which two different tokens may
spell alike; `ancestorOfCause` compares the last element of the two stacks for each
index (`errors.go` 108-112), so that any two stacks ending alike count as ancestors.

## Not modelled

* watches and predicates other than the label filter, and the names and concurrency of
  controllers; what subroutines do; generated mocks, test support;
* `fga/model`, `fga/util`, `controller/errors`, the conditions service: stateless, and called by
  nothing in the repository besides tests;
* `oauth`: one request per call, the caching is the oauth2 library's;
* sentry (but for its flush at shutdown), logger, traces, config, the stack traces of `errors`, the
  middlewares for request id, logger and sentry: they keep no state and decide nothing;
* several pages of `ListStores`, several OpenFGA servers behind the one cache of `fga/helpers`, the
  GraphQL server that calls the directive.

## Plan

Done: every component with state of its own. Left, in this order:

1. Algorithms: the walk over the causes of an error, the spread time in minutes.
