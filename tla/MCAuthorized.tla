---------------------------- MODULE MCAuthorized ----------------------------
(* Constant values for the run of Authorized: pairs of requests.            *)
EXTENDS Authorized

\* Each issuer has a tenant of its own.
MCMappings == { [k1 |-> "t1", k2 |-> "t2"] }

\* Both tenants have a store.
MCOnboarded == { {"t1", "t2"} }

\* One user may act in the first tenant, the other in both.
MCHolders == { {<<"t1", "u">>, <<"t1", "v">>, <<"t2", "v">>} }

Token(k, u) == [key |-> k, subject |-> u]
\* A service, another that differs from it in a digit alone and so is the same
\* user, and one whose id is in capitals, of which nothing is left.
MCCut == [v |-> "v", v1 |-> "v", V |-> None]

Plain(k, u) == [header |-> "bearer", token |-> Token(k, u), cert |-> None,
                technical |-> FALSE, arg |-> Unset, object |-> TRUE]
Service(i, t) == [header |-> "none", token |-> NoToken, cert |-> i,
                  technical |-> FALSE, arg |-> t, object |-> TRUE]

\* Users of two tenants, one of whom names the tenant of the other; a technical
\* user and a service that name a tenant each; two services of one user; and,
\* beside users with a certificate as well, requests that lack something.
MCJobs ==
  { [p |-> Plain("k1", "u"), q |-> [Plain("k2", "v") EXCEPT !.arg = "t1"]],
    [p |-> [Plain("k1", "u") EXCEPT !.technical = TRUE, !.arg = "t2"], q |-> Service("v1", "t2")],
    [p |-> Service("v", "t1"), q |-> Service("v1", "t2")],
    [p |-> [Plain("k2", "u") EXCEPT !.cert = "v1"], q |-> [Plain("k2", "u") EXCEPT !.object = FALSE]],
    [p |-> [Plain("k1", Nobody) EXCEPT !.cert = "V", !.arg = "t2"], q |-> Service("V", "t2")],
    [p |-> [Service("v1", "t2") EXCEPT !.header = "bearer"],
     q |-> [Plain("k1", "u") EXCEPT !.technical = TRUE, !.arg = "nil"]] }
=============================================================================
