----------------------------- MODULE MCRuntime -----------------------------
(* What a running application leans on: the cache, the rate limiter, the   *)
(* rule registry, retries, cookies and the way of a request. Each          *)
(* behaviour looks at one of them.                                         *)
EXTENDS Cache, TokenBucket, RuleRegistry, Retry, Pipeline

CONSTANTS k1, k2, k3, b1, b2, c1, c2, r1, r2, e1

VARIABLE part

vars == <<part, cacheVars, bucketVars, ruleVars, retryVars, cookieVars, pipeVars>>

-----------------------------------------------------------------------------
(* Policies: capped and uncapped, refused ones, one without pauses.        *)
PolicyOf(n, first, max, factor, jitter) ==
  [maxAttempts |-> n, initialDelay |-> first, maxDelay |-> max, multiplier |-> factor,
   jitter |-> jitter]
SomePolicies ==
  {PolicyOf(n, first, max, factor, jitter) :
     n \in {0, 1, 3}, first \in {-1, 0, 10, 30}, max \in {-1, 0, 20}, factor \in {0, 200, 50},
     jitter \in {0, 10, 101}}

-----------------------------------------------------------------------------
(* Cookies: two built-in kinds, names written two ways.                    *)
ProfileOf(name, path) == [name |-> name, path |-> path, age |-> 1]
BuiltIn == <<ProfileOf(Plain(1), 1), ProfileOf(Plain(2), 1)>>
SomeProfiles ==
  {ProfileOf(n, p) : n \in {Padded(1), Plain(3), Padded(3), Plain(4), Plain(5), Plain(7), Padded(0)},
                     p \in {0, 2, 6}}
SomeSettings ==
  {[domain |-> d, secure |-> s, ages |-> [k \in Kinds |-> a]] :
     d \in {0, 1}, s \in BOOLEAN, a \in {0, 5}}

-----------------------------------------------------------------------------
(* Requests: who sends what with which credentials.                        *)
Alice == [subject |-> "alice", tenant |-> 1, scopes |-> {1}]
Bob == [subject |-> "bob", tenant |-> 2, scopes |-> {0}]
ShapeOf(method, path, mirrors, session, token) ==
  [method |-> method, path |-> path, item |-> Len(path) = 2, mirrors |-> mirrors,
   asksMethod |-> method = "OPTIONS", limitKey |-> 1,
   credentials |-> [session |-> session, token |-> token],
   bearer |-> token # Anonymous, decodes |-> TRUE, entity |-> e1]
SomeShapes ==
  { ShapeOf("POST", <<"items">>, TRUE, Alice, Anonymous),
    ShapeOf("DELETE", <<"items", "1">>, TRUE, Bob, Alice),
    ShapeOf("GET", <<"items", "1">>, FALSE, Anonymous, Alice),
    [ShapeOf("PUT", <<"hooks", "1">>, FALSE, BadCredential, Alice) EXCEPT !.limitKey = 0],
    [ShapeOf("POST", <<"hook">>, FALSE, Anonymous, Anonymous) EXCEPT !.decodes = FALSE],
    ShapeOf("HEAD", <<"items">>, FALSE, Alice, Anonymous),
    ShapeOf("PATCH", <<"items", "1">>, TRUE, Alice, Anonymous),
    ShapeOf("OPTIONS", <<"items">>, FALSE, Anonymous, Anonymous) }

SomeLonger == {<<"hook", "hooks">>}

NoSkip == [paths |-> {}, methods |-> {}, bearers |-> FALSE]
LayerOf(kind) ==
  [kind |-> kind, skip |-> NoSkip, configs |-> <<>>, exempt |-> {}, resolvers |-> <<>>,
   scopes |-> {}, tenant |-> 0, configured |-> TRUE]
Identity(resolvers) == [LayerOf("identity") EXCEPT !.resolvers = resolvers]
SaysOf(hsts, frame, sniff, csp) == [hsts |-> hsts, frame |-> frame, sniff |-> sniff, csp |-> csp]
SomeGroups ==
  { <<Identity(<<"session", NoLayer, "token">>), LayerOf("auth")>>,
    << LayerOf("cors"),
       [LayerOf("csrf") EXCEPT !.exempt = {<<"hook">>}, !.skip.bearers = TRUE] >>,
    << [LayerOf("headers") EXCEPT !.configs = <<SaysOf(0, -1, 0, {"nonce"}), SaysOf(2, 1, 0, {})>>],
       NoLayer, LayerOf("limit"), LayerOf("csrf") >>,
    << [LayerOf("scopes") EXCEPT !.scopes = {1}, !.skip.methods = {"GET"}],
       [LayerOf("tenant") EXCEPT !.tenant = 1, !.skip.paths = {<<"hook">>, <<"hooks">>}],
       [LayerOf("authz") EXCEPT !.configured = FALSE, !.skip.methods = {"POST", "PUT", "DELETE"}] >>,
    << LayerOf("authz"), Identity(<<"token">>) >> }

-----------------------------------------------------------------------------
Init ==
  /\ part \in {"cache", "bucket", "rules", "retry", "cookies", "pipeline"}
  /\ CacheInit /\ BucketInit /\ RuleInit /\ RetryInit /\ CookieInit /\ PipeInit

Next ==
  /\ UNCHANGED part
  /\ IF part = "cache" THEN CacheNext ELSE UNCHANGED cacheVars
  /\ IF part = "bucket" THEN BucketNext ELSE UNCHANGED bucketVars
  /\ IF part = "rules" THEN RuleNext ELSE UNCHANGED ruleVars
  /\ IF part = "retry" THEN RetryNext ELSE UNCHANGED retryVars
  /\ IF part = "cookies" THEN CookieNext ELSE UNCHANGED cookieVars
  /\ IF part = "pipeline" THEN PipeNext ELSE UNCHANGED pipeVars

Spec == Init /\ [][Next]_vars
=============================================================================
