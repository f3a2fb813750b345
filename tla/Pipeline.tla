------------------------------ MODULE Pipeline ------------------------------
(***************************************************************************)
(* The way of a request: the router's middleware chain, composed on first  *)
(* use (infrastructure/router), the layers of pkg/security, and the        *)
(* handlers of entity/crud over a store, with the browser that keeps the   *)
(* CSRF cookie between requests. Handlers run side by side.                *)
(*                                                                         *)
(* A layer is a record with its kind, its configuration and the requests   *)
(* that skip it. A path is the sequence of its segments. What the limiter, *)
(* the evaluator, a hook and the store answer is theirs to choose; the     *)
(* store is external. A token is a number, 0 is none.                      *)
(***************************************************************************)
EXTENDS Cookies

CONSTANTS
  Requests,             \* requests of one browser, each sent once
  Shapes,               \* what they can be
  LayerGroups,          \* what Chain may make the middleware of a call of Use from
  MaxUse,               \* bound: calls of Use
  Entities,             \* ids of stored entities
  LongerSegments,       \* <<s, t>> where segment t only begins with the text s
  NoLayer, Nobody, BadCredential, Unbuilt

AllLayers == (UNION {Range(group) : group \in LayerGroups}) \ {NoLayer}
Methods == {"GET", "HEAD", "OPTIONS", "POST", "PUT", "PATCH", "DELETE"}

(* Groups are lists of layers with nil ones between, resolvers are lists   *)
(* of what a request may show.                                             *)
ASSUME PipelineAssumption ==
  /\ LayerGroups \subseteq Seq(AllLayers \cup {NoLayer})
  /\ \A shape \in Shapes :
       /\ shape.method \in Methods /\ shape.item \in BOOLEAN
       /\ \A L \in AllLayers : L.resolvers \in Seq(DOMAIN shape.credentials \cup {NoLayer})

VARIABLES
  middlewares,          \* r.middlewares, what each of them chains in its place
  wired,                \* history: the layers asked for, nil ones too
  composed,             \* the chain requests go through, or Unbuilt
  uses,                 \* calls of Use so far
  call,                 \* [requests -> the request and how far it is]
  jar,                  \* the CSRF cookie of the browser
  tokens,               \* tokens generated so far
  storedEntities       \* [entities -> "absent" or "present"]

pipeVars == <<middlewares, wired, composed, uses, call, jar, tokens, storedEntities>>

Anonymous == [subject |-> Nobody, tenant |-> 0, scopes |-> {}]
Safe(method) == method \in {"GET", "HEAD", "OPTIONS"}

Unsent ==
  [at |-> "idle", shape |-> "none", header |-> 0, cookie |-> 0, alone |-> TRUE, layer |-> 1,
   wired |-> <<>>, principal |-> Anonymous, admitted |-> FALSE, decision |-> "none",
   secured |-> {}, sets |-> 0, status |-> 0, by |-> "none", effect |-> "none", hooks |-> 0]

PipeInit ==
  /\ middlewares = <<>> /\ wired = <<>> /\ composed = Unbuilt /\ uses = 0
  /\ call = [r \in Requests |-> Unsent]
  /\ jar \in {0, 1} /\ tokens = jar     \* the browser may have been here before
  /\ storedEntities = [e \in Entities |-> "absent"]

-----------------------------------------------------------------------------
(* The router and the chain.                                               *)
InFlight == {r \in Requests : call[r].at \notin {"idle", "prepared", "done"}}

(* Chain and RequireAllOf make one middleware of several: the first is     *)
(* outermost, nil ones are skipped. A layer that is kept comes after those *)
(* kept before it (SelectSeq, said in terms the proofs can use).           *)
Chain(mws) ==
  LET kept == {i \in DOMAIN mws : mws[i] # NoLayer}
      before(i) == Cardinality({j \in kept : j < i})
  IN [n \in 1..Cardinality(kept) |-> mws[CHOOSE i \in kept : before(i) = n - 1]]

(* Mutant: Use keeps the composed chain.                                   *)
UseKeepsComposed(group) ==
  /\ uses < MaxUse /\ InFlight = {}
  /\ middlewares' = middlewares \o Chain(group)
  /\ wired' = wired \o group
  /\ uses' = uses + 1
  /\ UNCHANGED <<composed, call, jar, tokens, storedEntities>>

(* Use is for when no request is served (router.go:26-28), and is given    *)
(* the middleware of Chain: the router itself does not skip nil ones.      *)
Use(group) ==
  /\ uses < MaxUse /\ InFlight = {}
  /\ middlewares' = middlewares \o Chain(group)
  /\ wired' = wired \o group
  /\ composed' = Unbuilt
  /\ uses' = uses + 1
  /\ UNCHANGED <<call, jar, tokens, storedEntities>>

(* The page's script copies the cookie into the header when it makes the   *)
(* request; the browser adds the cookie when it sends it.                  *)
Prepare(r, shape) ==
  /\ call[r].at = "idle"
  /\ call' = [call EXCEPT ![r].at = "prepared", ![r].shape = shape,
                          ![r].header = IF shape.mirrors THEN jar ELSE 0]
  /\ UNCHANGED <<middlewares, wired, composed, uses, jar, tokens, storedEntities>>

(* ServeHTTP: the first request composes the chain, others wait for it.    *)
ServeHTTP(r) ==
  /\ call[r].at = "prepared"
  /\ composed' = IF composed = Unbuilt THEN middlewares ELSE composed
  /\ call' = [call EXCEPT ![r].at = "layers", ![r].cookie = jar, ![r].wired = wired]
  /\ UNCHANGED <<middlewares, wired, uses, jar, tokens, storedEntities>>

Shape(r) == call[r].shape
InLayers(r) == call[r].at = "layers" /\ call[r].layer <= Len(composed)
Layer(r) == composed[call[r].layer]

(* The predicates of SkipIf: a path prefix by segments, methods, bearers.  *)
Skips(L, shape) ==
  \/ \E prefix \in L.skip.paths :
       prefix = shape.path \/ (prefix # <<>> /\ IsPrefix(prefix, shape.path))
  \/ shape.method \in L.skip.methods
  \/ L.skip.bearers /\ shape.bearer

(* One step of a request; only the browser and tokens may change with it.  *)
Becomes(r, c) ==
  /\ call' = [call EXCEPT ![r] = c]
  /\ UNCHANGED <<middlewares, wired, composed, uses, jar, storedEntities>>

Pass(c) == [c EXCEPT !.layer = @ + 1]
Refuse(c, status, by) == [c EXCEPT !.at = "answered", !.status = status, !.by = by]

SkipLayer(r) ==
  /\ InLayers(r) /\ Skips(Layer(r), Shape(r))
  /\ Becomes(r, Pass(call[r]))
  /\ UNCHANGED tokens

At(r, kind) == InLayers(r) /\ Layer(r).kind = kind /\ ~Skips(Layer(r), Shape(r))

-----------------------------------------------------------------------------
(* headers: configurations merge from left to right; 0 and "" say nothing. *)
LastWord(configs, Says(_), default) ==
  LET saying == {i \in DOMAIN configs : Says(configs[i]) # 0} IN
  IF saying = {} THEN default ELSE Says(configs[Max(saying)])

Merged(configs) ==
  [hsts |-> LastWord(configs, LAMBDA c : c.hsts, 1),
   frame |-> LastWord(configs, LAMBDA c : c.frame, 1),
   sniff |-> LastWord(configs, LAMBDA c : c.sniff, 1),
   csp |-> UNION {configs[i].csp : i \in DOMAIN configs}]

(* What a response carries: -1 turns a header off.                         *)
SecurityHeaders(configs) ==
  LET m == Merged(configs) IN
  {h \in {"hsts", "frame", "sniff"} : m[h] > 0} \cup IF m.csp # {} THEN {"csp"} ELSE {}

(* A directive with a placeholder needs a nonce, which may fail.           *)
HeadersLayer(r) ==
  /\ At(r, "headers")
  /\ \/ Becomes(r, Pass([call[r] EXCEPT !.secured = SecurityHeaders(Layer(r).configs)]))
     \/ /\ "nonce" \in Merged(Layer(r).configs).csp
        /\ Becomes(r, Refuse(call[r], 500, "headers"))
  /\ UNCHANGED tokens

(* cors: a preflight ends here, allowed or not; what is allowed is echoed. *)
Preflight(shape) == shape.method = "OPTIONS" /\ shape.asksMethod

CorsLayer(r) ==
  /\ At(r, "cors")
  /\ Becomes(r, IF Preflight(Shape(r)) THEN Refuse(call[r], 204, "cors")
                ELSE Pass(call[r]))
  /\ UNCHANGED tokens

(* ratelimit: a request without a key is not limited.                      *)
LimitLayer(r) ==
  /\ At(r, "limit")
  /\ \/ Becomes(r, Pass([call[r] EXCEPT !.admitted = TRUE]))
     \/ Shape(r).limitKey # 0 /\ Becomes(r, Refuse(call[r], 429, "limit"))
  /\ UNCHANGED tokens

(* csrf: exempt paths match as text, not by segment.                       *)
Exempt(L, path) ==
  \E prefix \in L.exempt :
    \/ IsPrefix(prefix, path)
    \/ /\ Len(prefix) \in 1..Len(path)
       /\ IsPrefix(Front(prefix), path)
       /\ <<Last(prefix), path[Len(prefix)]>> \in LongerSegments

NewToken(r, c) ==
  \/ Becomes(r, Pass([c EXCEPT !.sets = tokens + 1])) /\ tokens' = tokens + 1
  \/ Becomes(r, Refuse(c, 500, "csrf")) /\ UNCHANGED tokens

CsrfLayer(r) ==
  /\ At(r, "csrf")
  /\ LET c == call[r]
         valid == c.cookie # 0 /\ c.header # 0 /\ c.cookie = c.header
     IN CASE Exempt(Layer(r), Shape(r).path) \/ (Safe(Shape(r).method) /\ c.cookie # 0) ->
               Becomes(r, Pass(c)) /\ UNCHANGED tokens
          [] ~Exempt(Layer(r), Shape(r).path) /\ ~Safe(Shape(r).method) /\ ~valid ->
               Becomes(r, Refuse(c, 403, "csrf")) /\ UNCHANGED tokens
          [] OTHER -> NewToken(r, c)

(* identity: the first resolver that finds credentials decides, good or    *)
(* bad.                                                                    *)
Found(resolvers, shape) ==
  {i \in DOMAIN resolvers :
     resolvers[i] # NoLayer /\ shape.credentials[resolvers[i]] # Anonymous}

(* Mutant: credentials that are no good are passed over.                   *)
ResolvePastErrors(resolvers, shape) ==
  LET good == {i \in Found(resolvers, shape) : shape.credentials[resolvers[i]] # BadCredential}
  IN IF good = {} THEN Anonymous ELSE shape.credentials[resolvers[Min(good)]]

Resolve(resolvers, shape) ==
  IF Found(resolvers, shape) = {} THEN Anonymous
  ELSE shape.credentials[resolvers[Min(Found(resolvers, shape))]]

IdentityLayer(r) ==
  /\ At(r, "identity")
  /\ LET who == Resolve(Layer(r).resolvers, Shape(r)) IN
     Becomes(r, IF who = BadCredential THEN Refuse(call[r], 401, "identity")
                ELSE Pass([call[r] EXCEPT !.principal = who]))
  /\ UNCHANGED tokens

(* authn: RequireAuth, RequireScopes, RequireTenant. An empty scope or     *)
(* tenant is never held.                                                   *)
Holds(L, who) ==
  CASE L.kind = "auth" -> TRUE
    [] L.kind = "scopes" -> L.scopes \subseteq who.scopes \ {0}
    [] L.kind = "tenant" -> who.tenant # 0 /\ who.tenant = L.tenant

AuthnLayer(r) ==
  /\ \E kind \in {"auth", "scopes", "tenant"} : At(r, kind)
  /\ LET who == call[r].principal IN
     Becomes(r, IF who.subject = Nobody THEN Refuse(call[r], 401, "authn")
                ELSE IF Holds(Layer(r), who) THEN Pass(call[r])
                ELSE Refuse(call[r], 403, "authn"))
  /\ UNCHANGED tokens

(* authz: the builder may fail, the evaluator may fail; only allow passes. *)
AuthzLayer(r) ==
  /\ At(r, "authz")
  /\ LET c == call[r] IN
     \/ ~Layer(r).configured /\ Becomes(r, Refuse(c, 500, "authz"))
     \/ /\ Layer(r).configured
        /\ \/ Becomes(r, Refuse(c, 400, "authz")) \/ Becomes(r, Refuse(c, 500, "authz"))
           \/ Becomes(r, Pass([c EXCEPT !.decision = "allow"]))
           \/ Becomes(r, Refuse([c EXCEPT !.decision = "other"], 403, "authz"))
  /\ UNCHANGED tokens

-----------------------------------------------------------------------------
(* crud: the mux finds the handler; decode and the Before hook, then the   *)
(* store, then the After hook and the answer. The mux has HEAD go to the   *)
(* handler of GET; other methods without a route are answered with 405.    *)
Renders == {404, 400, 409, 500}     \* ErrNotFound, ErrValidation, ErrConflict, others

Routes(item) == IF item THEN {"GET", "PUT", "DELETE"} ELSE {"GET", "POST"}
Operation(method) == IF method = "HEAD" THEN "GET" ELSE method

Handle(r) ==
  /\ call[r].at = "layers" /\ call[r].layer > Len(composed)
  /\ LET op == Operation(Shape(r).method)
         routed == op \in Routes(Shape(r).item)
         bad == op \in {"POST", "PUT"} /\ ~Shape(r).decodes
     IN \/ ~routed /\ Becomes(r, Refuse(call[r], 405, "mux"))
        \/ routed /\ bad /\ Becomes(r, Refuse(call[r], 400, "crud"))
        \/ routed /\ ~bad /\ Becomes(r, [call[r] EXCEPT !.at = "storing"])
        \/ /\ routed /\ ~bad /\ op # "GET"
           /\ \E status \in Renders : Becomes(r, Refuse(call[r], status, "crud"))
  /\ UNCHANGED tokens

(* The store's own answer: what must exist does, or else does not; a list  *)
(* may be empty.                                                           *)
StoreRefuses(op, item, e) ==
  CASE op = "POST" /\ storedEntities[e] = "present" -> 409
    [] item /\ storedEntities[e] = "absent" -> 404
    [] OTHER -> 0

StoreCall(r) ==
  /\ call[r].at = "storing"
  /\ LET e == Shape(r).entity
         op == Operation(Shape(r).method)
         refusal == StoreRefuses(op, Shape(r).item, e)
     IN \/ /\ refusal # 0
           /\ call' = [call EXCEPT ![r] = Refuse(@, refusal, "crud")]
           /\ UNCHANGED storedEntities
        \/ /\ call' = [call EXCEPT ![r] = Refuse(@, 500, "crud")]
           /\ UNCHANGED storedEntities
        \/ /\ refusal = 0
           /\ call' = [call EXCEPT ![r].at = "rendering", ![r].effect = op,
                                   ![r].hooks = IF op = "GET" THEN 0 ELSE 1]
           /\ storedEntities' = [storedEntities EXCEPT ![e] =
                CASE op = "GET" -> @ [] op = "DELETE" -> "absent" [] OTHER -> "present"]
  /\ UNCHANGED <<middlewares, wired, composed, uses, jar, tokens>>

(* writeJSON: a body that does not encode is answered with 500, though     *)
(* the store has done its part.                                            *)
Render(r) ==
  /\ call[r].at = "rendering"
  /\ LET method == Shape(r).method
         good == CASE method = "POST" -> 201 [] method = "DELETE" -> 204 [] OTHER -> 200
     IN \/ Becomes(r, Refuse(call[r], good, "crud"))
        \/ method # "DELETE" /\ Becomes(r, Refuse(call[r], 500, "encoding"))
  /\ UNCHANGED tokens

(* The browser takes the answer and the cookie that came with it.          *)
Receive(r) ==
  /\ call[r].at = "answered"
  /\ call' = [x \in Requests |->
                IF x = r THEN [call[r] EXCEPT !.at = "done"]
                ELSE IF call[x].at = "prepared" /\ call[r].sets # 0
                     THEN [call[x] EXCEPT !.alone = FALSE]
                ELSE call[x]]
  /\ jar' = IF call[r].sets # 0 THEN call[r].sets ELSE jar
  /\ UNCHANGED <<middlewares, wired, composed, uses, tokens, storedEntities>>

PipeNext ==
  \/ \E group \in LayerGroups : Use(group)
  \/ \E r \in Requests :
       \/ \E shape \in Shapes : Prepare(r, shape)
       \/ ServeHTTP(r) \/ SkipLayer(r) \/ HeadersLayer(r) \/ CorsLayer(r) \/ LimitLayer(r)
       \/ CsrfLayer(r) \/ IdentityLayer(r) \/ AuthnLayer(r) \/ AuthzLayer(r)
       \/ Handle(r) \/ StoreCall(r) \/ Render(r) \/ Receive(r)

-----------------------------------------------------------------------------
(* Who a request is at layer i of a chain: an identity layer before it,    *)
(* with none after that one, and there a resolver all of whose elders      *)
(* found nothing.                                                          *)
Identifies(L, shape) == L # NoLayer /\ L.kind = "identity" /\ ~Skips(L, shape)

Decides(resolvers, credentials, who) ==
  LET said(k) == credentials[resolvers[k]] IN
  \E k \in DOMAIN resolvers :
    /\ resolvers[k] # NoLayer /\ said(k) = who
    /\ \A l \in 1..(k - 1) : resolvers[l] = NoLayer \/ said(l) = Anonymous

Identified(layers, shape, i, who) ==
  \E j \in 1..(i - 1) :
    /\ Identifies(layers[j], shape)
    /\ \A k \in (j + 1)..(i - 1) : ~Identifies(layers[k], shape)
    /\ Decides(layers[j].resolvers, shape.credentials, who)

(* What layer i of a chain lets through, if the request does not skip it.  *)
LetThrough(layers, i, c) ==
  LET L == layers[i] IN
  L # NoLayer /\ ~Skips(L, c.shape) =>
    CASE L.kind \in {"auth", "scopes", "tenant"} ->
           \E x \in DOMAIN c.shape.credentials :
             LET who == c.shape.credentials[x] IN
             /\ who \notin {Anonymous, BadCredential}
             /\ Identified(layers, c.shape, i, who) /\ Holds(L, who)
      [] L.kind = "csrf" -> \/ Safe(c.shape.method) \/ Exempt(L, c.shape.path)
                            \/ c.cookie # 0 /\ c.header = c.cookie
      [] L.kind = "cors" -> ~Preflight(c.shape)
      [] L.kind = "limit" -> c.admitted
      [] L.kind = "authz" -> c.decision = "allow"
      [] OTHER -> TRUE

(* The store does something for a request only when every layer that was   *)
(* registered by then, and that the request does not skip, let it through: *)
(* whoever it is was found by a resolver none before which found bad       *)
(* credentials, and has what is required; its token matches; the limiter   *)
(* and the evaluator allowed it (router.go:120-124, chain.go:15-32,        *)
(* identity/chain.go:22-27).                                               *)
EffectsGuarded ==
  \A r \in Requests :
    call[r].effect # "none" =>
      \A i \in DOMAIN call[r].wired : LetThrough(call[r].wired, i, call[r])

(* An answer tells what happened: a good one that the store did it and the *)
(* After hook ran, a refusal that nothing was done, and only a body that   *)
(* does not encode hides what was done behind a 500 (crud.go:164-242,      *)
(* encoding.go:38-45).                                                     *)
AnswersHonest ==
  \A r \in Requests :
    LET c == call[r] IN
    c.at \in {"answered", "done"} =>
      /\ (c.by = "crud" /\ c.status < 300) <=> (c.effect # "none" /\ c.by # "encoding")
      /\ c.effect # "none" => c.hooks = IF c.effect = "GET" THEN 0 ELSE 1
      /\ c.by = "crud" /\ c.status < 300 => c.effect = Operation(c.shape.method)

(* An honest page is refused for its token only if it had none when it     *)
(* made the request, or another answer rotated it before it was sent       *)
(* (csrf.go:55-66).                                                        *)
RotationSpares ==
  \A r \in Requests :
    call[r].by = "csrf" /\ call[r].status = 403 /\ call[r].shape.mirrors =>
      call[r].header = 0 \/ ~call[r].alone

(* What the pipeline promises, and the cookies it uses.                    *)
PipelineGuards == EffectsGuarded /\ AnswersHonest /\ RotationSpares /\ KindsKept
=============================================================================
