-------------------------- MODULE Pipeline_proofs --------------------------
(***************************************************************************)
(* What the pipeline guards, for any chain of layers, any requests side by *)
(* side and any store: the effects of a request are those of a request     *)
(* that every layer let through, answers are honest, the rotation of a     *)
(* token spares an honest page, and kinds of cookies are kept.             *)
(***************************************************************************)
EXTENDS Pipeline, DataLemmas

(* Requests go their way while kinds of cookies are registered.            *)
PipelineInit == PipeInit /\ CookieInit

PipelineNext ==
  \/ PipeNext /\ UNCHANGED cookieVars
  \/ CookieNext /\ UNCHANGED pipeVars

PipelineSpec == PipelineInit /\ [][PipelineNext]_<<pipeVars, cookieVars>>

-----------------------------------------------------------------------------
(* The inductive invariant.                                                *)
Lists == Seq(AllLayers \cup {NoLayer})
Credentials == UNION {Range(shape.credentials) : shape \in Shapes}
Refusers ==
  {"headers", "cors", "limit", "csrf", "identity", "authn", "authz", "mux"}

CallType ==
  [at : {"idle", "prepared", "layers", "storing", "rendering", "answered", "done"},
   shape : Shapes \cup {"none"}, header : Nat, cookie : Nat, alone : BOOLEAN,
   layer : Nat \ {0}, wired : Lists, principal : Credentials \cup {Anonymous},
   admitted : BOOLEAN, decision : {"none", "allow", "other"},
   secured : SUBSET {"hsts", "frame", "sniff", "csp"}, sets : Nat, status : Nat,
   by : Refusers \cup {"none", "crud", "encoding"},
   effect : Methods \cup {"none"}, hooks : {0, 1}]

(* Every part of a request and of the router stays in its type, and one    *)
(* that was made has a shape.                                              *)
PipeTypeOK ==
  /\ wired \in Lists /\ uses \in Nat
  /\ call \in [Requests -> CallType]
  /\ \A r \in Requests : call[r].at # "idle" => call[r].shape \in Shapes
  /\ jar \in Nat /\ tokens \in Nat
  /\ storedEntities \in [Entities -> {"absent", "present"}]

Served(c) == c.at \notin {"idle", "prepared", "done"}

(* m holds the layers of w that are not nil, each once and in their order. *)
Places(m, w) ==
  /\ m \in Seq(AllLayers)
  /\ \E pos \in [1..Len(m) -> DOMAIN w] :
       /\ \A n \in 1..Len(m) : m[n] = w[pos[n]] /\ w[pos[n]] # NoLayer
       /\ \A k, n \in 1..Len(m) : k < n => pos[k] < pos[n]
       /\ \A i \in DOMAIN w : w[i] # NoLayer => \E n \in 1..Len(m) : pos[n] = i

(* The router has the layers asked for. A chain that is there is that of   *)
(* the router, also for those that were already on their way.              *)
ChainInv ==
  /\ Places(middlewares, wired)
  /\ composed \in {Unbuilt, middlewares}
  /\ \A r \in Requests :
       Served(call[r]) => call[r].wired = wired /\ composed = middlewares

(* The layers behind a request let it through, and who it is by now is     *)
(* somebody that the last identity layer behind it found.                  *)
LayerInv ==
  \A r \in Requests :
    LET c == call[r] IN
    /\ c.at \in {"idle", "prepared"} => c.layer = 1 /\ c.principal = Anonymous
    /\ c.at = "layers" =>
         /\ \A i \in 1..(c.layer - 1) : LetThrough(composed, i, c)
         /\ c.principal # Anonymous =>
              c.principal # BadCredential /\ Identified(composed, c.shape, c.layer, c.principal)

(* Behind the layers, all of them did.                                     *)
ThroughInv ==
  \A r \in Requests :
    LET c == call[r] IN
    c.at \in {"storing", "rendering"} \/ c.effect # "none" =>
      \A i \in DOMAIN c.wired : LetThrough(c.wired, i, c)

Good(c) == c.by = "encoding" \/ (c.by = "crud" /\ c.status < 300)

(* The effect is there from the store on; only an answer has an author.    *)
AnswerInv ==
  \A r \in Requests :
    LET c == call[r]
        over == c.at \in {"answered", "done"}
    IN /\ ~over => c.by = "none"
       /\ c.effect # "none" <=> c.at = "rendering" \/ (over /\ Good(c))
       /\ c.effect # "none" => /\ c.effect = Operation(c.shape.method)
                               /\ c.hooks = IF c.effect = "GET" THEN 0 ELSE 1

(* Until an answer sets another, an honest page has the cookie's token.    *)
TokenInv ==
  \A r \in Requests :
    LET c == call[r] IN
    /\ c.at = "prepared" /\ c.shape.mirrors /\ c.alone => c.header = jar
    /\ c.at = "layers" /\ c.shape.mirrors /\ c.alone => c.header = c.cookie

IInv ==
  /\ PipeTypeOK /\ ChainInv /\ LayerInv /\ ThroughInv /\ AnswerInv /\ TokenInv
  /\ RotationSpares

(* Kinds are numbered without gaps, and never share a name.                *)
CookieInv ==
  /\ handedOut = kindProfiles
  /\ \E n \in 0..MaxKinds : DOMAIN kindProfiles = 1..n
  /\ \A k, l \in DOMAIN kindProfiles :
       k # l => Trim(kindProfiles[k].name) # Trim(kindProfiles[l].name)

-----------------------------------------------------------------------------
(* Chain keeps the layers that are not nil, each once and in their order.  *)
LEMMA ChainPlaces ==
  ASSUME NEW w \in Lists
  PROVE  Places(Chain(w), w)
<1> DEFINE kept == {i \in DOMAIN w : w[i] # NoLayer}
           size == Cardinality(kept)
           pos == [n \in 1..size |-> Nth(kept, n)]
<1>1. /\ Len(w) \in Nat /\ DOMAIN w = 1..Len(w)
      /\ \A i \in DOMAIN w : w[i] \in AllLayers \cup {NoLayer}
  BY DEF Lists
<1>2. Chain(w) = [n \in 1..size |-> w[Nth(kept, n)]]
  BY DEF Chain, Nth
<1>3. /\ kept \subseteq DOMAIN w
      /\ \A i \in DOMAIN w : i \in kept <=> w[i] # NoLayer
  OBVIOUS
<1> HIDE DEF kept
<1>4. IsFiniteSet(kept) /\ kept \subseteq Nat
  <2>1. IsFiniteSet(1..Len(w))
    BY <1>1, FS_Interval
  <2> QED
    BY <1>1, <1>3, <2>1, FS_Subset
<1>5. /\ size \in Nat
      /\ \A n \in 1..size : Nth(kept, n) \in kept
      /\ \A m, n \in 1..size : m < n => Nth(kept, m) < Nth(kept, n)
      /\ \A i \in kept : \E n \in 1..size : Nth(kept, n) = i
  BY <1>4, NthProperties
<1>6. /\ pos \in [1..size -> DOMAIN w]
      /\ \A n \in 1..size : pos[n] = Nth(kept, n)
  BY <1>3, <1>5
<1> HIDE DEF pos, size
<1>7. Chain(w) \in Seq(AllLayers) /\ Len(Chain(w)) = size
  <2>1. \A n \in 1..size : w[Nth(kept, n)] \in AllLayers
    BY <1>1, <1>3, <1>5
  <2>2. Chain(w) \in [1..size -> AllLayers]
    BY <1>2, <2>1
  <2> QED
    BY <1>5, <2>2
<1>8. /\ \A n \in 1..size : Chain(w)[n] = w[pos[n]] /\ w[pos[n]] # NoLayer
      /\ \A m, n \in 1..size : m < n => pos[m] < pos[n]
      /\ \A i \in DOMAIN w : w[i] # NoLayer => \E n \in 1..size : pos[n] = i
  BY <1>2, <1>3, <1>5, <1>6
<1> QED
  BY <1>6, <1>7, <1>8 DEF Places

(* What is kept of two lists, one after the other, is kept of both.        *)
LEMMA PlacesJoin ==
  ASSUME NEW m, NEW w \in Lists, NEW n, NEW v \in Lists, Places(m, w), Places(n, v)
  PROVE  Places(m \o n, w \o v)
<1>1. /\ m \in Seq(AllLayers) /\ Len(m) \in Nat /\ DOMAIN m = 1..Len(m)
      /\ n \in Seq(AllLayers) /\ Len(n) \in Nat /\ DOMAIN n = 1..Len(n)
      /\ Len(w) \in Nat /\ DOMAIN w = 1..Len(w) /\ Len(v) \in Nat /\ DOMAIN v = 1..Len(v)
  BY DEF Places, Lists
<1>2. PICK a \in [1..Len(m) -> DOMAIN w] :
        /\ \A k \in 1..Len(m) : m[k] = w[a[k]] /\ w[a[k]] # NoLayer
        /\ \A k, l \in 1..Len(m) : k < l => a[k] < a[l]
        /\ \A i \in DOMAIN w : w[i] # NoLayer => \E k \in 1..Len(m) : a[k] = i
  BY DEF Places
<1>3. PICK b \in [1..Len(n) -> DOMAIN v] :
        /\ \A k \in 1..Len(n) : n[k] = v[b[k]] /\ v[b[k]] # NoLayer
        /\ \A k, l \in 1..Len(n) : k < l => b[k] < b[l]
        /\ \A i \in DOMAIN v : v[i] # NoLayer => \E k \in 1..Len(n) : b[k] = i
  BY DEF Places
<1> DEFINE size == Len(m) + Len(n)
           total == Len(w) + Len(v)
           pos == [k \in 1..size |-> IF k <= Len(m) THEN a[k] ELSE Len(w) + b[k - Len(m)]]
<1>4. /\ m \o n \in Seq(AllLayers) /\ Len(m \o n) = size
      /\ \A k \in 1..size : (m \o n)[k] = IF k <= Len(m) THEN m[k] ELSE n[k - Len(m)]
  BY <1>1, ConcatProperties
<1>5. /\ DOMAIN (w \o v) = 1..total
      /\ \A i \in 1..total : (w \o v)[i] = IF i <= Len(w) THEN w[i] ELSE v[i - Len(w)]
  BY <1>1, ConcatProperties DEF Lists
<1>6. ASSUME NEW k \in 1..Len(m)
      PROVE  k \in 1..size /\ pos[k] = a[k] /\ a[k] \in 1..Len(w)
  <2>1. k \in 1..size /\ k <= Len(m)
    BY <1>1
  <2> QED
    BY <1>1, <2>1
<1>7. ASSUME NEW k \in 1..Len(n)
      PROVE  /\ Len(m) + k \in 1..size /\ ~(Len(m) + k <= Len(m))
             /\ pos[Len(m) + k] = Len(w) + b[k] /\ b[k] \in 1..Len(v)
  <2>1. /\ Len(m) + k \in 1..size /\ ~(Len(m) + k <= Len(m)) /\ (Len(m) + k) - Len(m) = k
    BY <1>1
  <2> QED
    BY <1>1, <2>1
<1>8. \A k \in 1..size : \/ k \in 1..Len(m)
                        \/ \E l \in 1..Len(n) : k = Len(m) + l
  <2> SUFFICES ASSUME NEW k \in 1..size, k \notin 1..Len(m)
               PROVE  k - Len(m) \in 1..Len(n) /\ k = Len(m) + (k - Len(m))
    OBVIOUS
  <2> QED
    BY <1>1
<1>9. DOMAIN pos = 1..size
  OBVIOUS
<1> HIDE DEF pos
<1>10. ASSUME NEW k \in 1..size PROVE pos[k] \in 1..total
  <2>1. CASE k \in 1..Len(m)
    <3>1. pos[k] \in 1..Len(w)
      BY <1>6, <2>1
    <3> QED
      BY <1>1, <3>1
  <2>2. CASE k \notin 1..Len(m)
    <3>1. PICK l \in 1..Len(n) : k = Len(m) + l
      BY <1>8, <2>2
    <3>2. pos[k] = Len(w) + b[l] /\ b[l] \in 1..Len(v)
      BY <1>7, <3>1
    <3> QED
      BY <1>1, <3>2
  <2> QED
    BY <2>1, <2>2
<1>11. pos \in [1..size -> 1..total]
  <2>1. pos = [k \in 1..size |-> pos[k]]
    BY <1>9 DEF pos
  <2> QED
    BY <1>10, <2>1
<1>12. \A k \in 1..size : (m \o n)[k] = (w \o v)[pos[k]] /\ (w \o v)[pos[k]] # NoLayer
  <2>1. ASSUME NEW k \in 1..Len(m)
        PROVE  (m \o n)[k] = (w \o v)[pos[k]] /\ (w \o v)[pos[k]] # NoLayer
    <3>1. (m \o n)[k] = m[k]
      BY <1>1, <1>4, <1>6
    <3>2. (w \o v)[a[k]] = w[a[k]]
      BY <1>1, <1>5, <1>6
    <3> QED
      BY <1>2, <1>6, <3>1, <3>2
  <2>2. ASSUME NEW k \in 1..Len(n)
        PROVE  /\ (m \o n)[Len(m) + k] = (w \o v)[pos[Len(m) + k]]
               /\ (w \o v)[pos[Len(m) + k]] # NoLayer
    <3>1. (m \o n)[Len(m) + k] = n[k]
      BY <1>1, <1>4, <1>7
    <3>2. (w \o v)[Len(w) + b[k]] = v[b[k]]
      <4>1. Len(w) + b[k] \in 1..total /\ ~(Len(w) + b[k] <= Len(w))
            /\ (Len(w) + b[k]) - Len(w) = b[k]
        BY <1>1, <1>7
      <4> QED
        BY <1>5, <4>1
    <3> QED
      BY <1>3, <1>7, <3>1, <3>2
  <2> QED
    BY <1>8, <2>1, <2>2
<1>13. ASSUME NEW k \in 1..size, NEW l \in 1..size, k < l PROVE pos[k] < pos[l]
  <2>1. CASE k \in 1..Len(m) /\ l \in 1..Len(m)
    BY <1>2, <1>6, <1>13, <2>1
  <2>2. CASE k \in 1..Len(m) /\ l \notin 1..Len(m)
    <3>1. PICK j \in 1..Len(n) : l = Len(m) + j
      BY <1>8, <2>2
    <3>2. pos[k] \in 1..Len(w) /\ pos[l] = Len(w) + b[j] /\ b[j] \in 1..Len(v)
      BY <1>6, <1>7, <2>2, <3>1
    <3> QED
      BY <1>1, <3>2
  <2>3. CASE k \notin 1..Len(m) /\ l \notin 1..Len(m)
    <3>1. PICK i \in 1..Len(n) : k = Len(m) + i
      BY <1>8, <2>3
    <3>2. PICK j \in 1..Len(n) : l = Len(m) + j
      BY <1>8, <2>3
    <3>3. i < j
      BY <1>1, <1>13, <3>1, <3>2
    <3>4. b[i] < b[j] /\ b[i] \in 1..Len(v) /\ b[j] \in 1..Len(v)
      <4>1. b[i] < b[j]
        BY <1>3, <3>3, Zenon
      <4> QED
        BY <1>7, <4>1
    <3>5. pos[k] = Len(w) + b[i] /\ pos[l] = Len(w) + b[j]
      BY <1>7, <3>1, <3>2
    <3> QED
      BY <1>1, <3>4, <3>5
  <2>4. ~(k \notin 1..Len(m) /\ l \in 1..Len(m))
    BY <1>1, <1>13
  <2> QED
    BY <2>1, <2>2, <2>3, <2>4
<1>14. ASSUME NEW i \in 1..total, (w \o v)[i] # NoLayer
       PROVE  \E k \in 1..size : pos[k] = i
  <2>1. CASE i <= Len(w)
    <3>1. i \in 1..Len(w) /\ w[i] # NoLayer
      BY <1>1, <1>5, <1>14, <2>1
    <3>2. PICK k \in 1..Len(m) : a[k] = i
      BY <1>2, <3>1
    <3> QED
      BY <1>6, <3>2
  <2>2. CASE ~(i <= Len(w))
    <3>1. i - Len(w) \in 1..Len(v) /\ v[i - Len(w)] # NoLayer
      BY <1>1, <1>5, <1>14, <2>2
    <3>2. PICK k \in 1..Len(n) : b[k] = i - Len(w)
      BY <1>1, <1>3, <3>1
    <3>3. Len(w) + b[k] = i
      BY <1>1, <3>2
    <3> QED
      BY <1>7, <3>3
  <2> QED
    BY <2>1, <2>2
<1> HIDE DEF size, total
<1>15. Len(m \o n) = size /\ DOMAIN (w \o v) = 1..total
  BY <1>4, <1>5
<1>16. pos \in [1..Len(m \o n) -> DOMAIN (w \o v)]
  BY <1>11, <1>15
<1>17. /\ \A k \in 1..Len(m \o n) : (m \o n)[k] = (w \o v)[pos[k]] /\ (w \o v)[pos[k]] # NoLayer
       /\ \A k, l \in 1..Len(m \o n) : k < l => pos[k] < pos[l]
       /\ \A i \in DOMAIN (w \o v) :
            (w \o v)[i] # NoLayer => \E k \in 1..Len(m \o n) : pos[k] = i
  BY <1>12, <1>13, <1>14, <1>15
<1> QED
  BY <1>4, <1>16, <1>17 DEF Places

(* What all layers of a chain let through, all registered ones did.        *)
LEMMA ChainGuards ==
  ASSUME NEW w \in Lists, NEW m, NEW c, Places(m, w),
         \A n \in 1..Len(m) : LetThrough(m, n, c)
  PROVE  \A i \in DOMAIN w : LetThrough(w, i, c)
<1> SUFFICES ASSUME NEW i \in DOMAIN w, w[i] # NoLayer
             PROVE  LetThrough(w, i, c)
  BY DEF LetThrough
<1>1. Len(w) \in Nat /\ DOMAIN w = 1..Len(w) /\ Len(m) \in Nat
  BY DEF Places, Lists
<1>2. PICK pos \in [1..Len(m) -> DOMAIN w] :
        /\ \A n \in 1..Len(m) : m[n] = w[pos[n]] /\ w[pos[n]] # NoLayer
        /\ \A k, n \in 1..Len(m) : k < n => pos[k] < pos[n]
        /\ \A x \in DOMAIN w : w[x] # NoLayer => \E n \in 1..Len(m) : pos[n] = x
  BY DEF Places
<1>3. PICK n \in 1..Len(m) : pos[n] = i
  BY <1>2
<1>4. m[n] = w[i] /\ LetThrough(m, n, c)
  BY <1>2, <1>3
<1>5. ASSUME NEW who, Identified(m, c.shape, n, who)
      PROVE  Identified(w, c.shape, i, who)
  <2>1. PICK j \in 1..(n - 1) :
          /\ Identifies(m[j], c.shape)
          /\ \A k \in (j + 1)..(n - 1) : ~Identifies(m[k], c.shape)
          /\ Decides(m[j].resolvers, c.shape.credentials, who)
    BY <1>5 DEF Identified
  <2>2. j \in 1..Len(m) /\ j < n
    BY <1>1, <2>1
  <2>3. pos[j] \in 1..(i - 1) /\ m[j] = w[pos[j]]
    BY <1>1, <1>2, <1>3, <2>2
  <2>4. ASSUME NEW k \in (pos[j] + 1)..(i - 1) PROVE ~Identifies(w[k], c.shape)
    <3> SUFFICES ASSUME Identifies(w[k], c.shape) PROVE FALSE
      OBVIOUS
    <3>1. k \in DOMAIN w /\ w[k] # NoLayer
      BY <1>1, <2>3 DEF Identifies
    <3>2. PICK l \in 1..Len(m) : pos[l] = k
      BY <1>2, <3>1
    <3>3. pos[j] < pos[l] /\ pos[l] < pos[n] /\ pos[j] \in Nat /\ pos[l] \in Nat
      BY <1>1, <1>3, <2>3, <3>2
    <3>4. j < l /\ l < n
      BY SMTT(30), <1>1, <1>2, <2>2, <3>3
    <3>5. l \in (j + 1)..(n - 1) /\ m[l] = w[k]
      BY <1>2, <3>2, <3>4
    <3> QED
      BY <2>1, <3>5
  <2> QED
    BY <2>1, <2>3, <2>4 DEF Identified
<1> QED
  BY <1>4, <1>5 DEF LetThrough

-----------------------------------------------------------------------------
(* Types.                                                                  *)
LEMMA CredentialsFound ==
  ASSUME NEW L \in AllLayers, NEW shape \in Shapes, NEW who,
         Decides(L.resolvers, shape.credentials, who)
  PROVE  \E x \in DOMAIN shape.credentials : who = shape.credentials[x]
<1>1. PICK k \in DOMAIN L.resolvers :
        L.resolvers[k] # NoLayer /\ shape.credentials[L.resolvers[k]] = who
  BY DEF Decides
<1>2. L.resolvers \in Seq(DOMAIN shape.credentials \cup {NoLayer})
  BY PipelineAssumption
<1>3. L.resolvers[k] \in DOMAIN shape.credentials
  BY <1>1, <1>2
<1> QED
  BY <1>1, <1>3

(* The first resolver that finds something is the one that decides.        *)
LEMMA ResolveDecides ==
  ASSUME NEW L \in AllLayers, NEW shape \in Shapes, Resolve(L.resolvers, shape) # Anonymous
  PROVE  Decides(L.resolvers, shape.credentials, Resolve(L.resolvers, shape))
<1> DEFINE rs == L.resolvers
           found == Found(rs, shape)
<1>1. rs \in Seq(DOMAIN shape.credentials \cup {NoLayer})
  BY PipelineAssumption
<1>2. found \subseteq DOMAIN rs /\ DOMAIN rs = 1..Len(rs) /\ Len(rs) \in Nat
  BY <1>1 DEF Found
<1>3. found # {} /\ Resolve(rs, shape) = shape.credentials[rs[Min(found)]]
  BY DEF Resolve
<1>4. Min(found) \in found /\ \A n \in found : Min(found) <= n
  <2> HIDE DEF found
  <2>1. found \in SUBSET Nat
    BY <1>2
  <2> QED
    BY <1>3, <2>1, MinProperties
<1>5. rs[Min(found)] # NoLayer
  BY <1>4 DEF Found
<1>6. ASSUME NEW l \in 1..(Min(found) - 1)
      PROVE  rs[l] = NoLayer \/ shape.credentials[rs[l]] = Anonymous
  <2>1. l \in DOMAIN rs /\ l \notin found
    BY <1>2, <1>4
  <2> QED
    BY <2>1 DEF Found
<1>7. Min(found) \in DOMAIN rs
  BY <1>2, <1>4
<1> HIDE DEF found
<1> QED
  BY <1>3, <1>5, <1>6, <1>7 DEF Decides

LEMMA ResolveTyped ==
  ASSUME NEW L \in AllLayers, NEW shape \in Shapes
  PROVE  Resolve(L.resolvers, shape) \in Credentials \cup {Anonymous}
<1>1. CASE Resolve(L.resolvers, shape) = Anonymous
  BY <1>1
<1>2. CASE Resolve(L.resolvers, shape) # Anonymous
  <2>1. PICK x \in DOMAIN shape.credentials :
          Resolve(L.resolvers, shape) = shape.credentials[x]
    BY <1>2, ResolveDecides, CredentialsFound
  <2> QED
    BY <2>1 DEF Credentials, Range
<1> QED
  BY <1>1, <1>2

LEMMA NilNoLayer == NoLayer \notin AllLayers
BY DEF AllLayers

(* The layer a request is at is one of the chain's.                        *)
LEMMA LayerTyped ==
  ASSUME PipeTypeOK, ChainInv, NEW r \in Requests, InLayers(r)
  PROVE  /\ Shape(r) \in Shapes /\ Layer(r) \in AllLayers
         /\ call[r].layer \in 1..Len(composed) /\ Len(composed) \in Nat
         /\ composed = middlewares /\ call[r].wired = wired
         /\ composed \in Seq(AllLayers) /\ Layer(r) # NoLayer
<1>1. call[r].at = "layers" /\ call[r].layer <= Len(composed) /\ call[r] \in CallType
  BY DEF InLayers, PipeTypeOK
<1>2. composed = middlewares /\ call[r].wired = wired
  BY <1>1 DEF ChainInv, Served
<1>3. composed \in Seq(AllLayers)
  BY <1>2 DEF ChainInv, Places
<1>4. call[r].layer \in Nat \ {0}
  BY <1>1 DEF CallType
<1>5. Shape(r) \in Shapes
  BY <1>1 DEF Shape, PipeTypeOK
<1>6. call[r].layer \in 1..Len(composed) /\ Len(composed) \in Nat
  BY <1>1, <1>3, <1>4
<1>7. Layer(r) \in AllLayers
  BY <1>3, <1>6 DEF Layer
<1>8. NoLayer \notin AllLayers
  BY NilNoLayer
<1> QED
  BY <1>2, <1>3, <1>5, <1>6, <1>7, <1>8

-----------------------------------------------------------------------------
(* What a step does to the one request that makes it.                      *)
SameRequest(c, d) ==
  /\ d.shape = c.shape /\ d.header = c.header /\ d.cookie = c.cookie
  /\ d.alone = c.alone /\ d.wired = c.wired

Only(r) ==
  /\ call[r] \in CallType /\ call'[r] \in CallType
  /\ call' = [call EXCEPT ![r] = call'[r]]
  /\ SameRequest(call[r], call'[r])
  /\ UNCHANGED <<middlewares, wired, composed, uses, jar>>

(* A layer that is passed let the request through, and changes who it is   *)
(* only if it identifies.                                                  *)
Passing(r) ==
  LET c == call[r]
      d == call'[r]
  IN /\ Only(r) /\ InLayers(r) /\ UNCHANGED storedEntities
     /\ d.at = "layers" /\ d.layer = c.layer + 1
     /\ d.by = c.by /\ d.status = c.status /\ d.effect = c.effect /\ d.hooks = c.hooks
     /\ c.admitted => d.admitted
     /\ c.decision = "allow" => d.decision = "allow"
     /\ LetThrough(composed, c.layer, d)
     /\ ~Identifies(Layer(r), c.shape) => d.principal = c.principal
     /\ Identifies(Layer(r), c.shape) /\ d.principal # Anonymous =>
          /\ d.principal # BadCredential
          /\ Decides(Layer(r).resolvers, c.shape.credentials, d.principal)

(* A layer that refuses says so, and says 403 for the token only when the  *)
(* token does not match.                                                   *)
Refusing(r) ==
  LET c == call[r]
      d == call'[r]
  IN /\ Only(r) /\ c.at = "layers" /\ UNCHANGED storedEntities
     /\ d.at = "answered" /\ d.effect = c.effect
     /\ d.by \in Refusers \/ (d.by = "crud" /\ d.status >= 300)
     /\ d.by = "csrf" /\ d.status = 403 =>
          ~(c.cookie # 0 /\ c.header # 0 /\ c.cookie = c.header)

(* A record of a request after a field of it was changed.                  *)
LEMMA PassTyped ==
  ASSUME NEW c \in CallType
  PROVE  /\ Pass(c) \in CallType
         /\ Pass(c) = [c EXCEPT !.layer = c.layer + 1]
BY DEF CallType, Pass

LEMMA RefuseTyped ==
  ASSUME NEW c \in CallType, NEW status \in Nat, NEW by \in Refusers \cup {"crud", "encoding"}
  PROVE  /\ Refuse(c, status, by) \in CallType
         /\ Refuse(c, status, by) = [c EXCEPT !.at = "answered", !.status = status, !.by = by]
BY DEF CallType, Refuse

LEMMA BecomesOnly ==
  ASSUME PipeTypeOK, NEW r \in Requests, NEW d \in CallType, Becomes(r, d),
         SameRequest(call[r], d)
  PROVE  Only(r) /\ call'[r] = d /\ UNCHANGED storedEntities
<1>1. call'[r] = d /\ call' = [call EXCEPT ![r] = call'[r]] /\ call[r] \in CallType
  BY DEF Becomes, PipeTypeOK
<1> QED
  BY <1>1 DEF Becomes, Only

(* A refusal by a layer.                                                   *)
LEMMA LayerRefuses ==
  ASSUME PipeTypeOK, NEW r \in Requests, InLayers(r),
         NEW status \in Nat, NEW by \in Refusers,
         Becomes(r, Refuse(call[r], status, by)),
         by = "csrf" /\ status = 403 =>
           ~(call[r].cookie # 0 /\ call[r].header # 0 /\ call[r].cookie = call[r].header)
  PROVE  Refusing(r)
<1> DEFINE d == Refuse(call[r], status, by)
<1>1. call[r] \in CallType /\ call[r].at = "layers"
  BY DEF PipeTypeOK, InLayers
<1>2. /\ d \in CallType /\ SameRequest(call[r], d)
      /\ d.at = "answered" /\ d.status = status /\ d.by = by
      /\ d.effect = call[r].effect
  <2>1. d \in CallType /\ d = [call[r] EXCEPT !.at = "answered", !.status = status, !.by = by]
    <3>1. by \in Refusers \cup {"crud", "encoding"}
      OBVIOUS
    <3> HIDE DEF d
    <3> QED
      BY <1>1, <3>1, RefuseTyped DEF d
  <2> HIDE DEF d
  <2> QED
    BY <1>1, <2>1 DEF SameRequest, CallType
<1> HIDE DEF d
<1>3. Only(r) /\ call'[r] = d /\ UNCHANGED storedEntities
  BY <1>2, BecomesOnly DEF d
<1> QED
  BY <1>1, <1>2, <1>3 DEF Refusing

(* A pass that leaves who it is alone, by a layer that does not identify.  *)
LEMMA LayerPasses ==
  ASSUME PipeTypeOK, NEW r \in Requests, InLayers(r),
         NEW c \in CallType, Becomes(r, Pass(c)),
         SameRequest(call[r], c), c.at = "layers", c.layer = call[r].layer,
         c.by = call[r].by, c.status = call[r].status, c.effect = call[r].effect,
         c.hooks = call[r].hooks, c.principal = call[r].principal,
         call[r].admitted => c.admitted, call[r].decision = "allow" => c.decision = "allow",
         ~Identifies(Layer(r), call[r].shape),
         LetThrough(composed, c.layer, Pass(c))
  PROVE  Passing(r)
<1> DEFINE d == Pass(c)
<1>1. call[r] \in CallType
  BY DEF PipeTypeOK
<1>2. /\ d \in CallType /\ SameRequest(call[r], d)
      /\ d.at = "layers" /\ d.layer = c.layer + 1 /\ d.by = c.by /\ d.status = c.status
      /\ d.effect = c.effect /\ d.hooks = c.hooks /\ d.principal = c.principal
      /\ d.admitted = c.admitted /\ d.decision = c.decision
  BY PassTyped DEF SameRequest, CallType
<1> HIDE DEF d
<1>3. Only(r) /\ call'[r] = d /\ UNCHANGED storedEntities
  BY <1>2, BecomesOnly DEF d
<1>4. LetThrough(composed, call[r].layer, d)
  BY DEF d
<1> QED
  BY <1>1, <1>2, <1>3, <1>4 DEF Passing

-----------------------------------------------------------------------------
(* Every layer passes a request on or refuses it.                          *)
LEMMA SkipFacts ==
  ASSUME PipeTypeOK, ChainInv, NEW r \in Requests, SkipLayer(r)
  PROVE  Passing(r)
<1>1. InLayers(r) /\ Skips(Layer(r), Shape(r)) /\ Becomes(r, Pass(call[r]))
  BY DEF SkipLayer
<1>2. call[r] \in CallType /\ call[r].at = "layers"
  BY <1>1 DEF PipeTypeOK, InLayers
<1>3. Pass(call[r]).shape = call[r].shape
  BY <1>2, PassTyped DEF CallType
<1>4. LetThrough(composed, call[r].layer, Pass(call[r]))
  BY <1>1, <1>3 DEF LetThrough, Layer, Shape
<1>5. ~Identifies(Layer(r), call[r].shape)
  BY <1>1 DEF Identifies, Shape
<1> QED
  BY <1>1, <1>2, <1>4, <1>5, LayerPasses DEF SameRequest

LEMMA HeadersFacts ==
  ASSUME PipeTypeOK, ChainInv, NEW r \in Requests, HeadersLayer(r)
  PROVE  Passing(r) \/ Refusing(r)
<1>1. InLayers(r) /\ Layer(r).kind = "headers"
  BY DEF HeadersLayer, At
<1>2. call[r] \in CallType /\ call[r].at = "layers"
  BY <1>1 DEF PipeTypeOK, InLayers
<1>3. CASE Becomes(r, Refuse(call[r], 500, "headers"))
  BY <1>1, <1>3, LayerRefuses DEF Refusers
<1>4. CASE Becomes(r, Pass([call[r] EXCEPT !.secured = SecurityHeaders(Layer(r).configs)]))
  <2> DEFINE c == [call[r] EXCEPT !.secured = SecurityHeaders(Layer(r).configs)]
  <2>1. SecurityHeaders(Layer(r).configs) \subseteq {"hsts", "frame", "sniff", "csp"}
    BY DEF SecurityHeaders
  <2>2. c \in CallType
    BY <1>2, <2>1 DEF CallType
  <2>3. /\ SameRequest(call[r], c) /\ c.at = "layers" /\ c.layer = call[r].layer
        /\ c.by = call[r].by /\ c.status = call[r].status /\ c.effect = call[r].effect
        /\ c.hooks = call[r].hooks /\ c.principal = call[r].principal
        /\ c.admitted = call[r].admitted /\ c.decision = call[r].decision
    BY <1>2 DEF SameRequest, CallType
  <2> HIDE DEF c
  <2>4. LetThrough(composed, c.layer, Pass(c))
    BY <1>1, <2>3 DEF LetThrough, Layer
  <2>5. ~Identifies(Layer(r), call[r].shape)
    BY <1>1 DEF Identifies
  <2>6. Becomes(r, Pass(c))
    BY <1>4 DEF c
  <2> QED
    BY <1>1, <2>2, <2>3, <2>4, <2>5, <2>6, LayerPasses
<1> QED
  BY <1>3, <1>4 DEF HeadersLayer

LEMMA CorsFacts ==
  ASSUME PipeTypeOK, ChainInv, NEW r \in Requests, CorsLayer(r)
  PROVE  Passing(r) \/ Refusing(r)
<1>1. InLayers(r) /\ Layer(r).kind = "cors"
  BY DEF CorsLayer, At
<1>2. call[r] \in CallType /\ call[r].at = "layers"
  BY <1>1 DEF PipeTypeOK, InLayers
<1>3. CASE Preflight(Shape(r))
  <2>1. Becomes(r, Refuse(call[r], 204, "cors"))
    BY <1>3 DEF CorsLayer
  <2> QED
    BY <1>1, <2>1, LayerRefuses DEF Refusers
<1>4. CASE ~Preflight(Shape(r))
  <2>1. Becomes(r, Pass(call[r]))
    BY <1>4 DEF CorsLayer
  <2>2. Pass(call[r]).shape = call[r].shape
    BY <1>2, PassTyped DEF CallType
  <2>3. LetThrough(composed, call[r].layer, Pass(call[r]))
    BY <1>1, <1>4, <2>2 DEF LetThrough, Layer, Shape
  <2>4. ~Identifies(Layer(r), call[r].shape)
    BY <1>1 DEF Identifies
  <2> QED
    BY <1>1, <1>2, <2>1, <2>3, <2>4, LayerPasses DEF SameRequest
<1> QED
  BY <1>3, <1>4

LEMMA LimitFacts ==
  ASSUME PipeTypeOK, ChainInv, NEW r \in Requests, LimitLayer(r)
  PROVE  Passing(r) \/ Refusing(r)
<1>1. InLayers(r) /\ Layer(r).kind = "limit"
  BY DEF LimitLayer, At
<1>2. call[r] \in CallType /\ call[r].at = "layers"
  BY <1>1 DEF PipeTypeOK, InLayers
<1>3. CASE Becomes(r, Refuse(call[r], 429, "limit"))
  BY <1>1, <1>3, LayerRefuses DEF Refusers
<1>4. CASE Becomes(r, Pass([call[r] EXCEPT !.admitted = TRUE]))
  <2> DEFINE c == [call[r] EXCEPT !.admitted = TRUE]
  <2>1. c \in CallType
    BY <1>2 DEF CallType
  <2>2. /\ SameRequest(call[r], c) /\ c.at = "layers" /\ c.layer = call[r].layer
        /\ c.by = call[r].by /\ c.status = call[r].status /\ c.effect = call[r].effect
        /\ c.hooks = call[r].hooks /\ c.principal = call[r].principal
        /\ c.admitted /\ c.decision = call[r].decision
    BY <1>2 DEF SameRequest, CallType
  <2> HIDE DEF c
  <2>3. Pass(c).admitted
    BY <2>1, <2>2, PassTyped DEF CallType
  <2>4. LetThrough(composed, c.layer, Pass(c))
    BY <1>1, <2>2, <2>3 DEF LetThrough, Layer
  <2>5. ~Identifies(Layer(r), call[r].shape)
    BY <1>1 DEF Identifies
  <2>6. Becomes(r, Pass(c))
    BY <1>4 DEF c
  <2> QED
    BY <1>1, <2>1, <2>2, <2>4, <2>5, <2>6, LayerPasses
<1> QED
  BY <1>3, <1>4 DEF LimitLayer

LEMMA CsrfFacts ==
  ASSUME PipeTypeOK, ChainInv, NEW r \in Requests, CsrfLayer(r)
  PROVE  Passing(r) \/ Refusing(r)
<1> DEFINE c == call[r]
           L == Layer(r)
           valid == c.cookie # 0 /\ c.header # 0 /\ c.cookie = c.header
           lets == \/ Exempt(L, c.shape.path) \/ Safe(c.shape.method) \/ valid
<1>1. InLayers(r) /\ L.kind = "csrf" /\ tokens \in Nat
  BY DEF CsrfLayer, At, PipeTypeOK
<1>2. c \in CallType /\ c.at = "layers"
  BY <1>1 DEF PipeTypeOK, InLayers
<1>3. ~Identifies(L, c.shape)
  BY <1>1 DEF Identifies
<1>4. CASE Becomes(r, Refuse(c, 500, "csrf"))
  BY <1>1, <1>4, LayerRefuses DEF Refusers
<1>5. CASE ~valid /\ Becomes(r, Refuse(c, 403, "csrf"))
  BY <1>1, <1>5, LayerRefuses DEF Refusers
<1>6. CASE lets /\ Becomes(r, Pass(c))
  <2>1. SameRequest(c, Pass(c))
    BY <1>2, PassTyped DEF SameRequest, CallType
  <2>2. LetThrough(composed, c.layer, Pass(c))
    BY <1>1, <1>6, <2>1 DEF LetThrough, Layer, SameRequest
  <2> QED
    BY <1>1, <1>2, <1>3, <1>6, <2>2, LayerPasses DEF SameRequest
<1>7. CASE lets /\ Becomes(r, Pass([c EXCEPT !.sets = tokens + 1]))
  <2> DEFINE e == [c EXCEPT !.sets = tokens + 1]
  <2>1. e \in CallType
    BY <1>1, <1>2 DEF CallType
  <2>2. /\ SameRequest(c, e) /\ e.at = "layers" /\ e.layer = c.layer
        /\ e.by = c.by /\ e.status = c.status /\ e.effect = c.effect
        /\ e.hooks = c.hooks /\ e.principal = c.principal
        /\ e.admitted = c.admitted /\ e.decision = c.decision
    BY <1>2 DEF SameRequest, CallType
  <2> HIDE DEF e
  <2>3. SameRequest(c, Pass(e))
    BY <2>1, <2>2, PassTyped DEF SameRequest, CallType
  <2>4. LetThrough(composed, e.layer, Pass(e))
    BY <1>1, <1>7, <2>2, <2>3 DEF LetThrough, Layer, SameRequest
  <2>5. Becomes(r, Pass(e))
    BY <1>7 DEF e
  <2> QED
    BY <1>1, <1>3, <2>1, <2>2, <2>4, <2>5, LayerPasses
<1> QED
  <2>1. CASE Exempt(L, Shape(r).path) \/ (Safe(Shape(r).method) /\ c.cookie # 0)
    BY <1>6, <2>1 DEF CsrfLayer, Shape
  <2>2. CASE ~Exempt(L, Shape(r).path) /\ ~Safe(Shape(r).method) /\ ~valid
    BY <1>5, <2>2 DEF CsrfLayer, Shape
  <2>3. CASE /\ ~(Exempt(L, Shape(r).path) \/ (Safe(Shape(r).method) /\ c.cookie # 0))
             /\ ~(~Exempt(L, Shape(r).path) /\ ~Safe(Shape(r).method) /\ ~valid)
    <3>1. NewToken(r, c)
      BY <2>3 DEF CsrfLayer
    <3>2. lets
      BY <2>3 DEF Shape
    <3> QED
      BY <1>4, <1>7, <3>1, <3>2 DEF NewToken
  <2> QED
    BY <2>1, <2>2, <2>3

LEMMA IdentityFacts ==
  ASSUME PipeTypeOK, ChainInv, NEW r \in Requests, IdentityLayer(r)
  PROVE  Passing(r) \/ Refusing(r)
<1> DEFINE who == Resolve(Layer(r).resolvers, Shape(r))
           c == [call[r] EXCEPT !.principal = who]
           d == Pass(c)
<1>1. InLayers(r) /\ Layer(r).kind = "identity"
  BY DEF IdentityLayer, At
<1>2. call[r] \in CallType /\ call[r].at = "layers"
  BY <1>1 DEF PipeTypeOK, InLayers
<1>3. Shape(r) \in Shapes /\ Layer(r) \in AllLayers
  BY <1>1, LayerTyped
<1>4. who \in Credentials \cup {Anonymous}
  BY <1>3, ResolveTyped
<1>5. who # Anonymous => Decides(Layer(r).resolvers, call[r].shape.credentials, who)
  BY <1>3, ResolveDecides DEF Shape
<1>6. IF who = BadCredential THEN Becomes(r, Refuse(call[r], 401, "identity"))
      ELSE Becomes(r, d)
  BY DEF IdentityLayer
<1>0. Identifies(Layer(r), call[r].shape)
  BY <1>1, <1>3, LayerTyped DEF Identifies, IdentityLayer, At, Shape
<1> HIDE DEF who
<1>7. CASE who = BadCredential
  BY <1>1, <1>6, <1>7, LayerRefuses DEF Refusers
<1>8. CASE who # BadCredential
  <2>1. c \in CallType
    BY <1>2, <1>4 DEF CallType
  <2>2. /\ d \in CallType /\ SameRequest(call[r], d)
        /\ d.at = "layers" /\ d.layer = call[r].layer + 1 /\ d.by = call[r].by
        /\ d.status = call[r].status /\ d.effect = call[r].effect /\ d.hooks = call[r].hooks
        /\ d.principal = who
        /\ d.admitted = call[r].admitted /\ d.decision = call[r].decision
    <3>1. d \in CallType /\ d = [c EXCEPT !.layer = c.layer + 1]
      <4> HIDE DEF c
      <4> QED
        BY <2>1, PassTyped
    <3> HIDE DEF d
    <3> QED
      BY <1>2, <3>1 DEF SameRequest, CallType
  <2> HIDE DEF d
  <2>3. Only(r) /\ call'[r] = d /\ UNCHANGED storedEntities
    BY <1>6, <1>8, <2>2, BecomesOnly
  <2>4. LetThrough(composed, call[r].layer, d)
    BY <1>1 DEF LetThrough, Layer
  <2> QED
    BY <1>0, <1>1, <1>5, <1>8, <2>2, <2>3, <2>4 DEF Passing
<1> QED
  BY <1>7, <1>8

LEMMA AuthnFacts ==
  ASSUME PipeTypeOK, ChainInv, LayerInv, NEW r \in Requests, AuthnLayer(r)
  PROVE  Passing(r) \/ Refusing(r)
<1> DEFINE c == call[r]
           who == call[r].principal
<1>1. InLayers(r) /\ Layer(r).kind \in {"auth", "scopes", "tenant"}
  BY DEF AuthnLayer, At
<1>2. c \in CallType /\ c.at = "layers"
  BY <1>1 DEF PipeTypeOK, InLayers
<1>3. CASE who.subject = Nobody
  <2>1. Becomes(r, Refuse(c, 401, "authn"))
    BY <1>3 DEF AuthnLayer
  <2> QED
    BY <1>1, <2>1, LayerRefuses DEF Refusers
<1>4. CASE who.subject # Nobody /\ ~Holds(Layer(r), who)
  <2>1. Becomes(r, Refuse(c, 403, "authn"))
    BY <1>4 DEF AuthnLayer
  <2> QED
    BY <1>1, <2>1, LayerRefuses DEF Refusers
<1>5. CASE who.subject # Nobody /\ Holds(Layer(r), who)
  <2>1. Becomes(r, Pass(c))
    BY <1>5 DEF AuthnLayer
  <2>2. who # Anonymous
    BY <1>5 DEF Anonymous
  <2>3. who # BadCredential /\ Identified(composed, c.shape, c.layer, who)
    BY <1>2, <2>2 DEF LayerInv
  <2>4. \E x \in DOMAIN c.shape.credentials : who = c.shape.credentials[x]
    <3>1. /\ c.shape \in Shapes /\ composed \in Seq(AllLayers)
          /\ c.layer \in 1..Len(composed) /\ Len(composed) \in Nat
      BY <1>1, LayerTyped DEF Shape
    <3>2. PICK j \in 1..(c.layer - 1) :
            Decides(composed[j].resolvers, c.shape.credentials, who)
      BY <2>3 DEF Identified
    <3>3. PICK L \in AllLayers : L = composed[j]
      BY <3>1, <3>2
    <3>4. PICK shape \in Shapes : shape = c.shape
      BY <3>1
    <3>5. Decides(L.resolvers, shape.credentials, who)
      BY <3>2, <3>3, <3>4
    <3> HIDE DEF c, who
    <3> QED
      BY <3>4, <3>5, CredentialsFound
  <2>5. Pass(c).shape = c.shape
    BY <1>2, PassTyped DEF CallType
  <2>6. LetThrough(composed, c.layer, Pass(c))
    BY <1>1, <1>5, <2>2, <2>3, <2>4, <2>5 DEF LetThrough, Layer
  <2>7. ~Identifies(Layer(r), c.shape)
    BY <1>1 DEF Identifies
  <2> QED
    BY <1>1, <1>2, <2>1, <2>6, <2>7, LayerPasses DEF SameRequest
<1> QED
  BY <1>3, <1>4, <1>5

LEMMA AuthzFacts ==
  ASSUME PipeTypeOK, ChainInv, NEW r \in Requests, AuthzLayer(r)
  PROVE  Passing(r) \/ Refusing(r)
<1>1. InLayers(r) /\ Layer(r).kind = "authz"
  BY DEF AuthzLayer, At
<1>2. call[r] \in CallType /\ call[r].at = "layers"
  BY <1>1 DEF PipeTypeOK, InLayers
<1>3. CASE \E status \in {400, 500} : Becomes(r, Refuse(call[r], status, "authz"))
  BY <1>1, <1>3, LayerRefuses DEF Refusers
<1>4. CASE Becomes(r, Refuse([call[r] EXCEPT !.decision = "other"], 403, "authz"))
  <2>1. PICK e \in CallType : e = [call[r] EXCEPT !.decision = "other"]
    BY <1>2 DEF CallType
  <2> DEFINE d == Refuse(e, 403, "authz")
  <2>2. d \in CallType /\ d = [e EXCEPT !.at = "answered", !.status = 403, !.by = "authz"]
    <3>1. PICK s \in Nat : s = 403
      OBVIOUS
    <3>2. PICK a \in Refusers \cup {"crud", "encoding"} : a = "authz"
      BY DEF Refusers
    <3>3. d = Refuse(e, s, a)
      BY <3>1, <3>2
    <3> HIDE DEF d
    <3>4. /\ Refuse(e, s, a) \in CallType
          /\ Refuse(e, s, a) = [e EXCEPT !.at = "answered", !.status = s, !.by = a]
      BY DEF CallType, Refuse
    <3> QED
      BY <3>1, <3>2, <3>3, <3>4
  <2>3. /\ SameRequest(call[r], d) /\ d.at = "answered" /\ d.by = "authz"
        /\ d.effect = call[r].effect
    <3> HIDE DEF d
    <3> QED
      BY <1>2, <2>1, <2>2 DEF SameRequest, CallType
  <2> HIDE DEF d
  <2>4. Only(r) /\ call'[r] = d /\ UNCHANGED storedEntities
    <3>1. Becomes(r, d)
      BY <1>4, <2>1 DEF d
    <3> QED
      BY <2>2, <2>3, <3>1, BecomesOnly
  <2> QED
    BY <1>2, <2>3, <2>4 DEF Refusing, Refusers
<1>5. CASE Becomes(r, Pass([call[r] EXCEPT !.decision = "allow"]))
  <2> DEFINE c == [call[r] EXCEPT !.decision = "allow"]
  <2>1. c \in CallType
    BY <1>2 DEF CallType
  <2>2. /\ SameRequest(call[r], c) /\ c.at = "layers" /\ c.layer = call[r].layer
        /\ c.by = call[r].by /\ c.status = call[r].status /\ c.effect = call[r].effect
        /\ c.hooks = call[r].hooks /\ c.principal = call[r].principal
        /\ c.admitted = call[r].admitted /\ c.decision = "allow"
    BY <1>2 DEF SameRequest, CallType
  <2> HIDE DEF c
  <2>3. Pass(c).decision = "allow"
    BY <2>1, <2>2, PassTyped DEF CallType
  <2>4. LetThrough(composed, c.layer, Pass(c))
    BY <1>1, <2>2, <2>3 DEF LetThrough, Layer
  <2>5. ~Identifies(Layer(r), call[r].shape)
    BY <1>1 DEF Identifies
  <2>6. Becomes(r, Pass(c))
    BY <1>5 DEF c
  <2> QED
    BY <1>1, <2>1, <2>2, <2>4, <2>5, <2>6, LayerPasses
<1> QED
  BY <1>3, <1>4, <1>5 DEF AuthzLayer

-----------------------------------------------------------------------------
(* The other steps.                                                        *)

(* The request reaches its handler, or the handler the store.              *)
Entering(r) ==
  LET c == call[r]
      d == call'[r]
  IN /\ Only(r) /\ c.at = "layers" /\ c.layer > Len(composed) /\ UNCHANGED storedEntities
     /\ d.at = "storing" /\ d.by = c.by /\ d.effect = c.effect
     /\ d.admitted = c.admitted /\ d.decision = c.decision

Storing(r) ==
  LET c == call[r]
      d == call'[r]
  IN /\ Only(r) /\ c.at = "storing" /\ d.admitted = c.admitted /\ d.decision = c.decision
     /\ storedEntities' \in [Entities -> {"absent", "present"}]
     /\ \/ /\ d.at = "answered" /\ d.by = "crud" /\ d.status >= 300 /\ d.effect = c.effect
        \/ /\ d.at = "rendering" /\ d.by = c.by /\ d.effect = Operation(c.shape.method)
           /\ d.hooks = IF Operation(c.shape.method) = "GET" THEN 0 ELSE 1

Rendering(r) ==
  LET c == call[r]
      d == call'[r]
  IN /\ Only(r) /\ c.at = "rendering" /\ d.admitted = c.admitted /\ d.decision = c.decision
     /\ UNCHANGED storedEntities
     /\ d.at = "answered" /\ d.effect = c.effect /\ d.hooks = c.hooks
     /\ Good(d)

(* An answer by whoever is behind the layers.                              *)
LEMMA AnswerTyped ==
  ASSUME PipeTypeOK, NEW r \in Requests, NEW status \in Nat,
         NEW by \in {"mux", "crud", "encoding"},
         call' = [call EXCEPT ![r] = Refuse(call[r], status, by)],
         UNCHANGED <<middlewares, wired, composed, uses, jar>>
  PROVE  /\ Only(r)
         /\ call'[r].at = "answered" /\ call'[r].status = status /\ call'[r].by = by
         /\ call'[r].effect = call[r].effect /\ call'[r].hooks = call[r].hooks
         /\ call'[r].admitted = call[r].admitted /\ call'[r].decision = call[r].decision
<1>1. call[r] \in CallType /\ call'[r] = Refuse(call[r], status, by)
  BY DEF PipeTypeOK
<1>2. PICK d \in CallType :
        d = [call[r] EXCEPT !.at = "answered", !.status = status, !.by = by] /\ d = call'[r]
  <2>1. by \in Refusers \cup {"crud", "encoding"}
    BY DEF Refusers
  <2>2. /\ Refuse(call[r], status, by) \in CallType
        /\ Refuse(call[r], status, by)
             = [call[r] EXCEPT !.at = "answered", !.status = status, !.by = by]
    BY <1>1, <2>1 DEF Refuse, CallType
  <2> QED
    BY <1>1, <2>2
<1>3. /\ SameRequest(call[r], d) /\ d.at = "answered" /\ d.status = status /\ d.by = by
      /\ d.effect = call[r].effect /\ d.hooks = call[r].hooks
      /\ d.admitted = call[r].admitted /\ d.decision = call[r].decision
  BY <1>1, <1>2 DEF SameRequest, CallType
<1>4. call' = [call EXCEPT ![r] = call'[r]]
  BY <1>1
<1> QED
  BY <1>1, <1>2, <1>3, <1>4 DEF Only

LEMMA HandleFacts ==
  ASSUME PipeTypeOK, NEW r \in Requests, Handle(r)
  PROVE  Refusing(r) \/ Entering(r)
<1>1. call[r].at = "layers" /\ call[r].layer > Len(composed) /\ call[r] \in CallType
  BY DEF Handle, PipeTypeOK
<1>2. ASSUME NEW status \in Nat, NEW by \in {"mux", "crud"}, status >= 300,
             Becomes(r, Refuse(call[r], status, by))
      PROVE  Refusing(r)
  <2>1. /\ Only(r) /\ UNCHANGED storedEntities
        /\ call'[r].at = "answered" /\ call'[r].status = status /\ call'[r].by = by
        /\ call'[r].effect = call[r].effect
    BY <1>2, AnswerTyped DEF Becomes
  <2> QED
    BY <1>1, <1>2, <2>1 DEF Refusing, Refusers
<1>3. CASE Becomes(r, Refuse(call[r], 405, "mux"))
  BY <1>2, <1>3
<1>4. CASE \E status \in Renders : Becomes(r, Refuse(call[r], status, "crud"))
  BY <1>2, <1>4 DEF Renders
<1>5. CASE Becomes(r, [call[r] EXCEPT !.at = "storing"])
  <2> DEFINE d == [call[r] EXCEPT !.at = "storing"]
  <2>1. /\ d \in CallType /\ SameRequest(call[r], d)
        /\ d.at = "storing" /\ d.by = call[r].by /\ d.effect = call[r].effect
        /\ d.admitted = call[r].admitted /\ d.decision = call[r].decision
    BY <1>1 DEF CallType, SameRequest
  <2> HIDE DEF d
  <2>2. Only(r) /\ call'[r] = d /\ UNCHANGED storedEntities
    BY <1>5, <2>1, BecomesOnly DEF d
  <2> QED
    BY <1>1, <2>1, <2>2 DEF Entering
<1>6. CASE Becomes(r, Refuse(call[r], 400, "crud"))
  BY <1>2, <1>6
<1> QED
  BY <1>3, <1>4, <1>5, <1>6 DEF Handle

LEMMA StoreFacts ==
  ASSUME PipeTypeOK, NEW r \in Requests, StoreCall(r)
  PROVE  Storing(r)
<1>1. call[r].at = "storing" /\ call[r] \in CallType /\ call[r].shape \in Shapes
  BY DEF StoreCall, PipeTypeOK
<1>2. ASSUME NEW status \in Nat, status >= 300,
             call' = [call EXCEPT ![r] = Refuse(call[r], status, "crud")], UNCHANGED storedEntities
      PROVE  Storing(r)
  <2>1. UNCHANGED <<middlewares, wired, composed, uses, jar>>
    BY DEF StoreCall
  <2>2. PICK by \in {"mux", "crud", "encoding"} : by = "crud"
    OBVIOUS
  <2>3. call' = [call EXCEPT ![r] = Refuse(call[r], status, by)]
    BY <1>2, <2>2
  <2>4. /\ Only(r)
        /\ call'[r].at = "answered" /\ call'[r].status = status /\ call'[r].by = by
        /\ call'[r].effect = call[r].effect
        /\ call'[r].admitted = call[r].admitted /\ call'[r].decision = call[r].decision
    BY <2>1, <2>3, AnswerTyped
  <2> QED
    BY <1>1, <1>2, <2>2, <2>4 DEF Storing, PipeTypeOK
<1> DEFINE op == Operation(Shape(r).method)
           refusal == StoreRefuses(op, Shape(r).item, Shape(r).entity)
<1>3. refusal \in {0, 404, 409}
  BY DEF StoreRefuses
<1>4. CASE refusal # 0 /\ call' = [call EXCEPT ![r] = Refuse(@, refusal, "crud")]
           /\ UNCHANGED storedEntities
  <2>1. refusal \in Nat /\ refusal >= 300
    BY <1>3, <1>4
  <2> HIDE DEF refusal
  <2>2. call' = [call EXCEPT ![r] = Refuse(call[r], refusal, "crud")]
    BY <1>4
  <2> QED
    BY <1>2, <1>4, <2>1, <2>2
<1>5. CASE call' = [call EXCEPT ![r] = Refuse(@, 500, "crud")] /\ UNCHANGED storedEntities
  <2>1. PICK status \in Nat : status = 500
    OBVIOUS
  <2>2. call' = [call EXCEPT ![r] = Refuse(call[r], status, "crud")]
    BY <1>5, <2>1
  <2>3. status >= 300
    BY <2>1
  <2> QED
    BY <1>2, <1>5, <2>2, <2>3
<1>6. CASE /\ call' = [call EXCEPT ![r].at = "rendering", ![r].effect = op,
                                   ![r].hooks = IF op = "GET" THEN 0 ELSE 1]
           /\ storedEntities' = [storedEntities EXCEPT ![Shape(r).entity] =
                CASE op = "GET" -> @ [] op = "DELETE" -> "absent"
                  [] OTHER -> "present"]
  <2> DEFINE d == [call[r] EXCEPT !.at = "rendering", !.effect = op,
                                  !.hooks = IF op = "GET" THEN 0 ELSE 1]
  <2>0. op = Operation(call[r].shape.method)
    BY DEF Shape
  <2>1. op \in Methods
    BY <1>1, PipelineAssumption DEF Shape, Operation, Methods
  <2> HIDE DEF op, refusal
  <2>2. /\ d \in CallType /\ SameRequest(call[r], d)
        /\ d.at = "rendering" /\ d.by = call[r].by /\ d.effect = op
        /\ d.hooks = IF op = "GET" THEN 0 ELSE 1
        /\ d.admitted = call[r].admitted /\ d.decision = call[r].decision
    BY <1>1, <2>1 DEF CallType, SameRequest
  <2>3. call' = [call EXCEPT ![r] = d] /\ call'[r] = d
    BY <1>6 DEF PipeTypeOK
  <2>4. storedEntities' \in [Entities -> {"absent", "present"}]
    <3>1. storedEntities \in [Entities -> {"absent", "present"}]
      BY DEF PipeTypeOK
    <3>2. CASE op = "GET"
      BY <1>6, <3>1, <3>2
    <3>3. CASE op = "DELETE"
      BY <1>6, <3>1, <3>3
    <3>4. CASE op \notin {"GET", "DELETE"}
      BY <1>6, <3>1, <3>4
    <3> QED
      BY <3>2, <3>3, <3>4
  <2>5. UNCHANGED <<middlewares, wired, composed, uses, jar>>
    BY DEF StoreCall
  <2> HIDE DEF d
  <2>6. Only(r)
    BY <1>1, <2>2, <2>3, <2>5 DEF Only
  <2> QED
    BY <1>1, <2>0, <2>2, <2>3, <2>4, <2>6 DEF Storing
<1> QED
  BY <1>4, <1>5, <1>6 DEF StoreCall

LEMMA RenderFacts ==
  ASSUME PipeTypeOK, NEW r \in Requests, Render(r)
  PROVE  Rendering(r)
<1>1. call[r].at = "rendering"
  BY DEF Render
<1>2. ASSUME NEW status \in Nat, NEW by \in {"crud", "encoding"},
             by = "crud" => status < 300,
             Becomes(r, Refuse(call[r], status, by))
      PROVE  Rendering(r)
  <2>1. /\ Only(r) /\ UNCHANGED storedEntities
        /\ call'[r].at = "answered" /\ call'[r].status = status /\ call'[r].by = by
        /\ call'[r].effect = call[r].effect /\ call'[r].hooks = call[r].hooks
        /\ call'[r].admitted = call[r].admitted /\ call'[r].decision = call[r].decision
    BY <1>2, AnswerTyped DEF Becomes
  <2> QED
    BY <1>1, <1>2, <2>1 DEF Rendering, Good
<1>3. CASE Becomes(r, Refuse(call[r], 500, "encoding"))
  BY <1>2, <1>3
<1>4. CASE \E status \in {200, 201, 204} : Becomes(r, Refuse(call[r], status, "crud"))
  BY <1>2, <1>4
<1> QED
  BY <1>3, <1>4 DEF Render

(* A request is made.                                                      *)
LEMMA PrepareFacts ==
  ASSUME PipeTypeOK, NEW r \in Requests, NEW shape \in Shapes, Prepare(r, shape)
  PROVE  /\ call[r].at = "idle" /\ call'[r] \in CallType
         /\ call' = [call EXCEPT ![r] = call'[r]]
         /\ call'[r].at = "prepared" /\ call'[r].shape = shape
         /\ call'[r].header = IF shape.mirrors THEN jar ELSE 0
         /\ call'[r].layer = call[r].layer /\ call'[r].principal = call[r].principal
         /\ call'[r].by = call[r].by /\ call'[r].effect = call[r].effect
         /\ call'[r].hooks = call[r].hooks
         /\ UNCHANGED <<middlewares, wired, composed, uses, jar, tokens, storedEntities>>
<1> DEFINE d == [call[r] EXCEPT !.at = "prepared", !.shape = shape,
                                !.header = IF shape.mirrors THEN jar ELSE 0]
<1>1. call[r] \in CallType /\ call[r].at = "idle" /\ jar \in Nat
  BY DEF Prepare, PipeTypeOK
<1>2. /\ d \in CallType /\ d.at = "prepared" /\ d.shape = shape
      /\ d.header = IF shape.mirrors THEN jar ELSE 0
      /\ d.layer = call[r].layer /\ d.principal = call[r].principal
      /\ d.by = call[r].by /\ d.effect = call[r].effect /\ d.hooks = call[r].hooks
  <2>1. PICK header \in Nat : header = IF shape.mirrors THEN jar ELSE 0
    BY <1>1
  <2>2. d = [call[r] EXCEPT !.at = "prepared", !.shape = shape, !.header = header]
    BY <2>1
  <2> HIDE DEF d
  <2>3. d \in CallType
    BY <1>1, <2>2 DEF CallType
  <2> QED
    BY <1>1, <2>1, <2>2, <2>3 DEF CallType
<1>3. call' = [call EXCEPT ![r] = d] /\ call'[r] = d
  BY DEF Prepare, PipeTypeOK
<1>4. UNCHANGED <<middlewares, wired, composed, uses, jar, tokens, storedEntities>>
  BY DEF Prepare
<1> HIDE DEF d
<1> QED
  BY <1>1, <1>2, <1>3, <1>4

(* A request is sent.                                                      *)
LEMMA ServeFacts ==
  ASSUME PipeTypeOK, NEW r \in Requests, ServeHTTP(r)
  PROVE  /\ call[r].at = "prepared" /\ call'[r] \in CallType
         /\ call' = [call EXCEPT ![r] = call'[r]]
         /\ call'[r].at = "layers" /\ call'[r].shape = call[r].shape
         /\ call'[r].header = call[r].header /\ call'[r].cookie = jar
         /\ call'[r].alone = call[r].alone /\ call'[r].wired = wired
         /\ call'[r].layer = call[r].layer /\ call'[r].principal = call[r].principal
         /\ call'[r].by = call[r].by /\ call'[r].effect = call[r].effect
         /\ call'[r].hooks = call[r].hooks
         /\ composed' = IF composed = Unbuilt THEN middlewares ELSE composed
         /\ UNCHANGED <<middlewares, wired, uses, jar, tokens, storedEntities>>
<1> DEFINE d == [call[r] EXCEPT !.at = "layers", !.cookie = jar, !.wired = wired]
<1>1. call[r] \in CallType /\ call[r].at = "prepared" /\ jar \in Nat /\ wired \in Lists
  BY DEF ServeHTTP, PipeTypeOK
<1>2. /\ d \in CallType /\ d.at = "layers" /\ d.shape = call[r].shape
      /\ d.header = call[r].header /\ d.cookie = jar /\ d.alone = call[r].alone
      /\ d.wired = wired /\ d.layer = call[r].layer /\ d.principal = call[r].principal
      /\ d.by = call[r].by /\ d.effect = call[r].effect /\ d.hooks = call[r].hooks
  BY <1>1 DEF CallType
<1>3. call' = [call EXCEPT ![r] = d] /\ call'[r] = d
  BY DEF ServeHTTP, PipeTypeOK
<1>4. /\ composed' = IF composed = Unbuilt THEN middlewares ELSE composed
      /\ UNCHANGED <<middlewares, wired, uses, jar, tokens, storedEntities>>
  BY DEF ServeHTTP
<1> HIDE DEF d
<1> QED
  BY <1>1, <1>2, <1>3, <1>4

(* An answer arrives; one that rotates the token marks those already made. *)
LEMMA ReceiveFacts ==
  ASSUME PipeTypeOK, NEW r \in Requests, Receive(r)
  PROVE  /\ call[r].at = "answered" /\ call' \in [Requests -> CallType]
         /\ jar' \in Nat /\ jar' = IF call[r].sets # 0 THEN call[r].sets ELSE jar
         /\ UNCHANGED <<middlewares, wired, composed, uses, tokens, storedEntities>>
         /\ \A x \in Requests :
              LET c == call[x]
                  d == call'[x]
              IN /\ d.shape = c.shape /\ d.header = c.header /\ d.cookie = c.cookie
                 /\ d.wired = c.wired /\ d.layer = c.layer /\ d.principal = c.principal
                 /\ d.admitted = c.admitted /\ d.decision = c.decision /\ d.status = c.status
                 /\ d.by = c.by /\ d.effect = c.effect /\ d.hooks = c.hooks
                 /\ d.at = IF x = r THEN "done" ELSE c.at
                 /\ d.alone = IF x # r /\ c.at = "prepared" /\ call[r].sets # 0
                               THEN FALSE ELSE c.alone
<1>1. call[r].at = "answered" /\ UNCHANGED <<middlewares, wired, composed, uses, tokens, storedEntities>>
  BY DEF Receive
<1>2. jar' \in Nat /\ jar' = IF call[r].sets # 0 THEN call[r].sets ELSE jar
  BY DEF Receive, PipeTypeOK, CallType
<1>3. ASSUME NEW x \in Requests
      PROVE  LET c == call[x]
                 d == call'[x]
             IN /\ d \in CallType
                /\ d.shape = c.shape /\ d.header = c.header /\ d.cookie = c.cookie
                /\ d.wired = c.wired /\ d.layer = c.layer /\ d.principal = c.principal
                /\ d.admitted = c.admitted /\ d.decision = c.decision /\ d.status = c.status
                /\ d.by = c.by /\ d.effect = c.effect /\ d.hooks = c.hooks
                /\ d.at = IF x = r THEN "done" ELSE c.at
                /\ d.alone = IF x # r /\ c.at = "prepared" /\ call[r].sets # 0
                               THEN FALSE ELSE c.alone
  <2>1. call[x] \in CallType
    BY DEF PipeTypeOK
  <2>2. CASE x = r
    <3>1. call'[x] = [call[x] EXCEPT !.at = "done"]
      BY <2>2 DEF Receive
    <3> QED
      BY <2>1, <2>2, <3>1 DEF CallType
  <2>3. CASE x # r /\ call[x].at = "prepared" /\ call[r].sets # 0
    <3>1. call'[x] = [call[x] EXCEPT !.alone = FALSE]
      BY <2>3 DEF Receive
    <3> QED
      BY <2>1, <2>3, <3>1 DEF CallType
  <2>4. CASE x # r /\ ~(call[x].at = "prepared" /\ call[r].sets # 0)
    <3>1. call'[x] = call[x]
      BY <2>4 DEF Receive
    <3> QED
      BY <2>1, <2>4, <3>1
  <2> QED
    BY <2>2, <2>3, <2>4
<1>4. call' \in [Requests -> CallType]
  <2>1. DOMAIN call' = Requests /\ call' = [x \in Requests |-> call'[x]]
    BY DEF Receive
  <2> QED
    BY <1>3, <2>1
<1> QED
  BY <1>1, <1>2, <1>3, <1>4

(* Everything a step of the pipeline may be.                               *)
LEMMA PipeSteps ==
  ASSUME PipeTypeOK, ChainInv, LayerInv, PipeNext
  PROVE  \/ \E group \in LayerGroups : Use(group)
         \/ \E r \in Requests :
              \/ \E shape \in Shapes : Prepare(r, shape)
              \/ ServeHTTP(r) \/ Receive(r)
              \/ Passing(r) \/ Refusing(r) \/ Entering(r) \/ Storing(r) \/ Rendering(r)
<1>1. CASE \E group \in LayerGroups : Use(group)
  BY <1>1
<1>2. ASSUME NEW r \in Requests,
             \/ \E shape \in Shapes : Prepare(r, shape)
             \/ ServeHTTP(r) \/ SkipLayer(r) \/ HeadersLayer(r) \/ CorsLayer(r) \/ LimitLayer(r)
             \/ CsrfLayer(r) \/ IdentityLayer(r) \/ AuthnLayer(r) \/ AuthzLayer(r)
             \/ Handle(r) \/ StoreCall(r) \/ Render(r) \/ Receive(r)
      PROVE  \/ \E shape \in Shapes : Prepare(r, shape)
             \/ ServeHTTP(r) \/ Receive(r)
             \/ Passing(r) \/ Refusing(r) \/ Entering(r) \/ Storing(r) \/ Rendering(r)
  BY <1>2, SkipFacts, HeadersFacts, CorsFacts, LimitFacts, CsrfFacts, IdentityFacts,
     AuthnFacts, AuthzFacts, HandleFacts, StoreFacts, RenderFacts
<1> QED
  BY <1>1, <1>2 DEF PipeNext

-----------------------------------------------------------------------------
(* The steps keep the invariant.                                           *)
LEMMA TokensStep == PipeTypeOK /\ PipeNext => tokens' \in Nat
<1> SUFFICES ASSUME PipeTypeOK, PipeNext PROVE tokens' \in Nat
  OBVIOUS
<1>1. tokens \in Nat
  BY DEF PipeTypeOK
<1>2. ASSUME NEW group \in LayerGroups, Use(group) PROVE tokens' \in Nat
  BY <1>1, <1>2 DEF Use
<1>3. ASSUME NEW r \in Requests, CsrfLayer(r) PROVE tokens' \in Nat
  <2>1. UNCHANGED tokens \/ NewToken(r, call[r])
    BY <1>3 DEF CsrfLayer
  <2> QED
    BY <1>1, <2>1 DEF NewToken
<1>4. ASSUME NEW r \in Requests,
             \/ \E shape \in Shapes : Prepare(r, shape)
             \/ ServeHTTP(r) \/ SkipLayer(r) \/ HeadersLayer(r) \/ CorsLayer(r) \/ LimitLayer(r)
      PROVE  tokens' \in Nat
  BY <1>1, <1>4 DEF Prepare, ServeHTTP, SkipLayer, HeadersLayer, CorsLayer, LimitLayer
<1>5. ASSUME NEW r \in Requests, IdentityLayer(r) \/ AuthnLayer(r) \/ AuthzLayer(r)
      PROVE  tokens' \in Nat
  BY <1>1, <1>5 DEF IdentityLayer, AuthnLayer, AuthzLayer
<1>6. ASSUME NEW r \in Requests, Handle(r) \/ StoreCall(r) \/ Render(r) \/ Receive(r)
      PROVE  tokens' \in Nat
  BY <1>1, <1>6 DEF Handle, StoreCall, Render, Receive
<1> QED
  BY <1>2, <1>3, <1>4, <1>5, <1>6 DEF PipeNext

LEMMA TypeStep == PipeTypeOK /\ ChainInv /\ LayerInv /\ PipeNext => PipeTypeOK'
<1> SUFFICES ASSUME PipeTypeOK, ChainInv, LayerInv, PipeNext PROVE PipeTypeOK'
  OBVIOUS
<1>0. tokens' \in Nat
  BY TokensStep
<1>1. ASSUME NEW group \in LayerGroups, Use(group) PROVE PipeTypeOK'
  <2>1. group \in Lists
    BY PipelineAssumption DEF Lists
  <2>2. wired \o group \in Lists
    BY <2>1, ConcatProperties DEF PipeTypeOK, Lists
  <2> QED
    BY <1>0, <1>1, <2>2 DEF PipeTypeOK, Use
<1>2. ASSUME NEW r \in Requests, NEW shape \in Shapes, Prepare(r, shape) PROVE PipeTypeOK'
  BY <1>0, <1>2, PrepareFacts DEF PipeTypeOK
<1>3. ASSUME NEW r \in Requests, ServeHTTP(r) PROVE PipeTypeOK'
  BY <1>0, <1>3, ServeFacts DEF PipeTypeOK
<1>4. ASSUME NEW r \in Requests, Receive(r) PROVE PipeTypeOK'
  BY <1>0, <1>4, ReceiveFacts DEF PipeTypeOK
<1>5. ASSUME NEW r \in Requests, Only(r), call[r].at # "idle",
             storedEntities' \in [Entities -> {"absent", "present"}]
      PROVE  PipeTypeOK'
  BY <1>0, <1>5 DEF Only, SameRequest, PipeTypeOK
<1>6. storedEntities \in [Entities -> {"absent", "present"}]
  BY DEF PipeTypeOK
<1>7. ASSUME NEW r \in Requests,
             Passing(r) \/ Refusing(r) \/ Entering(r) \/ Storing(r) \/ Rendering(r)
      PROVE  PipeTypeOK'
  BY <1>5, <1>6, <1>7 DEF Passing, Refusing, Entering, Storing, Rendering, InLayers
<1> QED
  BY <1>1, <1>2, <1>3, <1>4, <1>7, PipeSteps

LEMMA ChainStep == PipeTypeOK /\ ChainInv /\ LayerInv /\ PipeNext => ChainInv'
<1> SUFFICES ASSUME PipeTypeOK, ChainInv, LayerInv, PipeNext PROVE ChainInv'
  OBVIOUS
<1>1. ASSUME NEW group \in LayerGroups, Use(group) PROVE ChainInv'
  <2>1. \A r \in Requests : ~Served(call'[r])
    BY <1>1 DEF Use, InFlight, Served
  <2>2. group \in Lists /\ wired \in Lists
    BY PipelineAssumption DEF Lists, PipeTypeOK
  <2>3. Places(Chain(group), group)
    BY <2>2, ChainPlaces
  <2>4. Places(middlewares \o Chain(group), wired \o group)
    BY <2>2, <2>3, PlacesJoin DEF ChainInv
  <2>5. Places(middlewares', wired')
    BY <1>1, <2>4 DEF Use
  <2> QED
    BY <1>1, <2>1, <2>5 DEF ChainInv, Use
<1>2. ASSUME NEW r \in Requests, NEW shape \in Shapes, Prepare(r, shape) PROVE ChainInv'
  BY <1>2, PrepareFacts DEF ChainInv, PipeTypeOK, Served
<1>3. ASSUME NEW r \in Requests, ServeHTTP(r) PROVE ChainInv'
  <2>1. composed' = middlewares /\ wired' = wired /\ middlewares' = middlewares
    BY <1>3, ServeFacts DEF ChainInv
  <2>2. \A x \in Requests : Served(call'[x]) => call'[x].wired = wired
    BY <1>3, ServeFacts DEF ChainInv, PipeTypeOK, Served
  <2> QED
    BY <2>1, <2>2 DEF ChainInv, Served
<1>4. ASSUME NEW r \in Requests, Receive(r) PROVE ChainInv'
  <2>1. UNCHANGED <<middlewares, wired, composed>>
    BY <1>4, ReceiveFacts
  <2>2. ASSUME NEW x \in Requests, Served(call'[x])
        PROVE  Served(call[x]) /\ call'[x].wired = call[x].wired
    <3>1. /\ call'[x].wired = call[x].wired
          /\ call'[x].at = IF x = r THEN "done" ELSE call[x].at
      BY <1>4, ReceiveFacts
    <3> QED
      BY <2>2, <3>1 DEF Served
  <2> QED
    BY <2>1, <2>2 DEF ChainInv
<1>5. ASSUME NEW r \in Requests, Only(r), Served(call[r]) PROVE ChainInv'
  BY <1>5 DEF ChainInv, Only, SameRequest, PipeTypeOK, Served
<1>6. ASSUME NEW r \in Requests,
             Passing(r) \/ Refusing(r) \/ Entering(r) \/ Storing(r) \/ Rendering(r)
      PROVE  ChainInv'
  BY <1>5, <1>6 DEF Passing, Refusing, Entering, Storing, Rendering, InLayers, Served
<1> QED
  BY <1>1, <1>2, <1>3, <1>4, <1>6, PipeSteps

(* What let a request through still does when it has come further.         *)
LEMMA LetThroughStable ==
  ASSUME NEW layers, NEW i, NEW c, NEW d, LetThrough(layers, i, c),
         d.shape = c.shape, d.header = c.header, d.cookie = c.cookie,
         c.admitted => d.admitted, c.decision = "allow" => d.decision = "allow"
  PROVE  LetThrough(layers, i, d)
BY DEF LetThrough

(* Who a request is does not change at a layer that does not identify.     *)
LEMMA IdentifiedStays ==
  ASSUME NEW layers, NEW shape, NEW n \in Nat \ {0}, NEW who,
         Identified(layers, shape, n, who), ~Identifies(layers[n], shape)
  PROVE  Identified(layers, shape, n + 1, who)
<1>1. PICK j \in 1..(n - 1) :
        /\ Identifies(layers[j], shape)
        /\ \A k \in (j + 1)..(n - 1) : ~Identifies(layers[k], shape)
        /\ Decides(layers[j].resolvers, shape.credentials, who)
  BY DEF Identified
<1>2. j \in 1..((n + 1) - 1)
  BY <1>1
<1>3. \A k \in (j + 1)..((n + 1) - 1) : k = n \/ k \in (j + 1)..(n - 1)
  BY <1>1
<1>4. \A k \in (j + 1)..((n + 1) - 1) : ~Identifies(layers[k], shape)
  BY <1>1, <1>3
<1> QED
  BY <1>1, <1>2, <1>4 DEF Identified

LEMMA IdentifiedHere ==
  ASSUME NEW layers, NEW shape, NEW n \in Nat \ {0}, NEW who,
         Identifies(layers[n], shape), Decides(layers[n].resolvers, shape.credentials, who)
  PROVE  Identified(layers, shape, n + 1, who)
<1>1. n \in 1..((n + 1) - 1) /\ (n + 1)..((n + 1) - 1) = {}
  OBVIOUS
<1> QED
  BY <1>1 DEF Identified

(* What LayerInv says of one request.                                      *)
BehindOK(c, chain) ==
  /\ c.at \in {"idle", "prepared"} => c.layer = 1 /\ c.principal = Anonymous
  /\ c.at = "layers" =>
       /\ \A i \in 1..(c.layer - 1) : LetThrough(chain, i, c)
       /\ c.principal # Anonymous =>
            c.principal # BadCredential /\ Identified(chain, c.shape, c.layer, c.principal)

LEMMA PassingBehind ==
  ASSUME PipeTypeOK, NEW r \in Requests, Passing(r), BehindOK(call[r], composed)
  PROVE  BehindOK(call'[r], composed)
<1> DEFINE c == call[r]
           d == call'[r]
<1>1. /\ c.at = "layers" /\ c.layer \in Nat \ {0}
      /\ d.at = "layers" /\ d.layer = c.layer + 1
      /\ d.shape = c.shape /\ d.header = c.header /\ d.cookie = c.cookie
      /\ c.admitted => d.admitted
      /\ c.decision = "allow" => d.decision = "allow"
  BY DEF Passing, InLayers, Only, SameRequest, CallType
<1>2. Layer(r) = composed[c.layer]
  BY DEF Layer
<1>3. /\ LetThrough(composed, c.layer, d)
      /\ ~Identifies(Layer(r), c.shape) => d.principal = c.principal
      /\ Identifies(Layer(r), c.shape) /\ d.principal # Anonymous =>
          /\ d.principal # BadCredential
          /\ Decides(Layer(r).resolvers, c.shape.credentials, d.principal)
  BY DEF Passing
<1>4. /\ \A i \in 1..(c.layer - 1) : LetThrough(composed, i, c)
      /\ c.principal # Anonymous =>
           c.principal # BadCredential /\ Identified(composed, c.shape, c.layer, c.principal)
  BY <1>1 DEF BehindOK
<1> HIDE DEF c, d
<1>5. ASSUME NEW i \in 1..(d.layer - 1) PROVE LetThrough(composed, i, d)
  <2>1. i = c.layer \/ i \in 1..(c.layer - 1)
    BY <1>1
  <2>2. CASE i = c.layer
    BY <1>3, <2>2
  <2>3. CASE i \in 1..(c.layer - 1)
    BY <1>1, <1>4, <2>3, LetThroughStable
  <2> QED
    BY <2>1, <2>2, <2>3
<1>6. ASSUME d.principal # Anonymous
      PROVE  d.principal # BadCredential /\ Identified(composed, d.shape, d.layer, d.principal)
  <2>1. CASE Identifies(Layer(r), c.shape)
    <3>1. /\ d.principal # BadCredential
          /\ Decides(composed[c.layer].resolvers, c.shape.credentials, d.principal)
          /\ Identifies(composed[c.layer], c.shape)
      BY <1>2, <1>3, <1>6, <2>1
    <3>2. Identified(composed, c.shape, c.layer + 1, d.principal)
      BY <1>1, <3>1, IdentifiedHere
    <3> QED
      BY <1>1, <3>1, <3>2
  <2>2. CASE ~Identifies(Layer(r), c.shape)
    <3>1. /\ d.principal = c.principal /\ d.principal # BadCredential
          /\ Identified(composed, c.shape, c.layer, d.principal)
          /\ ~Identifies(composed[c.layer], c.shape)
      BY <1>2, <1>3, <1>4, <1>6, <2>2
    <3>2. Identified(composed, c.shape, c.layer + 1, d.principal)
      BY <1>1, <3>1, IdentifiedStays
    <3> QED
      BY <1>1, <3>1, <3>2
  <2> QED
    BY <2>1, <2>2
<1>7. BehindOK(d, composed)
  BY <1>1, <1>5, <1>6 DEF BehindOK
<1> QED
  BY <1>7 DEF d

LEMMA LayerStep == PipeTypeOK /\ ChainInv /\ LayerInv /\ PipeNext => LayerInv'
<1> SUFFICES ASSUME PipeTypeOK, ChainInv, LayerInv, PipeNext PROVE LayerInv'
  OBVIOUS
<1>0. \A r \in Requests : BehindOK(call[r], composed)
  BY DEF LayerInv, BehindOK
<1> SUFFICES \A r \in Requests : BehindOK(call'[r], composed')
  BY DEF LayerInv, BehindOK
<1>1. ASSUME NEW group \in LayerGroups, Use(group)
      PROVE  \A r \in Requests : BehindOK(call'[r], composed')
  <2>1. \A r \in Requests : call'[r] = call[r] /\ call[r].at # "layers"
    BY <1>1 DEF Use, InFlight
  <2> QED
    BY <1>0, <2>1 DEF BehindOK
<1>2. ASSUME NEW r \in Requests, NEW d, call' = [call EXCEPT ![r] = d],
             UNCHANGED composed, BehindOK(d, composed)
      PROVE  \A x \in Requests : BehindOK(call'[x], composed')
  <2>1. \A x \in Requests : call'[x] = IF x = r THEN d ELSE call[x]
    BY <1>2 DEF PipeTypeOK
  <2> QED
    BY <1>0, <1>2, <2>1
<1>3. ASSUME NEW r \in Requests, NEW shape \in Shapes, Prepare(r, shape)
      PROVE  \A x \in Requests : BehindOK(call'[x], composed')
  <2>1. /\ call' = [call EXCEPT ![r] = call'[r]] /\ UNCHANGED composed
        /\ call[r].at = "idle" /\ call'[r].at = "prepared"
        /\ call'[r].layer = call[r].layer /\ call'[r].principal = call[r].principal
    BY <1>3, PrepareFacts
  <2>2. BehindOK(call'[r], composed)
    BY <1>0, <2>1 DEF BehindOK
  <2> QED
    BY <1>2, <2>1, <2>2
<1>4. ASSUME NEW r \in Requests, ServeHTTP(r)
      PROVE  \A x \in Requests : BehindOK(call'[x], composed')
  <2>1. /\ call' = [call EXCEPT ![r] = call'[r]]
        /\ call[r].at = "prepared" /\ call'[r].at = "layers"
        /\ call'[r].layer = call[r].layer /\ call'[r].principal = call[r].principal
        /\ composed' = IF composed = Unbuilt THEN middlewares ELSE composed
    BY <1>4, ServeFacts
  <2>2. call[r].layer = 1 /\ call[r].principal = Anonymous
    BY <1>0, <2>1 DEF BehindOK
  <2>3. BehindOK(call'[r], composed')
    BY <2>1, <2>2 DEF BehindOK
  <2>4. ASSUME NEW x \in Requests, x # r PROVE BehindOK(call'[x], composed')
    <3>1. call'[x] = call[x]
      BY <2>1, <2>4 DEF PipeTypeOK
    <3>2. CASE call[x].at = "layers"
      <4>1. composed = middlewares
        BY <3>2 DEF ChainInv, Served
      <4>2. composed' = composed
        BY <2>1, <4>1
      <4> QED
        BY <1>0, <3>1, <4>2
    <3>3. CASE call[x].at # "layers"
      BY <1>0, <3>1, <3>3 DEF BehindOK
    <3> QED
      BY <3>2, <3>3
  <2> QED
    BY <2>3, <2>4
<1>5. ASSUME NEW r \in Requests, Receive(r)
      PROVE  \A x \in Requests : BehindOK(call'[x], composed')
  <2>1. UNCHANGED composed
    BY <1>5, ReceiveFacts
  <2>2. ASSUME NEW x \in Requests PROVE BehindOK(call'[x], composed)
    <3>1. /\ call'[x].shape = call[x].shape /\ call'[x].header = call[x].header
          /\ call'[x].cookie = call[x].cookie /\ call'[x].layer = call[x].layer
          /\ call'[x].principal = call[x].principal /\ call'[x].admitted = call[x].admitted
          /\ call'[x].decision = call[x].decision
          /\ call'[x].at = IF x = r THEN "done" ELSE call[x].at
      BY <1>5, ReceiveFacts
    <3>2. \A i : LetThrough(composed, i, call[x]) => LetThrough(composed, i, call'[x])
      BY <3>1, LetThroughStable
    <3> QED
      BY <1>0, <3>1, <3>2 DEF BehindOK
  <2> QED
    BY <2>1, <2>2
<1>6. ASSUME NEW r \in Requests, Passing(r)
      PROVE  \A x \in Requests : BehindOK(call'[x], composed')
  <2>1. BehindOK(call'[r], composed)
    BY <1>0, <1>6, PassingBehind
  <2>2. call' = [call EXCEPT ![r] = call'[r]] /\ UNCHANGED composed
    BY <1>6 DEF Passing, Only
  <2> QED
    BY <1>2, <2>1, <2>2
<1>7. ASSUME NEW r \in Requests,
             Refusing(r) \/ Entering(r) \/ Storing(r) \/ Rendering(r)
      PROVE  \A x \in Requests : BehindOK(call'[x], composed')
  <2>1. call'[r].at \notin {"idle", "prepared", "layers"}
    BY <1>7 DEF Refusing, Entering, Storing, Rendering
  <2>2. BehindOK(call'[r], composed)
    BY <2>1 DEF BehindOK
  <2>3. call' = [call EXCEPT ![r] = call'[r]] /\ UNCHANGED composed
    BY <1>7 DEF Refusing, Entering, Storing, Rendering, Only
  <2> QED
    BY <1>2, <2>2, <2>3
<1> QED
  BY <1>1, <1>3, <1>4, <1>5, <1>6, <1>7, PipeSteps

(* What ThroughInv says of one request.                                    *)
Let(c) ==
  c.at \in {"storing", "rendering"} \/ c.effect # "none" =>
    \A i \in DOMAIN c.wired : LetThrough(c.wired, i, c)

LEMMA ThroughStep ==
  PipeTypeOK /\ ChainInv /\ LayerInv /\ ThroughInv /\ AnswerInv /\ PipeNext => ThroughInv'
<1> SUFFICES ASSUME PipeTypeOK, ChainInv, LayerInv, ThroughInv, AnswerInv, PipeNext
             PROVE  ThroughInv'
  OBVIOUS
<1>0. \A r \in Requests : Let(call[r])
  BY DEF ThroughInv, Let
<1> SUFFICES \A r \in Requests : Let(call'[r])
  BY DEF ThroughInv, Let
<1>1. ASSUME NEW group \in LayerGroups, Use(group) PROVE \A r \in Requests : Let(call'[r])
  BY <1>0, <1>1 DEF Use
<1>2. ASSUME NEW r \in Requests, NEW d, call' = [call EXCEPT ![r] = d], Let(d)
      PROVE  \A x \in Requests : Let(call'[x])
  <2>1. \A x \in Requests : call'[x] = IF x = r THEN d ELSE call[x]
    BY <1>2 DEF PipeTypeOK
  <2> QED
    BY <1>0, <1>2, <2>1
<1>3. ASSUME NEW r \in Requests, NEW shape \in Shapes, Prepare(r, shape)
      PROVE  \A x \in Requests : Let(call'[x])
  <2>1. /\ call' = [call EXCEPT ![r] = call'[r]] /\ call[r].at = "idle"
        /\ call'[r].at = "prepared" /\ call'[r].effect = call[r].effect
    BY <1>3, PrepareFacts
  <2>2. Let(call'[r])
    BY <2>1 DEF AnswerInv, Let
  <2> QED
    BY <1>2, <2>1, <2>2
<1>4. ASSUME NEW r \in Requests, ServeHTTP(r) PROVE \A x \in Requests : Let(call'[x])
  <2>1. /\ call' = [call EXCEPT ![r] = call'[r]] /\ call[r].at = "prepared"
        /\ call'[r].at = "layers" /\ call'[r].effect = call[r].effect
    BY <1>4, ServeFacts
  <2>2. Let(call'[r])
    BY <2>1 DEF AnswerInv, Let
  <2> QED
    BY <1>2, <2>1, <2>2
<1>5. ASSUME NEW r \in Requests, Receive(r) PROVE \A x \in Requests : Let(call'[x])
  <2> SUFFICES ASSUME NEW x \in Requests PROVE Let(call'[x])
    OBVIOUS
  <2>1. /\ call'[x].shape = call[x].shape /\ call'[x].header = call[x].header
        /\ call'[x].cookie = call[x].cookie /\ call'[x].wired = call[x].wired
        /\ call'[x].effect = call[x].effect /\ call'[x].admitted = call[x].admitted
        /\ call'[x].decision = call[x].decision
        /\ call'[x].at = IF x = r THEN "done" ELSE call[x].at
    BY <1>5, ReceiveFacts
  <2>2. \A i : LetThrough(call[x].wired, i, call[x]) => LetThrough(call[x].wired, i, call'[x])
    BY <2>1, LetThroughStable
  <2> QED
    BY <1>0, <2>1, <2>2 DEF Let
<1>6. ASSUME NEW r \in Requests, Passing(r) \/ Refusing(r)
      PROVE  \A x \in Requests : Let(call'[x])
  <2>1. /\ call' = [call EXCEPT ![r] = call'[r]] /\ call[r].at = "layers"
        /\ call'[r].at \in {"layers", "answered"} /\ call'[r].effect = call[r].effect
    BY <1>6 DEF Passing, Refusing, Only, InLayers
  <2>2. Let(call'[r])
    BY <2>1 DEF AnswerInv, Let
  <2> QED
    BY <1>2, <2>1, <2>2
<1>7. ASSUME NEW r \in Requests, Entering(r) PROVE \A x \in Requests : Let(call'[x])
  <2> DEFINE c == call[r]
             d == call'[r]
  <2>1. /\ call' = [call EXCEPT ![r] = d] /\ c.at = "layers" /\ c \in CallType
        /\ c.layer > Len(composed)
        /\ d.shape = c.shape /\ d.header = c.header /\ d.cookie = c.cookie
        /\ d.admitted = c.admitted /\ d.decision = c.decision /\ d.wired = c.wired
    BY <1>7 DEF Entering, Only, SameRequest
  <2>2. /\ c.wired = wired /\ composed = middlewares /\ wired \in Lists
        /\ Places(composed, wired)
    BY <2>1 DEF ChainInv, Served, PipeTypeOK
  <2>3. c.layer \in Nat /\ Len(composed) \in Nat
    BY <2>1, <2>2 DEF CallType, Places
  <2>4. \A i \in 1..(c.layer - 1) : LetThrough(composed, i, c)
    BY <2>1 DEF LayerInv
  <2> HIDE DEF c, d
  <2>5. \A n \in 1..Len(composed) : LetThrough(composed, n, d)
    <3>1. \A n \in 1..Len(composed) : LetThrough(composed, n, c)
      BY <2>1, <2>3, <2>4
    <3>2. \A n : LetThrough(composed, n, c) => LetThrough(composed, n, d)
      BY <2>1, LetThroughStable
    <3> QED
      BY <2>2, <3>1, <3>2
  <2>6. \A i \in DOMAIN wired : LetThrough(wired, i, d)
    BY <2>2, <2>5, ChainGuards
  <2>7. Let(d)
    BY <2>1, <2>2, <2>6 DEF Let
  <2> QED
    BY <1>2, <2>1, <2>7 DEF d
<1>8. ASSUME NEW r \in Requests, Storing(r) \/ Rendering(r)
      PROVE  \A x \in Requests : Let(call'[x])
  <2> DEFINE c == call[r]
             d == call'[r]
  <2>1. /\ call' = [call EXCEPT ![r] = d] /\ c.at \in {"storing", "rendering"}
        /\ d.shape = c.shape /\ d.header = c.header /\ d.cookie = c.cookie
        /\ d.admitted = c.admitted /\ d.decision = c.decision /\ d.wired = c.wired
    BY <1>8 DEF Storing, Rendering, Only, SameRequest
  <2>2. \A i \in DOMAIN c.wired : LetThrough(c.wired, i, c)
    BY <1>0, <2>1 DEF Let
  <2> HIDE DEF c, d
  <2>3. \A i : LetThrough(c.wired, i, c) => LetThrough(c.wired, i, d)
    BY <2>1, LetThroughStable
  <2>4. Let(d)
    BY <2>1, <2>2, <2>3 DEF Let
  <2> QED
    BY <1>2, <2>1, <2>4 DEF d
<1> QED
  BY <1>1, <1>3, <1>4, <1>5, <1>6, <1>7, <1>8, PipeSteps

(* What AnswerInv says of one request.                                     *)
Honest(c) ==
  LET over == c.at \in {"answered", "done"} IN
  /\ ~over => c.by = "none"
  /\ c.effect # "none" <=> c.at = "rendering" \/ (over /\ Good(c))
  /\ c.effect # "none" => /\ c.effect = Operation(c.shape.method)
                          /\ c.hooks = IF c.effect = "GET" THEN 0 ELSE 1

LEMMA AnswerStep ==
  PipeTypeOK /\ ChainInv /\ LayerInv /\ AnswerInv /\ PipeNext => AnswerInv'
<1> SUFFICES ASSUME PipeTypeOK, ChainInv, LayerInv, AnswerInv, PipeNext PROVE AnswerInv'
  OBVIOUS
<1>0. \A r \in Requests : Honest(call[r])
  BY DEF AnswerInv, Honest
<1> SUFFICES \A r \in Requests : Honest(call'[r])
  BY DEF AnswerInv, Honest
<1>1. ASSUME NEW group \in LayerGroups, Use(group) PROVE \A r \in Requests : Honest(call'[r])
  BY <1>0, <1>1 DEF Use
<1>2. ASSUME NEW r \in Requests, NEW d, call' = [call EXCEPT ![r] = d], Honest(d)
      PROVE  \A x \in Requests : Honest(call'[x])
  <2>1. \A x \in Requests : call'[x] = IF x = r THEN d ELSE call[x]
    BY <1>2 DEF PipeTypeOK
  <2> QED
    BY <1>0, <1>2, <2>1
<1>3. ASSUME NEW r \in Requests, NEW shape \in Shapes, Prepare(r, shape)
      PROVE  \A x \in Requests : Honest(call'[x])
  <2>1. /\ call' = [call EXCEPT ![r] = call'[r]] /\ call[r].at = "idle"
        /\ call'[r].at = "prepared" /\ call'[r].effect = call[r].effect
        /\ call'[r].by = call[r].by
    BY <1>3, PrepareFacts
  <2>2. Honest(call'[r])
    BY <1>0, <2>1 DEF Honest
  <2> QED
    BY <1>2, <2>1, <2>2
<1>4. ASSUME NEW r \in Requests, ServeHTTP(r) PROVE \A x \in Requests : Honest(call'[x])
  <2>1. /\ call' = [call EXCEPT ![r] = call'[r]] /\ call[r].at = "prepared"
        /\ call'[r].at = "layers" /\ call'[r].effect = call[r].effect
        /\ call'[r].by = call[r].by
    BY <1>4, ServeFacts
  <2>2. Honest(call'[r])
    BY <1>0, <2>1 DEF Honest
  <2> QED
    BY <1>2, <2>1, <2>2
<1>5. ASSUME NEW r \in Requests, Receive(r) PROVE \A x \in Requests : Honest(call'[x])
  <2> SUFFICES ASSUME NEW x \in Requests PROVE Honest(call'[x])
    OBVIOUS
  <2>1. /\ call'[x].shape = call[x].shape /\ call'[x].by = call[x].by
        /\ call'[x].status = call[x].status /\ call'[x].hooks = call[x].hooks
        /\ call'[x].effect = call[x].effect
        /\ call'[x].at = IF x = r THEN "done" ELSE call[x].at
        /\ call[r].at = "answered"
    BY <1>5, ReceiveFacts
  <2>2. Good(call'[x]) <=> Good(call[x])
    BY <2>1 DEF Good
  <2>3. CASE x = r
    BY <1>0, <2>1, <2>2, <2>3 DEF Honest
  <2>4. CASE x # r
    BY <1>0, <2>1, <2>2, <2>4 DEF Honest
  <2> QED
    BY <2>3, <2>4
<1>6. ASSUME NEW r \in Requests,
             Passing(r) \/ Refusing(r) \/ Entering(r) \/ Storing(r) \/ Rendering(r)
      PROVE  /\ call' = [call EXCEPT ![r] = call'[r]] /\ call'[r].shape = call[r].shape
             /\ call'[r] \in CallType
  BY <1>6 DEF Passing, Refusing, Entering, Storing, Rendering, Only, SameRequest
<1>7. ASSUME NEW r \in Requests, Passing(r) \/ Entering(r)
      PROVE  \A x \in Requests : Honest(call'[x])
  <2>1. /\ call[r].at = "layers" /\ call'[r].at \in {"layers", "storing"}
        /\ call'[r].effect = call[r].effect /\ call'[r].by = call[r].by
    BY <1>7 DEF Passing, Entering, InLayers
  <2>2. Honest(call'[r])
    BY <1>0, <2>1 DEF Honest
  <2> QED
    BY <1>2, <1>6, <1>7, <2>2
<1>8. ASSUME NEW r \in Requests, Refusing(r) PROVE \A x \in Requests : Honest(call'[x])
  <2>1. /\ call[r].at = "layers" /\ call'[r].at = "answered"
        /\ call'[r].effect = call[r].effect /\ call'[r].status \in Nat
        /\ call'[r].by \in Refusers \/ (call'[r].by = "crud" /\ call'[r].status >= 300)
    BY <1>6, <1>8 DEF Refusing, CallType
  <2>2. ~Good(call'[r])
    BY <2>1 DEF Good, Refusers
  <2>3. Honest(call'[r])
    BY <1>0, <2>1, <2>2 DEF Honest
  <2> QED
    BY <1>2, <1>6, <1>8, <2>3
<1>9. ASSUME NEW r \in Requests, Storing(r) PROVE \A x \in Requests : Honest(call'[x])
  <2>1. call[r].at = "storing" /\ call[r].effect = "none" /\ call[r].by = "none"
    BY <1>0, <1>9 DEF Storing, Honest
  <2>2. CASE /\ call'[r].at = "answered" /\ call'[r].by = "crud" /\ call'[r].status >= 300
             /\ call'[r].effect = call[r].effect
    <3>1. call'[r].status \in Nat
      BY <1>6, <1>9 DEF CallType
    <3>2. Honest(call'[r])
      BY <2>1, <2>2, <3>1 DEF Honest, Good
    <3> QED
      BY <1>2, <1>6, <1>9, <3>2
  <2>3. CASE /\ call'[r].at = "rendering" /\ call'[r].by = call[r].by
             /\ call'[r].effect = Operation(call[r].shape.method)
             /\ call'[r].hooks = IF Operation(call[r].shape.method) = "GET" THEN 0 ELSE 1
    <3>1. Operation(call[r].shape.method) # "none" /\ call'[r].shape = call[r].shape
      BY <1>6, <1>9, <2>1, PipelineAssumption DEF PipeTypeOK, Methods, Operation
    <3>2. Honest(call'[r])
      BY <2>1, <2>3, <3>1 DEF Honest
    <3> QED
      BY <1>2, <1>6, <1>9, <3>2
  <2> QED
    BY <1>9, <2>2, <2>3 DEF Storing
<1>10. ASSUME NEW r \in Requests, Rendering(r) PROVE \A x \in Requests : Honest(call'[x])
  <2>1. /\ call[r].at = "rendering" /\ call'[r].at = "answered" /\ Good(call'[r])
        /\ call'[r].effect = call[r].effect /\ call'[r].hooks = call[r].hooks
    BY <1>10 DEF Rendering
  <2>2. Honest(call'[r])
    BY <1>0, <1>6, <1>10, <2>1 DEF Honest
  <2> QED
    BY <1>2, <1>6, <1>10, <2>2
<1> QED
  BY <1>1, <1>3, <1>4, <1>5, <1>7, <1>8, <1>9, <1>10, PipeSteps

(* What TokenInv and RotationSpares say of one request, the cookie of the  *)
(* browser being j.                                                        *)
Mirrored(c, j) ==
  /\ c.at = "prepared" /\ c.shape.mirrors /\ c.alone => c.header = j
  /\ c.at = "layers" /\ c.shape.mirrors /\ c.alone => c.header = c.cookie

Spared(c) == c.by = "csrf" /\ c.status = 403 /\ c.shape.mirrors => c.header = 0 \/ ~c.alone

LEMMA TokenStep ==
  PipeTypeOK /\ ChainInv /\ LayerInv /\ AnswerInv /\ TokenInv /\ RotationSpares /\ PipeNext
    => TokenInv' /\ RotationSpares'
<1> SUFFICES ASSUME PipeTypeOK, ChainInv, LayerInv, AnswerInv, TokenInv, RotationSpares, PipeNext
             PROVE  TokenInv' /\ RotationSpares'
  OBVIOUS
<1>0. \A r \in Requests : Mirrored(call[r], jar) /\ Spared(call[r])
  BY DEF TokenInv, RotationSpares, Mirrored, Spared
<1> DEFINE Kept == \A r \in Requests : Mirrored(call'[r], jar') /\ Spared(call'[r])
<1> SUFFICES Kept
  BY DEF TokenInv, RotationSpares, Mirrored, Spared
<1>1. ASSUME NEW group \in LayerGroups, Use(group) PROVE Kept
  BY <1>0, <1>1 DEF Use
<1>2. ASSUME NEW r \in Requests, NEW d, call' = [call EXCEPT ![r] = d],
             UNCHANGED jar, Mirrored(d, jar), Spared(d)
      PROVE  Kept
  <2>1. \A x \in Requests : call'[x] = IF x = r THEN d ELSE call[x]
    BY <1>2 DEF PipeTypeOK
  <2> QED
    BY <1>0, <1>2, <2>1
<1>3. ASSUME NEW r \in Requests, NEW shape \in Shapes, Prepare(r, shape) PROVE Kept
  <2>1. /\ call' = [call EXCEPT ![r] = call'[r]] /\ UNCHANGED jar /\ call[r].at = "idle"
        /\ call'[r].at = "prepared" /\ call'[r].shape = shape
        /\ call'[r].header = IF shape.mirrors THEN jar ELSE 0
        /\ call'[r].by = call[r].by
    BY <1>3, PrepareFacts
  <2>2. call[r].by = "none"
    BY <2>1 DEF AnswerInv
  <2>3. Mirrored(call'[r], jar) /\ Spared(call'[r])
    BY <2>1, <2>2 DEF Mirrored, Spared
  <2> QED
    BY <1>2, <2>1, <2>3
<1>4. ASSUME NEW r \in Requests, ServeHTTP(r) PROVE Kept
  <2>1. /\ call' = [call EXCEPT ![r] = call'[r]] /\ UNCHANGED jar
        /\ call[r].at = "prepared" /\ call'[r].at = "layers"
        /\ call'[r].shape = call[r].shape /\ call'[r].header = call[r].header
        /\ call'[r].cookie = jar /\ call'[r].alone = call[r].alone
        /\ call'[r].by = call[r].by
    BY <1>4, ServeFacts
  <2>2. call[r].by = "none"
    BY <2>1 DEF AnswerInv
  <2>3. Mirrored(call'[r], jar) /\ Spared(call'[r])
    BY <1>0, <2>1, <2>2 DEF Mirrored, Spared
  <2> QED
    BY <1>2, <2>1, <2>3
<1>5. ASSUME NEW r \in Requests, Receive(r) PROVE Kept
  <2> SUFFICES ASSUME NEW x \in Requests PROVE Mirrored(call'[x], jar') /\ Spared(call'[x])
    OBVIOUS
  <2>1. /\ call'[x].shape = call[x].shape /\ call'[x].header = call[x].header
        /\ call'[x].cookie = call[x].cookie
        /\ call'[x].by = call[x].by /\ call'[x].status = call[x].status
        /\ call'[x].at = IF x = r THEN "done" ELSE call[x].at
        /\ call'[x].alone = IF x # r /\ call[x].at = "prepared" /\ call[r].sets # 0
                            THEN FALSE ELSE call[x].alone
        /\ jar' = IF call[r].sets # 0 THEN call[r].sets ELSE jar
    BY <1>5, ReceiveFacts
  <2>2. CASE x = r
    BY <1>0, <2>1, <2>2 DEF Mirrored, Spared
  <2>3. CASE x # r /\ call[x].at = "prepared"
    BY <1>0, <2>1, <2>3 DEF Mirrored, Spared
  <2>4. CASE x # r /\ call[x].at # "prepared"
    BY <1>0, <2>1, <2>4 DEF Mirrored, Spared
  <2> QED
    BY <2>2, <2>3, <2>4
<1>6. ASSUME NEW r \in Requests,
             Passing(r) \/ Refusing(r) \/ Entering(r) \/ Storing(r) \/ Rendering(r)
      PROVE  /\ call' = [call EXCEPT ![r] = call'[r]] /\ UNCHANGED jar
             /\ SameRequest(call[r], call'[r]) /\ call[r].by = "none"
  BY <1>6 DEF Passing, Refusing, Entering, Storing, Rendering, Only, InLayers, AnswerInv
<1>7. ASSUME NEW r \in Requests, Refusing(r) PROVE Kept
  <2>1. /\ call[r].at = "layers" /\ call'[r].at = "answered"
        /\ call'[r].by = "csrf" /\ call'[r].status = 403 =>
             ~(call[r].cookie # 0 /\ call[r].header # 0 /\ call[r].cookie = call[r].header)
    BY <1>7 DEF Refusing
  <2>2. Mirrored(call'[r], jar) /\ Spared(call'[r])
    BY <1>0, <1>6, <1>7, <2>1 DEF Mirrored, Spared, SameRequest
  <2> QED
    BY <1>2, <1>6, <1>7, <2>2
<1>8. ASSUME NEW r \in Requests, Passing(r) \/ Entering(r) \/ Storing(r) \/ Rendering(r)
      PROVE  Kept
  <2>1. /\ call'[r].by # "csrf" /\ call'[r].at # "prepared"
        /\ call'[r].at = "layers" => call[r].at = "layers"
    BY <1>6, <1>8 DEF Passing, Entering, Storing, Rendering, InLayers, Good
  <2>2. Mirrored(call'[r], jar) /\ Spared(call'[r])
    BY <1>0, <1>6, <1>8, <2>1 DEF Mirrored, Spared, SameRequest
  <2> QED
    BY <1>2, <1>6, <1>8, <2>2
<1> QED
  BY <1>1, <1>3, <1>4, <1>5, <1>7, <1>8, PipeSteps

-----------------------------------------------------------------------------
(* Kinds of cookies.                                                       *)
LEMMA NextKindFollows ==
  ASSUME NEW n \in 0..MaxKinds, DOMAIN kindProfiles = 1..n,
         Cardinality(DOMAIN kindProfiles) < MaxKinds
  PROVE  NextKind = n + 1 /\ n + 1 \in 1..MaxKinds /\ (1..n) \cup {n + 1} = 1..(n + 1)
<1>1. MaxKinds \in Nat /\ n \in Nat
  BY CookieAssumption
<1>2. Cardinality(DOMAIN kindProfiles) = n
  BY <1>1, FS_Interval
<1>3. n + 1 \in 1..MaxKinds
  BY <1>1, <1>2
<1> DEFINE free == {k \in Kinds : k > n /\ k \notin 1..n}
<1>4. n + 1 \in free /\ free \in SUBSET Nat /\ \A k \in free : n + 1 <= k
  BY <1>1, <1>3 DEF Kinds
<1>5. NextKind = Min(free)
  BY <1>2 DEF NextKind
<1> HIDE DEF free
<1>6. Min(free) \in free /\ \A k \in free : Min(free) <= k
  BY <1>4, MinProperties
<1>7. Min(free) = n + 1
  <2>1. Min(free) <= n + 1 /\ n + 1 <= Min(free) /\ Min(free) \in Nat
    BY <1>4, <1>6
  <2> QED
    BY <1>1, <2>1
<1> QED
  BY <1>1, <1>3, <1>5, <1>7

LEMMA CookieStep == CookieInv /\ CookieNext => CookieInv'
<1> SUFFICES ASSUME CookieInv, CookieNext PROVE CookieInv'
  OBVIOUS
<1>1. CASE Configure
  BY <1>1 DEF Configure, CookieInv
<1>2. ASSUME NEW p \in ProfileMenu, RegisterKind(p) PROVE CookieInv'
  <2> DEFINE q == Trimmed(p)
  <2>1. PICK n \in 0..MaxKinds : DOMAIN kindProfiles = 1..n
    BY DEF CookieInv
  <2>2. NextKind = n + 1 /\ n + 1 \in 1..MaxKinds /\ (1..n) \cup {n + 1} = 1..(n + 1)
    BY <1>2, <2>1, NextKindFollows DEF RegisterKind
  <2>3. Trim(q.name) = Trim(p.name)
    BY CookieAssumption DEF Trimmed, Trim, Plain
  <2>4. /\ kindProfiles' = [k \in 1..(n + 1) |-> IF k = n + 1 THEN q ELSE kindProfiles[k]]
        /\ handedOut' = [k \in 1..(n + 1) |-> IF k \in 1..n THEN handedOut[k] ELSE q]
    BY <1>2, <2>1, <2>2 DEF RegisterKind, CookieInv
  <2>5. \A k \in 1..n : Trim(kindProfiles[k].name) # Trim(q.name)
    BY <1>2, <2>1, <2>3 DEF RegisterKind, NameTaken
  <2> HIDE DEF q
  <2>6. n \in Nat /\ n + 1 \in 0..MaxKinds /\ handedOut = kindProfiles
    BY <2>2, CookieAssumption DEF CookieInv
  <2>7. handedOut' = kindProfiles'
    BY <2>4, <2>6
  <2>8. DOMAIN kindProfiles' = 1..(n + 1)
    BY <2>4
  <2>9. ASSUME NEW k \in 1..(n + 1), NEW l \in 1..(n + 1), k # l
        PROVE  Trim(kindProfiles'[k].name) # Trim(kindProfiles'[l].name)
    <3>1. /\ k \in 1..n => kindProfiles'[k] = kindProfiles[k]
          /\ l \in 1..n => kindProfiles'[l] = kindProfiles[l]
          /\ k \notin 1..n => k = n + 1 /\ kindProfiles'[k] = q
          /\ l \notin 1..n => l = n + 1 /\ kindProfiles'[l] = q
      BY <2>4, <2>6
    <3>2. CASE k \in 1..n /\ l \in 1..n
      BY <2>1, <2>9, <3>1, <3>2 DEF CookieInv
    <3>3. CASE k \notin 1..n \/ l \notin 1..n
      BY <2>5, <2>9, <3>1, <3>3
    <3> QED
      BY <3>2, <3>3
  <2> QED
    BY <2>6, <2>7, <2>8, <2>9 DEF CookieInv
<1> QED
  BY <1>1, <1>2 DEF CookieNext

-----------------------------------------------------------------------------
(* The invariant holds, and says what the pipeline promises.               *)
LEMMA PipelineStarts == PipelineInit => IInv /\ CookieInv
<1> SUFFICES ASSUME PipelineInit PROVE IInv /\ CookieInv
  OBVIOUS
<1>1. /\ middlewares = <<>> /\ wired = <<>> /\ composed = Unbuilt /\ uses = 0 /\ jar \in {0, 1} /\ tokens = jar
      /\ call = [r \in Requests |-> Unsent]
      /\ storedEntities = [e \in Entities |-> "absent"]
  BY DEF PipelineInit, PipeInit
<1>2. Unsent \in CallType
  <2>1. <<>> \in Lists /\ Anonymous \in Credentials \cup {Anonymous}
    BY DEF Lists
  <2> QED
    BY <2>1 DEF Unsent, CallType
<1>3. \A r \in Requests : call[r] = Unsent
  BY <1>1
<1>4. /\ Unsent.at = "idle" /\ Unsent.layer = 1 /\ Unsent.principal = Anonymous
      /\ Unsent.by = "none" /\ Unsent.effect = "none"
  BY DEF Unsent
<1>5. PipeTypeOK
  BY <1>1, <1>2, <1>3, <1>4 DEF PipeTypeOK, Lists
<1>6. ChainInv /\ LayerInv
  <2>1. Places(<<>>, <<>>)
    <3> DEFINE none == [k \in 1..Len(<<>>) |-> k]
    <3>1. Len(<<>>) = 0 /\ 1..Len(<<>>) = {} /\ DOMAIN <<>> = {} /\ <<>> \in Seq(AllLayers)
      OBVIOUS
    <3>2. none \in [1..Len(<<>>) -> DOMAIN <<>>]
      BY <3>1
    <3> HIDE DEF none
    <3>3. \A x \in 1..Len(<<>>) : FALSE
      BY <3>1
    <3>4. \A x \in DOMAIN <<>> : FALSE
      BY <3>1
    <3> QED
      BY Zenon, <3>1, <3>2, <3>3, <3>4 DEF Places
  <2> QED
    BY <1>1, <1>3, <1>4, <2>1 DEF ChainInv, LayerInv, Served
<1>7. ThroughInv /\ AnswerInv
  BY <1>3, <1>4 DEF ThroughInv, AnswerInv
<1>8. TokenInv /\ RotationSpares
  BY <1>3, <1>4 DEF TokenInv, RotationSpares
<1>9. CookieInv
  BY CookieAssumption DEF PipelineInit, CookieInit, CookieInv
<1> QED
  BY <1>5, <1>6, <1>7, <1>8, <1>9 DEF IInv

LEMMA PipelineSteps ==
  IInv /\ CookieInv /\ [PipelineNext]_<<pipeVars, cookieVars>> => IInv' /\ CookieInv'
<1> SUFFICES ASSUME IInv, CookieInv, [PipelineNext]_<<pipeVars, cookieVars>>
             PROVE  IInv' /\ CookieInv'
  OBVIOUS
<1>1. CASE PipeNext /\ UNCHANGED cookieVars
  <2>1. IInv'
    BY <1>1, TypeStep, ChainStep, LayerStep, ThroughStep, AnswerStep, TokenStep DEF IInv
  <2>2. CookieInv'
    BY <1>1 DEF CookieInv, cookieVars
  <2> QED
    BY <2>1, <2>2
<1>2. ASSUME UNCHANGED pipeVars PROVE IInv'
  <2>1. UNCHANGED <<middlewares, wired, composed, uses, call, jar, tokens, storedEntities>>
    BY <1>2 DEF pipeVars
  <2>2. PipeTypeOK' /\ ChainInv'
    BY <2>1 DEF IInv, PipeTypeOK, ChainInv, Served
  <2>3. LayerInv' /\ ThroughInv'
    BY <2>1 DEF IInv, LayerInv, ThroughInv
  <2>4. AnswerInv' /\ TokenInv' /\ RotationSpares'
    BY <2>1 DEF IInv, AnswerInv, TokenInv, RotationSpares
  <2> QED
    BY <2>2, <2>3, <2>4 DEF IInv
<1>3. CASE CookieNext /\ UNCHANGED pipeVars
  BY <1>2, <1>3, CookieStep
<1>4. CASE UNCHANGED <<pipeVars, cookieVars>>
  BY <1>2, <1>4 DEF CookieInv, cookieVars
<1> QED
  BY <1>1, <1>3, <1>4 DEF PipelineNext

LEMMA InvariantGuards == IInv /\ CookieInv => PipelineGuards
<1> SUFFICES ASSUME IInv, CookieInv PROVE PipelineGuards
  OBVIOUS
<1>1. EffectsGuarded
  BY DEF IInv, ThroughInv, EffectsGuarded
<1>2. AnswersHonest
  <2> SUFFICES ASSUME NEW r \in Requests, call[r].at \in {"answered", "done"}
               PROVE  /\ (call[r].by = "crud" /\ call[r].status < 300)
                            <=> (call[r].effect # "none" /\ call[r].by # "encoding")
                      /\ call[r].effect # "none" =>
                           call[r].hooks = IF call[r].effect = "GET" THEN 0 ELSE 1
                      /\ call[r].by = "crud" /\ call[r].status < 300 =>
                           call[r].effect = Operation(call[r].shape.method)
    BY DEF AnswersHonest
  <2>1. call[r].effect # "none" <=> Good(call[r])
    BY DEF IInv, AnswerInv
  <2>2. call[r].effect # "none" => /\ call[r].effect = Operation(call[r].shape.method)
                                  /\ call[r].hooks = IF call[r].effect = "GET" THEN 0 ELSE 1
    BY DEF IInv, AnswerInv
  <2> QED
    BY <2>1, <2>2 DEF Good
<1>3. RotationSpares
  BY DEF IInv
<1>4. KindsKept
  BY DEF CookieInv, KindsKept, BuildClear, BuildCookie
<1> QED
  BY <1>1, <1>2, <1>3, <1>4 DEF PipelineGuards

(* The invariant of the pipeline and of the cookies, for any chain.        *)
THEOREM PipelineInvariant == PipelineSpec => [](IInv /\ CookieInv)
<1> QED
  BY PipelineStarts, PipelineSteps, PTL DEF PipelineSpec

(* Requests, the router and the store keep their types.                    *)
THEOREM PipelineTypeCorrect == PipelineSpec => []PipeTypeOK
<1>1. IInv => PipeTypeOK
  BY DEF IInv
<1> QED
  BY <1>1, PipelineInvariant, PTL

(* Effects are those of requests that every layer let through, answers are *)
(* honest, rotation spares an honest page and kinds are kept, for any      *)
(* layers, requests, resolvers, skips and profiles.                        *)
THEOREM PipelineGuarded == PipelineSpec => []PipelineGuards
<1> QED
  BY PipelineInvariant, InvariantGuards, PTL
=============================================================================
