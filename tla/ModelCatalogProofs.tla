--------------------------- MODULE ModelCatalogProofs ---------------------------
(* Proofs about ModelCatalog for any surfaces, connect commands and replies.     *)
EXTENDS ModelCatalog, SequenceTheorems, WellFoundedInduction, TLAPS

--------------------------------------------------------------------------------
(* The inductive invariant.                                                      *)

\* The provider is the one its command was resolved to, but for its models.
ProviderOfCommand ==
    /\ command \in Commands /\ Resolves(command)
    /\ provider.surface = command.surface /\ provider.custom = OwnEndpoint(command)
    /\ provider.credential = command.credential

\* A request under way is the provider's, and so are the headers given for it.
SyncOfProvider ==
    /\ sync.request = IF sync.at = "idle" THEN {} ELSE {Request(provider)}
    /\ sync.at # "idle" => Probeable(provider)
    /\ \A granted \in sync.granted :
          granted = [url |-> Target(Request(provider)), credential |-> provider.credential]
    /\ sync.at = "idle" => sync.granted = {}

Typed ==
    /\ provider \in [surface : {provider.surface}, custom : {provider.custom},
                     credential : {provider.credential}, models : {provider.models}]
    /\ sync \in [at : {"idle", "policy", "headers", "fetch", "reply"}, request : {sync.request},
                 granted : {sync.granted}, reply : {sync.reply}]

ModelsOf(list) == {[id |-> m.id, ref |-> m.ref] : m \in ToSet(list)}

ModelsListed == provider.models \in Seq(ModelsOf(provider.models))

\* A reply is the one to the request.
ReplyToRequest ==
    /\ sync.at # "reply" => sync.reply = {}
    /\ \A one, other \in sync.reply : one = other
    /\ \A request \in sync.request, reply \in sync.reply :
          reply \in Replies[request.operation.kind]

Listed == ModelsListed /\ ReplyToRequest

IInv == ProviderOfCommand /\ SyncOfProvider /\ Typed

--------------------------------------------------------------------------------
(* What a request depends on.                                                    *)

\* The request of a provider does not depend on its models.
LEMMA RequestOfEqual ==
    ASSUME NEW a, NEW b, a.surface = b.surface, a.custom = b.custom, a.credential = b.credential
    PROVE  Request(a) = Request(b) /\ (Probeable(a) <=> Probeable(b))
  BY DEF Request, IsCustom, CustomRequest, SurfaceRequest, Probeable

LEMMA RequestCredential ==
    ASSUME NEW a
    PROVE  Request(a).credential = a.credential
  BY DEF Request, CustomRequest, SurfaceRequest

LEMMA PathLonger ==
    ASSUME NEW S, NEW T, NEW s \in Seq(S), NEW t \in Seq(T), ~Contains(s, Field), ~Contains(t, Field)
    PROVE  ~Contains(s \o t, Field)
  BY DEF Contains

LEMMA PathShorter ==
    ASSUME NEW s \in Seq(STRING), s # <<>>, ~Contains(s, Field)
    PROVE  Front(s) \in Seq(STRING) /\ ~Contains(Front(s), Field)
  BY DEF Contains, Front

LEMMA ListingNamesNoField ==
    ASSUME NEW part, part # "models", part # "search",
           NEW path \in {<<"models">>, <<"models", "search">>}
    PROVE  path \in Seq({"models", "search"}) /\ ~Contains(path, part)
<1>1. CASE path = <<"models">>
  <2>1. Len(path) = 1 /\ path[1] = "models"
    BY <1>1
  <2>. QED BY <1>1, <2>1 DEF Contains
<1>2. CASE path = <<"models", "search">>
  <2>1. Len(path) = 2 /\ path[1] = "models" /\ path[2] = "search"
    BY <1>2
  <2>2. \A i \in 1 .. Len(path) : i = 1 \/ i = 2
    BY <2>1
  <2>3. ~Contains(path, part)
    BY <2>1, <2>2 DEF Contains
  <2>. QED BY <1>2, <2>3
<1>. QED
  BY <1>1, <1>2

\* An operation asks at the base URL, or at its own next to it: no field to be
\* filled in comes into a URL that has none.
LEMMA OperationFilledIn ==
    ASSUME NEW base \in URLs, ~IsTemplate(base), NEW probe, NEW protocol,
           NEW request, request.base = base, request.operation = Operation(probe, protocol, base)
    PROVE  ~IsTemplate(URL(request))
<1>. DEFINE operation == Operation(probe, protocol, base)
            cut == [base EXCEPT !.path = Front(base.path)]
<1>1. base.path \in Seq(STRING) /\ ~Contains(base.path, Field)
  BY DEF URLs, IsTemplate
<1>2. operation.path \in Seq({"models", "search"}) /\ ~Contains(operation.path, Field)
  <2>1. operation.path \in {<<"models">>, <<"models", "search">>}
    BY DEF Operation, APIKeyOperation
  <2>2. Field # "models" /\ Field # "search"
    BY DEF Field
  <2>. HIDE DEF operation
  <2>. QED BY <2>1, <2>2, ListingNamesNoField
<1>3. operation.override \in {NoURL, base} \/ (operation.override = cut /\ base.path # <<>>)
  BY DEF Operation, APIKeyOperation
<1>4. base.path # <<>> => /\ cut.path = Front(base.path) /\ cut \in URLs
                          /\ ~Contains(cut.path, Field)
  BY <1>1, PathShorter DEF URLs
<1>. HIDE DEF operation, cut
<1>5. PICK b \in URLs : ~Contains(b.path, Field) /\ URL(request) = [b EXCEPT !.path = @ \o operation.path]
  <2>1. CASE operation.override \in {NoURL, base}
    <3>1. URL(request) = [base EXCEPT !.path = @ \o operation.path]
      BY <2>1 DEF URL, operation
    <3>. QED BY <1>1, <3>1
  <2>2. CASE operation.override # NoURL /\ operation.override = cut /\ base.path # <<>>
    <3>1. URL(request) = [cut EXCEPT !.path = @ \o operation.path]
      BY <2>2 DEF URL, operation
    <3>. QED BY <1>4, <2>2, <3>1
  <2>. QED BY <1>3, <2>1, <2>2
<1>6. URL(request).path = b.path \o operation.path /\ b.path \in Seq(STRING)
  BY <1>5 DEF URLs
<1>. QED
  BY <1>2, <1>5, <1>6, PathLonger DEF IsTemplate

\* What is asked of a provider, from the command it was resolved from.
LEMMA RequestOfCommand ==
    ASSUME NEW c \in Commands, Resolves(c), NEW a, Probeable(a),
           a.surface = c.surface, a.custom = OwnEndpoint(c)
    PROVE  /\ c.surface # "custom.api" => ~IsTemplate(URL(Request(a)))
           /\ Request(a).base = IF c.base = NoURL THEN DefaultEndpoint(c.surface).base ELSE c.base
           /\ Request(a).protocol = IF c.protocol = "" THEN DefaultEndpoint(c.surface).protocol
                                    ELSE c.protocol
<1>. DEFINE endpoint == DefaultEndpoint(c.surface)
<1>1. c.method \in {"apiKey", "oauth"} /\ c.base \in URLs
  BY CommandsAssumption
<1>2. c.method # "oauth"
  <2>. SUFFICES ASSUME c.method = "oauth" PROVE FALSE
    OBVIOUS
  <2>1. c.surface \in DOMAIN Surfaces /\ Surfaces[c.surface].cli # "" /\ a.custom = <<>>
    BY DEF Resolves, ResolvesOAuth, OwnEndpoint
  <2>2. Endpoints(Surfaces[c.surface]) = <<>>
    BY <2>1, SurfacesAssumption
  <2>. QED BY <2>1, <2>2 DEF Probeable, IsCustom
<1>3. CASE IsCustomAPIKey(c)
  <2>1. c.surface = "custom.api" /\ c.base # NoURL /\ c.protocol # ""
    BY <1>2, <1>3 DEF Resolves, ResolvesCustom, IsCustomAPIKey
  <2>2. a.custom = <<[base |-> c.base, protocol |-> c.protocol]>>
    BY <1>2, <1>3 DEF OwnEndpoint
  <2>3. a.custom # <<>> /\ a.custom[1].base = c.base /\ a.custom[1].protocol = c.protocol
    BY <2>2
  <2>4. Request(a).base = c.base /\ Request(a).protocol = c.protocol
    <3>1. CASE IsCustom(a)
      BY <2>3, <3>1 DEF Request, CustomRequest
    <3>2. CASE ~IsCustom(a)
      BY <2>1, <2>3, <3>2 DEF Request, SurfaceRequest
    <3>. QED BY <3>1, <3>2
  <2>. QED BY <2>1, <2>4
<1>4. CASE ~IsCustomAPIKey(c)
  <2>1. c.surface # "custom.api" /\ c.protocol = "" /\ HasAPI(c.surface) /\ BaseAccepted(endpoint.base, c.base)
    BY <1>1, <1>2, <1>4 DEF Resolves, ResolvesSurface, IsCustomAPIKey
  <2>2. endpoint.base \in URLs
    BY <2>1, SurfacesAssumption DEF HasAPI
  <2>3. ~IsCustom(a)
    BY <2>1 DEF IsCustom
  <2>. DEFINE asked == IF c.base = NoURL THEN endpoint.base ELSE c.base
  <2>4. /\ asked \in URLs /\ ~IsTemplate(asked)
        /\ a.custom \in {<<>>, <<[base |-> asked, protocol |-> endpoint.protocol]>>}
        /\ a.custom = <<>> => asked = endpoint.base
        /\ a.custom # <<>> => asked # NoURL
    <3>1. CASE IsTemplate(endpoint.base)
      <4>1. endpoint.base.path \in Seq(STRING) /\ Contains(endpoint.base.path, Field)
        BY <2>2, <3>1 DEF URLs, IsTemplate
      <4>2. Fills(endpoint.base, c.base) /\ ~IsTemplate(c.base)
        BY <2>1, <3>1 DEF BaseAccepted
      <4>3. Len(c.base.path) = Len(endpoint.base.path) /\ Len(endpoint.base.path) # 0
        BY <4>1, <4>2 DEF Fills, Contains
      <4>4. c.base # NoURL
        <5>1. NoURL.path = <<>>
          BY DEF NoURL
        <5>2. Len(NoURL.path) = 0
          BY <5>1
        <5>. QED BY <4>3, <5>2
      <4>5. a.custom = <<[base |-> c.base, protocol |-> endpoint.protocol]>>
        BY <1>2, <1>4, <3>1 DEF OwnEndpoint
      <4>. QED BY <1>1, <4>2, <4>4, <4>5
    <3>2. CASE ~IsTemplate(endpoint.base)
      <4>1. c.base \in {NoURL, endpoint.base}
        BY <2>1, <3>2 DEF BaseAccepted
      <4>2. a.custom = <<>>
        BY <1>2, <1>4, <3>2 DEF OwnEndpoint
      <4>. QED BY <2>2, <3>2, <4>1, <4>2
    <3>. QED BY <3>1, <3>2
  <2>. HIDE DEF asked
  <2>5. Request(a) = [base |-> asked, protocol |-> endpoint.protocol, credential |-> a.credential,
                      operation |-> Operation(ProbeOf(c.surface), endpoint.protocol, asked)]
    <3>1. CASE a.custom = <<>>
      BY <2>3, <2>4, <3>1 DEF Request, SurfaceRequest
    <3>2. CASE a.custom = <<[base |-> asked, protocol |-> endpoint.protocol]>>
      <4>1. a.custom # <<>> /\ a.custom[1].base = asked /\ a.custom[1].protocol = endpoint.protocol
        BY <3>2
      <4>2. Request(a) = SurfaceRequest(a) /\ asked # NoURL
        BY <2>3, <2>4, <4>1 DEF Request
      <4>. QED BY <4>1, <4>2 DEF SurfaceRequest
    <3>. QED BY <2>4, <3>1, <3>2
  <2>6. ~IsTemplate(URL(Request(a)))
    BY <2>4, <2>5, OperationFilledIn
  <2>7. Request(a).base = asked /\ Request(a).protocol = endpoint.protocol
    BY <2>5
  <2>. QED BY <2>1, <2>6, <2>7 DEF asked
<1>. QED
  BY <1>3, <1>4

--------------------------------------------------------------------------------
(* Numbers.                                                                      *)

LEMMA Least ==
    ASSUME NEW T \in SUBSET Nat, T # {}
    PROVE  \E m \in T : \A k \in T : m <= k
<1>1. PICK m \in T : \A k \in T : ~ (<<k, m>> \in OpToRel(<, Nat))
  BY NatLessThanWellFounded, WFMin
<1>2. \A k \in T : ~(k < m)
  BY <1>1 DEF OpToRel
<1>. QED
  BY <1>2

\* Induction, of a set: a fact P is proved of every number with {n \in Nat : P} for T.
LEMMA Induction ==
    ASSUME NEW T, 0 \in T, \A n \in Nat : n \in T => n + 1 \in T
    PROVE  \A n \in Nat : n \in T
<1>. SUFFICES ASSUME Nat \ T # {} PROVE FALSE
  OBVIOUS
<1>1. PICK m \in Nat \ T : \A k \in Nat \ T : m <= k
  BY Least
<1>2. m # 0 /\ m - 1 \in Nat /\ m - 1 \in T
  BY <1>1
<1>. QED
  BY <1>1, <1>2

LEMMA Greatest ==
    ASSUME NEW n \in Nat, NEW T \in SUBSET (1 .. n), T # {}
    PROVE  Max(T) \in T
<1>. DEFINE gaps == {n - k : k \in T}
<1>1. gaps \in SUBSET Nat /\ gaps # {}
  <2>1. \A k \in T : n - k \in Nat
    OBVIOUS
  <2>2. PICK k \in T : TRUE
    OBVIOUS
  <2>. QED BY <2>1, <2>2
<1>2. PICK least \in gaps : \A gap \in gaps : least <= gap
  BY <1>1, Least
<1>3. PICK m \in T : least = n - m
  OBVIOUS
<1>4. \A k \in T : n - k \in gaps
  OBVIOUS
<1>. HIDE DEF gaps
<1>5. \A k \in T : m >= k
  BY <1>2, <1>3, <1>4
<1>. QED
  BY <1>5 DEF Max

--------------------------------------------------------------------------------
(* The list of a reply's names.                                                  *)

\* The loop over the names defines the lists it says.
LEMMA CollectedSteps ==
    ASSUME NEW names, Len(names) \in Nat
    PROVE  /\ Collected(names)[0] = <<>>
           /\ \A n \in 1 .. Len(names) :
                 Collected(names)[n] = Collecting(Collected(names)[n - 1], names[n])
<1>. DEFINE Lists(f, m) == f = [n \in 0 .. m |-> IF n = 0 THEN <<>> ELSE Collecting(f[n - 1], names[n])]
            T == {m \in Nat : \E f : Lists(f, m)}
<1>1. 0 \in T
  <2>1. Lists([n \in 0 .. 0 |-> <<>>], 0)
    OBVIOUS
  <2>. QED BY <2>1
<1>2. ASSUME NEW m \in Nat, m \in T PROVE m + 1 \in T
  <2>1. PICK f : Lists(f, m)
    BY <1>2
  <2>. DEFINE g == [n \in 0 .. m + 1 |-> IF n = m + 1 THEN Collecting(f[m], names[m + 1]) ELSE f[n]]
  <2>2. \A n \in 0 .. m : g[n] = f[n]
    <3>1. \A n \in 0 .. m : n \in 0 .. m + 1 /\ n # m + 1
      OBVIOUS
    <3>. HIDE DEF T, Lists
    <3>. QED BY <3>1
  <2>3. \A n \in 0 .. m + 1 : g[n] = IF n = 0 THEN <<>> ELSE Collecting(g[n - 1], names[n])
    <3>. SUFFICES ASSUME NEW n \in 0 .. m + 1
                  PROVE  g[n] = IF n = 0 THEN <<>> ELSE Collecting(g[n - 1], names[n])
      OBVIOUS
    <3>1. CASE n = m + 1
      <4>1. g[n] = Collecting(f[m], names[m + 1]) /\ g[m] = f[m] /\ n # 0 /\ n - 1 = m
        BY <3>1, <2>2
      <4>. QED BY <3>1, <4>1
    <3>2. CASE n # m + 1 /\ n # 0
      <4>1. n \in 0 .. m /\ n - 1 \in 0 .. m
        BY <3>2
      <4>2. g[n] = f[n] /\ g[n - 1] = f[n - 1]
        BY <2>2, <4>1
      <4>3. f[n] = Collecting(f[n - 1], names[n])
        BY <2>1, <3>2, <4>1
      <4>. QED BY <3>2, <4>2, <4>3
    <3>3. CASE n = 0
      <4>1. g[0] = f[0] /\ f[0] = <<>>
        BY <2>1, <2>2
      <4>. QED BY <3>3, <4>1
    <3>. QED BY <3>1, <3>2, <3>3
  <2>4. g = [n \in 0 .. m + 1 |-> IF n = 0 THEN <<>> ELSE Collecting(g[n - 1], names[n])]
    <3>1. g = [n \in 0 .. m + 1 |-> g[n]]
      OBVIOUS
    <3>. HIDE DEF g
    <3>. QED BY <2>3, <3>1
  <2>5. Lists(g, m + 1)
    BY <2>4
  <2>. HIDE DEF g, Lists
  <2>. QED BY <2>5
<1>3. Len(names) \in T
  <2>. HIDE DEF T
  <2>. QED BY <1>1, <1>2, Induction
<1>4. Lists(Collected(names), Len(names))
  BY <1>3 DEF Collected
<1>. QED
  BY <1>4

\* The list of the first n names: each of them once, in the order of its first
\* mention, which is the smallest of its places.
InOrder(names, n, list) ==
    /\ list \in Seq(ToSet(names))
    /\ ToSet(list) = {names[i] : i \in 1 .. n} \ {<<>>}
    /\ \A i \in DOMAIN list : First(names, list[i]) <= n
    /\ \A i, j \in DOMAIN list : i < j => First(names, list[i]) < First(names, list[j])

LEMMA FirstMention ==
    ASSUME NEW names, names \in Seq(ToSet(names)), NEW n \in DOMAIN names,
           \A i \in 1 .. n - 1 : names[i] # names[n]
    PROVE  First(names, names[n]) = n
<1>. DEFINE IsFirst(i) == names[i] = names[n] /\ \A j \in 1 .. (i - 1) : names[j] # names[n]
<1>1. DOMAIN names = 1 .. Len(names) /\ Len(names) \in Nat
  OBVIOUS
<1>2. IsFirst(n)
  OBVIOUS
<1>3. ASSUME NEW i \in DOMAIN names, IsFirst(i) PROVE i = n
  <2>1. ~(i < n)
    BY <1>1, <1>3
  <2>2. ~(n < i)
    BY <1>1, <1>3
  <2>. QED BY <1>1, <2>1, <2>2
<1>4. First(names, names[n]) = CHOOSE i \in DOMAIN names : IsFirst(i)
  BY DEF First
<1>. HIDE DEF IsFirst
<1>. QED
  BY <1>2, <1>3, <1>4

LEMMA CollectingInOrder ==
    ASSUME NEW names, names \in Seq(ToSet(names)), NEW n \in DOMAIN names,
           NEW list, InOrder(names, n - 1, list)
    PROVE  InOrder(names, n, Collecting(list, names[n]))
<1>. DEFINE S == ToSet(names)
            next == Append(list, names[n])
<1>1. DOMAIN names = 1 .. Len(names) /\ Len(names) \in Nat /\ n \in 1 .. Len(names)
  OBVIOUS
<1>2. list \in Seq(S) /\ DOMAIN list = 1 .. Len(list) /\ Len(list) \in Nat
  BY DEF InOrder
<1>3. {names[i] : i \in 1 .. n} = {names[i] : i \in 1 .. n - 1} \cup {names[n]}
  BY <1>1
<1>4. ToSet(list) = {names[i] : i \in 1 .. n - 1} \ {<<>>}
  BY DEF InOrder
<1>5. Contains(list, names[n]) <=> names[n] \in ToSet(list)
  BY <1>2 DEF Contains, ToSet
<1>6. \A i \in DOMAIN list : First(names, list[i]) <= n - 1
  BY DEF InOrder
<1>7. \A i \in DOMAIN list : First(names, list[i]) \in Nat
  <2>. SUFFICES ASSUME NEW i \in DOMAIN list PROVE First(names, list[i]) \in Nat
    OBVIOUS
  <2>1. list[i] \in ToSet(list)
    BY DEF ToSet
  <2>. DEFINE places == {k \in DOMAIN names : names[k] = list[i]}
  <2>2. places # {} /\ places \in SUBSET Nat
    BY <1>1, <1>4, <2>1
  <2>3. PICK k \in places : \A l \in places : k <= l
    BY <2>2, Least
  <2>4. k \in DOMAIN names /\ \A j \in 1 .. k - 1 : names[j] # names[k]
    BY <1>1, <2>3
  <2>. QED BY <1>1, <2>3, <2>4, FirstMention
<1>8. CASE names[n] = <<>> \/ Contains(list, names[n])
  <2>1. Collecting(list, names[n]) = list
    BY <1>8 DEF Collecting
  <2>2. ToSet(list) = {names[i] : i \in 1 .. n} \ {<<>>}
    BY <1>3, <1>4, <1>5, <1>8
  <2>3. \A i \in DOMAIN list : First(names, list[i]) <= n
    BY <1>1, <1>6, <1>7
  <2>. QED BY <1>2, <2>1, <2>2, <2>3 DEF InOrder
<1>9. CASE names[n] # <<>> /\ ~Contains(list, names[n])
  <2>1. Collecting(list, names[n]) = next
    BY <1>9 DEF Collecting
  <2>2. names[n] \in S
    BY DEF ToSet
  <2>3. /\ next \in Seq(S) /\ DOMAIN next = 1 .. Len(list) + 1
        /\ \A i \in 1 .. Len(list) : next[i] = list[i]
        /\ next[Len(list) + 1] = names[n]
    BY <1>2, <2>2
  <2>. HIDE DEF next
  <2>4. ToSet(next) = ToSet(list) \cup {names[n]}
    <3>1. \A i \in DOMAIN next : next[i] \in ToSet(list) \cup {names[n]}
      <4>1. \A i \in DOMAIN next : i \in DOMAIN list \/ i = Len(list) + 1
        BY <1>2, <2>3
      <4>. QED BY <1>2, <2>3, <4>1 DEF ToSet
    <3>2. ToSet(list) \subseteq ToSet(next)
      BY <1>2, <2>3 DEF ToSet
    <3>3. Len(list) + 1 \in DOMAIN next
      BY <1>2, <2>3
    <3>4. names[n] \in ToSet(next)
      BY <2>3, <3>3 DEF ToSet
    <3>. QED BY <3>1, <3>2, <3>4 DEF ToSet
  <2>5. ToSet(next) = {names[i] : i \in 1 .. n} \ {<<>>}
    BY <1>3, <1>4, <1>9, <2>4
  <2>6. \A i \in 1 .. n - 1 : names[i] # names[n]
    BY <1>4, <1>5, <1>9
  <2>7. First(names, names[n]) = n
    BY <2>6, FirstMention
  <2>8. \A i \in DOMAIN next : First(names, next[i]) <= n
    BY <1>1, <1>2, <1>6, <1>7, <2>3, <2>7
  <2>9. \A i, j \in DOMAIN next : i < j => First(names, next[i]) < First(names, next[j])
    <3>. SUFFICES ASSUME NEW i \in DOMAIN next, NEW j \in DOMAIN next, i < j
                  PROVE  First(names, next[i]) < First(names, next[j])
      OBVIOUS
    <3>1. i \in DOMAIN list /\ next[i] = list[i]
      BY <1>2, <2>3
    <3>2. CASE j \in DOMAIN list
      BY <1>2, <2>3, <3>1, <3>2 DEF InOrder
    <3>3. CASE j \notin DOMAIN list
      <4>1. next[j] = names[n]
        BY <1>2, <2>3, <3>3
      <4>. QED BY <1>1, <1>6, <1>7, <2>7, <3>1, <4>1
    <3>. QED BY <3>2, <3>3
  <2>. QED BY <2>1, <2>3, <2>5, <2>8, <2>9 DEF InOrder
<1>. QED
  BY <1>8, <1>9

\* The list of all names.
LEMMA CollectInOrder ==
    ASSUME NEW names, names \in Seq(ToSet(names))
    PROVE  InOrder(names, Len(names), Collect(names))
<1>. DEFINE T == {n \in Nat : n <= Len(names) => InOrder(names, n, Collected(names)[n])}
<1>1. Len(names) \in Nat /\ DOMAIN names = 1 .. Len(names)
  OBVIOUS
<1>2. 0 \in T
  <2>1. Collected(names)[0] = <<>>
    BY <1>1, CollectedSteps
  <2>2. InOrder(names, 0, <<>>)
    BY DEF InOrder, ToSet
  <2>. QED BY <2>1, <2>2
<1>3. ASSUME NEW n \in Nat, n \in T PROVE n + 1 \in T
  <2>. SUFFICES ASSUME n + 1 <= Len(names) PROVE InOrder(names, n + 1, Collected(names)[n + 1])
    OBVIOUS
  <2>1. InOrder(names, n, Collected(names)[n]) /\ n + 1 \in DOMAIN names /\ (n + 1) - 1 = n
    BY <1>1, <1>3
  <2>2. Collected(names)[n + 1] = Collecting(Collected(names)[n], names[n + 1])
    BY <1>1, <2>1, CollectedSteps
  <2>. QED BY <2>1, <2>2, CollectingInOrder
<1>4. Len(names) \in T
  <2>. HIDE DEF T
  <2>. QED BY <1>1, <1>2, <1>3, Induction
<1>. QED
  BY <1>4 DEF Collect

\* A reply of either kind names its models in a list.
LEMMA NamesListed ==
    ASSUME NEW kind \in {"openAIModels", "geminiModels"}, NEW reply \in Replies[kind]
    PROVE  Names(kind, reply) \in Seq(ToSet(Names(kind, reply)))
<1>1. ASSUME NEW S, NEW s \in Seq(S), NEW t, DOMAIN t = DOMAIN s, t = [i \in DOMAIN t |-> t[i]]
      PROVE  t \in Seq(ToSet(t))
  <2>1. Len(s) \in Nat /\ DOMAIN t = 1 .. Len(s)
    BY <1>1
  <2>2. t \in [1 .. Len(s) -> ToSet(t)]
    BY <1>1, <2>1 DEF ToSet
  <2>. QED BY <2>1, <2>2
<1>2. CASE kind = "geminiModels"
  <2>1. Names(kind, reply) = [i \in DOMAIN reply.models |-> GeminiName(reply.models[i])]
    BY <1>2 DEF Names, MapSeq
  <2>2. reply.models \in Seq(ToSet(reply.models))
    BY <1>2, RepliesAssumption
  <2>. QED BY <1>1, <2>1, <2>2
<1>3. CASE kind = "openAIModels"
  <2>. DEFINE items == reply.data \o reply.models \o reply.result
              S == ToSet(reply.data) \cup ToSet(reply.models) \cup ToSet(reply.result)
  <2>1. Names(kind, reply) = [i \in DOMAIN items |-> OpenAIName(items[i])]
    BY <1>3 DEF Names, MapSeq
  <2>2. reply.data \in Seq(S) /\ reply.models \in Seq(S) /\ reply.result \in Seq(S)
    <3>1. \A field \in {"data", "models", "result"} : reply[field] \in Seq(ToSet(reply[field]))
      BY <1>3, RepliesAssumption
    <3>2. /\ reply.data \in Seq(ToSet(reply.data)) /\ reply.models \in Seq(ToSet(reply.models))
          /\ reply.result \in Seq(ToSet(reply.result))
      BY <3>1
    <3>3. /\ ToSet(reply.data) \subseteq S /\ ToSet(reply.models) \subseteq S
          /\ ToSet(reply.result) \subseteq S
      OBVIOUS
    <3>. HIDE DEF S
    <3>. QED BY <3>2, <3>3, SeqMonotonic
  <2>. HIDE DEF S
  <2>3. items \in Seq(S)
    BY <2>2
  <2>. HIDE DEF items
  <2>. QED BY <1>1, <2>1, <2>3
<1>. QED
  BY <1>2, <1>3

--------------------------------------------------------------------------------
(* The bindings of the models.                                                   *)

\* A model is bound as one of its id was before, if one was, and not at all else.
LEMMA RefOfModel ==
    ASSUME NEW models, models \in Seq(ModelsOf(models)), NEW id
    PROVE  LET before == {m \in ToSet(models) : m.id = id}
               now == [id |-> id, ref |-> RefOf(models, id)]
           IN  IF before = {} THEN now.ref = NoRef ELSE now \in before
<1>. DEFINE before == {m \in ToSet(models) : m.id = id}
            bound == {i \in DOMAIN models : models[i].id = id /\ models[i].ref # NoRef}
            now == [id |-> id, ref |-> RefOf(models, id)]
<1>1. DOMAIN models = 1 .. Len(models) /\ Len(models) \in Nat
  OBVIOUS
<1>2. \A i \in DOMAIN models : models[i] \in ModelsOf(models)
  OBVIOUS
<1>3. \A i \in DOMAIN models : models[i] = [id |-> models[i].id, ref |-> models[i].ref]
  BY <1>2 DEF ModelsOf
<1>4. CASE bound = {}
  <2>1. now = [id |-> id, ref |-> NoRef]
    BY <1>4 DEF RefOf
  <2>2. \A m \in before : m = now
    BY <1>3, <1>4, <2>1 DEF ToSet
  <2>. QED BY <2>1, <2>2
<1>5. CASE bound # {}
  <2>. DEFINE i == Max(bound)
  <2>1. i \in bound
    BY <1>1, <1>5, Greatest
  <2>2. RefOf(models, id) = models[i].ref
    BY <1>5 DEF RefOf
  <2>. HIDE DEF i
  <2>3. now = models[i]
    BY <1>3, <2>1, <2>2
  <2>. QED BY <2>1, <2>3 DEF ToSet
<1>. QED
  BY <1>4, <1>5

--------------------------------------------------------------------------------
(* The theorems.                                                                 *)

LEMMA InductiveInvariant == Spec => []IInv
<1>1. Init => IInv
  BY DEF Init, IInv, ProviderOfCommand, SyncOfProvider, Typed, TargetProvider, Idle
<1>2. IInv /\ [Next]_vars => IInv'
  <2>. SUFFICES ASSUME IInv, [Next]_vars PROVE IInv'
    OBVIOUS
  <2>1. CASE UNCHANGED vars
    BY <2>1 DEF vars, IInv, ProviderOfCommand, SyncOfProvider, Typed
  <2>2. CASE Begin /\ UNCHANGED command
    BY <2>2 DEF Begin, IInv, ProviderOfCommand, SyncOfProvider, Typed
  <2>3. ASSUME Fail, UNCHANGED command PROVE IInv'
    BY <2>3 DEF Fail, Idle, IInv, ProviderOfCommand, SyncOfProvider, Typed
  <2>4. CASE Policy /\ UNCHANGED command
    BY <2>3, <2>4 DEF Policy, IInv, ProviderOfCommand, SyncOfProvider, Typed
  <2>5. CASE Headers /\ UNCHANGED command
    <3>1. CASE Fail
      BY <2>3, <2>5, <3>1
    <3>2. CASE ~Fail
      <4>. DEFINE given == {[url |-> Target(r), credential |-> r.credential] : r \in sync.request}
      <4>1. \A granted \in given :
               granted = [url |-> Target(Request(provider)), credential |-> provider.credential]
        BY <2>5, RequestCredential DEF Headers, IInv, SyncOfProvider
      <4>2. sync' = [sync EXCEPT !.at = "fetch", !.granted = given] /\ UNCHANGED <<provider, command>>
        BY <2>5, <3>2 DEF Headers
      <4>. HIDE DEF given
      <4>. QED BY <2>5, <4>1, <4>2 DEF Headers, IInv, ProviderOfCommand, SyncOfProvider, Typed
    <3>. QED BY <3>1, <3>2
  <2>6. CASE Fetch /\ UNCHANGED command
    <3>1. CASE Fail
      BY <2>3, <2>6, <3>1
    <3>2. ASSUME NEW reply, sync' = [sync EXCEPT !.at = "reply", !.reply = {reply}], UNCHANGED provider
          PROVE  IInv'
      BY <2>6, <3>2 DEF Fetch, IInv, ProviderOfCommand, SyncOfProvider, Typed
    <3>3. Request(provider) \in sync.request
      BY <2>6 DEF Fetch, IInv, SyncOfProvider
    <3>. QED BY <2>6, <3>1, <3>2, <3>3 DEF Fetch
  <2>7. CASE Materialize /\ UNCHANGED command
    <3>1. PICK models : provider' = [provider EXCEPT !.models = models]
      BY <2>7 DEF Materialize, IInv, Typed
    <3>. QED BY <2>7, <3>1 DEF Materialize, Idle, IInv, ProviderOfCommand, SyncOfProvider, Typed
  <2>. QED BY <2>1, <2>2, <2>4, <2>5, <2>6, <2>7 DEF Next
<1>. QED
  BY <1>1, <1>2, PTL DEF Spec

\* The headers are asked for the URL that the request then goes to, and for the
\* provider's own credential, for any surface, command and reply.
THEOREM RequestsAreAuthorized == Spec => []AskedAsAuthorized
<1>1. ASSUME NEW request PROVE Target(request) = URL(request)
  BY DEF Target, URL
<1>2. IInv => AskedAsAuthorized
  BY <1>1 DEF IInv, SyncOfProvider, AskedAsAuthorized
<1>. QED
  BY <1>2, InductiveInvariant, PTL

\* The vendor is asked at the base URL and by the protocol of the command that the
\* provider was connected with, no field of a template left to be filled in: for
\* any table of surfaces in which a CLI's have no endpoints, and any command.
THEOREM RequestsGoWhereConnected == Spec => []AskedWhereConnected
<1>1. ASSUME IInv, NEW request \in sync.request
      PROVE  request = Request(provider) /\ Probeable(provider)
  BY <1>1 DEF IInv, SyncOfProvider
<1>2. IInv => AskedWhereConnected
  <2>. SUFFICES ASSUME IInv, NEW request \in sync.request
                PROVE  /\ command.surface # "custom.api" => ~IsTemplate(URL(request))
                       /\ request.base = IF command.base = NoURL THEN DefaultEndpoint(command.surface).base
                                         ELSE command.base
                       /\ request.protocol = IF command.protocol = ""
                                             THEN DefaultEndpoint(command.surface).protocol
                                             ELSE command.protocol
    BY DEF AskedWhereConnected
  <2>1. request = Request(provider) /\ Probeable(provider)
    BY <1>1
  <2>2. /\ command \in Commands /\ Resolves(command)
        /\ provider.surface = command.surface /\ provider.custom = OwnEndpoint(command)
    BY DEF IInv, ProviderOfCommand
  <2>. QED BY <2>1, <2>2, RequestOfCommand
<1>. QED
  BY <1>2, InductiveInvariant, PTL

\* What a synchronization writes is the list of its reply, merged into the models.
Merges(request, reply) ==
    LET names == Names(request.operation.kind, reply)
    IN  /\ names \in Seq(ToSet(names))
        /\ Collect(names) # <<>>
        /\ provider' = [provider EXCEPT !.models = Merged(provider.models, Collect(names))]

LEMMA KindsOfRequests ==
    ASSUME NEW a
    PROVE  Request(a).operation.kind \in {"openAIModels", "geminiModels"}
<1>1. \A protocol : APIKeyOperation(protocol).kind \in {"openAIModels", "geminiModels"}
  BY DEF APIKeyOperation
<1>2. \A probe, protocol, base : Operation(probe, protocol, base).kind \in {"openAIModels", "geminiModels"}
  BY <1>1 DEF Operation
<1>. QED
  BY <1>1, <1>2 DEF Request, CustomRequest, SurfaceRequest

LEMMA ModelsKept ==
    ASSUME IInv, Listed, [Next]_vars
    PROVE  \/ provider'.models = provider.models
           \/ \E request \in sync.request, reply \in sync.reply : Merges(request, reply)
<1>1. CASE ~Materialize
  <2>1. UNCHANGED provider
    BY <1>1 DEF Next, vars, Begin, Policy, Headers, Fetch, Fail
  <2>. QED BY <2>1
<1>2. CASE Materialize
  <2>1. PICK request \in sync.request : \E reply \in sync.reply :
              LET ids == Collect(Names(request.operation.kind, reply))
              IN  provider' = IF ids = <<>> \/ ids = IDs(provider.models) THEN provider
                              ELSE [provider EXCEPT !.models = Merged(provider.models, ids)]
    BY <1>2 DEF Materialize
  <2>2. PICK reply \in sync.reply :
              LET ids == Collect(Names(request.operation.kind, reply))
              IN  provider' = IF ids = <<>> \/ ids = IDs(provider.models) THEN provider
                              ELSE [provider EXCEPT !.models = Merged(provider.models, ids)]
    BY <2>1
  <2>3. request = Request(provider)
    BY DEF IInv, SyncOfProvider
  <2>4. request.operation.kind \in {"openAIModels", "geminiModels"}
    BY <2>3, KindsOfRequests
  <2>5. reply \in Replies[request.operation.kind]
    BY DEF Listed, ReplyToRequest
  <2>. DEFINE names == Names(request.operation.kind, reply)
  <2>6. names \in Seq(ToSet(names))
    BY <2>4, <2>5, NamesListed
  <2>7. provider' = provider \/ Merges(request, reply)
    BY <2>2, <2>6 DEF Merges
  <2>. QED BY <2>7
<1>. QED
  BY <1>1, <1>2

\* The list that is merged.
LEMMA MergedList ==
    ASSUME NEW request, NEW reply, Merges(request, reply), IInv
    PROVE  LET names == Names(request.operation.kind, reply)
               ids == Collect(names)
           IN  /\ provider'.models = Merged(provider.models, ids)
               /\ InOrder(names, Len(names), ids)
               /\ ids # <<>> /\ ids \in Seq(ToSet(names))
               /\ DOMAIN provider'.models = DOMAIN ids
               /\ \A i \in DOMAIN ids :
                     provider'.models[i] = [id |-> ids[i], ref |-> RefOf(provider.models, ids[i])]
               /\ IDs(provider'.models) = ids
<1>. DEFINE names == Names(request.operation.kind, reply)
            ids == Collect(names)
            models == Merged(provider.models, ids)
<1>1. provider'.models = models
  BY DEF Merges, IInv, Typed
<1>2. names \in Seq(ToSet(names)) /\ ids # <<>>
  BY DEF Merges
<1>. HIDE DEF names
<1>3. InOrder(names, Len(names), ids)
  BY <1>2, CollectInOrder
<1>4. ids \in Seq(ToSet(names))
  BY <1>3 DEF InOrder
<1>. HIDE DEF ids
<1>5. /\ DOMAIN models = DOMAIN ids
      /\ \A i \in DOMAIN ids :
            models[i] = [id |-> ids[i], ref |-> RefOf(provider.models, ids[i])]
  BY DEF Merged
<1>. HIDE DEF models
<1>6. IDs(models) = [i \in DOMAIN ids |-> ids[i]]
  BY <1>5 DEF IDs
<1>7. IDs(models) = ids
  BY <1>4, <1>6
<1>. QED
  BY <1>1, <1>2, <1>3, <1>4, <1>5, <1>7 DEF names, ids, models

LEMMA ListsInvariant == Spec => []Listed
<1>1. Init => Listed
  <2>. SUFFICES ASSUME Init PROVE Listed
    OBVIOUS
  <2>1. sync.reply = {}
    BY DEF Init, Idle
  <2>2. provider.models = GivenModels(command) /\ command \in Commands
    BY DEF Init, TargetProvider
  <2>3. provider.models \in Seq(ModelsOf(provider.models))
    <3>1. CASE command.method = "oauth"
      BY <2>2, <3>1 DEF GivenModels
    <3>2. CASE command.method # "oauth"
      BY <2>2, <3>2, CommandsAssumption DEF GivenModels, ModelsOf
    <3>. QED BY <3>1, <3>2
  <2>. QED BY <2>1, <2>3 DEF Listed, ModelsListed, ReplyToRequest
<1>2. IInv /\ IInv' /\ Listed /\ [Next]_vars => Listed'
  <2>. SUFFICES ASSUME IInv, IInv', Listed, [Next]_vars PROVE Listed'
    OBVIOUS
  <2>1. provider'.models \in Seq(ModelsOf(provider'.models))
    <3>1. ASSUME NEW request \in sync.request, NEW reply \in sync.reply, Merges(request, reply)
          PROVE  provider'.models \in Seq(ModelsOf(provider'.models))
      <4>. DEFINE ids == Collect(Names(request.operation.kind, reply))
                  models == provider'.models
      <4>1. /\ ids \in Seq(ToSet(Names(request.operation.kind, reply)))
            /\ DOMAIN models = DOMAIN ids
            /\ \A i \in DOMAIN ids :
                  models[i] = [id |-> ids[i], ref |-> RefOf(provider.models, ids[i])]
            /\ models = [i \in DOMAIN models |-> models[i]]
        BY <3>1, MergedList DEF Merged
      <4>. HIDE DEF ids, models
      <4>2. DOMAIN models = 1 .. Len(ids) /\ Len(ids) \in Nat
        BY <4>1
      <4>3. \A i \in DOMAIN models : models[i] \in ModelsOf(models)
        <5>. SUFFICES ASSUME NEW i \in DOMAIN models PROVE models[i] \in ModelsOf(models)
          OBVIOUS
        <5>1. models[i] \in ToSet(models)
          BY DEF ToSet
        <5>2. models[i] = [id |-> models[i].id, ref |-> models[i].ref]
          BY <4>1
        <5>. QED BY <5>1, <5>2 DEF ModelsOf
      <4>4. models \in [1 .. Len(ids) -> ModelsOf(models)]
        BY <4>1, <4>2, <4>3
      <4>5. models \in Seq(ModelsOf(models))
        BY <4>2, <4>4
      <4>. QED BY <4>5 DEF models
    <3>2. CASE provider'.models = provider.models
      BY <3>2 DEF Listed, ModelsListed
    <3>. QED BY <3>1, <3>2, ModelsKept
  <2>2. ReplyToRequest'
    <3>1. CASE sync'.reply = {}
      BY <3>1 DEF ReplyToRequest
    <3>2. CASE UNCHANGED sync
      BY <3>2 DEF Listed, ReplyToRequest
    <3>3. CASE Fetch /\ ~Fail
      <4>1. sync.request = {Request(provider)}
        BY <3>3 DEF Fetch, IInv, SyncOfProvider
      <4>2. PICK reply \in Replies[Request(provider).operation.kind] :
                sync' = [sync EXCEPT !.at = "reply", !.reply = {reply}]
        BY <3>3, <4>1 DEF Fetch
      <4>3. sync'.at = "reply" /\ sync'.request = sync.request /\ sync'.reply = {reply}
        BY <4>2 DEF IInv, Typed
      <4>. QED BY <4>1, <4>3 DEF ReplyToRequest
    <3>4. CASE (Begin \/ Policy \/ Headers) /\ ~Fail
      <4>1. sync.at # "reply" /\ sync'.reply = sync.reply
        BY <3>4 DEF Begin, Policy, Headers, IInv, Typed
      <4>. QED BY <3>1, <4>1 DEF Listed, ReplyToRequest
    <3>5. CASE Fail \/ Materialize
      BY <3>1, <3>5 DEF Fail, Materialize, Idle
    <3>. QED BY <3>2, <3>3, <3>4, <3>5 DEF Next, vars
  <2>. QED BY <2>1, <2>2 DEF Listed, ModelsListed
<1>. QED
  BY <1>1, <1>2, InductiveInvariant, PTL DEF Spec

\* A list that changes is the reply's: each name once, in the order of their first
\* mention, for any reply of either kind, however long.
THEOREM ListsFollowReplies == Spec => ListFollowsReply
<1>. DEFINE Follows ==
        provider'.models # provider.models =>
          \A request \in sync.request, reply \in sync.reply :
             LET names == Names(request.operation.kind, reply)
                 ids == IDs(provider'.models)
             IN  /\ ToSet(ids) = ToSet(names) \ {<<>>}
                 /\ \A i, j \in DOMAIN ids : i < j => First(names, ids[i]) < First(names, ids[j])
<1>1. ASSUME IInv, Listed, [Next]_vars PROVE Follows
  <2>. SUFFICES ASSUME provider'.models # provider.models, NEW request \in sync.request,
                       NEW reply \in sync.reply
                PROVE  LET names == Names(request.operation.kind, reply)
                           ids == IDs(provider'.models)
                       IN  /\ ToSet(ids) = ToSet(names) \ {<<>>}
                           /\ \A i, j \in DOMAIN ids :
                                 i < j => First(names, ids[i]) < First(names, ids[j])
    OBVIOUS
  <2>1. Merges(request, reply)
    BY <1>1, ModelsKept DEF IInv, SyncOfProvider, Listed, ReplyToRequest
  <2>. DEFINE names == Names(request.operation.kind, reply)
  <2>2. names \in Seq(ToSet(names))
    BY <2>1 DEF Merges
  <2>3. InOrder(names, Len(names), IDs(provider'.models))
    BY <1>1, <2>1, MergedList
  <2>. HIDE DEF names
  <2>4. ToSet(names) = {names[i] : i \in 1 .. Len(names)}
    BY <2>2 DEF ToSet
  <2>5. /\ ToSet(IDs(provider'.models)) = ToSet(names) \ {<<>>}
        /\ \A i, j \in DOMAIN IDs(provider'.models) :
              i < j => First(names, IDs(provider'.models)[i]) < First(names, IDs(provider'.models)[j])
    BY <2>3, <2>4 DEF InOrder
  <2>. QED BY <2>5 DEF names
<1>2. IInv /\ Listed /\ [Next]_vars => [Follows]_vars
  BY <1>1
<1>. HIDE DEF Follows
<1>3. Spec => [][Follows]_vars
  BY <1>2, InductiveInvariant, ListsInvariant, PTL DEF Spec
<1>. QED
  BY <1>3 DEF ListFollowsReply, Follows

\* A model that stays keeps its canonical model, no other gets one, and a provider
\* with models is never left without.
THEOREM BindingsAreKept == Spec => BindingsStay
<1>. DEFINE Stay ==
        /\ provider.models # <<>> => provider'.models # <<>>
        /\ \A now \in ToSet(provider'.models) :
              LET before == {m \in ToSet(provider.models) : m.id = now.id}
              IN  IF before = {} THEN now.ref = NoRef ELSE now \in before
<1>1. ASSUME IInv, Listed, NEW request \in sync.request, NEW reply \in sync.reply,
             Merges(request, reply)
      PROVE  Stay
  <2>. DEFINE ids == Collect(Names(request.operation.kind, reply))
              models == provider.models
              after == provider'.models
  <2>1. /\ ids # <<>> /\ ids \in Seq(ToSet(Names(request.operation.kind, reply)))
        /\ DOMAIN after = DOMAIN ids
        /\ \A i \in DOMAIN ids : after[i] = [id |-> ids[i], ref |-> RefOf(models, ids[i])]
    BY <1>1, MergedList
  <2>2. models \in Seq(ModelsOf(models))
    BY <1>1 DEF Listed, ModelsListed
  <2>. HIDE DEF ids, models, after
  <2>3. after # <<>>
    BY <2>1
  <2>4. ASSUME NEW now \in ToSet(after)
        PROVE  LET before == {m \in ToSet(models) : m.id = now.id}
               IN  IF before = {} THEN now.ref = NoRef ELSE now \in before
    <3>1. PICK i \in DOMAIN ids : now = [id |-> ids[i], ref |-> RefOf(models, ids[i])]
      BY <2>1, <2>4 DEF ToSet
    <3>. DEFINE id == ids[i]
    <3>2. now = [id |-> id, ref |-> RefOf(models, id)]
      BY <3>1
    <3>. HIDE DEF id
    <3>3. now.id = id
      BY <3>2
    <3>. QED BY <2>2, <3>2, <3>3, RefOfModel
  <2>. QED BY <2>3, <2>4 DEF models, after
<1>2. ASSUME IInv, Listed, provider'.models = provider.models PROVE Stay
  <2>. SUFFICES ASSUME NEW now \in ToSet(provider.models)
                PROVE  now \in {m \in ToSet(provider.models) : m.id = now.id}
    BY <1>2
  <2>. QED OBVIOUS
<1>. HIDE DEF Stay
<1>3. IInv /\ Listed /\ [Next]_vars => [Stay]_vars
  BY <1>1, <1>2, ModelsKept
<1>4. Spec => [][Stay]_vars
  BY <1>3, InductiveInvariant, ListsInvariant, PTL DEF Spec
<1>. QED
  BY <1>4, PTL DEF BindingsStay, Stay

================================================================================
