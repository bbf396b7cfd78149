---------------------------- MODULE RoutingTree ----------------------------
(***************************************************************************)
(* How the path predictor computes the routes to a destination AS          *)
(* (bgp_sim/SecureSimulator): three breadth-first searches over one graph, *)
(* each of which may only add to the tree of the ones before.  The first   *)
(* follows customer-to-provider edges and siblings, the second adds peers  *)
(* one edge away, the third goes down to customers.  Best holds for each   *)
(* AS all next hops that tie; the predictor's answer are the ASes on all   *)
(* the paths along Best.                                                   *)
(*                                                                         *)
(* The graph keeps the state of a search (AsNode.cs) and is used for one   *)
(* destination after another.  A step is a turn of the queue: what it does *)
(* to one neighbour does not depend on the others, except for their order  *)
(* in the queue, which is that of the input file, so any order is taken.   *)
(***************************************************************************)
EXTENDS Integers, FiniteSets, Sequences, FiniteSetsExt, SequencesExt

CONSTANTS
    AS,             \* the ASes
    Graphs,         \* the graphs considered: see IsGraph
    HashOf(_, _),   \* hash6432shift
    DestSeq,        \* the destinations, in the order they are prepared
    MaxPathLen,     \* _maxPathLen: rows of the bucket table (30)
    MaxPath         \* ASes on a path of GetAllBestPaths (20)

CustomerOf == "customerOf"
PeerOf == "peerOf"
ProviderTo == "providerTo"
SiblingOf == "siblingOf"
NoEdge == "none"

\* AsNode.GetOppositeRelationshipType.
Opposite(r) == CASE r = CustomerOf -> ProviderTo
                 [] r = ProviderTo -> CustomerOf
                 [] OTHER -> r

\* rel[x][y] = CustomerOf: x is a customer of y.  Both ends of an edge are
\* added together (InputFileReader).
IsGraph(g) ==
    /\ g \in [AS -> [AS -> {CustomerOf, PeerOf, ProviderTo, SiblingOf, NoEdge}]]
    /\ \A x \in AS : g[x][x] = NoEdge
    /\ \A x, y \in AS : g[x][y] = Opposite(g[y][x])

NoParent == 0

ASSUME RoutingAssumption ==
    /\ IsFiniteSet(AS)
    /\ \A g \in Graphs : IsGraph(g)
    /\ NoParent \notin AS
    /\ MaxPathLen \in Nat \ {0} /\ MaxPath \in Nat \ {0}
    /\ DestSeq \in Seq(AS)

Unreached == 1000       \* Int32.MaxValue
NoColumn == "none"

VARIABLES
    rel,        \* the graph
    next,       \* index in DestSeq of the destination in work
    stage,      \* 1, 2, 3: the search under way; 0: none
    queue,      \* nodeQueue
    seen,       \* nodes not UnseenInCurrentRun
    done,       \* nodes ProcessedInCurrentRun
    prior,      \* nodes DiscoveredInPriorBfs
    parent,     \* BfsParentNode
    kids,       \* per node: its BfsParentOf list
    depth,      \* BfsDepth
    best,       \* Best
    column,     \* BestRelation, the column of the bucket table
    table,      \* the destinations the predictor holds, d of Program.cs
    threw       \* "no", or why an exception left initDestination

search == <<stage, queue, seen, done, prior, parent, kids, depth, best, column>>
routeVars == <<rel, next, search, table, threw>>

Root == DestSeq[next]

\* The relationships ExecuteBfs may follow in each stage.
Allowed ==
    <<{CustomerOf, SiblingOf}, {PeerOf}, {ProviderTo, SiblingOf}>>
Column == <<"customer", "peer", "provider">>

-----------------------------------------------------------------------------
RouteInit ==
    /\ rel \in Graphs
    /\ next = 1
    /\ stage = 0
    /\ queue = << >>
    /\ seen = {} /\ done = {} /\ prior = {}
    /\ parent = [x \in AS |-> NoParent]
    /\ kids = [x \in AS |-> {}]
    /\ depth = [x \in AS |-> Unreached]
    /\ best = [x \in AS |-> {}]
    /\ column = [x \in AS |-> NoColumn]
    /\ table = << >>
    /\ threw = "no"

\* The start of a search: the root is visited.
Visited(d) ==
    /\ queue' = <<d>>
    /\ seen' = {d}
    /\ done' = {}

\* Mutant of StartDestination: the tree of the last destination stays.
StartDestinationAgain ==
    /\ threw = "no" /\ stage = 0 /\ next <= Len(DestSeq)
    /\ stage' = 1
    /\ Visited(Root)
    /\ parent' = [x \in AS |-> NoParent]
    /\ depth' = [x \in AS |-> IF x = Root THEN 0 ELSE Unreached]
    /\ best' = [x \in AS |-> IF x = Root THEN {x} ELSE {}]
    /\ column' = [x \in AS |-> IF x = Root THEN Column[1] ELSE NoColumn]
    /\ UNCHANGED <<rel, next, prior, kids, table, threw>>

\* initMiniDestination: new arrays, ReinitializeBfsState, and the first call
\* of ExecuteBfs.
StartDestination ==
    /\ threw = "no" /\ stage = 0 /\ next <= Len(DestSeq)
    /\ stage' = 1
    /\ Visited(Root)
    /\ prior' = {}
    /\ parent' = [x \in AS |-> NoParent]
    /\ kids' = [x \in AS |-> {}]
    /\ depth' = [x \in AS |-> IF x = Root THEN 0 ELSE Unreached]
    /\ best' = [x \in AS |-> IF x = Root THEN {x} ELSE {}]
    /\ column' = [x \in AS |-> IF x = Root THEN Column[1] ELSE NoColumn]
    /\ UNCHANGED <<rel, next, table, threw>>

\* NewRouteWinsTieBreak: in the first and third search a route that is not
\* from a sibling wins over one that is; then the lower hash.
NewRouteWins(cur, y) ==
    LET oldSib == rel[y][parent[y]] = SiblingOf
        newSib == rel[cur][y] = SiblingOf
    IN  IF stage # 2 /\ oldSib # newSib THEN oldSib
        ELSE HashOf(y, cur) < HashOf(y, parent[y])

\* Case 1: neighbours that no search has found.
Fresh(cur) ==
    {y \in AS : rel[cur][y] \in Allowed[stage] /\ y \notin seen \cup prior}

\* Case 2: children of cur in the tree of the searches before.
OldKids(cur) ==
    {y \in AS : /\ rel[cur][y] \in Allowed[stage] \/ y \in kids[cur]
                /\ y \in prior \ seen
                /\ parent[y] = cur}

\* Mutant of Ties: routes of the searches before are tied with.
TiesAny(cur) ==
    {y \in AS : /\ rel[cur][y] \in Allowed[stage] \/ y \in kids[cur]
                /\ y \in (seen \cup prior) \ done
                /\ depth[y] = depth[cur] + 1}

\* Neighbours this search found by another route of the same length.
Ties(cur) ==
    {y \in AS : /\ rel[cur][y] \in Allowed[stage] \/ y \in kids[cur]
                /\ y \in (seen \ done) \ prior
                /\ depth[y] = depth[cur] + 1}

\* One turn of the loop of ExecuteBfs.  The second search does not look
\* beyond what it finds (limitedDiscovery).
Visit ==
    LET cur == Head(queue)
        fresh == Fresh(cur)
        old == OldKids(cur)
        ties == Ties(cur)
        won == {y \in ties : NewRouteWins(cur, y)}
    IN  /\ threw = "no" /\ stage > 0 /\ queue # << >>
        /\ \E order \in SetToSeqs(old \cup IF stage = 2 THEN {} ELSE fresh) :
              queue' = Tail(queue) \o order
        /\ seen' = seen \cup fresh \cup old
        /\ done' = done \cup {cur}
        /\ parent' = [y \in AS |-> IF y \in fresh \cup won THEN cur
                                   ELSE parent[y]]
        /\ kids' = [x \in AS |-> IF x = cur THEN kids[x] \cup fresh \cup won
                                 ELSE kids[x] \ won]
        /\ depth' = [y \in AS |-> IF y \in fresh THEN depth[cur] + 1
                                  ELSE depth[y]]
        /\ best' = [y \in AS |-> IF y \in fresh THEN {cur}
                                 ELSE IF y \in ties THEN best[y] \cup {cur}
                                 ELSE best[y]]
        /\ column' = [y \in AS |-> IF y \in fresh THEN Column[stage]
                                   ELSE column[y]]
        /\ threw' = IF \E y \in old : depth[y] # depth[cur] + 1
                    THEN "unexpectedDepth"
                    ELSE IF fresh # {} /\ depth[cur] + 1 >= MaxPathLen
                    THEN "bucketTable" ELSE "no"
        /\ UNCHANGED <<rel, next, stage, prior, table>>

\* The end of a search, and the next one.
NextSearch ==
    /\ threw = "no" /\ stage \in {1, 2} /\ queue = << >>
    /\ stage' = stage + 1
    /\ prior' = prior \cup seen
    /\ Visited(Root)
    /\ UNCHANGED <<rel, next, parent, kids, depth, best, column, table, threw>>

\* sortByHashValue throws when two next hops have the same hash.
Collision ==
    \E x \in AS : \E y, z \in best[x] : y # z /\ HashOf(x, y) = HashOf(x, z)

\* UpdatePaths with no secure AS: the lowest hash among the next hops.
ChosenParent(x) ==
    CHOOSE y \in best[x] : \A z \in best[x] : HashOf(x, y) <= HashOf(x, z)

\* The rest of initMiniDestination and initDestination.
FinishDestination ==
    /\ threw = "no" /\ stage = 3 /\ queue = << >>
    /\ stage' = 0
    /\ prior' = prior \cup seen
    /\ seen' = {} /\ done' = {}
    /\ next' = next + 1
    /\ IF Collision
       THEN threw' = "hashCollision" /\ UNCHANGED table
       ELSE /\ table' = Append(table,
                [dest |-> Root, best |-> best, depth |-> depth,
                 column |-> column,
                 chosen |-> [x \in {y \in AS : best[y] # {}} |->
                               ChosenParent(x)]])
            /\ UNCHANGED threw
    /\ UNCHANGED <<rel, queue, parent, kids, depth, best, column>>

RouteNext ==
    \/ StartDestination
    \/ Visit
    \/ NextSearch
    \/ FinishDestination

RouteSpec == RouteInit /\ [][RouteNext]_routeVars

-----------------------------------------------------------------------------
(* The answer of the predictor *)

\* The last ASes of the paths of n + 1 ASes in the queue of GetAllBestPaths.
Frontier(t, src) ==
    LET f[n \in 0 .. MaxPath - 1] ==
          IF n = 0 THEN {src}
          ELSE UNION {t.best[x] : x \in f[n - 1] \ {t.dest}}
    IN  f

\* Mutant of Answer: it also names the ASes of paths that did not arrive.
AnswerUnfinished(t, src) ==
    LET f == Frontier(t, src) IN UNION {f[n] : n \in DOMAIN f}

\* The ASes on the paths that arrive.  All paths of an AS have the same
\* length; a path that is not there after MaxPath ASes is dropped.
Answer(t, src) ==
    LET f == Frontier(t, src)
    IN  IF t.best[src] # {} /\ \E n \in DOMAIN f : t.dest \in f[n]
        THEN UNION {f[n] : n \in DOMAIN f}
        ELSE {}

-----------------------------------------------------------------------------
(* Properties *)

Rank(c) == CASE c = "customer" -> 1 [] c = "peer" -> 2 [] OTHER -> 3

\* The kind of route x would have through y, were y to announce its own: an
\* AS announces the routes of its customers to all, all others to customers
\* and siblings only.
OfferedClass(t, x, y) ==
    CASE rel[y][x] = CustomerOf /\ t.column[y] = "customer" -> "customer"
      [] rel[y][x] = PeerOf /\ t.column[y] = "customer" -> "peer"
      [] rel[y][x] = ProviderTo -> "provider"
      [] rel[y][x] = SiblingOf ->
            IF t.column[y] = "customer" THEN "customer" ELSE "provider"
      [] OTHER -> NoColumn

Offers(t, x) ==
    {y \in AS : /\ rel[y][x] # NoEdge /\ t.best[y] # {}
                /\ OfferedClass(t, x, y) # NoColumn}

\* x does better with the offer of y than with that of z.
Prefers(t, x, y, z) ==
    LET ry == Rank(OfferedClass(t, x, y))
        rz == Rank(OfferedClass(t, x, z))
    IN  ry < rz \/ (ry = rz /\ t.depth[y] < t.depth[z])

\* What an entry of the table says of every AS fits what it says of the others.
Stable(t) ==
    \A x \in AS \ {t.dest} :
        /\ t.best[x] = {y \in Offers(t, x) :
                          \A z \in Offers(t, x) : ~Prefers(t, x, z, y)}
        /\ \A y \in t.best[x] :
              /\ t.depth[x] = t.depth[y] + 1
              /\ t.column[x] = OfferedClass(t, x, y)

\* The three searches end in a stable state of BGP: Best holds exactly the
\* neighbours whose announcements an AS likes best (customer before peer
\* before provider, then the shortest), given what these use themselves.
RoutesStable == \A i \in 1 .. Len(table) : Stable(table[i])

\* The paths from src along Best.
BestPaths(t, src) ==
    {p \in [1 .. t.depth[src] + 1 -> AS] :
        /\ p[1] = src
        /\ p[Len(p)] = t.dest
        /\ \A j \in 1 .. Len(p) - 1 : p[j + 1] \in t.best[p[j]]}

\* Going towards the destination, no provider and no peer comes after a peer
\* or a customer: nobody carries traffic for free.
ValleyFree(p) ==
    \A j, k \in 1 .. Len(p) - 1 :
        j < k /\ rel[p[j]][p[j + 1]] \in {PeerOf, ProviderTo} =>
            rel[p[k]][p[k + 1]] \in {ProviderTo, SiblingOf}

\* The answer of GetAllBestPaths names exactly the ASes on the best paths, all
\* valley free and without loops, and is empty exactly for an AS that has no
\* route or is too far away.
AnswersExact ==
    \A i \in 1 .. Len(table) : \A src \in AS :
        LET t == table[i]
            paths == IF t.best[src] = {} THEN {} ELSE BestPaths(t, src)
        IN  /\ \A p \in paths : ValleyFree(p) /\ IsInjective(p)
            /\ Answer(t, src) =
                 IF t.best[src] # {} /\ t.depth[src] >= MaxPath THEN {}
                 ELSE UNION {Range(p) : p \in paths}

\* The tree that the searches share stays one: a node is the child of its
\* parent and of no other, one edge further from the root, and the sanity
\* check of a later search ("Unexpected BFS depth during BFS re-run") never
\* fails, also for the destinations after the first.
TreeConsistent ==
    /\ threw # "unexpectedDepth"
    /\ stage > 0 =>
          /\ \A x \in AS : kids[x] = {y \in AS : parent[y] = x}
          /\ \A x \in AS : parent[x] # NoParent =>
                /\ depth[x] = depth[parent[x]] + 1
                /\ parent[x] \in best[x]
=============================================================================
