------------------------- MODULE RoutingTreeProofs -------------------------
(* Proofs about the predictor's searches, for any graph of ASes, any hash  *)
(* and any destinations: they share one tree, and what they compute is a   *)
(* stable state of BGP.                                                    *)
EXTENDS RoutingTree, FiniteSetTheorems, FunctionTheorems, SequenceTheorems,
        WellFoundedInduction, TLAPS

\* The nodes that this search or one before has found.
Reached == seen \cup prior

\* The search that found an AS; 4 for none.
Level(x) == CASE column[x] = "customer" -> 1
              [] column[x] = "peer" -> 2
              [] column[x] = "provider" -> 3
              [] OTHER -> 4

\* Who passes its routes on in the k-th search.
Expanders(k) == IF k = 3 THEN Reached ELSE {c \in AS : Level(c) = 1}

\* The nodes that are seen and to be visited.
Waiting == (IF stage = 2 THEN seen \cap prior ELSE seen) \ done

\* The types of the variables of a search.
RouteTypeOK ==
    /\ rel \in Graphs
    /\ next \in Nat \ {0} /\ stage \in 0 .. 3
    /\ stage > 0 => next <= Len(DestSeq)
    /\ queue \in Seq(AS)
    /\ seen \in SUBSET AS /\ done \in SUBSET AS /\ prior \in SUBSET AS
    /\ parent \in [AS -> AS \cup {NoParent}]
    /\ kids \in [AS -> SUBSET AS]
    /\ depth \in [AS -> Nat]
    /\ best \in [AS -> SUBSET AS]
    /\ column \in [AS -> {"customer", "peer", "provider", NoColumn}]

\* The queue holds the waiting nodes once, by their depth, and nobody is
\* found more than one edge below its head.
QueueOK ==
    /\ Waiting = {queue[i] : i \in 1 .. Len(queue)}
    /\ \A i, j \in 1 .. Len(queue) :
          i < j => queue[i] # queue[j] /\ depth[queue[i]] <= depth[queue[j]]
    /\ \A q \in Waiting :
          /\ \A c \in done : depth[c] <= depth[q]
          /\ \A y \in seen : depth[y] <= depth[q] + 1

\* Which search found whom.
LevelsOK ==
    /\ Root \in seen /\ done \subseteq seen
    /\ stage = 1 => prior = {}
    /\ stage > 1 => Root \in prior
    /\ stage = 2 => done \subseteq prior
    /\ \A x \in prior : Level(x) < stage
    /\ \A x \in seen \ prior : Level(x) = stage
    /\ \A x \in AS \ Reached : Level(x) = 4
    /\ \A x \in AS : best[x] # {} <=> x \in Reached
    /\ depth[Root] = 0

\* The tree of the searches so far.
TreeOK ==
    /\ parent[Root] = NoParent
    /\ \A x \in AS : kids[x] = {y \in AS : parent[y] = x}
    /\ \A x \in AS \ Reached : parent[x] = NoParent
    /\ \A x \in Reached \ {Root} :
          /\ parent[x] \in Reached
          /\ depth[x] = depth[parent[x]] + 1
          /\ parent[x] \in best[x]
    /\ \A x \in prior \ {Root} : parent[x] \in prior
    /\ \A x \in (seen \ prior) \ {Root} : parent[x] \in done
    /\ \A c \in done : kids[c] \subseteq seen

\* The k-th search has handled the edges of the ASes in S: no AS they lead to
\* was left out or got a longer route, and next hops are all that tie.
Handled(k, S) ==
    /\ \A c \in S, x \in AS :
          rel[c][x] \in Allowed[k] =>
             /\ Level(x) <= k
             /\ Level(x) = k => depth[x] <= depth[c] + 1
    /\ \A x \in AS \ {Root} :
          Level(x) = k =>
             best[x] = {c \in S : rel[c][x] \in Allowed[k]
                                     /\ depth[x] = depth[c] + 1}

\* The searches before are complete; this one has handled what it visited.
SearchesOK ==
    /\ \A k \in 1 .. 2 : k < stage => Handled(k, Expanders(k))
    /\ Handled(stage, done)

\* The inductive invariant of a search, and of the predictor.
SearchInv == QueueOK /\ LevelsOK /\ TreeOK /\ SearchesOK

\* The table is a sequence.
TableSeq == table \in Seq({table[i] : i \in 1 .. Len(table)})

RouteInv ==
    /\ RouteTypeOK
    /\ stage > 0 => SearchInv
    /\ TableSeq /\ RoutesStable
    /\ threw # "unexpectedDepth"

-----------------------------------------------------------------------------
(* Sets and sequences *)

\* A set of naturals has a least element.
LEMMA LeastOf ==
    ASSUME NEW T \in SUBSET Nat, T # {}
    PROVE  \E x \in T : \A y \in T : x <= y
<1>1. \E x \in T : \A y \in T : ~ (<<y, x>> \in OpToRel(<, Nat))
  BY NatLessThanWellFounded, WFMin
<1>2. \A x, y \in T : <<y, x>> \in OpToRel(<, Nat) <=> y < x
  BY DEF OpToRel
<1>3. PICK x \in T : \A y \in T : ~ (y < x)
  BY <1>1, <1>2
<1>4. \A y \in T : x <= y
  BY <1>3
<1> QED  BY <1>4

\* The elements of an ordering of a set are its elements, each once.
LEMMA OrderCovers ==
    ASSUME NEW S \in SUBSET AS, NEW order \in SetToSeqs(S)
    PROVE  /\ order \in Seq(AS)
           /\ \A i \in 1 .. Len(order) : order[i] \in S
           /\ \A s \in S : \E i \in 1 .. Len(order) : s = order[i]
           /\ \A i, j \in 1 .. Len(order) : i # j => order[i] # order[j]
<1>1. IsFiniteSet(S) /\ Cardinality(S) \in Nat
  BY RoutingAssumption, FS_Subset, FS_CardinalityType
<1>2. PICK n \in Nat : n = Cardinality(S)
  BY <1>1
<1>3. order \in [1 .. n -> S] /\ \A i, j \in 1 .. n : i # j => order[i] # order[j]
  BY <1>2 DEF SetToSeqs
<1>4. order \in Seq(S) /\ Len(order) = n
  BY <1>2, <1>3
<1>5. order \in Seq(AS)
  BY <1>4, SeqMonotonic
<1>6. ASSUME NEW s \in S PROVE \E i \in 1 .. n : s = order[i]
  <2> DEFINE I == {order[i] : i \in 1 .. n}
  <2>1. I \in SUBSET S
    BY <1>3
  <2>2. IsFiniteSet(I) /\ Cardinality(I) \in Nat /\ Cardinality(I) <= n
    BY <1>1, <1>2, <2>1, FS_Subset, FS_CardinalityType
  <2>3. order \in Injection(1 .. n, I)
    BY <1>3 DEF Injection, IsInjective
  <2>4. Cardinality(1 .. n) = n
    <3>1. 1 \in Int /\ n \in Int
      OBVIOUS
    <3>2. Cardinality(1 .. n) = IF 1 > n THEN 0 ELSE n - 1 + 1
      BY <3>1, FS_Interval
    <3> QED  BY <3>2
  <2>5. Cardinality(1 .. n) <= Cardinality(I)
    BY <2>2, <2>3, FS_Injection
  <2>6. Cardinality(I) = Cardinality(S)
    BY <1>2, <2>2, <2>4, <2>5
  <2>7. I = S
    BY <1>1, <2>1, <2>6, FS_Subset
  <2> QED  BY <2>7
<1> QED  BY <1>3, <1>4, <1>5, <1>6

-----------------------------------------------------------------------------
(* A turn of the queue *)

\* What Visit does, node by node.
Turn(cur, fresh, old, ties, won) ==
    /\ stage \in 1 .. 3 /\ threw' # "unexpectedDepth"
    /\ cur \in Waiting /\ \A q \in Waiting : depth[cur] <= depth[q]
    /\ fresh = {y \in AS \ Reached : rel[cur][y] \in Allowed[stage]}
    /\ old = {y \in prior \ seen : parent[y] = cur}
    /\ ties = {y \in (seen \ done) \ prior : /\ rel[cur][y] \in Allowed[stage]
                                             /\ depth[y] = depth[cur] + 1}
    /\ won \in SUBSET ties
    /\ seen' = seen \cup fresh \cup old
    /\ done' = done \cup {cur}
    /\ parent' = [y \in AS |-> IF y \in fresh \cup won THEN cur ELSE parent[y]]
    /\ kids' = [x \in AS |-> IF x = cur THEN kids[x] \cup fresh \cup won
                             ELSE kids[x] \ won]
    /\ depth' = [y \in AS |-> IF y \in fresh THEN depth[cur] + 1 ELSE depth[y]]
    /\ best' = [y \in AS |-> IF y \in fresh THEN {cur}
                             ELSE IF y \in ties THEN best[y] \cup {cur}
                             ELSE best[y]]
    /\ column' = [y \in AS |-> IF y \in fresh THEN Column[stage] ELSE column[y]]
    /\ UNCHANGED <<rel, next, stage, prior, table>>

\* The queue after it.
Queued(cur, fresh, old) ==
    /\ queue # << >> /\ cur = Head(queue)
    /\ \E order \in SetToSeqs(old \cup IF stage = 2 THEN {} ELSE fresh) :
          queue' = Tail(queue) \o order

\* The head of the queue is a waiting node of the least depth.
LEMMA HeadWaits ==
    ASSUME RouteTypeOK, QueueOK, queue # << >>
    PROVE  /\ Head(queue) = queue[1] /\ Head(queue) \in Waiting
           /\ \A q \in Waiting : depth[Head(queue)] <= depth[q]
           /\ Waiting \in SUBSET AS
<1>1. queue \in Seq(AS) /\ Len(queue) \in Nat \ {0} /\ Head(queue) = queue[1]
  BY EmptySeq DEF RouteTypeOK
<1>2. Waiting = {queue[i] : i \in 1 .. Len(queue)}
  BY DEF QueueOK
<1>3. Waiting \in SUBSET AS
  BY DEF Waiting, RouteTypeOK
<1>4. 1 \in 1 .. Len(queue) /\ queue[1] \in Waiting
  BY <1>1, <1>2
<1>5. ASSUME NEW q \in Waiting PROVE depth[queue[1]] <= depth[q]
  <2>1. PICK i \in 1 .. Len(queue) : q = queue[i]
    BY <1>2
  <2>2. CASE i = 1
    <3>1. depth[q] \in Nat
      BY <1>3 DEF RouteTypeOK
    <3> QED  BY <2>1, <2>2, <3>1
  <2>3. CASE i # 1
    BY <1>1, <1>4, <2>1, <2>3 DEF QueueOK
  <2> QED  BY <2>2, <2>3
<1> QED  BY <1>1, <1>3, <1>4, <1>5

\* Visit takes such a turn.
LEMMA VisitIsTurn ==
    ASSUME RouteInv, Visit
    PROVE  \E cur \in AS : \E fresh, old, ties, won \in SUBSET AS :
               Turn(cur, fresh, old, ties, won) /\ Queued(cur, fresh, old)
<1> DEFINE cur == Head(queue)
           won == {y \in Ties(cur) : NewRouteWins(cur, y)}
<1>1. stage \in 1 .. 3 /\ queue # << >> /\ RouteTypeOK /\ SearchInv
  <2>1. stage > 0 /\ queue # << >>
    BY Zenon DEF Visit
  <2>2. RouteTypeOK /\ SearchInv
    BY <2>1 DEF RouteInv
  <2>3. stage \in 0 .. 3
    BY <2>2 DEF RouteTypeOK
  <2> QED  BY <2>1, <2>2, <2>3
<1>2. /\ cur \in AS /\ cur \in Waiting
      /\ \A q \in Waiting : depth[cur] <= depth[q]
  BY <1>1, HeadWaits DEF SearchInv
<1>3. seen \in SUBSET AS /\ prior \in SUBSET AS
  BY <1>1 DEF RouteTypeOK
<1>4. cur \notin done
  BY <1>2 DEF Waiting
<1>5. Fresh(cur) = {y \in AS \ Reached : rel[cur][y] \in Allowed[stage]}
  BY DEF Fresh, Reached
<1>6. \A y \in AS : y \in kids[cur] <=> parent[y] = cur
  BY <1>1, <1>2 DEF SearchInv, TreeOK
<1>7. OldKids(cur) = {y \in prior \ seen : parent[y] = cur}
  BY <1>3, <1>6 DEF OldKids
<1>8. ASSUME NEW y \in seen \ prior PROVE y \notin kids[cur]
  <2>1. y \in AS /\ cur # NoParent
    BY <1>2, <1>3, RoutingAssumption
  <2>2. y = Root => parent[y] = NoParent
    BY <1>1 DEF SearchInv, TreeOK
  <2>3. y # Root => parent[y] \in done
    BY <1>1 DEF SearchInv, TreeOK
  <2> QED  BY <1>4, <1>6, <2>1, <2>2, <2>3
<1>9. Ties(cur) = {y \in (seen \ done) \ prior :
                      rel[cur][y] \in Allowed[stage] /\ depth[y] = depth[cur] + 1}
  BY <1>3, <1>8 DEF Ties
<1>10. \A y \in OldKids(cur) : depth[y] = depth[cur] + 1
  <2> SUFFICES ASSUME NEW y \in OldKids(cur) PROVE depth[y] = depth[cur] + 1
    OBVIOUS
  <2>1. y \in prior /\ parent[y] = cur
    BY <1>7
  <2>2. y # Root
    <3>1. parent[Root] = NoParent
      BY <1>1 DEF SearchInv, TreeOK
    <3> QED  BY <1>2, <2>1, <3>1, RoutingAssumption
  <2> QED  BY <1>1, <2>1, <2>2 DEF SearchInv, TreeOK, Reached
<1>11. threw' # "unexpectedDepth"
  BY <1>10 DEF Visit
<1>12. Turn(cur, Fresh(cur), OldKids(cur), Ties(cur), won)
  <2>1. /\ seen' = seen \cup Fresh(cur) \cup OldKids(cur)
        /\ done' = done \cup {cur}
        /\ parent' = [y \in AS |-> IF y \in Fresh(cur) \cup won THEN cur
                                   ELSE parent[y]]
        /\ kids' = [x \in AS |-> IF x = cur THEN kids[x] \cup Fresh(cur) \cup won
                                 ELSE kids[x] \ won]
        /\ depth' = [y \in AS |-> IF y \in Fresh(cur) THEN depth[cur] + 1
                                  ELSE depth[y]]
        /\ best' = [y \in AS |-> IF y \in Fresh(cur) THEN {cur}
                                 ELSE IF y \in Ties(cur) THEN best[y] \cup {cur}
                                 ELSE best[y]]
        /\ column' = [y \in AS |-> IF y \in Fresh(cur) THEN Column[stage]
                                   ELSE column[y]]
        /\ UNCHANGED <<rel, next, stage, prior, table>>
    BY Zenon DEF Visit
  <2>2. won \in SUBSET Ties(cur)
    OBVIOUS
  <2> QED  BY <1>1, <1>2, <1>5, <1>7, <1>9, <1>11, <2>1, <2>2, Zenon DEF Turn
<1>13. Queued(cur, Fresh(cur), OldKids(cur))
  BY <1>1 DEF Visit, Queued
<1>14. /\ Fresh(cur) \in SUBSET AS /\ OldKids(cur) \in SUBSET AS
       /\ Ties(cur) \in SUBSET AS /\ won \in SUBSET AS
  BY DEF Fresh, OldKids, Ties
<1> QED  BY <1>2, <1>12, <1>13, <1>14

\* What the next lemmas need of a turn.
TurnFacts(cur, fresh, old, ties) ==
    /\ stage \in 1 .. 3 /\ UNCHANGED <<rel, stage, prior, Root>>
    /\ cur \in seen \ done /\ cur \in Reached
    /\ cur \notin fresh /\ cur \notin ties
    /\ Root \in Reached /\ Root \in AS /\ Root \notin fresh /\ Root \notin ties
    /\ Reached \in SUBSET AS
    /\ fresh \in SUBSET AS /\ \A y \in fresh : y \notin Reached
    /\ old \in SUBSET (prior \ seen) /\ ties \in SUBSET (seen \ prior)
    /\ \A x : x \in Reached' <=> x \in Reached \/ x \in fresh
    /\ depth \in [AS -> Nat] /\ depth' \in [AS -> Nat]
    /\ \A y \in fresh : depth'[y] = depth[cur] + 1
    /\ \A y \in AS \ fresh : depth'[y] = depth[y]
    /\ \A y \in fresh : Level(y)' = stage
    /\ \A y \in AS \ fresh : Level(y)' = Level(y)

\* A turn adds the fresh nodes to the tree and moves no other.
LEMMA TurnBasics ==
    ASSUME RouteTypeOK, SearchInv, NEW cur \in AS,
           NEW fresh \in SUBSET AS, NEW old \in SUBSET AS,
           NEW ties \in SUBSET AS, NEW won \in SUBSET AS,
           Turn(cur, fresh, old, ties, won)
    PROVE  TurnFacts(cur, fresh, old, ties)
<1>1. stage \in 1 .. 3 /\ UNCHANGED <<rel, stage, prior, next>>
  BY DEF Turn
<1>2. Root' = Root
  BY <1>1 DEF Root
<1>3. cur \in seen \ done /\ cur \in Reached
  BY DEF Turn, Waiting, Reached
<1>4. depth \in [AS -> Nat]
  BY DEF RouteTypeOK
<1>5. /\ \A y \in fresh : y \notin Reached
      /\ old \in SUBSET (prior \ seen) /\ ties \in SUBSET (seen \ prior)
      /\ \A y \in ties : depth[y] = depth[cur] + 1
  BY DEF Turn
<1>6. cur \notin fresh /\ cur \notin ties
  <2>1. depth[cur] # depth[cur] + 1
    BY <1>4
  <2> QED  BY <1>3, <1>5, <2>1
<1>7. Root \in Reached /\ Reached \in SUBSET AS /\ depth[Root] = 0
  BY DEF SearchInv, LevelsOK, Reached, RouteTypeOK
<1>8. Root \notin fresh /\ Root \notin ties
  <2>1. depth[cur] + 1 # 0
    BY <1>4
  <2> QED  BY <1>5, <1>7, <2>1
<1>9. \A x : x \in Reached' <=> x \in Reached \/ x \in fresh
  <2>1. seen' = seen \cup fresh \cup old /\ prior' = prior
    BY DEF Turn
  <2> QED  BY <1>5, <2>1 DEF Reached
<1>10. depth' = [y \in AS |-> IF y \in fresh THEN depth[cur] + 1 ELSE depth[y]]
  BY DEF Turn
<1>11. /\ depth' \in [AS -> Nat]
       /\ \A y \in fresh : depth'[y] = depth[cur] + 1
       /\ \A y \in AS \ fresh : depth'[y] = depth[y]
  BY <1>4, <1>10
<1>12. column' = [y \in AS |-> IF y \in fresh THEN Column[stage] ELSE column[y]]
  BY DEF Turn
<1>13. ASSUME NEW y \in fresh PROVE Level(y)' = stage
  <2>1. column'[y] = Column[stage]
    BY <1>12
  <2>2. /\ Column[1] = "customer" /\ Column[2] = "peer" /\ Column[3] = "provider"
    BY DEF Column
  <2>3. stage = 1 \/ stage = 2 \/ stage = 3
    BY <1>1
  <2> QED  BY <2>1, <2>2, <2>3 DEF Level
<1>14. ASSUME NEW y \in AS \ fresh PROVE Level(y)' = Level(y)
  <2>1. column'[y] = column[y]
    BY <1>12
  <2> QED  BY <2>1 DEF Level
<1> QED
  BY <1>1, <1>2, <1>3, <1>5, <1>6, <1>7, <1>8, <1>9, <1>4, <1>11, <1>13, <1>14
     DEF TurnFacts

\* The turn keeps the types; the queue is treated below.
LEMMA TurnTypes ==
    ASSUME RouteTypeOK, SearchInv, NEW cur \in AS,
           NEW fresh \in SUBSET AS, NEW old \in SUBSET AS,
           NEW ties \in SUBSET AS, NEW won \in SUBSET AS,
           Turn(cur, fresh, old, ties, won), queue' \in Seq(AS)
    PROVE  RouteTypeOK'
<1>1. /\ rel' \in Graphs
      /\ next' \in Nat \ {0} /\ stage' \in 0 .. 3
      /\ stage' > 0 => next' <= Len(DestSeq)
  BY DEF Turn, RouteTypeOK
<1>2. seen' \in SUBSET AS /\ done' \in SUBSET AS /\ prior' \in SUBSET AS
  BY DEF Turn, RouteTypeOK
<1>3. parent' \in [AS -> AS \cup {NoParent}]
  BY DEF Turn, RouteTypeOK
<1>4. kids' \in [AS -> SUBSET AS]
  <2>1. kids \in [AS -> SUBSET AS]
    BY DEF RouteTypeOK
  <2>2. \A x \in AS : (IF x = cur THEN kids[x] \cup fresh \cup won
                       ELSE kids[x] \ won) \in SUBSET AS
    BY <2>1
  <2> QED  BY <2>2 DEF Turn
<1>5. depth' \in [AS -> Nat]
  BY TurnBasics DEF TurnFacts
<1>6. best' \in [AS -> SUBSET AS]
  <2>1. best \in [AS -> SUBSET AS]
    BY DEF RouteTypeOK
  <2>2. \A y \in AS : (IF y \in fresh THEN {cur}
                       ELSE IF y \in ties THEN best[y] \cup {cur}
                       ELSE best[y]) \in SUBSET AS
    BY <2>1
  <2> QED  BY <2>2 DEF Turn
<1>7. column' \in [AS -> {"customer", "peer", "provider", NoColumn}]
  <2>1. column \in [AS -> {"customer", "peer", "provider", NoColumn}]
    BY DEF RouteTypeOK
  <2>0. stage \in 1 .. 3
    BY DEF Turn
  <2>2. stage = 1 \/ stage = 2 \/ stage = 3
    BY <2>0
  <2>3. Column[stage] \in {"customer", "peer", "provider", NoColumn}
    BY <2>2 DEF Column
  <2> QED  BY <2>1, <2>3 DEF Turn
<1> QED  BY <1>1, <1>2, <1>3, <1>4, <1>5, <1>6, <1>7 DEF RouteTypeOK

\* The turn takes the head from the queue and appends what it sees, all of it
\* one edge further away.
LEMMA TurnQueue ==
    ASSUME RouteTypeOK, SearchInv, NEW cur \in AS,
           NEW fresh \in SUBSET AS, NEW old \in SUBSET AS,
           NEW ties \in SUBSET AS, NEW won \in SUBSET AS,
           Turn(cur, fresh, old, ties, won), Queued(cur, fresh, old)
    PROVE  queue' \in Seq(AS) /\ QueueOK'
<1> DEFINE N == old \cup IF stage = 2 THEN {} ELSE fresh
<1>1. TurnFacts(cur, fresh, old, ties)
  BY TurnBasics
<1>2. N \in SUBSET AS /\ \A y \in N : y \in old \/ y \in fresh
  OBVIOUS
<1>3. PICK order \in SetToSeqs(N) : queue' = Tail(queue) \o order
  BY DEF Queued
<1>4. Waiting' = (Waiting \ {cur}) \cup N
  <2>1. /\ seen' = seen \cup fresh \cup old /\ done' = done \cup {cur}
        /\ stage' = stage /\ prior' = prior
    BY DEF Turn
  <2>2. done \subseteq seen /\ \A y \in fresh : y \notin seen /\ y \notin prior
    BY <1>1 DEF SearchInv, LevelsOK, TurnFacts, Reached
  <2>3. old \in SUBSET (prior \ seen) /\ cur \in seen \ done
    BY <1>1 DEF TurnFacts
  <2> QED  BY <2>1, <2>2, <2>3 DEF Waiting
<1>5. Waiting \in SUBSET seen /\ Waiting \in SUBSET AS /\ seen \in SUBSET Reached
  BY DEF Waiting, RouteTypeOK, Reached
<1>6. \A y \in N : y \notin seen /\ y \in AS
  BY <1>1, <1>2 DEF TurnFacts, Reached
<1>7. /\ cur \in Waiting
      /\ \A q \in Waiting : depth[cur] <= depth[q]
      /\ \A c \in done : depth[c] <= depth[cur]
      /\ \A y \in seen : depth[y] <= depth[cur] + 1
  BY DEF Turn, SearchInv, QueueOK
<1>8. \A y \in old : depth'[y] = depth[cur] + 1
  <2> SUFFICES ASSUME NEW y \in old PROVE depth'[y] = depth[cur] + 1
    OBVIOUS
  <2>1. y \in prior /\ parent[y] = cur /\ y \in AS
    BY DEF Turn
  <2>2. y # Root
    <3>1. parent[Root] = NoParent
      BY DEF SearchInv, TreeOK
    <3> QED  BY <2>1, <3>1, RoutingAssumption
  <2>3. depth[y] = depth[cur] + 1
    BY <2>1, <2>2 DEF SearchInv, TreeOK, Reached
  <2>4. y \notin fresh
    BY <1>1, <2>1 DEF TurnFacts, Reached
  <2> QED  BY <1>1, <2>1, <2>3, <2>4 DEF TurnFacts
<1>9. \A y \in N : depth'[y] = depth[cur] + 1
  BY <1>1, <1>2, <1>8 DEF TurnFacts
<1>10. \A y \in seen : depth'[y] = depth[y] /\ depth[y] \in Nat
  BY <1>1 DEF TurnFacts, Reached
<1> HIDE DEF N
<1>11. depth[cur] \in Nat
  BY <1>1 DEF TurnFacts
<1>12. \A q \in Waiting' : depth[cur] <= depth'[q]
  BY <1>4, <1>5, <1>7, <1>9, <1>10, <1>11
<1>13. \A y \in seen' : depth'[y] <= depth[cur] + 1
  <2>1. seen' = seen \cup fresh \cup old
    BY DEF Turn
  <2>2. \A y \in fresh : depth'[y] = depth[cur] + 1
    BY <1>1 DEF TurnFacts
  <2> QED  BY <1>7, <1>8, <1>10, <1>11, <2>1, <2>2
<1>14. \A c \in done' : depth'[c] <= depth[cur]
  <2>1. done' = done \cup {cur} /\ done \subseteq seen
    BY DEF Turn, SearchInv, LevelsOK
  <2> QED  BY <1>5, <1>7, <1>10, <1>11, <2>1
<1>15. depth' \in [AS -> Nat] /\ Waiting' \in SUBSET AS /\ seen' \in SUBSET AS
       /\ done' \in SUBSET AS
  <2>1. depth' \in [AS -> Nat] /\ Waiting' \in SUBSET AS
    BY <1>1, <1>2, <1>4, <1>5 DEF TurnFacts
  <2>2. seen' \in SUBSET AS /\ done' \in SUBSET AS
    BY DEF Turn, RouteTypeOK
  <2> QED  BY <2>1, <2>2
<1>16. \A q \in Waiting' :
          /\ \A c \in done' : depth'[c] <= depth'[q]
          /\ \A y \in seen' : depth'[y] <= depth'[q] + 1
  BY <1>11, <1>12, <1>13, <1>14, <1>15
<1>17. /\ order \in Seq(AS)
       /\ \A i \in 1 .. Len(order) : order[i] \in N
       /\ \A s \in N : \E i \in 1 .. Len(order) : s = order[i]
       /\ \A i, j \in 1 .. Len(order) : i # j => order[i] # order[j]
  BY <1>2, <1>3, OrderCovers
<1>18. PICK t \in Seq(AS) : t = Tail(queue)
  BY HeadTailProperties DEF Queued, RouteTypeOK
<1>19. /\ Len(queue) \in Nat \ {0} /\ Len(t) = Len(queue) - 1
       /\ \A i \in 1 .. Len(t) : t[i] = queue[i + 1]
       /\ cur = queue[1]
  <2>1. queue \in Seq(AS) /\ queue # << >> /\ cur = Head(queue)
    BY DEF Queued, RouteTypeOK
  <2> QED  BY <1>18, <2>1, HeadTailProperties, EmptySeq
<1>20. /\ Waiting = {queue[i] : i \in 1 .. Len(queue)}
       /\ \A i, j \in 1 .. Len(queue) :
             i < j => queue[i] # queue[j] /\ depth[queue[i]] <= depth[queue[j]]
  BY DEF SearchInv, QueueOK
<1>21. \A i \in 1 .. Len(t) : t[i] \in Waiting \ {cur}
  BY <1>19, <1>20
<1>22. \A w \in Waiting \ {cur} : \E i \in 1 .. Len(t) : w = t[i]
  <2> SUFFICES ASSUME NEW w \in Waiting \ {cur}
               PROVE  \E i \in 1 .. Len(t) : w = t[i]
    OBVIOUS
  <2>1. PICK i \in 1 .. Len(queue) : w = queue[i]
    BY <1>20
  <2>2. i # 1
    BY <1>19, <2>1
  <2>3. i - 1 \in 1 .. Len(t) /\ i = (i - 1) + 1
    BY <1>19, <2>2
  <2> QED  BY <1>19, <2>1, <2>3
<1>23. \A i, j \in 1 .. Len(t) : i < j => t[i] # t[j] /\ depth[t[i]] <= depth[t[j]]
  BY <1>19, <1>20
<1>24. PICK m \in Nat, n \in Nat : m = Len(t) /\ n = Len(order)
  BY <1>17, LenProperties
<1>25. /\ queue' \in Seq(AS) /\ Len(queue') = m + n
       /\ \A i \in 1 .. m + n :
             queue'[i] = IF i <= m THEN t[i] ELSE order[i - m]
  BY <1>3, <1>17, <1>18, <1>24, ConcatProperties
<1>26. \A i \in 1 .. m : i \in 1 .. m + n /\ queue'[i] = t[i]
  BY <1>25
<1>27. \A i \in 1 .. n : i + m \in 1 .. m + n /\ queue'[i + m] = order[i]
  BY <1>24, <1>25
<1>28. Waiting' = {queue'[i] : i \in 1 .. Len(queue')}
  <2>1. ASSUME NEW i \in 1 .. m + n PROVE queue'[i] \in Waiting'
    <3>1. CASE i <= m
      BY <1>4, <1>21, <1>24, <1>25, <3>1
    <3>2. CASE ~ (i <= m)
      <4>1. i - m \in 1 .. n
        BY <3>2
      <4> QED  BY <1>4, <1>17, <1>24, <1>25, <3>2, <4>1
    <3> QED  BY <3>1, <3>2
  <2>2. ASSUME NEW w \in Waiting' PROVE \E i \in 1 .. m + n : w = queue'[i]
    <3>1. CASE w \in Waiting \ {cur}
      BY <1>22, <1>24, <1>26, <3>1
    <3>2. CASE w \in N
      <4>1. PICK i \in 1 .. n : w = order[i]
        BY <1>17, <1>24, <3>2
      <4> QED  BY <1>27, <4>1
    <3> QED  BY <1>4, <3>1, <3>2
  <2> QED  BY <1>25, <2>1, <2>2
<1>29. ASSUME NEW i \in 1 .. m + n, NEW j \in 1 .. m + n, i < j
       PROVE  queue'[i] # queue'[j] /\ depth'[queue'[i]] <= depth'[queue'[j]]
  <2>1. CASE j <= m
    <3>1. /\ i \in 1 .. m /\ j \in 1 .. m
          /\ queue'[i] = t[i] /\ queue'[j] = t[j]
      BY <1>25, <1>29, <2>1
    <3>2. t[i] \in seen /\ t[j] \in seen
      BY <1>5, <1>21, <1>24, <3>1
    <3>3. t[i] # t[j] /\ depth[t[i]] <= depth[t[j]]
      BY <1>23, <1>24, <1>29, <3>1
    <3> QED  BY <1>10, <3>1, <3>2, <3>3
  <2>2. CASE i <= m /\ ~ (j <= m)
    <3>1. /\ i \in 1 .. m /\ j - m \in 1 .. n
          /\ queue'[i] = t[i] /\ queue'[j] = order[j - m]
      BY <1>25, <2>2
    <3>2. t[i] \in seen /\ order[j - m] \in N
      BY <1>5, <1>17, <1>21, <1>24, <3>1
    <3>3. t[i] # order[j - m]
      BY <1>6, <3>2
    <3>4. depth'[t[i]] <= depth[cur] + 1
      BY <1>7, <1>10, <3>2
    <3>5. depth'[order[j - m]] = depth[cur] + 1
      BY <1>9, <3>2
    <3> QED  BY <3>1, <3>3, <3>4, <3>5
  <2>3. CASE ~ (i <= m)
    <3>1. /\ i - m \in 1 .. n /\ j - m \in 1 .. n /\ i - m # j - m
          /\ queue'[i] = order[i - m] /\ queue'[j] = order[j - m]
      <4>1. m \in Nat /\ n \in Nat /\ i \in Int /\ j \in Int
        OBVIOUS
      <4>2. i - m \in 1 .. n /\ j - m \in 1 .. n /\ i - m # j - m /\ ~ (j <= m)
        BY <1>29, <2>3, <4>1
      <4>3. queue'[i] = order[i - m]
        BY <1>25, <2>3
      <4>4. queue'[j] = order[j - m]
        BY <1>25, <4>2
      <4> QED  BY <4>2, <4>3, <4>4
    <3>2. order[i - m] \in N /\ order[j - m] \in N
      BY <1>17, <1>24, <3>1
    <3>3. order[i - m] # order[j - m]
      BY <1>17, <1>24, <3>1
    <3>4. /\ depth'[order[i - m]] = depth[cur] + 1
          /\ depth'[order[j - m]] = depth[cur] + 1
      BY <1>9, <3>2
    <3>5. depth[cur] + 1 <= depth[cur] + 1
      BY <1>11
    <3> QED  BY <3>1, <3>3, <3>4, <3>5
  <2> QED  BY <2>1, <2>2, <2>3
<1> QED  BY <1>16, <1>25, <1>28, <1>29 DEF QueueOK

\* Whom the turn finds is of the level of the search.
LEMMA TurnLevels ==
    ASSUME RouteTypeOK, SearchInv, NEW cur \in AS,
           NEW fresh \in SUBSET AS, NEW old \in SUBSET AS,
           NEW ties \in SUBSET AS, NEW won \in SUBSET AS,
           Turn(cur, fresh, old, ties, won)
    PROVE  LevelsOK'
<1>1. TurnFacts(cur, fresh, old, ties)
  BY TurnBasics
<1>2. LevelsOK /\ seen \in SUBSET AS /\ prior \in SUBSET AS
  BY DEF SearchInv, RouteTypeOK
<1>3. /\ seen' = seen \cup fresh \cup old /\ done' = done \cup {cur}
      /\ prior' = prior /\ stage' = stage /\ Root' = Root
  BY <1>1 DEF Turn, TurnFacts
<1>4. Root' \in seen' /\ done' \subseteq seen'
  BY <1>1, <1>2, <1>3 DEF LevelsOK, TurnFacts
<1>5. /\ stage' = 1 => prior' = {}
      /\ stage' > 1 => Root' \in prior'
  BY <1>2, <1>3 DEF LevelsOK
<1>6. stage' = 2 => done' \subseteq prior'
  BY <1>2, <1>3 DEF LevelsOK, Turn, Waiting
<1>7. \A x \in prior' : Level(x)' < stage'
  BY <1>1, <1>2, <1>3 DEF LevelsOK, TurnFacts, Reached
<1>8. \A x \in seen' \ prior' : Level(x)' = stage'
  BY <1>1, <1>2, <1>3 DEF LevelsOK, TurnFacts, Reached
<1>9. \A x \in AS \ Reached' : Level(x)' = 4
  BY <1>1, <1>2 DEF LevelsOK, TurnFacts
<1>10. ASSUME NEW x \in AS PROVE best'[x] # {} <=> x \in Reached'
  <2>1. best'[x] = IF x \in fresh THEN {cur}
                   ELSE IF x \in ties THEN best[x] \cup {cur} ELSE best[x]
    BY DEF Turn
  <2>2. best[x] # {} <=> x \in Reached
    BY <1>2 DEF LevelsOK
  <2>3. x \in ties => x \in Reached
    BY <1>1 DEF TurnFacts, Reached
  <2> QED  BY <1>1, <2>1, <2>2, <2>3 DEF TurnFacts
<1>11. depth'[Root'] = 0
  BY <1>1, <1>2, <1>3 DEF LevelsOK, TurnFacts
<1> QED
  BY <1>4, <1>5, <1>6, <1>7, <1>8, <1>9, <1>10, <1>11 DEF LevelsOK

\* The tree stays a tree: a tie that is won moves a node without children.
LEMMA TurnTree ==
    ASSUME RouteTypeOK, SearchInv, NEW cur \in AS,
           NEW fresh \in SUBSET AS, NEW old \in SUBSET AS,
           NEW ties \in SUBSET AS, NEW won \in SUBSET AS,
           Turn(cur, fresh, old, ties, won)
    PROVE  TreeOK'
<1>1. TurnFacts(cur, fresh, old, ties)
  BY TurnBasics
<1>2. TreeOK /\ seen \in SUBSET AS /\ prior \in SUBSET AS /\ done \in SUBSET AS
  BY DEF SearchInv, RouteTypeOK
<1>3. /\ seen' = seen \cup fresh \cup old /\ done' = done \cup {cur}
      /\ prior' = prior /\ Root' = Root /\ won \in SUBSET ties
  BY <1>1 DEF Turn, TurnFacts
<1>4. \A y \in AS : parent'[y] = IF y \in fresh \cup won THEN cur ELSE parent[y]
  BY DEF Turn
<1>5. \A x \in AS : kids'[x] = IF x = cur THEN kids[x] \cup fresh \cup won
                               ELSE kids[x] \ won
  BY DEF Turn
<1>6. /\ \A y \in fresh : y \notin Reached /\ parent[y] = NoParent
      /\ \A y \in won : y \in seen /\ y \in Reached /\ y \notin prior /\ y \notin fresh
      /\ cur # NoParent /\ cur \in Reached /\ cur \in AS
  BY <1>1, <1>2, <1>3, RoutingAssumption DEF TreeOK, TurnFacts, Reached
<1>7. parent'[Root'] = NoParent'
  <2>1. Root \in AS /\ Root \notin fresh /\ Root \notin won
    BY <1>1, <1>3 DEF TurnFacts
  <2> QED  BY <1>2, <1>3, <1>4, <2>1 DEF TreeOK, NoParent
<1>8. ASSUME NEW x \in AS PROVE kids'[x] = {y \in AS : parent'[y] = x}
  <2>1. kids[x] = {y \in AS : parent[y] = x}
    BY <1>2 DEF TreeOK
  <2>2. x # NoParent
    BY RoutingAssumption
  <2>3. CASE x = cur
    BY <1>4, <1>5, <2>1, <2>3
  <2>4. CASE x # cur
    <3>1. kids'[x] = kids[x] \ won
      BY <1>5, <2>4
    <3>2. ASSUME NEW y \in AS PROVE y \in kids'[x] <=> parent'[y] = x
      <4>1. y \in kids'[x] <=> parent[y] = x /\ y \notin won
        BY <2>1, <3>1
      <4>2. y \in fresh => parent[y] # x /\ parent'[y] = cur
        BY <1>4, <1>6, <2>2
      <4>3. y \in won => parent'[y] = cur
        BY <1>4
      <4>4. y \notin fresh \cup won => parent'[y] = parent[y]
        BY <1>4
      <4> QED  BY <2>4, <4>1, <4>2, <4>3, <4>4
    <3>3. kids'[x] \in SUBSET AS
      BY <2>1, <3>1
    <3> QED  BY <3>2, <3>3
  <2> QED  BY <2>3, <2>4
<1>9. \A x \in AS \ Reached' : parent'[x] = NoParent
  BY <1>1, <1>2, <1>4, <1>6 DEF TreeOK, TurnFacts
<1>10. ASSUME NEW x \in Reached' \ {Root'}
       PROVE  /\ parent'[x] \in Reached'
              /\ depth'[x] = depth'[parent'[x]] + 1
              /\ parent'[x] \in best'[x]
  <2>1. x \in AS /\ x # Root /\ (x \in Reached \/ x \in fresh)
    BY <1>1, <1>3 DEF TurnFacts
  <2>2. best'[x] = IF x \in fresh THEN {cur}
                   ELSE IF x \in ties THEN best[x] \cup {cur} ELSE best[x]
    BY <2>1 DEF Turn
  <2>3. depth'[cur] = depth[cur] /\ cur \in Reached'
    BY <1>1 DEF TurnFacts
  <2>4. CASE x \in fresh
    <3>1. parent'[x] = cur /\ depth'[x] = depth[cur] + 1
      BY <1>1, <1>4, <2>1, <2>4 DEF TurnFacts
    <3> QED  BY <2>2, <2>3, <2>4, <3>1
  <2>5. CASE x \in won
    <3>1. parent'[x] = cur /\ x \in ties /\ x \notin fresh
      BY <1>3, <1>4, <1>6, <2>1, <2>5
    <3>2. depth[x] = depth[cur] + 1
      BY <3>1 DEF Turn
    <3>3. depth'[x] = depth[x]
      BY <1>1, <2>1, <3>1 DEF TurnFacts
    <3> QED  BY <2>2, <2>3, <3>1, <3>2, <3>3
  <2>6. CASE x \notin fresh /\ x \notin won
    <3>1. /\ parent'[x] = parent[x] /\ x \in Reached
      BY <1>4, <2>1, <2>6
    <3>2. /\ parent[x] \in Reached /\ depth[x] = depth[parent[x]] + 1
          /\ parent[x] \in best[x]
      BY <1>2, <2>1, <3>1 DEF TreeOK
    <3>3. PICK p \in Reached : p = parent[x]
      BY <3>2
    <3>4. p \in AS /\ p \notin fresh /\ p \in Reached'
      BY <1>1, <1>6, <3>3 DEF TurnFacts
    <3>5. depth'[p] = depth[p] /\ depth'[x] = depth[x]
      BY <1>1, <2>1, <2>6, <3>4 DEF TurnFacts
    <3>6. parent[x] \in best'[x]
      BY <2>2, <2>6, <3>2
    <3> QED  BY <3>1, <3>2, <3>3, <3>4, <3>5, <3>6
  <2> QED  BY <2>4, <2>5, <2>6
<1>11. \A x \in prior' \ {Root'} : parent'[x] \in prior'
  <2>1. \A x \in prior : x \in AS /\ x \notin fresh /\ x \notin won
    BY <1>2, <1>6 DEF Reached
  <2> QED  BY <1>2, <1>3, <1>4, <2>1 DEF TreeOK
<1>12. ASSUME NEW x \in (seen' \ prior') \ {Root'} PROVE parent'[x] \in done'
  <2>1. x \in AS /\ (x \in fresh \/ x \in (seen \ prior) \ {Root})
    BY <1>1, <1>2, <1>3 DEF TurnFacts
  <2>2. x \in fresh \cup won => parent'[x] = cur
    BY <1>4, <2>1
  <2>3. x \notin fresh \cup won => parent'[x] \in done
    BY <1>2, <1>4, <2>1 DEF TreeOK
  <2> QED  BY <1>3, <2>2, <2>3
<1>13. ASSUME NEW c \in done', NEW y \in kids'[c] PROVE y \in seen'
  <2>1. c \in AS /\ (c = cur \/ c \in done)
    BY <1>2, <1>3
  <2>2. CASE c = cur
    <3>1. y \in kids[cur] \/ y \in fresh \/ y \in won
      BY <1>5, <1>13, <2>1, <2>2
    <3>2. ASSUME y \in kids[cur] PROVE y \in seen'
      <4>1. y \in AS /\ parent[y] = cur
        BY <1>2, <3>2 DEF TreeOK
      <4>2. y \in Reached
        BY <1>2, <1>6, <4>1 DEF TreeOK
      <4>3. y \in prior \ seen => y \in old
        BY <4>1 DEF Turn
      <4> QED  BY <1>3, <4>2, <4>3 DEF Reached
    <3> QED  BY <1>3, <1>6, <3>1, <3>2
  <2>3. CASE c \in done /\ c # cur
    BY <1>2, <1>3, <1>5, <1>13, <2>1, <2>3 DEF TreeOK
  <2> QED  BY <2>1, <2>2, <2>3
<1> QED
  BY <1>7, <1>8, <1>9, <1>10, <1>11, <1>12, <1>13 DEF TreeOK, NoParent

\* What the searches before found is not touched.
LEMMA TurnBefore ==
    ASSUME RouteTypeOK, SearchInv, NEW cur \in AS,
           NEW fresh \in SUBSET AS, NEW old \in SUBSET AS,
           NEW ties \in SUBSET AS, NEW won \in SUBSET AS,
           Turn(cur, fresh, old, ties, won),
           NEW k \in 1 .. 2, k < stage
    PROVE  Handled(k, Expanders(k))'
<1>1. TurnFacts(cur, fresh, old, ties)
  BY TurnBasics
<1>2. stage \in 1 .. 3 /\ rel' = rel /\ Root' = Root
  BY <1>1 DEF TurnFacts
<1>3. PICK S : S = Expanders(k)
  OBVIOUS
<1>4. Handled(k, S)
  BY <1>3 DEF SearchInv, SearchesOK
<1>5. \A x \in AS \ Reached : Level(x) = 4
  BY DEF SearchInv, LevelsOK
<1>6. S = {c \in AS : Level(c) = 1}
  BY <1>3 DEF Expanders
<1>7. \A x \in AS : Level(x)' <= k => x \notin fresh
  BY <1>1, <1>2 DEF TurnFacts
<1>8. \A x \in AS : Level(x) <= k => x \notin fresh
  BY <1>1, <1>5 DEF TurnFacts
<1>9. \A x \in AS : Level(x) = 1 <=> Level(x)' = 1
  <2>1. 1 <= k
    OBVIOUS
  <2> QED  BY <1>1, <1>7, <1>8, <2>1 DEF TurnFacts
<1>10. Expanders(k)' = S
  <2>1. Expanders(k)' = {c \in AS : Level(c)' = 1}
    BY DEF Expanders
  <2> QED  BY <1>6, <1>9, <2>1
<1>11. \A c \in S : c \in AS /\ c \notin fresh /\ depth'[c] = depth[c]
  <2>1. \A c \in S : c \in AS /\ Level(c) <= k
    BY <1>6
  <2> QED  BY <1>1, <1>8, <2>1 DEF TurnFacts
<1>12. ASSUME NEW c \in S, NEW x \in AS, rel[c][x] \in Allowed[k]
       PROVE  /\ Level(x)' <= k
              /\ Level(x)' = k => depth'[x] <= depth'[c] + 1
  <2>1. Level(x) <= k /\ (Level(x) = k => depth[x] <= depth[c] + 1)
    BY <1>4, <1>12 DEF Handled
  <2>2. Level(x)' = Level(x) /\ depth'[x] = depth[x]
    BY <1>1, <1>8, <2>1 DEF TurnFacts
  <2> QED  BY <1>11, <2>1, <2>2
<1>13. ASSUME NEW x \in AS \ {Root}, Level(x)' = k
       PROVE  best'[x] = {c \in S : rel[c][x] \in Allowed[k]
                                      /\ depth'[x] = depth'[c] + 1}
  <2>1. x \notin fresh
    <3>1. Level(x)' <= k
      BY <1>13
    <3> QED  BY <1>7, <3>1
  <2>2. Level(x) = k /\ depth'[x] = depth[x]
    BY <1>1, <1>13, <2>1 DEF TurnFacts
  <2>3. x \notin ties
    <3>1. \A y \in seen \ prior : Level(y) = stage
      BY DEF SearchInv, LevelsOK
    <3>2. Level(x) # stage
      BY <1>2, <2>2
    <3> QED  BY <1>1, <3>1, <3>2 DEF TurnFacts
  <2>4. best'[x] = best[x]
    BY <2>1, <2>3 DEF Turn
  <2>5. best[x] = {c \in S : rel[c][x] \in Allowed[k] /\ depth[x] = depth[c] + 1}
    BY <1>4, <2>2 DEF Handled
  <2> QED  BY <1>11, <2>2, <2>4, <2>5
<1>14. Handled(k, S)'
  BY <1>2, <1>12, <1>13 DEF Handled
<1> QED  BY <1>10, <1>14 DEF Handled

\* The edges of the visited AS are handled.
LEMMA TurnHandles ==
    ASSUME RouteTypeOK, SearchInv, NEW cur \in AS,
           NEW fresh \in SUBSET AS, NEW old \in SUBSET AS,
           NEW ties \in SUBSET AS, NEW won \in SUBSET AS,
           Turn(cur, fresh, old, ties, won)
    PROVE  Handled(stage, done)'
<1>1. TurnFacts(cur, fresh, old, ties)
  BY TurnBasics
<1>2. /\ stage \in 1 .. 3 /\ rel' = rel /\ Root' = Root /\ stage' = stage
      /\ done' = done \cup {cur}
  BY <1>1 DEF TurnFacts, Turn
<1>3. Handled(stage, done)
  BY DEF SearchInv, SearchesOK
<1>4. /\ \A x \in AS \ Reached : Level(x) = 4
      /\ \A x \in prior : Level(x) < stage
      /\ \A x \in seen \ prior : Level(x) = stage
      /\ done \subseteq seen
  BY DEF SearchInv, LevelsOK
<1>5. \A c \in done : c \in AS /\ depth'[c] = depth[c] /\ depth[c] <= depth[cur]
  <2>1. \A c \in done : c \in AS /\ c \notin fresh
    BY <1>1, <1>4 DEF TurnFacts, Reached
  <2>2. \A c \in done : depth[c] <= depth[cur]
    BY DEF SearchInv, QueueOK, Turn
  <2> QED  BY <1>1, <2>1, <2>2 DEF TurnFacts
<1>6. depth'[cur] = depth[cur] /\ depth[cur] \in Nat
  BY <1>1 DEF TurnFacts
<1>7. \A y \in seen : depth[y] <= depth[cur] + 1
  BY DEF SearchInv, QueueOK, Turn
<1>8. \A x \in AS : x \notin fresh => Level(x)' = Level(x) /\ depth'[x] = depth[x]
                                       /\ depth[x] \in Nat
  BY <1>1 DEF TurnFacts
<1>9. \A x \in fresh : /\ Level(x)' = stage /\ depth'[x] = depth[cur] + 1
                       /\ x \in AS \ Reached
  BY <1>1 DEF TurnFacts
<1>10. ASSUME NEW c \in done, NEW x \in AS, rel[c][x] \in Allowed[stage]
       PROVE  /\ x \notin fresh
              /\ Level(x)' <= stage
              /\ Level(x)' = stage => depth'[x] <= depth'[c] + 1
  <2>1. Level(x) <= stage /\ (Level(x) = stage => depth[x] <= depth[c] + 1)
    BY <1>3, <1>10 DEF Handled
  <2>2. x \notin fresh
    BY <1>2, <1>4, <1>9, <2>1
  <2> QED  BY <1>5, <1>8, <2>1, <2>2
<1>11. ASSUME NEW x \in AS, rel[cur][x] \in Allowed[stage]
       PROVE  /\ Level(x)' <= stage
              /\ Level(x)' = stage => depth'[x] <= depth'[cur] + 1
  <2>1. CASE x \in fresh
    BY <1>2, <1>6, <1>9, <2>1
  <2>2. CASE x \notin fresh
    <3>1. x \in Reached
      BY <1>11, <2>2 DEF Turn
    <3>2. x \in prior \/ x \in seen \ prior
      BY <3>1 DEF Reached
    <3>3. CASE x \in prior
      <4>1. Level(x) < stage /\ Level(x)' = Level(x)
        BY <1>4, <1>8, <2>2, <3>3
      <4>2. Level(x) \in 1 .. 4
        BY DEF Level
      <4> QED  BY <1>2, <4>1, <4>2
    <3>4. CASE x \in seen \ prior
      <4>1. Level(x)' = stage /\ depth'[x] = depth[x]
        BY <1>4, <1>8, <2>2, <3>4
      <4>2. depth[x] <= depth[cur] + 1
        BY <1>7, <3>4
      <4> QED  BY <1>2, <1>6, <4>1, <4>2
    <3> QED  BY <3>2, <3>3, <3>4
  <2> QED  BY <2>1, <2>2
<1>12. ASSUME NEW x \in AS \ {Root}, Level(x)' = stage
       PROVE  best'[x] = {c \in done' : rel[c][x] \in Allowed[stage]
                                          /\ depth'[x] = depth'[c] + 1}
  <2>1. best'[x] = IF x \in fresh THEN {cur}
                   ELSE IF x \in ties THEN best[x] \cup {cur} ELSE best[x]
    BY DEF Turn
  <2>2. CASE x \in fresh
    <3>1. rel[cur][x] \in Allowed[stage] /\ depth'[x] = depth'[cur] + 1
      BY <1>6, <1>9, <2>2 DEF Turn
    <3>2. \A c \in done : ~ (rel[c][x] \in Allowed[stage])
      BY <1>10, <2>2
    <3> QED  BY <1>2, <2>1, <2>2, <3>1, <3>2
  <2>3. CASE x \notin fresh
    <3>1. Level(x) = stage /\ depth'[x] = depth[x]
      BY <1>8, <1>12, <2>3
    <3>2. best[x] = {c \in done : rel[c][x] \in Allowed[stage]
                                     /\ depth[x] = depth[c] + 1}
      BY <1>3, <3>1 DEF Handled
    <3>3. x \in seen \ prior
      BY <1>2, <1>4, <3>1 DEF Reached
    <3>4. x \in done => depth[x] # depth[cur] + 1
      BY <1>5, <1>6
    <3>5. x \in ties <=> rel[cur][x] \in Allowed[stage] /\ depth[x] = depth[cur] + 1
      BY <3>3, <3>4 DEF Turn
    <3>6. ASSUME NEW c
          PROVE  c \in best'[x] <=> /\ c \in done'
                                    /\ rel[c][x] \in Allowed[stage]
                                    /\ depth'[x] = depth'[c] + 1
      <4>1. CASE c = cur
        <5>1. c \notin best[x]
          BY <1>1, <3>2, <4>1 DEF TurnFacts
        <5> QED  BY <1>2, <1>6, <2>1, <2>3, <3>1, <3>5, <4>1, <5>1
      <4>2. CASE c # cur
        <5>1. c \in best'[x] <=> c \in best[x]
          BY <2>1, <2>3, <4>2
        <5>2. c \in done' <=> c \in done
          BY <1>2, <4>2
        <5> QED  BY <1>5, <3>1, <3>2, <5>1, <5>2
      <4> QED  BY <4>1, <4>2
    <3> QED  BY <3>6
  <2> QED  BY <2>2, <2>3
<1>13. ASSUME NEW c \in done', NEW x \in AS, rel[c][x] \in Allowed[stage]
       PROVE  /\ Level(x)' <= stage
              /\ Level(x)' = stage => depth'[x] <= depth'[c] + 1
  <2>1. c \in done \/ c = cur
    BY <1>2
  <2> QED  BY <1>10, <1>11, <1>13, <2>1
<1> QED  BY <1>2, <1>12, <1>13 DEF Handled

\* An entry of the table is stable whatever happens later: the graph stays.
LEMMA TableKept ==
    ASSUME TableSeq, RoutesStable, UNCHANGED <<rel, table>>
    PROVE  TableSeq' /\ RoutesStable'
<1>1. \A t : Stable(t)' <=> Stable(t)
  BY DEF Stable, Offers, OfferedClass, Prefers, Rank
<1>2. TableSeq'
  BY DEF TableSeq
<1>3. ASSUME NEW i \in 1 .. Len(table') PROVE Stable(table[i])'
  <2>1. PICK t : t = table[i]
    OBVIOUS
  <2>2. Stable(t)
    BY <2>1 DEF RoutesStable
  <2>3. Stable(t)'
    BY <1>1, <2>2
  <2>4. t = table'[i]
    BY <2>1
  <2> QED  BY <2>3, <2>4 DEF Stable, Offers, OfferedClass, Prefers
<1> QED  BY <1>2, <1>3 DEF RoutesStable

\* A turn of the queue keeps the invariant.
LEMMA VisitStep ==
    ASSUME RouteInv, Visit
    PROVE  RouteInv'
<1>1. PICK cur \in AS, fresh \in SUBSET AS, old \in SUBSET AS,
           ties \in SUBSET AS, won \in SUBSET AS :
               Turn(cur, fresh, old, ties, won) /\ Queued(cur, fresh, old)
  BY VisitIsTurn
<1>2. /\ stage \in 1 .. 3 /\ stage' = stage /\ threw' # "unexpectedDepth"
      /\ UNCHANGED <<rel, table>>
  BY <1>1 DEF Turn
<1>3. RouteTypeOK /\ SearchInv
  <2>1. stage > 0
    BY <1>2
  <2> QED  BY <2>1 DEF RouteInv
<1>4. queue' \in Seq(AS) /\ QueueOK'
  BY <1>1, <1>3, TurnQueue
<1>5. RouteTypeOK'
  BY <1>1, <1>3, <1>4, TurnTypes
<1>6. LevelsOK' /\ TreeOK'
  BY <1>1, <1>3, TurnLevels, TurnTree
<1>7. Handled(stage, done)'
  BY <1>1, <1>3, TurnHandles
<1>8. \A k \in 1 .. 2 : k < stage' => Handled(k, Expanders(k))'
  BY <1>1, <1>2, <1>3, TurnBefore
<1>9. SearchInv'
  BY <1>4, <1>6, <1>7, <1>8 DEF SearchInv, SearchesOK
<1>10. TableSeq' /\ RoutesStable'
  BY <1>2, TableKept DEF RouteInv
<1> QED  BY <1>2, <1>5, <1>9, <1>10 DEF RouteInv

-----------------------------------------------------------------------------
(* From one search to the next *)

\* When the queue is empty, every AS was visited that passes routes on.
LEMMA AllVisited ==
    ASSUME RouteTypeOK, SearchInv, stage \in 1 .. 3, queue = << >>
    PROVE  done = Expanders(stage)
<1>1. Waiting = {}
  <2>1. Len(queue) = 0
    BY EmptySeq
  <2> QED  BY <2>1 DEF SearchInv, QueueOK
<1>2. /\ done \subseteq seen /\ Root \in seen
      /\ stage = 1 => prior = {}
      /\ stage > 1 => Root \in prior
      /\ stage = 2 => done \subseteq prior
      /\ \A x \in prior : Level(x) < stage
      /\ \A x \in seen \ prior : Level(x) = stage
      /\ \A x \in AS \ Reached : Level(x) = 4
      /\ seen \in SUBSET AS /\ prior \in SUBSET AS
  BY DEF SearchInv, LevelsOK, RouteTypeOK
<1>3. \A x \in AS : Level(x) \in 1 .. 4
  BY DEF Level
<1>4. \A x \in prior \cap seen : x \in done
  BY <1>1 DEF Waiting
<1>5. prior \subseteq done
  <2> DEFINE B == prior \ done
             D == {depth[x] : x \in B}
  <2> SUFFICES ASSUME B # {} PROVE FALSE
    OBVIOUS
  <2>1. D \in SUBSET Nat /\ D # {}
    BY <1>2 DEF RouteTypeOK
  <2>2. PICK d \in D : \A e \in D : d <= e
    BY <2>1, LeastOf
  <2>3. PICK x \in B : d = depth[x]
    BY <2>2
  <2>4. x # Root
    BY <1>2, <1>4, <2>3
  <2>5. /\ parent[x] \in prior /\ depth[x] = depth[parent[x]] + 1
        /\ x \in kids[parent[x]]
    BY <1>2, <2>3, <2>4 DEF SearchInv, TreeOK, Reached
  <2>6. PICK p \in prior : p = parent[x]
    BY <2>5
  <2>7. p \in done
    <3> SUFFICES ASSUME p \in B PROVE FALSE
      OBVIOUS
    <3>1. depth[x] <= depth[p]
      BY <2>2, <2>3
    <3>2. depth[p] \in Nat
      BY <1>2 DEF RouteTypeOK
    <3> QED  BY <2>5, <2>6, <3>1, <3>2
  <2>8. x \in seen
    BY <2>5, <2>6, <2>7 DEF SearchInv, TreeOK
  <2> QED  BY <1>4, <2>3, <2>8
<1>6. CASE stage = 1
  <2>1. done = seen /\ Reached = seen
    <3>1. stage # 2
      BY <1>6
    <3>2. seen \ done = {}
      BY <1>1, <3>1 DEF Waiting
    <3>3. prior = {}
      BY <1>2, <1>6
    <3> QED  BY <1>2, <3>2, <3>3, Zenon DEF Reached
  <2>2. Expanders(1) = {c \in AS : Level(c) = 1}
    BY DEF Expanders
  <2> QED  BY <1>2, <1>6, <2>1, <2>2
<1>7. CASE stage = 2
  <2>1. done = prior
    BY <1>2, <1>5, <1>7
  <2>2. Expanders(2) = {c \in AS : Level(c) = 1}
    BY DEF Expanders
  <2>3. \A x \in prior : Level(x) = 1
    BY <1>2, <1>3, <1>7
  <2> QED  BY <1>2, <1>7, <2>1, <2>2, <2>3 DEF Reached
<1>8. CASE stage = 3
  <2>1. Expanders(3) = Reached
    BY DEF Expanders
  <2>2. seen \subseteq done
    BY <1>1, <1>8 DEF Waiting
  <2> QED  BY <1>2, <1>5, <1>8, <2>1, <2>2 DEF Reached
<1> QED  BY <1>6, <1>7, <1>8

\* The next search starts from the tree of the ones before.
LEMMA NextSearchStep ==
    ASSUME RouteInv, NextSearch
    PROVE  RouteInv'
<1>1. /\ stage \in {1, 2} /\ queue = << >> /\ stage' = stage + 1
      /\ prior' = Reached /\ queue' = <<Root>> /\ seen' = {Root} /\ done' = {}
      /\ UNCHANGED <<rel, next, parent, kids, depth, best, column, table, threw>>
  BY DEF NextSearch, Visited, Reached
<1>2. RouteTypeOK /\ SearchInv /\ stage \in 1 .. 3 /\ stage > 0
  <2>1. stage > 0 /\ stage \in 1 .. 3
    BY <1>1
  <2> QED  BY <2>1 DEF RouteInv
<1>3. Root' = Root /\ Root \in Reached /\ Root \in AS /\ Reached \in SUBSET AS
  <2>1. Root' = Root
    BY <1>1 DEF Root
  <2> QED  BY <1>2, <2>1 DEF SearchInv, LevelsOK, Reached, RouteTypeOK
<1>4. Reached' = Reached
  BY <1>1, <1>3 DEF Reached
<1>5. \A x \in AS : Level(x)' = Level(x) /\ Level(x) \in 1 .. 4
  BY <1>1 DEF Level
<1>6. \A x \in Reached : Level(x) <= stage
  BY <1>1, <1>2, <1>3, <1>5 DEF SearchInv, LevelsOK, Reached
<1>7. RouteTypeOK'
  BY <1>1, <1>2, <1>3 DEF RouteTypeOK
<1>8. QueueOK'
  <2>1. Waiting' = {Root}
    BY <1>1, <1>3 DEF Waiting
  <2>2. Len(queue') = 1 /\ queue'[1] = Root
    BY <1>1
  <2>3. Waiting' = {queue'[i] : i \in 1 .. Len(queue')}
    BY <2>1, <2>2
  <2>4. depth'[Root] \in Nat
    BY <1>3, <1>7 DEF RouteTypeOK
  <2> QED  BY <1>1, <2>1, <2>2, <2>3, <2>4 DEF QueueOK
<1>9. LevelsOK'
  <2>1. \A x \in prior' : Level(x)' < stage'
    BY <1>1, <1>3, <1>5, <1>6
  <2>2. /\ \A x \in AS \ Reached : Level(x) = 4
        /\ \A x \in AS : best[x] # {} <=> x \in Reached
        /\ depth[Root] = 0
    BY <1>2 DEF SearchInv, LevelsOK
  <2> QED  BY <1>1, <1>3, <1>4, <1>5, <2>1, <2>2 DEF LevelsOK
<1>10. TreeOK'
  BY <1>1, <1>2, <1>3, <1>4 DEF SearchInv, TreeOK, NoParent
<1>11. ASSUME NEW k \in 1 .. 2, k < stage' PROVE Handled(k, Expanders(k))'
  <2>1. Handled(k, Expanders(k))
    <3>1. CASE k = stage
      <4>1. done = Expanders(k)
        BY <1>1, <1>2, <3>1, AllVisited
      <4> QED  BY <1>2, <3>1, <4>1 DEF SearchInv, SearchesOK
    <3>2. CASE k < stage
      BY <1>2, <3>2 DEF SearchInv, SearchesOK
    <3> QED  BY <1>1, <1>11, <3>1, <3>2
  <2>2. PICK S : S = Expanders(k)
    OBVIOUS
  <2>3. Expanders(k)' = S
    BY <1>5, <2>2 DEF Expanders
  <2>4. S \in SUBSET AS
    BY <2>2 DEF Expanders
  <2>5. Handled(k, S)
    BY <2>1, <2>2
  <2>6. Handled(k, S)'
    BY <1>1, <1>3, <1>5, <2>5 DEF Handled
  <2> QED  BY <2>3, <2>6 DEF Handled
<1>12. Handled(stage, done)'
  <2>1. \A x \in AS : Level(x)' # stage'
    <3> SUFFICES ASSUME NEW x \in AS PROVE Level(x)' # stage'
      OBVIOUS
    <3>1. CASE x \in Reached
      BY <1>1, <1>5, <1>6, <3>1
    <3>2. CASE x \notin Reached
      <4>1. Level(x) = 4
        BY <1>2, <3>2 DEF SearchInv, LevelsOK
      <4> QED  BY <1>1, <1>5, <4>1
    <3> QED  BY <3>1, <3>2
  <2> QED  BY <1>1, <2>1 DEF Handled
<1>13. SearchInv'
  BY <1>8, <1>9, <1>10, <1>11, <1>12 DEF SearchInv, SearchesOK
<1>14. TableSeq' /\ RoutesStable'
  BY <1>1, TableKept DEF RouteInv
<1> QED  BY <1>1, <1>7, <1>13, <1>14 DEF RouteInv

-----------------------------------------------------------------------------
(* What the three searches have found is stable *)

\* The ASes whose routes the k-th search passes on to x.
Leads(k, x) == {y \in Expanders(k) : rel[y][x] \in Allowed[k]}

\* An entry of the table that holds the tree as it is.
Holds(t) ==
    /\ t.dest = Root /\ t.best = best /\ t.depth = depth /\ t.column = column

\* What an AS offers is what the search of that kind passes on; what a search
\* passes on is an offer of that kind, or of a better one.
LEMMA OffersAreLeads ==
    ASSUME RouteTypeOK, LevelsOK, NEW t, Holds(t), NEW x \in AS, NEW y \in AS
    PROVE  /\ y \in Offers(t, x) =>
                 \E k \in 1 .. 3 : /\ y \in Leads(k, x)
                                   /\ OfferedClass(t, x, y) = Column[k]
                                   /\ Rank(OfferedClass(t, x, y)) = k
           /\ \A k \in 1 .. 3 : y \in Leads(k, x) =>
                 /\ y \in Offers(t, x)
                 /\ Rank(OfferedClass(t, x, y)) <= k
<1>1. rel[y][x] \in {CustomerOf, PeerOf, ProviderTo, SiblingOf, NoEdge}
  BY RoutingAssumption DEF RouteTypeOK, IsGraph
<1>2. PICK r : r = rel[y][x]
  OBVIOUS
<1>3. PICK c : c = OfferedClass(t, x, y)
  OBVIOUS
<1>4. t.column[y] = "customer" <=> Level(y) = 1
  BY DEF Holds, Level
<1>5. /\ r = CustomerOf => c = IF Level(y) = 1 THEN "customer" ELSE NoColumn
      /\ r = PeerOf => c = IF Level(y) = 1 THEN "peer" ELSE NoColumn
      /\ r = ProviderTo => c = "provider"
      /\ r = SiblingOf => c = IF Level(y) = 1 THEN "customer" ELSE "provider"
      /\ r = NoEdge => c = NoColumn
  BY <1>2, <1>3, <1>4
     DEF OfferedClass, CustomerOf, PeerOf, ProviderTo, SiblingOf, NoEdge, NoColumn
<1>6. Level(y) = 1 => y \in Reached
  BY DEF LevelsOK
<1>7. t.best[y] # {} <=> y \in Reached
  BY DEF Holds, LevelsOK
<1>8. y \in Offers(t, x) <=> r # NoEdge /\ y \in Reached /\ c # NoColumn
  BY <1>2, <1>3, <1>7 DEF Offers
<1>9. /\ y \in Leads(1, x) <=> Level(y) = 1 /\ r \in {CustomerOf, SiblingOf}
      /\ y \in Leads(2, x) <=> Level(y) = 1 /\ r = PeerOf
      /\ y \in Leads(3, x) <=> y \in Reached /\ r \in {ProviderTo, SiblingOf}
  BY <1>2 DEF Leads, Expanders, Allowed
<1>10. Rank("customer") = 1 /\ Rank("peer") = 2 /\ Rank("provider") = 3
  BY DEF Rank
<1>11. Column[1] = "customer" /\ Column[2] = "peer" /\ Column[3] = "provider"
  BY DEF Column
<1>12. r \in {CustomerOf, PeerOf, ProviderTo, SiblingOf, NoEdge}
  BY <1>1, <1>2
<1>13. ASSUME y \in Offers(t, x)
       PROVE  \E k \in 1 .. 3 : /\ y \in Leads(k, x)
                                /\ c = Column[k] /\ Rank(c) = k
  <2>1. CASE Level(y) = 1 /\ r \in {CustomerOf, SiblingOf}
    <3>1. y \in Leads(1, x) /\ c = "customer"
      BY <1>5, <1>9, <2>1
    <3> QED  BY <1>10, <1>11, <3>1
  <2>2. CASE Level(y) = 1 /\ r = PeerOf
    <3>1. y \in Leads(2, x) /\ c = "peer"
      BY <1>5, <1>9, <2>2
    <3> QED  BY <1>10, <1>11, <3>1
  <2>3. CASE r = ProviderTo \/ (r = SiblingOf /\ Level(y) # 1)
    <3>1. y \in Leads(3, x) /\ c = "provider"
      BY <1>5, <1>8, <1>9, <1>13, <2>3
    <3> QED  BY <1>10, <1>11, <3>1
  <2> QED  BY <1>5, <1>8, <1>12, <1>13, <2>1, <2>2, <2>3
<1>14. ASSUME NEW k \in 1 .. 3, y \in Leads(k, x)
       PROVE  y \in Offers(t, x) /\ Rank(c) <= k
  <2>1. /\ NoColumn # "customer" /\ NoColumn # "peer" /\ NoColumn # "provider"
        /\ NoEdge # CustomerOf /\ NoEdge # PeerOf
        /\ NoEdge # ProviderTo /\ NoEdge # SiblingOf
    BY DEF NoColumn, NoEdge, CustomerOf, PeerOf, ProviderTo, SiblingOf
  <2>2. CASE k = 1
    <3>1. c = "customer" /\ y \in Offers(t, x)
      BY <1>5, <1>6, <1>8, <1>9, <1>14, <2>1, <2>2
    <3> QED  BY <1>10, <2>2, <3>1
  <2>3. CASE k = 2
    <3>1. c = "peer" /\ y \in Offers(t, x)
      BY <1>5, <1>6, <1>8, <1>9, <1>14, <2>1, <2>3
    <3> QED  BY <1>10, <2>3, <3>1
  <2>4. CASE k = 3
    <3>1. c \in {"customer", "provider"} /\ y \in Offers(t, x)
      BY <1>5, <1>8, <1>9, <1>14, <2>1, <2>4
    <3> QED  BY <1>10, <2>4, <3>1
  <2> QED  BY <2>2, <2>3, <2>4
<1> QED  BY <1>3, <1>13, <1>14

\* An AS uses exactly the offers it likes best.
LEMMA FoundStable ==
    ASSUME RouteTypeOK, LevelsOK, NEW t, Holds(t),
           \A k \in 1 .. 3 : Handled(k, Expanders(k))
    PROVE  Stable(t)
<1> SUFFICES ASSUME NEW x \in AS \ {Root}
             PROVE  /\ t.best[x] = {y \in Offers(t, x) :
                                     \A z \in Offers(t, x) : ~Prefers(t, x, z, y)}
                    /\ \A y \in t.best[x] :
                          /\ t.depth[x] = t.depth[y] + 1
                          /\ t.column[x] = OfferedClass(t, x, y)
  BY DEF Stable, Holds
<1> DEFINE rk(y) == Rank(OfferedClass(t, x, y))
           O == Offers(t, x)
<1>1. /\ t.best[x] = best[x] /\ t.depth = depth /\ t.column[x] = column[x]
      /\ depth \in [AS -> Nat] /\ best[x] \in SUBSET AS
  BY DEF Holds, RouteTypeOK
<1>2. O \in SUBSET AS
  BY DEF Offers
<1>3. \A y \in O : \E k \in 1 .. 3 : /\ y \in Leads(k, x)
                                     /\ OfferedClass(t, x, y) = Column[k]
                                     /\ rk(y) = k
  BY <1>2, OffersAreLeads
<1>4. \A y \in AS : \A k \in 1 .. 3 : y \in Leads(k, x) => y \in O /\ rk(y) <= k
  BY OffersAreLeads
<1>5. \A y \in AS : \A k \in 1 .. 3 : y \in Leads(k, x) =>
         Level(x) <= k /\ (Level(x) = k => depth[x] <= depth[y] + 1)
  BY DEF Leads, Handled
<1>6. \A k \in 1 .. 3 : Level(x) = k =>
         best[x] = {y \in Leads(k, x) : depth[x] = depth[y] + 1}
  <2> SUFFICES ASSUME NEW k \in 1 .. 3, Level(x) = k
               PROVE  best[x] = {y \in Leads(k, x) : depth[x] = depth[y] + 1}
    OBVIOUS
  <2>1. best[x] = {c \in Expanders(k) : rel[c][x] \in Allowed[k]
                                          /\ depth[x] = depth[c] + 1}
    BY DEF Handled
  <2> QED  BY <2>1 DEF Leads
<1>7. Level(x) \in 1 .. 4 /\ (Level(x) = 4 <=> best[x] = {})
  <2>1. best[x] # {} <=> x \in Reached
    BY DEF LevelsOK
  <2>2. x \notin Reached => Level(x) = 4
    BY DEF LevelsOK
  <2>3. x \in Reached => Level(x) # 4
    BY DEF LevelsOK, Reached, RouteTypeOK
  <2> QED  BY <2>1, <2>2, <2>3 DEF Level
<1>8. \A z, y \in O : Prefers(t, x, z, y) <=>
         rk(z) < rk(y) \/ (rk(z) = rk(y) /\ depth[z] < depth[y])
  BY <1>1 DEF Prefers
<1>9. \A k \in 1 .. 3 : Level(x) = k => column[x] = Column[k]
  BY DEF Level, Column, RouteTypeOK
<1>10. \A y \in O : rk(y) \in 1 .. 3 /\ Level(x) <= rk(y)
                    /\ (Level(x) = rk(y) => depth[x] <= depth[y] + 1)
  BY <1>2, <1>3, <1>5
<1>11. CASE Level(x) = 4
  <2>1. O = {}
    BY <1>10, <1>11
  <2> QED  BY <1>1, <1>7, <1>11, <2>1
<1>12. CASE Level(x) # 4
  <2>1. PICK k \in 1 .. 3 : Level(x) = k
    BY <1>7, <1>12
  <2>2. ASSUME NEW y \in best[x]
        PROVE  y \in O /\ rk(y) = k /\ depth[x] = depth[y] + 1
    <3>1. y \in Leads(k, x) /\ depth[x] = depth[y] + 1 /\ y \in AS
      BY <1>1, <1>6, <2>1
    <3>2. y \in O /\ rk(y) <= k
      BY <1>4, <3>1
    <3>3. rk(y) \in 1 .. 3 /\ k <= rk(y)
      BY <1>10, <2>1, <3>2
    <3> QED  BY <3>1, <3>2, <3>3
  <2>3. PICK w \in best[x] : w \in O /\ rk(w) = k /\ depth[x] = depth[w] + 1
    BY <1>7, <1>12, <2>2
  <2>4. ASSUME NEW y \in best[x], NEW z \in O PROVE ~Prefers(t, x, z, y)
    <3>1. rk(z) \in 1 .. 3 /\ k <= rk(z) /\ (k = rk(z) => depth[x] <= depth[z] + 1)
      BY <1>10, <2>1
    <3>2. y \in O /\ rk(y) = k /\ depth[x] = depth[y] + 1
      BY <2>2
    <3>3. depth[y] \in Nat /\ depth[z] \in Nat /\ depth[x] \in Nat
      BY <1>1, <1>2, <3>2
    <3>4. ~(rk(z) < rk(y) \/ (rk(z) = rk(y) /\ depth[z] < depth[y]))
      BY <3>1, <3>2, <3>3
    <3> QED  BY <1>8, <3>2, <3>4
  <2>5. ASSUME NEW y \in O, ~Prefers(t, x, w, y) PROVE y \in best[x]
    <3>1. rk(y) \in 1 .. 3 /\ k <= rk(y) /\ (k = rk(y) => depth[x] <= depth[y] + 1)
      BY <1>10, <2>1
    <3>2. ~(k < rk(y) \/ (k = rk(y) /\ depth[w] < depth[y]))
      BY <1>8, <2>3, <2>5
    <3>3. depth[y] \in Nat /\ depth[w] \in Nat /\ depth[x] \in Nat
      BY <1>1, <1>2, <2>3
    <3>4. rk(y) = k /\ depth[x] = depth[y] + 1
      BY <2>3, <3>1, <3>2, <3>3
    <3>5. y \in Leads(k, x)
      BY <1>3, <3>4
    <3> QED  BY <1>6, <2>1, <3>4, <3>5
  <2>6. best[x] = {y \in O : \A z \in O : ~Prefers(t, x, z, y)}
    BY <2>2, <2>3, <2>4, <2>5
  <2>7. \A y \in best[x] : column[x] = OfferedClass(t, x, y)
    BY <1>3, <1>9, <2>1, <2>2
  <2> QED  BY <1>1, <2>2, <2>6, <2>7
<1> QED  BY <1>11, <1>12

-----------------------------------------------------------------------------
(* From one destination to the next *)

\* At the end of the third search the tree is stable.
LEMMA SearchedStable ==
    ASSUME RouteTypeOK, SearchInv, stage = 3, queue = << >>, NEW t, Holds(t)
    PROVE  Stable(t)
<1>1. stage \in 1 .. 3
  OBVIOUS
<1>2. done = Expanders(3)
  BY <1>1, AllVisited
<1>3. Handled(3, Expanders(3))
  BY <1>2 DEF SearchInv, SearchesOK
<1>4. Handled(1, Expanders(1)) /\ Handled(2, Expanders(2))
  BY DEF SearchInv, SearchesOK
<1>5. \A k \in 1 .. 3 : Handled(k, Expanders(k))
  <2> SUFFICES ASSUME NEW k \in 1 .. 3 PROVE Handled(k, Expanders(k))
    OBVIOUS
  <2>1. k = 1 \/ k = 2 \/ k = 3
    OBVIOUS
  <2> QED  BY <1>3, <1>4, <2>1
<1>6. LevelsOK
  BY DEF SearchInv
<1> QED  BY <1>5, <1>6, FoundStable

\* A stable entry at the end of the table keeps the table stable.
LEMMA TableGrows ==
    ASSUME TableSeq, RoutesStable, NEW t, Stable(t),
           table' = Append(table, t), UNCHANGED rel
    PROVE  TableSeq' /\ RoutesStable'
<1> DEFINE S == {table[i] : i \in 1 .. Len(table)} \cup {t}
<1>1. table \in Seq(S)
  BY SeqMonotonic DEF TableSeq
<1>2. t \in S
  OBVIOUS
<1> HIDE DEF S
<1>3. /\ table' \in Seq(S) /\ Len(table') = Len(table) + 1
      /\ Len(table) \in Nat
      /\ \A i \in 1 .. Len(table) : table'[i] = table[i]
      /\ table'[Len(table) + 1] = t
  BY <1>1, <1>2, AppendProperties
<1>4. TableSeq'
  <2> DEFINE R == {table'[i] : i \in 1 .. Len(table')}
  <2>1. \A i \in 1 .. Len(table') : table'[i] \in R
    OBVIOUS
  <2>2. Len(table') \in Nat
    BY <1>3
  <2>3. table' \in [1 .. Len(table') -> S]
    BY <1>3, LenProperties
  <2> HIDE DEF R
  <2>4. table' \in [1 .. Len(table') -> R]
    BY <2>1, <2>3
  <2>5. table' \in Seq(R)
    BY <2>2, <2>4, SeqDef
  <2> QED  BY <2>5 DEF TableSeq, R
<1>5. \A u : Stable(u)' <=> Stable(u)
  BY DEF Stable, Offers, OfferedClass, Prefers, Rank
<1>6. ASSUME NEW i \in 1 .. Len(table') PROVE Stable(table[i])'
  <2>1. PICK u : u = table'[i]
    OBVIOUS
  <2>2. Stable(u)
    <3>1. CASE i \in 1 .. Len(table)
      BY <1>3, <2>1, <3>1 DEF RoutesStable
    <3>2. CASE i = Len(table) + 1
      BY <1>3, <2>1, <3>2
    <3> QED  BY <1>3, <3>1, <3>2
  <2>3. Stable(u)'
    BY <1>5, <2>2
  <2> QED  BY <2>1, <2>3 DEF Stable, Offers, OfferedClass, Prefers
<1> QED  BY <1>4, <1>6 DEF RoutesStable

\* The end of a destination keeps the invariant.
LEMMA FinishDestinationStep ==
    ASSUME RouteInv, FinishDestination
    PROVE  RouteInv'
<1>1. /\ stage = 3 /\ queue = << >> /\ stage' = 0 /\ threw = "no"
      /\ prior' = prior \cup seen /\ seen' = {} /\ done' = {}
      /\ next' = next + 1
      /\ UNCHANGED <<rel, queue, parent, kids, depth, best, column>>
  BY DEF FinishDestination
<1>2. RouteTypeOK /\ SearchInv
  <2>1. stage > 0
    BY <1>1
  <2> QED  BY <2>1 DEF RouteInv
<1>3. TableSeq /\ RoutesStable
  BY DEF RouteInv
<1>4. RouteTypeOK'
  BY <1>1, <1>2 DEF RouteTypeOK
<1>5. CASE Collision
  <2>1. UNCHANGED <<rel, table>> /\ threw' = "hashCollision"
    BY <1>1, <1>5 DEF FinishDestination
  <2>2. TableSeq' /\ RoutesStable'
    BY <1>3, <2>1, TableKept
  <2>3. ~(stage' > 0) /\ threw' # "unexpectedDepth"
    BY <1>1, <2>1
  <2> QED  BY <1>4, <2>2, <2>3 DEF RouteInv
<1>6. CASE ~Collision
  <2> DEFINE t == [dest |-> Root, best |-> best, depth |-> depth,
                   column |-> column,
                   chosen |-> [x \in {y \in AS : best[y] # {}} |->
                                 ChosenParent(x)]]
  <2>1. table' = Append(table, t) /\ UNCHANGED threw
    BY <1>6 DEF FinishDestination
  <2>2. Holds(t)
    BY DEF Holds
  <2> HIDE DEF t
  <2>3. Stable(t)
    BY <1>1, <1>2, <2>2, SearchedStable
  <2>4. TableSeq' /\ RoutesStable'
    BY <1>1, <1>3, <2>1, <2>3, TableGrows
  <2>5. ~(stage' > 0) /\ threw' # "unexpectedDepth"
    BY <1>1, <2>1
  <2> QED  BY <1>4, <2>4, <2>5 DEF RouteInv
<1> QED  BY <1>5, <1>6

\* The start of a destination: the state of a search is that of its root.
LEMMA StartDestinationStep ==
    ASSUME RouteInv, StartDestination
    PROVE  RouteInv'
<1>1. /\ next <= Len(DestSeq) /\ stage' = 1
      /\ queue' = <<Root>> /\ seen' = {Root} /\ done' = {} /\ prior' = {}
      /\ parent' = [x \in AS |-> NoParent]
      /\ kids' = [x \in AS |-> {}]
      /\ depth' = [x \in AS |-> IF x = Root THEN 0 ELSE Unreached]
      /\ best' = [x \in AS |-> IF x = Root THEN {x} ELSE {}]
      /\ column' = [x \in AS |-> IF x = Root THEN Column[1] ELSE NoColumn]
      /\ UNCHANGED <<rel, next, table, threw>>
  BY DEF StartDestination, Visited
<1>2. RouteTypeOK
  BY DEF RouteInv
<1>3. Root' = Root /\ Root \in AS
  BY <1>1, <1>2, RoutingAssumption DEF Root, RouteTypeOK
<1>4. Column[1] = "customer"
  BY DEF Column
<1>5. RouteTypeOK'
  BY <1>1, <1>2, <1>3, <1>4 DEF RouteTypeOK, Unreached, NoParent
<1>6. Reached' = {Root}
  BY <1>1 DEF Reached
<1>7. \A x \in AS : Level(x)' = IF x = Root THEN 1 ELSE 4
  BY <1>1, <1>4 DEF Level, NoColumn
<1>8. depth'[Root] = 0
  BY <1>1, <1>3
<1>9. QueueOK'
  <2>1. Waiting' = {Root}
    BY <1>1 DEF Waiting
  <2>2. Len(queue') = 1 /\ queue'[1] = Root
    BY <1>1
  <2>3. Waiting' = {queue'[i] : i \in 1 .. Len(queue')}
    BY <2>1, <2>2
  <2> QED  BY <1>1, <1>8, <2>1, <2>2, <2>3 DEF QueueOK
<1>10. LevelsOK'
  <2>1. \A x \in AS : best'[x] # {} <=> x \in Reached'
    BY <1>1, <1>6
  <2> QED  BY <1>1, <1>3, <1>6, <1>7, <1>8, <2>1 DEF LevelsOK
<1>11. TreeOK'
  BY <1>1, <1>3, <1>6, RoutingAssumption DEF TreeOK
<1>12. SearchesOK'
  <2>1. Handled(1, {})'
    BY <1>3, <1>7 DEF Handled
  <2>2. Handled(stage, done)'
    BY <1>1, <2>1
  <2> QED  BY <1>1, <2>2 DEF SearchesOK
<1>13. TableSeq' /\ RoutesStable'
  BY <1>1, TableKept DEF RouteInv
<1>14. threw' # "unexpectedDepth"
  BY <1>1 DEF RouteInv
<1> QED  BY <1>5, <1>9, <1>10, <1>11, <1>12, <1>13, <1>14 DEF RouteInv, SearchInv

\* At the start nothing is searched and the table is empty.
LEMMA RouteInitInv ==
    ASSUME RouteInit
    PROVE  RouteInv
<1>1. RouteTypeOK
  BY DEF RouteInit, RouteTypeOK, Unreached, NoParent
<1>2. Len(table) = 0 /\ table = << >>
  BY DEF RouteInit
<1>3. TableSeq /\ RoutesStable
  BY <1>2 DEF TableSeq, RoutesStable
<1>4. ~(stage > 0) /\ threw # "unexpectedDepth"
  BY DEF RouteInit
<1> QED  BY <1>1, <1>3, <1>4 DEF RouteInv

\* Every step of the predictor keeps the invariant.
LEMMA RouteStep ==
    ASSUME RouteInv, [RouteNext]_routeVars
    PROVE  RouteInv'
<1>1. CASE StartDestination
  BY <1>1, StartDestinationStep
<1>2. CASE Visit
  BY <1>2, VisitStep
<1>3. CASE NextSearch
  BY <1>3, NextSearchStep
<1>4. CASE FinishDestination
  BY <1>4, FinishDestinationStep
<1>5. CASE UNCHANGED routeVars
  <2>1. UNCHANGED <<rel, next, stage, queue, seen, done, prior, parent, kids,
                    depth, best, column, table, threw>>
    BY <1>5 DEF routeVars, search
  <2>2. RouteTypeOK'
    BY <2>1 DEF RouteInv, RouteTypeOK
  <2>3. TableSeq' /\ RoutesStable'
    BY <2>1, TableKept DEF RouteInv
  <2>4. threw' # "unexpectedDepth"
    BY <2>1 DEF RouteInv
  <2>5. ASSUME stage' > 0 PROVE SearchInv'
    <3>1. SearchInv
      BY <2>1, <2>5 DEF RouteInv
    <3>2. /\ Root' = Root /\ Reached' = Reached /\ Waiting' = Waiting
          /\ \A x : Level(x)' = Level(x)
      BY <2>1 DEF Root, Reached, Waiting, Level
    <3>3. QueueOK'
      BY <2>1, <3>1, <3>2 DEF SearchInv, QueueOK
    <3>4. LevelsOK'
      BY <2>1, <3>1, <3>2 DEF SearchInv, LevelsOK
    <3>5. TreeOK'
      BY <2>1, <3>1, <3>2 DEF SearchInv, TreeOK
    <3>6. \A k, S : Handled(k, S) => Handled(k, S)'
      BY <2>1, <3>2 DEF Handled
    <3>7. \A k : Expanders(k)' = Expanders(k)
      BY <3>2 DEF Expanders
    <3>8. SearchesOK'
      BY <2>1, <3>1, <3>6, <3>7 DEF SearchInv, SearchesOK
    <3> QED  BY <3>3, <3>4, <3>5, <3>8 DEF SearchInv
  <2> QED  BY <2>2, <2>3, <2>4, <2>5 DEF RouteInv
<1> QED  BY <1>1, <1>2, <1>3, <1>4, <1>5 DEF RouteNext

-----------------------------------------------------------------------------
\* RouteInv holds throughout: the queue is ordered by depth, each search found
\* exactly the ASes its edges lead to, the tree is one, the table is stable.
THEOREM RouteInvHolds == RouteSpec => []RouteInv
<1>1. RouteInit => RouteInv
  BY RouteInitInv
<1>2. RouteInv /\ [RouteNext]_routeVars => RouteInv'
  BY RouteStep
<1> QED  BY <1>1, <1>2, PTL DEF RouteSpec

\* For every graph of ASes, hash function and order of destinations, each entry
\* the predictor holds is a stable state of BGP: the three searches of
\* initMiniDestination find, for every AS, exactly the next hops it likes best.
THEOREM RoutesAlwaysStable == RouteSpec => []RoutesStable
<1>1. RouteInv => RoutesStable
  BY DEF RouteInv
<1> QED  BY <1>1, RouteInvHolds, PTL

\* The tree the searches share stays one, and the sanity check of ExecuteBfs
\* ("Unexpected BFS depth during BFS re-run") never fails.
THEOREM TreeAlwaysConsistent == RouteSpec => []TreeConsistent
<1>1. RouteInv => TreeConsistent
  <2> SUFFICES ASSUME RouteInv PROVE TreeConsistent
    OBVIOUS
  <2>1. threw # "unexpectedDepth"
    BY DEF RouteInv
  <2>2. ASSUME stage > 0
        PROVE  /\ \A x \in AS : kids[x] = {y \in AS : parent[y] = x}
               /\ \A x \in AS : parent[x] # NoParent =>
                     depth[x] = depth[parent[x]] + 1 /\ parent[x] \in best[x]
    BY <2>2 DEF RouteInv, SearchInv, TreeOK
  <2> QED  BY <2>1, <2>2 DEF TreeConsistent
<1> QED  BY <1>1, RouteInvHolds, PTL

-----------------------------------------------------------------------------
(* The answer of the predictor                                             *)
(*                                                                         *)
(* GetAllBestPaths follows Best for at most MaxPath ASes.  What it finds   *)
(* is compared with the paths themselves, by their number of edges: an     *)
(* induction over that number takes the least one that would be wrong.     *)

\* What an entry of the table says of its own destination.
Entry(t) ==
    /\ t.dest \in AS /\ t.best \in [AS -> SUBSET AS] /\ t.depth \in [AS -> Nat]
    /\ t.best[t.dest] = {t.dest} /\ t.depth[t.dest] = 0
    /\ t.column[t.dest] = "customer"

\* A path of n edges from src along Best that has not arrived before.
Walk(t, src, n, p) ==
    /\ p \in [1 .. n + 1 -> AS]
    /\ p[1] = src
    /\ \A j \in 1 .. n : p[j] # t.dest /\ p[j + 1] \in t.best[p[j]]

\* Where such paths end.
Ends(t, src, n) ==
    {y \in AS : \E p \in [1 .. n + 1 -> AS] : Walk(t, src, n, p) /\ p[n + 1] = y}

\* A next hop has a route itself, one edge shorter.
LEMMA NextHop ==
    ASSUME NEW t, Entry(t), Stable(t), NEW x \in AS \ {t.dest},
           NEW y \in t.best[x]
    PROVE  /\ y \in AS /\ t.best[y] # {} /\ t.depth[x] = t.depth[y] + 1
           /\ t.column[x] = OfferedClass(t, x, y)
           /\ OfferedClass(t, x, y) # NoColumn /\ rel[y][x] # NoEdge
<1>1. y \in Offers(t, x) /\ t.depth[x] = t.depth[y] + 1
      /\ t.column[x] = OfferedClass(t, x, y)
  BY DEF Stable
<1> QED  BY <1>1 DEF Offers

\* Along a path the routes get shorter by one edge at a time.
LEMMA WalkDepth ==
    ASSUME NEW t, Entry(t), Stable(t), NEW src \in AS, t.best[src] # {},
           NEW n \in Nat, NEW p, Walk(t, src, n, p)
    PROVE  \A j \in 1 .. n + 1 :
              t.best[p[j]] # {} /\ t.depth[src] = t.depth[p[j]] + (j - 1)
<1> DEFINE Good(j) == t.best[p[j]] # {} /\ t.depth[src] = t.depth[p[j]] + (j - 1)
           Bad == {j \in 1 .. n + 1 : ~Good(j)}
<1> SUFFICES ASSUME Bad # {} PROVE FALSE
  OBVIOUS
<1>1. Bad \in SUBSET Nat
  OBVIOUS
<1>2. PICK j \in Bad : \A k \in Bad : j <= k
  BY <1>1, LeastOf
<1>3. t.depth \in [AS -> Nat] /\ t.best \in [AS -> SUBSET AS]
  BY DEF Entry
<1>4. p \in [1 .. n + 1 -> AS] /\ p[1] = src
  BY DEF Walk
<1>5. Good(1)
  <2>1. t.depth[src] \in Nat
    BY <1>3
  <2> QED  BY <1>4, <2>1
<1>6. j \in 2 .. n + 1 /\ ~Good(j)
  BY <1>2, <1>5
<1>7. PICK i \in 1 .. n : j = i + 1
  <2>1. j - 1 \in 1 .. n /\ j = (j - 1) + 1
    BY <1>6
  <2> QED  BY <2>1
<1>8. Good(i)
  BY <1>2, <1>7
<1>9. p[i] \in AS \ {t.dest} /\ p[j] \in t.best[p[i]]
  BY <1>4, <1>7 DEF Walk
<1>10. p[j] \in AS /\ t.best[p[j]] # {} /\ t.depth[p[i]] = t.depth[p[j]] + 1
  BY <1>9, NextHop
<1>11. t.depth[src] = t.depth[p[j]] + (j - 1)
  <2>1. t.depth[p[j]] \in Nat
    BY <1>3, <1>10
  <2> QED  BY <1>7, <1>8, <1>10, <2>1
<1> QED  BY <1>6, <1>10, <1>11

\* An AS that has a route and is no edge away is the destination.
LEMMA ArrivedAtZero ==
    ASSUME NEW t, Entry(t), Stable(t), NEW x \in AS, t.best[x] # {}
    PROVE  x = t.dest <=> t.depth[x] = 0
<1>1. t.depth[t.dest] = 0
  BY DEF Entry
<1>2. ASSUME x # t.dest PROVE t.depth[x] # 0
  <2>1. PICK y : y \in t.best[x]
    OBVIOUS
  <2>2. y \in AS /\ t.depth[x] = t.depth[y] + 1
    BY <1>2, <2>1, NextHop
  <2>3. t.depth[y] \in Nat
    BY <2>2 DEF Entry
  <2> QED  BY <2>2, <2>3
<1> QED  BY <1>1, <1>2

\* A path p of n edges goes on to y.
GoesOn(t, src, n, p, y) ==
    \E q \in [1 .. n + 2 -> AS] :
        /\ Walk(t, src, n + 1, q) /\ q[n + 2] = y
        /\ \A j \in 1 .. n + 1 : q[j] = p[j]

\* A path that has not arrived goes on along any next hop.
LEMMA WalkMore ==
    ASSUME NEW t, Entry(t), NEW src \in AS, NEW n \in Nat, NEW p, NEW y,
           Walk(t, src, n, p), p[n + 1] # t.dest, y \in t.best[p[n + 1]]
    PROVE  GoesOn(t, src, n, p, y)
<1> DEFINE q == [j \in 1 .. n + 2 |-> IF j = n + 2 THEN y ELSE p[j]]
<1>1. p \in [1 .. n + 1 -> AS] /\ p[1] = src
  BY DEF Walk
<1>2. y \in AS
  BY <1>1 DEF Entry
<1>3. q \in [1 .. n + 2 -> AS]
  BY <1>1, <1>2
<1>4. q[n + 2] = y /\ \A j \in 1 .. n + 1 : q[j] = p[j]
  OBVIOUS
<1> HIDE DEF q
<1>5. ASSUME NEW j \in 1 .. n + 1
      PROVE  q[j] # t.dest /\ q[j + 1] \in t.best[q[j]]
  <2>1. CASE j = n + 1
    <3>1. q[j] = p[n + 1] /\ q[j + 1] = y
      BY <1>4, <2>1
    <3> QED  BY <3>1
  <2>2. CASE j \in 1 .. n
    <3>1. q[j] = p[j] /\ q[j + 1] = p[j + 1]
      BY <1>4, <2>2
    <3> QED  BY <2>2, <3>1 DEF Walk
  <2> QED  BY <2>1, <2>2
<1>6. Walk(t, src, n + 1, q)
  <2>1. q[1] = src
    BY <1>1, <1>4
  <2>2. n + 1 + 1 = n + 2
    OBVIOUS
  <2> QED  BY <1>3, <1>5, <2>1, <2>2 DEF Walk
<1> QED  BY <1>3, <1>4, <1>6 DEF GoesOn

\* The first m edges of p are a path.
StartsWith(t, src, m, p) ==
    \E q \in [1 .. m + 1 -> AS] :
        /\ Walk(t, src, m, q)
        /\ \A j \in 1 .. m + 1 : q[j] = p[j]

\* The start of a path is a path.
LEMMA WalkLess ==
    ASSUME NEW t, NEW src \in AS, NEW n \in Nat, NEW p, Walk(t, src, n, p),
           NEW m \in 0 .. n
    PROVE  StartsWith(t, src, m, p)
<1> DEFINE q == [j \in 1 .. m + 1 |-> p[j]]
<1>1. p \in [1 .. n + 1 -> AS] /\ p[1] = src
  BY DEF Walk
<1>2. q \in [1 .. m + 1 -> AS] /\ \A j \in 1 .. m + 1 : q[j] = p[j]
  BY <1>1
<1> HIDE DEF q
<1>3. ASSUME NEW j \in 1 .. m PROVE q[j] # t.dest /\ q[j + 1] \in t.best[q[j]]
  <2>1. q[j] = p[j] /\ q[j + 1] = p[j + 1] /\ j \in 1 .. n
    BY <1>2
  <2> QED  BY <2>1 DEF Walk
<1>4. q[1] = src
  BY <1>1, <1>2
<1> QED  BY <1>2, <1>3, <1>4 DEF Walk, StartsWith

\* An AS on a path of n edges lies on one that arrives.
LEMMA WalkArrives ==
    ASSUME NEW t, Entry(t), Stable(t), NEW src \in AS, t.best[src] # {},
           NEW n \in Nat, NEW p, Walk(t, src, n, p)
    PROVE  /\ n <= t.depth[src]
           /\ \E q \in [1 .. t.depth[src] + 1 -> AS] :
                 Walk(t, src, t.depth[src], q) /\ q[n + 1] = p[n + 1]
<1>1. PICK d \in Nat : d = t.depth[src]
  BY DEF Entry
<1>2. p \in [1 .. n + 1 -> AS] /\ n + 1 \in 1 .. n + 1
  BY DEF Walk
<1>3. n <= d
  <2>1. d = t.depth[p[n + 1]] + n
    BY <1>1, <1>2, WalkDepth
  <2>2. t.depth[p[n + 1]] \in Nat
    BY <1>2 DEF Entry
  <2> QED  BY <2>1, <2>2
<1> DEFINE Good(m) == \E q \in [1 .. m + 1 -> AS] :
                         Walk(t, src, m, q) /\ q[n + 1] = p[n + 1]
           Bad == {m \in n .. d : ~Good(m)}
<1>4. Good(n)
  BY <1>2
<1>5. ASSUME NEW m \in n .. d, m < d, Good(m) PROVE Good(m + 1)
  <2>1. PICK q \in [1 .. m + 1 -> AS] :
           Walk(t, src, m, q) /\ q[n + 1] = p[n + 1]
    BY <1>5
  <2>2. m \in Nat /\ m + 1 \in 1 .. m + 1 /\ n + 1 \in 1 .. m + 1 /\ m + 2 = m + 1 + 1
    OBVIOUS
  <2>3. t.best[q[m + 1]] # {} /\ d = t.depth[q[m + 1]] + m
    BY <1>1, <2>1, <2>2, WalkDepth
  <2>4. q[m + 1] \in AS /\ t.depth[q[m + 1]] \in Nat
    BY <2>2 DEF Entry
  <2>5. q[m + 1] # t.dest
    <3>1. t.depth[q[m + 1]] # 0
      BY <1>5, <2>3, <2>4
    <3> QED  BY <2>3, <2>4, <3>1, ArrivedAtZero
  <2>6. PICK y : y \in t.best[q[m + 1]]
    BY <2>3
  <2>7. PICK r \in [1 .. m + 2 -> AS] :
           /\ Walk(t, src, m + 1, r) /\ r[m + 2] = y
           /\ \A j \in 1 .. m + 1 : r[j] = q[j]
    <3>1. Walk(t, src, m, q) /\ m \in Nat
      BY <2>1, <2>2
    <3>2. q[m + 1] # t.dest /\ y \in t.best[q[m + 1]]
      BY <2>5, <2>6
    <3>3. GoesOn(t, src, m, q, y)
      BY <3>1, <3>2, WalkMore
    <3> QED  BY <3>3 DEF GoesOn
  <2> QED  BY <2>1, <2>2, <2>7
<1>6. Bad = {}
  <2> SUFFICES ASSUME Bad # {} PROVE FALSE
    OBVIOUS
  <2>1. Bad \in SUBSET Nat
    BY <1>1
  <2>2. PICK m \in Bad : \A k \in Bad : m <= k
    BY <2>1, LeastOf
  <2>3. m \in n .. d /\ m # n /\ ~Good(m)
    BY <1>4, <2>2
  <2> HIDE DEF Good
  <2>4. m - 1 \in n .. d /\ m - 1 < d /\ m = (m - 1) + 1
    BY <2>3
  <2>5. Good(m - 1)
    <3>1. m - 1 \notin Bad
      BY <2>2, <2>4
    <3> QED  BY <2>4, <3>1
  <2>6. Good((m - 1) + 1)
    BY <1>5, <2>4, <2>5
  <2>7. Good(m)
    BY <2>4, <2>6
  <2> QED  BY <2>3, <2>7
<1>7. Good(d)
  <2>1. d \in n .. d
    BY <1>3
  <2> HIDE DEF Good
  <2> QED  BY <1>6, <2>1
<1> QED  BY <1>1, <1>3, <1>7

\* The paths of the specification are those of depth[src] edges.
LEMMA BestPathsAreWalks ==
    ASSUME NEW t, Entry(t), Stable(t), NEW src \in AS, t.best[src] # {}
    PROVE  \A p : p \in BestPaths(t, src) <=> Walk(t, src, t.depth[src], p)
<1>1. PICK d \in Nat : d = t.depth[src]
  BY DEF Entry
<1>2. ASSUME NEW p \in [1 .. d + 1 -> AS] PROVE Len(p) = d + 1
  OBVIOUS
<1>3. \A p : p \in BestPaths(t, src) <=>
              /\ p \in [1 .. d + 1 -> AS] /\ p[1] = src /\ p[d + 1] = t.dest
              /\ \A j \in 1 .. d : p[j + 1] \in t.best[p[j]]
  <2>1. d + 1 - 1 = d
    OBVIOUS
  <2> QED  BY <1>1, <1>2, <2>1 DEF BestPaths
<1>4. ASSUME NEW p, Walk(t, src, d, p) PROVE p \in BestPaths(t, src)
  <2>1. p \in [1 .. d + 1 -> AS] /\ d + 1 \in 1 .. d + 1
    BY <1>4 DEF Walk
  <2>2. t.best[p[d + 1]] # {} /\ t.depth[src] = t.depth[p[d + 1]] + (d + 1 - 1)
    BY <1>4, <2>1, WalkDepth
  <2>3. t.depth[p[d + 1]] \in Nat /\ p[d + 1] \in AS
    BY <2>1 DEF Entry
  <2>4. t.depth[p[d + 1]] = 0
    BY <1>1, <2>2, <2>3
  <2>5. p[d + 1] = t.dest
    BY <2>2, <2>3, <2>4, ArrivedAtZero
  <2> QED  BY <1>3, <1>4, <2>1, <2>5 DEF Walk
<1>5. ASSUME NEW p \in BestPaths(t, src) PROVE Walk(t, src, d, p)
  <2>1. /\ p \in [1 .. d + 1 -> AS] /\ p[1] = src /\ p[d + 1] = t.dest
        /\ \A j \in 1 .. d : p[j + 1] \in t.best[p[j]]
    BY <1>3
  <2> DEFINE At == {j \in 1 .. d + 1 : p[j] = t.dest}
  <2>2. At \in SUBSET Nat /\ d + 1 \in At
    BY <2>1
  <2>3. PICK i \in At : \A k \in At : i <= k
    BY <2>2, LeastOf
  <2>4. PICK n \in Nat : n = i - 1 /\ n + 1 = i /\ n <= d
    <3>1. i - 1 \in Nat /\ (i - 1) + 1 = i /\ i - 1 <= d
      BY <2>3
    <3> QED  BY <3>1
  <2>5. \A j \in 1 .. n : p[j] # t.dest
    BY <2>3, <2>4
  <2> DEFINE q == [j \in 1 .. n + 1 |-> p[j]]
  <2>6. q \in [1 .. n + 1 -> AS] /\ \A j \in 1 .. n + 1 : q[j] = p[j]
    BY <2>1, <2>4
  <2> HIDE DEF q
  <2>7. Walk(t, src, n, q)
    <3>1. \A j \in 1 .. n : q[j] # t.dest /\ q[j + 1] \in t.best[q[j]]
      <4> SUFFICES ASSUME NEW j \in 1 .. n
                   PROVE  q[j] # t.dest /\ q[j + 1] \in t.best[q[j]]
        OBVIOUS
      <4>1. q[j] = p[j] /\ q[j + 1] = p[j + 1] /\ j \in 1 .. d
        BY <2>4, <2>6
      <4> QED  BY <2>1, <2>5, <4>1
    <3>2. q[1] = src
      BY <2>1, <2>6
    <3> QED  BY <2>6, <3>1, <3>2 DEF Walk
  <2>8. n = d
    <3>1. n + 1 \in 1 .. n + 1 /\ q[n + 1] = t.dest /\ t.depth[t.dest] = 0
      BY <2>3, <2>4, <2>6 DEF Entry
    <3>2. d = t.depth[q[n + 1]] + (n + 1 - 1)
      BY <1>1, <2>7, <3>1, WalkDepth
    <3> QED  BY <3>1, <3>2
  <2> QED  BY <2>1, <2>5, <2>8 DEF Walk
<1> QED  BY <1>1, <1>4, <1>5

\* The ends of the paths by their number of edges: the recursion of Frontier.
LEMMA EndsStep ==
    ASSUME NEW t, Entry(t), NEW src \in AS
    PROVE  /\ Ends(t, src, 0) = {src}
           /\ \A n \in Nat : Ends(t, src, n + 1) =
                 UNION {t.best[x] : x \in Ends(t, src, n) \ {t.dest}}
<1>1. Ends(t, src, 0) = {src}
  <2>1. Walk(t, src, 0, <<src>>) /\ <<src>> \in [1 .. 0 + 1 -> AS]
    BY DEF Walk
  <2>2. src \in Ends(t, src, 0)
    BY <2>1 DEF Ends
  <2>3. \A y \in Ends(t, src, 0) : y = src
    BY DEF Ends, Walk
  <2> QED  BY <2>2, <2>3
<1>2. ASSUME NEW n \in Nat,
             NEW x \in Ends(t, src, n) \ {t.dest}, NEW y \in t.best[x]
      PROVE  y \in Ends(t, src, n + 1)
  <2>1. PICK p \in [1 .. n + 1 -> AS] : Walk(t, src, n, p) /\ p[n + 1] = x
    BY <1>2 DEF Ends
  <2>2. GoesOn(t, src, n, p, y)
    <3>1. p[n + 1] # t.dest /\ y \in t.best[p[n + 1]]
      BY <1>2, <2>1
    <3> QED  BY <2>1, <3>1, WalkMore
  <2>3. PICK q \in [1 .. n + 2 -> AS] : Walk(t, src, n + 1, q) /\ q[n + 2] = y
    BY <2>2 DEF GoesOn
  <2>4. n + 2 = n + 1 + 1 /\ n + 2 \in 1 .. n + 2
    OBVIOUS
  <2>5. y \in AS
    BY <2>3, <2>4
  <2> QED  BY <2>3, <2>4, <2>5 DEF Ends
<1>3. ASSUME NEW n \in Nat, NEW y \in Ends(t, src, n + 1)
      PROVE  \E x \in Ends(t, src, n) \ {t.dest} : y \in t.best[x]
  <2>1. PICK q \in [1 .. n + 1 + 1 -> AS] :
           Walk(t, src, n + 1, q) /\ q[n + 1 + 1] = y
    BY <1>3 DEF Ends
  <2>2. n \in 0 .. n + 1 /\ n + 1 \in Nat /\ n + 1 \in 1 .. n + 1
    OBVIOUS
  <2>3. PICK p \in [1 .. n + 1 -> AS] :
           Walk(t, src, n, p) /\ \A j \in 1 .. n + 1 : p[j] = q[j]
    BY <2>1, <2>2, WalkLess DEF StartsWith
  <2>4. p[n + 1] = q[n + 1] /\ p[n + 1] \in AS
    BY <2>2, <2>3
  <2>5. q[n + 1] # t.dest /\ q[n + 1 + 1] \in t.best[q[n + 1]]
    BY <2>1, <2>2 DEF Walk
  <2>6. p[n + 1] \in Ends(t, src, n)
    BY <2>3, <2>4 DEF Ends
  <2> QED  BY <2>1, <2>4, <2>5, <2>6
<1>4. ASSUME NEW n \in Nat
      PROVE  Ends(t, src, n + 1) =
                UNION {t.best[x] : x \in Ends(t, src, n) \ {t.dest}}
  BY <1>2, <1>3
<1> QED  BY <1>1, <1>4

\* One step of the recursion that defines Frontier.
FrontierStep(t, src, g) ==
    [n \in 0 .. MaxPath - 1 |->
        IF n = 0 THEN {src}
        ELSE UNION {t.best[x] : x \in g[n - 1] \ {t.dest}}]

\* The n-th turn of GetAllBestPaths holds the ends of the paths of n edges.
LEMMA FrontierEnds ==
    ASSUME NEW t, Entry(t), NEW src \in AS
    PROVE  /\ DOMAIN Frontier(t, src) = 0 .. MaxPath - 1
           /\ \A n \in 0 .. MaxPath - 1 : Frontier(t, src)[n] = Ends(t, src, n)
<1> DEFINE G == [n \in 0 .. MaxPath - 1 |-> Ends(t, src, n)]
<1>1. MaxPath \in Nat \ {0}
  BY RoutingAssumption
<1>2. ASSUME NEW n \in 0 .. MaxPath - 1, n # 0
      PROVE  /\ n - 1 \in 0 .. MaxPath - 1
             /\ Ends(t, src, n) =
                   UNION {t.best[x] : x \in Ends(t, src, n - 1) \ {t.dest}}
  <2>1. n - 1 \in Nat /\ (n - 1) + 1 = n /\ n - 1 \in 0 .. MaxPath - 1
    BY <1>1, <1>2
  <2>2. Ends(t, src, (n - 1) + 1) =
           UNION {t.best[x] : x \in Ends(t, src, n - 1) \ {t.dest}}
    BY <2>1, EndsStep
  <2> QED  BY <2>1, <2>2
<1>3. G = FrontierStep(t, src, G)
  <2>1. ASSUME NEW n \in 0 .. MaxPath - 1
        PROVE  G[n] = FrontierStep(t, src, G)[n]
    <3>1. CASE n = 0
      BY <1>1, <3>1, EndsStep DEF FrontierStep
    <3>2. CASE n # 0
      <4>1. G[n - 1] = Ends(t, src, n - 1)
        BY <1>2, <3>2
      <4>2. G[n] = UNION {t.best[x] : x \in G[n - 1] \ {t.dest}}
        BY <1>2, <3>2, <4>1
      <4> HIDE DEF G
      <4> QED  BY <3>2, <4>2 DEF FrontierStep
    <3> QED  BY <3>1, <3>2
  <2>2. DOMAIN G = 0 .. MaxPath - 1 /\ G = [n \in DOMAIN G |-> G[n]]
    OBVIOUS
  <2> HIDE DEF G
  <2>3. FrontierStep(t, src, G) =
           [n \in 0 .. MaxPath - 1 |-> FrontierStep(t, src, G)[n]]
    BY DEF FrontierStep
  <2> QED  BY <2>1, <2>2, <2>3
<1>4. PICK f : f = Frontier(t, src) /\ f = FrontierStep(t, src, f)
  <2>1. Frontier(t, src) = CHOOSE g : g = FrontierStep(t, src, g)
    BY DEF Frontier, FrontierStep
  <2>2. PICK f : f = Frontier(t, src)
    OBVIOUS
  <2> HIDE DEF G
  <2>3. f = FrontierStep(t, src, f)
    BY <1>3, <2>1, <2>2
  <2> QED  BY <2>2, <2>3
<1>5. DOMAIN f = 0 .. MaxPath - 1
  BY <1>4 DEF FrontierStep
<1>6. f[0] = {src}
  BY <1>1, <1>4 DEF FrontierStep
<1>7. \A n \in 0 .. MaxPath - 1 : n # 0 =>
         f[n] = UNION {t.best[x] : x \in f[n - 1] \ {t.dest}}
  BY <1>4 DEF FrontierStep
<1> DEFINE Bad == {n \in 0 .. MaxPath - 1 : f[n] # Ends(t, src, n)}
<1>8. Bad = {}
  <2> SUFFICES ASSUME Bad # {} PROVE FALSE
    OBVIOUS
  <2>1. Bad \in SUBSET Nat
    OBVIOUS
  <2>2. PICK n \in Bad : \A k \in Bad : n <= k
    BY <2>1, LeastOf
  <2>3. n \in 0 .. MaxPath - 1 /\ f[n] # Ends(t, src, n)
    BY <2>2
  <2>4. n # 0
    BY <1>6, <2>3, EndsStep
  <2>5. n - 1 \in 0 .. MaxPath - 1
    BY <1>2, <2>3, <2>4
  <2>6. f[n - 1] = Ends(t, src, n - 1)
    <3>1. ~(n <= n - 1)
      BY <2>3
    <3> QED  BY <2>2, <2>5, <3>1
  <2> QED  BY <1>2, <1>7, <2>3, <2>4, <2>6
<1> QED  BY <1>4, <1>5, <1>8

\* A path that arrives has no loop.
LEMMA WalkInjective ==
    ASSUME NEW t, Entry(t), Stable(t), NEW src \in AS, t.best[src] # {},
           NEW n \in Nat, NEW p, Walk(t, src, n, p)
    PROVE  IsInjective(p)
<1>1. p \in [1 .. n + 1 -> AS]
  BY DEF Walk
<1>2. ASSUME NEW a \in 1 .. n + 1, NEW b \in 1 .. n + 1, p[a] = p[b]
      PROVE  a = b
  <2>1. /\ t.depth[src] = t.depth[p[a]] + (a - 1)
        /\ t.depth[src] = t.depth[p[b]] + (b - 1)
    BY WalkDepth
  <2>2. t.depth[p[a]] \in Nat
    BY <1>1 DEF Entry
  <2> QED  BY <1>2, <2>1, <2>2
<1>3. DOMAIN p = 1 .. n + 1
  BY <1>1
<1> QED  BY <1>2, <1>3 DEF IsInjective

\* A next hop that the AS peers with, or that is its customer, has a customer
\* route; and who has a customer route has it from a customer or a sibling.
LEMMA NoTransit ==
    ASSUME IsGraph(rel), NEW t, Entry(t), Stable(t), NEW x \in AS \ {t.dest},
           NEW y \in t.best[x]
    PROVE  /\ rel[x][y] \in {PeerOf, ProviderTo} => t.column[y] = "customer"
           /\ t.column[x] = "customer" => /\ t.column[y] = "customer"
                                          /\ rel[x][y] \in {ProviderTo, SiblingOf}
<1>1. /\ y \in AS /\ t.column[x] = OfferedClass(t, x, y)
      /\ OfferedClass(t, x, y) # NoColumn
  BY NextHop
<1>2. PICK r \in {CustomerOf, PeerOf, ProviderTo, SiblingOf, NoEdge} :
         r = rel[y][x]
  BY <1>1 DEF IsGraph
<1>3. rel[x][y] = Opposite(r)
  BY <1>1, <1>2 DEF IsGraph
<1>4. PICK c : c = t.column[y]
  OBVIOUS
<1>5. PICK o : o = OfferedClass(t, x, y)
  OBVIOUS
<1>6. /\ r = CustomerOf => o = IF c = "customer" THEN "customer" ELSE NoColumn
      /\ r = PeerOf => o = IF c = "customer" THEN "peer" ELSE NoColumn
      /\ r = ProviderTo => o = "provider"
      /\ r = SiblingOf => o = IF c = "customer" THEN "customer" ELSE "provider"
      /\ r = NoEdge => o = NoColumn
  BY <1>2, <1>4, <1>5
     DEF OfferedClass, CustomerOf, PeerOf, ProviderTo, SiblingOf, NoEdge, NoColumn
<1>7. o # NoColumn /\ t.column[x] = o
  BY <1>1, <1>5
<1>8. ASSUME Opposite(r) \in {PeerOf, ProviderTo} PROVE c = "customer"
  <2>1. r = PeerOf \/ r = CustomerOf
    BY <1>8
       DEF Opposite, CustomerOf, PeerOf, ProviderTo, SiblingOf, NoEdge
  <2> QED  BY <1>6, <1>7, <2>1
<1>9. ASSUME o = "customer"
      PROVE  c = "customer" /\ Opposite(r) \in {ProviderTo, SiblingOf}
  <2>1. c = "customer" /\ (r = CustomerOf \/ r = SiblingOf)
    BY <1>6, <1>7, <1>9 DEF NoColumn
  <2>2. Opposite(CustomerOf) = ProviderTo /\ Opposite(SiblingOf) = SiblingOf
    BY DEF Opposite, CustomerOf, PeerOf, ProviderTo, SiblingOf, NoEdge
  <2> QED  BY <2>1, <2>2
<1> QED  BY <1>3, <1>4, <1>7, <1>8, <1>9

\* A path is valley free.
LEMMA WalkValleyFree ==
    ASSUME IsGraph(rel), NEW t, Entry(t), Stable(t), NEW src \in AS,
           NEW n \in Nat, NEW p, Walk(t, src, n, p)
    PROVE  ValleyFree(p)
<1>1. p \in [1 .. n + 1 -> AS]
  BY DEF Walk
<1>2. Len(p) = n + 1
  BY <1>1
<1>3. \A j \in 1 .. n : p[j] \in AS \ {t.dest} /\ p[j + 1] \in t.best[p[j]]
  BY <1>1 DEF Walk
<1>4. ASSUME NEW j \in 1 .. n, rel[p[j]][p[j + 1]] \in {PeerOf, ProviderTo}
      PROVE  \A k \in j + 1 .. n + 1 : t.column[p[k]] = "customer"
  <2> DEFINE Bad == {k \in j + 1 .. n + 1 : t.column[p[k]] # "customer"}
  <2> SUFFICES ASSUME Bad # {} PROVE FALSE
    OBVIOUS
  <2>1. Bad \in SUBSET Nat
    OBVIOUS
  <2>2. PICK k \in Bad : \A i \in Bad : k <= i
    BY <2>1, LeastOf
  <2>3. t.column[p[j + 1]] = "customer"
    BY <1>3, <1>4, NoTransit
  <2>4. k \in j + 1 .. n + 1 /\ k # j + 1 /\ t.column[p[k]] # "customer"
    BY <2>2, <2>3
  <2>5. k - 1 \in j + 1 .. n + 1 /\ k - 1 \in 1 .. n /\ (k - 1) + 1 = k
        /\ ~(k <= k - 1)
    BY <2>4
  <2>6. t.column[p[k - 1]] = "customer"
    BY <2>2, <2>5
  <2>7. p[k - 1] \in AS \ {t.dest} /\ p[k] \in t.best[p[k - 1]]
    <3>1. p[k - 1] \in AS \ {t.dest} /\ p[(k - 1) + 1] \in t.best[p[k - 1]]
      BY <1>3, <2>5
    <3> QED  BY <2>5, <3>1
  <2> QED  BY <2>4, <2>6, <2>7, NoTransit
<1>5. ASSUME NEW j \in 1 .. n, NEW k \in 1 .. n, j < k,
             rel[p[j]][p[j + 1]] \in {PeerOf, ProviderTo}
      PROVE  rel[p[k]][p[k + 1]] \in {ProviderTo, SiblingOf}
  <2>1. k \in j + 1 .. n + 1
    BY <1>5
  <2>2. t.column[p[k]] = "customer"
    BY <1>4, <1>5, <2>1
  <2> QED  BY <1>3, <2>2, NoTransit
<1>6. Len(p) - 1 = n
  BY <1>2
<1> QED  BY <1>5, <1>6 DEF ValleyFree

\* For one entry of the table and one source, AnswersExact.
ExactFor(t, src) ==
    LET paths == IF t.best[src] = {} THEN {} ELSE BestPaths(t, src)
    IN  /\ \A p \in paths : ValleyFree(p) /\ IsInjective(p)
        /\ Answer(t, src) =
             IF t.best[src] # {} /\ t.depth[src] >= MaxPath THEN {}
             ELSE UNION {Range(p) : p \in paths}

\* The ASes on the paths are the ends of shorter ones, and these lie on paths.
LEMMA OnBestPaths ==
    ASSUME NEW t, Entry(t), Stable(t), NEW src \in AS, t.best[src] # {}
    PROVE  /\ \A n \in Nat : t.dest \in Ends(t, src, n) <=> n = t.depth[src]
           /\ \A n \in Nat : n > t.depth[src] => Ends(t, src, n) = {}
           /\ UNION {Range(p) : p \in BestPaths(t, src)} =
                 UNION {Ends(t, src, n) : n \in 0 .. t.depth[src]}
<1>1. PICK d \in Nat : d = t.depth[src]
  BY DEF Entry
<1>2. \A p : p \in BestPaths(t, src) <=> Walk(t, src, d, p)
  BY <1>1, BestPathsAreWalks
<1>3. ASSUME NEW n \in Nat, NEW y \in Ends(t, src, n)
      PROVE  /\ n <= d /\ y \in AS /\ t.best[y] # {}
             /\ t.depth[y] \in Nat /\ d = t.depth[y] + n
             /\ \E q \in BestPaths(t, src) : y \in Range(q)
  <2>1. PICK p \in [1 .. n + 1 -> AS] : Walk(t, src, n, p) /\ p[n + 1] = y
    BY <1>3 DEF Ends
  <2>2. n + 1 \in 1 .. n + 1 /\ n + 1 - 1 = n
    OBVIOUS
  <2>3. t.best[y] # {} /\ d = t.depth[y] + n
    BY <1>1, <2>1, <2>2, WalkDepth
  <2>4. n <= d /\ \E q \in [1 .. d + 1 -> AS] :
                     Walk(t, src, d, q) /\ q[n + 1] = y
    BY <1>1, <2>1, WalkArrives
  <2>5. PICK q \in [1 .. d + 1 -> AS] : Walk(t, src, d, q) /\ q[n + 1] = y
    BY <2>4
  <2>6. y \in Range(q)
    <3>1. n + 1 \in DOMAIN q
      BY <2>4
    <3> QED  BY <2>5, <3>1 DEF Range
  <2>7. y \in AS /\ t.depth[y] \in Nat
    BY <2>1, <2>2 DEF Entry
  <2> QED  BY <1>2, <2>3, <2>4, <2>5, <2>6, <2>7
<1>4. ASSUME NEW p \in BestPaths(t, src), NEW y \in Range(p)
      PROVE  \E n \in 0 .. d : y \in Ends(t, src, n)
  <2>1. Walk(t, src, d, p)
    BY <1>2
  <2>2. p \in [1 .. d + 1 -> AS]
    BY <2>1 DEF Walk
  <2>3. PICK j \in 1 .. d + 1 : y = p[j]
    BY <2>2 DEF Range
  <2>4. PICK n \in 0 .. d : n + 1 = j
    <3>1. j - 1 \in 0 .. d /\ (j - 1) + 1 = j
      BY <2>3
    <3> QED  BY <3>1
  <2>5. PICK q \in [1 .. n + 1 -> AS] :
           Walk(t, src, n, q) /\ \A i \in 1 .. n + 1 : q[i] = p[i]
    <3>1. StartsWith(t, src, n, p)
      BY <2>1, WalkLess
    <3> QED  BY <3>1 DEF StartsWith
  <2>6. q[n + 1] = y /\ y \in AS
    BY <2>2, <2>3, <2>4, <2>5
  <2> QED  BY <2>5, <2>6 DEF Ends
<1>5. UNION {Range(p) : p \in BestPaths(t, src)} =
         UNION {Ends(t, src, n) : n \in 0 .. d}
  BY <1>3, <1>4
<1>6. ASSUME NEW n \in Nat PROVE t.dest \in Ends(t, src, n) <=> n = d
  <2>1. ASSUME t.dest \in Ends(t, src, n) PROVE n = d
    <3>1. d = t.depth[t.dest] + n
      BY <1>3, <2>1
    <3> QED  BY <3>1 DEF Entry
  <2>2. ASSUME n = d PROVE t.dest \in Ends(t, src, n)
    <3>1. src \in Ends(t, src, 0)
      BY EndsStep
    <3>2. PICK q \in BestPaths(t, src) : src \in Range(q)
      BY <1>3, <3>1
    <3>3. Walk(t, src, d, q)
      BY <1>2
    <3>4. q \in [1 .. d + 1 -> AS] /\ d + 1 \in 1 .. d + 1 /\ d + 1 - 1 = d
      BY <3>3 DEF Walk
    <3>5. q[d + 1] \in Ends(t, src, d)
      BY <3>3, <3>4 DEF Ends
    <3>6. q[d + 1] \in AS /\ t.best[q[d + 1]] # {} /\ t.depth[q[d + 1]] = 0
      BY <1>3, <3>5
    <3>7. q[d + 1] = t.dest
      BY <3>6, ArrivedAtZero
    <3> QED  BY <2>2, <3>5, <3>7
  <2> QED  BY <2>1, <2>2
<1>7. ASSUME NEW n \in Nat, n > d PROVE Ends(t, src, n) = {}
  BY <1>3, <1>7
<1> QED  BY <1>1, <1>5, <1>6, <1>7

\* The answer is exact for every entry that is stable.
LEMMA StableIsExact ==
    ASSUME IsGraph(rel), NEW t, Entry(t), Stable(t), NEW src \in AS
    PROVE  ExactFor(t, src)
<1> DEFINE f == Frontier(t, src)
<1>1. DOMAIN f = 0 .. MaxPath - 1 /\ \A n \in 0 .. MaxPath - 1 : f[n] = Ends(t, src, n)
  BY FrontierEnds
<1>2. Answer(t, src) = IF t.best[src] # {} /\ \E n \in DOMAIN f : t.dest \in f[n]
                       THEN UNION {f[n] : n \in DOMAIN f}
                       ELSE {}
  BY DEF Answer
<1> HIDE DEF f
<1>3. CASE t.best[src] = {}
  <2>1. Answer(t, src) = {}
    BY <1>2, <1>3
  <2> QED  BY <1>3, <2>1 DEF ExactFor
<1>4. CASE t.best[src] # {}
  <2>1. PICK d \in Nat : d = t.depth[src]
    BY DEF Entry
  <2>2. MaxPath \in Nat \ {0}
    BY RoutingAssumption
  <2>3. /\ \A n \in Nat : t.dest \in Ends(t, src, n) <=> n = d
        /\ \A n \in Nat : n > d => Ends(t, src, n) = {}
        /\ UNION {Range(p) : p \in BestPaths(t, src)} =
              UNION {Ends(t, src, n) : n \in 0 .. d}
    BY <1>4, <2>1, OnBestPaths
  <2>4. \A p \in BestPaths(t, src) : ValleyFree(p) /\ IsInjective(p)
    <3> SUFFICES ASSUME NEW p \in BestPaths(t, src)
                 PROVE  ValleyFree(p) /\ IsInjective(p)
      OBVIOUS
    <3>1. Walk(t, src, d, p)
      BY <1>4, <2>1, BestPathsAreWalks
    <3> QED  BY <1>4, <3>1, WalkValleyFree, WalkInjective
  <2>5. CASE d >= MaxPath
    <3>1. \A n \in DOMAIN f : t.dest \notin f[n]
      <4> SUFFICES ASSUME NEW n \in 0 .. MaxPath - 1 PROVE t.dest \notin f[n]
        BY <1>1
      <4>1. n \in Nat /\ n # d
        BY <2>2, <2>5
      <4> QED  BY <1>1, <2>3, <4>1
    <3>2. Answer(t, src) = {}
      BY <1>2, <3>1
    <3> QED  BY <1>4, <2>1, <2>4, <2>5, <3>2 DEF ExactFor
  <2>6. CASE d < MaxPath
    <3>1. d \in DOMAIN f /\ t.dest \in f[d] /\ ~(d >= MaxPath)
      BY <1>1, <2>2, <2>3, <2>6
    <3>2. Answer(t, src) = UNION {f[n] : n \in DOMAIN f}
      BY <1>2, <1>4, <3>1
    <3>3. \A y : (\E n \in DOMAIN f : y \in f[n])
                   <=> (\E n \in 0 .. d : y \in Ends(t, src, n))
      <4>1. ASSUME NEW y, NEW n \in DOMAIN f, y \in f[n]
            PROVE  n \in 0 .. d /\ y \in Ends(t, src, n)
        <5>1. n \in Nat /\ y \in Ends(t, src, n)
          BY <1>1, <4>1
        <5>2. ~(n > d)
          BY <2>3, <5>1
        <5> QED  BY <5>1, <5>2
      <4>2. ASSUME NEW y, NEW n \in 0 .. d, y \in Ends(t, src, n)
            PROVE  n \in DOMAIN f /\ y \in f[n]
        <5>1. n \in 0 .. MaxPath - 1
          BY <2>2, <2>6
        <5> QED  BY <1>1, <4>2, <5>1
      <4> QED  BY <4>1, <4>2
    <3>4. UNION {f[n] : n \in DOMAIN f} = UNION {Ends(t, src, n) : n \in 0 .. d}
      BY <3>3
    <3> QED  BY <1>4, <2>1, <2>3, <2>4, <3>1, <3>2, <3>4 DEF ExactFor
  <2> QED  BY <2>1, <2>2, <2>5, <2>6
<1> QED  BY <1>3, <1>4

-----------------------------------------------------------------------------
(* The entries of the table *)

\* The destination in work is its own next hop, and counts as a customer route.
RootOK == best[Root] = {Root} /\ column[Root] = "customer"

\* RouteInv, and what AnswersExact needs of a destination.
AnswerInv ==
    /\ RouteInv
    /\ stage > 0 => RootOK
    /\ \A i \in 1 .. Len(table) : Entry(table[i])

\* A turn of the queue leaves the root alone.
LEMMA VisitKeepsRoot ==
    ASSUME RouteInv, RootOK, Visit
    PROVE  RootOK' /\ UNCHANGED table
<1>1. PICK cur \in AS, fresh \in SUBSET AS, old \in SUBSET AS,
           ties \in SUBSET AS, won \in SUBSET AS :
               Turn(cur, fresh, old, ties, won) /\ Queued(cur, fresh, old)
  BY VisitIsTurn
<1>2. RouteTypeOK /\ SearchInv
  <2>1. stage > 0
    BY Zenon DEF Visit
  <2> QED  BY <2>1 DEF RouteInv
<1>3. TurnFacts(cur, fresh, old, ties)
  BY <1>1, <1>2, TurnBasics
<1>4. Root' = Root /\ Root \in AS /\ Root \notin fresh /\ Root \notin ties
  BY <1>3 DEF TurnFacts
<1>5. best'[Root] = best[Root] /\ column'[Root] = column[Root] /\ UNCHANGED table
  BY <1>1, <1>4 DEF Turn
<1> QED  BY <1>4, <1>5 DEF RootOK

\* Every step keeps AnswerInv.
LEMMA AnswerStep ==
    ASSUME AnswerInv, [RouteNext]_routeVars
    PROVE  AnswerInv'
<1>1. RouteInv /\ RouteInv' /\ RouteTypeOK
  BY RouteStep DEF AnswerInv, RouteInv
<1> DEFINE Entries == \A i \in 1 .. Len(table) : Entry(table[i])
<1>2. Entries /\ (stage > 0 => RootOK)
  BY DEF AnswerInv
<1>3. ASSUME UNCHANGED table PROVE Entries'
  BY <1>2, <1>3 DEF Entry
<1>4. CASE StartDestination
  <2>1. /\ next <= Len(DestSeq) /\ UNCHANGED <<next, table>>
        /\ best' = [x \in AS |-> IF x = Root THEN {x} ELSE {}]
        /\ column' = [x \in AS |-> IF x = Root THEN Column[1] ELSE NoColumn]
    BY <1>4 DEF StartDestination
  <2>2. Root' = Root /\ Root \in AS
    BY <1>1, <2>1, RoutingAssumption DEF Root, RouteTypeOK
  <2>3. RootOK'
    BY <2>1, <2>2 DEF RootOK, Column
  <2> QED  BY <1>1, <1>3, <2>1, <2>3 DEF AnswerInv
<1>5. CASE Visit
  <2>1. stage > 0
    BY <1>5, Zenon DEF Visit
  <2>2. RootOK' /\ UNCHANGED table
    BY <1>1, <1>2, <1>5, <2>1, VisitKeepsRoot
  <2> QED  BY <1>1, <1>3, <2>2 DEF AnswerInv
<1>6. CASE NextSearch
  <2>1. stage > 0 /\ UNCHANGED <<next, best, column, table>>
    BY <1>6 DEF NextSearch
  <2>2. RootOK'
    BY <1>2, <2>1 DEF RootOK, Root
  <2> QED  BY <1>1, <1>3, <2>1, <2>2 DEF AnswerInv
<1>7. CASE FinishDestination
  <2>1. stage > 0 /\ stage' = 0
    BY <1>7 DEF FinishDestination
  <2>2. CASE Collision
    <3>1. UNCHANGED table
      BY <1>7, <2>2 DEF FinishDestination
    <3> QED  BY <1>1, <1>3, <2>1, <3>1 DEF AnswerInv
  <2>3. CASE ~Collision
    <3> DEFINE t == [dest |-> Root, best |-> best, depth |-> depth,
                     column |-> column,
                     chosen |-> [x \in {y \in AS : best[y] # {}} |->
                                   ChosenParent(x)]]
    <3>1. table' = Append(table, t)
      BY <1>7, <2>3 DEF FinishDestination
    <3>2. /\ t.dest = Root /\ t.best = best /\ t.depth = depth
          /\ t.column = column
      OBVIOUS
    <3> HIDE DEF t
    <3>3. RootOK /\ depth[Root] = 0 /\ Root \in AS
          /\ best \in [AS -> SUBSET AS] /\ depth \in [AS -> Nat]
      BY <1>1, <1>2, <2>1 DEF RouteInv, SearchInv, LevelsOK, RouteTypeOK
    <3>4. Entry(t)
      BY <3>2, <3>3 DEF Entry, RootOK
    <3> DEFINE S == {table[i] : i \in 1 .. Len(table)} \cup {t}
    <3>5. table \in Seq(S)
      BY <1>1, SeqMonotonic DEF RouteInv, TableSeq
    <3>6. t \in S
      OBVIOUS
    <3> HIDE DEF S
    <3>7. /\ Len(table') = Len(table) + 1 /\ Len(table) \in Nat
          /\ \A i \in 1 .. Len(table) : table'[i] = table[i]
          /\ table'[Len(table) + 1] = t
      BY <3>1, <3>5, <3>6, AppendProperties
    <3>8. ASSUME NEW i \in 1 .. Len(table') PROVE Entry(table'[i])
      <4>1. CASE i \in 1 .. Len(table)
        BY <1>2, <3>7, <4>1
      <4>2. CASE i = Len(table) + 1
        BY <3>4, <3>7, <4>2
      <4> QED  BY <3>7, <4>1, <4>2
    <3>9. Entries'
      BY <3>8 DEF Entry
    <3> QED  BY <1>1, <2>1, <3>9 DEF AnswerInv
  <2> QED  BY <2>2, <2>3
<1>8. CASE UNCHANGED routeVars
  <2>1. UNCHANGED <<next, stage, best, column, table>>
    BY <1>8 DEF routeVars, search
  <2>2. stage' > 0 => RootOK'
    BY <1>2, <2>1 DEF RootOK, Root
  <2> QED  BY <1>1, <1>3, <2>1, <2>2 DEF AnswerInv
<1> QED  BY <1>4, <1>5, <1>6, <1>7, <1>8 DEF RouteNext

\* For every graph of ASes and every source, the answer of GetAllBestPaths
\* names exactly the ASes on the best paths, all valley free and without
\* loops, and is empty exactly for an AS without a route or too far away.
THEOREM AnswersAlwaysExact == RouteSpec => []AnswersExact
<1>1. RouteInit => AnswerInv
  <2> SUFFICES ASSUME RouteInit PROVE AnswerInv
    OBVIOUS
  <2>1. Len(table) = 0 /\ stage = 0
    BY DEF RouteInit
  <2> QED  BY <2>1, RouteInitInv DEF AnswerInv
<1>2. AnswerInv /\ [RouteNext]_routeVars => AnswerInv'
  BY AnswerStep
<1>3. AnswerInv => AnswersExact
  <2> SUFFICES ASSUME AnswerInv, NEW i \in 1 .. Len(table), NEW src \in AS
               PROVE  ExactFor(table[i], src)
    BY DEF AnswersExact, ExactFor
  <2>1. IsGraph(rel)
    BY RoutingAssumption DEF AnswerInv, RouteInv, RouteTypeOK
  <2>2. Entry(table[i]) /\ Stable(table[i])
    BY DEF AnswerInv, RouteInv, RoutesStable
  <2> QED  BY <2>1, <2>2, StableIsExact
<1> QED  BY <1>1, <1>2, <1>3, PTL DEF RouteSpec

=============================================================================
