-------------------------------- MODULE Query --------------------------------
(***************************************************************************)
(* The graph queries of query.py: which assets can be reached from one, at *)
(* what depth, and the path between two.  Both are breadth-first searches  *)
(* over one snapshot of the registry; a step here is a turn of their loop. *)
(*                                                                         *)
(* Ids of assets are numbers, of which it matters that they are ordered.   *)
(***************************************************************************)
EXTENDS Integers, Sequences, FiniteSets, SequencesExt

CONSTANTS
  Assets,      \* ids of assets
  Types,       \* types of relations
  Filters,     \* the sets of types that are asked for
  Depths,      \* the depths that are asked for, None for any
  MaxRelations,
  None

QueryAssumption ==
  /\ Assets \subseteq Nat /\ IsFiniteSet(Assets)
  /\ Depths \subseteq Nat \cup {None} /\ None \notin Nat /\ (\A a \in Assets : <<a>> # None)
  /\ MaxRelations \in Nat

VARIABLES
  relations,   \* of the registry
  query,       \* the request
  visited,
  queue,       \* what was found and not yet left: assets with depths, or paths
  hits,        \* of a traversal
  answer       \* None until the search ends

vars == <<relations, query, visited, queue, hits, answer>>

Relation == { r \in [source : Assets, type : Types, target : Assets] : r.source # r.target }

Directions == {"outgoing", "incoming", "any"}

Traversal == [kind : {"traverse"}, from : Assets, direction : Directions, types : Filters, depth : Depths]
PathQuery == [kind : {"path"}, from : Assets, to : Assets, direction : Directions, types : Filters]

-----------------------------------------------------------------------------
(***************************************************************************)
(* The graph that is searched.                                             *)
(***************************************************************************)

\* No types at all means every type.
Wanted == { r \in relations : query.types = {} \/ r.type \in query.types }

Adjacent(a) ==
  (IF query.direction \in {"outgoing", "any"}
   THEN { r.target : r \in { w \in Wanted : w.source = a } } ELSE {})
    \cup
  (IF query.direction \in {"incoming", "any"}
   THEN { r.source : r \in { w \in Wanted : w.target = a } } ELSE {})

InOrder(S) ==
  CHOOSE s \in [1..Cardinality(S) -> S] : \A i, j \in DOMAIN s : i < j => s[i] < s[j]

-----------------------------------------------------------------------------
(***************************************************************************)
(* traverse                                                                *)
(***************************************************************************)

TooDeep(depth) == query.depth # None /\ depth >= query.depth

ByDepthThenId(h, g) == h.depth < g.depth \/ (h.depth = g.depth /\ h.asset < g.asset)

\* A turn of the loop of traverse.
Visit ==
  /\ query.kind = "traverse" /\ answer = None /\ queue # <<>>
  /\ LET current == Head(queue)
         new     == IF TooDeep(current.depth) THEN {} ELSE Adjacent(current.asset) \ visited
         found   == [i \in 1..Cardinality(new) |->
                       [asset |-> InOrder(new)[i], depth |-> current.depth + 1]]
     IN  /\ visited' = visited \cup new
         /\ hits' = hits \o found
         /\ queue' = Tail(queue) \o found
  /\ UNCHANGED <<relations, query, answer>>

Reordered(s) ==
  { [i \in DOMAIN s |-> s[p[i]]] : p \in { q \in [DOMAIN s -> DOMAIN s] : IsInjective(q) } }

ReportHits ==
  /\ query.kind = "traverse" /\ answer = None /\ queue = <<>>
  /\ answer' = CHOOSE s \in Reordered(hits) :
                 \A i, j \in DOMAIN s : i < j => ~ ByDepthThenId(s[j], s[i])
  /\ UNCHANGED <<relations, query, visited, queue, hits>>

-----------------------------------------------------------------------------
(***************************************************************************)
(* find_path                                                               *)
(***************************************************************************)

\* A turn of the loop of find_path.
Extend ==
  /\ query.kind = "path" /\ answer = None /\ queue # <<>>
  /\ LET path == Head(queue)
         next == Adjacent(Last(path))
         new  == next \ visited
     IN  IF query.to \in next
         THEN /\ answer' = Append(path, query.to)
              /\ UNCHANGED <<visited, queue>>
         ELSE /\ visited' = visited \cup new
              /\ queue' = Tail(queue) \o [i \in 1..Cardinality(new) |-> Append(path, InOrder(new)[i])]
              /\ UNCHANGED answer
  /\ UNCHANGED <<relations, query, hits>>

\* An empty path stands for the answer that there is none.
NoPath ==
  /\ query.kind = "path" /\ answer = None /\ queue = <<>>
  /\ answer' = <<>>
  /\ UNCHANGED <<relations, query, visited, queue, hits>>

-----------------------------------------------------------------------------
Init ==
  /\ relations \in SUBSET Relation /\ Cardinality(relations) <= MaxRelations
  /\ query \in Traversal \cup PathQuery
  /\ visited = {query.from}
  /\ hits = <<>>
  /\ \/ /\ query.kind = "traverse"
        /\ queue = <<[asset |-> query.from, depth |-> 0]>> /\ answer = None
     \/ /\ query.kind = "path" /\ query.from # query.to
        /\ queue = <<<<query.from>>>> /\ answer = None
     \/ /\ query.kind = "path" /\ query.from = query.to
        /\ queue = <<>> /\ answer = <<query.from>>

Next == Visit \/ ReportHits \/ Extend \/ NoPath

Spec == Init /\ [][Next]_vars

-----------------------------------------------------------------------------
(***************************************************************************)
(* What an answer means, without a search.                                 *)
(***************************************************************************)

Leads(a, b) ==
  \E r \in relations : /\ query.types # {} => r.type \in query.types
                       /\ \/ query.direction # "incoming" /\ a = r.source /\ b = r.target
                          \/ query.direction # "outgoing" /\ a = r.target /\ b = r.source

IsPath(p) == \A i \in 1..Len(p) - 1 : Leads(p[i], p[i + 1])

SimplePaths == { p \in SeqOf(Assets, Cardinality(Assets)) : p # <<>> /\ IsInjective(p) }

\* The simple paths that lead from where the query starts to b.
PathsTo(b) == { p \in SimplePaths : p[1] = query.from /\ Last(p) = b /\ IsPath(p) }

Shortest(P) == { p \in P : \A q \in P : Len(p) <= Len(q) }

\* The order of words, of equal length.
Before(p, q) == \E i \in 1..Len(p) : p[i] < q[i] /\ \A j \in 1..i - 1 : p[j] = q[j]

TypeOK ==
  /\ relations \subseteq Relation /\ visited \subseteq Assets
  /\ Len(queue) <= Cardinality(Assets) /\ Len(hits) < Cardinality(Assets)

\* A traversal reports exactly the assets that can be reached within the depth
\* asked for, but the first, each once and at the length of its shortest path,
\* ordered by depth and id (query.py:185).
HitsAreDistances ==
  query.kind = "traverse" /\ answer # None =>
    /\ \A b \in Assets : \A d \in 0..Cardinality(Assets) :
         [asset |-> b, depth |-> d] \in ToSet(answer) <=>
           /\ d > 0 /\ (query.depth # None => d <= query.depth)
           /\ \E p \in Shortest(PathsTo(b)) : Len(p) = d + 1
    /\ \A i \in 1..Len(answer) - 1 : ByDepthThenId(answer[i], answer[i + 1])

\* The path that is reported is the first, in the order of words, of the
\* shortest ones, and none is reported only if there is none (query.py:232).
PathIsFirst ==
  query.kind = "path" /\ answer # None =>
    /\ answer \in PathsTo(query.to) \cup {<<>>}
    /\ \A q \in PathsTo(query.to) \ {answer} :
         answer # <<>> /\ (Len(answer) < Len(q) \/ (Len(answer) = Len(q) /\ Before(answer, q)))

=============================================================================
