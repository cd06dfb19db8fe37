------------------------------- MODULE Router -------------------------------
(***************************************************************************)
(* The routing table of an engine: Router's trie as registerRoute and      *)
(* unregisterRoute (an isolate's calls, before start() and, on a reload of *)
(* the routes, while the loops serve) make it, and match() and             *)
(* allowedMethods() as the event loops read it, without a lock.            *)
(*                                                                         *)
(* A pattern or a path is the sequence of the pieces between its slashes.  *)
(* A node of the trie is named by the edges that lead to it: a static      *)
(* segment, ":" for a parameter, "*" for a wildcard.                       *)
(***************************************************************************)
EXTENDS Naturals, Sequences, SequencesExt, FiniteSets

CONSTANTS Routes,     \* what is registered: [method, pattern: [rooted, pieces]]
          Paths,      \* paths requested: sequences of pieces
          Requests,   \* <<method, path>> the loops serve
          Params,     \* pieces ":name"
          Standard,   \* request methods with an enum value, GET and HEAD among them
          Customs,    \* other method tokens
          Loops,      \* event loops
          MaxChanges, \* registrations and removals in a behaviour
          NoRoute     \* no entry

All == "ALL"
Methods == Standard \cup Customs \cup {All}

VARIABLES
  nodes,      \* the nodes reachable from root_
  paramName,  \* paramName[n]: the name node n captures under, if n has a param child
  entries,    \* entries[<<n, key>>]: the RouteEntry that ends at n for a method
  size,       \* size_
  serving,    \* serving[l]: what loop l has matched: [key, entry], or NoRoute
  changes,    \* registrations and removals so far
  named,      \* history: <<node, name>> of every pattern ever added
  stale       \* a loop used a route that was removed or replaced under it

routerVars == <<nodes, paramName, entries, size, serving, changes, named, stale>>

\* split() and splitInto(): the segments, empty ones dropped.
Split(pieces) == SelectSeq(pieces, LAMBDA s : s # "")

\* validPattern(): a bare ":" and a "*" that is not the whole last segment are
\* refused.  "a*" stands for every segment with a star inside.
ValidPattern(p) ==
  LET segs == Split(p.pieces)
  IN /\ p.rooted
     /\ \A i \in DOMAIN segs : /\ segs[i] \notin {":", "a*"}
                               /\ segs[i] = "*" => i = Len(segs)

Edge(s) == IF s \in Params THEN ":" ELSE s
\* findNode(): the node a pattern leads to.
NodeOf(segs) == [i \in DOMAIN segs |-> Edge(segs[i])]

\* add(): the missing nodes are made, a param node keeps its first name, and
\* the entry of the method is set or replaced.
Add(m, p) ==
  LET segs == Split(p.pieces)
      node == NodeOf(segs)
      at(i) == SubSeq(node, 1, i - 1)
      captures == {i \in DOMAIN segs : node[i] = ":"}
  IN /\ ValidPattern(p)
     /\ nodes' = nodes \cup {SubSeq(node, 1, i) : i \in DOMAIN node}
     /\ paramName' = [n \in DOMAIN paramName \cup {at(i) : i \in captures} |->
                        IF n \in DOMAIN paramName THEN paramName[n] ELSE segs[Len(n) + 1]]
     /\ size' = IF <<node, m>> \in DOMAIN entries THEN size ELSE size + 1
     /\ entries' = [k \in DOMAIN entries \cup {<<node, m>>} |->
                      IF k = <<node, m>> THEN [method |-> m, pattern |-> p]
                      ELSE entries[k]]
     /\ named' = named \cup {<<at(i), segs[i]>> : i \in captures}

RegisterRoute(m, p) ==
  /\ changes < MaxChanges /\ changes' = changes + 1
  /\ \/ Add(m, p)
     \/ ~ValidPattern(p) /\ UNCHANGED <<nodes, paramName, entries, size, named>>
  /\ UNCHANGED <<serving, stale>>

\* remove(): the entry goes, its nodes stay.
UnregisterRoute(m, p) ==
  LET key == <<NodeOf(Split(p.pieces)), m>>
  IN /\ changes < MaxChanges /\ changes' = changes + 1
     /\ key \in DOMAIN entries
     /\ entries' = [k \in DOMAIN entries \ {key} |-> entries[k]]
     /\ size' = size - 1
     /\ UNCHANGED <<nodes, paramName, serving, named, stale>>

(***************************************************************************)
(* match().                                                                *)
(***************************************************************************)
\* pick: the entry a request of method m finds at a node.
Pick(n, m) ==
  LET keys == <<<<n, m>>, <<n, IF m = "HEAD" THEN "GET" ELSE m>>, <<n, IF m \in Customs THEN m ELSE All>>>>
      found == {i \in DOMAIN keys : keys[i] \in DOMAIN entries}
  IN IF n \notin nodes \/ found = {} THEN NoRoute
     ELSE keys[CHOOSE i \in found : \A j \in found : i <= j]

\* The nodes the walk offers for the segments, in its order: the wildcard
\* child, then all of the static child, then all of the param child.
RECURSIVE Walk(_, _, _)
Walk(n, segs, spec) ==
  LET i == Len(n) + 1
      offer(at) == <<[at |-> at, frame |-> n, spec |-> spec]>>
      child(e, gain) == IF Append(n, e) \in nodes THEN Walk(Append(n, e), segs, spec + gain) ELSE <<>>
  IN IF i > Len(segs) THEN offer(n) \o offer(Append(n, "*"))
     ELSE offer(Append(n, "*")) \o child(segs[i], 2) \o child(":", 1)

\* Slip: the last of equals wins.
ConsiderLast(m, best, offer) ==
  LET key == Pick(offer.at, m)
      new == [key |-> key, frame |-> offer.frame, spec |-> offer.spec]
  IN IF key = NoRoute THEN best
     ELSE IF best = NoRoute THEN new
     ELSE IF \/ offer.spec > best.spec
             \/ offer.spec = best.spec
          THEN new ELSE best

\* consider: a more specific one wins, and on a tie one that is not for all
\* methods over one that is.
Consider(m, best, offer) ==
  LET key == Pick(offer.at, m)
      new == [key |-> key, frame |-> offer.frame, spec |-> offer.spec]
  IN IF key = NoRoute THEN best
     ELSE IF best = NoRoute THEN new
     ELSE IF \/ offer.spec > best.spec
             \/ offer.spec = best.spec /\ best.key[2] = All /\ key[2] # All
          THEN new ELSE best

Match(m, path) ==
  LET offers == Walk(<<>>, Split(path), 0)
      best[i \in 0 .. Len(offers)] == IF i = 0 THEN NoRoute ELSE Consider(m, best[i - 1], offers[i])
  IN best[Len(offers)]

\* The captures, read back along the frames.
ParamsOf(found, path) ==
  LET segs == Split(path)
      at == SelectSeq([i \in DOMAIN found.frame |-> i], LAMBDA i : found.frame[i] = ":")
  IN [j \in DOMAIN at |-> <<paramName[SubSeq(found.frame, 1, at[j] - 1)], segs[at[j]]>>]

\* collectAllowed() and allowedMethods(), as the set of tokens.
Tokens(n) ==
  UNION {CASE k[2] = All -> Standard [] k[2] = "GET" -> {"GET", "HEAD"} [] OTHER -> {k[2]} :
           k \in {k \in DOMAIN entries : k[1] = n}}
RECURSIVE CollectAllowed(_, _)
CollectAllowed(n, segs) ==
  LET child(e) == IF Append(n, e) \in nodes THEN CollectAllowed(Append(n, e), segs) ELSE {}
  IN Tokens(Append(n, "*")) \cup
     IF Len(n) = Len(segs) THEN Tokens(n) ELSE child(segs[Len(n) + 1]) \cup child(":")
AllowedMethods(path) == CollectAllowed(<<>>, Split(path))

(***************************************************************************)
(* A loop matches a request, then reads the route through the pointer.     *)
(***************************************************************************)
MatchRequest(l, m, path) ==
  LET found == Match(m, path)
  IN /\ serving[l] = NoRoute /\ found # NoRoute
     /\ serving' = [serving EXCEPT ![l] = [key |-> found.key, entry |-> entries[found.key]]]
     /\ UNCHANGED <<nodes, paramName, entries, size, changes, named, stale>>

UseRoute(l) ==
  LET s == serving[l]
  IN /\ s # NoRoute
     /\ stale' = (stale \/ s.key \notin DOMAIN entries \/ (s.key \in DOMAIN entries /\ entries[s.key] # s.entry))
     /\ serving' = [serving EXCEPT ![l] = NoRoute]
     /\ UNCHANGED <<nodes, paramName, entries, size, changes, named>>

RouterInit ==
  /\ nodes = {<<>>} /\ paramName = <<>> /\ entries = <<>> /\ size = 0
  /\ serving = [l \in Loops |-> NoRoute]
  /\ changes = 0 /\ named = {} /\ stale = FALSE

RouterNext ==
  \/ \E r \in Routes : RegisterRoute(r.method, r.pattern) \/ UnregisterRoute(r.method, r.pattern)
  \/ \E l \in Loops : UseRoute(l) \/ \E r \in Requests : MatchRequest(l, r[1], r[2])

(***************************************************************************)
(* Properties.                                                             *)
(***************************************************************************)
\* The trie is a tree rooted at root_, its entries are at nodes of it, and
\* size() counts them.
RouterTypeOK ==
  /\ \A n \in nodes : n = <<>> \/ SubSeq(n, 1, Len(n) - 1) \in nodes
  /\ \A k \in DOMAIN entries : k[1] \in nodes /\ k[2] \in Methods
  /\ DOMAIN paramName = {n \in nodes : Append(n, ":") \in nodes}
  /\ size = Cardinality(DOMAIN entries)

\* A pattern covers a path: segment by segment, a trailing "*" taking the rest.
Covers(n, segs) ==
  LET wild == n # <<>> /\ Last(n) = "*"
      k == IF wild THEN Len(n) - 1 ELSE Len(n)
  IN /\ IF wild THEN k <= Len(segs) ELSE k = Len(segs)
     /\ \A i \in 1..k : n[i] \in {segs[i], ":"}
Weight(n) == 2 * Cardinality({i \in DOMAIN n : n[i] \notin {":", "*"}}) + Cardinality({i \in DOMAIN n : n[i] = ":"})
Serves(method, m) == method \in {m} \cup (IF m = "HEAD" THEN {"GET"} ELSE {}) \cup (IF m \in Customs THEN {} ELSE {All})

\* match() finds a route exactly when a registered pattern covers the path for
\* the method; it is one with the most static segments and then parameters,
\* and not an all-methods one when a specific one weighs the same.
MatchIsBest(path, m, found) ==
  LET fits == {k \in DOMAIN entries : Covers(k[1], Split(path)) /\ Serves(k[2], m)}
      heaviest == {k \in fits : \A j \in fits : Weight(k[1]) >= Weight(j[1])}
  IN IF fits = {} THEN found = NoRoute
     ELSE /\ found # NoRoute /\ found.key \in heaviest
          /\ found.key[2] = All => \A k \in heaviest : k[2] = All

\* The captures handed to a handler are the path's segments at the parameters
\* of the route's own pattern, under the names it was written with when no
\* pattern that shares the node was ever written with another.
ParamsOfRoute(path, found) ==
  LET written == SelectSeq(Split(entries[found.key].pattern.pieces), LAMBDA s : s \in Params)
      got == ParamsOf(found, path)
  IN found # NoRoute =>
       /\ Len(got) = Len(written)
       /\ \A i \in DOMAIN got : got[i][1] = written[i] \/ \E x, y \in named : x[1] = y[1] /\ x[2] # y[2]

\* MatchResult::route "Points into the trie (stable while serving - routes
\* register at setup, never mid-request)".
RouteStable == ~stale

\* "Precedence at every level: static segment beats :param beats *": of two
\* patterns that fit, the one better at the first level they differ is served.
Rank(e) == CASE e = "*" -> 0 [] e = ":" -> 1 [] OTHER -> 2
Beats(n, k) == \E i \in DOMAIN n \cap DOMAIN k : /\ SubSeq(n, 1, i - 1) = SubSeq(k, 1, i - 1)
                                                 /\ Rank(n[i]) > Rank(k[i])
LevelPrecedence ==
  \A path \in Paths, m \in Methods \ {All} :
    LET found == Match(m, path)
    IN found # NoRoute =>
         \A k \in DOMAIN entries : Covers(k[1], Split(path)) /\ k[2] = m => ~Beats(k[1], found.key[1])

\* The router agrees with its reference over the trie that registrations left:
\* the match, the parameters a loop takes from it, and the Allow list, for which
\* allowedMethods() walks the trie apart from match(): the 405 of a method that
\* does not match lists exactly the methods that would.
RouterAgrees ==
  /\ RouterTypeOK
  /\ \A path \in Paths :
       LET allowed == AllowedMethods(path)
       IN \A m \in Methods \ {All} :
            LET found == Match(m, path)
            IN /\ MatchIsBest(path, m, found)
               /\ ParamsOfRoute(path, found)
               /\ found # NoRoute <=> m \in allowed
=============================================================================
