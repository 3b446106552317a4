---------------------------- MODULE PackageOrder ----------------------------
(***************************************************************************)
(* The order a change package is applied in (internal/changepkg order):    *)
(* Kahn's algorithm over what each change depends on, the ready changes in  *)
(* the order of their identifiers as strings.  One step is one turn of the *)
(* loop.  An identifier is "c" and a number, and stands here as the number. *)
(***************************************************************************)
EXTENDS Integers, FiniteSets, Sequences

CONSTANT Ids   \* the numbers of the identifiers there may be

ASSUME PackageOrderConstants == Ids \subseteq 1..99 /\ IsFiniteSet(Ids)

VARIABLES
  needs,     \* DependsOn of each change of the package
  indegree,  \* how many of them are not placed yet
  ready,     \* changes with none left
  out,       \* the changes placed
  ordering   \* "idle", "walking", "ordered" or "refused"

orderVars == <<needs, indegree, ready, out, ordering>>

Graphs == UNION {[I -> SUBSET Ids] : I \in SUBSET Ids}

-----------------------------------------------------------------------------
\* The place of "c" followed by n among all of them: "c1" < "c10" < "c19" < "c2".
Rank(n) == IF n < 10 THEN 11 * n ELSE 11 * (n \div 10) + 1 + (n % 10)

Precedes(m, n) == Rank(m) < Rank(n)

\* A dependency on itself, or on a change the package does not contain.
Dangling(g) == \E i \in DOMAIN g : i \in g[i] \/ ~(g[i] \subseteq DOMAIN g)

\* edges and indegree, and the changes that depend on nothing.
Start(g) ==
  /\ ordering = "idle"
  /\ needs' = g
  /\ ordering' = (IF Dangling(g) THEN "refused" ELSE "walking")
  /\ indegree' = [i \in DOMAIN g |-> Cardinality(g[i])]
  /\ ready' = {i \in DOMAIN g : Cardinality(g[i]) = 0}
  /\ out' = <<>>

\* Mutated form: a change follows the first of those it depends on.
PlaceEager ==
  /\ ordering = "walking"
  /\ \E id \in ready :
       /\ \A other \in ready \ {id} : Precedes(id, other)
       /\ out' = Append(out, id)
       /\ indegree' = [i \in DOMAIN needs |-> IF id \in needs[i] THEN 0 ELSE indegree[i]]
       /\ ready' = (ready \ {id}) \cup {i \in DOMAIN needs : id \in needs[i] /\ indegree[i] > 0}
  /\ UNCHANGED <<needs, ordering>>

\* Mutated form: ready changes are taken as they come.
PlaceUnsorted ==
  /\ ordering = "walking"
  /\ \E id \in ready :
       /\ out' = Append(out, id)
       /\ indegree' = [i \in DOMAIN needs |-> IF id \in needs[i] THEN indegree[i] - 1 ELSE indegree[i]]
       /\ ready' = (ready \ {id}) \cup {i \in DOMAIN needs : id \in needs[i] /\ indegree[i] = 1}
  /\ UNCHANGED <<needs, ordering>>

Place ==
  /\ ordering = "walking"
  /\ \E id \in ready :
       /\ \A other \in ready \ {id} : Precedes(id, other)
       /\ out' = Append(out, id)
       /\ indegree' = [i \in DOMAIN needs |-> IF id \in needs[i] THEN indegree[i] - 1 ELSE indegree[i]]
       /\ ready' = (ready \ {id}) \cup {i \in DOMAIN needs : id \in needs[i] /\ indegree[i] = 1}
  /\ UNCHANGED <<needs, ordering>>

Finish ==
  /\ ordering = "walking" /\ ready = {}
  /\ ordering' = (IF Len(out) = Cardinality(DOMAIN needs) THEN "ordered" ELSE "refused")
  /\ UNCHANGED <<needs, indegree, ready, out>>

OrderInit ==
  /\ needs = <<>> /\ indegree = <<>> /\ ready = {} /\ out = <<>>
  /\ ordering = "idle"

OrderNext == (\E g \in Graphs : Start(g)) \/ Place \/ Finish

OrderSpec == OrderInit /\ [][OrderNext]_orderVars

-----------------------------------------------------------------------------
(* Properties *)

Placed == {out[i] : i \in DOMAIN out}

\* docs/CHANGE-PACKAGES.md, "Dependencies": every change comes after all it depends on, and once,
\* whichever of the ready ones the identifiers put first.
OrderRespects ==
  \A i \in DOMAIN out :
    /\ needs[out[i]] \subseteq {out[j] : j \in 1..(i - 1)}
    /\ \A j \in DOMAIN out : out[i] = out[j] => i = j

\* Changes each of which depends on another of them.
Circular(S) == S # {} /\ \A i \in S : needs[i] \cap S # {}

\* docs/CHANGE-PACKAGES.md: a package is refused when its graph is unusable (a dependency it does
\* not contain, a change that depends on itself, a cycle) and only then, and one that is not
\* refused is ordered whole.
RefusedWhenUnusable ==
  /\ ordering = "refused" => Dangling(needs) \/ \E S \in SUBSET DOMAIN needs : Circular(S)
  /\ ordering = "ordered" => /\ Placed = DOMAIN needs /\ ~Dangling(needs)
                             /\ \A S \in SUBSET DOMAIN needs : ~Circular(S)
=============================================================================
