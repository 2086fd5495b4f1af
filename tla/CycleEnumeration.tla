--------------------------- MODULE CycleEnumeration ---------------------------
(***************************************************************************)
(* findBoundedSimpleCycles of matching/cycles.mjs: a depth-first search    *)
(* for the simple cycles of a graph, within bounds on their length, that   *)
(* gives up at a limit on their number or when its time is over.           *)
(*                                                                         *)
(* Abstractions: strongly connected components are given by what they are  *)
(* (the code finds them with Tarjan's algorithm); the time is over at any  *)
(* step; the final sort is left out, later stages sort again.              *)
(***************************************************************************)
EXTENDS CompatibilityGraph, Sequences, SequencesExt, FiniteSetsExt

CONSTANTS
  MinLength, MaxLength,   \* bounds on the length of a cycle
  MaxCycles,              \* the limit on their number
  NoLimit                 \* there is none

ASSUME BoundsAssumption ==
  /\ MinLength \in Nat /\ MaxLength \in Nat
  /\ 2 <= MinLength /\ MinLength <= MaxLength
  /\ MaxCycles = NoLimit \/ MaxCycles \in Nat \ {0}

VARIABLES
  edges,    \* the graph
  starts,   \* start nodes still to search from
  inside,   \* the component searched in
  path,     \* nodes on the path of the search
  tried,    \* tried[k]: neighbours of path[k] looked at
  cycles,   \* the cycles found
  status    \* running, done, limit or timeout (a run later adds how it ended)

enumVars == <<edges, starts, inside, path, tried, cycles, status>>

\* w is reachable from v: it is in every set of nodes that v is in and that
\* no edge leaves.
Reachable(E, v, w) ==
  \A S \in SUBSET Intents :
    v \in S /\ (\A e \in E : e[1] \in S => e[2] \in S) => w \in S

\* The strongly connected component of v.
Component(E, v) == {w \in Intents : Reachable(E, v, w) /\ Reachable(E, w, v)}

\* A component of one node has no cycle.
Starts(E) == {v \in Intents : Cardinality(Component(E, v)) > 1}

\* Component by component, by their least nodes, and in order within each.
NextStart(E, S) ==
  LET ranked == {<<Min(Component(E, v)), v>> : v \in S}
      first  == CHOOSE r \in ranked :
                  \A q \in ranked : r[1] < q[1] \/ (r[1] = q[1] /\ r[2] <= q[2])
  IN  first[2]

EnumInit ==
  /\ starts = Starts(edges)
  /\ inside = {}
  /\ path = <<>>
  /\ tried = <<>>
  /\ cycles = <<>>
  /\ status = "running"

AtLimit(n) == MaxCycles # NoLimit /\ n >= MaxCycles

\* The neighbours of the end of the path that are still to look at: those of
\* the start's component that do not come before the start.
Remaining ==
  {w \in inside :
     <<Last(path), w>> \in edges /\ path[1] <= w /\ w \notin Last(tried)}

Looked(w) == [tried EXCEPT ![Len(tried)] = @ \cup {w}]

\* The search from the next start begins.
BeginStart ==
  /\ status = "running" /\ path = <<>> /\ starts # {}
  /\ LET v == NextStart(edges, starts)
     IN  /\ starts' = starts \ {v}
         /\ inside' = Component(edges, v)
         /\ path' = <<v>>
  /\ tried' = <<{}>>
  /\ UNCHANGED <<edges, cycles, status>>

\* Mutant: a cycle one shorter than the bound is not taken.
InBounds_Strict(n) == MinLength < n /\ n <= MaxLength

InBounds(n) == MinLength <= n /\ n <= MaxLength

\* The path closes: it is a cycle, taken if its length is within bounds and it
\* is not there yet.  At the limit the search ends.
Close ==
  /\ status = "running" /\ path # <<>>
  /\ Remaining # {} /\ Min(Remaining) = path[1]
  /\ tried' = Looked(path[1])
  /\ cycles' = IF InBounds(Len(path)) /\ path \notin ToSet(cycles) THEN Append(cycles, path) ELSE cycles
  /\ status' = IF AtLimit(Len(cycles')) THEN "limit" ELSE status
  /\ UNCHANGED <<edges, starts, inside, path>>

\* Mutant: a node that is on the path already may be entered again.
MayEnter_Again(w) == Len(path) < MaxLength

MayEnter(w) == Len(path) < MaxLength /\ w \notin ToSet(path)

\* The path is extended by a node, or the node is passed over.
Extend ==
  /\ status = "running" /\ path # <<>> /\ Remaining # {}
  /\ LET w == Min(Remaining)
     IN  /\ w # path[1]
         /\ IF MayEnter(w)
            THEN path' = Append(path, w) /\ tried' = Append(Looked(w), {})
            ELSE path' = path /\ tried' = Looked(w)
  /\ UNCHANGED <<edges, starts, inside, cycles, status>>

\* Mutant: going back forgets what has been looked at.
Backtrack_Forgets ==
  /\ status = "running" /\ path # <<>> /\ Remaining = {}
  /\ path' = Front(path)
  /\ tried' = IF Len(tried) > 1 THEN Append(Front(Front(tried)), {}) ELSE <<>>
  /\ UNCHANGED <<edges, starts, inside, cycles, status>>

\* All neighbours have been looked at: back to the node before.
Backtrack ==
  /\ status = "running" /\ path # <<>> /\ Remaining = {}
  /\ path' = Front(path)
  /\ tried' = Front(tried)
  /\ UNCHANGED <<edges, starts, inside, cycles, status>>

\* The last start has been searched from.
Finish ==
  /\ status = "running" /\ path = <<>> /\ starts = {}
  /\ status' = "done"
  /\ UNCHANGED <<edges, starts, inside, path, tried, cycles>>

\* The time is over: the search is given up where it is.
TimeOut ==
  /\ status = "running"
  /\ status' = "timeout"
  /\ starts' = {} /\ path' = <<>> /\ tried' = <<>>
  /\ UNCHANGED <<edges, inside, cycles>>

SearchStep == BeginStart \/ Close \/ Extend \/ Backtrack \/ Finish
EnumNext   == SearchStep \/ TimeOut

EnumSpec == EnumInit /\ [][EnumNext]_enumVars

-----------------------------------------------------------------------------
\* A simple cycle of graph E, of a length within bounds, from its least node.
IsCycle(E, c) ==
  /\ MinLength <= Len(c) /\ Len(c) <= MaxLength
  /\ \A i, j \in 1..Len(c) : i # j => c[i] # c[j]
  /\ \A i \in 1..Len(c) : c[1] <= c[i]
  /\ \A i \in 1..(Len(c) - 1) : <<c[i], c[i + 1]>> \in E
  /\ <<c[Len(c)], c[1]>> \in E

\* Lists of intents of a length within bounds.
Lists == UNION {[1..n -> Intents] : n \in MinLength..MaxLength}

\* Every simple cycle within bounds, by definition.
AllCycles(E) == {c \in Lists : IsCycle(E, c)}

\* Whatever the search has found, wherever it is or gave up, are simple cycles
\* of the graph within the bounds, each once and from its least intent, no
\* more than the limit (findBoundedSimpleCycles, addCycle).
CyclesAreSound ==
  /\ \A k \in DOMAIN cycles : IsCycle(edges, cycles[k])
  /\ \A k, l \in DOMAIN cycles : cycles[k] = cycles[l] => k = l
  /\ MaxCycles # NoLimit => Len(cycles) <= MaxCycles

\* When the diagnostics report neither limit nor timeout, nothing was missed:
\* starting only from the least node, and searching component by component,
\* loses no cycle.
DoneMeansAll == status = "done" => ToSet(cycles) = AllCycles(edges)
=============================================================================
