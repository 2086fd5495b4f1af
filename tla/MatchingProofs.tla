---------------------------- MODULE MatchingProofs ----------------------------
(***************************************************************************)
(* Theorems about a matching run, for every graph, every bound on the      *)
(* length of cycles, every limit on their number and every way to score    *)
(* them.                                                                   *)
(*                                                                         *)
(* What the search has on its path at any moment is a simple path of the   *)
(* graph that starts from its least node, and so it is a cycle when it     *)
(* closes; and every cycle that is not found yet goes on from that path by *)
(* a node not looked at, or starts from a node still to come.  The two     *)
(* searches of the selection are recursions over the candidates left; what *)
(* they pick from a component is compared with any other choice from it,   *)
(* and components do not meet.                                             *)
(***************************************************************************)
EXTENDS Matching, FoldProofs

USE BoundsAssumption

\* The search has a simple path of the graph, from its least node.
PathSound ==
  LET Node == Intents \cup {path[1]}
  IN  path # <<>> =>
        /\ path \in Seq(Node)
        /\ Len(path) <= MaxLength
        /\ \A i, j \in 1..Len(path) : i # j => path[i] # path[j]
        /\ \A i \in 2..Len(path) : path[i] \in Intents /\ path[1] <= path[i]
        /\ \A i \in 1..(Len(path) - 1) : <<path[i], path[i + 1]>> \in edges

\* A running search has not come to the limit.
BelowLimit == MaxCycles # NoLimit /\ status = "running" => Len(cycles) < MaxCycles

\* The inductive invariant of the search.
SearchInv ==
  /\ edges \in SUBSET (Intents \X Intents)
  /\ cycles \in Seq(Seq(Intents))
  /\ PathSound
  /\ BelowLimit
  /\ CyclesAreSound

\* A set of intents that is not empty has a least one.
LEMMA MinIn ==
  ASSUME NEW S \in SUBSET Nat, S # {}
  PROVE  Min(S) \in S
  BY LeastNumber DEF Min

\* What is left to look at are intents, after the start, at the end of an edge.
LEMMA RemainingFacts ==
  ASSUME SearchInv, path # <<>>, Remaining # {}
  PROVE  LET w == Min(Remaining)
         IN  /\ w \in Intents
             /\ <<path[Len(path)], w>> \in edges
             /\ path[1] <= w
  <1>1. Remaining \in SUBSET Intents
    BY DEF SearchInv, Remaining
  <1>2. Min(Remaining) \in Remaining
    BY <1>1, IntentsAssumption, MinIn
  <1> DEFINE w == Min(Remaining)
  <1> HIDE DEF w
  <1>3. w \in Remaining
    BY <1>2 DEF w
  <1>4. w \in Intents /\ <<path[Len(path)], w>> \in edges /\ path[1] <= w
    BY <1>1, <1>3 DEF Remaining, Last
  <1> QED BY <1>4 DEF w

\* A path that closes within the bounds is a cycle of the graph.
LEMMA ClosedIsCycle ==
  ASSUME SearchInv, path # <<>>, Remaining # {}, Min(Remaining) = path[1], InBounds(Len(path))
  PROVE  path \in Seq(Intents) /\ IsCycle(edges, path)
  <1>1. path[1] \in Intents /\ <<path[Len(path)], path[1]>> \in edges
    BY RemainingFacts
  <1>2. path \in Seq(Intents)
    <2>1. Intents \cup {path[1]} = Intents
      BY <1>1
    <2> QED BY <2>1 DEF SearchInv, PathSound
  <1>3. ASSUME NEW i \in 1..Len(path)
        PROVE  path[1] <= path[i]
    <2>1. CASE i = 1
      <3>1. path[1] \in Nat
        BY <1>1, IntentsAssumption
      <3>2. path[1] <= path[1]
        BY <3>1
      <3> QED BY <2>1, <3>2
    <2>2. CASE i # 1
      <3>1. i \in 2..Len(path)
        BY <1>2, <2>2
      <3> QED BY <3>1 DEF SearchInv, PathSound
    <2> QED BY <2>1, <2>2
  <1> QED BY <1>1, <1>2, <1>3 DEF IsCycle, InBounds, SearchInv, PathSound

\* Cycles found stay sound as long as none is added.
LEMMA CyclesKept ==
  ASSUME SearchInv, UNCHANGED <<edges, cycles>>
  PROVE  CyclesAreSound' /\ edges' \in SUBSET (Intents \X Intents) /\ cycles' \in Seq(Seq(Intents))
  <1>1. edges' = edges /\ cycles' = cycles
    OBVIOUS
  <1>2. CyclesAreSound'
    <2>1. CyclesAreSound
      BY DEF SearchInv
    <2> QED BY <1>1, <2>1 DEF CyclesAreSound, IsCycle
  <1> QED BY <1>1, <1>2 DEF SearchInv

\* The search from a new start has that node on its path.
LEMMA BeginStartSound ==
  ASSUME SearchInv, BeginStart
  PROVE  SearchInv'
  <1>1. Len(path') = 1 /\ path' \in Seq({path'[1]})
    <2>1. PICK v : path' = <<v>>
      BY DEF BeginStart
    <2> QED BY <2>1
  <1>2. PathSound'
    BY <1>1 DEF PathSound
  <1>3. BelowLimit'
    BY DEF BeginStart, SearchInv, BelowLimit
  <1> QED BY <1>2, <1>3, CyclesKept DEF BeginStart, SearchInv

\* A cycle that is added is one, is new, and is within the limit.
LEMMA CloseSound ==
  ASSUME SearchInv, Close
  PROVE  SearchInv'
  <1>1. /\ status = "running" /\ path # <<>> /\ Remaining # {} /\ Min(Remaining) = path[1]
        /\ edges' = edges /\ path' = path
        /\ cycles \in Seq(Seq(Intents))
    BY DEF Close, SearchInv
  <1>2. PathSound'
    BY <1>1 DEF SearchInv, PathSound
  <1>3. MaxCycles # NoLimit => Len(cycles) < MaxCycles
    BY <1>1 DEF SearchInv, BelowLimit
  <1>4. CASE cycles' = cycles
    <2>1. BelowLimit'
      BY <1>3, <1>4 DEF BelowLimit
    <2> QED BY <1>1, <1>2, <1>4, <2>1, CyclesKept DEF SearchInv
  <1>5. CASE /\ InBounds(Len(path)) /\ path \notin ToSet(cycles)
             /\ cycles' = Append(cycles, path)
    <2> DEFINE n == Len(cycles)
    <2>1. path \in Seq(Intents) /\ IsCycle(edges, path)
      BY <1>1, <1>5, ClosedIsCycle
    <2>2. n \in Nat /\ DOMAIN cycles = 1..n
      BY <1>1
    <2>3. /\ cycles' \in Seq(Seq(Intents)) /\ Len(cycles') = n + 1
          /\ DOMAIN cycles' = 1..(n + 1)
          /\ cycles'[n + 1] = path
          /\ \A k \in 1..n : cycles'[k] = cycles[k]
      BY <1>1, <1>5, <2>1
    <2>4. \A k \in 1..n : cycles[k] # path
      BY <1>5, <2>2 DEF ToSet
    <2> HIDE DEF n
    <2>5. BelowLimit'
      BY <1>1, <2>2, <2>3 DEF BelowLimit, Close, AtLimit
    <2>6. MaxCycles # NoLimit => Len(cycles') <= MaxCycles
      BY <1>3, <2>2, <2>3 DEF n
    <2>7. ASSUME NEW k \in DOMAIN cycles'
          PROVE  IsCycle(edges', cycles'[k])
      <3>1. CASE k = n + 1
        BY <1>1, <2>1, <2>3, <3>1
      <3>2. CASE k # n + 1
        <4>1. k \in 1..n
          BY <2>2, <2>3, <3>2
        <4>2. IsCycle(edges, cycles[k])
          BY <2>2, <4>1 DEF SearchInv, CyclesAreSound
        <4> QED BY <1>1, <2>3, <4>1, <4>2
      <3> QED BY <3>1, <3>2
    <2>8. ASSUME NEW k \in DOMAIN cycles', NEW l \in DOMAIN cycles', cycles'[k] = cycles'[l]
          PROVE  k = l
      <3>1. CASE k # n + 1 /\ l # n + 1
        <4>1. k \in 1..n /\ l \in 1..n
          BY <2>2, <2>3, <3>1
        <4> QED BY <2>2, <2>3, <2>8, <4>1 DEF SearchInv, CyclesAreSound
      <3>2. CASE k = n + 1 /\ l # n + 1
        <4>1. l \in 1..n
          BY <2>2, <2>3, <3>2
        <4> QED BY <2>3, <2>4, <2>8, <3>2, <4>1
      <3>3. CASE k # n + 1 /\ l = n + 1
        <4>1. k \in 1..n
          BY <2>2, <2>3, <3>3
        <4> QED BY <2>3, <2>4, <2>8, <3>3, <4>1
      <3> QED BY <3>1, <3>2, <3>3
    <2>9. CyclesAreSound'
      BY <2>6, <2>7, <2>8 DEF CyclesAreSound
    <2> QED BY <1>1, <1>2, <2>3, <2>5, <2>9 DEF SearchInv
  <1> QED BY <1>4, <1>5 DEF Close

\* A node that may be entered prolongs the simple path.
LEMMA ExtendSound ==
  ASSUME SearchInv, Extend
  PROVE  SearchInv'
  <1> DEFINE w == Min(Remaining)
             n == Len(path)
  <1>1. /\ path # <<>> /\ Remaining # {} /\ w # path[1]
        /\ UNCHANGED <<edges, cycles, status>>
        /\ path \in Seq(Intents \cup {path[1]})
    BY DEF Extend, SearchInv, PathSound
  <1>2. w \in Intents /\ <<path[n], w>> \in edges /\ path[1] <= w
    BY <1>1, RemainingFacts
  <1>3. path' = path \/ (MayEnter(w) /\ path' = Append(path, w))
    BY DEF Extend
  <1>4. BelowLimit'
    BY <1>1 DEF SearchInv, BelowLimit
  <1> HIDE DEF w
  <1>5. CASE path' = path
    <2>1. PathSound'
      BY <1>1, <1>5 DEF SearchInv, PathSound
    <2> QED BY <1>1, <1>4, <2>1, CyclesKept DEF SearchInv
  <1>6. CASE MayEnter(w) /\ path' = Append(path, w)
    <2>1. n \in Nat \ {0} /\ n + 1 <= MaxLength
      BY <1>1, <1>6 DEF MayEnter
    <2>2. /\ path' \in Seq(Intents \cup {path[1]}) /\ Len(path') = n + 1
          /\ path'[n + 1] = w
          /\ \A i \in 1..n : path'[i] = path[i]
      BY <1>1, <1>2, <1>6
    <2>3. \A i \in 1..n : path[i] # w
      BY <1>1, <1>6 DEF MayEnter, ToSet
    <2> HIDE DEF n
    <2>4. path'[1] = path[1]
      BY <2>1, <2>2
    <2>5. ASSUME NEW i \in 1..(n + 1), NEW j \in 1..(n + 1), i # j
          PROVE  path'[i] # path'[j]
      <3>1. CASE i # n + 1 /\ j # n + 1
        <4>1. i \in 1..n /\ j \in 1..n
          BY <2>1, <3>1
        <4>2. path[i] # path[j]
          BY <1>1, <2>5, <4>1 DEF SearchInv, PathSound, n
        <4> QED BY <2>2, <4>1, <4>2
      <3>2. CASE i = n + 1 /\ j # n + 1
        <4>1. j \in 1..n
          BY <2>1, <3>2
        <4> QED BY <2>2, <2>3, <3>2, <4>1
      <3>3. CASE i # n + 1 /\ j = n + 1
        <4>1. i \in 1..n
          BY <2>1, <3>3
        <4> QED BY <2>2, <2>3, <3>3, <4>1
      <3> QED BY <2>5, <3>1, <3>2, <3>3
    <2>6. ASSUME NEW i \in 2..(n + 1)
          PROVE  path'[i] \in Intents /\ path'[1] <= path'[i]
      <3>1. CASE i = n + 1
        BY <1>2, <2>2, <2>4, <3>1
      <3>2. CASE i # n + 1
        <4>1. i \in 2..n /\ i \in 1..n
          BY <2>1, <3>2
        <4>2. path[i] \in Intents /\ path[1] <= path[i]
          BY <1>1, <4>1 DEF SearchInv, PathSound, n
        <4> QED BY <2>2, <2>4, <4>1, <4>2
      <3> QED BY <3>1, <3>2
    <2>7. ASSUME NEW i \in 1..((n + 1) - 1)
          PROVE  <<path'[i], path'[i + 1]>> \in edges
      <3>1. CASE i = n
        BY <1>2, <2>1, <2>2, <3>1 DEF n
      <3>2. CASE i # n
        <4>1. i \in 1..(n - 1) /\ i \in 1..n /\ i + 1 \in 1..n
          BY <2>1, <3>2
        <4>2. <<path[i], path[i + 1]>> \in edges
          BY <1>1, <4>1 DEF SearchInv, PathSound, n
        <4> QED BY <2>2, <4>1, <4>2
      <3> QED BY <3>1, <3>2
    <2>8. PathSound'
      BY <1>1, <2>1, <2>2, <2>4, <2>5, <2>6, <2>7 DEF PathSound
    <2> QED BY <1>1, <1>4, <2>8, CyclesKept DEF SearchInv
  <1> QED BY <1>3, <1>5, <1>6

\* A sequence without its last element.
LEMMA FrontFacts ==
  ASSUME NEW S, NEW s \in Seq(S), NEW n \in Nat \ {0}, n = Len(s)
  PROVE  /\ SubSeq(s, 1, n - 1) \in Seq(S)
         /\ Len(SubSeq(s, 1, n - 1)) = n - 1
         /\ \A i \in 1..(n - 1) : SubSeq(s, 1, n - 1)[i] = s[i]
  OBVIOUS

\* Going back leaves a simple path.
LEMMA BacktrackSound ==
  ASSUME SearchInv, Backtrack
  PROVE  SearchInv'
  <1> DEFINE n == Len(path)
  <1>1. /\ path # <<>> /\ path' = SubSeq(path, 1, n - 1)
        /\ UNCHANGED <<edges, cycles, status>>
        /\ path \in Seq(Intents \cup {path[1]}) /\ n \in Nat \ {0}
    BY DEF Backtrack, SearchInv, PathSound, Front
  <1>2. /\ Len(path') = n - 1 /\ path' \in Seq(Intents \cup {path[1]})
        /\ \A i \in 1..(n - 1) : path'[i] = path[i]
    BY <1>1, FrontFacts
  <1>3. PathSound'
    <2>1. CASE n = 1
      <3>1. path' = <<>>
        BY <1>1, <1>2, <2>1
      <3> QED BY <3>1 DEF PathSound
    <2>2. CASE n # 1
      <3>1. path'[1] = path[1]
        BY <1>1, <1>2, <2>2
      <3>2. /\ n <= MaxLength
            /\ \A i, j \in 1..n : i # j => path[i] # path[j]
            /\ \A i \in 2..n : path[i] \in Intents /\ path[1] <= path[i]
            /\ \A i \in 1..(n - 1) : <<path[i], path[i + 1]>> \in edges
        BY <1>1 DEF SearchInv, PathSound
      <3> HIDE DEF n
      <3>3. \A i, j \in 1..(n - 1) : i # j => path'[i] # path'[j]
        BY <1>1, <1>2, <3>2
      <3>4. \A i \in 2..(n - 1) : path'[i] \in Intents /\ path'[1] <= path'[i]
        BY <1>1, <1>2, <3>1, <3>2
      <3>5. \A i \in 1..((n - 1) - 1) : <<path'[i], path'[i + 1]>> \in edges
        BY <1>1, <1>2, <3>2
      <3>6. n - 1 <= MaxLength
        BY <1>1, <3>2
      <3> QED BY <1>1, <1>2, <3>1, <3>3, <3>4, <3>5, <3>6 DEF PathSound
    <2> QED BY <2>1, <2>2
  <1>4. BelowLimit'
    BY <1>1 DEF SearchInv, BelowLimit
  <1> QED BY <1>1, <1>3, <1>4, CyclesKept DEF SearchInv

\* A search that ends, is given up, or is followed by the selection keeps
\* what it has found.
LEMMA EndSound ==
  ASSUME SearchInv, UNCHANGED <<edges, cycles>>,
         path' = path \/ path' = <<>>, status' = status \/ status' # "running"
  PROVE  SearchInv'
  <1>1. PathSound'
    BY DEF SearchInv, PathSound
  <1>2. BelowLimit'
    BY DEF SearchInv, BelowLimit
  <1> QED BY <1>1, <1>2, CyclesKept DEF SearchInv

\* SearchInv is inductive.
LEMMA SearchInvStep ==
  ASSUME SearchInv, [Next]_vars
  PROVE  SearchInv'
  <1>1. CASE UNCHANGED vars
    BY <1>1, EndSound DEF vars, enumVars
  <1>2. CASE SearchStep
    BY <1>2, BeginStartSound, CloseSound, ExtendSound, BacktrackSound, EndSound DEF SearchStep, Finish
  <1>3. CASE TimeOut
    BY <1>3, EndSound DEF TimeOut
  <1>4. CASE Select \/ Abort
    BY <1>4, EndSound DEF Select, Abort
  <1> QED BY <1>1, <1>2, <1>3, <1>4 DEF Next

\* A run starts in SearchInv.
LEMMA SearchInvInit ==
  ASSUME Init
  PROVE  SearchInv
  <1>1. edges \in SUBSET (Intents \X Intents)
    BY DEF Init, EdgesOf
  <1>2. path = <<>> /\ cycles = <<>>
    BY DEF Init, EnumInit
  <1>3. cycles \in Seq(Seq(Intents)) /\ DOMAIN cycles = {} /\ Len(cycles) = 0
    BY <1>2
  <1>4. PathSound
    BY <1>2 DEF PathSound
  <1>5. BelowLimit
    BY <1>3 DEF BelowLimit
  <1>6. CyclesAreSound
    BY <1>3 DEF CyclesAreSound
  <1> QED BY <1>1, <1>3, <1>4, <1>5, <1>6 DEF SearchInv

\* In every state of a run the search has a simple path of the graph, is below
\* its limit while it runs, and has found sound cycles only.
THEOREM SearchInvariant == Spec => []SearchInv
  <1>1. Init => SearchInv
    BY SearchInvInit
  <1>2. SearchInv /\ [Next]_vars => SearchInv'
    BY SearchInvStep
  <1> QED BY <1>1, <1>2, PTL DEF Spec

\* Wherever a search is or gave up, what it has found are simple cycles of the
\* graph within the bounds, each once, no more than the limit
\* (findBoundedSimpleCycles, addCycle).
THEOREM CyclesAlwaysSound == Spec => []CyclesAreSound
  <1>1. SearchInv => CyclesAreSound
    BY DEF SearchInv
  <1> QED BY <1>1, SearchInvariant, PTL

-----------------------------------------------------------------------------
(* Nothing is missed.                                                      *)

\* The node that follows the k-th of cycle c.
After(c, k) == IF k = Len(c) THEN c[1] ELSE c[k + 1]

\* The search has still to come to cycle c: it has come as far as the k-th
\* node of c, and has not looked at the next from there.
Ahead(c) ==
  \E k \in 1..Len(path) :
    /\ k <= Len(c)
    /\ \A i \in 1..k : path[i] = c[i]
    /\ After(c, k) \notin tried[k]

\* As long as the search has not been given up, every cycle is found, is
\* ahead on the path, or starts from a node still to search from.
NothingMissed ==
  /\ tried \in Seq(SUBSET Intents) /\ Len(tried) = Len(path)
  /\ path # <<>> => inside = Component(edges, path[1])
  /\ \A c \in AllCycles(edges) : c[1] \in starts \/ c \in ToSet(cycles) \/ Ahead(c)

\* The inductive invariant of a search that ends by itself.
CompleteInv ==
  /\ SearchInv
  /\ status \in {"running", "done"} => NothingMissed
  /\ status = "done" => path = <<>> /\ starts = {}

\* A cycle is a list of at least two intents, and its nodes follow each other.
LEMMA CycleFacts ==
  ASSUME NEW E, NEW c \in AllCycles(E)
  PROVE  /\ Len(c) \in Nat /\ 2 <= Len(c) /\ Len(c) <= MaxLength /\ InBounds(Len(c))
         /\ c \in [1..Len(c) -> Intents]
         /\ \A i, j \in 1..Len(c) : i # j => c[i] # c[j]
         /\ \A i \in 1..Len(c) : c[1] <= c[i]
         /\ \A k \in 1..Len(c) : <<c[k], After(c, k)>> \in E /\ After(c, k) \in Intents /\ c[1] <= After(c, k)
  <1>1. PICK n \in MinLength..MaxLength : c \in [1..n -> Intents]
    BY DEF AllCycles, Lists
  <1>2. n \in Nat /\ 2 <= n /\ n <= MaxLength /\ MinLength <= n /\ Len(c) = n
    BY <1>1
  <1>3. IsCycle(E, c)
    BY DEF AllCycles
  <1>4. \A k \in 1..n : <<c[k], After(c, k)>> \in E /\ \E j \in 1..n : After(c, k) = c[j]
    <2>1. ASSUME NEW k \in 1..n, k = n
          PROVE  <<c[k], After(c, k)>> \in E /\ \E j \in 1..n : After(c, k) = c[j]
      <3>1. After(c, k) = c[1] /\ 1 \in 1..n
        BY <1>2, <2>1 DEF After
      <3> QED BY <1>2, <1>3, <2>1, <3>1 DEF IsCycle
    <2>2. ASSUME NEW k \in 1..n, k # n
          PROVE  <<c[k], After(c, k)>> \in E /\ \E j \in 1..n : After(c, k) = c[j]
      <3>1. After(c, k) = c[k + 1] /\ k + 1 \in 1..n /\ k \in 1..(n - 1)
        BY <1>2, <2>2 DEF After
      <3> QED BY <1>2, <1>3, <3>1 DEF IsCycle
    <2> QED BY <2>1, <2>2
  <1> QED BY <1>1, <1>2, <1>3, <1>4 DEF IsCycle, InBounds

\* The nodes of a cycle are in the component of its first, which is a start.
LEMMA CycleInComponent ==
  ASSUME NEW E, NEW c \in AllCycles(E)
  PROVE  /\ \A k \in 1..Len(c) : c[k] \in Component(E, c[1])
         /\ c[1] \in Starts(E)
  <1> DEFINE n == Len(c)
  <1>1. /\ n \in Nat /\ 2 <= n /\ c \in [1..n -> Intents]
        /\ \A i, j \in 1..n : i # j => c[i] # c[j]
        /\ \A k \in 1..n : <<c[k], After(c, k)>> \in E
    BY CycleFacts
  <1>a. \A k : After(c, k) = IF k = n THEN c[1] ELSE c[k + 1]
    BY DEF After
  <1> HIDE DEF n
  <1>2. (\A k \in 1..(n - 1) : After(c, k) = c[k + 1]) /\ After(c, n) = c[1]
    <2>1. \A k \in 1..(n - 1) : k # n
      BY <1>1
    <2> QED BY <1>a, <2>1
  <1>3. ASSUME NEW k \in 1..n, NEW S \in SUBSET Intents, c[1] \in S,
               \A e \in E : e[1] \in S => e[2] \in S
        PROVE  c[k] \in S
    <2> DEFINE T == {m \in 0..(n - 1) : c[m + 1] \in S}
    <2>1. 0 \in T
      BY <1>1, <1>3
    <2>2. ASSUME NEW m \in 0..((n - 1) - 1), m \in T
          PROVE  m + 1 \in T
      <3>1. m + 1 \in 1..n /\ m + 1 \in 1..(n - 1) /\ m + 1 \in 0..(n - 1)
        BY <1>1
      <3>2. <<c[m + 1], c[(m + 1) + 1]>> \in E
        BY <1>1, <1>2, <3>1
      <3>3. c[m + 1] \in S
        BY <2>2
      <3>4. c[(m + 1) + 1] \in S
        BY <1>3, <3>2, <3>3
      <3> QED BY <3>1, <3>4
    <2> HIDE DEF T
    <2>3. n - 1 \in Nat
      BY <1>1
    <2>4. 0..(n - 1) \subseteq T
      BY <2>1, <2>2, <2>3, Climb
    <2>5. k - 1 \in T /\ (k - 1) + 1 = k
      BY <1>1, <2>4
    <2> QED BY <2>5 DEF T
  <1>4. ASSUME NEW k \in 1..n, NEW S \in SUBSET Intents, c[k] \in S,
               \A e \in E : e[1] \in S => e[2] \in S
        PROVE  c[1] \in S
    <2> DEFINE T == {m \in 0..(n - k) : c[k + m] \in S}
    <2>1. 0 \in T
      BY <1>1, <1>4
    <2>2. ASSUME NEW m \in 0..((n - k) - 1), m \in T
          PROVE  m + 1 \in T
      <3>1. k + m \in 1..n /\ k + m \in 1..(n - 1) /\ m + 1 \in 0..(n - k) /\ (k + m) + 1 = k + (m + 1)
        BY <1>1
      <3>2. <<c[k + m], c[k + (m + 1)]>> \in E
        BY <1>1, <1>2, <3>1
      <3>3. c[k + m] \in S
        BY <2>2
      <3>4. c[k + (m + 1)] \in S
        BY <1>4, <3>2, <3>3
      <3> QED BY <3>1, <3>4
    <2> HIDE DEF T
    <2>3. n - k \in Nat
      BY <1>1
    <2>4. 0..(n - k) \subseteq T
      BY <2>1, <2>2, <2>3, Climb
    <2>5. n - k \in T /\ k + (n - k) = n
      BY <1>1, <2>3, <2>4
    <2>6. c[n] \in S
      BY <2>5 DEF T
    <2>7. <<c[n], c[1]>> \in E
      BY <1>1, <1>2
    <2> QED BY <1>4, <2>6, <2>7
  <1>5. ASSUME NEW k \in 1..n
        PROVE  c[k] \in Component(E, c[1])
    <2>1. Reachable(E, c[1], c[k])
      BY <1>3 DEF Reachable
    <2>2. Reachable(E, c[k], c[1])
      BY <1>4 DEF Reachable
    <2> QED BY <1>1, <2>1, <2>2 DEF Component
  <1>6. c[1] \in Starts(E)
    <2> DEFINE C == Component(E, c[1])
    <2>1. c[1] \in C /\ c[2] \in C /\ c[1] # c[2] /\ c[1] \in Intents
      BY <1>1, <1>5
    <2>2. IsFiniteSet(C)
      BY IntentsAssumption, FS_Subset DEF Component
    <2> HIDE DEF C
    <2>3. IsFiniteSet({c[1]}) /\ Cardinality({c[1]}) = 1
      BY FS_Singleton
    <2>4. {c[1]} \in SUBSET C /\ {c[1]} # C
      BY <2>1
    <2>5. Cardinality({c[1]}) < Cardinality(C) /\ Cardinality(C) \in Nat
      BY <2>2, <2>4, FewerElements, FS_CardinalityType
    <2>6. Cardinality(C) > 1
      BY <2>3, <2>5
    <2> QED BY <2>1, <2>6 DEF Starts, C
  <1> QED BY <1>5, <1>6 DEF n

\* The search from a new start has all cycles from there ahead.
LEMMA BeginStartComplete ==
  ASSUME SearchInv, NothingMissed, BeginStart
  PROVE  NothingMissed'
  <1> DEFINE v == NextStart(edges, starts)
  <1>1. /\ path = <<>> /\ starts' = starts \ {v} /\ inside' = Component(edges, v)
        /\ path' = <<v>> /\ tried' = <<{}>> /\ edges' = edges /\ cycles' = cycles
    BY DEF BeginStart
  <1> HIDE DEF v
  <1>2. /\ tried' \in Seq(SUBSET Intents) /\ Len(tried') = 1 /\ Len(path') = 1
        /\ path'[1] = v /\ tried'[1] = {}
    BY <1>1
  <1>3. ASSUME NEW c \in AllCycles(edges)
        PROVE  c[1] \in starts' \/ c \in ToSet(cycles') \/ Ahead(c)'
    <2>1. ~Ahead(c)
      BY <1>1 DEF Ahead
    <2>2. c[1] \in starts \/ c \in ToSet(cycles)
      BY <2>1 DEF NothingMissed
    <2>3. CASE c[1] = v
      <3>1. 1 <= Len(c) /\ \A i \in 1..1 : path'[i] = c[i]
        BY <1>2, <2>3, CycleFacts
      <3>2. 1 \in 1..Len(path') /\ After(c, 1) \notin tried'[1]
        BY <1>2
      <3> QED BY <3>1, <3>2 DEF Ahead
    <2>4. CASE c[1] # v
      BY <1>1, <2>2, <2>4
    <2> QED BY <2>3, <2>4
  <1> QED BY <1>1, <1>2, <1>3 DEF NothingMissed

\* Looking at w takes it from what is left at the end of the path only.
LEMMA LookedFacts ==
  ASSUME NothingMissed, path # <<>>, path \in Seq(Intents \cup {path[1]}), NEW w \in Intents
  PROVE  /\ Looked(w) \in Seq(SUBSET Intents) /\ Len(Looked(w)) = Len(path)
         /\ Looked(w)[Len(path)] = tried[Len(path)] \cup {w}
         /\ \A k \in 1..Len(path) : k # Len(path) => Looked(w)[k] = tried[k]
  <1> DEFINE n == Len(path)
  <1>1. n \in Nat \ {0} /\ tried \in Seq(SUBSET Intents) /\ Len(tried) = n
    BY DEF NothingMissed
  <1>2. Looked(w) = [tried EXCEPT ![n] = @ \cup {w}]
    BY <1>1 DEF Looked
  <1> HIDE DEF n
  <1>3. n \in 1..n /\ tried[n] \cup {w} \in SUBSET Intents
    BY <1>1
  <1>4. /\ Looked(w) \in Seq(SUBSET Intents) /\ Len(Looked(w)) = n
        /\ Looked(w)[n] = tried[n] \cup {w}
        /\ \A k \in 1..n : k # n => Looked(w)[k] = tried[k]
    BY <1>1, <1>2, <1>3
  <1> QED BY <1>4 DEF n

\* A cycle that is ahead stays so unless the node looked at is the next on it.
LEMMA StaysAhead ==
  ASSUME NothingMissed, path # <<>>, path \in Seq(Intents \cup {path[1]}), NEW w \in Intents,
         NEW c, Ahead(c),
         \A i \in 1..Len(path) : path'[i] = path[i],
         \A k \in 1..Len(path) : tried'[k] = Looked(w)[k],
         Len(path') \in Nat, Len(path) <= Len(path')
  PROVE  \/ Ahead(c)'
         \/ /\ Len(path) <= Len(c) /\ \A i \in 1..Len(path) : path[i] = c[i]
            /\ After(c, Len(path)) = w
  <1> DEFINE n == Len(path)
  <1>1. n \in Nat \ {0}
    OBVIOUS
  <1>2. PICK k \in 1..n : /\ k <= Len(c)
                          /\ \A i \in 1..k : path[i] = c[i]
                          /\ After(c, k) \notin tried[k]
    BY DEF Ahead
  <1>3. /\ Looked(w)[n] = tried[n] \cup {w}
        /\ \A j \in 1..n : j # n => Looked(w)[j] = tried[j]
    BY LookedFacts
  <1>4. k \in 1..Len(path') /\ \A i \in 1..k : path'[i] = c[i]
    BY <1>1, <1>2
  <1> HIDE DEF n
  <1>5. CASE After(c, k) \notin Looked(w)[k]
    <2>1. After(c, k) \notin tried'[k]
      BY <1>2, <1>5 DEF n
    <2> QED BY <1>2, <1>4, <2>1 DEF Ahead
  <1>6. CASE After(c, k) \in Looked(w)[k]
    <2>1. k = n /\ After(c, n) = w
      BY <1>2, <1>3, <1>6
    <2> QED BY <1>2, <2>1 DEF n
  <1> QED BY <1>5, <1>6

\* The cycle whose last step is looked at is found.
LEMMA CloseComplete ==
  ASSUME SearchInv, NothingMissed, Close
  PROVE  NothingMissed'
  <1> DEFINE n == Len(path)
             w == path[1]
  <1>1. /\ path # <<>> /\ Remaining # {} /\ Min(Remaining) = w
        /\ tried' = Looked(w) /\ path' = path /\ edges' = edges /\ starts' = starts /\ inside' = inside
        /\ path \in Seq(Intents \cup {path[1]}) /\ n \in Nat \ {0}
        /\ cycles \in Seq(Seq(Intents))
    BY DEF Close, SearchInv, PathSound
  <1>2. w \in Intents
    BY <1>1, RemainingFacts
  <1>3. tried' \in Seq(SUBSET Intents) /\ Len(tried') = Len(path')
    BY <1>1, <1>2, LookedFacts
  <1>4. /\ ToSet(cycles) \in SUBSET ToSet(cycles')
        /\ InBounds(n) => path \in ToSet(cycles')
    <2>1. CASE InBounds(n) /\ path \notin ToSet(cycles)
      <3>1. cycles' = Append(cycles, path)
        BY <2>1 DEF Close
      <3>2. /\ \A k \in DOMAIN cycles : k \in DOMAIN cycles' /\ cycles'[k] = cycles[k]
            /\ Len(cycles) + 1 \in DOMAIN cycles' /\ cycles'[Len(cycles) + 1] = path
        BY <1>1, <3>1
      <3> QED BY <3>2 DEF ToSet
    <2>2. CASE ~(InBounds(n) /\ path \notin ToSet(cycles))
      <3>1. cycles' = cycles
        BY <2>2 DEF Close
      <3> QED BY <2>2, <3>1
    <2> QED BY <2>1, <2>2
  <1>5. ASSUME NEW c \in AllCycles(edges)
        PROVE  c[1] \in starts' \/ c \in ToSet(cycles') \/ Ahead(c)'
    <2>1. c[1] \in starts \/ c \in ToSet(cycles) \/ Ahead(c)
      BY DEF NothingMissed
    <2>2. ASSUME Ahead(c), n <= Len(c), \A i \in 1..n : path[i] = c[i], After(c, n) = w
          PROVE  c \in ToSet(cycles')
      <3>1. /\ Len(c) \in Nat /\ 2 <= Len(c) /\ InBounds(Len(c)) /\ c \in [1..Len(c) -> Intents]
            /\ \A i, j \in 1..Len(c) : i # j => c[i] # c[j]
        BY CycleFacts
      <3>2. w = c[1]
        BY <1>1, <2>2
      <3>3. n = Len(c)
        <4>1. ASSUME n # Len(c)
              PROVE  FALSE
          <5>1. n + 1 \in 1..Len(c) /\ 1 \in 1..Len(c) /\ n + 1 # 1 /\ After(c, n) = c[n + 1]
            BY <1>1, <2>2, <3>1, <4>1 DEF After
          <5> QED BY <2>2, <3>1, <3>2, <5>1
        <4> QED BY <4>1
      <3>4. path \in [1..n -> Intents \cup {path[1]}]
        BY <1>1
      <3>5. path = c
        <4> HIDE DEF n, w
        <4> QED BY <2>2, <3>1, <3>3, <3>4
      <3> QED BY <1>4, <3>1, <3>3, <3>5
    <2>3. Ahead(c) => Ahead(c)' \/ c \in ToSet(cycles')
      <3>1. Len(path') \in Nat /\ Len(path) <= Len(path')
        BY <1>1
      <3> QED BY <1>1, <1>2, <2>2, <3>1, StaysAhead
    <2> QED BY <1>1, <1>4, <2>1, <2>3
  <1> QED BY <1>1, <1>3, <1>5 DEF NothingMissed

\* A cycle that goes on by the node looked at is ahead on the longer path.
LEMMA ExtendComplete ==
  ASSUME SearchInv, NothingMissed, Extend
  PROVE  NothingMissed'
  <1> DEFINE n == Len(path)
             w == Min(Remaining)
  <1>1. /\ path # <<>> /\ Remaining # {} /\ w # path[1]
        /\ edges' = edges /\ starts' = starts /\ inside' = inside /\ cycles' = cycles
        /\ path \in Seq(Intents \cup {path[1]}) /\ n \in Nat \ {0}
        /\ tried \in Seq(SUBSET Intents) /\ Len(tried) = n
    BY DEF Extend, SearchInv, PathSound, NothingMissed
  <1>2. w \in Intents
    BY <1>1, RemainingFacts
  <1>3. \/ MayEnter(w) /\ path' = Append(path, w) /\ tried' = Append(Looked(w), {})
        \/ ~MayEnter(w) /\ path' = path /\ tried' = Looked(w)
    BY DEF Extend
  <1> HIDE DEF w
  <1>4. /\ Looked(w) \in Seq(SUBSET Intents) /\ Len(Looked(w)) = n
    BY <1>1, <1>2, LookedFacts
  <1> HIDE DEF n
  <1>5. /\ tried' \in Seq(SUBSET Intents) /\ Len(tried') = Len(path')
        /\ Len(path') \in Nat /\ n <= Len(path')
        /\ \A i \in 1..n : path'[i] = path[i] /\ tried'[i] = Looked(w)[i]
    <2>1. CASE path' = Append(path, w) /\ tried' = Append(Looked(w), {})
      <3>1. Len(path') = n + 1 /\ \A i \in 1..n : path'[i] = path[i]
        BY <1>1, <1>2, <2>1 DEF n
      <3>2. {} \in SUBSET Intents
        OBVIOUS
      <3>3. /\ tried' \in Seq(SUBSET Intents) /\ Len(tried') = n + 1
            /\ \A i \in 1..n : tried'[i] = Looked(w)[i]
        BY <1>4, <2>1, <3>2
      <3> QED BY <1>1, <3>1, <3>3
    <2>2. CASE path' = path /\ tried' = Looked(w)
      BY <1>1, <1>4, <2>2 DEF n
    <2> QED BY <1>3, <2>1, <2>2
  <1>6. path' # <<>> /\ path'[1] = path[1]
    <2>1. 1 \in 1..n /\ Len(path') # 0
      BY <1>1, <1>5
    <2> QED BY <1>5, <2>1
  <1>7. ASSUME NEW c \in AllCycles(edges)
        PROVE  c[1] \in starts' \/ c \in ToSet(cycles') \/ Ahead(c)'
    <2>1. c[1] \in starts \/ c \in ToSet(cycles) \/ Ahead(c)
      BY DEF NothingMissed
    <2>2. ASSUME n <= Len(c), \A i \in 1..n : path[i] = c[i], After(c, n) = w
          PROVE  Ahead(c)'
      <3>1. /\ Len(c) \in Nat /\ Len(c) <= MaxLength
            /\ \A i, j \in 1..Len(c) : i # j => c[i] # c[j]
        BY CycleFacts
      <3>2. n # Len(c) /\ c[n + 1] = w
        BY <1>1, <2>2 DEF After
      <3>3. n + 1 \in 1..Len(c) /\ n < MaxLength
        BY <1>1, <2>2, <3>1, <3>2
      <3>4. \A i \in 1..n : path[i] # w
        <4>1. ASSUME NEW i \in 1..n
              PROVE  path[i] # w
          <5>1. i \in 1..Len(c) /\ i # n + 1
            BY <1>1, <3>3
          <5> QED BY <2>2, <3>1, <3>2, <3>3, <5>1
        <4> QED BY <4>1
      <3>5. MayEnter(w)
        <4>1. w \notin ToSet(path)
          BY <1>1, <3>4 DEF ToSet, n
        <4> QED BY <3>3, <4>1 DEF MayEnter, n
      <3>6. path' = Append(path, w) /\ tried' = Append(Looked(w), {})
        BY <1>3, <3>5
      <3>7. Len(path') = n + 1 /\ path'[n + 1] = w /\ tried'[n + 1] = {}
        BY <1>1, <1>2, <1>4, <3>6 DEF n
      <3>8. ASSUME NEW i \in 1..(n + 1)
            PROVE  path'[i] = c[i]
        <4>1. CASE i = n + 1
          BY <3>2, <3>7, <4>1
        <4>2. CASE i # n + 1
          <5>1. i \in 1..n
            BY <1>1, <4>2
          <5> QED BY <1>5, <2>2, <5>1
        <4> QED BY <4>1, <4>2
      <3>9. n + 1 \in 1..Len(path') /\ n + 1 <= Len(c) /\ After(c, n + 1) \notin tried'[n + 1]
        BY <1>1, <3>3, <3>7
      <3> QED BY <3>8, <3>9 DEF Ahead
    <2>3. Ahead(c) => Ahead(c)'
      BY <1>1, <1>2, <1>5, <2>2, StaysAhead DEF n
    <2> QED BY <1>1, <2>1, <2>3
  <1> QED BY <1>1, <1>5, <1>6, <1>7 DEF NothingMissed

\* Going back from a node leaves no cycle through it behind.
LEMMA BacktrackComplete ==
  ASSUME SearchInv, NothingMissed, Backtrack
  PROVE  NothingMissed'
  <1> DEFINE n == Len(path)
  <1>1. /\ path # <<>> /\ Remaining = {}
        /\ path' = SubSeq(path, 1, n - 1) /\ tried' = SubSeq(tried, 1, Len(tried) - 1)
        /\ edges' = edges /\ starts' = starts /\ inside' = inside /\ cycles' = cycles
        /\ path \in Seq(Intents \cup {path[1]}) /\ n \in Nat \ {0}
        /\ tried \in Seq(SUBSET Intents) /\ Len(tried) = n
        /\ inside = Component(edges, path[1])
    BY DEF Backtrack, SearchInv, PathSound, NothingMissed, Front
  <1>2. /\ Len(path') = n - 1
        /\ \A i \in 1..(n - 1) : path'[i] = path[i]
    BY <1>1, FrontFacts
  <1>3. /\ tried' \in Seq(SUBSET Intents) /\ Len(tried') = n - 1
        /\ \A i \in 1..(n - 1) : tried'[i] = tried[i]
    BY <1>1, FrontFacts
  <1>4. Last(path) = path[n] /\ Last(tried) = tried[n]
    BY <1>1 DEF Last
  <1> HIDE DEF n
  <1>5. path' # <<>> => path'[1] = path[1]
    <2>1. path' # <<>> => 1 \in 1..(n - 1)
      <3>1. path' # <<>> => Len(path') # 0
        <4>1. path' \in Seq(Intents \cup {path[1]})
          BY <1>1, FrontFacts DEF n
        <4> QED BY <4>1
      <3> QED BY <1>1, <1>2, <3>1
    <2> QED BY <1>2, <2>1
  <1>6. ASSUME NEW c \in AllCycles(edges)
        PROVE  c[1] \in starts' \/ c \in ToSet(cycles') \/ Ahead(c)'
    <2>1. c[1] \in starts \/ c \in ToSet(cycles) \/ Ahead(c)
      BY DEF NothingMissed
    <2>2. ASSUME Ahead(c)
          PROVE  Ahead(c)'
      <3>1. PICK k \in 1..n : /\ k <= Len(c)
                              /\ \A i \in 1..k : path[i] = c[i]
                              /\ After(c, k) \notin tried[k]
        BY <2>2 DEF Ahead, n
      <3>2. Len(c) \in Nat /\ 2 <= Len(c)
        BY CycleFacts
      <3>3. k \in 1..Len(c) /\ 1 \in 1..k /\ k \in 1..k
        BY <1>1, <3>1, <3>2
      <3>4. path[1] = c[1] /\ path[k] = c[k]
        BY <3>1, <3>3
      <3>5. k # n
        <4>1. ASSUME k = n
              PROVE  FALSE
          <5> DEFINE u == After(c, k)
          <5>1. <<c[k], u>> \in edges /\ c[1] <= u
            BY <3>3, CycleFacts
          <5>2. u \in Component(edges, c[1])
            <6>1. \E j \in 1..Len(c) : u = c[j]
              <7>1. k # Len(c) => k + 1 \in 1..Len(c)
                BY <3>2, <3>3
              <7>2. 1 \in 1..Len(c)
                BY <3>2
              <7> QED BY <7>1, <7>2 DEF After
            <6> QED BY <6>1, CycleInComponent
          <5> HIDE DEF u
          <5>3. u \notin tried[n]
            BY <3>1, <4>1 DEF u
          <5>4. u \in Remaining
            BY <1>1, <1>4, <3>4, <4>1, <5>1, <5>2, <5>3 DEF Remaining
          <5> QED BY <1>1, <5>4
        <4> QED BY <4>1
      <3>6. k \in 1..(n - 1)
        BY <1>1, <3>5
      <3>7. \A i \in 1..k : path'[i] = c[i]
        <4>1. \A i \in 1..k : i \in 1..(n - 1)
          BY <1>1, <3>6
        <4> QED BY <1>2, <3>1, <4>1
      <3>8. After(c, k) \notin tried'[k] /\ k \in 1..Len(path')
        BY <1>2, <1>3, <3>1, <3>6
      <3> QED BY <3>1, <3>7, <3>8 DEF Ahead
    <2> QED BY <1>1, <2>1, <2>2
  <1> QED BY <1>1, <1>2, <1>3, <1>5, <1>6 DEF NothingMissed

\* CompleteInv is inductive.
LEMMA CompleteInvStep ==
  ASSUME CompleteInv, [Next]_vars
  PROVE  CompleteInv'
  <1>1. SearchInv /\ SearchInv'
    BY SearchInvStep DEF CompleteInv
  <1>2. CASE BeginStart \/ Close \/ Extend \/ Backtrack
    <2>1. status = "running" /\ status' # "done"
      BY <1>2 DEF BeginStart, Close, Extend, Backtrack
    <2>2. NothingMissed
      BY <2>1 DEF CompleteInv
    <2>3. NothingMissed'
      BY <1>1, <1>2, <2>2, BeginStartComplete, CloseComplete, ExtendComplete, BacktrackComplete
    <2> QED BY <1>1, <2>1, <2>3 DEF CompleteInv
  <1>3. CASE Finish
    <2>1. /\ status = "running" /\ path = <<>> /\ starts = {}
          /\ UNCHANGED <<edges, starts, inside, path, tried, cycles>>
      BY <1>3 DEF Finish
    <2>2. NothingMissed'
      BY <2>1 DEF CompleteInv, NothingMissed, Ahead
    <2> QED BY <1>1, <2>1, <2>2 DEF CompleteInv
  <1>4. CASE TimeOut \/ Select \/ Abort
    <2>1. status' \notin {"running", "done"}
      BY <1>4 DEF TimeOut, Select, Abort
    <2> QED BY <1>1, <2>1 DEF CompleteInv
  <1>5. CASE UNCHANGED vars
    <2>1. UNCHANGED <<edges, starts, inside, path, tried, cycles, status>>
      BY <1>5 DEF vars, enumVars
    <2> QED BY <1>1, <2>1 DEF CompleteInv, NothingMissed, Ahead
  <1> QED BY <1>2, <1>3, <1>4, <1>5 DEF Next, SearchStep

\* As long as the search has not been given up, every cycle of the graph is
\* found, ahead on the path, or from a start still to come.
THEOREM CompleteInvariant == Spec => []CompleteInv
  <1>1. Init => CompleteInv
    <2> SUFFICES ASSUME Init
                 PROVE  CompleteInv
      OBVIOUS
    <2>1. /\ starts = Starts(edges) /\ path = <<>> /\ tried = <<>> /\ status = "running"
      BY DEF Init, EnumInit
    <2>2. \A c \in AllCycles(edges) : c[1] \in starts
      BY <2>1, CycleInComponent
    <2>3. NothingMissed
      BY <2>1, <2>2 DEF NothingMissed
    <2> QED BY <2>1, <2>3, SearchInvInit DEF CompleteInv
  <1>2. CompleteInv /\ [Next]_vars => CompleteInv'
    BY CompleteInvStep
  <1> QED BY <1>1, <1>2, PTL DEF Spec

\* When neither limit nor time ends the search, what it has found are exactly
\* the simple cycles of the graph within the bounds, by definition: starting
\* only from least nodes, component by component, loses none
\* (findBoundedSimpleCycles).
THEOREM DoneAlwaysMeansAll == Spec => []DoneMeansAll
  <1>1. ASSUME CompleteInv
        PROVE  DoneMeansAll
    <2> SUFFICES ASSUME status = "done"
                 PROVE  ToSet(cycles) = AllCycles(edges)
      BY DEF DoneMeansAll
    <2>1. path = <<>> /\ starts = {} /\ NothingMissed /\ SearchInv
      BY <1>1 DEF CompleteInv
    <2>2. ASSUME NEW c \in AllCycles(edges)
          PROVE  c \in ToSet(cycles)
      <3>1. ~Ahead(c)
        BY <2>1 DEF Ahead
      <3> QED BY <2>1, <3>1 DEF NothingMissed
    <2>3. ASSUME NEW c \in ToSet(cycles)
          PROVE  c \in AllCycles(edges)
      <3>1. PICK i \in DOMAIN cycles : c = cycles[i]
        BY <2>3 DEF ToSet
      <3>2. c \in Seq(Intents) /\ IsCycle(edges, c)
        BY <2>1, <3>1 DEF SearchInv, CyclesAreSound
      <3>3. Len(c) \in MinLength..MaxLength /\ c \in [1..Len(c) -> Intents]
        BY <3>2 DEF IsCycle
      <3> QED BY <3>2, <3>3 DEF AllCycles, Lists
    <2> QED BY <2>2, <2>3
  <1> QED BY <1>1, CompleteInvariant, PTL

-----------------------------------------------------------------------------
(* Sums of scores.                                                         *)

\* The element a sum takes next.
AnyOf(S) == CHOOSE x \in S : TRUE

\* f adds up scores over the subsets of all.
AddsUp(f, all, score) ==
  \A S \in SUBSET all : f[S] = IF S = {} THEN 0 ELSE score[AnyOf(S)] + f[S \ {AnyOf(S)}]

\* What is chosen from a set that is not empty is in it.
LEMMA AnyIn ==
  ASSUME NEW S, S # {}
  PROVE  AnyOf(S) \in S
  BY DEF AnyOf

\* There is only one way to add up.
LEMMA AddsUpOnce ==
  ASSUME NEW all, IsFiniteSet(all), NEW score, NEW f, AddsUp(f, all, score),
         NEW more, all \in SUBSET more, NEW g, AddsUp(g, more, score)
  PROVE  \A S \in SUBSET all : f[S] = g[S]
  <1> DEFINE T == {S \in SUBSET all : f[S] = g[S]}
  <1>1. ASSUME NEW S \in SUBSET all, \A R \in SUBSET S : R # S => R \in T
        PROVE  S \in T
    <2>1. CASE S = {}
      BY <2>1 DEF AddsUp
    <2>2. CASE S # {}
      <3> DEFINE x == AnyOf(S)
      <3>1. x \in S
        BY <2>2, AnyIn
      <3>2. S \ {x} \in SUBSET S /\ S \ {x} # S
        BY <3>1
      <3>3. f[S \ {x}] = g[S \ {x}]
        BY <1>1, <3>2
      <3>4. f[S] = score[x] + f[S \ {x}] /\ g[S] = score[x] + g[S \ {x}]
        BY <2>2 DEF AddsUp
      <3> QED BY <3>3, <3>4
    <2> QED BY <2>1, <2>2
  <1> HIDE DEF T
  <1>2. \A S \in SUBSET all : S \in T
    BY <1>1, SubsetInduction
  <1> QED BY <1>2 DEF T

\* A sum over a finite set is found by adding up.
LEMMA WeightAddsUp ==
  ASSUME NEW all, IsFiniteSet(all), NEW score, \A c \in all : score[c] \in Nat
  PROVE  \E f \in [SUBSET all -> Nat] : AddsUp(f, all, score) /\ f[all] = Weight(all, score)
  <1> DEFINE body(f, S) == IF S = {} THEN 0 ELSE score[AnyOf(S)] + f[S \ {AnyOf(S)}]
             A == [S \in SUBSET all |-> IF S = {} THEN {} ELSE S \ {AnyOf(S)}]
             H == [t \in Nat \X Nat \X SUBSET all |->
                     IF t[3] = {} THEN 0 ELSE score[AnyOf(t[3])] + t[1]]
             sum == CHOOSE f : f = [S \in SUBSET all |-> body(f, S)]
  <1>1. \A S \in SUBSET all : S # {} => AnyOf(S) \in S
    BY AnyIn
  <1>2. Descends(A, all)
    BY <1>1 DEF Descends
  <1>3. H \in [Nat \X Nat \X SUBSET all -> Nat]
    <2>1. ASSUME NEW t \in Nat \X Nat \X SUBSET all
          PROVE  (IF t[3] = {} THEN 0 ELSE score[AnyOf(t[3])] + t[1]) \in Nat
      <3>1. t[1] \in Nat /\ (t[3] # {} => score[AnyOf(t[3])] \in Nat)
        BY <1>1
      <3> QED BY <3>1
    <2> QED BY <2>1
  <1>4. PICK g : IsRecursion(g, all, Nat, 0, A, A, H)
    <2>1. 0 \in Nat
      OBVIOUS
    <2> HIDE DEF A, H
    <2> QED BY <1>2, <1>3, <2>1, SubsetRecursion
  <1>5. ASSUME NEW S \in SUBSET all
        PROVE  g[S] = body(g, S)
    <2>1. CASE S = {}
      BY <1>4, <2>1 DEF IsRecursion
    <2>2. CASE S # {}
      <3>1. A[S] = S \ {AnyOf(S)} /\ A[S] \in SUBSET all
        BY <1>2, <2>2 DEF Descends
      <3>2. <<g[A[S]], g[A[S]], S>> \in Nat \X Nat \X SUBSET all
        BY <1>4, <3>1 DEF IsRecursion
      <3>3. H[<<g[A[S]], g[A[S]], S>>] = score[AnyOf(S)] + g[A[S]]
        BY <2>2, <3>2
      <3>4. g[S] = H[<<g[A[S]], g[A[S]], S>>]
        BY <1>4, <2>2 DEF IsRecursion
      <3> QED BY <2>2, <3>1, <3>3, <3>4
    <2> QED BY <2>1, <2>2
  <1>6. g = [S \in SUBSET all |-> body(g, S)]
    <2> HIDE DEF body
    <2> QED BY <1>4, <1>5 DEF IsRecursion
  <1>7. sum = [S \in SUBSET all |-> body(sum, S)]
    <2> HIDE DEF body
    <2> QED BY <1>6
  <1>8. Weight(all, score) = sum[all]
    BY DEF Weight, MapThenSumSet, MapThenFoldSet, AnyOf, sum, body
  <1> HIDE DEF sum
  <1>9. \A S \in SUBSET all : sum[S] = body(sum, S)
    <2> HIDE DEF body
    <2> QED BY <1>7
  <1>10. AddsUp(sum, all, score) /\ AddsUp(g, all, score)
    BY <1>5, <1>9 DEF AddsUp
  <1>11. \A S \in SUBSET all : sum[S] = g[S]
    BY <1>10, AddsUpOnce
  <1>12. g \in [SUBSET all -> Nat]
    BY <1>4 DEF IsRecursion
  <1> QED BY <1>8, <1>10, <1>11, <1>12

\* The sum of the scores of the subsets of a finite set.
LEMMA WeightFacts ==
  ASSUME NEW all, IsFiniteSet(all), NEW score, \A c \in all : score[c] \in Nat
  PROVE  /\ \A S \in SUBSET all : Weight(S, score) \in Nat
         /\ Weight({}, score) = 0
         /\ \A S \in SUBSET all : S # {} =>
              Weight(S, score) = score[AnyOf(S)] + Weight(S \ {AnyOf(S)}, score)
  <1>1. PICK f \in [SUBSET all -> Nat] : AddsUp(f, all, score)
    BY WeightAddsUp
  <1>2. ASSUME NEW S \in SUBSET all
        PROVE  Weight(S, score) = f[S]
    <2>1. IsFiniteSet(S) /\ \A c \in S : score[c] \in Nat
      BY FS_Subset
    <2>2. PICK g \in [SUBSET S -> Nat] : AddsUp(g, S, score) /\ g[S] = Weight(S, score)
      BY <2>1, WeightAddsUp
    <2>3. g[S] = f[S]
      BY <1>1, <2>1, <2>2, AddsUpOnce
    <2> QED BY <2>2, <2>3
  <1>3. Weight({}, score) = 0
    BY <1>1, <1>2 DEF AddsUp
  <1>4. ASSUME NEW S \in SUBSET all, S # {}
        PROVE  Weight(S, score) = score[AnyOf(S)] + Weight(S \ {AnyOf(S)}, score)
    <2>1. f[S] = score[AnyOf(S)] + f[S \ {AnyOf(S)}]
      BY <1>1, <1>4 DEF AddsUp
    <2>2. S \ {AnyOf(S)} \in SUBSET all
      OBVIOUS
    <2> QED BY <1>2, <2>1, <2>2
  <1> QED BY <1>1, <1>2, <1>3, <1>4

\* A sum can be taken in any order.
LEMMA WeightOf ==
  ASSUME NEW all, IsFiniteSet(all), NEW score, \A c \in all : score[c] \in Nat
  PROVE  \A S \in SUBSET all : \A x \in S : Weight(S, score) = score[x] + Weight(S \ {x}, score)
  <1> DEFINE W(S) == Weight(S, score)
             T == {S \in SUBSET all : \A x \in S : W(S) = score[x] + W(S \ {x})}
  <1>0. /\ \A S \in SUBSET all : W(S) \in Nat
        /\ \A S \in SUBSET all : S # {} => W(S) = score[AnyOf(S)] + W(S \ {AnyOf(S)})
    BY WeightFacts
  <1> HIDE DEF W
  <1>1. ASSUME NEW S \in SUBSET all, \A R \in SUBSET S : R # S => R \in T
        PROVE  S \in T
    <2>1. ASSUME NEW x \in S
          PROVE  W(S) = score[x] + W(S \ {x})
      <3> DEFINE y == AnyOf(S)
      <3>1. y \in S /\ W(S) = score[y] + W(S \ {y})
        BY <1>0, AnyIn
      <3> HIDE DEF y
      <3>2. CASE x = y
        BY <3>1, <3>2
      <3>3. CASE x # y
        <4>1. /\ S \ {y} \in T /\ x \in S \ {y}
              /\ S \ {x} \in T /\ y \in S \ {x}
          BY <1>1, <3>1, <3>3
        <4>2. W(S \ {y}) = score[x] + W((S \ {y}) \ {x})
          BY <4>1
        <4>3. W(S \ {x}) = score[y] + W((S \ {x}) \ {y})
          BY <4>1
        <4>4. (S \ {y}) \ {x} = (S \ {x}) \ {y} /\ (S \ {x}) \ {y} \in SUBSET all
          OBVIOUS
        <4> DEFINE w == W((S \ {x}) \ {y})
        <4>5. w \in Nat /\ score[x] \in Nat /\ score[y] \in Nat
          BY <1>0, <3>1, <4>4
        <4>6. W(S) = score[y] + (score[x] + w) /\ W(S \ {x}) = score[y] + w
          BY <3>1, <4>2, <4>3, <4>4
        <4> HIDE DEF w
        <4> QED BY <4>5, <4>6
      <3> QED BY <3>2, <3>3
    <2> QED BY <2>1
  <1> HIDE DEF T
  <1>2. \A S \in SUBSET all : S \in T
    BY <1>1, SubsetInduction
  <1> QED BY <1>2 DEF T, W

\* The sums of two sets that are apart add up to the sum of both.
LEMMA WeightUnion ==
  ASSUME NEW all, IsFiniteSet(all), NEW score, \A c \in all : score[c] \in Nat,
         NEW R \in SUBSET all
  PROVE  \A S \in SUBSET all : S \cap R = {} =>
           Weight(S \cup R, score) = Weight(S, score) + Weight(R, score)
  <1> DEFINE W(S) == Weight(S, score)
             T == {S \in SUBSET all : S \cap R = {} => W(S \cup R) = W(S) + W(R)}
  <1>0. /\ \A S \in SUBSET all : W(S) \in Nat
        /\ W({}) = 0
        /\ \A S \in SUBSET all : \A x \in S : W(S) = score[x] + W(S \ {x})
    BY WeightFacts, WeightOf
  <1> HIDE DEF W
  <1>1. ASSUME NEW S \in SUBSET all, \A Q \in SUBSET S : Q # S => Q \in T
        PROVE  S \in T
    <2> SUFFICES ASSUME S \cap R = {}
                 PROVE  W(S \cup R) = W(S) + W(R)
      OBVIOUS
    <2>1. CASE S = {}
      <3>1. S \cup R = R
        BY <2>1
      <3> QED BY <1>0, <2>1, <3>1
    <2>2. CASE S # {}
      <3>1. PICK x \in S : TRUE
        BY <2>2
      <3>2. W(S) = score[x] + W(S \ {x})
        BY <1>0
      <3>3. W(S \cup R) = score[x] + W((S \cup R) \ {x})
        <4>1. S \cup R \in SUBSET all /\ x \in S \cup R
          OBVIOUS
        <4> QED BY <1>0, <4>1
      <3>4. (S \cup R) \ {x} = (S \ {x}) \cup R
        OBVIOUS
      <3>5. W((S \ {x}) \cup R) = W(S \ {x}) + W(R)
        <4>1. S \ {x} \in T /\ (S \ {x}) \cap R = {}
          BY <1>1
        <4> QED BY <4>1
      <3>6. W(S \ {x}) \in Nat /\ W(R) \in Nat /\ score[x] \in Nat
        BY <1>0
      <3> QED BY <3>2, <3>3, <3>4, <3>5, <3>6
    <2> QED BY <2>1, <2>2
  <1> HIDE DEF T
  <1>2. \A S \in SUBSET all : S \in T
    BY <1>1, SubsetInduction
  <1> QED BY <1>2 DEF T, W

-----------------------------------------------------------------------------
(* The selection.                                                          *)

\* No two candidates share an intent.
Apart(S) == \A c, d \in S : ~Conflict(c, d)

\* The candidates all have a score and an id.
Ordered(S, score) == \A c \in S : score[c] \in Nat /\ IdOf(c) \in Nat

\* The order of candidates is total and transitive.
LEMMA PrecedesFacts ==
  ASSUME NEW S, NEW score, Ordered(S, score), NEW c \in S, NEW d \in S
  PROVE  /\ Precedes(c, d, score) \/ Precedes(d, c, score)
         /\ Precedes(c, c, score)
         /\ \A e \in S : Precedes(c, d, score) /\ Precedes(d, e, score) => Precedes(c, e, score)
  <1>1. \A e \in S : score[e] \in Nat /\ IdOf(e) \in Nat
    BY DEF Ordered
  <1>2. Precedes(c, d, score) \/ Precedes(d, c, score)
    BY <1>1 DEF Precedes
  <1>3. Precedes(c, c, score)
    BY <1>1 DEF Precedes
  <1>4. ASSUME NEW e \in S, Precedes(c, d, score), Precedes(d, e, score)
        PROVE  Precedes(c, e, score)
    BY <1>1, <1>4 DEF Precedes
  <1> QED BY <1>2, <1>3, <1>4

\* Of candidates there is one that comes first.
LEMMA FirstIn ==
  ASSUME NEW all, IsFiniteSet(all), NEW score, Ordered(all, score)
  PROVE  \A S \in SUBSET all : S # {} => First(S, score) \in S
  <1> DEFINE Has(S) == S # {} => \E c \in S : \A d \in S : Precedes(c, d, score)
             T == {S \in SUBSET all : Has(S)}
  <1>1. ASSUME NEW S \in SUBSET all, \A R \in SUBSET S : R # S => R \in T
        PROVE  S \in T
    <2>1. CASE S = {}
      BY <2>1
    <2>2. CASE S # {}
      <3>1. PICK c \in S : TRUE
        BY <2>2
      <3>2. S \ {c} \in SUBSET S /\ S \ {c} # S
        BY <3>1
      <3>3. Has(S \ {c})
        BY <1>1, <3>2
      <3>4. CASE S \ {c} = {}
        <4>1. \A d \in S : d = c
          BY <3>4
        <4>2. Precedes(c, c, score)
          BY PrecedesFacts
        <4> QED BY <4>1, <4>2
      <3>5. CASE S \ {c} # {}
        <4>1. PICK b \in S \ {c} : \A d \in S \ {c} : Precedes(b, d, score)
          BY <3>3, <3>5
        <4>2. CASE Precedes(b, c, score)
          <5>1. \A d \in S : Precedes(b, d, score)
            BY <4>1, <4>2
          <5> QED BY <4>1, <5>1
        <4>3. CASE ~Precedes(b, c, score)
          <5>1. Precedes(c, b, score) /\ Precedes(c, c, score)
            BY <4>1, <4>3, PrecedesFacts
          <5>2. \A d \in S \ {c} : Precedes(c, d, score)
            BY <4>1, <5>1, PrecedesFacts
          <5>3. \A d \in S : Precedes(c, d, score)
            BY <5>1, <5>2
          <5> QED BY <3>1, <5>3
        <4> QED BY <4>2, <4>3
      <3> QED BY <3>4, <3>5
    <2> QED BY <2>1, <2>2
  <1> HIDE DEF T
  <1>2. \A S \in SUBSET all : S \in T
    BY <1>1, SubsetInduction
  <1>3. ASSUME NEW S \in SUBSET all, S # {}
        PROVE  First(S, score) \in S
    <2>1. \E c \in S : \A d \in S : Precedes(c, d, score)
      BY <1>2, <1>3 DEF T
    <2> QED BY <2>1 DEF First
  <1> QED BY <1>3

\* Taking the first or leaving it, step by step, ends in picks that are apart.
LEMMA PicksApart ==
  ASSUME NEW all, IsFiniteSet(all), NEW score, Ordered(all, score), NEW g,
         g[{}] = {},
         \A S \in SUBSET all : S # {} =>
           \/ g[S] = {First(S, score)} \cup g[Rest(First(S, score), S)]
           \/ g[S] = g[S \ {First(S, score)}]
  PROVE  \A S \in SUBSET all : g[S] \in SUBSET S /\ Apart(g[S])
  <1> DEFINE T == {S \in SUBSET all : g[S] \in SUBSET S /\ Apart(g[S])}
  <1>1. ASSUME NEW S \in SUBSET all, \A R \in SUBSET S : R # S => R \in T
        PROVE  S \in T
    <2>1. CASE S = {}
      BY <2>1 DEF Apart
    <2>2. CASE S # {}
      <3> DEFINE c == First(S, score)
      <3>1. c \in S
        BY <2>2, FirstIn
      <3>2. \/ g[S] = {c} \cup g[Rest(c, S)]
            \/ g[S] = g[S \ {c}]
        BY <2>2
      <3> HIDE DEF c
      <3>3. CASE g[S] = {c} \cup g[Rest(c, S)]
        <4>1. Rest(c, S) \in SUBSET S /\ Rest(c, S) # S
          BY <3>1 DEF Rest
        <4>2. g[Rest(c, S)] \in SUBSET Rest(c, S) /\ Apart(g[Rest(c, S)])
          BY <1>1, <4>1
        <4>3. \A d \in g[Rest(c, S)] : ~Conflict(c, d) /\ ~Conflict(d, c)
          BY <4>2 DEF Rest, Conflict
        <4>4. ~Conflict(c, c)
          BY DEF Conflict
        <4>5. Apart(g[S])
          BY <3>3, <4>2, <4>3, <4>4 DEF Apart
        <4> QED BY <3>1, <3>3, <4>1, <4>2, <4>5
      <3>4. CASE g[S] = g[S \ {c}]
        <4>1. S \ {c} \in SUBSET S /\ S \ {c} # S
          BY <3>1
        <4>2. g[S \ {c}] \in SUBSET (S \ {c}) /\ Apart(g[S \ {c}])
          BY <1>1, <4>1
        <4> QED BY <3>4, <4>2
      <3> QED BY <3>2, <3>3, <3>4
    <2> QED BY <2>1, <2>2
  <1> HIDE DEF T
  <1>2. \A S \in SUBSET all : S \in T
    BY <1>1, SubsetInduction
  <1> QED BY <1>2 DEF T

\* The greedy search is a recursion over what is left.
GreedyStep(g, all, score) ==
  /\ g[{}] = {}
  /\ \A S \in SUBSET all : S # {} =>
       g[S] = {First(S, score)} \cup g[Rest(First(S, score), S)]

\* There is such a recursion, and it gives what the search picks.
LEMMA GreedyRecursion ==
  ASSUME NEW all, IsFiniteSet(all), NEW score, Ordered(all, score)
  PROVE  \E g : GreedyStep(g, all, score) /\ Greedy(all, score) = g[all]
  <1> DEFINE first(S) == First(S, score)
             body(g, S) == IF S = {} THEN {} ELSE {first(S)} \cup g[Rest(first(S), S)]
             A == [S \in SUBSET all |-> IF S = {} THEN {} ELSE Rest(first(S), S)]
             X == SUBSET all
             H == [t \in X \X X \X SUBSET all |->
                     IF t[3] = {} THEN {} ELSE {first(t[3])} \cup t[1]]
             pick == CHOOSE g : g = [S \in SUBSET all |-> body(g, S)]
  <1>1. \A S \in SUBSET all : S # {} => first(S) \in S
    BY FirstIn
  <1> HIDE DEF first
  <1>2. Descends(A, all)
    BY <1>1 DEF Rest, Descends
  <1>3. H \in [X \X X \X SUBSET all -> X]
    BY <1>1
  <1>4. PICK g : IsRecursion(g, all, X, {}, A, A, H)
    <2>1. {} \in X
      OBVIOUS
    <2> HIDE DEF A, H, X
    <2> QED BY <1>2, <1>3, <2>1, SubsetRecursion
  <1>5. ASSUME NEW S \in SUBSET all
        PROVE  g[S] = body(g, S)
    <2>1. CASE S = {}
      BY <1>4, <2>1 DEF IsRecursion
    <2>2. CASE S # {}
      <3>1. A[S] = Rest(first(S), S) /\ A[S] \in SUBSET all
        BY <1>2, <2>2 DEF Descends
      <3>2. <<g[A[S]], g[A[S]], S>> \in X \X X \X SUBSET all
        BY <1>4, <3>1 DEF IsRecursion
      <3>3. H[<<g[A[S]], g[A[S]], S>>] = {first(S)} \cup g[A[S]]
        BY <2>2, <3>2
      <3>4. g[S] = H[<<g[A[S]], g[A[S]], S>>]
        BY <1>4, <2>2 DEF IsRecursion
      <3> QED BY <2>2, <3>1, <3>3, <3>4
    <2> QED BY <2>1, <2>2
  <1>6. g = [S \in SUBSET all |-> body(g, S)]
    <2> HIDE DEF body
    <2> QED BY <1>4, <1>5 DEF IsRecursion
  <1>7. pick = [S \in SUBSET all |-> body(pick, S)]
    <2> HIDE DEF body
    <2> QED BY <1>6
  <1> HIDE DEF pick
  <1>8. Greedy(all, score) = pick[all]
    BY DEF Greedy, pick, first
  <1>9. \A S \in SUBSET all : pick[S] = body(pick, S)
    <2> HIDE DEF body
    <2> QED BY <1>7
  <1>10. pick[{}] = {} /\ \A S \in SUBSET all : S # {} => pick[S] = {first(S)} \cup pick[Rest(first(S), S)]
    BY <1>9
  <1>11. GreedyStep(pick, all, score)
    BY <1>10 DEF GreedyStep, first
  <1> QED BY <1>8, <1>11

\* What the greedy search picks is apart, and whatever it does not pick shares
\* an intent with something it does.
LEMMA GreedyApart ==
  ASSUME NEW all, IsFiniteSet(all), NEW score, Ordered(all, score)
  PROVE  /\ Greedy(all, score) \in SUBSET all /\ Apart(Greedy(all, score))
         /\ \A c \in all \ Greedy(all, score) : \E d \in Greedy(all, score) : Conflict(c, d)
  <1>1. PICK g : GreedyStep(g, all, score) /\ Greedy(all, score) = g[all]
    BY GreedyRecursion
  <1>2. \A S \in SUBSET all : g[S] \in SUBSET S /\ Apart(g[S])
    BY <1>1, PicksApart DEF GreedyStep
  <1> DEFINE T == {S \in SUBSET all : \A c \in S \ g[S] : \E d \in g[S] : Conflict(c, d)}
  <1>3. ASSUME NEW S \in SUBSET all, \A R \in SUBSET S : R # S => R \in T
        PROVE  S \in T
    <2>1. ASSUME NEW c \in S \ g[S]
          PROVE  \E d \in g[S] : Conflict(c, d)
      <3> DEFINE a == First(S, score)
      <3>1. a \in S
        BY FirstIn
      <3>2. g[S] = {a} \cup g[Rest(a, S)]
        BY <1>1 DEF GreedyStep
      <3> HIDE DEF a
      <3>3. CASE c \in Rest(a, S)
        <4>1. Rest(a, S) \in SUBSET S /\ Rest(a, S) # S
          BY <3>1 DEF Rest
        <4>2. Rest(a, S) \in T
          BY <1>3, <4>1
        <4>3. \E d \in g[Rest(a, S)] : Conflict(c, d)
          BY <3>2, <3>3, <4>2
        <4> QED BY <3>2, <4>3
      <3>4. CASE c \notin Rest(a, S)
        <4>1. Conflict(a, c)
          BY <3>2, <3>4 DEF Rest
        <4>2. Conflict(c, a)
          BY <4>1 DEF Conflict
        <4> QED BY <3>2, <4>2
      <3> QED BY <3>3, <3>4
    <2> QED BY <2>1
  <1> HIDE DEF T
  <1>4. \A S \in SUBSET all : S \in T
    BY <1>3, SubsetInduction
  <1> QED BY <1>1, <1>2, <1>4 DEF T

\* The exact search is a recursion: the better of taking and of leaving.
ExactStep(g, all, score) ==
  /\ g[{}] = {}
  /\ \A S \in SUBSET all : S # {} =>
       LET c    == First(S, score)
           take == {c} \cup g[Rest(c, S)]
           skip == g[S \ {c}]
       IN  g[S] = IF Better(take, skip, score) THEN take ELSE skip

\* There is such a recursion, and it gives what the search picks.
LEMMA ExactRecursion ==
  ASSUME NEW all, IsFiniteSet(all), NEW score, Ordered(all, score)
  PROVE  \E g : ExactStep(g, all, score) /\ Exact(all, score) = g[all]
  <1> DEFINE first(S) == First(S, score)
             better(S, T) == IF Better(S, T, score) THEN S ELSE T
             body(g, S) == IF S = {} THEN {}
                           ELSE better({first(S)} \cup g[Rest(first(S), S)], g[S \ {first(S)}])
             A == [S \in SUBSET all |-> IF S = {} THEN {} ELSE Rest(first(S), S)]
             B == [S \in SUBSET all |-> IF S = {} THEN {} ELSE S \ {first(S)}]
             X == SUBSET all
             H == [t \in X \X X \X SUBSET all |->
                     IF t[3] = {} THEN {} ELSE better({first(t[3])} \cup t[1], t[2])]
             solve == CHOOSE g : g = [S \in SUBSET all |-> body(g, S)]
  <1>1. \A S \in SUBSET all : S # {} => first(S) \in S
    BY FirstIn
  <1>2. \A S, T : better(S, T) = S \/ better(S, T) = T
    OBVIOUS
  <1> HIDE DEF first, better
  <1>3. Descends(A, all) /\ Descends(B, all)
    BY <1>1 DEF Rest, Descends
  <1>4. H \in [X \X X \X SUBSET all -> X]
    <2>1. ASSUME NEW t \in X \X X \X SUBSET all
          PROVE  (IF t[3] = {} THEN {} ELSE better({first(t[3])} \cup t[1], t[2])) \in X
      <3>1. t[1] \in X /\ t[2] \in X /\ t[3] \in SUBSET all
        OBVIOUS
      <3>2. t[3] # {} => {first(t[3])} \cup t[1] \in X
        BY <1>1, <3>1
      <3>3. t[3] # {} => better({first(t[3])} \cup t[1], t[2]) \in X
        BY <1>2, <3>1, <3>2
      <3> QED BY <3>3
    <2> QED BY <2>1
  <1>5. PICK g : IsRecursion(g, all, X, {}, A, B, H)
    <2>1. {} \in X
      OBVIOUS
    <2> HIDE DEF A, B, H, X
    <2> QED BY <1>3, <1>4, <2>1, SubsetRecursion
  <1>6. ASSUME NEW S \in SUBSET all
        PROVE  g[S] = body(g, S)
    <2>1. CASE S = {}
      BY <1>5, <2>1 DEF IsRecursion
    <2>2. CASE S # {}
      <3>1. /\ A[S] = Rest(first(S), S) /\ A[S] \in SUBSET all
            /\ B[S] = S \ {first(S)} /\ B[S] \in SUBSET all
        BY <1>3, <2>2 DEF Descends
      <3>2. <<g[A[S]], g[B[S]], S>> \in X \X X \X SUBSET all
        BY <1>5, <3>1 DEF IsRecursion
      <3>3. H[<<g[A[S]], g[B[S]], S>>] = better({first(S)} \cup g[A[S]], g[B[S]])
        BY <2>2, <3>2
      <3>4. g[S] = H[<<g[A[S]], g[B[S]], S>>]
        BY <1>5, <2>2 DEF IsRecursion
      <3> QED BY <2>2, <3>1, <3>3, <3>4
    <2> QED BY <2>1, <2>2
  <1>7. g = [S \in SUBSET all |-> body(g, S)]
    <2> HIDE DEF body
    <2> QED BY <1>5, <1>6 DEF IsRecursion
  <1>8. solve = [S \in SUBSET all |-> body(solve, S)]
    <2> HIDE DEF body
    <2> QED BY <1>7
  <1> HIDE DEF solve
  <1>9. Exact(all, score) = solve[all]
    BY DEF Exact, solve, first, better
  <1>10. \A S \in SUBSET all : solve[S] = body(solve, S)
    <2> HIDE DEF body
    <2> QED BY <1>8
  <1>11. solve[{}] = {}
    BY <1>10
  <1>12. \A S \in SUBSET all : S # {} =>
           solve[S] = better({first(S)} \cup solve[Rest(first(S), S)], solve[S \ {first(S)}])
    BY <1>10
  <1>13. ExactStep(solve, all, score)
    BY <1>11, <1>12 DEF ExactStep, first, better
  <1> QED BY <1>9, <1>13

\* What the exact search picks is apart, and no picks from the same candidates
\* that are apart score more.
LEMMA ExactBest ==
  ASSUME NEW all, IsFiniteSet(all), NEW score, Ordered(all, score)
  PROVE  /\ Exact(all, score) \in SUBSET all /\ Apart(Exact(all, score))
         /\ \A P \in SUBSET all : Apart(P) => Weight(P, score) <= Weight(Exact(all, score), score)
  <1>1. PICK g : ExactStep(g, all, score) /\ Exact(all, score) = g[all]
    BY ExactRecursion
  <1> DEFINE W(S) == Weight(S, score)
             take(S) == {First(S, score)} \cup g[Rest(First(S, score), S)]
             skip(S) == g[S \ {First(S, score)}]
  <1>2. \A S \in SUBSET all : S # {} => g[S] = IF Better(take(S), skip(S), score) THEN take(S) ELSE skip(S)
    BY <1>1 DEF ExactStep
  <1>3. \A S \in SUBSET all : g[S] \in SUBSET S /\ Apart(g[S])
    <2>1. \A S \in SUBSET all : S # {} => \/ g[S] = {First(S, score)} \cup g[Rest(First(S, score), S)]
                                         \/ g[S] = g[S \ {First(S, score)}]
      BY <1>2
    <2>2. g[{}] = {}
      BY <1>1 DEF ExactStep
    <2> QED BY <2>1, <2>2, PicksApart
  <1>4. \A c \in all : score[c] \in Nat
    BY DEF Ordered
  <1>5. /\ \A S \in SUBSET all : W(S) \in Nat
        /\ \A S \in SUBSET all : \A x \in S : W(S) = score[x] + W(S \ {x})
    BY <1>4, WeightFacts, WeightOf
  <1> DEFINE T == {S \in SUBSET all : \A P \in SUBSET S : Apart(P) => W(P) <= W(g[S])}
  <1>6. \A S, R : Better(S, R, score) => W(S) > W(R) \/ W(S) = W(R)
    BY DEF Better
  <1>7. \A S, R : ~Better(S, R, score) => ~(W(S) > W(R))
    BY DEF Better
  <1> HIDE DEF W
  <1>8. ASSUME NEW S \in SUBSET all, \A R \in SUBSET S : R # S => R \in T
        PROVE  S \in T
    <2>1. CASE S = {}
      <3>1. \A P \in SUBSET S : P = {} /\ g[S] = {}
        BY <1>3, <2>1
      <3>2. W({}) <= W({})
        <4>1. {} \in SUBSET all
          OBVIOUS
        <4>2. W({}) \in Nat
          BY <1>5, <4>1
        <4> QED BY <4>2
      <3> QED BY <3>1, <3>2
    <2>2. ASSUME S # {}, NEW P \in SUBSET S, Apart(P)
          PROVE  W(P) <= W(g[S])
      <3> DEFINE c == First(S, score)
                 taken == take(S)
                 skipped == skip(S)
      <3>1. c \in S
        BY <2>2, FirstIn
      <3>2. taken = {c} \cup g[Rest(c, S)] /\ skipped = g[S \ {c}]
        OBVIOUS
      <3>3. g[S] = IF Better(taken, skipped, score) THEN taken ELSE skipped
        BY <1>2, <2>2
      <3> HIDE DEF c, taken, skipped
      <3>4. Rest(c, S) \in SUBSET (S \ {c}) /\ Rest(c, S) # S /\ S \ {c} # S
        BY <3>1 DEF Rest
      <3>5. g[Rest(c, S)] \in SUBSET Rest(c, S) /\ skipped \in SUBSET S
        BY <1>3, <3>2, <3>4
      <3>6. taken \in SUBSET all /\ skipped \in SUBSET all /\ P \in SUBSET all
        BY <3>1, <3>2, <3>4, <3>5
      <3>7. W(taken) \in Nat /\ W(skipped) \in Nat /\ W(P) \in Nat
        BY <1>5, <3>6
      <3>8. W(taken) <= W(g[S]) /\ W(skipped) <= W(g[S])
        <4>1. CASE Better(taken, skipped, score)
          <5>1. W(taken) > W(skipped) \/ W(taken) = W(skipped)
            BY <1>6, <4>1
          <5>2. g[S] = taken
            BY <3>3, <4>1
          <5> QED BY <3>7, <5>1, <5>2
        <4>2. CASE ~Better(taken, skipped, score)
          <5>1. ~(W(taken) > W(skipped))
            BY <1>7, <4>2
          <5>2. g[S] = skipped
            BY <3>3, <4>2
          <5> QED BY <3>7, <5>1, <5>2
        <4> QED BY <4>1, <4>2
      <3>9. W(g[S]) \in Nat
        BY <3>3, <3>7
      <3>10. CASE c \notin P
        <4>1. P \in SUBSET (S \ {c}) /\ S \ {c} \in T
          BY <1>8, <3>4, <3>10
        <4>2. W(P) <= W(skipped)
          BY <2>2, <3>2, <4>1
        <4> QED BY <3>7, <3>8, <3>9, <4>2
      <3>11. CASE c \in P
        <4>1. P \ {c} \in SUBSET Rest(c, S) /\ Apart(P \ {c})
          BY <2>2, <3>11 DEF Rest, Apart
        <4>2. Rest(c, S) \in T
          BY <1>8, <3>4
        <4>3. W(P \ {c}) <= W(g[Rest(c, S)])
          BY <4>1, <4>2
        <4>4. W(P) = score[c] + W(P \ {c})
          BY <1>5, <3>6, <3>11
        <4>5. W(taken) = score[c] + W(g[Rest(c, S)])
          <5>1. taken \ {c} = g[Rest(c, S)] /\ c \in taken
            BY <3>2, <3>4, <3>5
          <5> QED BY <1>5, <3>6, <5>1
        <4>6. /\ W(P \ {c}) \in Nat /\ W(g[Rest(c, S)]) \in Nat /\ score[c] \in Nat
          <5>1. P \ {c} \in SUBSET all /\ g[Rest(c, S)] \in SUBSET all /\ c \in all
            BY <3>1, <3>4, <3>5, <3>6
          <5> QED BY <1>4, <1>5, <5>1
        <4>7. W(P) <= W(taken)
          BY <4>3, <4>4, <4>5, <4>6
        <4> QED BY <3>7, <3>8, <3>9, <4>7
      <3> QED BY <3>10, <3>11
    <2> QED BY <2>1, <2>2
  <1> HIDE DEF T
  <1>9. \A S \in SUBSET all : S \in T
    BY <1>8, SubsetInduction
  <1>10. \A P \in SUBSET all : Apart(P) => W(P) <= W(Exact(all, score))
    BY <1>1, <1>9 DEF T
  <1> QED BY <1>1, <1>3, <1>10 DEF W

\* A component is left by no conflict, and is in every set of candidates with
\* its candidate that is left by none.
LEMMA ComponentFacts ==
  ASSUME NEW cs, NEW c \in cs
  PROVE  LET K == ConflictComponent(cs, c)
             Closed(S) == \A d \in S, e \in cs : Conflict(d, e) => e \in S
         IN  /\ K \in SUBSET cs /\ c \in K /\ Closed(K)
             /\ \A S \in SUBSET cs : c \in S /\ Closed(S) => K \in SUBSET S
  BY DEF ConflictComponent

\* Components that meet are the same.
LEMMA ComponentsApart ==
  ASSUME NEW cs, NEW c \in cs, NEW d \in cs,
         NEW e \in ConflictComponent(cs, c), e \in ConflictComponent(cs, d)
  PROVE  ConflictComponent(cs, c) \in SUBSET ConflictComponent(cs, d)
  <1> DEFINE K == ConflictComponent(cs, c)
             L == ConflictComponent(cs, d)
  <1>1. /\ K \in SUBSET cs /\ c \in K
        /\ \A a \in K, b \in cs : Conflict(a, b) => b \in K
        /\ \A S \in SUBSET cs :
             c \in S /\ (\A a \in S, b \in cs : Conflict(a, b) => b \in S) => K \in SUBSET S
    BY ComponentFacts
  <1>2. /\ L \in SUBSET cs
        /\ \A a \in L, b \in cs : Conflict(a, b) => b \in L
    BY ComponentFacts
  <1>3. e \in K /\ e \in L
    OBVIOUS
  <1> HIDE DEF K, L
  <1>4. \A a, b : Conflict(a, b) => Conflict(b, a)
    BY DEF Conflict
  <1>5. CASE c \in L
    BY <1>1, <1>2, <1>5 DEF K, L
  <1>6. CASE c \notin L
    <2>1. \A a \in K \ L, b \in cs : Conflict(a, b) => b \in K \ L
      BY <1>1, <1>2, <1>4
    <2>2. K \ L \in SUBSET cs /\ c \in K \ L
      BY <1>1, <1>6
    <2>3. K \in SUBSET (K \ L)
      BY <1>1, <2>1, <2>2
    <2> QED BY <1>3, <2>3
  <1> QED BY <1>5, <1>6

\* The picks from a component are apart, none of positive score is missing
\* that would fit, and they are the best where the component is small enough.
LEMMA PickFromFacts ==
  ASSUME NEW K, IsFiniteSet(K), NEW score, Ordered(K, score), NEW P, P = PickFrom(K, score)
  PROVE  /\ P \in SUBSET K /\ Apart(P)
         /\ \A c \in K \ P : score[c] > 0 => \E d \in P : Conflict(c, d)
         /\ Cardinality(K) <= ExactMax =>
              \A S \in SUBSET K : Apart(S) => Weight(S, score) <= Weight(P, score)
  <1>1. CASE Cardinality(K) <= ExactMax
    <2>1. P = Exact(K, score)
      BY <1>1 DEF PickFrom
    <2>2. /\ P \in SUBSET K /\ Apart(P)
          /\ \A S \in SUBSET K : Apart(S) => Weight(S, score) <= Weight(P, score)
      BY <2>1, ExactBest
    <2>3. ASSUME NEW c \in K \ P, score[c] > 0, \A d \in P : ~Conflict(c, d)
          PROVE  FALSE
      <3> DEFINE more == P \cup {c}
      <3>1. Apart(more)
        <4>1. \A d \in P : ~Conflict(d, c)
          BY <2>3 DEF Conflict
        <4>2. ~Conflict(c, c)
          BY DEF Conflict
        <4> QED BY <2>2, <2>3, <4>1, <4>2 DEF Apart
      <3>2. more \in SUBSET K /\ c \in more /\ more \ {c} = P
        BY <2>2
      <3> HIDE DEF more
      <3>3. \A d \in K : score[d] \in Nat
        BY DEF Ordered
      <3>4. Weight(more, score) = score[c] + Weight(P, score)
        BY <3>2, <3>3, WeightOf
      <3>5. Weight(P, score) \in Nat /\ score[c] \in Nat
        BY <2>2, <3>3, WeightFacts
      <3>6. Weight(more, score) <= Weight(P, score)
        BY <2>2, <3>1, <3>2
      <3> QED BY <2>3, <3>4, <3>5, <3>6
    <2> QED BY <2>2, <2>3
  <1>2. CASE ~(Cardinality(K) <= ExactMax)
    <2>1. P = Greedy(K, score)
      BY <1>2 DEF PickFrom
    <2> QED BY <1>2, <2>1, GreedyApart
  <1> QED BY <1>1, <1>2

\* The selection has from each component just what is picked from it.
LEMMA SelectionByComponent ==
  ASSUME NEW cs, IsFiniteSet(cs), NEW score, Ordered(cs, score),
         NEW P, P = Selection(cs, score), NEW c \in Candidates(cs)
  PROVE  LET K == ConflictComponent(Candidates(cs), c)
         IN  /\ IsFiniteSet(K) /\ Ordered(K, score)
             /\ K \in SUBSET Candidates(cs)
             /\ P \cap K = PickFrom(K, score)
  <1> DEFINE candidates == Candidates(cs)
             Of(x) == ConflictComponent(candidates, x)
             Picks(x) == PickFrom(Of(x), score)
  <1>1. candidates \in SUBSET cs
    BY DEF Candidates
  <1>2. P = UNION {Picks(x) : x \in candidates} /\ c \in candidates
    BY DEF Selection
  <1> HIDE DEF candidates
  <1>3. ASSUME NEW x \in candidates
        PROVE  /\ IsFiniteSet(Of(x)) /\ Ordered(Of(x), score)
               /\ Of(x) \in SUBSET candidates
               /\ Picks(x) \in SUBSET Of(x)
    <2> DEFINE K == Of(x)
    <2>1. K \in SUBSET candidates
      BY ComponentFacts
    <2> HIDE DEF K
    <2>2. IsFiniteSet(K) /\ Ordered(K, score)
      BY <1>1, <2>1, FS_Subset DEF Ordered
    <2>3. PickFrom(K, score) \in SUBSET K
      BY <2>2, PickFromFacts
    <2> QED BY <2>1, <2>2, <2>3 DEF K
  <1>4. ASSUME NEW x \in candidates, NEW d \in Picks(x), d \in Of(c)
        PROVE  d \in Picks(c)
    <2>1. d \in Of(x) /\ d \in Of(c)
      BY <1>3, <1>4
    <2>2. Of(x) \in SUBSET Of(c) /\ Of(c) \in SUBSET Of(x)
      BY <1>2, <2>1, ComponentsApart
    <2>3. Of(x) = Of(c)
      BY <2>2
    <2> QED BY <2>3
  <1> HIDE DEF Picks, Of
  <1>5. P \cap Of(c) = Picks(c)
    BY <1>2, <1>3, <1>4
  <1> QED BY <1>2, <1>3, <1>5 DEF Picks, Of, candidates

\* What is selected are candidates of which no two share an intent, and no
\* other of positive score would fit.
LEMMA SelectionApart ==
  ASSUME NEW cs, IsFiniteSet(cs), NEW score, Ordered(cs, score),
         NEW P, P = Selection(cs, score)
  PROVE  /\ P \in SUBSET Candidates(cs) /\ Apart(P)
         /\ \A c \in Candidates(cs) \ P : score[c] > 0 => \E d \in P : Conflict(c, d)
  <1> DEFINE candidates == Candidates(cs)
             Of(x) == ConflictComponent(candidates, x)
  <1>1. ASSUME NEW c \in candidates
        PROVE  /\ Of(c) \in SUBSET candidates /\ c \in Of(c)
               /\ \A d \in candidates : Conflict(c, d) => d \in Of(c)
               /\ PickFrom(Of(c), score) = P \cap Of(c)
               /\ Apart(P \cap Of(c))
               /\ \A b \in Of(c) \ P : score[b] > 0 => \E d \in P : Conflict(b, d)
    <2> DEFINE K == Of(c)
    <2>1. IsFiniteSet(K) /\ Ordered(K, score) /\ P \cap K = PickFrom(K, score)
      BY SelectionByComponent
    <2>2. K \in SUBSET candidates /\ c \in K /\ \A d \in candidates : Conflict(c, d) => d \in K
      BY ComponentFacts
    <2> HIDE DEF K
    <2>3. Apart(P \cap K) /\ \A b \in K \ (P \cap K) : score[b] > 0 => \E d \in P \cap K : Conflict(b, d)
      BY <2>1, PickFromFacts
    <2>4. \A b \in K \ P : score[b] > 0 => \E d \in P : Conflict(b, d)
      BY <2>3
    <2> QED BY <2>1, <2>2, <2>3, <2>4 DEF K
  <1>2. P \in SUBSET candidates
    <2>1. P = UNION {PickFrom(Of(x), score) : x \in candidates}
      BY DEF Selection
    <2> HIDE DEF candidates, Of
    <2>2. \A x \in candidates : PickFrom(Of(x), score) \in SUBSET candidates
      BY <1>1
    <2> QED BY <2>1, <2>2
  <1> HIDE DEF candidates, Of
  <1>3. Apart(P)
    <2>1. ASSUME NEW c \in P, NEW d \in P, Conflict(c, d)
          PROVE  FALSE
      <3>1. c \in P \cap Of(c) /\ d \in P \cap Of(c) /\ Apart(P \cap Of(c))
        BY <1>1, <1>2, <2>1
      <3> QED BY <2>1, <3>1 DEF Apart
    <2> QED BY <2>1 DEF Apart
  <1>4. \A c \in candidates \ P : score[c] > 0 => \E d \in P : Conflict(c, d)
    BY <1>1
  <1> QED BY <1>2, <1>3, <1>4 DEF candidates

\* Where all components are small enough, no candidates that share no intent
\* score more than what is selected.
LEMMA SelectionBest ==
  ASSUME NEW cs, IsFiniteSet(cs), NEW score, Ordered(cs, score),
         NEW P, P = Selection(cs, score),
         \A c \in Candidates(cs) : Cardinality(ConflictComponent(Candidates(cs), c)) <= ExactMax,
         NEW S \in SUBSET Candidates(cs), Apart(S)
  PROVE  Weight(S, score) <= Weight(P, score)
  <1> DEFINE candidates == Candidates(cs)
             Of(x) == ConflictComponent(candidates, x)
             W(R) == Weight(R, score)
             Closed(U) == \A d \in U, e \in candidates : Conflict(d, e) => e \in U
             T == {U \in SUBSET candidates : Closed(U) => W(S \cap U) <= W(P \cap U)}
  <1>1. candidates \in SUBSET cs /\ S \in SUBSET candidates
    BY DEF Candidates
  <1>2. IsFiniteSet(candidates) /\ \A c \in candidates : score[c] \in Nat
    BY <1>1, FS_Subset DEF Ordered
  <1>3. P \in SUBSET candidates
    BY SelectionApart
  <1>4. ASSUME NEW c \in candidates
        PROVE  /\ Of(c) \in SUBSET candidates /\ c \in Of(c) /\ Closed(Of(c))
               /\ \A U \in SUBSET candidates : c \in U /\ Closed(U) => Of(c) \in SUBSET U
               /\ W(S \cap Of(c)) <= W(P \cap Of(c))
    <2> DEFINE K == Of(c)
    <2>1. /\ IsFiniteSet(K) /\ Ordered(K, score) /\ P \cap K = PickFrom(K, score)
          /\ Cardinality(K) <= ExactMax
      BY SelectionByComponent
    <2>2. /\ K \in SUBSET candidates /\ c \in K /\ Closed(K)
          /\ \A U \in SUBSET candidates : c \in U /\ Closed(U) => K \in SUBSET U
      BY ComponentFacts
    <2> HIDE DEF K
    <2>3. Apart(S \cap K) /\ S \cap K \in SUBSET K
      BY DEF Apart
    <2>4. \A R \in SUBSET K : Apart(R) => Weight(R, score) <= Weight(PickFrom(K, score), score)
      BY <2>1, PickFromFacts
    <2>5. W(S \cap K) <= W(P \cap K)
      BY <2>1, <2>3, <2>4
    <2> QED BY <2>2, <2>5 DEF K
  <1>5. \A Q, R \in SUBSET candidates : Q \cap R = {} => W(Q \cup R) = W(Q) + W(R)
    BY <1>2, WeightUnion
  <1>6. \A R \in SUBSET candidates : W(R) \in Nat
    BY <1>2, WeightFacts
  <1> HIDE DEF W, Of, candidates
  <1>7. ASSUME NEW U \in SUBSET candidates, \A R \in SUBSET U : R # U => R \in T
        PROVE  U \in T
    <2>1. CASE U = {}
      <3>1. S \cap U = {} /\ P \cap U = {} /\ {} \in SUBSET candidates
        BY <2>1
      <3>2. W({}) \in Nat
        BY <1>6, <3>1
      <3>3. W({}) <= W({})
        BY <3>2
      <3>4. W(S \cap U) <= W(P \cap U)
        BY <3>1, <3>3, Zenon
      <3> QED BY <3>4
    <2>2. ASSUME U # {}, Closed(U)
          PROVE  W(S \cap U) <= W(P \cap U)
      <3>1. PICK c \in U : TRUE
        BY <2>2
      <3> DEFINE K == Of(c)
                 V == U \ K
      <3>2. /\ K \in SUBSET candidates /\ c \in K /\ Closed(K) /\ K \in SUBSET U
            /\ W(S \cap K) <= W(P \cap K)
        BY <1>4, <2>2
      <3> HIDE DEF K
      <3>3. \A a, b : Conflict(a, b) => Conflict(b, a)
        BY DEF Conflict
      <3>4. Closed(V)
        BY <2>2, <3>2, <3>3
      <3>5. V \in SUBSET U /\ V # U
        BY <3>1, <3>2
      <3>6. W(S \cap V) <= W(P \cap V)
        BY <1>7, <3>4, <3>5
      <3>7. ASSUME NEW Q \in SUBSET candidates
            PROVE  /\ W(Q \cap U) = W(Q \cap V) + W(Q \cap K)
                   /\ W(Q \cap V) \in Nat /\ W(Q \cap K) \in Nat
        <4>1. (Q \cap V) \cup (Q \cap K) = Q \cap U /\ (Q \cap V) \cap (Q \cap K) = {}
          BY <3>2
        <4>2. Q \cap V \in SUBSET candidates /\ Q \cap K \in SUBSET candidates
          OBVIOUS
        <4> HIDE DEF V
        <4> QED BY <1>5, <1>6, <4>1, <4>2
      <3> HIDE DEF V
      <3>8. /\ W(S \cap U) = W(S \cap V) + W(S \cap K) /\ W(S \cap V) \in Nat /\ W(S \cap K) \in Nat
            /\ W(P \cap U) = W(P \cap V) + W(P \cap K) /\ W(P \cap V) \in Nat /\ W(P \cap K) \in Nat
        BY <1>1, <1>3, <3>7
      <3> QED BY <3>2, <3>6, <3>8
    <2> QED BY <2>1, <2>2
  <1> HIDE DEF T
  <1>8. candidates \in T
    <2>1. \A U \in SUBSET candidates : U \in T
      BY <1>2, <1>7, SubsetInduction
    <2> QED BY <2>1
  <1>9. W(S \cap candidates) <= W(P \cap candidates)
    BY <1>8 DEF T
  <1>10. S \cap candidates = S /\ P \cap candidates = P
    BY <1>1, <1>3
  <1> QED BY <1>9, <1>10 DEF W

\* The inductive invariant of a run: the search's, and that the graph is the
\* one of the intents it started from, and proposals are what was selected
\* from the cycles found.
RunInv ==
  /\ SearchInv
  /\ edges = EdgesOf(wants, rows)
  /\ status = "selected" => scoring \in Scorings /\ proposals = Selection(ToSet(cycles), Scores(scoring))
  /\ status # "selected" => proposals = {}

\* The cycles found are finitely many, and have scores and ids.
LEMMA FoundOrdered ==
  ASSUME SearchInv, NEW k \in Scorings
  PROVE  IsFiniteSet(ToSet(cycles)) /\ Ordered(ToSet(cycles), Scores(k))
  <1> DEFINE found == ToSet(cycles)
  <1>1. cycles \in Seq(Seq(Intents)) /\ Len(cycles) \in Nat /\ DOMAIN cycles = 1..Len(cycles)
    BY DEF SearchInv
  <1>2. IsFiniteSet(found)
    <2>1. cycles \in [1..Len(cycles) -> found]
      BY <1>1 DEF ToSet
    <2>2. \A c \in found : \E i \in 1..Len(cycles) : cycles[i] = c
      BY <1>1 DEF ToSet
    <2>3. cycles \in Surjection(1..Len(cycles), found)
      BY <2>1, <2>2 DEF Surjection
    <2>4. IsFiniteSet(1..Len(cycles))
      BY <1>1, FS_Interval
    <2> QED BY <2>3, <2>4, FS_Surjection
  <1>3. ASSUME NEW c \in found
        PROVE  c \in Lists
    <2>1. PICK i \in DOMAIN cycles : c = cycles[i]
      BY DEF ToSet
    <2>2. c \in Seq(Intents) /\ IsCycle(edges, c)
      BY <1>1, <2>1 DEF SearchInv, CyclesAreSound
    <2>3. Len(c) \in MinLength..MaxLength /\ c \in [1..Len(c) -> Intents]
      BY <2>2 DEF IsCycle
    <2> QED BY <2>3 DEF Lists
  <1> HIDE DEF found
  <1>4. \A c \in found : Scores(k)[c] = ScoreOf(k, c)
    BY DEF Scores, found
  <1> QED BY <1>2, <1>3, <1>4, ScoringAssumption DEF Ordered, found

\* RunInv is inductive.
LEMMA RunInvStep ==
  ASSUME RunInv, [Next]_vars
  PROVE  RunInv'
  <1>1. SearchInv'
    BY SearchInvStep DEF RunInv
  <1>2. CASE Select
    <2>1. PICK k \in Scorings : scoring' = k /\ proposals' = Selection(ToSet(cycles), Scores(k))
      BY <1>2 DEF Select
    <2>2. /\ status' = "selected"
          /\ edges' = edges /\ cycles' = cycles /\ wants' = wants /\ rows' = rows
      BY <1>2 DEF Select
    <2>3. Scores(scoring)' = Scores(k)
      BY <2>1, <2>2 DEF Scores
    <2> QED BY <1>1, <2>1, <2>2, <2>3 DEF RunInv
  <1>3. CASE (SearchStep \/ TimeOut) /\ UNCHANGED runVars
    <2>1. status = "running" /\ edges' = edges /\ status' # "selected"
      BY <1>3 DEF SearchStep, BeginStart, Close, Extend, Backtrack, Finish, TimeOut
    <2>2. proposals = {} /\ proposals' = {} /\ wants' = wants /\ rows' = rows
      BY <1>3, <2>1 DEF RunInv, runVars
    <2> QED BY <1>1, <2>1, <2>2 DEF RunInv
  <1>4. CASE Abort
    <2>1. status # "selected" /\ status' = "failed" /\ edges' = edges
      BY <1>4 DEF Abort, SearchOver
    <2>2. proposals = {} /\ proposals' = {} /\ wants' = wants /\ rows' = rows
      BY <1>4, <2>1 DEF RunInv, Abort, runVars
    <2> QED BY <1>1, <2>1, <2>2 DEF RunInv
  <1>5. CASE UNCHANGED vars
    <2>1. /\ edges' = edges /\ cycles' = cycles /\ status' = status
          /\ wants' = wants /\ rows' = rows /\ proposals' = proposals /\ scoring' = scoring
      BY <1>5 DEF vars, enumVars, runVars
    <2>2. Scores(scoring)' = Scores(scoring)
      BY <2>1 DEF Scores
    <2> QED BY <1>1, <2>1, <2>2 DEF RunInv
  <1> QED BY <1>2, <1>3, <1>4, <1>5 DEF Next

\* RunInv is invariant: the graph stays the one of the intents, and nothing is
\* proposed but what was selected from the cycles found (runMatching).
THEOREM RunInvariant == Spec => []RunInv
  <1>1. Init => RunInv
    <2> SUFFICES ASSUME Init
                 PROVE  RunInv
      OBVIOUS
    <2>1. SearchInv
      BY SearchInvInit
    <2>2. proposals = {} /\ edges = EdgesOf(wants, rows) /\ status = "running"
      BY DEF Init, EnumInit
    <2> QED BY <2>1, <2>2 DEF RunInv
  <1>2. RunInv /\ [Next]_vars => RunInv'
    BY RunInvStep
  <1> QED BY <1>1, <1>2, PTL DEF Spec

\* In RunInv proposals are candidates that share no intent.
LEMMA ProposedApart ==
  ASSUME RunInv
  PROVE  proposals \in SUBSET Candidates(ToSet(cycles)) /\ Apart(proposals)
  <1>1. CASE status = "selected"
    <2>1. scoring \in Scorings /\ proposals = Selection(ToSet(cycles), Scores(scoring))
      BY <1>1 DEF RunInv
    <2>2. IsFiniteSet(ToSet(cycles)) /\ Ordered(ToSet(cycles), Scores(scoring))
      BY <2>1, FoundOrdered DEF RunInv
    <2> QED BY <2>1, <2>2, SelectionApart
  <1>2. CASE status # "selected"
    BY <1>2 DEF RunInv, Apart
  <1> QED BY <1>1, <1>2

\* Proposals can all be carried out together: no two share an intent, every
\* step is wanted or allowed and not blocked, and no cycle is longer than an
\* intent in it accepts (runMatching).
THEOREM ProposalsAlwaysFeasible == Spec => []ProposalsFeasible
  <1>1. ASSUME RunInv
        PROVE  ProposalsFeasible
    <2>1. ASSUME NEW c \in proposals
          PROVE  /\ \A d \in proposals : c = d \/ ToSet(c) \cap ToSet(d) = {}
                 /\ \A i \in ToSet(c) : Len(c) <= LengthLimit[i]
      BY <1>1, ProposedApart DEF Apart, Conflict, Candidates
    <2>2. ASSUME NEW c \in proposals, NEW k \in DOMAIN c, NEW b, b = IF k = Len(c) THEN c[1] ELSE c[k + 1]
          PROVE  /\ Row(c[k], b, "block", TRUE) \notin rows
                 /\ <<c[k], b>> \in wants \/ \E t \in {"allow", "prefer"} : Row(c[k], b, t, TRUE) \in rows
      <3>1. c \in ToSet(cycles) /\ edges = EdgesOf(wants, rows)
        BY <1>1, ProposedApart DEF RunInv, Candidates
      <3>2. PICK i \in DOMAIN cycles : c = cycles[i]
        BY <3>1 DEF ToSet
      <3>3. c \in Seq(Intents) /\ IsCycle(edges, c)
        BY <1>1, <3>2 DEF RunInv, SearchInv, CyclesAreSound
      <3>4. <<c[k], b>> \in edges
        <4>1. k \in 1..Len(c) /\ Len(c) \in Nat
          BY <3>3
        <4>2. CASE k = Len(c)
          BY <2>2, <3>3, <4>2 DEF IsCycle
        <4>3. CASE k # Len(c)
          <5>1. k \in 1..(Len(c) - 1) /\ b = c[k + 1]
            BY <2>2, <4>1, <4>3
          <5> QED BY <3>3, <5>1 DEF IsCycle
        <4> QED BY <4>2, <4>3
      <3> DEFINE a == c[k]
      <3> HIDE DEF a
      <3>5. <<a, b>> \in EdgesOf(wants, rows)
        BY <3>1, <3>4 DEF a
      <3>6. Row(a, b, "block", TRUE) \notin rows
        BY <3>5 DEF EdgesOf, Blocked, Says
      <3>7. <<a, b>> \in wants \/ \E t \in {"allow", "prefer"} : Row(a, b, t, TRUE) \in rows
        BY <3>5 DEF EdgesOf, Allowed, Says
      <3> QED BY <3>6, <3>7 DEF a
    <2> QED BY <2>1, <2>2 DEF ProposalsFeasible
  <1> QED BY <1>1, RunInvariant, PTL

\* Where components are small enough, no other choice of disjoint candidates
\* scores more; in any case no further candidate of positive score fits
\* (selectComponentExact, selectComponentGreedy).
THEOREM SelectionAlwaysBest == Spec => []SelectionIsBest
  <1>1. ASSUME RunInv
        PROVE  SelectionIsBest
    <2> SUFFICES ASSUME status = "selected"
                 PROVE  SelectionIsBest
      BY DEF SelectionIsBest
    <2> DEFINE found == ToSet(cycles)
               score == Scores(scoring)
               candidates == Candidates(found)
               Disjoint(S) == \A c, d \in S : c = d \/ ToSet(c) \cap ToSet(d) = {}
    <2>1. scoring \in Scorings /\ proposals = Selection(found, score)
      BY <1>1 DEF RunInv
    <2>2. IsFiniteSet(found) /\ Ordered(found, score)
      BY <1>1, <2>1, FoundOrdered DEF RunInv
    <2>3. \A c \in candidates : score[c] = ScoreOf(scoring, c)
      BY DEF Candidates, Scores
    <2>4. \A S : Disjoint(S) <=> Apart(S)
      BY DEF Apart, Conflict
    <2>5. ASSUME NEW c \in candidates \ proposals, ScoreOf(scoring, c) > 0
          PROVE  ~Disjoint(proposals \cup {c})
      <3>1. score[c] > 0
        BY <2>3, <2>5
      <3> HIDE DEF score, found, Disjoint
      <3>2. PICK d \in proposals : Conflict(c, d)
        BY <2>1, <2>2, <3>1, SelectionApart
      <3>3. ~Apart(proposals \cup {c})
        BY <3>2 DEF Apart
      <3> QED BY <2>4, <3>3
    <2>6. ASSUME \A c \in candidates : Cardinality(ConflictComponent(candidates, c)) <= ExactMax,
                 NEW S \in SUBSET candidates, Disjoint(S)
          PROVE  Weight(S, score) <= Weight(proposals, score)
      <3>1. Apart(S)
        BY <2>4, <2>6
      <3> HIDE DEF score, found, Disjoint
      <3> QED BY <2>1, <2>2, <2>6, <3>1, SelectionBest
    <2> HIDE DEF score
    <2> QED BY <2>5, <2>6 DEF SelectionIsBest, score
  <1> QED BY <1>1, RunInvariant, PTL

-----------------------------------------------------------------------------
(* Why a run may fail.                                                     *)

\* A run that has failed has found a cycle it cannot value, and no edge into
\* an offer without a value was derived.
FailInv ==
  /\ RunInv
  /\ \A e \in wants : e[2] \notin unvalued
  /\ status = "failed" => Unpriced

\* FailInv is inductive.
LEMMA FailInvStep ==
  ASSUME FailInv, [Next]_vars
  PROVE  FailInv'
  <1>1. RunInv'
    BY RunInvStep DEF FailInv
  <1>2. wants' = wants /\ unvalued' = unvalued
    BY DEF Next, Select, Abort, vars, runVars
  <1>3. ASSUME status' = "failed"
        PROVE  Unpriced'
    <2>1. status = "failed" \/ Abort
      BY <1>3 DEF Next, Select, SearchStep, BeginStart, Close, Extend, Backtrack, Finish, TimeOut,
                  vars, enumVars
    <2>2. Unpriced /\ cycles' = cycles
      <3>1. CASE Abort
        BY <3>1 DEF Abort
      <3>2. CASE status = "failed"
        BY <3>2, <1>3 DEF FailInv, Next, Select, Abort, SearchOver, SearchStep, BeginStart, Close,
                          Extend, Backtrack, Finish, TimeOut, vars, enumVars
      <3> QED BY <2>1, <3>1, <3>2
    <2> QED BY <1>2, <2>2 DEF Unpriced
  <1> QED BY <1>1, <1>2, <1>3 DEF FailInv

\* An intent of a cycle is stepped into from an intent of the cycle.
LEMMA SteppedInto ==
  ASSUME SearchInv, NEW c \in ToSet(cycles), NEW b \in ToSet(c)
  PROVE  \E k \in DOMAIN c : b = (IF k = Len(c) THEN c[1] ELSE c[k + 1]) /\ <<c[k], b>> \in edges
  <1>1. PICK i \in DOMAIN cycles : c = cycles[i]
    BY DEF ToSet
  <1>2. c \in Seq(Intents) /\ IsCycle(edges, c)
    BY <1>1 DEF SearchInv, CyclesAreSound
  <1>3. PICK j \in 1..Len(c) : b = c[j]
    BY <1>2 DEF ToSet
  <1>4. Len(c) \in Nat /\ Len(c) >= 2 /\ DOMAIN c = 1..Len(c)
    BY <1>2, BoundsAssumption DEF IsCycle
  <1>5. CASE j = 1
    <2>1. <<c[Len(c)], b>> \in edges
      BY <1>2, <1>3, <1>5 DEF IsCycle
    <2> QED BY <1>3, <1>4, <1>5, <2>1
  <1>6. CASE j # 1
    <2>1. j - 1 \in 1..(Len(c) - 1) /\ (j - 1) + 1 = j
      BY <1>4, <1>6
    <2>2. <<c[j - 1], c[(j - 1) + 1]>> \in edges
      BY <1>2, <2>1 DEF IsCycle
    <2> QED BY <1>3, <1>4, <2>1, <2>2
  <1> QED BY <1>5, <1>6

\* A run fails only where a live allow or prefer row leads to an offer without
\* a value, in a cycle it has found: want specifications alone never make a run
\* fail (runMatching, valueOfAssets).
THEOREM FailsOnlyAsked == Spec => []FailsOnlyIfAsked
  <1>1. Init => FailInv
    <2> SUFFICES ASSUME Init
                 PROVE  FailInv
      OBVIOUS
    <2>1. SearchInv
      BY SearchInvInit
    <2>2. proposals = {} /\ edges = EdgesOf(wants, rows) /\ status = "running"
      BY DEF Init, EnumInit
    <2> QED BY <2>1, <2>2 DEF RunInv, FailInv, Init
  <1>2. FailInv /\ [Next]_vars => FailInv'
    BY FailInvStep
  <1>3. FailInv => FailsOnlyIfAsked
    <2> SUFFICES ASSUME FailInv, status = "failed"
                 PROVE  \E c \in ToSet(cycles) : \E b \in unvalued : AskedFor(c, b)
      BY DEF FailsOnlyIfAsked
    <2>1. PICK c \in ToSet(cycles) : ToSet(c) \cap unvalued # {}
      BY DEF FailInv, Unpriced, Candidates
    <2>2. PICK b \in ToSet(c) : b \in unvalued
      BY <2>1
    <2>3. PICK k \in DOMAIN c :
            b = (IF k = Len(c) THEN c[1] ELSE c[k + 1]) /\ <<c[k], b>> \in edges
      BY <2>2, SteppedInto DEF FailInv, RunInv
    <2> DEFINE a == c[k]
    <2> HIDE DEF a
    <2>4. <<a, b>> \in EdgesOf(wants, rows) /\ <<a, b>> \notin wants
      BY <2>2, <2>3 DEF FailInv, RunInv, a
    <2>5. \E t \in {"allow", "prefer"} : Row(a, b, t, TRUE) \in rows
      BY <2>4 DEF EdgesOf, Allowed, Says
    <2>6. AskedFor(c, b)
      BY <2>3, <2>5 DEF AskedFor, a
    <2> QED BY <2>2, <2>6
  <1> QED BY <1>1, <1>2, <1>3, PTL DEF Spec
=============================================================================
