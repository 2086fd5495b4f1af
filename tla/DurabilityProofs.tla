--------------------------- MODULE DurabilityProofs ---------------------------
(***************************************************************************)
(* Durability keeps what was saved, and does every piece of work it knows  *)
(* of exactly once, for every set of work and batches of every length.     *)
(*                                                                         *)
(* The server appends one piece of work at a time.  The consumer folds a   *)
(* batch: each delivery leaves a progress that continues the log in memory *)
(* and agrees with what is marked, so the batch does (FoldProofs), also    *)
(* where a throw has stopped it.                                           *)
(***************************************************************************)
EXTENDS Durability, FoldProofs

\* The empty sequence is a prefix of every sequence.
LEMMA EmptyPrefix ==
  ASSUME NEW t \in Seq(Work)
  PROVE  IsPrefix(<<>>, t)
  <1>1. Len(<<>>) = 0 /\ SubSeq(<<>>, 1, 0) = SubSeq(t, 1, 0)
    OBVIOUS
  <1>2. Len(t) \in Nat
    OBVIOUS
  <1> QED BY <1>1, <1>2 DEF IsPrefix

\* A prefix is one of the longer sequence too.
LEMMA AppendPrefix ==
  ASSUME NEW s \in Seq(Work), NEW t \in Seq(Work), NEW w \in Work, IsPrefix(s, t)
  PROVE  IsPrefix(s, Append(t, w))
  <1>1. Len(s) \in Nat /\ Len(t) \in Nat /\ Len(s) <= Len(t) /\ SubSeq(s, 1, Len(s)) = SubSeq(t, 1, Len(s))
    BY DEF IsPrefix
  <1>2. Len(Append(t, w)) = Len(t) + 1
    OBVIOUS
  <1>3. SubSeq(Append(t, w), 1, Len(s)) = SubSeq(t, 1, Len(s))
    <2>1. \A i \in 1..Len(s) : Append(t, w)[i] = t[i]
      BY <1>1
    <2> QED BY <1>1, <1>2, <2>1
  <1> QED BY <1>1, <1>2, <1>3 DEF IsPrefix

\* A sequence is a prefix of itself.
LEMMA SelfPrefix ==
  ASSUME NEW s \in Seq(Work)
  PROVE  IsPrefix(s, s)
  BY DEF IsPrefix

\* A prefix of a prefix is a prefix.
LEMMA PrefixOfPrefix ==
  ASSUME NEW s \in Seq(Work), NEW t \in Seq(Work), NEW u \in Seq(Work),
         IsPrefix(s, t), IsPrefix(t, u)
  PROVE  IsPrefix(s, u)
  <1>1. /\ Len(s) \in Nat /\ Len(t) \in Nat /\ Len(u) \in Nat
        /\ Len(s) <= Len(t) /\ Len(t) <= Len(u)
        /\ SubSeq(s, 1, Len(s)) = SubSeq(t, 1, Len(s))
        /\ SubSeq(t, 1, Len(t)) = SubSeq(u, 1, Len(t))
    BY DEF IsPrefix
  <1>2. ASSUME NEW i \in 1..Len(s)
        PROVE  t[i] = u[i]
    <2>1. i \in 1..Len(t) /\ SubSeq(t, 1, Len(t))[i] = t[i] /\ SubSeq(u, 1, Len(t))[i] = u[i]
      BY <1>1
    <2> QED BY <1>1, <2>1
  <1>3. SubSeq(t, 1, Len(s)) = SubSeq(u, 1, Len(s))
    BY <1>1, <1>2
  <1> QED BY <1>1, <1>3 DEF IsPrefix

\* Work that is not known yet is done and marked as known at the same time.
LEMMA AgreesAppend ==
  ASSUME NEW c \in State, Agrees(c), NEW w \in Work, w \notin c.known,
         program = "consumer" => w \notin Failing
  PROVE  /\ Contents(Append(c.log, w), c.known \cup {w}) \in State
         /\ Agrees(Contents(Append(c.log, w), c.known \cup {w}))
  <1> DEFINE l == Append(c.log, w)
             n == Len(c.log)
  <1>1. c.log \in Seq(Work) /\ c.known \in SUBSET Work /\ n \in Nat /\ DOMAIN c.log = 1..n
    BY DEF State
  <1>2. l \in Seq(Work) /\ DOMAIN l = 1..(n + 1) /\ l[n + 1] = w
        /\ \A i \in 1..n : l[i] = c.log[i]
    BY <1>1
  <1>3. \A i \in 1..n : c.log[i] \in c.known
    BY <1>1 DEF Agrees, ToSet
  <1> HIDE DEF l, n
  <1>4. ASSUME NEW i \in DOMAIN l, NEW j \in DOMAIN l, l[i] = l[j]
        PROVE  i = j
    <2>1. CASE i # n + 1 /\ j # n + 1
      <3>1. i \in 1..n /\ j \in 1..n
        BY <1>1, <1>2, <2>1
      <3> QED BY <1>1, <1>2, <1>4, <3>1 DEF Agrees
    <2>2. CASE i = n + 1 /\ j # n + 1
      <3>1. j \in 1..n
        BY <1>1, <1>2, <2>2
      <3> QED BY <1>2, <1>3, <1>4, <2>2, <3>1
    <2>3. CASE i # n + 1 /\ j = n + 1
      <3>1. i \in 1..n
        BY <1>1, <1>2, <2>3
      <3> QED BY <1>2, <1>3, <1>4, <2>3, <3>1
    <2> QED BY <2>1, <2>2, <2>3
  <1>5. ToSet(l) = ToSet(c.log) \cup {w}
    <2>1. \A x : x \in ToSet(l) <=> \E i \in 1..(n + 1) : x = l[i]
      BY <1>2 DEF ToSet
    <2>2. \A x : x \in ToSet(c.log) <=> \E i \in 1..n : x = l[i]
      BY <1>1, <1>2 DEF ToSet
    <2>3. \A i : i \in 1..(n + 1) <=> i \in 1..n \/ i = n + 1
      BY <1>1
    <2> QED BY <1>2, <2>1, <2>2, <2>3
  <1>6. ToSet(l) = (c.known \cup {w}) \ (IF program = "consumer" THEN Failing ELSE {})
    BY <1>5 DEF Agrees
  <1>7. Contents(l, c.known \cup {w}) \in State
    BY <1>1, <1>2 DEF Contents, State
  <1>8. Agrees(Contents(l, c.known \cup {w}))
    BY <1>4, <1>6 DEF Agrees, Contents
  <1> QED BY <1>7, <1>8 DEF l

\* The consumer marks an event it refuses, and does none of its work.
LEMMA AgreesMark ==
  ASSUME NEW c \in State, Agrees(c), NEW w \in Failing, program = "consumer"
  PROVE  /\ Contents(c.log, c.known \cup {w}) \in State
         /\ Agrees(Contents(c.log, c.known \cup {w}))
  <1>1. Contents(c.log, c.known \cup {w}) \in State
    BY StateStoreAssumption DEF Contents, State
  <1>2. ToSet(c.log) = (c.known \cup {w}) \ Failing
    BY DEF Agrees
  <1> QED BY <1>1, <1>2 DEF Agrees, Contents

\* How far the loop over a batch may have come.
SoundProgress ==
  {p \in [log : Seq(Work), known : SUBSET Work, thrown : BOOLEAN] :
     IsPrefix(mem.log, p.log) /\ Agrees(Contents(p.log, p.known))}

\* A delivery that is applied, skipped or refused leaves the progress sound.
LEMMA IngestSound ==
  ASSUME mem \in State, program = "consumer", NEW p \in SoundProgress, NEW d \in Deliveries
  PROVE  Ingest(p, d) \in SoundProgress
  <1> DEFINE c == Contents(p.log, p.known)
  <1>1. /\ p.log \in Seq(Work) /\ p.known \in SUBSET Work
        /\ IsPrefix(mem.log, p.log) /\ Agrees(c)
    BY DEF SoundProgress
  <1>2. c \in State /\ c.log = p.log /\ c.known = p.known
    BY <1>1 DEF Contents, State
  <1>3. d.event = NoId \/ d.event \in Work
    BY DEF Deliveries, Delivery
  <1>4. mem.log \in Seq(Work)
    BY DEF State
  <1> HIDE DEF c
  <1>5. CASE p.thrown
    BY <1>5 DEF Ingest
  <1>6. CASE ~p.thrown /\ d.event = NoId
    <2>1. Ingest(p, d) = Progress(p.log, p.known, TRUE)
      BY <1>6 DEF Ingest
    <2>2. Progress(p.log, p.known, TRUE) \in SoundProgress
      BY <1>1 DEF Progress, SoundProgress, c
    <2> QED BY <2>1, <2>2
  <1>7. CASE ~p.thrown /\ d.event # NoId /\ (d.event \in p.known \/ ~d.genuine)
    BY <1>7 DEF Ingest, Mark
  <1>8. ASSUME ~p.thrown, d.event # NoId, d.event \notin p.known, d.genuine, d.event \in Failing
        PROVE  Ingest(p, d) \in SoundProgress
    <2>1. Ingest(p, d) = Progress(p.log, p.known \cup {d.event}, TRUE)
      <3>1. (d.event \in Failing) = TRUE
        BY <1>8
      <3> QED BY <1>8, <3>1 DEF Ingest
    <2>2. Agrees(Contents(p.log, p.known \cup {d.event}))
      BY <1>1, <1>2, <1>8, AgreesMark
    <2>3. p.known \cup {d.event} \in SUBSET Work
      BY <1>1, <1>3, <1>8
    <2>4. Progress(p.log, p.known \cup {d.event}, TRUE) \in SoundProgress
      BY <1>1, <2>2, <2>3 DEF Progress, SoundProgress
    <2> QED BY <2>1, <2>4
  <1>9. ASSUME ~p.thrown, d.event # NoId, d.event \notin p.known, d.genuine, d.event \notin Failing
        PROVE  Ingest(p, d) \in SoundProgress
    <2>1. Ingest(p, d) = Progress(Append(p.log, d.event), p.known \cup {d.event}, FALSE)
      <3>1. (d.event \in Failing) = FALSE
        BY <1>9
      <3> QED BY <1>9, <3>1 DEF Ingest
    <2>2. Agrees(Contents(Append(p.log, d.event), p.known \cup {d.event}))
      BY <1>1, <1>2, <1>3, <1>9, AgreesAppend
    <2>3. p.known \cup {d.event} \in SUBSET Work /\ Append(p.log, d.event) \in Seq(Work)
      BY <1>1, <1>3, <1>9
    <2>4. IsPrefix(mem.log, Append(p.log, d.event))
      BY <1>1, <1>3, <1>4, <1>9, AppendPrefix
    <2>5. Progress(Append(p.log, d.event), p.known \cup {d.event}, FALSE) \in SoundProgress
      BY <2>2, <2>3, <2>4 DEF Progress, SoundProgress
    <2> QED BY <2>1, <2>5
  <1> QED BY <1>5, <1>6, <1>7, <1>8, <1>9

\* A batch of any length leaves the progress sound.
LEMMA BatchSound ==
  ASSUME mem \in State, program = "consumer", Agrees(mem),
         NEW n \in Nat, NEW batch \in [1..n -> Deliveries]
  PROVE  AfterBatch(mem, batch) \in SoundProgress
  <1> DEFINE base == Progress(mem.log, mem.known, FALSE)
             Rec(it) == [s \in SUBSET (1..n) |->
                           IF s = {} THEN base ELSE Ingest(it[s \ {Max(s)}], batch[Max(s)])]
             iter == CHOOSE it : it = Rec(it)
             F == [y \in SoundProgress \X (1..n) |-> Ingest(y[1], batch[y[2]])]
  <1>1. AfterBatch(mem, batch) = iter[1..n]
    <2>1. DOMAIN batch = 1..n
      OBVIOUS
    <2> QED BY <2>1 DEF AfterBatch, FoldLeft, MapThenFoldSet
  <1>2. F \in [SoundProgress \X (1..n) -> SoundProgress]
    BY IngestSound
  <1>3. \A w \in SoundProgress, k \in 1..n : F[<<w, k>>] = Ingest(w, batch[k])
    OBVIOUS
  <1> HIDE DEF F
  <1>4. base \in SoundProgress
    <2>1. IsPrefix(mem.log, mem.log)
      BY SelfPrefix DEF State
    <2>2. Agrees(Contents(mem.log, mem.known))
      BY DEF Agrees, Contents
    <2> QED BY <2>1, <2>2 DEF SoundProgress, Progress, State
  <1> HIDE DEF base
  <1>5. \E it : it = Rec(it)
    <2>1. \E g : IsFold(g, SoundProgress, n, base, F)
      BY <1>2, <1>4, FoldDefined
    <2>2. PICK g : IsFold(g, SoundProgress, n, base, F)
      BY <2>1
    <2>3. ASSUME NEW s \in SUBSET (1..n), s # {}
          PROVE  F[<<g[s \ {Max(s)}], Max(s)>>] = Ingest(g[s \ {Max(s)}], batch[Max(s)])
      <3>1. Max(s) \in s
        BY <2>3, MaxIn
      <3>2. Max(s) \in 1..n /\ g[s \ {Max(s)}] \in SoundProgress
        BY <2>2, <3>1 DEF IsFold
      <3> QED BY <1>3, <3>2
    <2>4. \A s \in SUBSET (1..n) :
            g[s] = IF s = {} THEN base ELSE Ingest(g[s \ {Max(s)}], batch[Max(s)])
      BY <2>2, <2>3 DEF IsFold
    <2>5. g \in [SUBSET (1..n) -> SoundProgress]
      BY <2>2 DEF IsFold
    <2>6. g = Rec(g)
      BY <2>4, <2>5
    <2> QED BY <2>6
  <1>6. iter = Rec(iter)
    BY <1>5
  <1> HIDE DEF iter
  <1>7. \A s \in SUBSET (1..n) :
          iter[s] = IF s = {} THEN base ELSE Ingest(iter[s \ {Max(s)}], batch[Max(s)])
    BY <1>6
  <1> HIDE DEF Rec
  <1>8. ASSUME NEW k \in 1..n, iter[1..(k - 1)] \in SoundProgress
        PROVE  iter[1..k] = F[<<iter[1..(k - 1)], k>>]
    <2>1. k \in Nat \ {0} /\ 1..k \in SUBSET (1..n)
      OBVIOUS
    <2>2. Max(1..k) = k /\ (1..k) \ {k} = 1..(k - 1) /\ 1..k # {}
      BY <2>1, LastNumber
    <2>3. iter[1..k] = Ingest(iter[1..(k - 1)], batch[k])
      BY <1>7, <2>1, <2>2
    <2> QED BY <1>3, <1>8, <2>3
  <1>9. iter[{}] = base
    BY <1>7
  <1>10. iter[1..n] \in SoundProgress
    BY <1>2, <1>4, <1>8, <1>9, FoldStays
  <1> QED BY <1>1, <1>10

\* A fresh state holds no work and knows of none.
LEMMA FreshAgrees ==
  Fresh \in State /\ Fresh.log = <<>> /\ Agrees(Fresh)
  <1>1. <<>> \in Seq(Work) /\ DOMAIN <<>> = {}
    OBVIOUS
  <1>2. ToSet(<<>>) = {}
    BY <1>1 DEF ToSet
  <1> QED BY <1>1, <1>2 DEF Fresh, Contents, State, Agrees

\* Opening a state file does not change what it holds.
LEMMA OpenedSound ==
  ASSUME DurabilityInv, NEW b \in Backends
  PROVE  /\ Opened(b) \in State \cup {Missing, Torn}
         /\ Opened(b) = Missing => saved[b] = <<>>
         /\ Readable(Opened(b)) => IsPrefix(saved[b], Opened(b).log) /\ Agrees(Opened(b))
  <1>1. CASE b = "sqlite" /\ file[b] = Missing
    <2>1. Opened(b) = Fresh /\ saved[b] = <<>>
      BY <1>1 DEF Opened, DurabilityInv
    <2> QED BY <2>1, FreshAgrees, EmptyPrefix DEF State
  <1>2. CASE ~ (b = "sqlite" /\ file[b] = Missing)
    BY <1>2 DEF Opened, DurabilityInv, StoreTypes, SavedNeverLost, KnownIsApplied
  <1> QED BY <1>1, <1>2

\* A write that does not complete leaves a file that is as sound.
LEMMA InterruptedSound ==
  ASSUME DurabilityInv, NEW b \in Backends, Interrupted(b)
  PROVE  /\ file' \in [Backends -> State \cup {Missing, Torn}]
         /\ \A d \in Backends :
              /\ file'[d] = Missing => saved[d] = <<>>
              /\ Readable(file'[d]) => IsPrefix(saved[d], file'[d].log) /\ Agrees(file'[d])
  <1>1. file \in [Backends -> State \cup {Missing, Torn}]
    BY DEF DurabilityInv, StoreTypes
  <1>2. CASE file' = [file EXCEPT ![b] = Opened(b)]
    <2> DEFINE o == Opened(b)
    <2>1. /\ o \in State \cup {Missing, Torn}
          /\ o = Missing => saved[b] = <<>>
          /\ Readable(o) => IsPrefix(saved[b], o.log) /\ Agrees(o)
      BY OpenedSound
    <2>2. file' = [file EXCEPT ![b] = o]
      BY <1>2
    <2> HIDE DEF o
    <2> QED BY <1>1, <2>1, <2>2 DEF DurabilityInv, SavedNeverLost, KnownIsApplied
  <1>3. CASE file' = [file EXCEPT ![b] = Torn]
    BY <1>1, <1>3, StateStoreAssumption DEF DurabilityInv, SavedNeverLost, KnownIsApplied, Readable
  <1> QED BY <1>2, <1>3 DEF Interrupted

\* The invariant of the next state, from its parts.
LEMMA NextInv ==
  ASSUME DurabilityInv, program' = program, StoreTypes',
         \A d \in Backends :
           /\ file'[d] = Missing => saved'[d] = <<>>
           /\ Readable(file'[d]) => IsPrefix(saved'[d], file'[d].log) /\ Agrees(file'[d]),
         mem' # Down => IsPrefix(saved'[backend'], mem'.log) /\ Agrees(mem')
  PROVE  DurabilityInv'
  <1>1. SavedNeverLost'
    BY DEF SavedNeverLost, Up, Readable
  <1>2. KnownIsApplied'
    BY DEF KnownIsApplied, Agrees, ToSet, Up, Readable
  <1> QED BY <1>1, <1>2 DEF DurabilityInv

\* A process that starts runs on what its file holds.
LEMMA LoadKeeps ==
  ASSUME DurabilityInv, program' = program, Load
  PROVE  DurabilityInv'
  <1>1. backend \in Backends /\ file \in [Backends -> State \cup {Missing, Torn}]
    BY DEF DurabilityInv, StoreTypes
  <1>2. mem' \in State /\ IsPrefix(saved[backend], mem'.log) /\ Agrees(mem')
    <2>1. CASE file[backend] = Missing
      BY <1>1, <2>1, FreshAgrees, EmptyPrefix DEF Load, DurabilityInv, State
    <2>2. CASE file[backend] # Missing
      BY <1>1, <2>2 DEF Load, DurabilityInv, SavedNeverLost, KnownIsApplied, Readable
    <2> QED BY <2>1, <2>2
  <1>3. /\ file' \in [Backends -> State \cup {Missing, Torn}]
        /\ \A d \in Backends :
             /\ file'[d] = Missing => saved[d] = <<>>
             /\ Readable(file'[d]) => IsPrefix(saved[d], file'[d].log) /\ Agrees(file'[d])
    BY <1>1, InterruptedSound DEF Load, Interrupted
  <1>4. StoreTypes'
    BY <1>2, <1>3, StateStoreAssumption DEF Load, DurabilityInv, StoreTypes, Up
  <1>5. saved' = saved /\ backend' = backend
    BY DEF Load
  <1> QED BY <1>2, <1>3, <1>4, <1>5, NextInv

\* A complete save writes what is in memory.
LEMMA SaveKeeps ==
  ASSUME DurabilityInv, program' = program, Save
  PROVE  DurabilityInv'
  <1>1. /\ backend \in Backends /\ mem \in State /\ Up
        /\ file \in [Backends -> State \cup {Missing, Torn}]
        /\ saved \in [Backends -> Seq(Work)]
    BY DEF DurabilityInv, StoreTypes, Save, Up
  <1>2. /\ file' = [file EXCEPT ![backend] = mem]
        /\ saved' = [saved EXCEPT ![backend] = mem.log]
        /\ saveDue' = FALSE /\ backend' = backend /\ mem' = mem
    BY DEF Save
  <1>3. mem.log \in Seq(Work) /\ IsPrefix(mem.log, mem.log) /\ Agrees(mem)
    BY <1>1, SelfPrefix DEF State, DurabilityInv, KnownIsApplied
  <1>4. StoreTypes'
    BY <1>1, <1>2, <1>3 DEF StoreTypes, Up
  <1>5. \A d \in Backends :
          /\ file'[d] = Missing => saved'[d] = <<>>
          /\ Readable(file'[d]) => IsPrefix(saved'[d], file'[d].log) /\ Agrees(file'[d])
    BY <1>1, <1>2, <1>3, StateStoreAssumption DEF DurabilityInv, SavedNeverLost, KnownIsApplied
  <1> QED BY <1>1, <1>2, <1>3, <1>4, <1>5, NextInv

\* A process that ends leaves its file as sound as it was.
LEMMA CrashKeeps ==
  ASSUME DurabilityInv, program' = program, Crash
  PROVE  DurabilityInv'
  <1>1. backend \in Backends /\ mem' = Down /\ saveDue' = FALSE /\ saved' = saved /\ backend' = backend
    BY DEF DurabilityInv, StoreTypes, Crash
  <1>2. /\ file' \in [Backends -> State \cup {Missing, Torn}]
        /\ \A d \in Backends :
             /\ file'[d] = Missing => saved[d] = <<>>
             /\ Readable(file'[d]) => IsPrefix(saved[d], file'[d].log) /\ Agrees(file'[d])
    <2>1. CASE file' = file
      BY <2>1 DEF DurabilityInv, StoreTypes, SavedNeverLost, KnownIsApplied
    <2>2. CASE Interrupted(backend)
      BY <1>1, <2>2, InterruptedSound
    <2> QED BY <2>1, <2>2 DEF Crash
  <1>3. StoreTypes'
    BY <1>1, <1>2 DEF DurabilityInv, StoreTypes, Up
  <1> QED BY <1>1, <1>2, <1>3, NextInv

\* A migration copies a readable file with all that was saved to it.
LEMMA MigrateKeeps ==
  ASSUME DurabilityInv, program' = program, NEW force \in BOOLEAN, Migrate(force)
  PROVE  DurabilityInv'
  <1> DEFINE to == CHOOSE b \in Backends : b # backend
  <1>1. /\ backend \in Backends
        /\ file \in [Backends -> State \cup {Missing, Torn}]
        /\ saved \in [Backends -> Seq(Work)]
    BY DEF DurabilityInv, StoreTypes
  <1>2. to \in Backends
    BY <1>1 DEF Backends
  <1>3. /\ mem = Down /\ mem' = mem /\ saveDue' = saveDue /\ Readable(file[backend])
        /\ \/ /\ file' = [file EXCEPT ![to] = file[backend]]
              /\ saved' = [saved EXCEPT ![to] = saved[backend]]
              /\ backend' = to
           \/ Interrupted(to) /\ saved' = saved /\ backend' = backend
    BY DEF Migrate, Up
  <1> HIDE DEF to
  <1>4. CASE Interrupted(to) /\ saved' = saved /\ backend' = backend
    <2>1. /\ file' \in [Backends -> State \cup {Missing, Torn}]
          /\ \A d \in Backends :
               /\ file'[d] = Missing => saved[d] = <<>>
               /\ Readable(file'[d]) => IsPrefix(saved[d], file'[d].log) /\ Agrees(file'[d])
      BY <1>2, <1>4, InterruptedSound
    <2>2. StoreTypes'
      BY <1>3, <1>4, <2>1 DEF DurabilityInv, StoreTypes, Up
    <2> QED BY <1>3, <1>4, <2>1, <2>2, NextInv
  <1>5. CASE /\ file' = [file EXCEPT ![to] = file[backend]]
             /\ saved' = [saved EXCEPT ![to] = saved[backend]]
             /\ backend' = to
    <2>1. \A d \in Backends :
            /\ file'[d] = Missing => saved'[d] = <<>>
            /\ Readable(file'[d]) => IsPrefix(saved'[d], file'[d].log) /\ Agrees(file'[d])
      BY <1>1, <1>2, <1>3, <1>5 DEF DurabilityInv, SavedNeverLost, KnownIsApplied, Readable
    <2>2. StoreTypes'
      BY <1>1, <1>2, <1>3, <1>5 DEF DurabilityInv, StoreTypes, Up
    <2> QED BY <1>3, <2>1, <2>2, NextInv
  <1> QED BY <1>3, <1>4, <1>5

\* The memory of a running process may go on to any state that continues its
\* log and agrees; the files stay.
LEMMA MemoryGoesOn ==
  ASSUME DurabilityInv, program' = program, Up, NEW c \in State, NEW due \in BOOLEAN,
         IsPrefix(saved[backend], c.log), Agrees(c),
         mem' = c, saveDue' = due, UNCHANGED <<backend, file, saved>>
  PROVE  DurabilityInv'
  <1>1. StoreTypes'
    BY StateStoreAssumption DEF DurabilityInv, StoreTypes, Up
  <1>2. \A d \in Backends :
          /\ file'[d] = Missing => saved'[d] = <<>>
          /\ Readable(file'[d]) => IsPrefix(saved'[d], file'[d].log) /\ Agrees(file'[d])
    BY DEF DurabilityInv, SavedNeverLost, KnownIsApplied
  <1>3. IsPrefix(saved'[backend'], mem'.log) /\ Agrees(mem')
    OBVIOUS
  <1> QED BY <1>1, <1>2, <1>3, NextInv

\* A request appends its work or repeats what is recorded.
LEMMA RequestKeeps ==
  ASSUME DurabilityInv, program' = program, NEW w \in Work \ Failing, Request(w)
  PROVE  DurabilityInv'
  <1>1. Up /\ mem \in State /\ saved[backend] \in Seq(Work)
        /\ IsPrefix(saved[backend], mem.log) /\ Agrees(mem)
    BY DEF Request, DurabilityInv, StoreTypes, SavedNeverLost, KnownIsApplied, Up
  <1>2. CASE w \in mem.known
    BY <1>1, <1>2, MemoryGoesOn DEF Request, AsRecorded
  <1>3. CASE w \notin mem.known
    <2> DEFINE c == Done(mem, w)
    <2>1. c \in State /\ Agrees(c)
      BY <1>1, <1>3, AgreesAppend DEF Done
    <2>2. IsPrefix(saved[backend], c.log)
      BY <1>1, AppendPrefix DEF Done, Contents, State
    <2>3. mem' = c /\ saveDue' = TRUE /\ UNCHANGED <<backend, file, saved>>
      BY <1>3 DEF Request, AsRecorded
    <2> HIDE DEF c
    <2> QED BY <1>1, <2>1, <2>2, <2>3, MemoryGoesOn
  <1> QED BY <1>2, <1>3

\* What a failed trigger leaves behind agrees with what is known.
LEMMA FailingTriggerKeeps ==
  ASSUME DurabilityInv, program' = program, program = "server",
         NEW w \in Failing, FailingTrigger(w)
  PROVE  DurabilityInv'
  <1>1. Up /\ mem \in State /\ saved[backend] \in Seq(Work) /\ w \in Work
        /\ IsPrefix(saved[backend], mem.log) /\ Agrees(mem) /\ saveDue = FALSE
    BY StateStoreAssumption
       DEF FailingTrigger, DurabilityInv, StoreTypes, SavedNeverLost, KnownIsApplied, Up
  <1> DEFINE c == Done(mem, w)
  <1>2. c \in State /\ Agrees(c)
    BY <1>1, AgreesAppend DEF Done, FailingTrigger
  <1>3. IsPrefix(saved[backend], c.log)
    BY <1>1, AppendPrefix DEF Done, Contents, State
  <1>4. mem' = c /\ saveDue' = FALSE /\ UNCHANGED <<backend, file, saved>>
    BY <1>1 DEF FailingTrigger
  <1> HIDE DEF c
  <1> QED BY <1>1, <1>2, <1>3, <1>4, MemoryGoesOn

\* A save that fails leaves its file as sound as it was.
LEMMA SaveFailsKeeps ==
  ASSUME DurabilityInv, program' = program, SaveFails
  PROVE  DurabilityInv'
  <1>1. /\ backend \in Backends /\ mem' = mem /\ saveDue' = FALSE /\ saved' = saved
        /\ backend' = backend /\ Interrupted(backend)
    BY DEF DurabilityInv, StoreTypes, SaveFails
  <1>2. /\ file' \in [Backends -> State \cup {Missing, Torn}]
        /\ \A d \in Backends :
             /\ file'[d] = Missing => saved[d] = <<>>
             /\ Readable(file'[d]) => IsPrefix(saved[d], file'[d].log) /\ Agrees(file'[d])
    BY <1>1, InterruptedSound
  <1>3. StoreTypes'
    BY <1>1, <1>2 DEF DurabilityInv, StoreTypes, Up
  <1>4. mem # Down => IsPrefix(saved[backend], mem.log) /\ Agrees(mem)
    BY DEF DurabilityInv, SavedNeverLost, KnownIsApplied, Up
  <1> QED BY <1>1, <1>2, <1>3, <1>4, NextInv

\* A batch ends the process, or leaves a memory that goes on from the last.
LEMMA DeliverKeeps ==
  ASSUME DurabilityInv, program' = program, program = "consumer",
         NEW batch \in BoundedSeq(Deliveries, MaxBatch), Deliver(batch)
  PROVE  DurabilityInv'
  <1> DEFINE p == AfterBatch(mem, batch)
             c == Contents(p.log, p.known)
  <1>1. Up /\ mem \in State /\ saved[backend] \in Seq(Work)
        /\ IsPrefix(saved[backend], mem.log) /\ Agrees(mem)
    BY DEF Deliver, DurabilityInv, StoreTypes, SavedNeverLost, KnownIsApplied, Up
  <1>2. PICK n \in 0..MaxBatch : batch \in [1..n -> Deliveries]
    BY DEF BoundedSeq, SeqOf
  <1>3. n \in Nat
    BY WebhookAssumption
  <1>4. p \in SoundProgress
    BY <1>1, <1>2, <1>3, BatchSound
  <1>5. /\ p.thrown => mem' = Down /\ saveDue' = FALSE
        /\ ~p.thrown => mem' = c /\ saveDue' = TRUE
        /\ UNCHANGED <<backend, file, saved>>
    BY DEF Deliver
  <1> HIDE DEF p
  <1>6. CASE p.thrown
    <2>1. StoreTypes'
      BY <1>5, <1>6 DEF DurabilityInv, StoreTypes, Up
    <2>2. \A d \in Backends :
            /\ file'[d] = Missing => saved'[d] = <<>>
            /\ Readable(file'[d]) => IsPrefix(saved'[d], file'[d].log) /\ Agrees(file'[d])
      BY <1>5 DEF DurabilityInv, SavedNeverLost, KnownIsApplied
    <2> QED BY <1>5, <1>6, <2>1, <2>2, NextInv
  <1>7. CASE ~p.thrown
    <2>1. p.log \in Seq(Work) /\ p.known \in SUBSET Work /\ IsPrefix(mem.log, p.log) /\ Agrees(c)
      BY <1>4 DEF SoundProgress
    <2>2. c \in State /\ c.log = p.log
      BY <2>1 DEF Contents, State
    <2>3. mem.log \in Seq(Work)
      BY <1>1 DEF State
    <2> HIDE DEF c
    <2>4. IsPrefix(saved[backend], c.log)
      BY <1>1, <2>1, <2>2, <2>3, PrefixOfPrefix
    <2> QED BY <1>1, <1>5, <1>7, <2>1, <2>2, <2>4, MemoryGoesOn
  <1> QED BY <1>6, <1>7

\* DurabilityInv is inductive.
LEMMA DurabilityStep ==
  ASSUME DurabilityInv, [Next]_vars
  PROVE  DurabilityInv'
  <1>1. CASE UNCHANGED vars
    BY <1>1 DEF vars, storeVars, DurabilityInv, StoreTypes, SavedNeverLost, KnownIsApplied,
                Agrees, ToSet, Up, Readable
  <1>2. ASSUME Next
        PROVE  DurabilityInv'
    <2>1. program' = program
      BY <1>2 DEF Next
    <2>2. CASE StoreStep
      BY <2>1, <2>2, LoadKeeps, SaveKeeps, CrashKeeps, MigrateKeeps DEF StoreStep
    <2>3. CASE program = "server" /\ ServerStep
      BY <2>1, <2>3, RequestKeeps, FailingTriggerKeeps, SaveFailsKeeps DEF ServerStep
    <2>4. CASE program = "consumer" /\ ConsumerStep
      BY <2>1, <2>4, DeliverKeeps DEF ConsumerStep
    <2> QED BY <1>2, <2>2, <2>3, <2>4 DEF Next
  <1> QED BY <1>1, <1>2

\* The types of the store, and all that the theorems below state, hold in
\* every state.
THEOREM DurabilityInvariant == Spec => []DurabilityInv
  <1>1. Init => DurabilityInv
    <2> SUFFICES ASSUME Init
                 PROVE  DurabilityInv
      OBVIOUS
    <2>1. /\ backend \in Backends /\ mem = Down /\ saveDue = FALSE
          /\ file = [b \in Backends |-> Missing] /\ saved = [b \in Backends |-> <<>>]
          /\ program \in {"server", "consumer"}
      BY DEF Init, StoreInit
    <2>2. <<>> \in Seq(Work)
      OBVIOUS
    <2>3. StoreTypes
      BY <2>1, <2>2 DEF StoreTypes
    <2>4. \A b \in Backends : file[b] = Missing /\ saved[b] = <<>>
      BY <2>1
    <2>5. SavedNeverLost /\ KnownIsApplied
      BY <2>1, <2>4 DEF SavedNeverLost, KnownIsApplied, Up, Readable
    <2> QED BY <2>1, <2>3, <2>4, <2>5 DEF DurabilityInv
  <1>2. DurabilityInv /\ [Next]_vars => DurabilityInv'
    BY DurabilityStep
  <1> QED BY <1>1, <1>2, PTL DEF Spec

\* What a complete save has put on disk is there for good, through crashes,
\* failed saves, restarts and migrations (load, save, migrateStateStore).
THEOREM SavedStays == Spec => []SavedNeverLost
  <1>1. DurabilityInv => SavedNeverLost
    BY DEF DurabilityInv
  <1> QED BY <1>1, DurabilityInvariant, PTL

\* The work of every key or event a state knows has been done, exactly once,
\* and no other (idempotency records, webhook_seen_event_ids).
THEOREM KnownWorkIsDoneOnce == Spec => []KnownIsApplied
  <1>1. DurabilityInv => KnownIsApplied
    BY DEF DurabilityInv
  <1> QED BY <1>1, DurabilityInvariant, PTL
=============================================================================
