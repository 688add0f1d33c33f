-------------------------- MODULE RouteStoreProofs --------------------------
(***************************************************************************)
(* Theorems about RouteStore, for every first catalogue that is valid, any *)
(* windows, ids and bounds: what is published can be connected to, and a   *)
(* save takes nothing away.                                                *)
(***************************************************************************)
EXTENDS RouteStore, FiniteSetTheorems, SequenceTheorems, WellFoundedInduction, TLAPS

-----------------------------------------------------------------------------
(* The inductive invariant.                                                *)

\* A catalogue, as the operators of RouteGraph need it.
Catalogue(s) ==
  /\ DOMAIN s = {"rev", "nodes", "entries"} /\ s.rev \in Nat
  /\ IsFiniteSet(DOMAIN s.nodes)
  /\ \A e \in DOMAIN s.entries : DOMAIN s.entries[e] = {"start", "key"}

\* An edit may redirect entries and add nodes; it keeps everything else.
Grown(s, t) ==
  /\ Catalogue(t) /\ t.rev = s.rev
  /\ DOMAIN s.nodes \subseteq DOMAIN t.nodes
  /\ DOMAIN t.entries = DOMAIN s.entries
  /\ \A e \in DOMAIN s.entries : t.entries[e].key = s.entries[e].key

\* A draft has what its editor started from, and at most one entry more.
Draft(s, base, e) ==
  /\ Catalogue(s) /\ s.rev = base.rev
  /\ DOMAIN base.nodes \subseteq DOMAIN s.nodes
  /\ DOMAIN s.entries = DOMAIN base.entries \cup {e}
  /\ \A o \in DOMAIN s.entries :
       s.entries[o].key = IF o \in DOMAIN base.entries THEN base.entries[o].key ELSE None

\* A catalogue from which nothing went away stands for another one: it has all
\* that is there, and an entry it has beside that has no key.
Covers(base, s) ==
  /\ DOMAIN s.nodes \subseteq DOMAIN base.nodes
  /\ DOMAIN s.entries \subseteq DOMAIN base.entries
  /\ \A o \in DOMAIN base.entries :
       base.entries[o].key = IF o \in DOMAIN s.entries THEN s.entries[o].key ELSE None

\* The key of an entry is its own and in the store, and so is the key of a node
\* that no entry answers for; a connection of the past has no key of its own.
KeysStored ==
  /\ \A e \in DOMAIN stored.entries :
       LET k == stored.entries[e].key
       IN  k # None => k \in keys /\ k.owner = e /\ e \notin History
  /\ \A n \in DOMAIN stored.nodes :
       LET k == stored.nodes[n].key
       IN  k \in Ref /\ k.owner = None => k \in keys

EditorFields == {"mode", "kind", "entry", "draft", "base", "cards", "scope", "made", "making",
                 "offered", "told", "named"}

\* An editor whose catalogue has the published revision has all its contents.
EditorInv(x, s) ==
  /\ x.mode \in {"closed", "open", "saving"}
  /\ x.mode # "closed" =>
       /\ DOMAIN x = EditorFields
       /\ Catalogue(x.base) /\ x.base.rev <= s.rev
       /\ x.base.rev = s.rev => Covers(x.base, s)
       /\ Draft(x.draft, x.base, x.entry)
       /\ \E S : x.cards \in Seq(S)

StoreInv ==
  /\ Catalogue(stored) /\ Valid(stored) /\ KeysStored
  /\ DOMAIN ed = Window
  /\ \A w \in Window : EditorInv(ed[w], stored)

-----------------------------------------------------------------------------
(* Recursive functions: one exists if it exists up to every number.        *)

LEMMA Least ==
  ASSUME NEW T \in SUBSET Nat, T # {}
  PROVE  \E n \in T : \A m \in T : ~(m < n)
<1> DEFINE R == OpToRel(<, Nat)
<1>1. IsWellFoundedOn(R, Nat)
  BY NatLessThanWellFounded
<1>2. R = {p \in Nat \X Nat : p[1] < p[2]}
  BY DEF OpToRel
<1> HIDE DEF R
<1>3. PICK n \in T : \A m \in T : <<m, n>> \notin R
  BY <1>1, WFMin
<1> QED BY <1>2, <1>3

LEMMA UpTo ==
  ASSUME NEW S \in SUBSET Nat, 0 \in S, \A n \in S : n + 1 \in S
  PROVE  S = Nat
<1> SUFFICES ASSUME Nat \ S # {} PROVE FALSE
  OBVIOUS
<1>1. PICK n \in Nat \ S : \A m \in Nat \ S : ~(m < n)
  BY Least
<1>2. n - 1 \in Nat /\ n - 1 < n /\ n - 1 \notin S
  BY <1>1
<1> QED BY <1>1, <1>2

LEMMA SizeUpTo ==
  ASSUME NEW k \in Nat
  PROVE  IsFiniteSet(1..k) /\ Cardinality(1..k) = k
<1>1. 1 \in Int /\ k \in Int
  OBVIOUS
<1>2. IsFiniteSet(1..k) /\ Cardinality(1..k) = IF 1 > k THEN 0 ELSE k - 1 + 1
  BY <1>1, FS_Interval
<1>3. (IF 1 > k THEN 0 ELSE k - 1 + 1) = k
  OBVIOUS
<1> QED BY <1>2, <1>3

-----------------------------------------------------------------------------
(* Following the links of a catalogue.                                     *)

After(nodes, n) == IF n \in DOMAIN nodes THEN nodes[n].next ELSE None
WalkOf(nodes, start, k, at) ==
  at = [i \in 1..k |-> IF i = 1 THEN start ELSE After(nodes, at[i-1])]

\* A walk as long as one likes exists.
LEMMA WalkExists ==
  ASSUME NEW nodes, NEW start, NEW N \in Nat
  PROVE  \E at : WalkOf(nodes, start, N, at)
<1> DEFINE S == {k \in Nat : \E at : WalkOf(nodes, start, k, at)}
<1>1. 0 \in S
  <2>1. <<>> = [i \in 1..0 |-> IF i = 1 THEN start ELSE After(nodes, <<>>[i-1])]
    OBVIOUS
  <2> QED BY <2>1 DEF WalkOf
<1>2. ASSUME NEW k \in S PROVE k + 1 \in S
  <2>1. PICK at : at = [i \in 1..k |-> IF i = 1 THEN start ELSE After(nodes, at[i-1])]
    BY <1>2 DEF WalkOf
  <2> DEFINE longer == [i \in 1..k+1 |-> IF i = k + 1
                                        THEN IF i = 1 THEN start ELSE After(nodes, at[k])
                                        ELSE at[i]]
  <2>2. ASSUME NEW i \in 1..k+1
        PROVE  longer[i] = IF i = 1 THEN start ELSE After(nodes, longer[i-1])
    <3>1. k \in Nat
      BY <1>2
    <3>2. CASE i = k + 1 /\ i = 1
      BY <3>2
    <3>3. CASE i = k + 1 /\ i # 1
      BY <3>1, <3>3
    <3>4. CASE i \in 1..k
      <4>1. longer[i] = at[i] /\ (i # 1 => longer[i-1] = at[i-1])
        BY <3>1, <3>4
      <4>2. at[i] = IF i = 1 THEN start ELSE After(nodes, at[i-1])
        BY <2>1, <3>4
      <4> QED BY <4>1, <4>2
    <3> QED BY <3>1, <3>2, <3>3, <3>4
  <2>3. longer = [i \in 1..k+1 |-> IF i = 1 THEN start ELSE After(nodes, longer[i-1])]
    BY <2>2
  <2> HIDE DEF longer
  <2>4. WalkOf(nodes, start, k + 1, longer)
    BY <2>3 DEF WalkOf
  <2> QED BY <1>2, <2>4
<1>3. S = Nat
  <2> HIDE DEF S
  <2>1. S \in SUBSET Nat
    BY DEF S
  <2> QED BY <1>1, <1>2, <2>1, UpTo
<1> QED BY <1>3

\* What Walk returns.
LEMMA WalkIs ==
  ASSUME NEW nodes, IsFiniteSet(DOMAIN nodes), NEW start
  PROVE  LET N == Cardinality(DOMAIN nodes)
             at == Walk(nodes, start)
         IN  /\ N \in Nat
             /\ DOMAIN at = 1..N+1 /\ at[1] = start
             /\ \A i \in 1..N : at[i+1] = After(nodes, at[i])
<1> DEFINE N == Cardinality(DOMAIN nodes)
           F == CHOOSE at : at = [i \in 1..N+1 |->
                  IF i = 1 THEN start
                  ELSE LET n == at[i-1] IN IF n \in DOMAIN nodes THEN nodes[n].next ELSE None]
<1>1. N \in Nat
  BY FS_CardinalityType
<1>2. \E at : WalkOf(nodes, start, N + 1, at)
  <2> HIDE DEF N
  <2>1. N + 1 \in Nat
    BY <1>1
  <2> QED BY <2>1, WalkExists
<1>3. F = [i \in 1..N+1 |-> IF i = 1 THEN start ELSE After(nodes, F[i-1])]
  BY <1>2 DEF After, WalkOf
<1>4. Walk(nodes, start) = [i \in DOMAIN F |-> F[i]]
  BY DEF Walk
<1> HIDE DEF F, N
<1>5. DOMAIN F = 1..N+1
  BY <1>3
<1>6. \A i \in 1..N+1 : Walk(nodes, start)[i] = F[i]
  BY <1>4, <1>5
<1>7. \A i \in 1..N : i + 1 \in 1..N+1 /\ i \in 1..N+1 /\ i + 1 # 1 /\ (i + 1) - 1 = i
  BY <1>1
<1>8. \A i \in 1..N : F[i+1] = After(nodes, F[i])
  BY <1>3, <1>7
<1>9. 1 \in 1..N+1 /\ F[1] = start
  BY <1>1, <1>3
<1> QED BY <1>1, <1>4, <1>5, <1>6, <1>7, <1>8, <1>9 DEF N

\* A walk meets something twice, or leaves the nodes, after at most all of them.
LEMMA HopsIs ==
  ASSUME NEW nodes, IsFiniteSet(DOMAIN nodes), NEW start
  PROVE  LET at == Walk(nodes, start)
             n == Hops(nodes, at)
         IN  /\ n \in 0..Cardinality(DOMAIN nodes)
             /\ ~ NewHop(nodes, at, n + 1)
             /\ \A i \in 1..n : NewHop(nodes, at, i)
<1> DEFINE N == Cardinality(DOMAIN nodes)
           at == Walk(nodes, start)
           T == {n \in 0..N : ~ NewHop(nodes, at, n + 1)}
<1>1. N \in Nat /\ DOMAIN at = 1..N+1
  BY WalkIs
<1>2. T # {}
  <2> SUFFICES ASSUME T = {} PROVE FALSE
    OBVIOUS
  <2>1. \A i \in 1..N+1 : NewHop(nodes, at, i)
    <3> SUFFICES ASSUME NEW i \in 1..N+1 PROVE NewHop(nodes, at, i)
      OBVIOUS
    <3>1. i - 1 \in 0..N /\ (i - 1) + 1 = i
      BY <1>1
    <3> QED BY <3>1
  <2> DEFINE f == [i \in 1..N+1 |-> at[i]]
  <2> HIDE DEF N, at, T
  <2>2. f \in [1..N+1 -> DOMAIN nodes]
    BY <2>1 DEF NewHop
  <2>3. IsFiniteSet(1..N+1) /\ Cardinality(1..N+1) = N + 1
    BY <1>1, SizeUpTo
  <2>4. N < N + 1 /\ Cardinality(DOMAIN nodes) = N
    BY <1>1 DEF N
  <2> HIDE DEF f
  <2>5. PICK i, j \in 1..N+1 : i # j /\ f[i] = f[j]
    <3> DEFINE S == 1..N+1
               D == DOMAIN nodes
    <3>1. /\ IsFiniteSet(S) /\ IsFiniteSet(D) /\ Cardinality(D) < Cardinality(S)
          /\ f \in [S -> D]
      BY <2>2, <2>3, <2>4
    <3> HIDE DEF S, D
    <3>2. \E i, j \in S : i # j /\ f[i] = f[j]
      BY <3>1, FS_PigeonHole
    <3> QED BY <3>2 DEF S
  <2>6. f[i] = at[i] /\ f[j] = at[j]
    BY DEF f
  <2>7. i \in 1..j-1 \/ j \in 1..i-1
    BY <1>1, <2>5
  <2>8. at[j] # at[i]
    BY <2>1, <2>7 DEF NewHop
  <2> QED BY <2>5, <2>6, <2>8
<1>3. PICK n \in T : \A m \in T : ~ (m < n)
  <2>1. T \in SUBSET Nat
    BY <1>1
  <2> HIDE DEF T
  <2> QED BY <1>2, <2>1, Least
<1>4. \A i \in 1..n : NewHop(nodes, at, i)
  <2> SUFFICES ASSUME NEW i \in 1..n PROVE NewHop(nodes, at, i)
    OBVIOUS
  <2>1. i - 1 \in 0..N /\ (i - 1) + 1 = i /\ i - 1 < n
    BY <1>1
  <2>2. i - 1 \notin T
    BY <1>3, <2>1
  <2> QED BY <2>1, <2>2
<1>5. n \in 0..N /\ ~ NewHop(nodes, at, n + 1)
  OBVIOUS
<1> HIDE DEF N, at, T
<1>6. Hops(nodes, at) = CHOOSE k \in 0..N :
        ~ NewHop(nodes, at, k + 1) /\ \A i \in 1..k : NewHop(nodes, at, i)
  BY DEF Hops, N
<1>7. \E k \in 0..N : ~ NewHop(nodes, at, k + 1) /\ \A i \in 1..k : NewHop(nodes, at, i)
  BY <1>4, <1>5
<1>8. /\ Hops(nodes, at) \in 0..N
      /\ ~ NewHop(nodes, at, Hops(nodes, at) + 1)
      /\ \A i \in 1..Hops(nodes, at) : NewHop(nodes, at, i)
  BY <1>6, <1>7
<1> QED BY <1>8 DEF N, at

\* What Resolve returns: a sequence of different nodes that follow the links, and
\* why it ends.
LEMMA ResolveIs ==
  ASSUME NEW nodes, IsFiniteSet(DOMAIN nodes), NEW start
  PROVE  LET r == Resolve(nodes, start)
             n == Len(r.path)
         IN  /\ r.path \in Seq(DOMAIN nodes) /\ n \in Nat
             /\ n <= Cardinality(DOMAIN nodes)
             /\ n # 0 => r.path[1] = start
             /\ n = 0 => r.back = start
             /\ \A i \in 1..n : nodes[r.path[i]].next = IF i < n THEN r.path[i+1] ELSE r.back
             /\ r.error = "cycle" => \E i \in 1..n : r.path[i] = r.back
             /\ r.error = "none" => /\ r.back = None /\ None \notin DOMAIN nodes
                                    /\ n # 0 /\ n <= MaxJumps + 1
<1> DEFINE N == Cardinality(DOMAIN nodes)
           at == Walk(nodes, start)
           n == Hops(nodes, at)
           r == Resolve(nodes, start)
<1>1. /\ N \in Nat /\ DOMAIN at = 1..N+1 /\ at[1] = start
      /\ \A i \in 1..N : at[i+1] = After(nodes, at[i])
  BY WalkIs
<1>2. /\ n \in 0..N /\ ~ NewHop(nodes, at, n + 1)
      /\ \A i \in 1..n : NewHop(nodes, at, i)
  BY HopsIs
<1>3. r = Cut(nodes, at, n)
  BY DEF Resolve, ResolveWalk
<1> HIDE DEF N, at, n, r
<1>4. r.path = SubSeq(at, 1, n) /\ r.back = at[n+1]
  BY <1>3 DEF Cut
<1>5. n \in Nat /\ \A i \in 1..n : at[i] \in DOMAIN nodes
  BY <1>1, <1>2 DEF NewHop
<1>6. /\ r.path \in Seq(DOMAIN nodes) /\ Len(r.path) = n
      /\ \A i \in 1..n : r.path[i] = at[i]
  <2>1. n \in Int /\ 1 \in Int /\ (IF 1 <= n THEN n - 1 + 1 ELSE 0) = n /\ n - 1 + 1 = n
    BY <1>5
  <2>2. \A i \in 1..n : at[i] \in DOMAIN nodes
    BY <1>5
  <2>3. /\ SubSeq(at, 1, n) \in Seq(DOMAIN nodes)
        /\ Len(SubSeq(at, 1, n)) = IF 1 <= n THEN n - 1 + 1 ELSE 0
        /\ \A i \in 1..n - 1 + 1 : SubSeq(at, 1, n)[i] = at[1 + i - 1]
    BY <2>1, <2>2, SubSeqProperties
  <2>4. \A i \in 1..n : 1 + i - 1 = i
    BY <1>5
  <2> QED BY <1>4, <2>1, <2>3, <2>4
<1>7. \A i \in 1..n : nodes[r.path[i]].next = IF i < n THEN r.path[i+1] ELSE r.back
  <2> SUFFICES ASSUME NEW i \in 1..n
               PROVE  nodes[r.path[i]].next = IF i < n THEN r.path[i+1] ELSE r.back
    OBVIOUS
  <2>1. i \in 1..N /\ at[i+1] = nodes[at[i]].next
    BY <1>1, <1>2, <1>5 DEF After
  <2>2. CASE i < n
    <3>1. i + 1 \in 1..n
      BY <1>5, <2>2
    <3> QED BY <1>6, <2>1, <2>2, <3>1
  <2>3. CASE ~ (i < n)
    <3>1. i = n
      BY <1>5, <2>3
    <3> QED BY <1>4, <1>6, <2>1, <2>3, <3>1
  <2> QED BY <2>2, <2>3
<1>8. r.error = "cycle" => \E i \in 1..n : r.path[i] = r.back
  <2> SUFFICES ASSUME r.error = "cycle" PROVE \E i \in 1..n : r.path[i] = r.back
    OBVIOUS
  <2>1. at[n+1] \in DOMAIN nodes
    BY <1>3 DEF Cut
  <2>2. PICK j \in 1..(n+1)-1 : at[j] = at[n+1]
    BY <1>2, <2>1 DEF NewHop
  <2>3. j \in 1..n
    BY <1>5
  <2> QED BY <1>4, <1>6, <2>2, <2>3
<1>9. r.error = "none" => /\ r.back = None /\ None \notin DOMAIN nodes
                          /\ n # 0 /\ n <= MaxJumps + 1
  BY <1>3, <1>5, GraphAssumption DEF Cut
<1>10. n # 0 => r.path[1] = start
  <2>1. n # 0 => 1 \in 1..n
    BY <1>5
  <2> QED BY <1>1, <1>6, <2>1
<1>11. n = 0 => r.back = start
  BY <1>1, <1>4
<1>12. n <= N
  BY <1>1, <1>2
<1> QED BY <1>5, <1>6, <1>7, <1>8, <1>9, <1>10, <1>11, <1>12 DEF r, N

\* What ResolveIs says of the route of an entry.
LEMMA RouteIs ==
  ASSUME NEW s, IsFiniteSet(DOMAIN s.nodes), NEW e
  PROVE  LET r == Route(s, e)
             n == Len(r.path)
         IN  /\ r.path \in Seq(DOMAIN s.nodes) /\ n \in Nat
             /\ n <= Cardinality(DOMAIN s.nodes)
             /\ n # 0 => r.path[1] = s.entries[e].start
             /\ \A i \in 1..n : s.nodes[r.path[i]].next = IF i < n THEN r.path[i+1] ELSE r.back
             /\ r.error = "cycle" => \E i \in 1..n : r.path[i] = r.back
             /\ r.error = "none" => /\ r.back = None /\ None \notin DOMAIN s.nodes
                                    /\ n # 0 /\ n <= MaxJumps + 1
<1> DEFINE nodes == s.nodes
           start == s.entries[e].start
           r == Resolve(nodes, start)
<1>1. Route(s, e) = r
  BY DEF Route
<1>2. IsFiniteSet(DOMAIN nodes)
  OBVIOUS
<1> HIDE DEF nodes, start
<1>3. /\ r.path \in Seq(DOMAIN nodes) /\ Len(r.path) \in Nat
      /\ Len(r.path) <= Cardinality(DOMAIN nodes)
      /\ Len(r.path) # 0 => r.path[1] = start
      /\ \A i \in 1..Len(r.path) :
           nodes[r.path[i]].next = IF i < Len(r.path) THEN r.path[i+1] ELSE r.back
      /\ r.error = "cycle" => \E i \in 1..Len(r.path) : r.path[i] = r.back
      /\ r.error = "none" => /\ r.back = None /\ None \notin DOMAIN nodes
                             /\ Len(r.path) # 0 /\ Len(r.path) <= MaxJumps + 1
  BY <1>2, ResolveIs
<1> HIDE DEF r
<1> QED BY <1>1, <1>3 DEF nodes, start

-----------------------------------------------------------------------------
(* What can be reached from a node is what Resolve finds.                  *)

Spread(nodes, q) == q \cup {nodes[n].next : n \in q \cap DOMAIN nodes}
ReachOf(nodes, start, k, r) ==
  r = [i \in 0..k |-> IF i = 0 THEN {start} ELSE Spread(nodes, r[i-1])]

LEMMA ReachExists ==
  ASSUME NEW nodes, NEW start, NEW N \in Nat
  PROVE  \E r : ReachOf(nodes, start, N, r)
<1> DEFINE S == {k \in Nat : \E r : ReachOf(nodes, start, k, r)}
<1>1. 0 \in S
  <2> DEFINE r == [i \in 0..0 |-> {start}]
  <2>1. r = [i \in 0..0 |-> IF i = 0 THEN {start} ELSE Spread(nodes, r[i-1])]
    OBVIOUS
  <2> QED BY <2>1 DEF ReachOf
<1>2. ASSUME NEW k \in S PROVE k + 1 \in S
  <2>1. PICK r : r = [i \in 0..k |-> IF i = 0 THEN {start} ELSE Spread(nodes, r[i-1])]
    BY <1>2 DEF ReachOf
  <2> DEFINE longer == [i \in 0..k+1 |-> IF i = k + 1 THEN Spread(nodes, r[k]) ELSE r[i]]
  <2>2. ASSUME NEW i \in 0..k+1
        PROVE  longer[i] = IF i = 0 THEN {start} ELSE Spread(nodes, longer[i-1])
    <3>1. k \in Nat
      BY <1>2
    <3>2. CASE i = k + 1
      BY <3>1, <3>2
    <3>3. CASE i \in 0..k
      <4>1. longer[i] = r[i] /\ (i # 0 => longer[i-1] = r[i-1])
        BY <3>1, <3>3
      <4>2. r[i] = IF i = 0 THEN {start} ELSE Spread(nodes, r[i-1])
        BY <2>1, <3>3
      <4> QED BY <4>1, <4>2
    <3> QED BY <3>1, <3>2, <3>3
  <2>3. longer = [i \in 0..k+1 |-> IF i = 0 THEN {start} ELSE Spread(nodes, longer[i-1])]
    BY <2>2
  <2> HIDE DEF longer
  <2>4. ReachOf(nodes, start, k + 1, longer)
    BY <2>3 DEF ReachOf
  <2> QED BY <1>2, <2>4
<1>3. S = Nat
  <2> HIDE DEF S
  <2>1. S \in SUBSET Nat
    BY DEF S
  <2> QED BY <1>1, <1>2, <2>1, UpTo
<1> QED BY <1>3

\* The sets that Reach goes through.
ReachBy(s, e, r) ==
  LET N == Cardinality(DOMAIN s.nodes)
  IN  /\ r[0] = {s.entries[e].start}
      /\ \A k \in 1..N : r[k] = Spread(s.nodes, r[k-1])
      /\ Reach(s, e) = r[N] \ {None}

LEMMA ReachIs ==
  ASSUME NEW s, IsFiniteSet(DOMAIN s.nodes), NEW e
  PROVE  \E r : ReachBy(s, e, r)
<1> DEFINE N == Cardinality(DOMAIN s.nodes)
           F == CHOOSE r : r = [k \in 0..N |->
                  IF k = 0 THEN {s.entries[e].start}
                  ELSE LET q == r[k-1] IN q \cup {s.nodes[n].next : n \in q \cap DOMAIN s.nodes}]
<1>1. N \in Nat
  BY FS_CardinalityType
<1>2. \E r : ReachOf(s.nodes, s.entries[e].start, N, r)
  <2> HIDE DEF N
  <2> QED BY <1>1, ReachExists
<1>3. F = [k \in 0..N |-> IF k = 0 THEN {s.entries[e].start} ELSE Spread(s.nodes, F[k-1])]
  BY <1>2 DEF ReachOf, Spread
<1>4. Reach(s, e) = F[N] \ {None}
  BY DEF Reach
<1> HIDE DEF F, N
<1>5. F[0] = {s.entries[e].start}
  BY <1>1, <1>3
<1>6. \A k \in 1..N : F[k] = Spread(s.nodes, F[k-1])
  <2>1. \A k \in 1..N : k \in 0..N /\ k # 0
    BY <1>1
  <2> QED BY <1>3, <2>1
<1>7. ReachBy(s, e, F)
  BY <1>4, <1>5, <1>6 DEF N, ReachBy
<1> QED BY <1>7

\* A route without an error reaches the nodes of its path, and no other.
LEMMA ReachIsPath ==
  ASSUME NEW s, IsFiniteSet(DOMAIN s.nodes), NEW e, Route(s, e).error = "none"
  PROVE  Reach(s, e) = Range(Route(s, e).path)
<1> DEFINE N == Cardinality(DOMAIN s.nodes)
           p == Route(s, e).path
           n == Len(p)
           P == {p[i] : i \in 1..n}
<1>1. /\ p \in Seq(DOMAIN s.nodes) /\ n \in Nat /\ n <= N /\ n # 0
      /\ p[1] = s.entries[e].start /\ None \notin DOMAIN s.nodes
      /\ \A i \in 1..n : s.nodes[p[i]].next = IF i < n THEN p[i+1] ELSE None
  BY RouteIs
<1>2. N \in Nat
  BY FS_CardinalityType
<1>3. PICK r : ReachBy(s, e, r)
  BY ReachIs
<1>4. /\ r[0] = {s.entries[e].start}
      /\ \A k \in 1..N : r[k] = Spread(s.nodes, r[k-1])
      /\ Reach(s, e) = r[N] \ {None}
  BY <1>3 DEF ReachBy
<1> HIDE DEF N, p, n
<1>5. P \subseteq DOMAIN s.nodes /\ p[1] \in P
  <2>1. \A i \in 1..n : p[i] \in DOMAIN s.nodes
    BY <1>1 DEF n
  <2>2. 1 \in 1..n
    BY <1>1
  <2> QED BY <2>1, <2>2
<1> DEFINE S == {k \in Nat : k <= N => /\ r[k] \subseteq P \cup {None}
                                       /\ \A i \in 1..n : i <= k + 1 => p[i] \in r[k]}
<1>6. 0 \in S
  <2>1. r[0] = {p[1]}
    BY <1>1, <1>4
  <2>2. \A i \in 1..n : i <= 0 + 1 => i = 1
    BY <1>1
  <2> QED BY <1>5, <2>1, <2>2
<1>7. ASSUME NEW k \in S PROVE k + 1 \in S
  <2> SUFFICES ASSUME k + 1 <= N
               PROVE  /\ r[k+1] \subseteq P \cup {None}
                      /\ \A i \in 1..n : i <= (k + 1) + 1 => p[i] \in r[k+1]
    BY <1>7
  <2>1. k \in Nat /\ k + 1 \in 1..N /\ k <= N /\ (k + 1) - 1 = k
    BY <1>2, <1>7
  <2>2. /\ r[k] \subseteq P \cup {None}
        /\ \A i \in 1..n : i <= k + 1 => p[i] \in r[k]
    BY <1>7, <2>1
  <2>3. r[k+1] = r[k] \cup {s.nodes[m].next : m \in r[k] \cap DOMAIN s.nodes}
    BY <1>4, <2>1 DEF Spread
  <2>4. ASSUME NEW m \in r[k] \cap DOMAIN s.nodes PROVE s.nodes[m].next \in P \cup {None}
    <3>1. PICK i \in 1..n : m = p[i]
      BY <1>1, <2>2
    <3>2. i < n => i + 1 \in 1..n
      BY <1>1
    <3> QED BY <1>1, <3>1, <3>2
  <2>5. ASSUME NEW i \in 1..n, i <= (k + 1) + 1 PROVE p[i] \in r[k+1]
    <3>1. CASE i <= k + 1
      BY <2>2, <2>3, <3>1
    <3>2. CASE i = (k + 1) + 1
      <4>1. i - 1 \in 1..n /\ i - 1 < n /\ (i - 1) + 1 = i /\ i - 1 <= k + 1
        BY <1>1, <2>1, <3>2
      <4>2. s.nodes[p[i-1]].next = p[i]
        BY <1>1, <4>1
      <4>3. p[i-1] \in r[k] \cap DOMAIN s.nodes
        BY <1>5, <2>2, <4>1
      <4> QED BY <2>3, <4>2, <4>3
    <3> QED BY <1>1, <2>1, <2>5, <3>1, <3>2
  <2> QED BY <2>2, <2>3, <2>4, <2>5
<1>8. S = Nat
  <2> HIDE DEF S
  <2>1. S \in SUBSET Nat
    BY DEF S
  <2> QED BY <1>6, <1>7, <2>1, UpTo
<1>9. /\ r[N] \subseteq P \cup {None}
      /\ \A i \in 1..n : p[i] \in r[N]
  <2>1. N \in S
    BY <1>2, <1>8
  <2>2. \A i \in 1..n : i <= N + 1
    BY <1>1, <1>2
  <2> QED BY <1>2, <2>1, <2>2
<1>10. Reach(s, e) = P
  <2>1. None \notin P
    BY <1>1, <1>5
  <2>2. P \subseteq r[N]
    BY <1>9
  <2> QED BY <1>4, <1>9, <2>1, <2>2
<1>11. P = Range(p)
  <2>1. DOMAIN p = 1..n
    BY <1>1, LenProperties DEF n
  <2> QED BY <2>1 DEF Range
<1> QED BY <1>10, <1>11 DEF p

-----------------------------------------------------------------------------
(* A valid catalogue can be connected to.                                  *)

LEMMA ValidUsable ==
  ASSUME NEW s, IsFiniteSet(DOMAIN s.nodes), Valid(s), NEW e \in DOMAIN s.entries
  PROVE  /\ s.entries[e].start # None
         /\ Reach(s, e) \subseteq DOMAIN s.nodes
         /\ \E n \in Reach(s, e) : s.nodes[n].next = None
         /\ Cardinality(Reach(s, e)) <= MaxJumps + 1
         /\ \A n \in Reach(s, e) : PublicNode(s.nodes[n]) /\ OwnerHasKey(s, s.nodes[n].key)
<1> DEFINE p == Route(s, e).path
           n == Len(p)
<1>1. Route(s, e).error = "none"
  BY DEF Valid
<1>2. /\ p \in Seq(DOMAIN s.nodes) /\ n \in Nat /\ n # 0 /\ n <= MaxJumps + 1
      /\ p[1] = s.entries[e].start /\ None \notin DOMAIN s.nodes
      /\ \A i \in 1..n : s.nodes[p[i]].next = IF i < n THEN p[i+1] ELSE None
  BY <1>1, RouteIs
<1>3. Reach(s, e) = Range(p)
  BY <1>1, ReachIsPath
<1>4. \A m \in Range(p) : OwnerHasKey(s, s.nodes[m].key)
  BY DEF Valid
<1> HIDE DEF p
<1>5. p \in [1..n -> DOMAIN s.nodes] /\ DOMAIN p = 1..n
  BY <1>2, LenProperties
<1>6. Range(p) \subseteq DOMAIN s.nodes /\ 1 \in 1..n /\ n \in 1..n
  BY <1>2, <1>5 DEF Range
<1>7. s.entries[e].start # None
  BY <1>2, <1>5, <1>6
<1>8. p[n] \in Range(p) /\ s.nodes[p[n]].next = None
  BY <1>2, <1>5, <1>6 DEF Range
<1>9. Cardinality(Range(p)) <= MaxJumps + 1
  <2>1. p \in Surjection(1..n, Range(p))
    BY <1>5 DEF Surjection, Range
  <2> HIDE DEF n
  <2>2. IsFiniteSet(1..n) /\ Cardinality(1..n) = n
    BY <1>2, SizeUpTo
  <2>3. IsFiniteSet(Range(p)) /\ Cardinality(Range(p)) <= n
    BY <2>1, <2>2, FS_Surjection
  <2>4. Cardinality(Range(p)) \in Nat
    BY <2>3, FS_CardinalityType
  <2> QED BY <1>2, <2>3, <2>4, GraphAssumption
<1>10. \A m \in DOMAIN s.nodes : PublicNode(s.nodes[m])
  BY DEF Valid
<1> QED BY <1>3, <1>4, <1>6, <1>7, <1>8, <1>9, <1>10

LEMMA StoreUsable ==
  ASSUME StoreInv
  PROVE  RoutesUsable
<1> SUFFICES ASSUME NEW e \in DOMAIN stored.entries
             PROVE  /\ stored.entries[e].start # None
                    /\ Reach(stored, e) \subseteq DOMAIN stored.nodes
                    /\ \E n \in Reach(stored, e) : stored.nodes[n].next = None
                    /\ Cardinality(Reach(stored, e)) <= MaxJumps + 1
                    /\ \A n \in Reach(stored, e) :
                         LET k == stored.nodes[n].key
                         IN  k \in Ref => k \in keys /\ k.host = stored.nodes[n].host
  BY DEF RoutesUsable
<1>1. IsFiniteSet(DOMAIN stored.nodes) /\ Valid(stored) /\ KeysStored
  BY DEF StoreInv, Catalogue
<1>2. /\ stored.entries[e].start # None
      /\ Reach(stored, e) \subseteq DOMAIN stored.nodes
      /\ \E n \in Reach(stored, e) : stored.nodes[n].next = None
      /\ Cardinality(Reach(stored, e)) <= MaxJumps + 1
      /\ \A n \in Reach(stored, e) :
           PublicNode(stored.nodes[n]) /\ OwnerHasKey(stored, stored.nodes[n].key)
  BY <1>1, ValidUsable
<1>3. ASSUME NEW n \in Reach(stored, e), stored.nodes[n].key \in Ref
      PROVE  /\ stored.nodes[n].key \in keys
             /\ stored.nodes[n].key.host = stored.nodes[n].host
  <2> DEFINE k == stored.nodes[n].key
  <2>1. n \in DOMAIN stored.nodes /\ PublicNode(stored.nodes[n]) /\ OwnerHasKey(stored, k)
    BY <1>2, <1>3
  <2>2. k.host = stored.nodes[n].host
    BY <1>3, <2>1 DEF PublicNode
  <2>3. CASE k.owner = None
    BY <1>1, <1>3, <2>1, <2>2, <2>3 DEF KeysStored
  <2>4. CASE k.owner # None
    <3>1. k.owner \in DOMAIN stored.entries /\ stored.entries[k.owner].key = k /\ k # None
      BY <1>3, <2>1, <2>4, GraphAssumption DEF OwnerHasKey
    <3> QED BY <1>1, <2>2, <3>1 DEF KeysStored
  <2> QED BY <2>3, <2>4
<1> QED BY <1>2, <1>3

-----------------------------------------------------------------------------
(* What the edits do to a catalogue.                                       *)

LEMMA AddedIs ==
  ASSUME NEW f, NEW g
  PROVE  /\ DOMAIN Added(f, g) = DOMAIN f \cup DOMAIN g
         /\ \A x \in DOMAIN f : Added(f, g)[x] = f[x]
         /\ \A x \in DOMAIN g \ DOMAIN f : Added(f, g)[x] = g[x]
BY DEF Added

LEMMA RangeFinite ==
  ASSUME NEW f, NEW n \in Nat, DOMAIN f = 1..n
  PROVE  IsFiniteSet(Range(f))
<1> DEFINE h == [i \in 1..n |-> f[i]]
<1>1. h \in Surjection(1..n, Range(f))
  BY DEF Surjection, Range
<1>2. IsFiniteSet(1..n)
  BY SizeUpTo
<1> HIDE DEF h
<1> QED BY <1>1, <1>2, FS_Surjection

LEMMA FreshIs ==
  ASSUME NEW nodes, NEW k \in Nat
  PROVE  DOMAIN Fresh(nodes, k) = 1..k /\ IsFiniteSet(Range(Fresh(nodes, k)))
<1>1. DOMAIN Fresh(nodes, k) = 1..k
  BY DEF Fresh
<1> QED BY <1>1, RangeFinite

LEMMA GrownSteps ==
  ASSUME NEW s, NEW t, NEW u, Grown(s, t), Grown(t, u)
  PROVE  Grown(s, u)
BY DEF Grown

LEMMA GrownSame ==
  ASSUME NEW s, Catalogue(s)
  PROVE  Grown(s, s)
BY DEF Grown

LEMMA DraftGrows ==
  ASSUME NEW s, NEW t, NEW base, NEW e, Draft(s, base, e), Grown(s, t)
  PROVE  Draft(t, base, e)
BY DEF Draft, Grown

\* The nodes of a catalogue may be replaced by any that are as many or more.
LEMMA NodesGrow ==
  ASSUME NEW s, Catalogue(s), NEW nodes, IsFiniteSet(DOMAIN nodes),
         DOMAIN s.nodes \subseteq DOMAIN nodes
  PROVE  Grown(s, [s EXCEPT !.nodes = nodes])
<1> DEFINE t == [s EXCEPT !.nodes = nodes]
<1>1. DOMAIN t = DOMAIN s /\ t.nodes = nodes /\ t.rev = s.rev /\ t.entries = s.entries
  BY DEF Catalogue
<1> HIDE DEF t
<1>2. Grown(s, t)
  BY <1>1 DEF Grown, Catalogue
<1> QED BY <1>2 DEF t

LEMMA StartGrows ==
  ASSUME NEW s, Catalogue(s), NEW e, NEW n
  PROVE  Grown(s, [s EXCEPT !.entries[e].start = n])
<1> DEFINE t == [s EXCEPT !.entries[e].start = n]
<1>1. /\ DOMAIN t = DOMAIN s /\ t.nodes = s.nodes /\ t.rev = s.rev
      /\ t.entries = [s.entries EXCEPT ![e].start = n]
  BY DEF Catalogue
<1> HIDE DEF t
<1>2. DOMAIN t.entries = DOMAIN s.entries
  BY <1>1
<1>3. ASSUME NEW o \in DOMAIN s.entries
      PROVE  t.entries[o].key = s.entries[o].key /\ DOMAIN t.entries[o] = {"start", "key"}
  <2>1. DOMAIN s.entries[o] = {"start", "key"}
    BY <1>3 DEF Catalogue
  <2>2. CASE o = e
    BY <1>1, <1>3, <2>1, <2>2
  <2>3. CASE o # e
    BY <1>1, <1>3, <2>1, <2>3
  <2> QED BY <2>2, <2>3
<1>4. Grown(s, t)
  BY <1>1, <1>2, <1>3 DEF Grown, Catalogue
<1> QED BY <1>4 DEF t

\* Both at once, as the copies of a path do it.
Relinked(s, nodes, e, n) == [s EXCEPT !.nodes = nodes, !.entries[e].start = n]

LEMMA NodesAndStartGrow ==
  ASSUME NEW s, Catalogue(s), NEW nodes, IsFiniteSet(DOMAIN nodes),
         DOMAIN s.nodes \subseteq DOMAIN nodes, NEW e, NEW n
  PROVE  Grown(s, Relinked(s, nodes, e, n))
<1> DEFINE t == [s EXCEPT !.nodes = nodes]
           u == [t EXCEPT !.entries[e].start = n]
<1>1. Grown(s, t)
  BY NodesGrow
<1>2. Catalogue(t)
  BY <1>1 DEF Grown
<1>3. Grown(t, u)
  <2> HIDE DEF t
  <2> QED BY <1>2, StartGrows
<1>4. Relinked(s, nodes, e, n) = u
  BY DEF Relinked
<1> HIDE DEF t, u
<1> QED BY <1>1, <1>3, <1>4, GrownSteps

LEMMA CopyNodesIs ==
  ASSUME NEW nodes, IsFiniteSet(DOMAIN nodes), NEW chain, NEW ids, IsFiniteSet(Range(ids))
  PROVE  /\ DOMAIN nodes \subseteq DOMAIN CopyNodes(nodes, chain, ids)
         /\ IsFiniteSet(DOMAIN CopyNodes(nodes, chain, ids))
<1>1. DOMAIN CopyNodes(nodes, chain, ids) = DOMAIN nodes \cup Range(ids)
  BY AddedIs DEF CopyNodes
<1> QED BY <1>1, FS_Union

LEMMA CopyPathGrows ==
  ASSUME NEW s, Catalogue(s), NEW e, NEW chain, Len(chain) \in Nat
  PROVE  Grown(s, CopyPath(s, e, chain))
<1> DEFINE ids == Fresh(s.nodes, Len(chain))
           nodes == CopyNodes(s.nodes, chain, ids)
<1>1. IsFiniteSet(Range(ids)) /\ IsFiniteSet(DOMAIN s.nodes)
  BY FreshIs DEF Catalogue
<1>2. DOMAIN s.nodes \subseteq DOMAIN nodes /\ IsFiniteSet(DOMAIN nodes)
  <2> HIDE DEF ids
  <2> QED BY <1>1, CopyNodesIs
<1>3. CopyPath(s, e, chain) = Relinked(s, nodes, e, ids[1])
  BY DEF CopyPath, Relinked
<1> HIDE DEF ids, nodes
<1> QED BY <1>2, <1>3, NodesAndStartGrow

LEMMA CopyPrefixGrows ==
  ASSUME NEW s, Catalogue(s), NEW e, NEW prefix, NEW hops, NEW ids, IsFiniteSet(Range(ids)),
         NEW loop
  PROVE  Grown(s, CopyPrefix(s, e, prefix, hops, ids, loop))
<1> DEFINE moved == [n \in Range(prefix) |-> ids[Place(n, prefix)]]
           link(i) == LET n == hops[i].next
                      IN  IF n \in DOMAIN moved /\ (i < Len(ids) \/ loop) THEN moved[n] ELSE n
           copy(i) == [hops[i] EXCEPT !.next = link(i)]
           new == [n \in Range(ids) |-> copy(Place(n, ids))]
           nodes == Added(s.nodes, new)
<1>1. CopyPrefix(s, e, prefix, hops, ids, loop) = Relinked(s, nodes, e, ids[1])
  BY DEF CopyPrefix, Relinked
<1>2. DOMAIN new = Range(ids)
  OBVIOUS
<1> HIDE DEF new, copy, link, moved
<1>3. DOMAIN nodes = DOMAIN s.nodes \cup Range(ids)
  BY <1>2 DEF Added
<1> HIDE DEF nodes
<1>4. DOMAIN s.nodes \subseteq DOMAIN nodes /\ IsFiniteSet(DOMAIN nodes)
  <2> DEFINE old == DOMAIN s.nodes
  <2>1. IsFiniteSet(old)
    BY DEF Catalogue
  <2> HIDE DEF old
  <2>2. IsFiniteSet(old \cup Range(ids))
    BY <2>1, FS_Union
  <2> QED BY <1>3, <2>2 DEF old
<1> QED BY <1>1, <1>4, NodesAndStartGrow

LEMMA SubSeqLen ==
  ASSUME NEW seq, NEW m \in Int, NEW n \in Int
  PROVE  /\ Len(SubSeq(seq, m, n)) \in Nat
         /\ \E S : SubSeq(seq, m, n) \in Seq(S)
<1> DEFINE S == {seq[i] : i \in m..n}
<1>1. \A i \in m..n : seq[i] \in S
  OBVIOUS
<1> HIDE DEF S
<1>2. /\ SubSeq(seq, m, n) \in Seq(S)
      /\ Len(SubSeq(seq, m, n)) = IF m <= n THEN n - m + 1 ELSE 0
  BY <1>1, SubSeqProperties
<1>3. (IF m <= n THEN n - m + 1 ELSE 0) \in Nat
  OBVIOUS
<1> QED BY <1>2, <1>3

LEMMA ReplaceGrows ==
  ASSUME NEW s, Catalogue(s), NEW e, NEW index \in Int, NEW scope, NEW hop
  PROVE  Grown(s, ReplaceDraftNode(s, e, index, scope, hop))
<1> DEFINE r == Route(s, e)
           prefix == IF r.error = "cycle" THEN r.path ELSE SubSeq(r.path, 1, index)
           hops == [i \in DOMAIN prefix |-> IF i = index THEN hop ELSE s.nodes[prefix[i]]]
           ids == Fresh(s.nodes, Len(prefix))
           loop == r.error = "cycle"
           edited == [s.nodes EXCEPT ![r.path[index]] = hop]
<1>1. ReplaceDraftNode(s, e, index, scope, hop)
        = IF scope = "all" THEN [s EXCEPT !.nodes = edited]
          ELSE CopyPrefix(s, e, prefix, hops, ids, loop)
  BY DEF ReplaceDraftNode, ReplaceHop
<1>2. Grown(s, [s EXCEPT !.nodes = edited])
  <2>1. DOMAIN edited = DOMAIN s.nodes
    OBVIOUS
  <2> HIDE DEF edited
  <2>2. IsFiniteSet(DOMAIN edited) /\ DOMAIN s.nodes \subseteq DOMAIN edited
    BY <2>1 DEF Catalogue
  <2> QED BY <2>2, NodesGrow
<1>3. Grown(s, CopyPrefix(s, e, prefix, hops, ids, loop))
  <2>1. Len(r.path) \in Nat
    BY RouteIs DEF Catalogue
  <2>2. Len(SubSeq(r.path, 1, index)) \in Nat
    <3> HIDE DEF r
    <3> QED BY SubSeqLen
  <2>3. Len(prefix) \in Nat
    BY <2>1, <2>2
  <2> HIDE DEF prefix, hops, loop
  <2>4. IsFiniteSet(Range(ids))
    BY <2>3, FreshIs
  <2> HIDE DEF ids
  <2> QED BY <2>4, CopyPrefixGrows
<1> HIDE DEF r, prefix, hops, ids, loop, edited
<1> QED BY <1>1, <1>2, <1>3

LEMMA FlushCardGrows ==
  ASSUME NEW x, NEW s, Catalogue(s), NEW i \in Int
  PROVE  Grown(s, FlushCard(x, s, i))
<1> DEFINE hop == s.nodes[Route(s, x.entry).path[i]]
           new == Linked(x.cards[i], hop.next)
<1>1. \/ FlushCard(x, s, i) = s
      \/ FlushCard(x, s, i) = ReplaceDraftNode(s, x.entry, i, x.scope, new)
  BY DEF FlushCard
<1> HIDE DEF new
<1>2. Grown(s, ReplaceDraftNode(s, x.entry, i, x.scope, new))
  <2> DEFINE e == x.entry
             scope == x.scope
  <2> HIDE DEF e, scope
  <2>1. Grown(s, ReplaceDraftNode(s, e, i, scope, new))
    BY ReplaceGrows
  <2> QED BY <2>1 DEF e, scope
<1> QED BY <1>1, <1>2, GrownSame

FlushOf(x, k, f) ==
  f = [i \in 0..k |-> IF i = 0 THEN x.draft ELSE FlushCard(x, f[i-1], i)]

LEMMA FlushExists ==
  ASSUME NEW x, NEW N \in Nat
  PROVE  \E f : FlushOf(x, N, f)
<1> DEFINE S == {k \in Nat : \E f : FlushOf(x, k, f)}
<1>1. 0 \in S
  <2> DEFINE f == [i \in 0..0 |-> x.draft]
  <2>1. f = [i \in 0..0 |-> IF i = 0 THEN x.draft ELSE FlushCard(x, f[i-1], i)]
    OBVIOUS
  <2> HIDE DEF f
  <2>2. FlushOf(x, 0, f)
    BY <2>1 DEF FlushOf
  <2> QED BY <2>2
<1>2. ASSUME NEW k \in S PROVE k + 1 \in S
  <2>1. PICK f : f = [i \in 0..k |-> IF i = 0 THEN x.draft ELSE FlushCard(x, f[i-1], i)]
    BY <1>2 DEF FlushOf
  <2> DEFINE longer == [i \in 0..k+1 |-> IF i = k + 1 THEN FlushCard(x, f[k], k + 1) ELSE f[i]]
  <2>2. ASSUME NEW i \in 0..k+1
        PROVE  longer[i] = IF i = 0 THEN x.draft ELSE FlushCard(x, longer[i-1], i)
    <3>1. k \in Nat
      BY <1>2
    <3>2. CASE i = k + 1
      BY <3>1, <3>2
    <3>3. CASE i \in 0..k
      <4>1. longer[i] = f[i] /\ (i # 0 => longer[i-1] = f[i-1])
        BY <3>1, <3>3
      <4>2. f[i] = IF i = 0 THEN x.draft ELSE FlushCard(x, f[i-1], i)
        BY <2>1, <3>3
      <4> QED BY <4>1, <4>2
    <3> QED BY <3>1, <3>2, <3>3
  <2>3. longer = [i \in 0..k+1 |-> IF i = 0 THEN x.draft ELSE FlushCard(x, longer[i-1], i)]
    BY <2>2
  <2> HIDE DEF longer
  <2>4. FlushOf(x, k + 1, longer)
    BY <2>3 DEF FlushOf
  <2> QED BY <1>2, <2>4
<1>3. S = Nat
  <2> HIDE DEF S
  <2>1. S \in SUBSET Nat
    BY DEF S
  <2> QED BY <1>1, <1>2, <2>1, UpTo
<1> QED BY <1>3

\* A flush edits the draft, card by card, and nothing that matters here beside it.
LEMMA FlushIs ==
  ASSUME NEW x, Catalogue(x.draft), Len(x.cards) \in Nat
  PROVE  \E t : /\ Grown(x.draft, t)
                /\ Flush(x) = [x EXCEPT !.draft = t, !.told = @ \cup Noticed(x)]
<1> DEFINE n == Len(x.cards)
           F == CHOOSE f : f = [i \in 0..n |->
                  IF i = 0 THEN x.draft ELSE FlushCard(x, f[i-1], i)]
<1>1. \E f : FlushOf(x, n, f)
  <2> HIDE DEF n
  <2>1. n \in Nat
    BY DEF n
  <2> QED BY <2>1, FlushExists
<1>2. F = [i \in 0..n |-> IF i = 0 THEN x.draft ELSE FlushCard(x, F[i-1], i)]
  BY <1>1 DEF FlushOf
<1>3. Flush(x) = [x EXCEPT !.draft = F[n], !.told = @ \cup Noticed(x)]
  BY DEF Flush
<1>4. n \in Nat
  OBVIOUS
<1> HIDE DEF F, n
<1> DEFINE S == {k \in Nat : k <= n => Grown(x.draft, F[k])}
<1>5. 0 \in S
  <2>1. F[0] = x.draft
    BY <1>2, <1>4
  <2> QED BY <2>1, GrownSame
<1>6. ASSUME NEW k \in S PROVE k + 1 \in S
  <2> SUFFICES ASSUME k + 1 <= n PROVE Grown(x.draft, F[k+1])
    BY <1>6
  <2>1. /\ k \in Nat /\ k + 1 \in 0..n /\ k + 1 \in Int /\ k + 1 # 0 /\ (k + 1) - 1 = k
        /\ k <= n
    BY <1>4, <1>6
  <2>2. F[k+1] = FlushCard(x, F[k], k + 1)
    BY <1>2, <2>1
  <2>3. Grown(x.draft, F[k])
    BY <1>6, <2>1
  <2>4. Catalogue(F[k])
    BY <2>3 DEF Grown
  <2>5. Grown(F[k], FlushCard(x, F[k], k + 1))
    BY <2>1, <2>4, FlushCardGrows
  <2> QED BY <2>2, <2>3, <2>5, GrownSteps
<1>7. S = Nat
  <2> HIDE DEF S
  <2>1. S \in SUBSET Nat
    BY DEF S
  <2> QED BY <1>5, <1>6, <2>1, UpTo
<1>8. Grown(x.draft, F[n])
  <2>1. n \in S
    BY <1>4, <1>7
  <2> QED BY <1>4, <2>1
<1> QED BY <1>3, <1>8

\* Tidying up keeps what the draft started from, and every entry.
LEMMA DiscardIs ==
  ASSUME NEW s, Catalogue(s), NEW base, DOMAIN base.nodes \subseteq DOMAIN s.nodes
  PROVE  LET t == DiscardUnused(s, base)
         IN  /\ Catalogue(t) /\ t.rev = s.rev /\ t.entries = s.entries
             /\ DOMAIN base.nodes \subseteq DOMAIN t.nodes
<1> DEFINE roots == DOMAIN base.nodes \cup {s.entries[e].start : e \in DOMAIN s.entries}
           kept == UNION {Range(Walk(s.nodes, n)) : n \in roots}
           nodes == [n \in kept \cap DOMAIN s.nodes |-> s.nodes[n]]
           t == [s EXCEPT !.nodes = nodes]
<1>1. DiscardUnused(s, base) = t
  BY DEF DiscardUnused
<1>2. ASSUME NEW n \in DOMAIN base.nodes PROVE n \in DOMAIN nodes
  <2> DEFINE all == s.nodes
             at == Walk(all, n)
  <2>1. IsFiniteSet(DOMAIN all)
    BY DEF Catalogue
  <2> HIDE DEF all
  <2>2. /\ Cardinality(DOMAIN all) \in Nat
        /\ DOMAIN at = 1..Cardinality(DOMAIN all)+1 /\ at[1] = n
    BY <2>1, WalkIs
  <2>3. 1 \in DOMAIN at
    BY <2>2
  <2> HIDE DEF at
  <2>4. n \in Range(at)
    BY <2>2, <2>3 DEF Range
  <2>5. n \in kept
    BY <1>2, <2>4 DEF at, all
  <2> QED BY <1>2, <2>5
<1>3. DOMAIN nodes \subseteq DOMAIN s.nodes
  OBVIOUS
<1> HIDE DEF roots, kept, nodes
<1>4. IsFiniteSet(DOMAIN nodes)
  <2> DEFINE D == DOMAIN s.nodes
             E == DOMAIN nodes
  <2>1. IsFiniteSet(D) /\ E \in SUBSET D
    BY <1>3 DEF Catalogue
  <2> HIDE DEF D, E
  <2>2. IsFiniteSet(E)
    BY <2>1, FS_Subset
  <2> QED BY <2>2 DEF E
<1>5. DOMAIN t = DOMAIN s /\ t.nodes = nodes /\ t.rev = s.rev /\ t.entries = s.entries
  BY DEF Catalogue
<1> HIDE DEF t
<1>6. Catalogue(t)
  BY <1>4, <1>5 DEF Catalogue
<1> QED BY <1>1, <1>2, <1>5, <1>6

-----------------------------------------------------------------------------
(* Sequences of cards.                                                     *)

LEMMA MadeSeq ==
  ASSUME NEW n \in Nat, NEW c, c = [i \in 1..n |-> c[i]]
  PROVE  Len(c) \in Nat /\ \E S : c \in Seq(S)
<1> DEFINE S == {c[i] : i \in 1..n}
<1>1. c \in [1..n -> S]
  OBVIOUS
<1> HIDE DEF S
<1>2. c \in Seq(S)
  BY <1>1
<1> QED BY <1>2, LenProperties

LEMMA ChainIs ==
  ASSUME NEW s, NEW path, NEW T, path \in Seq(T)
  PROVE  Len(Chain(s, path)) \in Nat /\ \E S : Chain(s, path) \in Seq(S)
<1> DEFINE n == Len(path)
           c == Chain(s, path)
<1>1. n \in Nat /\ DOMAIN path = 1..n
  BY LenProperties
<1>2. c = [i \in 1..n |-> FieldsOf(s.nodes[path[i]])]
  BY <1>1 DEF Chain
<1> HIDE DEF n, c
<1>3. c = [i \in 1..n |-> c[i]]
  BY <1>2
<1>4. Len(c) \in Nat /\ \E S : c \in Seq(S)
  BY <1>1, <1>3, MadeSeq
<1> QED BY <1>4 DEF c

LEMMA ChainOfIs ==
  ASSUME NEW s, Catalogue(s), NEW e
  PROVE  Len(ChainOf(s, e)) \in Nat /\ \E S : ChainOf(s, e) \in Seq(S)
<1>1. Route(s, e).path \in Seq(DOMAIN s.nodes)
  BY RouteIs DEF Catalogue
<1> QED BY <1>1, ChainIs DEF ChainOf

LEMMA CutSeq ==
  ASSUME NEW c, Len(c) \in Nat, NEW i \in Int
  PROVE  /\ \E S : SubSeq(c, 1, i-1) \in Seq(S)
         /\ \E S : SubSeq(c, i, Len(c)) \in Seq(S)
         /\ \E S : SubSeq(c, i+1, Len(c)) \in Seq(S)
<1> DEFINE n == Len(c)
           before == i - 1
           behind == i + 1
<1>1. n \in Int /\ before \in Int /\ behind \in Int /\ 1 \in Int
  OBVIOUS
<1> HIDE DEF n, before, behind
<1>2. /\ \E S : SubSeq(c, 1, before) \in Seq(S)
      /\ \E S : SubSeq(c, i, n) \in Seq(S)
      /\ \E S : SubSeq(c, behind, n) \in Seq(S)
  BY <1>1, SubSeqLen
<1> QED BY <1>2 DEF n, before, behind

LEMMA InsertLen ==
  ASSUME NEW c, Len(c) \in Nat, NEW i \in Int, NEW x
  PROVE  Len(InsertAt(c, i, x)) \in Nat
<1> DEFINE u == SubSeq(c, 1, i-1)
           v == SubSeq(c, i, Len(c))
<1>1. PICK S : u \in Seq(S)
  BY CutSeq
<1>2. PICK T : v \in Seq(T)
  BY CutSeq
<1> DEFINE A == S \cup T \cup {x}
<1> HIDE DEF u, v
<1>3. u \in Seq(A) /\ v \in Seq(A)
  BY <1>1, <1>2
<1>4. <<x>> \in Seq(A)
  OBVIOUS
<1> HIDE DEF A
<1>5. u \o <<x>> \in Seq(A)
  BY <1>3, <1>4, ConcatProperties
<1>6. (u \o <<x>>) \o v \in Seq(A)
  BY <1>3, <1>5, ConcatProperties
<1>7. Len((u \o <<x>>) \o v) \in Nat
  BY <1>6, LenProperties
<1> QED BY <1>7 DEF InsertAt, u, v

LEMMA RemoveLen ==
  ASSUME NEW c, Len(c) \in Nat, NEW i \in Int
  PROVE  Len(RemoveAt(c, i)) \in Nat
<1> DEFINE u == SubSeq(c, 1, i-1)
           v == SubSeq(c, i+1, Len(c))
<1>1. PICK S : u \in Seq(S)
  BY CutSeq
<1>2. PICK T : v \in Seq(T)
  BY CutSeq
<1> DEFINE A == S \cup T
<1> HIDE DEF u, v
<1>3. u \in Seq(A) /\ v \in Seq(A)
  BY <1>1, <1>2
<1> HIDE DEF A
<1>4. u \o v \in Seq(A)
  BY <1>3, ConcatProperties
<1>5. Len(u \o v) \in Nat
  BY <1>4, LenProperties
<1> QED BY <1>5 DEF RemoveAt, u, v

LEMMA CardChanged ==
  ASSUME NEW S, NEW c \in Seq(S), NEW i, NEW x
  PROVE  [c EXCEPT ![i] = x] \in Seq(S \cup {x})
<1> DEFINE n == Len(c)
           d == [c EXCEPT ![i] = x]
<1>1. n \in Nat /\ c \in [1..n -> S]
  BY LenProperties
<1> HIDE DEF n
<1>2. d \in [1..n -> S \cup {x}]
  BY <1>1
<1> QED BY <1>1, <1>2

-----------------------------------------------------------------------------
(* What an action does to an editor.                                       *)

\* An editor that went on from x to y.
Onward(x, y) ==
  /\ DOMAIN y = EditorFields /\ y.mode = "open"
  /\ y.entry = x.entry /\ y.base = x.base
  /\ Grown(x.draft, y.draft)

Cards(y) == \E S : y.cards \in Seq(S)

LEMMA EditorStep ==
  ASSUME NEW x, NEW s, EditorInv(x, s), x.mode # "closed",
         NEW y, Onward(x, y), Cards(y)
  PROVE  EditorInv(y, s)
<1>1. Draft(y.draft, x.base, x.entry)
  BY DraftGrows DEF EditorInv, Onward
<1> QED BY <1>1 DEF EditorInv, Onward, Cards

\* Nothing of what the invariant speaks of changes, or a save is given up.
LEMMA EditorSame ==
  ASSUME NEW x, NEW s, EditorInv(x, s), x.mode # "closed",
         NEW y, DOMAIN y = EditorFields, y.mode \in {"open", x.mode},
         y.entry = x.entry, y.base = x.base, y.draft = x.draft, Cards(y)
  PROVE  EditorInv(y, s)
BY DEF EditorInv, Cards

LEMMA OnwardSteps ==
  ASSUME NEW x, NEW y, NEW z, Onward(x, y), Onward(y, z)
  PROVE  Onward(x, z)
BY GrownSteps DEF Onward

LEMMA FlushOnward ==
  ASSUME NEW x, NEW s, EditorInv(x, s), x.mode = "open"
  PROVE  Onward(x, Flush(x)) /\ Flush(x).cards = x.cards /\ Catalogue(Flush(x).draft)
<1>1. DOMAIN x = EditorFields /\ Catalogue(x.draft) /\ \E S : x.cards \in Seq(S)
  BY DEF EditorInv, Draft
<1>2. Len(x.cards) \in Nat
  <2> DEFINE c == x.cards
  <2>1. PICK S : c \in Seq(S)
    BY <1>1
  <2> HIDE DEF c
  <2>2. Len(c) \in Nat
    BY <2>1, LenProperties
  <2> QED BY <2>2 DEF c
<1>3. PICK t : /\ Grown(x.draft, t)
               /\ Flush(x) = [x EXCEPT !.draft = t, !.told = @ \cup Noticed(x)]
  BY <1>1, <1>2, FlushIs
<1>4. /\ DOMAIN Flush(x) = EditorFields /\ Flush(x).mode = "open"
      /\ Flush(x).entry = x.entry /\ Flush(x).base = x.base
      /\ Flush(x).draft = t /\ Flush(x).cards = x.cards
  BY <1>1, <1>3 DEF EditorFields
<1>5. Catalogue(t)
  BY <1>3 DEF Grown
<1> QED BY <1>3, <1>4, <1>5 DEF Onward

LEMMA RenderOnward ==
  ASSUME NEW x, DOMAIN x = EditorFields, x.mode = "open", Catalogue(x.draft)
  PROVE  Onward(x, Render(x)) /\ Cards(Render(x))
<1> DEFINE chain == ChainOf(x.draft, x.entry)
           c == [i \in DOMAIN chain |-> Chosen(x, chain[i])]
           y == Render(x)
<1>1. \E S : c \in Seq(S)
  <2> DEFINE s == x.draft
             e == x.entry
  <2> HIDE DEF s, e
  <2>1. PICK S : ChainOf(s, e) \in Seq(S)
    BY ChainOfIs DEF s
  <2>2. chain \in Seq(S)
    BY <2>1 DEF s, e
  <2> HIDE DEF chain
  <2>3. DOMAIN chain = 1..Len(chain) /\ Len(chain) \in Nat
    BY <2>2, LenProperties
  <2>4. c = [i \in 1..Len(chain) |-> c[i]]
    BY <2>3
  <2> HIDE DEF c
  <2> QED BY <2>3, <2>4, MadeSeq
<1> HIDE DEF c
<1>2. /\ DOMAIN y = EditorFields /\ y.mode = "open" /\ y.entry = x.entry
      /\ y.base = x.base /\ y.draft = x.draft /\ y.cards = c
  BY DEF Render, EditorFields, c
<1> HIDE DEF y
<1>3. Onward(x, y) /\ Cards(y)
  BY <1>1, <1>2, GrownSame DEF Onward, Cards
<1> QED BY <1>3 DEF y

\* The route of an entry becomes a copy of a chain.
LEMMA PathOnward ==
  ASSUME NEW x, DOMAIN x = EditorFields, x.mode = "open", Catalogue(x.draft),
         NEW chain, Len(chain) \in Nat
  PROVE  LET y == Render([x EXCEPT !.draft = CopyPath(@, x.entry, chain),
                                   !.kind = IF @ = "inline" THEN "manage" ELSE @])
         IN  Onward(x, y) /\ Cards(y)
<1> DEFINE t == CopyPath(x.draft, x.entry, chain)
           y == [x EXCEPT !.draft = CopyPath(@, x.entry, chain),
                          !.kind = IF @ = "inline" THEN "manage" ELSE @]
<1>1. Grown(x.draft, t)
  <2> DEFINE s == x.draft
             e == x.entry
  <2> HIDE DEF s, e
  <2>1. Grown(s, CopyPath(s, e, chain))
    BY CopyPathGrows DEF s
  <2> QED BY <2>1 DEF s, e
<1>2. /\ DOMAIN y = EditorFields /\ y.mode = "open" /\ y.entry = x.entry
      /\ y.base = x.base /\ y.draft = t
  <2> HIDE DEF t
  <2> QED BY DEF EditorFields, t
<1> HIDE DEF t, y
<1>3. Onward(x, y) /\ Catalogue(y.draft)
  BY <1>1, <1>2 DEF Onward, Grown
<1>4. Onward(y, Render(y)) /\ Cards(Render(y))
  BY <1>2, <1>3, RenderOnward
<1> QED BY <1>3, <1>4, OnwardSteps DEF y

LEMMA LinkOnward ==
  ASSUME NEW x, DOMAIN x = EditorFields, x.mode = "open",
         NEW s, Grown(x.draft, s), NEW i \in Int, NEW next
  PROVE  Onward(x, Link(x, s, i, next))
<1> DEFINE hop == [s.nodes[Route(s, x.entry).path[i]] EXCEPT !.next = next]
           t == ReplaceDraftNode(s, x.entry, i, x.scope, hop)
           y == [x EXCEPT !.draft = t]
<1>1. Link(x, s, i, next) = y
  BY DEF Link
<1> HIDE DEF hop
<1>2. Grown(s, t)
  <2> DEFINE e == x.entry
             scope == x.scope
  <2> HIDE DEF e, scope
  <2>1. Catalogue(s)
    BY DEF Grown
  <2>2. Grown(s, ReplaceDraftNode(s, e, i, scope, hop))
    BY <2>1, ReplaceGrows
  <2> QED BY <2>2 DEF e, scope
<1> HIDE DEF t
<1>3. /\ DOMAIN y = EditorFields /\ y.mode = "open" /\ y.entry = x.entry
      /\ y.base = x.base /\ y.draft = t
  BY DEF EditorFields
<1>4. Grown(x.draft, t)
  BY <1>2, GrownSteps
<1> HIDE DEF y
<1> QED BY <1>1, <1>3, <1>4 DEF Onward

LEMMA AppendedOnward ==
  ASSUME NEW x, DOMAIN x = EditorFields, x.mode = "open", Catalogue(x.draft),
         NEW i \in Int, NEW other, NEW copy
  PROVE  Onward(x, Appended(x, i, other, copy))
<1> DEFINE next == x.draft.entries[other].start
           chain == ChainOf(x.draft, other)
           ids == Fresh(x.draft.nodes, Len(Route(x.draft, other).path))
           s == [x.draft EXCEPT !.nodes = CopyNodes(@, chain, ids)]
<1>1. Grown(x.draft, x.draft)
  BY GrownSame
<1>2. Onward(x, Link(x, x.draft, i, next))
  <2> DEFINE t == x.draft
  <2>1. Grown(x.draft, t)
    BY <1>1
  <2> HIDE DEF t, next
  <2>2. Onward(x, Link(x, t, i, next))
    BY <2>1, LinkOnward
  <2> QED BY <2>2 DEF t
<1>3. Onward(x, x)
  BY <1>1 DEF Onward
<1>4. Grown(x.draft, s)
  <2> DEFINE t == x.draft
             nodes == t.nodes
             n == Len(Route(t, other).path)
             all == CopyNodes(nodes, chain, ids)
  <2>1. Catalogue(t) /\ IsFiniteSet(DOMAIN nodes)
    BY DEF Catalogue
  <2> HIDE DEF t
  <2>2. n \in Nat
    BY <2>1, RouteIs
  <2> HIDE DEF n, nodes
  <2>3. ids = Fresh(nodes, n)
    BY DEF n, nodes, t
  <2> HIDE DEF ids, chain
  <2>4. IsFiniteSet(Range(ids))
    BY <2>2, <2>3, FreshIs
  <2>5. DOMAIN nodes \subseteq DOMAIN all /\ IsFiniteSet(DOMAIN all)
    BY <2>1, <2>4, CopyNodesIs
  <2>6. s = [t EXCEPT !.nodes = all]
    BY DEF t, nodes
  <2> HIDE DEF all, s
  <2>7. Grown(t, [t EXCEPT !.nodes = all])
    BY <2>1, <2>5, NodesGrow DEF nodes
  <2> QED BY <2>6, <2>7 DEF t
<1>5. Onward(x, LinkCopy(x, i, chain, ids))
  <2> DEFINE next1 == ids[1]
  <2>1. LinkCopy(x, i, chain, ids) = Link(x, s, i, next1)
    BY DEF LinkCopy
  <2> HIDE DEF s, next1, ids, chain
  <2>2. Onward(x, Link(x, s, i, next1))
    BY <1>4, LinkOnward
  <2> QED BY <2>1, <2>2
<1>6. \/ Appended(x, i, other, copy) = Link(x, x.draft, i, next)
      \/ Appended(x, i, other, copy) = x
      \/ Appended(x, i, other, copy) = LinkCopy(x, i, chain, ids)
  BY DEF Appended
<1> HIDE DEF next, chain, ids, s
<1> QED BY <1>2, <1>3, <1>5, <1>6

-----------------------------------------------------------------------------
(* The invariant is kept.                                                  *)

LEMMA Drawn ==
  ASSUME StoreInv, NEW w \in Window, NEW y, EditorInv(y, stored),
         UNCHANGED <<stored, keys>>, ed' = [ed EXCEPT ![w] = y]
  PROVE  StoreInv'
<1>1. DOMAIN ed' = Window /\ \A v \in Window : EditorInv(ed'[v], stored')
  BY DEF StoreInv
<1>2. Catalogue(stored') /\ Valid(stored')
  BY DEF StoreInv
<1>3. KeysStored'
  BY DEF StoreInv, KeysStored
<1> QED BY <1>1, <1>2, <1>3 DEF StoreInv

LEMMA ClosedInv ==
  ASSUME NEW s
  PROVE  EditorInv(Closed, s)
BY DEF Closed, EditorInv

LEMMA Published ==
  ASSUME StoreInv, Catalogue(stored'), Valid(stored'), KeysStored',
         stored'.rev = stored.rev + 1, DOMAIN ed' = Window,
         \A v \in Window : ed'[v] \in {ed[v], Closed} \/ EditorInv(ed'[v], stored')
  PROVE  StoreInv'
<1>1. ASSUME NEW v \in Window PROVE EditorInv(ed'[v], stored')
  <2>1. CASE ed'[v] = Closed
    BY <2>1, ClosedInv
  <2>2. CASE ed'[v] = ed[v]
    <3> DEFINE x == ed[v]
    <3>1. EditorInv(x, stored) /\ stored.rev \in Nat
      BY DEF StoreInv, Catalogue
    <3> HIDE DEF x
    <3>2. EditorInv(x, stored')
      BY <3>1 DEF EditorInv, Catalogue
    <3> QED BY <2>2, <3>2 DEF x
  <2>3. CASE EditorInv(ed'[v], stored')
    BY <2>3
  <2> QED BY <2>1, <2>2, <2>3
<1> QED BY <1>1 DEF StoreInv

LEMMA ValidSame ==
  ASSUME NEW s, NEW t, t.nodes = s.nodes, t.entries = s.entries, Valid(s)
  PROVE  Valid(t)
BY DEF Valid, Route, OwnerHasKey

LEMMA OpenInv ==
  ASSUME StoreInv, NEW w \in Window, NEW e, NEW form, OpenEditor(w, e, form)
  PROVE  StoreInv'
<1> DEFINE node == Fresh(stored.nodes, 1)[1]
           card == [n \in {node} |-> [next |-> None, host |-> Blank, key |-> None]]
           entry == [o \in {e} |-> [start |-> node, key |-> None]]
           nodes == Added(stored.nodes, card)
           entries == Added(stored.entries, entry)
           new == [stored EXCEPT !.nodes = nodes, !.entries = entries]
           draft == IF e \in DOMAIN stored.entries THEN stored ELSE new
           kind == IF form THEN "prepare" ELSE IF Len(ChainOf(draft, e)) = 1 THEN "inline" ELSE "manage"
           x == [mode |-> "open", kind |-> kind, entry |-> e, draft |-> draft, base |-> stored,
                 cards |-> <<>>, scope |-> "entry", made |-> {},
                 making |-> [card |-> 0, host |-> None], offered |-> FALSE,
                 told |-> {e}, named |-> {e}]
           y == Render(x)
<1>1. ed' = [ed EXCEPT ![w] = y] /\ UNCHANGED <<stored, keys>>
  BY DEF OpenEditor
<1>2. Catalogue(stored)
  BY DEF StoreInv
<1>3. Draft(stored, stored, e) \/ e \notin DOMAIN stored.entries
  BY <1>2 DEF Draft
<1>4. e \notin DOMAIN stored.entries => Draft(new, stored, e)
  <2> SUFFICES ASSUME e \notin DOMAIN stored.entries PROVE Draft(new, stored, e)
    OBVIOUS
  <2>1. /\ DOMAIN entry = {e} /\ entry[e].key = None
        /\ DOMAIN entry[e] = {"start", "key"} /\ DOMAIN card = {node}
    OBVIOUS
  <2> HIDE DEF entry, card, node
  <2>2. DOMAIN nodes = DOMAIN stored.nodes \cup {node}
    BY <2>1 DEF Added
  <2>3. IsFiniteSet(DOMAIN nodes)
    <3> DEFINE D == DOMAIN stored.nodes
    <3>1. IsFiniteSet(D)
      BY <1>2 DEF Catalogue
    <3> HIDE DEF D
    <3>2. IsFiniteSet({node})
      BY FS_Singleton
    <3>3. IsFiniteSet(D \cup {node})
      BY <3>1, <3>2, FS_Union
    <3> QED BY <2>2, <3>3 DEF D
  <2>4. /\ DOMAIN entries = DOMAIN stored.entries \cup {e}
        /\ \A o \in DOMAIN stored.entries : entries[o] = stored.entries[o]
        /\ entries[e] = entry[e]
    BY <2>1 DEF Added
  <2> HIDE DEF nodes, entries
  <2>5. /\ DOMAIN new = {"rev", "nodes", "entries"} /\ new.rev = stored.rev
        /\ new.nodes = nodes /\ new.entries = entries
    BY <1>2 DEF Catalogue
  <2> HIDE DEF new
  <2> QED BY <1>2, <2>1, <2>2, <2>3, <2>4, <2>5 DEF Draft, Catalogue
<1> HIDE DEF new
<1>5. Draft(draft, stored, e)
  BY <1>3, <1>4
<1> HIDE DEF draft, kind
<1>6. /\ DOMAIN x = EditorFields /\ x.mode = "open" /\ x.entry = e /\ x.base = stored
      /\ x.draft = draft /\ x.cards = <<>>
  BY DEF EditorFields
<1> HIDE DEF x
<1>7. stored.rev <= stored.rev /\ Covers(stored, stored) /\ <<>> \in Seq({})
  BY <1>2 DEF Catalogue, Covers
<1>8. EditorInv(x, stored)
  BY <1>2, <1>5, <1>6, <1>7 DEF EditorInv
<1>9. Catalogue(x.draft)
  BY <1>5, <1>6 DEF Draft
<1>10. Onward(x, y) /\ Cards(y)
  BY <1>6, <1>9, RenderOnward
<1> HIDE DEF y
<1>11. EditorInv(y, stored)
  BY <1>6, <1>8, <1>10, EditorStep
<1> QED BY <1>1, <1>11, Drawn

\* A draft that waits becomes what its editor starts from.
LEMMA ReopenInv ==
  ASSUME StoreInv, NEW w \in Window, Reopen(w)
  PROVE  StoreInv'
<1> DEFINE v == ed[w]
           x == [v EXCEPT !.mode = "open", !.base = v.draft, !.scope = "entry", !.named = v.told]
           y == Render(x)
<1>1. /\ ed' = [ed EXCEPT ![w] = y] /\ UNCHANGED <<stored, keys>> /\ v.mode = "saving"
  BY DEF Reopen, Draw, Waiting
<1>2. EditorInv(v, stored) /\ DOMAIN v = EditorFields
  BY <1>1 DEF StoreInv, EditorInv
<1> HIDE DEF v
<1>3. /\ DOMAIN x = EditorFields /\ x.mode = "open" /\ x.entry = v.entry /\ x.base = v.draft
      /\ x.draft = v.draft /\ x.cards = v.cards
  BY <1>2 DEF EditorFields
<1> HIDE DEF x
<1>4. Draft(v.draft, v.base, v.entry) /\ Catalogue(v.base) /\ v.base.rev <= stored.rev
  BY <1>1, <1>2 DEF EditorInv
<1> DEFINE s == v.draft
           b == v.base
<1>5. Draft(s, s, v.entry) /\ Catalogue(s) /\ s.rev = b.rev
  <2>1. Draft(s, b, v.entry)
    BY <1>4
  <2> HIDE DEF s, b
  <2> QED BY <2>1 DEF Draft
<1>6. s.rev = stored.rev => Covers(s, stored)
  <2> SUFFICES ASSUME s.rev = stored.rev PROVE Covers(s, stored)
    OBVIOUS
  <2>1. Draft(s, b, v.entry) /\ Covers(b, stored)
    BY <1>1, <1>2, <1>4, <1>5 DEF EditorInv
  <2> HIDE DEF s, b
  <2> QED BY <2>1 DEF Draft, Covers
<1>7. EditorInv(x, stored)
  <2>1. x.base = s /\ x.draft = s /\ b.rev <= stored.rev /\ \E S : v.cards \in Seq(S)
    BY <1>1, <1>2, <1>3, <1>4 DEF EditorInv
  <2> HIDE DEF s, b
  <2> QED BY <1>3, <1>5, <1>6, <2>1 DEF EditorInv
<1>8. Onward(x, y) /\ Cards(y)
  <2>1. Catalogue(x.draft)
    BY <1>3, <1>5
  <2> QED BY <1>3, <2>1, RenderOnward
<1> HIDE DEF y
<1>9. EditorInv(y, stored)
  BY <1>3, <1>7, <1>8, EditorStep
<1> QED BY <1>1, <1>9, Drawn

\* The actions of an open editor that leave its draft alone.
LEMMA CardInv ==
  ASSUME StoreInv, NEW w \in Window, Open(w), NEW x, ed' = [ed EXCEPT ![w] = x],
         UNCHANGED <<stored, keys>>,
         DOMAIN x = EditorFields, x.mode = "open", x.entry = ed[w].entry,
         x.base = ed[w].base, x.draft = ed[w].draft, Cards(x)
  PROVE  StoreInv'
<1> DEFINE y == ed[w]
<1>1. EditorInv(y, stored) /\ y.mode = "open"
  BY DEF StoreInv, Open
<1>2. EditorInv(x, stored)
  <2>1. x.entry = y.entry /\ x.base = y.base /\ x.draft = y.draft
    OBVIOUS
  <2> HIDE DEF y
  <2> QED BY <1>1, <2>1, EditorSame
<1> QED BY <1>2, Drawn

LEMMA EditorIs ==
  ASSUME StoreInv, NEW w \in Window, ed[w].mode # "closed"
  PROVE  /\ DOMAIN ed = Window /\ DOMAIN ed[w] = EditorFields
         /\ Catalogue(ed[w].draft) /\ Cards(ed[w])
BY DEF StoreInv, EditorInv, Draft, Cards

LEMMA TypingInv ==
  ASSUME StoreInv, NEW w \in Window, Open(w),
         \/ \E i \in DOMAIN ed[w].cards :
              KeyOn(w, i) \/ KeyOff(w, i) \/ \E h \in Typed : TypeHost(w, i, h)
         \/ \E scope \in {"entry", "all"} : SetScope(w, scope)
  PROVE  StoreInv'
<1> DEFINE x == ed[w]
<1>1. DOMAIN x = EditorFields /\ x.mode = "open" /\ Cards(x)
  BY EditorIs DEF Open
<1>2. ASSUME NEW scope, SetScope(w, scope) PROVE StoreInv'
  <2> DEFINE y == [x EXCEPT !.scope = scope]
  <2>1. ed' = [ed EXCEPT ![w] = y] /\ UNCHANGED <<stored, keys>>
    BY <1>2 DEF SetScope, Draw
  <2>2. /\ DOMAIN y = EditorFields /\ y.mode = "open" /\ y.entry = x.entry
        /\ y.base = x.base /\ y.draft = x.draft /\ y.cards = x.cards
    BY <1>1 DEF EditorFields
  <2>3. Cards(y)
    BY <1>1, <2>2 DEF Cards
  <2> HIDE DEF y
  <2> QED BY <2>1, <2>2, <2>3, CardInv
<1>3. ASSUME NEW i, NEW y, NEW c, Edited(w, y), DOMAIN y = EditorFields, y.mode = "open",
             y.entry = x.entry, y.base = x.base, y.draft = x.draft,
             y.cards = [x.cards EXCEPT ![i] = c]
      PROVE  StoreInv'
  <2>1. PICK S : x.cards \in Seq(S)
    BY <1>1 DEF Cards
  <2>2. y.cards \in Seq(S \cup {c})
    <3> DEFINE d == x.cards
    <3>1. d \in Seq(S)
      BY <2>1
    <3> HIDE DEF d
    <3>2. [d EXCEPT ![i] = c] \in Seq(S \cup {c})
      BY <3>1, CardChanged
    <3> QED BY <1>3, <3>2 DEF d
  <2>3. Cards(y)
    BY <2>2 DEF Cards
  <2> QED BY <1>3, <2>3, CardInv DEF Edited, Draw
<1>4. ASSUME NEW i, NEW h, TypeHost(w, i, h) PROVE StoreInv'
  <2> DEFINE c == Chosen(x, [x.cards[i] EXCEPT !.host = h])
             y == [x EXCEPT !.cards[i] = Chosen(x, [@ EXCEPT !.host = h]), !.offered = FALSE]
  <2>1. Edited(w, y)
    BY <1>4 DEF TypeHost
  <2>2. /\ DOMAIN y = EditorFields /\ y.mode = "open" /\ y.entry = x.entry
        /\ y.base = x.base /\ y.draft = x.draft /\ y.cards = [x.cards EXCEPT ![i] = c]
    BY <1>1 DEF EditorFields
  <2> HIDE DEF y, c
  <2> QED BY <1>3, <2>1, <2>2
<1>5. ASSUME NEW i, KeyOff(w, i) PROVE StoreInv'
  <2> DEFINE c == [x.cards[i] EXCEPT !.key = None]
             y == [x EXCEPT !.cards[i].key = None, !.offered = FALSE]
  <2>1. Edited(w, y)
    BY <1>5 DEF KeyOff
  <2>2. /\ DOMAIN y = EditorFields /\ y.mode = "open" /\ y.entry = x.entry
        /\ y.base = x.base /\ y.draft = x.draft /\ y.cards = [x.cards EXCEPT ![i] = c]
    BY <1>1 DEF EditorFields
  <2> HIDE DEF y, c
  <2> QED BY <1>3, <2>1, <2>2
<1>6. ASSUME NEW i, KeyOn(w, i) PROVE StoreInv'
  <2>1. ASSUME NEW k, Edited(w, [x EXCEPT !.cards[i].key = k, !.offered = FALSE])
        PROVE  StoreInv'
    <3> DEFINE c == [x.cards[i] EXCEPT !.key = k]
               y == [x EXCEPT !.cards[i].key = k, !.offered = FALSE]
    <3>1. /\ DOMAIN y = EditorFields /\ y.mode = "open" /\ y.entry = x.entry
          /\ y.base = x.base /\ y.draft = x.draft /\ y.cards = [x.cards EXCEPT ![i] = c]
      BY <1>1 DEF EditorFields
    <3>2. Edited(w, y)
      BY <2>1
    <3> HIDE DEF y, c
    <3> QED BY <1>3, <3>1, <3>2
  <2> DEFINE m == [card |-> i, host |-> x.cards[i].host]
             z == [x EXCEPT !.cards[i].key = Unset, !.offered = FALSE, !.making = m]
  <2>2. ASSUME Edited(w, z) PROVE StoreInv'
    <3> DEFINE c == [x.cards[i] EXCEPT !.key = Unset]
    <3>1. /\ DOMAIN z = EditorFields /\ z.mode = "open" /\ z.entry = x.entry
          /\ z.base = x.base /\ z.draft = x.draft /\ z.cards = [x.cards EXCEPT ![i] = c]
      <4> HIDE DEF m
      <4> QED BY <1>1 DEF EditorFields
    <3> HIDE DEF z, c
    <3> QED BY <1>3, <2>2, <3>1
  <2>3. \/ \E k : Edited(w, [x EXCEPT !.cards[i].key = k, !.offered = FALSE])
        \/ Edited(w, z)
    BY <1>6 DEF KeyOn
  <2> QED BY <2>1, <2>2, <2>3
<1> QED BY <1>2, <1>4, <1>5, <1>6

LEMMA MakingInv ==
  ASSUME StoreInv, NEW w \in Window, KeyMade(w) \/ KeyFails(w)
  PROVE  StoreInv'
<1> DEFINE x == ed[w]
           idle == [card |-> 0, host |-> None]
<1>1. x.mode # "closed"
  BY DEF KeyMade, KeyFails
<1>2. DOMAIN ed = Window /\ DOMAIN x = EditorFields /\ Cards(x) /\ EditorInv(x, stored)
  BY <1>1, EditorIs DEF StoreInv
<1>3. ASSUME NEW y, ed' = [ed EXCEPT ![w] = y], UNCHANGED <<stored, keys>>,
             DOMAIN y = EditorFields, y.mode = x.mode, y.entry = x.entry,
             y.base = x.base, y.draft = x.draft, Cards(y)
      PROVE  StoreInv'
  <2>1. EditorInv(y, stored)
    <3> HIDE DEF x
    <3> QED BY <1>1, <1>2, <1>3, EditorSame
  <2> QED BY <1>3, <2>1, Drawn
<1>4. CASE KeyFails(w)
  <2> DEFINE y == [x EXCEPT !.making = idle]
  <2>1. ed' = [ed EXCEPT ![w] = y] /\ UNCHANGED <<stored, keys>>
    BY <1>4 DEF KeyFails
  <2>2. /\ DOMAIN y = EditorFields /\ y.mode = x.mode /\ y.entry = x.entry
        /\ y.base = x.base /\ y.draft = x.draft /\ y.cards = x.cards
    BY <1>2 DEF EditorFields
  <2>3. Cards(y)
    BY <1>2, <2>2 DEF Cards
  <2> HIDE DEF y
  <2> QED BY <1>3, <2>1, <2>2, <2>3
<1>5. CASE KeyMade(w)
  <2> DEFINE key == [owner |-> None, host |-> x.making.host]
             i == x.making.card
             c == [x.cards[i] EXCEPT !.key = key]
             y == [x EXCEPT !.made = @ \cup {key}, !.making = idle]
             z == [y EXCEPT !.cards[i].key = key]
  <2>1. /\ ed' = [ed EXCEPT ![w] = y] \/ ed' = [ed EXCEPT ![w] = z]
        /\ UNCHANGED <<stored, keys>>
    BY <1>5 DEF KeyMade
  <2> HIDE DEF key, i, idle
  <2>2. /\ DOMAIN y = EditorFields /\ y.mode = x.mode /\ y.entry = x.entry
        /\ y.base = x.base /\ y.draft = x.draft /\ y.cards = x.cards
    BY <1>2 DEF EditorFields
  <2>3. Cards(y)
    BY <1>2, <2>2 DEF Cards
  <2> HIDE DEF y
  <2>4. /\ DOMAIN z = EditorFields /\ z.mode = x.mode /\ z.entry = x.entry
        /\ z.base = x.base /\ z.draft = x.draft /\ z.cards = [x.cards EXCEPT ![i] = c]
    BY <2>2 DEF EditorFields
  <2>5. Cards(z)
    <3> DEFINE d == x.cards
    <3>1. PICK S : d \in Seq(S)
      BY <1>2 DEF Cards
    <3> HIDE DEF d, c
    <3>2. [d EXCEPT ![i] = c] \in Seq(S \cup {c})
      BY <3>1, CardChanged
    <3> QED BY <2>4, <3>2 DEF Cards, d
  <2> HIDE DEF z
  <2> QED BY <1>3, <2>1, <2>2, <2>3, <2>4, <2>5
<1> QED BY <1>4, <1>5

\* An edit of an open editor.
LEMMA EditInv ==
  ASSUME StoreInv, NEW w \in Window, Open(w), NEW y, ed' = [ed EXCEPT ![w] = y],
         UNCHANGED <<stored, keys>>, Onward(ed[w], y), Cards(y)
  PROVE  StoreInv'
<1> DEFINE x == ed[w]
<1>1. EditorInv(x, stored) /\ x.mode # "closed"
  BY DEF StoreInv, Open
<1>2. EditorInv(y, stored)
  <2>1. Onward(x, y)
    OBVIOUS
  <2> HIDE DEF x
  <2> QED BY <1>1, <2>1, EditorStep
<1> QED BY <1>2, Drawn

LEMMA Flushed ==
  ASSUME StoreInv, NEW w \in Window, Open(w)
  PROVE  LET x == Flush(ed[w])
         IN  /\ Onward(ed[w], x) /\ DOMAIN x = EditorFields /\ x.mode = "open"
             /\ Catalogue(x.draft) /\ Cards(x) /\ Len(CardChain(w)) \in Nat
<1> DEFINE x == ed[w]
           y == Flush(x)
<1>1. EditorInv(x, stored) /\ x.mode = "open" /\ Cards(x)
  BY EditorIs DEF StoreInv, Open
<1> HIDE DEF x
<1>2. Onward(x, y) /\ y.cards = x.cards /\ Catalogue(y.draft)
  BY <1>1, FlushOnward
<1>3. Len(ChainOf(y.draft, y.entry)) \in Nat
  <2> DEFINE s == y.draft
             e == y.entry
  <2> HIDE DEF s, e
  <2>1. Len(ChainOf(s, e)) \in Nat
    BY <1>2, ChainOfIs DEF s
  <2> QED BY <2>1 DEF s, e
<1>4. CardChain(w) = ChainOf(y.draft, y.entry)
  BY DEF CardChain, x
<1> QED BY <1>1, <1>2, <1>3, <1>4 DEF Onward, Cards, x

LEMMA PathInv ==
  ASSUME StoreInv, NEW w \in Window, NEW chain, Len(chain) \in Nat, ReplacePath(w, chain)
  PROVE  StoreInv'
<1> DEFINE x == Flush(ed[w])
           y == Render([x EXCEPT !.draft = CopyPath(@, x.entry, chain),
                                 !.kind = IF @ = "inline" THEN "manage" ELSE @])
<1>1. Open(w) /\ ed' = [ed EXCEPT ![w] = y] /\ UNCHANGED <<stored, keys>>
  BY DEF ReplacePath, Edited, Draw
<1>2. Onward(ed[w], x) /\ DOMAIN x = EditorFields /\ x.mode = "open" /\ Catalogue(x.draft)
  BY <1>1, Flushed
<1> HIDE DEF x
<1>3. Onward(x, y) /\ Cards(y)
  BY <1>2, PathOnward
<1> HIDE DEF y
<1>4. Onward(ed[w], y)
  <2> DEFINE z == ed[w]
  <2>1. Onward(z, x)
    BY <1>2
  <2> HIDE DEF z
  <2>2. Onward(z, y)
    BY <1>3, <2>1, OnwardSteps
  <2> QED BY <2>2 DEF z
<1> QED BY <1>1, <1>3, <1>4, EditInv

LEMMA OrderInv ==
  ASSUME StoreInv, NEW w \in Window, Open(w),
         \/ AddJump(w)
         \/ \E i \in DOMAIN ed[w].cards : RemoveCard(w, i)
         \/ \E i, j \in DOMAIN ed[w].cards : MoveCard(w, i, j)
  PROVE  StoreInv'
<1> DEFINE c == CardChain(w)
<1>1. Len(c) \in Nat /\ Len(c) \in Int
  BY Flushed
<1>2. DOMAIN ed[w].cards \subseteq Int
  <2> DEFINE d == ed[w].cards
  <2>1. PICK S : d \in Seq(S)
    BY EditorIs DEF Cards, Open
  <2> HIDE DEF d
  <2>2. DOMAIN d = 1..Len(d) /\ Len(d) \in Nat
    BY <2>1, LenProperties
  <2>3. DOMAIN d \subseteq Int
    BY <2>2
  <2> QED BY <2>3 DEF d
<1>3. CASE AddJump(w)
  <2> DEFINE new == [host |-> Blank, key |-> None]
             chain == InsertAt(c, Len(c), new)
  <2>1. ReplacePath(w, chain)
    BY <1>3 DEF AddJump
  <2> DEFINE n == Len(c)
  <2>2. Len(chain) \in Nat
    <3> HIDE DEF c, new
    <3>1. n \in Int
      BY <1>1
    <3> HIDE DEF n
    <3>2. Len(InsertAt(c, n, new)) \in Nat
      BY <1>1, <3>1, InsertLen
    <3> QED BY <3>2 DEF n
  <2> HIDE DEF chain
  <2> QED BY <2>1, <2>2, PathInv
<1>4. ASSUME NEW i \in DOMAIN ed[w].cards, RemoveCard(w, i) PROVE StoreInv'
  <2> DEFINE chain == RemoveAt(c, i)
  <2>1. ReplacePath(w, chain) /\ i \in Int
    BY <1>2, <1>4 DEF RemoveCard
  <2> HIDE DEF c
  <2>2. Len(chain) \in Nat
    BY <1>1, <2>1, RemoveLen
  <2> HIDE DEF chain
  <2> QED BY <2>1, <2>2, PathInv
<1>5. ASSUME NEW i \in DOMAIN ed[w].cards, NEW j \in DOMAIN ed[w].cards, MoveCard(w, i, j)
      PROVE  StoreInv'
  <2> DEFINE rest == RemoveAt(c, i)
             card == c[i]
             chain == InsertAt(rest, j, card)
  <2>1. ReplacePath(w, chain) /\ i \in Int /\ j \in Int
    BY <1>2, <1>5 DEF MoveCard
  <2> HIDE DEF c
  <2>2. Len(rest) \in Nat
    BY <1>1, <2>1, RemoveLen
  <2> HIDE DEF rest, card
  <2>3. Len(chain) \in Nat
    BY <2>1, <2>2, InsertLen
  <2> HIDE DEF chain
  <2> QED BY <2>1, <2>3, PathInv
<1> QED BY <1>3, <1>4, <1>5

LEMMA AppendInv ==
  ASSUME StoreInv, NEW w \in Window, NEW i \in DOMAIN ed[w].cards, NEW other, NEW copy,
         AppendRoute(w, i, other, copy)
  PROVE  StoreInv'
<1> DEFINE x == Flush(ed[w])
           y == Appended(x, i, other, copy)
           z == Render(y)
<1>1. Open(w) /\ ed' = [ed EXCEPT ![w] = z] /\ UNCHANGED <<stored, keys>>
  BY DEF AppendRoute, Edited, Draw
<1>2. Onward(ed[w], x) /\ DOMAIN x = EditorFields /\ x.mode = "open" /\ Catalogue(x.draft)
  BY <1>1, Flushed
<1>3. i \in Int
  <2> DEFINE d == ed[w].cards
  <2>1. PICK S : d \in Seq(S)
    BY <1>1, EditorIs DEF Cards, Open
  <2>2. i \in DOMAIN d
    OBVIOUS
  <2> HIDE DEF d
  <2>3. DOMAIN d = 1..Len(d) /\ Len(d) \in Nat
    BY <2>1, LenProperties
  <2> QED BY <2>2, <2>3
<1> HIDE DEF x
<1>4. Onward(x, y)
  BY <1>2, <1>3, AppendedOnward
<1> HIDE DEF y
<1>5. DOMAIN y = EditorFields /\ y.mode = "open" /\ Catalogue(y.draft)
  BY <1>4 DEF Onward, Grown
<1>6. Onward(y, z) /\ Cards(z)
  BY <1>5, RenderOnward
<1> HIDE DEF z
<1>7. Onward(ed[w], z)
  <2> DEFINE v == ed[w]
  <2>1. Onward(v, x)
    BY <1>2
  <2> HIDE DEF v
  <2>2. Onward(v, z)
    BY <1>4, <1>6, <2>1, OnwardSteps
  <2> QED BY <2>2 DEF v
<1> QED BY <1>1, <1>6, <1>7, EditInv

LEMMA CandidateIs ==
  ASSUME NEW s, Catalogue(s), NEW e, NEW path \in RepairCandidates(s, e)
  PROVE  \E T : path \in Seq(T)
<1> DEFINE r == Route(s, e)
           p == r.path
           at == Place(r.back, p)
<1>1. /\ p \in Seq(DOMAIN s.nodes)
      /\ r.error = "cycle" => \E i \in 1..Len(p) : p[i] = r.back
  BY RouteIs DEF Catalogue
<1>2. r.error = "cycle" /\ path \in {SubSeq(p, 1, at), p}
  BY DEF RepairCandidates, LoopCuts
<1>3. at \in Int
  <2> HIDE DEF p, r
  <2>1. DOMAIN p = 1..Len(p) /\ Len(p) \in Nat
    BY <1>1, LenProperties
  <2>2. at \in DOMAIN p
    BY <1>1, <1>2, <2>1 DEF Place
  <2> QED BY <2>1, <2>2
<1> HIDE DEF p, at, r
<1>4. \E T : SubSeq(p, 1, at) \in Seq(T)
  <2>1. 1 \in Int
    OBVIOUS
  <2> QED BY <1>3, <2>1, SubSeqLen
<1> QED BY <1>1, <1>2, <1>4

LEMMA RepairInv ==
  ASSUME StoreInv, NEW w \in Window,
         NEW path \in RepairCandidates(ed[w].draft, ed[w].entry), Repair(w, path)
  PROVE  StoreInv'
<1> DEFINE x == ed[w]
           own == [e \in {x.entry} |-> x.draft.entries[e]]
           entries == Added(x.base.entries, own)
           base == [x.base EXCEPT !.entries = entries]
           chain == Chain(x.draft, path)
           y == [x EXCEPT !.draft = CopyPath(base, x.entry, chain),
                          !.offered = FALSE, !.told = x.named]
           z == Render(y)
<1>1. Open(w) /\ ed' = [ed EXCEPT ![w] = z] /\ UNCHANGED <<stored, keys>>
  BY DEF Repair, Draw
<1>2. EditorInv(x, stored) /\ x.mode = "open" /\ DOMAIN x = EditorFields /\ Catalogue(x.draft)
  BY <1>1, EditorIs DEF StoreInv, Open
<1>3. Draft(base, x.base, x.entry)
  <2>1. Catalogue(x.base) /\ Draft(x.draft, x.base, x.entry)
    BY <1>2 DEF EditorInv
  <2>2. DOMAIN own = {x.entry} /\ own[x.entry] = x.draft.entries[x.entry]
    OBVIOUS
  <2> HIDE DEF own
  <2>3. /\ DOMAIN entries = DOMAIN x.base.entries \cup {x.entry}
        /\ \A o \in DOMAIN x.base.entries : entries[o] = x.base.entries[o]
        /\ x.entry \notin DOMAIN x.base.entries => entries[x.entry] = own[x.entry]
    BY <2>2 DEF Added
  <2> HIDE DEF entries
  <2>4. /\ DOMAIN base = {"rev", "nodes", "entries"} /\ base.rev = x.base.rev
        /\ base.nodes = x.base.nodes /\ base.entries = entries
    BY <2>1 DEF Catalogue
  <2> HIDE DEF base
  <2>5. /\ x.entry \in DOMAIN x.draft.entries
        /\ x.entry \notin DOMAIN x.base.entries => x.draft.entries[x.entry].key = None
        /\ DOMAIN x.draft.entries[x.entry] = {"start", "key"}
    BY <2>1 DEF Draft, Catalogue
  <2> HIDE DEF x
  <2>6. ASSUME NEW o \in DOMAIN entries
        PROVE  /\ DOMAIN entries[o] = {"start", "key"}
               /\ entries[o].key = IF o \in DOMAIN x.base.entries
                                   THEN x.base.entries[o].key ELSE None
    BY <2>1, <2>2, <2>3, <2>5, <2>6 DEF Catalogue
  <2> QED BY <2>1, <2>3, <2>4, <2>6 DEF Draft, Catalogue
<1>4. Len(chain) \in Nat
  <2> DEFINE s == x.draft
             e == x.entry
  <2>1. Catalogue(s) /\ path \in RepairCandidates(s, e)
    BY <1>2
  <2> HIDE DEF s, e
  <2>2. PICK T : path \in Seq(T)
    BY <2>1, CandidateIs
  <2>3. Len(Chain(s, path)) \in Nat
    BY <2>2, ChainIs
  <2> QED BY <2>3 DEF s
<1> DEFINE t == CopyPath(base, x.entry, chain)
<1>5. Draft(t, x.base, x.entry)
  <2> HIDE DEF base, chain
  <2> DEFINE e == x.entry
             b == x.base
  <2>1. Catalogue(base) /\ Draft(base, b, e)
    BY <1>3 DEF Draft
  <2> HIDE DEF e, b
  <2>2. Grown(base, CopyPath(base, e, chain))
    BY <1>4, <2>1, CopyPathGrows
  <2>3. Draft(CopyPath(base, e, chain), b, e)
    BY <2>1, <2>2, DraftGrows
  <2> QED BY <2>3 DEF e, b
<1>6. /\ DOMAIN y = EditorFields /\ y.mode = "open" /\ y.entry = x.entry
      /\ y.base = x.base /\ y.draft = t
  <2> HIDE DEF base, chain
  <2> QED BY <1>2 DEF EditorFields
<1> HIDE DEF t, y
<1>7. Onward(y, z) /\ Cards(z)
  <2>1. Catalogue(y.draft)
    BY <1>5, <1>6 DEF Draft
  <2> QED BY <1>6, <2>1, RenderOnward
<1> HIDE DEF z
<1>8. EditorInv(z, stored)
  <2> HIDE DEF x
  <2>1. Draft(z.draft, x.base, x.entry)
    <3> DEFINE e == x.entry
               b == x.base
               u == z.draft
               s == y.draft
    <3>1. Draft(s, b, e) /\ Grown(s, u)
      BY <1>5, <1>6, <1>7 DEF Onward
    <3> HIDE DEF e, b, u, s
    <3>2. Draft(u, b, e)
      BY <3>1, DraftGrows
    <3> QED BY <3>2 DEF e, b, u
  <2> QED BY <1>2, <1>6, <1>7, <2>1 DEF EditorInv, Onward, Cards
<1> QED BY <1>1, <1>8, Drawn

LEMMA DoneInv ==
  ASSUME StoreInv, NEW w \in Window, Done(w)
  PROVE  StoreInv'
<1> DEFINE v == ed[w]
           x == Flush(v)
           tidy == DiscardUnused(x.draft, x.base)
           y == Checked(x, Route(x.draft, x.entry).error)
           again == [x EXCEPT !.offered = TRUE]
           stays == [x EXCEPT !.offered = FALSE]
           leaves == Submit(x, tidy)
<1>1. Open(w) /\ ed' = [ed EXCEPT ![w] = y] /\ UNCHANGED <<stored, keys>>
  BY DEF Done
<1>2. /\ Onward(v, x) /\ DOMAIN x = EditorFields /\ x.mode = "open"
      /\ Catalogue(x.draft) /\ Cards(x)
  BY <1>1, Flushed
<1>3. EditorInv(v, stored) /\ v.mode # "closed"
  BY <1>1 DEF StoreInv, Open
<1>4. y \in {again, stays, leaves}
  BY DEF Checked
<1> HIDE DEF v, x, y
<1>5. EditorInv(x, stored) /\ x.mode # "closed"
  BY <1>2, <1>3, EditorStep
<1>6. ASSUME NEW u \in {again, stays} PROVE EditorInv(u, stored)
  <2>1. /\ DOMAIN u = EditorFields /\ u.mode = "open" /\ u.entry = x.entry
        /\ u.base = x.base /\ u.draft = x.draft /\ u.cards = x.cards
    BY <1>2, <1>6 DEF EditorFields
  <2>2. Cards(u)
    BY <1>2, <2>1 DEF Cards
  <2> QED BY <1>5, <2>1, <2>2, EditorSame
<1>7. EditorInv(leaves, stored)
  <2>1. /\ DOMAIN leaves = EditorFields /\ leaves.mode \in {"open", "saving"}
        /\ leaves.entry = x.entry /\ leaves.base = x.base /\ leaves.draft = tidy
        /\ leaves.cards = x.cards
    <3> HIDE DEF tidy
    <3> QED BY <1>2 DEF Submit, EditorFields
  <2>2. Draft(tidy, x.base, x.entry)
    <3> DEFINE s == x.draft
               b == x.base
    <3>1. Catalogue(s) /\ Draft(s, b, x.entry)
      BY <1>5 DEF EditorInv, Draft
    <3>2. DOMAIN b.nodes \subseteq DOMAIN s.nodes
      BY <3>1 DEF Draft
    <3> HIDE DEF s, b
    <3>3. /\ Catalogue(DiscardUnused(s, b)) /\ DiscardUnused(s, b).rev = s.rev
          /\ DiscardUnused(s, b).entries = s.entries
          /\ DOMAIN b.nodes \subseteq DOMAIN DiscardUnused(s, b).nodes
      BY <3>1, <3>2, DiscardIs
    <3>4. tidy = DiscardUnused(s, b)
      BY DEF s, b
    <3> HIDE DEF tidy
    <3>5. Draft(tidy, b, x.entry)
      BY <3>1, <3>3, <3>4 DEF Draft
    <3> QED BY <3>5 DEF b
  <2> HIDE DEF leaves, tidy
  <2> QED BY <1>2, <1>5, <2>1, <2>2 DEF EditorInv, Cards
<1> HIDE DEF again, stays, leaves
<1>8. EditorInv(y, stored)
  BY <1>4, <1>6, <1>7
<1> QED BY <1>1, <1>8, Drawn

LEMMA LeaveInv ==
  ASSUME StoreInv, NEW w \in Window, Cancel(w) \/ Reload(w) \/ CommitFails(w)
  PROVE  StoreInv'
<1>1. CASE Cancel(w) \/ Reload(w)
  BY <1>1, ClosedInv, Drawn DEF Cancel, Reload
<1>2. CASE CommitFails(w)
  <2> DEFINE x == ed[w]
             y == [x EXCEPT !.mode = "open"]
  <2>1. ed' = [ed EXCEPT ![w] = y] /\ UNCHANGED <<stored, keys>> /\ x.mode = "saving"
    BY <1>2 DEF CommitFails
  <2>2. DOMAIN x = EditorFields /\ Cards(x) /\ EditorInv(x, stored)
    BY <2>1, EditorIs DEF StoreInv
  <2> HIDE DEF x
  <2>3. /\ DOMAIN y = EditorFields /\ y.mode = "open" /\ y.entry = x.entry
        /\ y.base = x.base /\ y.draft = x.draft /\ y.cards = x.cards
    BY <2>2 DEF EditorFields
  <2>4. Cards(y)
    BY <2>2, <2>3 DEF Cards
  <2> HIDE DEF y
  <2>5. EditorInv(y, stored)
    BY <2>1, <2>2, <2>3, <2>4, EditorSame
  <2> QED BY <2>1, <2>5, Drawn
<1> QED BY <1>1, <1>2

LEMMA CommitInv ==
  ASSUME StoreInv, NEW w \in Window, Commit(w)
  PROVE  /\ StoreInv'
         /\ DOMAIN stored.entries \subseteq DOMAIN stored'.entries
         /\ DOMAIN stored.nodes \subseteq DOMAIN stored'.nodes
<1> DEFINE x == ed[w]
           s == x.draft
           put == Used(x)
<1>1. /\ x.mode = "saving" /\ s.rev = stored.rev
      /\ stored' = [s EXCEPT !.rev = @ + 1] /\ keys' = (keys \cup put) \ {}
      /\ \A n \in DOMAIN s.nodes :
           s.nodes[n].key \in Ref /\ s.nodes[n].key.owner = None => s.nodes[n].key \in keys'
      /\ ed' = [ed EXCEPT ![w] = Closed] /\ Valid(s)
  BY DEF Commit, Save, Stale
<1>2. EditorInv(x, stored) /\ DOMAIN ed = Window
  BY DEF StoreInv
<1>3. /\ Catalogue(s) /\ s.rev = stored.rev /\ Valid(s)
      /\ DOMAIN stored.nodes \subseteq DOMAIN s.nodes
      /\ DOMAIN stored.entries \subseteq DOMAIN s.entries
      /\ \A o \in DOMAIN s.entries :
           s.entries[o].key # None => o \in DOMAIN stored.entries
                                      /\ s.entries[o].key = stored.entries[o].key
  <2> DEFINE b == x.base
  <2>1. Draft(s, b, x.entry) /\ (b.rev = stored.rev => Covers(b, stored))
    BY <1>1, <1>2 DEF EditorInv
  <2>2. s.rev = stored.rev /\ Valid(s)
    BY <1>1
  <2> HIDE DEF s, b, x
  <2>3. Covers(b, stored)
    BY <2>1, <2>2 DEF Draft
  <2> QED BY <2>1, <2>2, <2>3 DEF Draft, Covers
<1> HIDE DEF x, s, put
<1>4. /\ DOMAIN stored' = DOMAIN s /\ stored'.nodes = s.nodes /\ stored'.entries = s.entries
      /\ stored'.rev = stored.rev + 1
  BY <1>1, <1>3 DEF Catalogue
<1>5. Valid(stored')
  BY <1>3, <1>4, ValidSame
<1>6. Catalogue(stored')
  BY <1>3, <1>4 DEF Catalogue
<1>7. KeysStored'
  <2>1. KeysStored
    BY DEF StoreInv
  <2>2. ASSUME NEW e \in DOMAIN stored'.entries, stored'.entries[e].key # None
        PROVE  /\ stored'.entries[e].key \in keys' /\ stored'.entries[e].key.owner = e
               /\ e \notin History
    <3>1. e \in DOMAIN stored.entries /\ stored'.entries[e].key = stored.entries[e].key
      BY <1>3, <1>4, <2>2
    <3> QED BY <1>1, <2>1, <2>2, <3>1 DEF KeysStored
  <2> QED BY <1>1, <1>4, <2>2 DEF KeysStored
<1>8. DOMAIN ed' = Window /\ \A v \in Window : ed'[v] \in {ed[v], Closed}
  BY <1>1, <1>2
<1>9. StoreInv'
  BY <1>4, <1>5, <1>6, <1>7, <1>8, Published
<1> QED BY <1>3, <1>4, <1>9

LEMMA DeleteInv ==
  ASSUME StoreInv, NEW w \in Window, NEW e, DeleteEntry(w, e)
  PROVE  StoreInv'
<1> DEFINE left == [o \in DOMAIN stored.entries \ {e} |-> stored.entries[o]]
           s == [stored EXCEPT !.entries = left]
           dropped == {stored.entries[e].key} \ {None}
<1>1. /\ Valid(s) /\ e \in DOMAIN stored.entries
      /\ stored' = [s EXCEPT !.rev = @ + 1] /\ keys' = (keys \cup {}) \ dropped
      /\ \A n \in DOMAIN s.nodes :
           s.nodes[n].key \in Ref /\ s.nodes[n].key.owner = None => s.nodes[n].key \in keys'
      /\ ed' = ed
  BY DEF DeleteEntry, Publish, Save
<1>2. Catalogue(stored) /\ KeysStored /\ DOMAIN ed = Window
  BY DEF StoreInv
<1>3. /\ DOMAIN left = DOMAIN stored.entries \ {e}
      /\ \A o \in DOMAIN left : left[o] = stored.entries[o]
  OBVIOUS
<1> HIDE DEF left
<1>4. /\ DOMAIN s = DOMAIN stored /\ s.nodes = stored.nodes /\ s.entries = left
      /\ s.rev = stored.rev
  BY <1>2 DEF Catalogue
<1> HIDE DEF s
<1>5. /\ DOMAIN stored' = DOMAIN stored /\ stored'.nodes = s.nodes /\ stored'.entries = s.entries
      /\ stored'.rev = stored.rev + 1
  BY <1>1, <1>2, <1>4 DEF Catalogue
<1>6. Valid(stored')
  BY <1>1, <1>5, ValidSame
<1>7. Catalogue(stored')
  <2>1. DOMAIN stored' = {"rev", "nodes", "entries"} /\ stored'.rev \in Nat
    BY <1>2, <1>4, <1>5 DEF Catalogue
  <2>2. IsFiniteSet(DOMAIN stored'.nodes)
    BY <1>2, <1>4, <1>5 DEF Catalogue
  <2>3. stored'.entries = left
    BY <1>4, <1>5
  <2>4. \A o \in DOMAIN left : DOMAIN left[o] = {"start", "key"}
    BY <1>2, <1>3 DEF Catalogue
  <2> QED BY <2>1, <2>2, <2>3, <2>4 DEF Catalogue
<1>8. KeysStored'
  <2>1. ASSUME NEW o \in DOMAIN stored'.entries, stored'.entries[o].key # None
        PROVE  /\ stored'.entries[o].key \in keys' /\ stored'.entries[o].key.owner = o
               /\ o \notin History
    <3> DEFINE k == stored'.entries[o].key
    <3>1. o \in DOMAIN stored.entries /\ o # e /\ k = stored.entries[o].key
      BY <1>3, <1>4, <1>5, <2>1
    <3>2. k \in keys /\ k.owner = o /\ o \notin History
      BY <1>2, <2>1, <3>1 DEF KeysStored
    <3>3. k \notin dropped
      BY <1>1, <1>2, <3>1, <3>2 DEF KeysStored
    <3> QED BY <1>1, <3>2, <3>3
  <2> QED BY <1>1, <1>5, <2>1 DEF KeysStored
<1>9. DOMAIN ed' = Window /\ \A v \in Window : ed'[v] \in {ed[v], Closed}
  BY <1>1, <1>2
<1> QED BY <1>5, <1>6, <1>7, <1>8, <1>9, Published

LEMMA SetToSeqLen ==
  ASSUME NEW S, IsFiniteSet(S)
  PROVE  Len(SetToSeq(S)) \in Nat
<1> DEFINE n == Cardinality(S)
<1>1. PICK m \in Nat : ExistsBijection(1..m, S)
  BY FS_NatBijection
<1>2. n = m
  BY <1>1, FS_CountingElements
<1>3. PICK f : f \in Bijection(1..m, S)
  BY <1>1 DEF ExistsBijection
<1>4. f \in [1..n -> S] /\ IsInjective(f)
  BY <1>2, <1>3 DEF Bijection, Injection
<1>5. SetToSeq(S) \in [1..n -> S]
  BY <1>4 DEF SetToSeq
<1>6. SetToSeq(S) \in Seq(S)
  BY <1>1, <1>2, <1>5
<1> QED BY <1>6, LenProperties

\* An import adds nodes, and entries without a key.
LEMMA ImportIs ==
  ASSUME NEW s, Catalogue(s), NEW incoming, DOMAIN incoming = {"rev", "nodes", "entries"},
         IsFiniteSet(DOMAIN incoming.nodes),
         \A e \in DOMAIN incoming.entries : DOMAIN incoming.entries[e] = {"start", "key"},
         NEW names, NEW S, names \in [S -> DOMAIN incoming.entries]
  PROVE  LET t == ImportState(s, incoming, names)
         IN  /\ Catalogue(t) /\ t.rev = s.rev
             /\ DOMAIN t.entries = DOMAIN s.entries \cup S
             /\ \A e \in DOMAIN s.entries : t.entries[e] = s.entries[e]
             /\ \A e \in S \ DOMAIN s.entries : t.entries[e].key = None
<1> DEFINE source == ExportState(incoming)
           old == SetToSeq(DOMAIN source.nodes)
           ids == Fresh(s.nodes, Len(old))
           new(n) == IF n = None THEN None ELSE ids[Place(n, old)]
           was(n) == source.nodes[old[Place(n, ids)]]
           entry(e) == [source.entries[names[e]] EXCEPT !.start = new(@)]
           more == [n \in Range(ids) |-> [was(n) EXCEPT !.next = new(@)]]
           others == [e \in DOMAIN names |-> entry(e)]
           nodes == Added(s.nodes, more)
           entries == Added(s.entries, others)
           t == [s EXCEPT !.nodes = nodes, !.entries = entries]
<1>1. ImportState(s, incoming, names) = t
  BY DEF ImportState
<1>2. /\ DOMAIN source.nodes \subseteq DOMAIN incoming.nodes
      /\ \A e \in DOMAIN incoming.entries : /\ source.entries[e].key = None
                                            /\ DOMAIN source.entries[e] = {"start", "key"}
  BY DEF ExportState
<1> HIDE DEF source
<1>3. IsFiniteSet(Range(ids))
  <2> DEFINE D == DOMAIN incoming.nodes
             E == DOMAIN source.nodes
  <2>1. IsFiniteSet(D) /\ E \in SUBSET D
    BY <1>2
  <2> HIDE DEF D, E
  <2>2. IsFiniteSet(E)
    BY <2>1, FS_Subset
  <2>3. Len(SetToSeq(E)) \in Nat
    BY <2>2, SetToSeqLen
  <2>4. Len(old) \in Nat
    BY <2>3 DEF E
  <2> HIDE DEF old
  <2> QED BY <2>4, FreshIs
<1>4. DOMAIN more = Range(ids) /\ DOMAIN others = S
  OBVIOUS
<1>5. \A e \in S : others[e].key = None /\ DOMAIN others[e] = {"start", "key"}
  <2> HIDE DEF ids, old
  <2> SUFFICES ASSUME NEW e \in S
               PROVE  others[e].key = None /\ DOMAIN others[e] = {"start", "key"}
    OBVIOUS
  <2>1. others[e] = entry(e) /\ names[e] \in DOMAIN incoming.entries
    OBVIOUS
  <2>2. source.entries[names[e]].key = None
        /\ DOMAIN source.entries[names[e]] = {"start", "key"}
    BY <1>2, <2>1
  <2>3. entry(e).key = None /\ DOMAIN entry(e) = {"start", "key"}
    BY <2>2
  <2> QED BY <2>1, <2>3
<1> HIDE DEF old, ids, more, others
<1>6. DOMAIN nodes = DOMAIN s.nodes \cup Range(ids)
  BY <1>4 DEF Added
<1>7. IsFiniteSet(DOMAIN nodes)
  <2> DEFINE D == DOMAIN s.nodes
  <2>1. IsFiniteSet(D)
    BY DEF Catalogue
  <2> HIDE DEF D
  <2>2. IsFiniteSet(D \cup Range(ids))
    BY <1>3, <2>1, FS_Union
  <2> QED BY <1>6, <2>2 DEF D
<1>8. /\ DOMAIN entries = DOMAIN s.entries \cup S
      /\ \A e \in DOMAIN s.entries : entries[e] = s.entries[e]
      /\ \A e \in S \ DOMAIN s.entries : entries[e] = others[e]
  BY <1>4 DEF Added
<1> HIDE DEF nodes, entries
<1>9. /\ DOMAIN t = DOMAIN s /\ t.rev = s.rev /\ t.nodes = nodes /\ t.entries = entries
  BY DEF Catalogue
<1> HIDE DEF t
<1>10. Catalogue(t)
  <2>1. DOMAIN t = {"rev", "nodes", "entries"} /\ t.rev \in Nat
    BY <1>9 DEF Catalogue
  <2>2. IsFiniteSet(DOMAIN t.nodes)
    BY <1>7, <1>9
  <2>3. ASSUME NEW e \in DOMAIN entries
        PROVE  DOMAIN entries[e] = {"start", "key"}
    <3>1. CASE e \in DOMAIN s.entries
      BY <1>8, <3>1 DEF Catalogue
    <3>2. CASE e \notin DOMAIN s.entries
      BY <1>5, <1>8, <2>3, <3>2
    <3> QED BY <3>1, <3>2
  <2> QED BY <1>9, <2>1, <2>2, <2>3 DEF Catalogue
<1> QED BY <1>1, <1>5, <1>8, <1>9, <1>10

LEMMA ImportInv ==
  ASSUME StoreInv, NEW w \in Window, NEW incoming \in Incoming,
         NEW names \in Renames(incoming), Import(w, incoming, names)
  PROVE  StoreInv'
<1> DEFINE s == ImportState(stored, incoming, names)
<1>1. /\ Valid(s) /\ stored' = [s EXCEPT !.rev = @ + 1] /\ keys' = (keys \cup {}) \ {}
      /\ \A n \in DOMAIN s.nodes :
           s.nodes[n].key \in Ref /\ s.nodes[n].key.owner = None => s.nodes[n].key \in keys'
      /\ ed' = ed
  BY DEF Import, Publish, Save
<1>2. Catalogue(stored) /\ KeysStored /\ DOMAIN ed = Window
  BY DEF StoreInv
<1>3. PICK S : names \in [S -> DOMAIN incoming.entries]
  BY DEF Renames
<1>4. /\ Catalogue(s) /\ s.rev = stored.rev
      /\ DOMAIN s.entries = DOMAIN stored.entries \cup S
      /\ \A e \in DOMAIN stored.entries : s.entries[e] = stored.entries[e]
      /\ \A e \in S \ DOMAIN stored.entries : s.entries[e].key = None
  BY <1>2, <1>3, HistoryAssumption, ImportIs
<1> HIDE DEF s
<1>5. /\ DOMAIN stored' = DOMAIN s /\ stored'.nodes = s.nodes /\ stored'.entries = s.entries
      /\ stored'.rev = stored.rev + 1
  BY <1>1, <1>4 DEF Catalogue
<1>6. Valid(stored')
  BY <1>1, <1>5, ValidSame
<1>7. Catalogue(stored')
  BY <1>4, <1>5 DEF Catalogue
<1>8. KeysStored'
  <2>1. ASSUME NEW e \in DOMAIN stored'.entries, stored'.entries[e].key # None
        PROVE  /\ stored'.entries[e].key \in keys' /\ stored'.entries[e].key.owner = e
               /\ e \notin History
    <3>1. e \in DOMAIN stored.entries /\ stored'.entries[e] = stored.entries[e]
      BY <1>4, <1>5, <2>1
    <3> QED BY <1>1, <1>2, <2>1, <3>1 DEF KeysStored
  <2> QED BY <1>1, <1>5, <2>1 DEF KeysStored
<1>9. DOMAIN ed' = Window /\ \A v \in Window : ed'[v] \in {ed[v], Closed}
  BY <1>1, <1>2
<1> QED BY <1>5, <1>6, <1>7, <1>8, <1>9, Published

\* A route that is put into a catalogue: its nodes are new, and so is its entry, or
\* the entry keeps its key.
PutInto(s, t, e, out) ==
  /\ Catalogue(t) /\ DOMAIN s.nodes \subseteq DOMAIN t.nodes
  /\ DOMAIN t.entries = (DOMAIN s.entries \ out) \cup {e}
  /\ \A o \in DOMAIN t.entries :
       t.entries[o].key = IF o \in DOMAIN s.entries \ out THEN s.entries[o].key ELSE None

LEMMA PutIs ==
  ASSUME NEW s, Catalogue(s), NEW e, NEW chain, NEW ids, IsFiniteSet(Range(ids)), NEW out
  PROVE  LET t == Put(s, e, chain, ids, out)
         IN  PutInto(s, t, e, out) /\ t.rev = s.rev
<1> DEFINE left == [o \in DOMAIN s.entries \ out |-> s.entries[o]]
           new == [o \in {e} |-> [start |-> None, key |-> None]]
           entries == Added(left, new)
           nodes == CopyNodes(s.nodes, chain, ids)
           start == ids[1]
           t == [s EXCEPT !.nodes = nodes, !.entries = [entries EXCEPT ![e].start = start]]
<1>1. Put(s, e, chain, ids, out) = t
  BY DEF Put
<1>2. DOMAIN s.nodes \subseteq DOMAIN nodes /\ IsFiniteSet(DOMAIN nodes)
  BY CopyNodesIs DEF Catalogue
<1> HIDE DEF nodes, start
<1>3. /\ DOMAIN left = DOMAIN s.entries \ out /\ DOMAIN new = {e}
      /\ \A o \in DOMAIN left : left[o] = s.entries[o]
      /\ new[e].key = None /\ DOMAIN new[e] = {"start", "key"}
  OBVIOUS
<1> HIDE DEF left, new
<1>4. /\ DOMAIN entries = (DOMAIN s.entries \ out) \cup {e}
      /\ \A o \in DOMAIN entries :
           /\ entries[o].key = IF o \in DOMAIN s.entries \ out THEN s.entries[o].key ELSE None
           /\ DOMAIN entries[o] = {"start", "key"}
  <2>1. /\ DOMAIN entries = DOMAIN left \cup DOMAIN new
        /\ \A o \in DOMAIN left : entries[o] = left[o]
        /\ \A o \in DOMAIN new : o \notin DOMAIN left => entries[o] = new[o]
    BY DEF Added
  <2> HIDE DEF entries
  <2>2. \A o \in DOMAIN s.entries : DOMAIN s.entries[o] = {"start", "key"}
    BY DEF Catalogue
  <2> QED BY <1>3, <2>1, <2>2
<1> HIDE DEF entries
<1>5. /\ DOMAIN t = DOMAIN s /\ t.rev = s.rev /\ t.nodes = nodes
      /\ t.entries = [entries EXCEPT ![e].start = start]
  BY DEF Catalogue
<1> HIDE DEF t
<1>6. ASSUME NEW o \in DOMAIN entries
      PROVE  t.entries[o].key = entries[o].key /\ DOMAIN t.entries[o] = {"start", "key"}
  <2>1. DOMAIN entries[o] = {"start", "key"}
    BY <1>4, <1>6
  <2>2. CASE o = e
    BY <1>5, <1>6, <2>1, <2>2
  <2>3. CASE o # e
    BY <1>5, <1>6, <2>1, <2>3
  <2> QED BY <2>2, <2>3
<1>7. DOMAIN t.entries = DOMAIN entries
  BY <1>5
<1>8. Catalogue(t)
  BY <1>2, <1>5, <1>6, <1>7 DEF Catalogue
<1>9. PutInto(s, t, e, out)
  BY <1>2, <1>4, <1>5, <1>6, <1>7, <1>8 DEF PutInto
<1> QED BY <1>1, <1>5, <1>9

\* The page has published such a catalogue; its keys are those there were and more.
LEMMA PutInv ==
  ASSUME StoreInv, NEW w \in Window, NEW e, NEW chain, NEW ids, IsFiniteSet(Range(ids)), NEW out,
         NEW put, Publish(w, Put(stored, e, chain, ids, out), put, {})
  PROVE  /\ PutInto(stored, stored', e, out) /\ Valid(stored') /\ KeysStored'
         /\ stored'.rev = stored.rev + 1
<1> DEFINE s == Put(stored, e, chain, ids, out)
<1>1. /\ Valid(s) /\ stored' = [s EXCEPT !.rev = @ + 1] /\ keys' = (keys \cup put) \ {}
      /\ \A n \in DOMAIN s.nodes :
           s.nodes[n].key \in Ref /\ s.nodes[n].key.owner = None => s.nodes[n].key \in keys'
  BY DEF Publish, Save
<1>2. Catalogue(stored) /\ KeysStored
  BY DEF StoreInv
<1>3. PutInto(stored, s, e, out) /\ s.rev = stored.rev
  BY <1>2, PutIs
<1> HIDE DEF s
<1>4. /\ DOMAIN stored' = DOMAIN s /\ stored'.nodes = s.nodes /\ stored'.entries = s.entries
      /\ stored'.rev = stored.rev + 1
  BY <1>1, <1>3 DEF PutInto, Catalogue
<1>5. Valid(stored')
  BY <1>1, <1>4, ValidSame
<1>6. KeysStored'
  <2>1. ASSUME NEW o \in DOMAIN stored'.entries, stored'.entries[o].key # None
        PROVE  /\ stored'.entries[o].key \in keys' /\ stored'.entries[o].key.owner = o
               /\ o \notin History
    <3>1. o \in DOMAIN stored.entries /\ stored'.entries[o].key = stored.entries[o].key
      BY <1>3, <1>4, <2>1 DEF PutInto
    <3> QED BY <1>1, <1>2, <2>1, <3>1 DEF KeysStored
  <2> QED BY <1>1, <1>4, <2>1 DEF KeysStored
<1>7. Catalogue(stored')
  BY <1>2, <1>3, <1>4 DEF PutInto, Catalogue
<1> QED BY <1>3, <1>4, <1>5, <1>6, <1>7 DEF PutInto

LEMMA ConnectInv ==
  ASSUME StoreInv, NEW w \in Window, NEW e, NEW fields, ConnectSave(w, e, fields)
  PROVE  StoreInv'
<1> DEFINE chain == <<fields>>
           ids == Fresh(stored.nodes, 1)
           put == {k \in {fields.key} : k \in Ref /\ k.owner = None}
<1>1. Publish(w, Put(stored, e, chain, ids, {}), put, {}) /\ ed' = ed
  BY DEF ConnectSave
<1>2. IsFiniteSet(Range(ids))
  BY FreshIs
<1> HIDE DEF chain, ids, put
<1>3. Catalogue(stored') /\ Valid(stored') /\ KeysStored' /\ stored'.rev = stored.rev + 1
  BY <1>1, <1>2, PutInv DEF PutInto
<1>4. DOMAIN ed' = Window /\ \A v \in Window : ed'[v] \in {ed[v], Closed}
  BY <1>1 DEF StoreInv
<1> QED BY <1>3, <1>4, Published

\* A draft that waits stands for the store after a connection was recorded.
LEMMA RebasedInv ==
  ASSUME StoreInv, NEW x, EditorInv(x, stored), x.mode = "saving", x.draft.rev = stored.rev,
         NEW s, NEW out, out \subseteq History, NEW h \in History, PutInto(stored, s, h, out)
  PROVE  EditorInv(Rebased(x, s), s) /\ Rebased(x, s).mode = "saving"
<1> DEFINE others == History \ {x.entry}
           profiles == [o \in DOMAIN x.draft.entries \ others |-> x.draft.entries[o]]
           past == [o \in DOMAIN s.entries \cap others |-> s.entries[o]]
           nodes == Added(x.draft.nodes, s.nodes)
           entries == Added(profiles, past)
           draft == [rev |-> s.rev, nodes |-> nodes, entries |-> entries]
           y == [x EXCEPT !.draft = draft, !.base = draft]
<1>1. Rebased(x, s) = y
  BY DEF Rebased
<1>2. /\ DOMAIN x = EditorFields /\ Draft(x.draft, x.base, x.entry)
      /\ (x.base.rev = stored.rev => Covers(x.base, stored)) /\ \E S : x.cards \in Seq(S)
  BY DEF EditorInv
<1>3. /\ Catalogue(x.draft) /\ x.entry \in DOMAIN x.draft.entries
      /\ DOMAIN stored.entries \subseteq DOMAIN x.draft.entries
      /\ \A o \in DOMAIN x.draft.entries :
           x.draft.entries[o].key = IF o \in DOMAIN stored.entries
                                    THEN stored.entries[o].key ELSE None
  <2> DEFINE b == x.base
             d == x.draft
             e == x.entry
  <2>1. Draft(d, b, e) /\ (b.rev = stored.rev => Covers(b, stored)) /\ d.rev = stored.rev
    BY <1>2
  <2> HIDE DEF b, d, e
  <2>2. Covers(b, stored)
    BY <2>1 DEF Draft
  <2>3. /\ Catalogue(d) /\ e \in DOMAIN d.entries /\ DOMAIN stored.entries \subseteq DOMAIN d.entries
        /\ \A o \in DOMAIN d.entries :
             d.entries[o].key = IF o \in DOMAIN stored.entries THEN stored.entries[o].key ELSE None
    BY <2>1, <2>2 DEF Draft, Covers
  <2> QED BY <2>3 DEF d, e
<1>4. /\ \A o \in DOMAIN stored.entries : o \in History => stored.entries[o].key = None
      /\ Catalogue(s) /\ DOMAIN s.entries = (DOMAIN stored.entries \ out) \cup {h}
      /\ \A o \in DOMAIN s.entries :
           s.entries[o].key = IF o \in DOMAIN stored.entries \ out
                              THEN stored.entries[o].key ELSE None
  BY DEF StoreInv, KeysStored, PutInto
<1>5. /\ DOMAIN profiles = DOMAIN x.draft.entries \ others
      /\ \A o \in DOMAIN profiles : profiles[o] = x.draft.entries[o]
      /\ DOMAIN past = DOMAIN s.entries \cap others
      /\ \A o \in DOMAIN past : past[o] = s.entries[o]
  OBVIOUS
<1> HIDE DEF profiles, past
<1>6. /\ DOMAIN entries = DOMAIN profiles \cup DOMAIN past
      /\ \A o \in DOMAIN profiles : entries[o] = profiles[o]
      /\ \A o \in DOMAIN past : o \notin DOMAIN profiles => entries[o] = past[o]
  BY DEF Added
<1> HIDE DEF entries
<1>7. x.entry \in DOMAIN entries /\ DOMAIN s.entries \subseteq DOMAIN entries
  <2>1. x.entry \in DOMAIN entries
    BY <1>3, <1>5, <1>6
  <2>2. ASSUME NEW o \in DOMAIN s.entries PROVE o \in DOMAIN entries
    <3>1. CASE o \in others
      BY <1>5, <1>6, <2>2, <3>1
    <3>2. CASE o = x.entry
      BY <2>1, <3>2
    <3>3. CASE o \notin History
      <4>1. o \in DOMAIN stored.entries
        BY <1>4, <2>2, <3>3
      <4> QED BY <1>3, <1>5, <1>6, <3>3, <4>1
    <3> QED BY <3>1, <3>2, <3>3
  <2> QED BY <2>1, <2>2
<1>8. ASSUME NEW o \in DOMAIN entries
      PROVE  /\ DOMAIN entries[o] = {"start", "key"}
             /\ entries[o].key = IF o \in DOMAIN s.entries THEN s.entries[o].key ELSE None
  <2>1. CASE o \in DOMAIN profiles
    <3>1. /\ o \in DOMAIN x.draft.entries /\ entries[o] = x.draft.entries[o]
          /\ o \notin History \/ o = x.entry
      BY <1>5, <1>6, <2>1
    <3>2. DOMAIN entries[o] = {"start", "key"}
      BY <1>3, <3>1 DEF Catalogue
    <3>3. entries[o].key = IF o \in DOMAIN stored.entries THEN stored.entries[o].key ELSE None
      BY <1>3, <3>1
    <3>4. CASE o \in History
      BY <1>4, <3>2, <3>3, <3>4
    <3>5. CASE o \notin History
      <4>1. o \in DOMAIN s.entries <=> o \in DOMAIN stored.entries
        BY <1>4, <3>5
      <4>2. o \in DOMAIN s.entries => s.entries[o].key = stored.entries[o].key
        BY <1>4, <3>5, <4>1
      <4> QED BY <3>2, <3>3, <4>1, <4>2
    <3> QED BY <3>4, <3>5
  <2>2. CASE o \notin DOMAIN profiles
    <3>1. o \in DOMAIN s.entries /\ entries[o] = s.entries[o]
      BY <1>5, <1>6, <1>8, <2>2
    <3> QED BY <1>4, <3>1 DEF Catalogue
  <2> QED BY <2>1, <2>2
<1>9. IsFiniteSet(DOMAIN nodes) /\ DOMAIN s.nodes \subseteq DOMAIN nodes
  <2> DEFINE C == DOMAIN x.draft.nodes
             D == DOMAIN s.nodes
  <2>1. IsFiniteSet(C) /\ IsFiniteSet(D)
    BY <1>3, <1>4 DEF Catalogue
  <2>2. DOMAIN nodes = C \cup D
    BY DEF Added
  <2> HIDE DEF C, D, nodes
  <2>3. IsFiniteSet(C \cup D)
    BY <2>1, FS_Union
  <2> QED BY <2>2, <2>3 DEF D
<1> HIDE DEF nodes
<1>10. /\ DOMAIN draft = {"rev", "nodes", "entries"} /\ draft.rev = s.rev
       /\ draft.nodes = nodes /\ draft.entries = entries
  OBVIOUS
<1> HIDE DEF draft
<1>11. Catalogue(draft) /\ Covers(draft, s) /\ draft.rev <= s.rev
  BY <1>4, <1>7, <1>8, <1>9, <1>10 DEF Catalogue, Covers
<1>12. \A e : e \in DOMAIN entries => Draft(draft, draft, e)
  BY <1>10, <1>11 DEF Draft
<1>13. /\ DOMAIN y = EditorFields /\ y.mode = "saving" /\ y.entry = x.entry /\ y.base = draft
       /\ y.draft = draft /\ y.cards = x.cards
  BY <1>2 DEF EditorFields
<1> HIDE DEF y
<1>14. Draft(draft, draft, y.entry)
  BY <1>7, <1>12, <1>13
<1>15. EditorInv(y, s)
  BY <1>2, <1>11, <1>13, <1>14 DEF EditorInv
<1> QED BY <1>1, <1>13, <1>15

\* Which editors change when a connection is recorded: a draft that waits goes on
\* waiting, for the new revision.
LEMMA HistoryInv ==
  ASSUME StoreInv, NEW w \in Window, NEW h \in History, NEW chain \in Recent, NEW out \in SUBSET History,
         RecordHistory(w, h, chain, out)
  PROVE  /\ StoreInv'
         /\ ed' = ed \/ \E y : y.mode = "saving" /\ ed' = [ed EXCEPT ![w] = y]
<1> DEFINE known == IF Waiting(w) THEN Added(stored.nodes, ed[w].draft.nodes) ELSE stored.nodes
           ids == Fresh(known, Len(chain))
           matching == SameHosts(stored, chain) \cap History
           gone == out \cup (matching \ {h})
           x == ed[w]
           y == Rebased(x, stored')
<1>1. /\ Publish(w, Put(stored, h, chain, ids, gone), {}, {})
      /\ ed' = IF Waiting(w) /\ ~ Stale(x.draft) THEN [ed EXCEPT ![w] = y] ELSE ed
  BY DEF RecordHistory
<1>2. IsFiniteSet(Range(ids))
  <2>1. Len(chain) \in Nat
    BY HistoryAssumption, LenProperties
  <2> HIDE DEF known
  <2> QED BY <2>1, FreshIs
<1>3. gone \subseteq History
  OBVIOUS
<1> HIDE DEF known, ids, gone, matching
<1>4. /\ PutInto(stored, stored', h, gone) /\ Valid(stored') /\ KeysStored'
      /\ stored'.rev = stored.rev + 1 /\ Catalogue(stored')
  BY <1>1, <1>2, PutInv DEF PutInto
<1>5. DOMAIN ed = Window /\ EditorInv(x, stored)
  BY DEF StoreInv
<1>6. CASE ed' = ed
  BY <1>4, <1>5, <1>6, Published
<1>7. CASE ed' # ed
  <2>1. x.mode = "saving" /\ x.draft.rev = stored.rev /\ ed' = [ed EXCEPT ![w] = y]
    BY <1>1, <1>7 DEF Waiting, Stale
  <2> HIDE DEF x
  <2>2. EditorInv(y, stored') /\ y.mode = "saving"
    BY <1>3, <1>4, <1>5, <2>1, RebasedInv
  <2> HIDE DEF y
  <2>3. DOMAIN ed' = Window /\ \A v \in Window : ed'[v] \in {ed[v], Closed} \/ EditorInv(ed'[v], stored')
    BY <1>5, <2>1, <2>2
  <2>4. StoreInv'
    BY <1>4, <2>3, Published
  <2> QED BY <2>1, <2>2, <2>4
<1> QED BY <1>6, <1>7

-----------------------------------------------------------------------------
(* The theorems.                                                           *)

LEMMA InitInv ==
  ASSUME Init
  PROVE  StoreInv
<1>1. /\ Catalogue(stored) /\ Valid(stored)
      /\ \A e \in DOMAIN stored.entries :
           LET k == stored.entries[e].key IN k # None => k \in Ref /\ k.owner = e /\ e \notin History
  BY BeginAssumption DEF Init, Catalogue
<1>2. /\ \A e \in DOMAIN stored.entries : stored.entries[e].key \in Ref => stored.entries[e].key \in keys
      /\ \A n \in DOMAIN stored.nodes : stored.nodes[n].key \in Ref => stored.nodes[n].key \in keys
  BY DEF Init
<1>3. KeysStored
  BY <1>1, <1>2 DEF KeysStored
<1>4. DOMAIN ed = Window /\ \A w \in Window : ed[w] = Closed
  BY DEF Init
<1>5. \A w \in Window : EditorInv(ed[w], stored)
  BY <1>4, ClosedInv
<1> QED BY <1>1, <1>3, <1>4, <1>5 DEF StoreInv

LEMMA NextInv ==
  ASSUME StoreInv, [Next]_vars
  PROVE  StoreInv'
<1>1. CASE UNCHANGED vars
  <2>1. UNCHANGED <<stored, keys, ed>>
    BY <1>1 DEF vars
  <2>2. KeysStored'
    BY <2>1 DEF StoreInv, KeysStored
  <2>3. Catalogue(stored') /\ Valid(stored')
    BY <2>1 DEF StoreInv
  <2>4. DOMAIN ed' = Window /\ \A w \in Window : EditorInv(ed'[w], stored')
    BY <2>1 DEF StoreInv
  <2> QED BY <2>2, <2>3, <2>4 DEF StoreInv
<1>2. ASSUME NEW w \in Window, Open(w), Editing(w) \/ Deciding(w) PROVE StoreInv'
  <2>1. ASSUME NEW i \in DOMAIN ed[w].cards, KeyOn(w, i) \/ KeyOff(w, i)
        PROVE  StoreInv'
    BY <1>2, <2>1, TypingInv
  <2>2. ASSUME NEW i \in DOMAIN ed[w].cards, NEW h \in Typed, TypeHost(w, i, h)
        PROVE  StoreInv'
    BY <1>2, <2>2, TypingInv
  <2>3. ASSUME NEW scope \in {"entry", "all"}, SetScope(w, scope) PROVE StoreInv'
    BY <1>2, <2>3, TypingInv
  <2>4. ASSUME NEW i \in DOMAIN ed[w].cards, RemoveCard(w, i) PROVE StoreInv'
    BY <1>2, <2>4, OrderInv
  <2>5. ASSUME NEW i \in DOMAIN ed[w].cards, NEW j \in DOMAIN ed[w].cards, MoveCard(w, i, j)
        PROVE  StoreInv'
    BY <1>2, <2>5, OrderInv
  <2>6. ASSUME AddJump(w) PROVE StoreInv'
    BY <1>2, <2>6, OrderInv
  <2>7. ASSUME NEW i \in DOMAIN ed[w].cards, NEW e \in Entry, NEW copy \in BOOLEAN,
               AppendRoute(w, i, e, copy)
        PROVE  StoreInv'
    BY <1>2, <2>7, AppendInv
  <2>8. ASSUME NEW path \in RepairCandidates(ed[w].draft, ed[w].entry), Repair(w, path)
        PROVE  StoreInv'
    BY <1>2, <2>8, RepairInv
  <2>9. ASSUME Done(w) \/ Cancel(w) PROVE StoreInv'
    BY <1>2, <2>9, DoneInv, LeaveInv
  <2> QED BY <1>2, <2>1, <2>2, <2>3, <2>4, <2>5, <2>6, <2>7, <2>8, <2>9 DEF Editing, Deciding
<1>3. ASSUME NEW w \in Window, NEW e \in Entry,
             DeleteEntry(w, e) \/ (\E form \in BOOLEAN : OpenEditor(w, e, form))
               \/ \E fields \in Direct : ConnectSave(w, e, fields)
      PROVE  StoreInv'
  BY <1>3, OpenInv, DeleteInv, ConnectInv
<1>4. ASSUME NEW w \in Window, KeyMade(w) \/ KeyFails(w) PROVE StoreInv'
  BY <1>4, MakingInv
<1>5. ASSUME NEW w \in Window, Commit(w) PROVE StoreInv'
  BY <1>5, CommitInv
<1>6. ASSUME NEW w \in Window, CommitFails(w) \/ Cancel(w) \/ Reload(w) PROVE StoreInv'
  BY <1>6, LeaveInv
<1>7. ASSUME NEW w \in Window, NEW incoming \in Incoming, NEW names \in Renames(incoming),
             Import(w, incoming, names)
      PROVE  StoreInv'
  BY <1>7, ImportInv
<1>8. ASSUME NEW w \in Window, Reopen(w) PROVE StoreInv'
  BY <1>8, ReopenInv
<1>9. ASSUME NEW w \in Window, NEW h \in History, NEW chain \in Recent, NEW out \in SUBSET History,
             RecordHistory(w, h, chain, out)
      PROVE  StoreInv'
  BY <1>9, HistoryInv
<1> QED BY <1>1, <1>2, <1>3, <1>4, <1>5, <1>6, <1>7, <1>8, <1>9 DEF Next, PageSaves

LEMMA StoreInvariant == Spec => []StoreInv
<1>1. Init => StoreInv
  BY InitInv
<1>2. StoreInv /\ [Next]_vars => StoreInv'
  BY NextInv
<1> QED BY <1>1, <1>2, PTL DEF Spec

\* Whatever the windows of a profile do and in whichever order their saves are
\* tried, each entry in the store can be connected to: its links lead through
\* stored nodes to an end, over no more jump hosts than allowed, and a key on the
\* way is in the key store, for the endpoint of its node (`validate`, and the checks
\* in the transaction of `save`, standterm-ssh-routes.js).
THEOREM RoutesStayUsable == Spec => []RoutesUsable
<1>1. StoreInv => RoutesUsable
  BY StoreUsable
<1> QED BY <1>1, StoreInvariant, PTL

\* Where the catalogue can change in a step, an editor closes in the same step
\* only by its own save.
LEMMA WhoSaves ==
  ASSUME StoreInv, Next
  PROVE  \/ stored' = stored \/ ed' = ed \/ \E w \in Window : Commit(w)
         \/ \E w \in Window : \E y : y.mode = "saving" /\ ed' = [ed EXCEPT ![w] = y]
<1>1. ASSUME NEW w, NEW x, Edited(w, x) \/ Draw(w, x) PROVE stored' = stored
  BY <1>1 DEF Edited, Draw
<1>2. ASSUME NEW w \in Window, Editing(w) \/ Deciding(w) PROVE stored' = stored
  <2>1. ASSUME NEW chain, ReplacePath(w, chain) PROVE stored' = stored
    BY <1>1, <2>1 DEF ReplacePath
  <2>2. ASSUME NEW i, KeyOn(w, i) \/ KeyOff(w, i) \/ RemoveCard(w, i) PROVE stored' = stored
    BY <1>1, <2>1, <2>2 DEF KeyOn, KeyOff, RemoveCard
  <2>3. ASSUME NEW i, NEW h, TypeHost(w, i, h) PROVE stored' = stored
    BY <1>1, <2>3 DEF TypeHost
  <2>4. ASSUME NEW i, NEW j, MoveCard(w, i, j) PROVE stored' = stored
    BY <2>1, <2>4 DEF MoveCard
  <2>5. ASSUME NEW i, NEW e, NEW copy, AppendRoute(w, i, e, copy) PROVE stored' = stored
    BY <1>1, <2>5 DEF AppendRoute
  <2>6. ASSUME NEW path, Repair(w, path) PROVE stored' = stored
    BY <1>1, <2>6 DEF Repair
  <2>7. ASSUME NEW scope, SetScope(w, scope) PROVE stored' = stored
    BY <1>1, <2>7 DEF SetScope
  <2>8. ASSUME AddJump(w) \/ Done(w) \/ Cancel(w) PROVE stored' = stored
    BY <2>1, <2>8 DEF AddJump, Done, Cancel
  <2> QED BY <1>2, <2>2, <2>3, <2>4, <2>5, <2>6, <2>7, <2>8 DEF Editing, Deciding
<1>3. ASSUME NEW w \in Window, NEW e,
             \/ DeleteEntry(w, e) \/ \E form \in BOOLEAN : OpenEditor(w, e, form)
             \/ \E fields \in Direct : ConnectSave(w, e, fields)
      PROVE  stored' = stored \/ ed' = ed
  BY <1>3 DEF OpenEditor, DeleteEntry, ConnectSave
<1>4. ASSUME NEW w \in Window,
             KeyMade(w) \/ KeyFails(w) \/ CommitFails(w) \/ Cancel(w) \/ Reload(w)
      PROVE  stored' = stored
  BY <1>4 DEF KeyMade, KeyFails, CommitFails, Cancel, Reload
<1>5. ASSUME NEW w \in Window, NEW incoming, NEW names, Import(w, incoming, names) PROVE ed' = ed
  BY <1>5 DEF Import
<1>6. ASSUME NEW w \in Window, Reopen(w) PROVE stored' = stored
  BY <1>1, <1>6 DEF Reopen
<1>7. ASSUME NEW w \in Window, NEW h \in History, NEW chain \in Recent, NEW out \in SUBSET History,
             RecordHistory(w, h, chain, out)
      PROVE  ed' = ed \/ \E y : y.mode = "saving" /\ ed' = [ed EXCEPT ![w] = y]
  BY <1>7, HistoryInv
<1> QED BY <1>2, <1>3, <1>4, <1>5, <1>6, <1>7 DEF Next, PageSaves

\* A save takes away no entry and no node that is in the store, whichever of them
\* its editor knew of: publishing a draft is refused unless it has the
\* revision that is stored now (the revision check in `save`), because it started
\* from it or was moved to it with all that was added (`flushSshHistory`), and a
\* draft drops only nodes it made itself (`discardUnusedDraftNodes`).
THEOREM SavesDropNothing == Spec => NothingDropped
<1>1. ASSUME StoreInv, [Next]_vars, NEW w \in Window, Saves(w)
      PROVE  /\ DOMAIN stored.entries \subseteq DOMAIN stored'.entries
             /\ DOMAIN stored.nodes \subseteq DOMAIN stored'.nodes
  <2>1. /\ ed[w].mode = "saving" /\ stored' # stored /\ ed'[w] # ed[w]
        /\ ed'[w].mode = "closed" /\ DOMAIN ed = Window
    BY <1>1 DEF Saves, Closed, StoreInv
  <2>2. ~ \E v \in Window : \E y : y.mode = "saving" /\ ed' = [ed EXCEPT ![v] = y]
    BY <2>1
  <2>3. Next
    BY <1>1, <2>1 DEF vars
  <2>4. PICK v \in Window : Commit(v)
    BY <1>1, <2>1, <2>2, <2>3, WhoSaves
  <2> QED BY <1>1, <2>4, CommitInv
<1>2. StoreInv /\ [Next]_vars =>
        [\A w \in Window : Saves(w) =>
           /\ DOMAIN stored.entries \subseteq DOMAIN stored'.entries
           /\ DOMAIN stored.nodes \subseteq DOMAIN stored'.nodes]_vars
  BY <1>1
<1> QED BY <1>2, StoreInvariant, PTL DEF Spec, NothingDropped

=============================================================================
