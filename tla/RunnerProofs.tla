---------------------------- MODULE RunnerProofs ----------------------------
(***************************************************************************)
(* The planner and the run, for every request and number of attempts: what *)
(* chain walking and plan_destinations compute for every way destinations  *)
(* can be linked and listed, and the safety of `execute` on that plan.     *)
(*                                                                         *)
(* That a replica follows its source does not depend on the order the      *)
(* planner found, because replication_blocker asks again; what a healthy   *)
(* run reaches does.                                                       *)
(***************************************************************************)
EXTENDS Runner, WellFoundedInduction, TLAPS

----------------------------------------------------------------------------
(* Induction.  The least element of a set of numbers gives induction over  *)
(* an interval, and that the equations of a recursive function have a      *)
(* solution; CHOOSE picks one.                                             *)
LEMMA Least ==
    ASSUME NEW T, T \subseteq Nat, T # {}
    PROVE  \E m \in T : \A k \in T : m <= k
<1> DEFINE R == {ss \in Nat \X Nat : ss[1] < ss[2]}
<1>1. IsWellFoundedOn(R, Nat)
  BY NatLessThanWellFounded DEF OpToRel
<1>2. \A x, y \in Nat : y < x => <<y, x>> \in R
  OBVIOUS
<1> HIDE DEF R
<1>3. PICK x \in T : \A y \in T : ~ (<<y, x>> \in R)
  BY <1>1, WFMin
<1>4. ASSUME NEW y \in T PROVE x <= y
  <2>1. x \in Nat /\ y \in Nat /\ ~(y < x)
    BY <1>2, <1>3
  <2> QED
    BY <2>1
<1> QED
  BY <1>4

LEMMA Greatest ==
    ASSUME NEW n \in Nat, NEW T, T \subseteq 0..n, T # {}
    PROVE  Max(T) \in T /\ \A k \in T : k <= Max(T)
<1> DEFINE U == {n - t : t \in T}
<1>1. U \subseteq Nat /\ U # {}
  <2>1. \A t \in T : t \in 0..n /\ n - t \in Nat /\ n - t \in U
    OBVIOUS
  <2> QED
    BY <2>1
<1>2. PICK m \in U : \A k \in U : m <= k
  <2> HIDE DEF U
  <2> QED
    BY <1>1, Least
<1>3. n - m \in T /\ \A k \in T : n - m >= k
  BY <1>2
<1> HIDE DEF U
<1> QED
  BY <1>3 DEF Max

LEMMA Induction ==
    ASSUME NEW N \in Nat, NEW T, 0 \in T, \A k \in 1..N : k - 1 \in T => k \in T
    PROVE  0..N \subseteq T
<1> DEFINE U == 0..N \ T
<1> SUFFICES ASSUME U # {} PROVE FALSE
  OBVIOUS
<1>1. PICK m \in U : \A k \in U : m <= k
  <2>1. U \subseteq Nat
    OBVIOUS
  <2> HIDE DEF U
  <2> QED
    BY <2>1, Least
<1>2. m \in 1..N /\ m - 1 \in 0..N /\ ~(m <= m - 1)
  BY <1>1
<1>3. m - 1 \in T
  BY <1>1, <1>2
<1> QED
  BY <1>1, <1>2, <1>3

Unrolls(f, N, S, a, step) ==
    /\ f \in [0..N -> S]
    /\ f[0] = a /\ \A k \in 1..N : f[k] = step[k][f[k - 1]]

LEMMA Recursion ==
    ASSUME NEW N \in Nat, NEW S, NEW a \in S, NEW step \in [1..N -> [S -> S]]
    PROVE  \E f : Unrolls(f, N, S, a, step)
<1> DEFINE Solves(f, n) == f[0] = a /\ \A k \in 1..n : f[k] = step[k][f[k - 1]]
           T == {n \in 0..N : \E f \in [0..n -> S] : Solves(f, n)}
<1>1. 0 \in T
  <2> DEFINE f == [i \in 0..0 |-> a]
  <2>1. f \in [0..0 -> S] /\ f[0] = a
    OBVIOUS
  <2> HIDE DEF f
  <2>2. Solves(f, 0)
    BY <2>1
  <2>3. \E g \in [0..0 -> S] : Solves(g, 0)
    BY <2>1, <2>2
  <2> HIDE DEF Solves
  <2> QED
    BY <2>3
<1>2. ASSUME NEW k \in 1..N, k - 1 \in T PROVE k \in T
  <2>1. PICK f \in [0..(k - 1) -> S] : Solves(f, k - 1)
    BY <1>2
  <2> DEFINE g == [i \in 0..k |-> IF i = k THEN step[k][f[k - 1]] ELSE f[i]]
  <2>2. step[k][f[k - 1]] \in S
    BY <2>1
  <2>3. g \in [0..k -> S]
    BY <2>1, <2>2
  <2>4. g[k] = step[k][f[k - 1]] /\ \A i \in 0..(k - 1) : g[i] = f[i]
    OBVIOUS
  <2>5. g[0] = a
    BY <2>1, <2>4
  <2>6. ASSUME NEW i \in 1..k PROVE g[i] = step[i][g[i - 1]]
    BY <2>1, <2>4
  <2> HIDE DEF g
  <2>7. Solves(g, k)
    BY <2>5, <2>6
  <2> HIDE DEF Solves
  <2>8. \E h \in [0..k -> S] : Solves(h, k)
    BY <2>3, <2>7
  <2> QED
    BY <2>8
<1> HIDE DEF T
<1>3. N \in T
  <2>1. 0..N \subseteq T
    BY <1>1, <1>2, Induction
  <2> QED
    BY <2>1
<1> QED
  BY <1>3 DEF T, Unrolls

----------------------------------------------------------------------------
(* The chain above a destination.                                          *)
Links(origin) ==
    /\ Configured(origin) \subseteq Dest
    /\ \A d \in Configured(origin) : origin[d] \in Dest \cup {NoDest}

LEMMA UpSteps ==
    ASSUME NEW origin, Links(origin), NEW d \in Dest
    PROVE  /\ Up(origin, d) \in [0..MaxDepth -> Dest \cup {NoDest}]
           /\ Up(origin, d)[0] = d
           /\ \A k \in 1..MaxDepth :
                Up(origin, d)[k] =
                  IF Up(origin, d)[k - 1] \in Configured(origin)
                    THEN origin[Up(origin, d)[k - 1]] ELSE NoDest
<1> DEFINE S == Dest \cup {NoDest}
           E(u) == [k \in 0..MaxDepth |->
                      IF k = 0 THEN d
                      ELSE IF u[k - 1] \in Configured(origin) THEN origin[u[k - 1]]
                      ELSE NoDest]
           step == [k \in 1..MaxDepth |->
                      [s \in S |-> IF s \in Configured(origin) THEN origin[s] ELSE NoDest]]
<1>1. Up(origin, d) = CHOOSE u : u = E(u)
  BY DEF Up
<1>2. PICK f : Unrolls(f, MaxDepth, S, d, step)
  <2>1. step \in [1..MaxDepth -> [S -> S]]
    BY DEF Links
  <2>2. d \in S /\ MaxDepth \in Nat
    BY DepthAssumption
  <2> HIDE DEF step, S
  <2> QED
    BY <2>1, <2>2, Recursion
<1>3. f = E(f)
  <2>1. f \in [0..MaxDepth -> S] /\ f[0] = d
    BY <1>2 DEF Unrolls
  <2>2. ASSUME NEW k \in 1..MaxDepth
        PROVE  f[k] = IF f[k - 1] \in Configured(origin) THEN origin[f[k - 1]] ELSE NoDest
    <3>1. f[k] = step[k][f[k - 1]]
      BY <1>2 DEF Unrolls
    <3>2. f[k - 1] \in S
      BY <2>1, DepthAssumption
    <3>3. \A s \in S : step[k][s] = IF s \in Configured(origin) THEN origin[s] ELSE NoDest
      OBVIOUS
    <3> QED
      BY <3>1, <3>2, <3>3
  <2>3. \A k \in 0..MaxDepth :
           f[k] = IF k = 0 THEN d
                  ELSE IF f[k - 1] \in Configured(origin) THEN origin[f[k - 1]]
                  ELSE NoDest
    BY <2>1, <2>2, DepthAssumption
  <2> HIDE DEF S
  <2> QED
    BY <2>1, <2>3
<1>4. Up(origin, d) = E(Up(origin, d))
  <2> HIDE DEF E
  <2> QED
    BY <1>1, <1>3
<1> DEFINE up == Up(origin, d)
<1>5. up = E(up)
  BY <1>4
<1> HIDE DEF up
<1>6. \A k \in 1..MaxDepth :
         up[k] = IF up[k - 1] \in Configured(origin) THEN origin[up[k - 1]] ELSE NoDest
  BY <1>5, DepthAssumption
<1>7. up[0] = d /\ DOMAIN up = 0..MaxDepth
  BY <1>5, DepthAssumption
<1>8. \A k \in 0..MaxDepth : up[k] \in S
  BY <1>6, <1>7, DepthAssumption DEF Links
<1>9. up \in [0..MaxDepth -> S]
  BY <1>5, <1>7, <1>8
<1> QED
  BY <1>6, <1>7, <1>9 DEF up

\* The chain has one end: above a root there is nothing.
LEMMA OneRoot ==
    ASSUME NEW origin, Links(origin), NEW d \in Dest,
           NEW h \in Nat, h <= MaxDepth,
           NEW m \in HopsToRoot(origin, d, h), NEW n \in HopsToRoot(origin, d, h)
    PROVE  m = n
<1> DEFINE up == Up(origin, d)
<1> USE DepthAssumption
<1>1. /\ m \in 0..MaxDepth /\ n \in 0..MaxDepth
      /\ up[m] \in Configured(origin) /\ origin[up[m]] = NoDest
      /\ up[n] \in Configured(origin) /\ origin[up[n]] = NoDest
  BY DEF HopsToRoot
<1>2. \A k \in 1..MaxDepth :
         up[k] = IF up[k - 1] \in Configured(origin) THEN origin[up[k - 1]] ELSE NoDest
  BY UpSteps
<1>3. NoDest \notin Configured(origin)
  BY NoDestAssumption DEF Links
<1> HIDE DEF up
<1>4. ASSUME NEW r \in 0..MaxDepth, up[r] \in Configured(origin), origin[up[r]] = NoDest
      PROVE  \A k \in 0..MaxDepth : k > r => up[k] = NoDest
  <2> DEFINE T == {k \in 0..MaxDepth : k > r => up[k] = NoDest}
  <2>1. 0 \in T
    OBVIOUS
  <2>2. ASSUME NEW k \in 1..MaxDepth, k - 1 \in T PROVE k \in T
    BY <1>2, <1>3, <1>4, <2>2
  <2> HIDE DEF T
  <2>3. 0..MaxDepth \subseteq T
    BY <2>1, <2>2, Induction
  <2> QED
    BY <2>3 DEF T
<1> QED
  BY <1>1, <1>3, <1>4

\* In a loop there is no end.
LEMMA NoRootInLoop ==
    ASSUME NEW origin, Links(origin), NEW C \in SUBSET Configured(origin),
           \A c \in C : origin[c] \in C \ {c}, NEW d \in C, NEW h \in Nat, h <= MaxDepth
    PROVE  HopsToRoot(origin, d, h) = {}
<1> DEFINE up == Up(origin, d)
           T == {k \in 0..MaxDepth : up[k] \in C}
<1> USE DepthAssumption
<1>1. /\ d \in Dest /\ C \subseteq Dest /\ NoDest \notin C
  BY NoDestAssumption DEF Links
<1>2. /\ up[0] = d
      /\ \A k \in 1..MaxDepth :
         up[k] = IF up[k - 1] \in Configured(origin) THEN origin[up[k - 1]] ELSE NoDest
  BY <1>1, UpSteps
<1> HIDE DEF up
<1>3. 0 \in T
  BY <1>2
<1>4. ASSUME NEW k \in 1..MaxDepth, k - 1 \in T PROVE k \in T
  BY <1>2, <1>4
<1> HIDE DEF T
<1>5. \A k \in 0..h : up[k] \in C
  <2>1. 0..MaxDepth \subseteq T
    BY <1>3, <1>4, Induction
  <2> QED
    BY <2>1 DEF T
<1> QED
  BY <1>1, <1>5 DEF HopsToRoot, up

\* What the validator accepts opens with the root of its chain.
LEMMA ChainsOpen ==
    ASSUME NEW origin, Links(origin), ValidReplication(origin),
           NEW d \in Configured(origin)
    PROVE  LET chain == ReplicationChain(origin, d)
           IN  /\ chain # <<>>
               /\ PassphraseHolder(origin, d)
                    = IF Len(chain) <= MaxDepth THEN Head(chain) ELSE NoDest
<1> USE DepthAssumption
<1> DEFINE up == Up(origin, d)
           found == HopsToRoot(origin, d, MaxDepth)
           n == CHOOSE k \in found : TRUE
           chain == ReplicationChain(origin, d)
<1>1. d \in Dest /\ up[0] = d
  BY UpSteps DEF Links
<1>2. d \notin Replicas(origin) => 0 \in found
  BY <1>1 DEF Replicas, HopsToRoot
<1>3. found # {}
  BY <1>2 DEF ValidReplication, ReplicationChain
<1>4. n \in found /\ n \in 0..MaxDepth
  BY <1>3 DEF HopsToRoot
<1>5. \A k \in found : k = n
  BY <1>1, <1>4, OneRoot
<1>6. /\ up[n] \in Configured(origin)
      /\ chain = [i \in 1..(n + 1) |-> up[n + 1 - i]]
  BY <1>3, <1>4 DEF ReplicationChain, HopsToRoot
<1>7. chain # <<>> /\ Len(chain) = n + 1 /\ Head(chain) = up[n]
  <2>1. chain \in Seq({up[k] : k \in 0..MaxDepth})
    <3>1. \A i \in 1..(n + 1) : n + 1 - i \in 0..MaxDepth
      BY <1>4
    <3> HIDE DEF n, up
    <3> QED
      BY <1>4, <1>6, <3>1
  <2>2. Len(chain) = n + 1
    <3> HIDE DEF n, up, chain
    <3> QED
      BY <1>4, <1>6, <2>1
  <2> HIDE DEF n, chain, up
  <2>3. chain[1] = up[n]
    <3>1. 1 \in 1..(n + 1) /\ n + 1 - 1 = n
      BY <1>4
    <3> QED
      BY <1>6, <3>1
  <2> QED
    BY <1>4, <2>1, <2>2, <2>3
<1>8. CASE d \notin Replicas(origin)
  <2>1. n = 0 /\ PassphraseHolder(origin, d) = d
    BY <1>2, <1>5, <1>8 DEF PassphraseHolder
  <2> HIDE DEF n, up, chain
  <2> QED
    BY <1>1, <1>7, <2>1 DEF chain
<1>9. CASE d \in Replicas(origin)
  <2> DEFINE short == HopsToRoot(origin, d, MaxDepth - 1)
  <2>1. \A k : k \in short <=> k \in found /\ k # MaxDepth
    BY DEF HopsToRoot
  <2>2. CASE n = MaxDepth
    <3>1. short = {}
      BY <1>5, <2>1, <2>2
    <3>2. PassphraseHolder(origin, d) = NoDest
      BY <1>9, <3>1 DEF PassphraseHolder, ReplicationRoot
    <3> HIDE DEF n, up, chain
    <3> QED
      BY <1>7, <2>2, <3>2 DEF chain
  <2>3. CASE n # MaxDepth
    <3>1. short = {n}
      <4> HIDE DEF n, found, short
      <4> QED
        BY <1>4, <1>5, <2>1, <2>3
    <3>2. (CHOOSE k \in short : TRUE) = n
      BY <3>1
    <3>3. n + 1 <= MaxDepth
      BY <1>4, <2>3
    <3>4. PassphraseHolder(origin, d) = up[n]
      BY <1>9, <3>1, <3>2 DEF PassphraseHolder, ReplicationRoot
    <3> HIDE DEF n, up, chain
    <3> QED
      BY <1>7, <3>3, <3>4 DEF chain
  <2> QED
    BY <2>2, <2>3
<1> QED
  BY <1>8, <1>9

----------------------------------------------------------------------------
(***************************************************************************)
(* plan_destinations.  What is placed, and what is deferred.               *)
(***************************************************************************)
Acc == [plan: Seq(Entry), deferred: Seq(Dest)]
Dests(p) == {p[k].dest : k \in DOMAIN p}

\* An entry is placed with the position of its source.
LEMMA PlaceShape ==
    ASSUME NEW q, ListShape(q), NEW acc \in Acc, NEW d \in Range(q.listed)
    PROVE  LET new == Place(q.origin, q.listed, acc, d)
           IN  /\ new \in Acc /\ EntryFor(q.origin, acc.plan, d) \in Entry
               /\ IF Placeable(q.origin, q.listed, acc.plan, d)
                    THEN /\ new.deferred = acc.deferred
                         /\ new.plan = Append(acc.plan, EntryFor(q.origin, acc.plan, d))
                    ELSE /\ new.plan = acc.plan
                         /\ new.deferred = Append(acc.deferred, d)
<1> DEFINE sources == IF q.origin[d] = d THEN {} ELSE PlacedAt(acc.plan, q.origin[d])
           entry == EntryFor(q.origin, acc.plan, d)
<1>1. d \in Dest /\ acc.plan \in Seq(Entry) /\ acc.deferred \in Seq(Dest)
  BY DEF ListShape, Acc
<1>2. ASSUME sources # {} PROVE Max(sources) \in Nat
  <2>1. /\ sources \subseteq 0..Len(acc.plan) /\ Len(acc.plan) \in Nat
        /\ \A s \in sources : s \in Nat
    BY <1>1 DEF PlacedAt
  <2> HIDE DEF sources
  <2>2. Max(sources) \in sources
    BY <1>2, <2>1, Greatest
  <2> QED
    BY <2>1, <2>2
<1>3. entry \in Entry
  BY <1>1, <1>2 DEF EntryFor, Entry
<1> HIDE DEF entry
<1>4. /\ Append(acc.plan, entry) \in Seq(Entry)
      /\ Append(acc.deferred, d) \in Seq(Dest)
  BY <1>1, <1>3
<1>5. acc = [plan |-> acc.plan, deferred |-> acc.deferred]
  BY DEF Acc
<1>6. CASE Placeable(q.origin, q.listed, acc.plan, d)
  <2>1. Place(q.origin, q.listed, acc, d)
          = [plan |-> Append(acc.plan, entry), deferred |-> acc.deferred]
    BY <1>5, <1>6 DEF Place, entry
  <2> QED
    BY <1>1, <1>3, <1>4, <1>6, <2>1 DEF Acc, entry
<1>7. CASE ~Placeable(q.origin, q.listed, acc.plan, d)
  <2>1. Place(q.origin, q.listed, acc, d)
          = [plan |-> acc.plan, deferred |-> Append(acc.deferred, d)]
    BY <1>5, <1>7 DEF Place
  <2> QED
    BY <1>1, <1>3, <1>4, <1>7, <2>1 DEF Acc, entry
<1> QED
  BY <1>6, <1>7

----------------------------------------------------------------------------
(* The invariant of the planner: every entry is what it ought to be, and   *)
(* nothing that is in or behind a loop has been placed.                    *)
WellPlaced(q, p) ==
    \A k \in DOMAIN p : LET d == p[k].dest IN
      /\ d \in Range(q.listed)
      /\ p[k].dependsOn # 0 =>
           p[k].dependsOn \in 1..(k - 1) /\ p[p[k].dependsOn].dest = q.origin[d]
      /\ p[k].blocked <=> \/ q.origin[d] \notin Range(q.listed) \cup {NoDest}
                          \/ q.origin[d] = d
                          \/ Looped(q, d)
      /\ q.origin[d] # NoDest /\ ~p[k].blocked => p[k].dependsOn # 0

Unlooped(q, p) == \A k \in DOMAIN p : ~Looped(q, p[k].dest)

Sound(q) ==
    {acc \in Acc : /\ Range(acc.deferred) \subseteq Range(q.listed)
                   /\ WellPlaced(q, acc.plan) /\ Unlooped(q, acc.plan)}

Stuck(q, acc) ==
    \A d \in Range(acc.deferred) : ~Placeable(q.origin, q.listed, acc.plan, d)

StartsWith(p, r) == Len(r) <= Len(p) /\ \A k \in DOMAIN r : p[k] = r[k]

LEMMA Appended ==
    ASSUME NEW S, NEW s \in Seq(S), NEW x \in S
    PROVE  /\ Append(s, x) \in Seq(S) /\ Len(Append(s, x)) = Len(s) + 1
           /\ DOMAIN Append(s, x) = 1..(Len(s) + 1) /\ DOMAIN s = 1..Len(s)
           /\ Len(s) \in Nat
           /\ \A k \in DOMAIN s : Append(s, x)[k] = s[k]
           /\ Append(s, x)[Len(s) + 1] = x
           /\ Range(Append(s, x)) = Range(s) \cup {x}
<1>1. /\ Append(s, x) \in Seq(S) /\ Len(Append(s, x)) = Len(s) + 1 /\ Len(s) \in Nat
      /\ DOMAIN Append(s, x) = 1..(Len(s) + 1) /\ DOMAIN s = 1..Len(s)
  OBVIOUS
<1>2. /\ \A k \in DOMAIN s : Append(s, x)[k] = s[k]
      /\ Append(s, x)[Len(s) + 1] = x
  BY <1>1
<1>3. \A k : k \in DOMAIN Append(s, x) <=> k \in DOMAIN s \/ k = Len(s) + 1
  BY <1>1
<1>4. Range(Append(s, x)) = Range(s) \cup {x}
  BY <1>2, <1>3 DEF Range
<1> QED
  BY <1>1, <1>2, <1>4

LEMMA SameSequence ==
    ASSUME NEW S, NEW s \in Seq(S), NEW t \in Seq(S), Len(t) = Len(s),
           \A k \in 1..Len(s) : t[k] = s[k]
    PROVE  t = s
<1>1. /\ DOMAIN s = 1..Len(s) /\ DOMAIN t = 1..Len(s)
      /\ s = [k \in DOMAIN s |-> s[k]] /\ t = [k \in DOMAIN t |-> t[k]]
  OBVIOUS
<1> QED
  BY <1>1

LEMMA EntryFits ==
    ASSUME NEW q, ListShape(q), NEW p \in Seq(Entry), WellPlaced(q, p), Unlooped(q, p),
           NEW d \in Range(q.listed), Placeable(q.origin, q.listed, p, d),
           EntryFor(q.origin, p, d) \in Entry
    PROVE  LET new == Append(p, EntryFor(q.origin, p, d))
           IN  WellPlaced(q, new) /\ Unlooped(q, new)
<1> DEFINE e == EntryFor(q.origin, p, d)
           sources == IF q.origin[d] = d THEN {} ELSE PlacedAt(p, q.origin[d])
           new == Append(p, e)
<1>1. ~Looped(q, d)
  <2> SUFFICES ASSUME NEW C \in SUBSET Range(q.listed),
                      d \in C, \A c \in C : q.origin[c] \in C \ {c}
               PROVE  FALSE
    BY DEF Looped
  <2>1. q.origin[d] \in C /\ q.origin[d] # d /\ q.origin[d] # NoDest
    BY NoDestAssumption DEF ListShape
  <2>2. PICK k \in DOMAIN p : p[k].dest = q.origin[d]
    BY <2>1 DEF Placeable, PlacedAt
  <2>3. Looped(q, p[k].dest)
    BY <2>1, <2>2 DEF Looped
  <2> QED
    BY <2>3 DEF Unlooped
<1>2. e.dest = d /\ (e.blocked <=> q.origin[d] # NoDest /\ sources = {})
  BY DEF EntryFor
<1>3. /\ sources # {} => e.dependsOn \in sources
      /\ sources = {} => e.dependsOn = 0
  <2>1. sources \subseteq 0..Len(p) /\ Len(p) \in Nat
    BY DEF PlacedAt
  <2>2. e.dependsOn = IF sources = {} THEN 0 ELSE Max(sources)
    BY DEF EntryFor
  <2> HIDE DEF sources, e
  <2>3. sources # {} => Max(sources) \in sources
    BY <2>1, Greatest
  <2> QED
    BY <2>2, <2>3
<1>4. \A k \in sources : k \in 1..Len(p) /\ p[k].dest = q.origin[d]
  BY DEF PlacedAt
<1>5. sources # {} => q.origin[d] \in Range(q.listed) /\ q.origin[d] # d
  BY <1>4 DEF WellPlaced
<1>6. sources = {} => \/ q.origin[d] \in {NoDest, d}
                      \/ q.origin[d] \notin Range(q.listed)
  BY DEF Placeable
<1>7. d \in Dest /\ NoDest \notin Range(q.listed)
  BY NoDestAssumption DEF ListShape
<1> HIDE DEF sources, e
<1>8. /\ DOMAIN new = 1..(Len(p) + 1) /\ DOMAIN p = 1..Len(p) /\ Len(p) \in Nat
      /\ \A k \in DOMAIN p : new[k] = p[k]
      /\ new[Len(p) + 1] = e
  <2>1. e \in Entry
    BY DEF e
  <2> QED
    BY <2>1, Appended
<1> HIDE DEF new
<1>9. ASSUME NEW k \in DOMAIN p
      PROVE  /\ ~Looped(q, new[k].dest)
             /\ LET c == new[k].dest IN
                /\ c \in Range(q.listed)
                /\ new[k].dependsOn # 0 =>
                     /\ new[k].dependsOn \in 1..(k - 1)
                     /\ new[new[k].dependsOn].dest = q.origin[c]
                /\ new[k].blocked <=> \/ q.origin[c] \notin Range(q.listed) \cup {NoDest}
                                      \/ q.origin[c] = c
                                      \/ Looped(q, c)
                /\ q.origin[c] # NoDest /\ ~new[k].blocked => new[k].dependsOn # 0
  <2>1. new[k] = p[k]
    BY <1>8
  <2>2. p[k].dependsOn \in 1..(k - 1) => new[p[k].dependsOn] = p[p[k].dependsOn]
    BY <1>8
  <2> QED
    BY <2>1, <2>2 DEF WellPlaced, Unlooped
<1>10. /\ d \in Range(q.listed)
       /\ e.dependsOn # 0 => e.dependsOn \in 1..Len(p) /\ new[e.dependsOn].dest = q.origin[d]
       /\ e.blocked <=> \/ q.origin[d] \notin Range(q.listed) \cup {NoDest}
                        \/ q.origin[d] = d
                        \/ Looped(q, d)
       /\ q.origin[d] # NoDest /\ ~e.blocked => e.dependsOn # 0
  <2>1. e.dependsOn # 0 => e.dependsOn \in 1..Len(p) /\ new[e.dependsOn].dest = q.origin[d]
    BY <1>3, <1>4, <1>8
  <2>2. e.blocked <=> \/ q.origin[d] \notin Range(q.listed) \cup {NoDest}
                      \/ q.origin[d] = d
                      \/ Looped(q, d)
    BY <1>1, <1>2, <1>5, <1>6, <1>7
  <2>3. q.origin[d] # NoDest /\ ~e.blocked => e.dependsOn # 0
    BY <1>2, <1>3, <1>4
  <2> QED
    BY <2>1, <2>2, <2>3
<1>11. new[Len(p) + 1] = e /\ e.dest = d /\ Len(p) + 1 - 1 = Len(p)
  BY <1>2, <1>8
<1>12. \A k \in DOMAIN new : k \in DOMAIN p \/ k = Len(p) + 1
  BY <1>8
<1>13. Unlooped(q, new)
  BY <1>1, <1>9, <1>11, <1>12 DEF Unlooped
<1>14. WellPlaced(q, new)
  BY <1>9, <1>10, <1>11, <1>12 DEF WellPlaced
<1> QED
  BY <1>13, <1>14 DEF new, e

LEMMA PlaceSound ==
    ASSUME NEW q, ListShape(q), NEW acc \in Sound(q), NEW d \in Range(q.listed)
    PROVE  Place(q.origin, q.listed, acc, d) \in Sound(q)
<1> DEFINE new == Place(q.origin, q.listed, acc, d)
           entry == EntryFor(q.origin, acc.plan, d)
<1>1. /\ acc \in Acc /\ Range(acc.deferred) \subseteq Range(q.listed)
      /\ WellPlaced(q, acc.plan) /\ Unlooped(q, acc.plan)
      /\ acc.plan \in Seq(Entry) /\ acc.deferred \in Seq(Dest)
      /\ d \in Dest /\ Len(acc.plan) \in Nat
  BY DEF Sound, Acc, ListShape
<1>2. CASE Placeable(q.origin, q.listed, acc.plan, d)
  <2>1. /\ new \in Acc /\ new.deferred = acc.deferred
        /\ new.plan = Append(acc.plan, entry) /\ entry \in Entry
    BY <1>1, <1>2, PlaceShape
  <2> HIDE DEF new
  <2>2. WellPlaced(q, new.plan) /\ Unlooped(q, new.plan)
    BY <1>1, <1>2, <2>1, EntryFits
  <2> QED
    BY <1>1, <2>1, <2>2 DEF Sound, new
<1>3. CASE ~Placeable(q.origin, q.listed, acc.plan, d)
  <2>1. /\ new \in Acc /\ new.plan = acc.plan
        /\ new.deferred = Append(acc.deferred, d)
    BY <1>1, <1>3, PlaceShape
  <2> HIDE DEF new
  <2>2. Range(new.deferred) = Range(acc.deferred) \cup {d}
    BY <1>1, <2>1, Appended
  <2> QED
    BY <1>1, <2>1, <2>2 DEF Sound, new
<1> QED
  BY <1>2, <1>3

\* The equation of a pass.
LEMMA PassSteps ==
    ASSUME NEW q, ListShape(q), NEW acc \in Sound(q)
    PROVE  \E seen \in [0..Len(acc.deferred) -> Sound(q)] :
             /\ seen[0] = [plan |-> acc.plan, deferred |-> <<>>]
             /\ \A k \in 1..Len(acc.deferred) :
                  seen[k] = Place(q.origin, q.listed, seen[k - 1], acc.deferred[k])
             /\ Pass(q.origin, q.listed, acc) = seen[Len(acc.deferred)]
<1> DEFINE n == Len(acc.deferred)
           a == [plan |-> acc.plan, deferred |-> <<>>]
           S == Sound(q)
           E(u) == [k \in 0..n |->
                      IF k = 0 THEN a
                      ELSE Place(q.origin, q.listed, u[k - 1], acc.deferred[k])]
           step == [k \in 1..n |->
                      [s \in S |-> Place(q.origin, q.listed, s, acc.deferred[k])]]
<1>1. n \in Nat /\ a \in S /\ acc.deferred \in Seq(Dest)
  <2>1. acc.plan \in Seq(Entry) /\ acc.deferred \in Seq(Dest)
    BY DEF Sound, Acc
  <2>2. a \in Acc /\ Range(<<>>) = {}
    BY <2>1 DEF Acc, Range
  <2>3. a \in S
    BY <2>2 DEF Sound
  <2> QED
    BY <2>1, <2>3
<1>2. \A k \in 1..n : acc.deferred[k] \in Range(q.listed)
  <2>1. DOMAIN acc.deferred = 1..n /\ Range(acc.deferred) \subseteq Range(q.listed)
    BY <1>1 DEF Sound
  <2> QED
    BY <2>1 DEF Range
<1>3. step \in [1..n -> [S -> S]]
  <2>1. \A k \in 1..n : \A s \in S : Place(q.origin, q.listed, s, acc.deferred[k]) \in S
    BY <1>2, PlaceSound
  <2> HIDE DEF S
  <2> QED
    BY <2>1
<1>4. PICK f : Unrolls(f, n, S, a, step)
  <2> HIDE DEF step, a, n, S
  <2> QED
    BY <1>1, <1>3, Recursion
<1>5. /\ f \in [0..n -> S] /\ f[0] = a
      /\ \A k \in 1..n : f[k] = Place(q.origin, q.listed, f[k - 1], acc.deferred[k])
  <2>1. f \in [0..n -> S] /\ f[0] = a
    BY <1>4 DEF Unrolls
  <2>2. ASSUME NEW k \in 1..n
        PROVE  f[k] = Place(q.origin, q.listed, f[k - 1], acc.deferred[k])
    <3>1. f[k] = step[k][f[k - 1]] /\ f[k - 1] \in S
      <4> HIDE DEF step, n, a, S
      <4> QED
        BY <1>1, <1>4, <2>1 DEF Unrolls
    <3>2. \A s \in S : step[k][s] = Place(q.origin, q.listed, s, acc.deferred[k])
      OBVIOUS
    <3> QED
      BY <3>1, <3>2
  <2> QED
    BY <2>1, <2>2
<1> HIDE DEF a, n, S
<1>6. f = E(f)
  <2>1. \A k \in 0..n :
           f[k] = IF k = 0 THEN a
                  ELSE Place(q.origin, q.listed, f[k - 1], acc.deferred[k])
    BY <1>1, <1>5
  <2> QED
    BY <1>5, <2>1
<1> DEFINE seen == CHOOSE u : u = E(u)
<1>7. seen = E(seen)
  <2> HIDE DEF E
  <2> QED
    BY <1>6
<1>8. Pass(q.origin, q.listed, acc) = seen[n]
  BY DEF Pass, n, a
<1> HIDE DEF seen
<1>9. /\ seen[0] = a /\ DOMAIN seen = 0..n
      /\ \A k \in 1..n : seen[k] = Place(q.origin, q.listed, seen[k - 1], acc.deferred[k])
  BY <1>1, <1>7
<1>10. seen \in [0..n -> S]
  <2> DEFINE T == {k \in 0..n : seen[k] \in S}
  <2>1. 0 \in T
    BY <1>1, <1>9
  <2>2. ASSUME NEW k \in 1..n, k - 1 \in T PROVE k \in T
    <3>1. seen[k - 1] \in S /\ acc.deferred[k] \in Range(q.listed)
      BY <1>2, <2>2
    <3>2. seen[k] = Place(q.origin, q.listed, seen[k - 1], acc.deferred[k])
      BY <1>9
    <3>3. Place(q.origin, q.listed, seen[k - 1], acc.deferred[k]) \in S
      BY <3>1, PlaceSound DEF S
    <3> QED
      BY <1>1, <3>2, <3>3
  <2> HIDE DEF T
  <2>3. 0..n \subseteq T
    BY <1>1, <2>1, <2>2, Induction
  <2>4. \A k \in 0..n : seen[k] \in S
    BY <2>3 DEF T
  <2>5. seen = [k \in 0..n |-> seen[k]]
    BY <1>7
  <2> QED
    BY <2>4, <2>5
<1> QED
  BY <1>8, <1>9, <1>10 DEF n, a, S

\* What a pass makes of what the one before it has left.
LEMMA PassResult ==
    ASSUME NEW q, ListShape(q), NEW acc \in Sound(q)
    PROVE  LET new == Pass(q.origin, q.listed, acc)
           IN  /\ new \in Sound(q)
               /\ Len(new.plan) + Len(new.deferred) = Len(acc.plan) + Len(acc.deferred)
               /\ Dests(new.plan) \cup Range(new.deferred)
                    = Dests(acc.plan) \cup Range(acc.deferred)
               /\ StartsWith(new.plan, acc.plan)
               /\ Stuck(q, acc) => Stuck(q, new)
               /\ Stuck(q, acc) \/ Len(new.deferred) < Len(acc.deferred)
<1> DEFINE r == acc.deferred
           n == Len(r)
           met(j) == {r[i] : i \in 1..j}
           fits(d) == Placeable(q.origin, q.listed, acc.plan, d)
<1>1. /\ n \in Nat /\ DOMAIN r = 1..n /\ r \in Seq(Dest) /\ acc.plan \in Seq(Entry)
      /\ Len(acc.plan) \in Nat /\ DOMAIN acc.plan = 1..Len(acc.plan)
  <2>1. acc.plan \in Seq(Entry) /\ r \in Seq(Dest)
    BY DEF Sound, Acc
  <2> QED
    BY <2>1
<1>2. /\ \A i \in 1..n : r[i] \in Range(q.listed) /\ r[i] \in Dest
      /\ met(n) = Range(r)
  <2>1. \A i \in 1..n : r[i] \in Range(r) /\ r[i] \in Dest
    BY <1>1 DEF Range
  <2>2. \A d \in Range(r) : \E i \in 1..n : d = r[i]
    BY <1>1 DEF Range
  <2> HIDE DEF r, n
  <2>3. met(n) = Range(r)
    BY <2>1, <2>2
  <2>4. Range(acc.deferred) \subseteq Range(q.listed)
    BY DEF Sound
  <2> QED
    BY <2>1, <2>3, <2>4 DEF r
<1>3. PICK seen \in [0..n -> Sound(q)] :
         /\ seen[0] = [plan |-> acc.plan, deferred |-> <<>>]
         /\ \A k \in 1..n : seen[k] = Place(q.origin, q.listed, seen[k - 1], r[k])
         /\ Pass(q.origin, q.listed, acc) = seen[n]
  BY PassSteps
<1> DEFINE Mid(j) ==
             /\ Len(seen[j].plan) + Len(seen[j].deferred) = Len(acc.plan) + j
             /\ Len(seen[j].deferred) <= j
             /\ Range(seen[j].deferred) \subseteq met(j)
             /\ Dests(seen[j].plan) \cup Range(seen[j].deferred) = Dests(acc.plan) \cup met(j)
             /\ StartsWith(seen[j].plan, acc.plan)
             /\ Len(seen[j].deferred) = j <=> \A i \in 1..j : ~fits(r[i])
           T == {j \in 0..n : Mid(j)}
<1>4. Mid(0)
  <2>1. seen[0].plan = acc.plan /\ seen[0].deferred = <<>>
    BY <1>3
  <2>2. Len(<<>>) = 0 /\ Range(<<>>) = {} /\ met(0) = {} /\ 1..0 = {}
    BY DEF Range
  <2>3. StartsWith(acc.plan, acc.plan)
    BY <1>1 DEF StartsWith
  <2> HIDE DEF met, fits, r
  <2> QED
    BY <1>1, <2>1, <2>2, <2>3
<1>5. ASSUME NEW j \in 1..n, Mid(j - 1) PROVE Mid(j)
  <2> DEFINE old == seen[j - 1]
             new == seen[j]
             d == r[j]
             entry == EntryFor(q.origin, old.plan, d)
  <2>1. /\ j - 1 \in 0..n /\ j \in 0..n /\ old \in Sound(q) /\ new \in Sound(q)
        /\ d \in Range(q.listed) /\ d \in Dest
    <3>1. j - 1 \in 0..n /\ j \in 0..n
      BY <1>1
    <3> HIDE DEF n
    <3> QED
      BY <1>2, <3>1
  <2>2. /\ old.plan \in Seq(Entry) /\ old.deferred \in Seq(Dest)
        /\ new.plan \in Seq(Entry) /\ new.deferred \in Seq(Dest)
        /\ Len(old.plan) \in Nat /\ Len(old.deferred) \in Nat
        /\ DOMAIN old.plan = 1..Len(old.plan)
        /\ old \in Acc
    BY <2>1 DEF Sound, Acc
  <2>3. new = Place(q.origin, q.listed, old, d)
    BY <1>3
  <2>4. met(j) = met(j - 1) \cup {d} /\ \A i \in 1..j : i \in 1..(j - 1) \/ i = j
    <3>1. \A i : i \in 1..j <=> i \in 1..(j - 1) \/ i = j
      BY <1>1
    <3> QED
      BY <3>1
  <2>5. /\ StartsWith(old.plan, acc.plan)
        /\ \A k \in PlacedAt(acc.plan, q.origin[d]) : k \in PlacedAt(old.plan, q.origin[d])
    BY <1>1, <1>5, <2>2 DEF StartsWith, PlacedAt
  <2>6. fits(d) => Placeable(q.origin, q.listed, old.plan, d)
    BY <2>5 DEF Placeable
  <2>7. ASSUME Len(old.deferred) = j - 1
        PROVE  old.plan = acc.plan
    <3>1. Len(old.plan) = Len(acc.plan)
      BY <1>1, <1>5, <2>2, <2>7
    <3>2. \A k \in 1..Len(acc.plan) : old.plan[k] = acc.plan[k]
      BY <1>1, <2>5 DEF StartsWith
    <3> HIDE DEF old
    <3> QED
      BY <1>1, <2>2, <3>1, <3>2, SameSequence
  <2> HIDE DEF old, new, d, r, n, fits, met
  <2>8. CASE Placeable(q.origin, q.listed, old.plan, d)
    <3>1. new.deferred = old.deferred /\ new.plan = Append(old.plan, entry)
      BY <2>1, <2>2, <2>3, <2>8, PlaceShape
    <3>2. entry \in Entry
      BY <2>1, <2>2, PlaceShape
    <3>4. /\ Len(new.plan) = Len(old.plan) + 1
          /\ DOMAIN new.plan = 1..(Len(old.plan) + 1)
          /\ \A k \in DOMAIN old.plan : new.plan[k] = old.plan[k]
          /\ new.plan[Len(old.plan) + 1] = entry
      BY <2>2, <3>1, <3>2, Appended
    <3>5. entry.dest = d
      BY DEF EntryFor
    <3>6. Dests(new.plan) = Dests(old.plan) \cup {d}
      <4>1. \A k : k \in DOMAIN new.plan <=> k \in DOMAIN old.plan \/ k = Len(old.plan) + 1
        BY <2>2, <3>4
      <4> QED
        BY <3>4, <3>5, <4>1 DEF Dests
    <3>7. StartsWith(new.plan, acc.plan)
      BY <1>1, <2>2, <2>5, <3>4 DEF StartsWith
    <3>8. Len(new.deferred) # j /\ ~\A i \in 1..j : ~fits(r[i])
      <4>1. Len(new.deferred) <= j - 1 /\ j \in 1..j /\ j \in Int
        BY <1>5, <3>1 DEF old
      <4>2. CASE Len(old.deferred) = j - 1
        BY <2>7, <2>8, <4>1, <4>2, <3>1, <2>2 DEF fits, d
      <4>3. CASE Len(old.deferred) # j - 1
        <5>1. PICK i \in 1..(j - 1) : fits(r[i])
          BY <1>5, <4>3 DEF old
        <5>2. i \in 1..j
          OBVIOUS
        <5> QED
          BY <2>2, <3>1, <4>1, <5>1, <5>2
      <4> QED
        BY <4>2, <4>3
    <3>9. Len(new.plan) + Len(new.deferred) = Len(acc.plan) + j
      <4> DEFINE a == Len(old.plan)
                 b == Len(old.deferred)
                 c == Len(new.plan)
                 f == Len(new.deferred)
                 e == Len(acc.plan)
      <4>1. a + b = e + (j - 1)
        BY <1>5 DEF old
      <4>2. a \in Int /\ b \in Int /\ e \in Int /\ j \in Int /\ c = a + 1 /\ f = b
        BY <1>1, <2>2, <3>1, <3>4
      <4> HIDE DEF a, b, c, e, f
      <4>3. c + f = e + j
        BY <4>1, <4>2
      <4> QED
        BY <4>3 DEF c, e, f
    <3>10. Len(new.deferred) <= j /\ Range(new.deferred) \subseteq met(j)
      BY <1>5, <2>2, <2>4, <3>1 DEF old
    <3>11. Dests(new.plan) \cup Range(new.deferred) = Dests(acc.plan) \cup met(j)
      BY <1>5, <2>4, <3>1, <3>6 DEF old
    <3> QED
      BY <3>7, <3>8, <3>9, <3>10, <3>11 DEF new
  <2>9. CASE ~Placeable(q.origin, q.listed, old.plan, d)
    <3>1. new.plan = old.plan /\ new.deferred = Append(old.deferred, d)
      BY <2>1, <2>2, <2>3, <2>9, PlaceShape
    <3>2. /\ Len(new.deferred) = Len(old.deferred) + 1
          /\ Range(new.deferred) = Range(old.deferred) \cup {d}
      BY <2>1, <2>2, <3>1, Appended
    <3>3. Len(new.plan) + Len(new.deferred) = Len(acc.plan) + j
      <4> DEFINE a == Len(old.plan)
                 b == Len(old.deferred)
                 c == Len(new.plan)
                 f == Len(new.deferred)
                 e == Len(acc.plan)
      <4>1. a + b = e + (j - 1)
        BY <1>5 DEF old
      <4>2. a \in Int /\ b \in Int /\ e \in Int /\ j \in Int /\ c = a /\ f = b + 1
        BY <1>1, <2>2, <3>1, <3>2
      <4> HIDE DEF a, b, c, e, f
      <4>3. c + f = e + j
        BY <4>1, <4>2
      <4> QED
        BY <4>3 DEF c, e, f
    <3>4. Len(new.deferred) <= j /\ Range(new.deferred) \subseteq met(j)
      BY <1>5, <2>2, <2>4, <3>2 DEF old
    <3>5. Dests(new.plan) \cup Range(new.deferred) = Dests(acc.plan) \cup met(j)
      BY <1>5, <2>4, <3>1, <3>2 DEF old
    <3>6. Len(new.deferred) = j <=> \A i \in 1..j : ~fits(r[i])
      <4>1. Len(new.deferred) = j <=> Len(old.deferred) = j - 1
        BY <2>2, <3>2
      <4>2. ~fits(r[j])
        BY <2>6, <2>9 DEF d
      <4>3. \A i \in 1..(j - 1) : i \in 1..j
        OBVIOUS
      <4> QED
        BY <1>5, <2>4, <4>1, <4>2, <4>3 DEF old
    <3>7. StartsWith(new.plan, acc.plan)
      BY <1>5, <3>1 DEF old
    <3> QED
      BY <3>3, <3>4, <3>5, <3>6, <3>7 DEF new
  <2> QED
    BY <2>8, <2>9
<1>6. Mid(n)
  <2> HIDE DEF Mid
  <2>1. 0 \in T /\ \A j \in 1..n : j - 1 \in T => j \in T
    BY <1>1, <1>4, <1>5
  <2> HIDE DEF T
  <2>2. 0..n \subseteq T
    BY <1>1, <2>1, Induction
  <2> QED
    BY <1>1, <2>2 DEF T
<1> DEFINE new == Pass(q.origin, q.listed, acc)
<1>7. new = seen[n] /\ new \in Sound(q) /\ new \in Acc
  BY <1>1, <1>3 DEF Sound
<1>8. Stuck(q, acc) <=> Len(new.deferred) = n
  <2>1. Stuck(q, acc) <=> \A i \in 1..n : ~fits(r[i])
    BY <1>1 DEF Stuck, Range
  <2> QED
    BY <1>6, <1>7, <2>1
<1>9. ASSUME Stuck(q, acc) PROVE Stuck(q, new)
  <2>1. Len(new.plan) = Len(acc.plan)
    <3>1. Len(new.plan) \in Nat
      BY <1>7 DEF Acc
    <3>2. Len(new.plan) + n = Len(acc.plan) + n
      BY <1>6, <1>7, <1>8, <1>9
    <3> HIDE DEF new, n
    <3> QED
      BY <1>1, <3>1, <3>2
  <2>2. new.plan = acc.plan
    <3>1. new.plan \in Seq(Entry) /\ StartsWith(new.plan, acc.plan)
      BY <1>6, <1>7 DEF Acc
    <3>2. \A k \in 1..Len(acc.plan) : new.plan[k] = acc.plan[k]
      BY <1>1, <3>1 DEF StartsWith
    <3> HIDE DEF new
    <3> QED
      BY <1>1, <2>1, <3>1, <3>2, SameSequence
  <2>3. Range(new.deferred) \subseteq Range(r)
    BY <1>2, <1>6, <1>7
  <2> QED
    BY <1>9, <2>2, <2>3 DEF Stuck
<1>10. Stuck(q, acc) \/ Len(new.deferred) < n
  <2>1. Len(new.deferred) \in Nat
    BY <1>7 DEF Acc
  <2> QED
    BY <1>1, <1>6, <1>7, <1>8, <2>1
<1> HIDE DEF fits
<1> QED
  BY <1>2, <1>6, <1>7, <1>9, <1>10

LEMMA FirstSound ==
    ASSUME NEW q, ListShape(q)
    PROVE  [plan |-> <<>>, deferred |-> q.listed] \in Sound(q)
<1>1. <<>> \in Seq(Entry) /\ q.listed \in Seq(Dest)
  BY DEF ListShape
<1>2. WellPlaced(q, <<>>) /\ Unlooped(q, <<>>)
  BY DEF WellPlaced, Unlooped
<1> QED
  BY <1>1, <1>2 DEF Sound, Acc

\* The equation of the passes: what one has deferred, the next one takes up.
LEMMA PlanSteps ==
    ASSUME NEW q, ListShape(q)
    PROVE  LET passes == PlanPasses(q.origin, q.listed)
           IN  /\ passes \in [0..Len(q.listed) -> Sound(q)]
               /\ passes[0] = [plan |-> <<>>, deferred |-> q.listed]
               /\ \A k \in 1..Len(q.listed) :
                    passes[k] = Pass(q.origin, q.listed, passes[k - 1])
<1> DEFINE n == Len(q.listed)
           a == [plan |-> <<>>, deferred |-> q.listed]
           S == Sound(q)
           E(u) == [k \in 0..n |->
                      IF k = 0 THEN a ELSE Pass(q.origin, q.listed, u[k - 1])]
           step == [k \in 1..n |-> [s \in S |-> Pass(q.origin, q.listed, s)]]
           passes == PlanPasses(q.origin, q.listed)
<1>1. n \in Nat /\ a \in S
  BY FirstSound DEF ListShape
<1>2. step \in [1..n -> [S -> S]]
  <2>1. \A s \in S : Pass(q.origin, q.listed, s) \in S
    BY PassResult
  <2> HIDE DEF S
  <2> QED
    BY <2>1
<1>3. PICK f : Unrolls(f, n, S, a, step)
  <2> HIDE DEF step, a, n, S
  <2> QED
    BY <1>1, <1>2, Recursion
<1>4. /\ f \in [0..n -> S] /\ f[0] = a
      /\ \A k \in 1..n : f[k] = Pass(q.origin, q.listed, f[k - 1])
  <2>1. f \in [0..n -> S] /\ f[0] = a
    BY <1>3 DEF Unrolls
  <2>2. ASSUME NEW k \in 1..n
        PROVE  f[k] = Pass(q.origin, q.listed, f[k - 1])
    <3>1. f[k] = step[k][f[k - 1]] /\ f[k - 1] \in S
      <4> HIDE DEF step, n, a, S
      <4> QED
        BY <1>1, <1>3, <2>1 DEF Unrolls
    <3>2. \A s \in S : step[k][s] = Pass(q.origin, q.listed, s)
      OBVIOUS
    <3> QED
      BY <3>1, <3>2
  <2> QED
    BY <2>1, <2>2
<1> HIDE DEF a, n, S
<1>5. f = E(f)
  <2>1. \A k \in 0..n : f[k] = IF k = 0 THEN a ELSE Pass(q.origin, q.listed, f[k - 1])
    BY <1>1, <1>4
  <2> QED
    BY <1>4, <2>1
<1>6. passes = CHOOSE u : u = E(u)
  BY DEF PlanPasses, n, a
<1>7. passes = E(passes)
  <2> HIDE DEF E, passes
  <2> QED
    BY <1>5, <1>6
<1> HIDE DEF passes
<1>8. /\ passes[0] = a /\ DOMAIN passes = 0..n
      /\ \A k \in 1..n : passes[k] = Pass(q.origin, q.listed, passes[k - 1])
  BY <1>1, <1>7
<1>9. passes \in [0..n -> S]
  <2> DEFINE T == {k \in 0..n : passes[k] \in S}
  <2>1. 0 \in T
    BY <1>1, <1>8
  <2>2. ASSUME NEW k \in 1..n, k - 1 \in T PROVE k \in T
    <3>1. passes[k - 1] \in S /\ passes[k] = Pass(q.origin, q.listed, passes[k - 1])
      BY <1>8, <2>2
    <3>2. Pass(q.origin, q.listed, passes[k - 1]) \in S
      BY <3>1, PassResult DEF S
    <3> QED
      BY <1>1, <3>1, <3>2
  <2> HIDE DEF T
  <2>3. 0..n \subseteq T
    BY <1>1, <2>1, <2>2, Induction
  <2>4. \A k \in 0..n : passes[k] \in S
    BY <2>3 DEF T
  <2>5. passes = [k \in 0..n |-> passes[k]]
    BY <1>7
  <2> QED
    BY <2>4, <2>5
<1> QED
  BY <1>8, <1>9 DEF n, a, S, passes

\* What stays behind when a pass places nothing is in or behind a loop.
LEMMA LeftLoops ==
    ASSUME NEW q, ListShape(q), NEW acc \in Sound(q), Stuck(q, acc),
           Dests(acc.plan) \cup Range(acc.deferred) = Range(q.listed)
    PROVE  \A d \in Range(acc.deferred) : Looped(q, d)
<1> DEFINE C == Range(acc.deferred)
<1>1. ASSUME NEW c \in C PROVE q.origin[c] \in C \ {c}
  <2>1. /\ q.origin[c] # c /\ q.origin[c] \in Range(q.listed)
        /\ q.origin[c] \notin Dests(acc.plan)
    BY <1>1 DEF Stuck, Placeable, PlacedAt, Dests
  <2> QED
    BY <2>1
<1>2. C \in SUBSET Range(q.listed)
  BY DEF Sound
<1> HIDE DEF C
<1>3. \A d \in C : Looped(q, d)
  BY <1>1, <1>2 DEF Looped
<1> QED
  BY <1>3 DEF C

\* After Len(q.listed) passes nothing is left, or nothing more can be placed.
LEMMA LastPass ==
    ASSUME NEW q, ListShape(q), NEW k \in 0..Len(q.listed)
    PROVE  LET acc == PlanPasses(q.origin, q.listed)[k]
           IN  /\ Len(acc.plan) + Len(acc.deferred) = Len(q.listed)
               /\ Dests(acc.plan) \cup Range(acc.deferred) = Range(q.listed)
               /\ Stuck(q, acc) \/ Len(acc.deferred) + k <= Len(q.listed)
               /\ k > 0 => StartsWith(acc.plan, PlanPasses(q.origin, q.listed)[1].plan)
<1> DEFINE n == Len(q.listed)
           passes == PlanPasses(q.origin, q.listed)
           Upto(i) ==
             /\ Len(passes[i].plan) + Len(passes[i].deferred) = n
             /\ Dests(passes[i].plan) \cup Range(passes[i].deferred) = Range(q.listed)
             /\ Stuck(q, passes[i]) \/ Len(passes[i].deferred) + i <= n
             /\ i > 0 => StartsWith(passes[i].plan, passes[1].plan)
           T == {i \in 0..n : Upto(i)}
<1>1. /\ n \in Nat
      /\ passes \in [0..n -> Sound(q)]
      /\ passes[0] = [plan |-> <<>>, deferred |-> q.listed]
      /\ \A i \in 1..n : passes[i] = Pass(q.origin, q.listed, passes[i - 1])
  <2>1. n \in Nat
    BY DEF ListShape
  <2> QED
    BY <2>1, PlanSteps
<1> HIDE DEF passes
<1>2. Upto(0)
  <2>1. passes[0].plan = <<>> /\ passes[0].deferred = q.listed /\ Dests(<<>>) = {}
    BY <1>1 DEF Dests
  <2>2. Len(<<>>) = 0
    OBVIOUS
  <2> QED
    BY <1>1, <2>1, <2>2
<1>3. ASSUME NEW i \in 1..n, Upto(i - 1) PROVE Upto(i)
  <2> DEFINE old == passes[i - 1]
             new == passes[i]
             a == Len(old.plan)
             b == Len(old.deferred)
             c == Len(new.plan)
             f == Len(new.deferred)
  <2>1. old \in Sound(q) /\ new \in Sound(q) /\ new = Pass(q.origin, q.listed, old)
    <3>1. i - 1 \in 0..n /\ i \in 0..n
      BY <1>1
    <3> HIDE DEF n
    <3> QED
      BY <1>1, <3>1
  <2> HIDE DEF old, new
  <2>2. /\ old \in Acc /\ Range(old.deferred) \subseteq Range(q.listed)
        /\ WellPlaced(q, old.plan) /\ Unlooped(q, old.plan) /\ new \in Acc
    BY <2>1 DEF Sound
  <2>3. /\ a \in Nat /\ b \in Nat /\ c \in Nat /\ f \in Nat
        /\ new.plan \in Seq(Entry) /\ old.plan \in Seq(Entry)
    BY <2>2 DEF Acc
  <2>4. /\ c + f = a + b
        /\ Dests(new.plan) \cup Range(new.deferred) = Dests(old.plan) \cup Range(old.deferred)
        /\ StartsWith(new.plan, old.plan)
        /\ Stuck(q, old) => Stuck(q, new)
        /\ Stuck(q, old) \/ f < b
    BY <2>1, PassResult
  <2>5. /\ a + b = n
        /\ Stuck(q, old) \/ b + (i - 1) <= n
        /\ Dests(old.plan) \cup Range(old.deferred) = Range(q.listed)
    BY <1>3 DEF old
  <2>6. Stuck(q, new) \/ f + i <= n
    <3> HIDE DEF a, b, c, f
    <3> QED
      BY <1>1, <2>3, <2>4, <2>5
  <2>7. StartsWith(new.plan, passes[1].plan)
    <3>1. CASE i = 1
      <4>1. DOMAIN new.plan = 1..c
        BY <2>3
      <4> HIDE DEF c
      <4> QED
        BY <2>3, <3>1, <4>1 DEF StartsWith, new, c
    <3>2. CASE i # 1
      <4>1. StartsWith(old.plan, passes[1].plan)
        BY <1>3, <3>2 DEF old
      <4>2. passes[1].plan \in Seq(Entry)
        <5>1. passes[1] \in Acc
          BY <1>1 DEF Sound
        <5> QED
          BY <5>1 DEF Acc
      <4>3. /\ DOMAIN passes[1].plan = 1..Len(passes[1].plan)
            /\ DOMAIN old.plan = 1..Len(old.plan)
            /\ Len(passes[1].plan) \in Nat /\ Len(old.plan) \in Nat /\ Len(new.plan) \in Nat
        BY <2>3, <4>2
      <4> QED
        BY <2>4, <4>1, <4>3 DEF StartsWith
    <3> QED
      BY <3>1, <3>2
  <2>8. c + f = n
    <3> HIDE DEF a, b, c, f, n
    <3> QED
      BY <2>4, <2>5
  <2> QED
    BY <2>4, <2>5, <2>6, <2>7, <2>8 DEF new
<1>4. 0..n \subseteq T
  <2> HIDE DEF Upto
  <2>1. 0 \in T /\ \A i \in 1..n : i - 1 \in T => i \in T
    BY <1>1, <1>2, <1>3
  <2> HIDE DEF T
  <2> QED
    BY <1>1, <2>1, Induction
<1> QED
  BY <1>4 DEF passes


----------------------------------------------------------------------------
(* The whole plan.                                                         *)
LEMMA Joined ==
    ASSUME NEW S, NEW s \in Seq(S), NEW t \in Seq(S)
    PROVE  /\ s \o t \in Seq(S) /\ Len(s \o t) = Len(s) + Len(t)
           /\ DOMAIN (s \o t) = 1..(Len(s) + Len(t))
           /\ \A k \in 1..Len(s) : (s \o t)[k] = s[k]
           /\ \A i \in 1..Len(t) : (s \o t)[Len(s) + i] = t[i]
<1>1. /\ s \o t \in Seq(S) /\ Len(s \o t) = Len(s) + Len(t)
      /\ Len(s) \in Nat /\ Len(t) \in Nat
  OBVIOUS
<1>2. /\ DOMAIN (s \o t) = 1..(Len(s) + Len(t))
      /\ \A k \in 1..Len(s) : (s \o t)[k] = s[k]
  BY <1>1
<1>3. ASSUME NEW i \in 1..Len(t) PROVE (s \o t)[Len(s) + i] = t[i]
  <2>1. Len(s) + i \in 1..(Len(s) + Len(t)) /\ Len(s) + i > Len(s) /\ Len(s) + i - Len(s) = i
    BY <1>1
  <2> QED
    BY <1>1, <2>1
<1> QED
  BY <1>1, <1>2, <1>3

LEMMA PlanIsRight ==
    ASSUME NEW q, ListShape(q)
    PROVE  LET p == PlanDestinations(q.origin, q.listed)
           IN  /\ p \in Seq(Entry) /\ Len(p) = Len(q.listed)
               /\ Dests(p) = Range(q.listed)
               /\ WellPlaced(q, p)
               /\ Len(q.listed) > 0 =>
                    StartsWith(p, PlanPasses(q.origin, q.listed)[1].plan)
<1> DEFINE n == Len(q.listed)
           last == PlanPasses(q.origin, q.listed)[n]
           left == last.deferred
           looped == [i \in DOMAIN left |->
                        [dest |-> left[i], dependsOn |-> 0, blocked |-> TRUE]]
           m == Len(last.plan)
           l == Len(left)
           p == PlanDestinations(q.origin, q.listed)
           first == PlanPasses(q.origin, q.listed)[1].plan
<1>1. n \in Nat /\ n \in 0..n
  BY DEF ListShape
<1>2. /\ last \in Sound(q)
      /\ Len(q.listed) > 0 => first \in Seq(Entry)
  <2>1. PlanPasses(q.origin, q.listed) \in [0..n -> Sound(q)]
    BY PlanSteps
  <2>2. n > 0 => 1 \in 0..n
    BY <1>1
  <2> QED
    BY <1>1, <2>1, <2>2 DEF Sound, Acc
<1>3. /\ last.plan \in Seq(Entry) /\ left \in Seq(Dest) /\ DOMAIN left = 1..l
      /\ m \in Nat /\ l \in Nat /\ DOMAIN last.plan = 1..m
      /\ WellPlaced(q, last.plan) /\ Range(left) \subseteq Range(q.listed)
  <2>1. last.plan \in Seq(Entry) /\ left \in Seq(Dest)
    BY <1>2 DEF Sound, Acc
  <2> HIDE DEF last
  <2> QED
    BY <1>2, <2>1 DEF Sound
<1>4. /\ m + l = n
      /\ Dests(last.plan) \cup Range(left) = Range(q.listed)
      /\ n > 0 => StartsWith(last.plan, first)
      /\ Stuck(q, last) \/ l + n <= n
  BY <1>1, LastPass
<1>5. \A d \in Range(left) : Looped(q, d)
  <2>1. CASE Stuck(q, last)
    BY <1>2, <1>4, <2>1, LeftLoops
  <2>2. CASE l + n <= n
    <3>1. l = 0
      <4> HIDE DEF l, n
      <4> QED
        BY <1>1, <1>3, <2>2
    <3> QED
      BY <1>3, <3>1 DEF Range
  <2> QED
    BY <1>4, <2>1, <2>2
<1>6. p = last.plan \o looped
  BY DEF PlanDestinations
<1> HIDE DEF last, m, l, n
<1>7. looped \in Seq(Entry) /\ Len(looped) = l
  <2>1. \A i \in 1..l : left[i] \in Dest
    BY <1>3
  <2>2. \A i \in 1..l : [dest |-> left[i], dependsOn |-> 0, blocked |-> TRUE] \in Entry
    BY <2>1 DEF Entry
  <2> HIDE DEF left
  <2> QED
    BY <1>3, <2>2
<1>8. /\ p \in Seq(Entry) /\ Len(p) = m + l /\ DOMAIN p = 1..(m + l)
      /\ \A k \in 1..m : p[k] = last.plan[k]
      /\ \A i \in 1..l : p[m + i] = looped[i]
  <2> HIDE DEF looped, p
  <2>1. Len(last.plan) = m
    BY DEF m
  <2>2. LET c == last.plan \o looped
        IN  /\ c \in Seq(Entry) /\ Len(c) = Len(last.plan) + Len(looped)
            /\ DOMAIN c = 1..(Len(last.plan) + Len(looped))
            /\ \A k \in 1..Len(last.plan) : c[k] = last.plan[k]
            /\ \A i \in 1..Len(looped) : c[Len(last.plan) + i] = looped[i]
    <3>1. last.plan \in Seq(Entry) /\ looped \in Seq(Entry)
      BY <1>3, <1>7
    <3> QED
      BY <3>1, Joined
  <2> QED
    BY <1>6, <1>7, <2>1, <2>2
<1>9. \A i \in 1..l : /\ p[m + i].dest = left[i] /\ p[m + i].dependsOn = 0
                      /\ p[m + i].blocked = TRUE
  <2>1. \A i \in 1..l :
           looped[i].dest = left[i] /\ looped[i].dependsOn = 0 /\ looped[i].blocked = TRUE
    BY <1>3
  <2> HIDE DEF p, looped, left
  <2> QED
    BY <1>8, <2>1
<1> HIDE DEF p, looped
<1>10. \A k \in DOMAIN p : k \in 1..m \/ \E i \in 1..l : k = m + i
  <2>1. ASSUME NEW k \in DOMAIN p, k \notin 1..m
        PROVE  k - m \in 1..l /\ k = m + (k - m)
    BY <1>3, <1>8, <2>1
  <2> QED
    BY <2>1
<1>11. \A k \in 1..m : k \in DOMAIN p
  BY <1>3, <1>8
<1>12. \A i \in 1..l : m + i \in DOMAIN p /\ left[i] \in Range(left)
  <2>1. ASSUME NEW i \in 1..l PROVE m + i \in 1..(m + l)
    BY <1>3
  <2> HIDE DEF left
  <2> QED
    BY <1>3, <1>8, <2>1 DEF Range
<1>13. Dests(p) = Range(q.listed)
  <2>1. ASSUME NEW d \in Range(q.listed) PROVE d \in Dests(p)
    <3>1. CASE d \in Dests(last.plan)
      BY <1>3, <1>8, <1>11, <3>1 DEF Dests
    <3>2. CASE d \in Range(left)
      <4>1. PICK i \in 1..l : d = left[i]
        BY <1>3, <3>2 DEF Range
      <4> QED
        BY <1>9, <1>12, <4>1 DEF Dests
    <3> QED
      BY <1>4, <3>1, <3>2
  <2>2. ASSUME NEW k \in DOMAIN p PROVE p[k].dest \in Range(q.listed)
    <3>1. CASE k \in 1..m
      BY <1>3, <1>4, <1>8, <3>1 DEF Dests
    <3>2. CASE \E i \in 1..l : k = m + i
      BY <1>4, <1>9, <1>12, <3>2
    <3> QED
      BY <1>10, <3>1, <3>2
  <2> QED
    BY <2>1, <2>2 DEF Dests
<1>14. WellPlaced(q, p)
  <2> SUFFICES ASSUME NEW k \in DOMAIN p
               PROVE  LET d == p[k].dest IN
                      /\ d \in Range(q.listed)
                      /\ p[k].dependsOn # 0 =>
                           /\ p[k].dependsOn \in 1..(k - 1)
                           /\ p[p[k].dependsOn].dest = q.origin[d]
                      /\ p[k].blocked <=> \/ q.origin[d] \notin Range(q.listed) \cup {NoDest}
                                          \/ q.origin[d] = d
                                          \/ Looped(q, d)
                      /\ q.origin[d] # NoDest /\ ~p[k].blocked => p[k].dependsOn # 0
    BY DEF WellPlaced
  <2>1. CASE k \in 1..m
    <3>1. p[k] = last.plan[k] /\ k \in DOMAIN last.plan
      BY <1>3, <1>8, <2>1
    <3>2. ASSUME last.plan[k].dependsOn \in 1..(k - 1)
          PROVE  p[last.plan[k].dependsOn] = last.plan[last.plan[k].dependsOn]
      BY <1>3, <1>8, <2>1, <3>2
    <3> QED
      BY <1>3, <3>1, <3>2 DEF WellPlaced
  <2>2. CASE k \notin 1..m
    <3>1. PICK i \in 1..l : k = m + i
      BY <1>10, <2>2
    <3>2. left[i] \in Range(q.listed) /\ Looped(q, left[i])
      BY <1>4, <1>5, <1>12
    <3> QED
      BY <1>9, <3>1, <3>2
  <2> QED
    BY <2>1, <2>2
<1>15. ASSUME n > 0 PROVE StartsWith(p, first)
  <2>1. /\ Len(first) <= m /\ DOMAIN first = 1..Len(first) /\ Len(first) \in Nat
        /\ \A k \in 1..Len(first) : last.plan[k] = first[k]
    BY <1>2, <1>4, <1>15 DEF StartsWith, m, n
  <2> HIDE DEF first
  <2> QED
    BY <1>3, <1>8, <2>1 DEF StartsWith
<1> QED
  BY <1>4, <1>8, <1>13, <1>14, <1>15 DEF p, n

\* What a pass places it would place again.
LEMMA StillPlaceable ==
    ASSUME NEW q, ListShape(q), NEW acc \in Sound(q), NEW d \in Dests(acc.plan)
    PROVE  Placeable(q.origin, q.listed, acc.plan, d)
<1>1. PICK k \in DOMAIN acc.plan : acc.plan[k].dest = d
  BY DEF Dests
<1>2. /\ WellPlaced(q, acc.plan) /\ Unlooped(q, acc.plan)
      /\ acc.plan \in Seq(Entry) /\ DOMAIN acc.plan = 1..Len(acc.plan)
      /\ Len(acc.plan) \in Nat
  <2>1. acc.plan \in Seq(Entry) /\ WellPlaced(q, acc.plan) /\ Unlooped(q, acc.plan)
    BY DEF Sound, Acc
  <2> QED
    BY <2>1
<1>3. CASE acc.plan[k].blocked
  BY <1>1, <1>2, <1>3 DEF WellPlaced, Unlooped, Placeable
<1>4. CASE ~acc.plan[k].blocked /\ q.origin[d] # NoDest
  <2>1. /\ acc.plan[k].dependsOn \in 1..(k - 1)
        /\ acc.plan[acc.plan[k].dependsOn].dest = q.origin[d]
    BY <1>1, <1>2, <1>4 DEF WellPlaced
  <2>2. acc.plan[k].dependsOn \in PlacedAt(acc.plan, q.origin[d])
    BY <1>2, <2>1 DEF PlacedAt
  <2> QED
    BY <2>2 DEF Placeable
<1> QED
  BY <1>3, <1>4 DEF Placeable

\* The first pass takes what is listed in a workable order as it is listed.
LEMMA FirstPassKeeps ==
    ASSUME NEW q, ListShape(q)
    PROVE  LET p == Pass(q.origin, q.listed, [plan |-> <<>>, deferred |-> q.listed]).plan
           IN  \A i, h \in DOMAIN q.listed :
                 i < h /\ InOrder(q, i) =>
                   /\ PlacedAt(p, q.listed[i]) # {}
                   /\ PlacedAt(p, q.listed[h]) # {} =>
                        \E a \in PlacedAt(p, q.listed[i]), b \in PlacedAt(p, q.listed[h]) : a < b
<1> DEFINE r == q.listed
           n == Len(r)
           acc == [plan |-> <<>>, deferred |-> r]
           at(p, i) == PlacedAt(p, r[i])
<1>1. n \in Nat /\ DOMAIN r = 1..n /\ r \in Seq(Dest) /\ \A i \in 1..n : r[i] \in Range(r)
  BY DEF ListShape, Range
<1>2. PICK seen \in [0..n -> Sound(q)] :
         /\ \A k \in 1..n : seen[k] = Place(q.origin, q.listed, seen[k - 1], r[k])
         /\ Pass(q.origin, q.listed, acc) = seen[n]
  <2>1. acc \in Sound(q) /\ acc.deferred = r
    BY FirstSound
  <2> HIDE DEF acc, r
  <2> QED
    BY <2>1, PassSteps
<1> DEFINE Kept(p, j) ==
             /\ \A i \in 1..j : InOrder(q, i) => at(p, i) # {}
             /\ \A i, h \in 1..j :
                  i < h /\ InOrder(q, i) /\ at(p, h) # {} =>
                    \E a \in at(p, i), b \in at(p, h) : a < b
           T == {j \in 0..n : Kept(seen[j].plan, j)}
<1>3. 0 \in T
  BY <1>1
<1>4. ASSUME NEW j \in 1..n, Kept(seen[j - 1].plan, j - 1) PROVE Kept(seen[j].plan, j)
  <2> DEFINE old == seen[j - 1]
             new == seen[j]
             d == r[j]
             m == Len(old.plan)
             entry == EntryFor(q.origin, old.plan, d)
  <2>1. old \in Sound(q) /\ new = Place(q.origin, q.listed, old, d) /\ d \in Range(q.listed)
    <3>1. j - 1 \in 0..n
      BY <1>1
    <3> HIDE DEF n
    <3> QED
      BY <1>1, <1>2, <3>1
  <2> HIDE DEF old, new
  <2>2. /\ old \in Acc /\ old.plan \in Seq(Entry) /\ m \in Nat /\ DOMAIN old.plan = 1..m
    BY <2>1 DEF Sound, Acc
  <2>3. \A i : i \in 1..j <=> i \in 1..(j - 1) \/ i = j
    BY <1>1
  <2>4. CASE Placeable(q.origin, q.listed, old.plan, d)
    <3>1. new.plan = Append(old.plan, entry) /\ entry \in Entry /\ entry.dest = d
      BY <2>1, <2>2, <2>4, PlaceShape DEF EntryFor
    <3> HIDE DEF entry
    <3>2. /\ DOMAIN new.plan = 1..(m + 1) /\ new.plan[m + 1].dest = d
          /\ \A k \in 1..m : new.plan[k] = old.plan[k]
      BY <2>2, <3>1, Appended
    <3>3. \A x : \A k \in PlacedAt(old.plan, x) :
             k \in PlacedAt(new.plan, x) /\ k \in 1..m /\ k < m + 1
      BY <2>2, <3>2 DEF PlacedAt
    <3>4. m + 1 \in PlacedAt(new.plan, d)
      BY <2>2, <3>2 DEF PlacedAt
    <3>5. \A x : x # d => PlacedAt(new.plan, x) \subseteq PlacedAt(old.plan, x)
      <4> SUFFICES ASSUME NEW x, x # d, NEW k \in PlacedAt(new.plan, x)
                   PROVE  k \in PlacedAt(old.plan, x)
        OBVIOUS
      <4>1. k \in 1..(m + 1) /\ new.plan[k].dest = x
        BY <3>2 DEF PlacedAt
      <4>2. k # m + 1
        BY <3>2, <4>1
      <4>3. k \in 1..m
        BY <2>2, <4>1, <4>2
      <4> QED
        BY <2>2, <3>2, <4>1, <4>3 DEF PlacedAt
    <3> HIDE DEF d, m
    <3>6. ASSUME NEW i \in 1..j, InOrder(q, i) PROVE at(new.plan, i) # {}
      BY <1>4, <2>3, <3>3, <3>4, <3>6 DEF old, d
    <3>7. ASSUME NEW i \in 1..j, NEW h \in 1..j, i < h, InOrder(q, i), at(new.plan, h) # {}
          PROVE  \E a \in at(new.plan, i), b \in at(new.plan, h) : a < b
      <4>1. i \in 1..(j - 1)
        BY <2>3, <3>7
      <4>2. CASE at(old.plan, h) # {} /\ h \in 1..(j - 1)
        <5>1. PICK a \in at(old.plan, i), b \in at(old.plan, h) : a < b
          BY <1>4, <3>7, <4>1, <4>2 DEF old
        <5> QED
          BY <3>3, <5>1
      <4>3. CASE at(old.plan, h) = {} \/ h = j
        <5>1. r[h] = d
          BY <3>5, <3>7, <4>3 DEF d
        <5>2. PICK a \in at(old.plan, i) : TRUE
          BY <1>4, <3>7, <4>1 DEF old
        <5> QED
          BY <3>3, <3>4, <5>1, <5>2
      <4> QED
        BY <2>3, <4>2, <4>3
    <3> QED
      BY <3>6, <3>7 DEF new
  <2>5. CASE ~Placeable(q.origin, q.listed, old.plan, d)
    <3>1. new.plan = old.plan
      BY <2>1, <2>2, <2>5, PlaceShape
    <3>2. at(old.plan, j) = {}
      BY <2>1, <2>5, StillPlaceable DEF Dests, PlacedAt
    <3>3. ~InOrder(q, j)
      <4> SUFFICES ASSUME NEW P \in SUBSET DOMAIN r, j \in P,
                          \A i \in P : LET c == r[i] IN
                            \/ q.origin[c] \in {NoDest, c}
                            \/ q.origin[c] \notin Range(r)
                            \/ \E h \in P : h < i /\ r[h] = q.origin[c]
                   PROVE  FALSE
        BY DEF InOrder
      <4>1. PICK h \in P : h < j /\ r[h] = q.origin[d]
        BY <2>5 DEF Placeable
      <4>2. InOrder(q, h)
        BY DEF InOrder
      <4>3. h \in 1..(j - 1)
        BY <1>1, <4>1
      <4> QED
        BY <1>4, <2>5, <4>1, <4>2, <4>3 DEF Placeable, old
    <3> QED
      BY <1>4, <2>3, <3>1, <3>2, <3>3 DEF old, new
  <2> QED
    BY <2>4, <2>5
<1>5. Kept(seen[n].plan, n)
  <2> HIDE DEF Kept
  <2>1. \A j \in 1..n : j - 1 \in T => j \in T
    BY <1>1, <1>4
  <2> HIDE DEF T
  <2>2. 0..n \subseteq T
    BY <1>1, <1>3, <2>1, Induction
  <2> QED
    BY <1>1, <2>2 DEF T
<1> QED
  BY <1>1, <1>2, <1>5


----------------------------------------------------------------------------
(* What a plan that is right does for the destinations.                    *)
PlanFeeds(p, fed) ==
    \A i \in DOMAIN p :
      /\ p[i].dependsOn < i
      /\ p[i].dest \notin fed <=>
           p[i].blocked \/ (p[i].dependsOn # 0 /\ p[p[i].dependsOn].dest \notin fed)

\* It holds up the destinations that links within the job do not connect to
\* its sources, and those behind them.
LEMMA RightPlanFeeds ==
    ASSUME NEW q, ListShape(q), NEW p \in Seq(Entry), WellPlaced(q, p)
    PROVE  PlanFeeds(p, Fed(q))
<1> DEFINE R == Range(q.listed)
           Closed(F) == \A c \in R : q.origin[c] \in F \cup {NoDest} => c \in F
<1>1. R \subseteq Dest /\ NoDest \notin R
  BY NoDestAssumption DEF ListShape
<1>2. \A d : d \in Fed(q) <=> d \in R /\ \A F \in SUBSET R : Closed(F) => d \in F
  BY DEF Fed
<1> HIDE DEF R
<1> SUFFICES ASSUME NEW i \in DOMAIN p
             PROVE  /\ p[i].dependsOn < i
                    /\ p[i].dest \notin Fed(q) <=>
                         \/ p[i].blocked
                         \/ p[i].dependsOn # 0 /\ p[p[i].dependsOn].dest \notin Fed(q)
  BY DEF PlanFeeds
<1> DEFINE d == p[i].dest
           k == p[i].dependsOn
           e == q.origin[d]
<1>3. /\ d \in R /\ i \in Nat \ {0} /\ k \in Nat
      /\ k # 0 => k < i /\ p[k].dest = e /\ k \in DOMAIN p
      /\ p[i].blocked <=> e \notin R \cup {NoDest} \/ e = d \/ Looped(q, d)
      /\ e # NoDest /\ ~p[i].blocked => k # 0
  <2>1. DOMAIN p = 1..Len(p) /\ p[i] \in Entry /\ Len(p) \in Nat
    OBVIOUS
  <2> QED
    BY <2>1 DEF WellPlaced, Entry, R
<1> HIDE DEF d, k, e
<1>4. ASSUME p[i].blocked PROVE d \notin Fed(q)
  <2>1. CASE e \notin R \cup {NoDest} \/ e = d
    <3>1. Closed(R \ {d})
      BY <1>1, <1>3, <2>1 DEF e
    <3> QED
      BY <1>2, <3>1
  <2>2. CASE Looped(q, d)
    <3>1. PICK C \in SUBSET R : d \in C /\ \A c \in C : q.origin[c] \in C \ {c}
      BY <2>2 DEF Looped, R
    <3>2. Closed(R \ C)
      BY <1>1, <3>1
    <3> QED
      BY <1>2, <3>1, <3>2
  <2> QED
    BY <1>3, <1>4, <2>1, <2>2
<1>5. ASSUME k # 0, e \notin Fed(q), e # NoDest PROVE d \notin Fed(q)
  <2>1. CASE e \notin R
    <3>1. Closed(R \ {d})
      BY <1>5, <2>1 DEF e
    <3> QED
      BY <1>2, <3>1
  <2>2. CASE e \in R
    <3>1. PICK F \in SUBSET R : Closed(F) /\ e \notin F
      BY <1>2, <1>5, <2>2
    <3>2. Closed(F \ {d})
      BY <1>5, <3>1 DEF e
    <3> QED
      BY <1>2, <3>2
  <2> QED
    BY <2>1, <2>2
<1>6. ASSUME ~p[i].blocked, k = 0 \/ e \in Fed(q) PROVE d \in Fed(q)
  <2>1. CASE e = NoDest
    BY <1>2, <1>3, <2>1 DEF e
  <2>2. CASE e # NoDest
    <3>1. e \in Fed(q)
      BY <1>3, <1>6, <2>2
    <3> QED
      BY <1>2, <1>3, <3>1 DEF e
  <2> QED
    BY <2>1, <2>2
<1>7. k # 0 => p[k].dest = e /\ e \in R /\ e # NoDest
  BY <1>1, <1>3 DEF WellPlaced, R
<1> QED
  BY <1>3, <1>4, <1>5, <1>6, <1>7 DEF d, k

\* A job the validator accepts, run with everything it lists, is not held up.
LEMMA NothingBlocked ==
    ASSUME NEW q, ListShape(q), NEW p \in Seq(Entry), WellPlaced(q, p),
           ValidReplication(q.origin), ValidWithinJob(q.origin, q.listed)
    PROVE  \A k \in DOMAIN p : ~p[k].blocked
<1> SUFFICES ASSUME NEW k \in DOMAIN p, p[k].blocked PROVE FALSE
  OBVIOUS
<1> DEFINE d == p[k].dest
<1>1. /\ d \in Range(q.listed)
      /\ \/ q.origin[d] \notin Range(q.listed) \cup {NoDest}
         \/ q.origin[d] = d
         \/ Looped(q, d)
  BY DEF WellPlaced
<1> HIDE DEF d
<1>2. d \in Configured(q.origin) /\ NoDest \notin Range(q.listed) /\ Links(q.origin)
  BY <1>1, NoDestAssumption DEF ListShape, Links
<1>3. q.origin[d] # NoDest
  <2>1. CASE Looped(q, d)
    BY <1>2, <2>1 DEF Looped
  <2>2. CASE q.origin[d] = d
    BY <1>1, <1>2, <2>2
  <2> QED
    BY <1>1, <2>1, <2>2
<1>4. d \in Replicas(q.origin)
  BY <1>2, <1>3 DEF Replicas
<1>5. q.origin[d] # d /\ q.origin[d] \in Range(q.listed) /\ ReplicationChain(q.origin, d) # <<>>
  BY <1>1, <1>4 DEF ValidReplication, ValidWithinJob
<1>6. PICK C \in SUBSET Range(q.listed) : d \in C /\ \A c \in C : q.origin[c] \in C \ {c}
  BY <1>1, <1>5 DEF Looped
<1>7. HopsToRoot(q.origin, d, MaxDepth) = {}
  <2>1. C \in SUBSET Configured(q.origin) /\ MaxDepth \in Nat /\ MaxDepth <= MaxDepth
    BY DepthAssumption DEF ListShape
  <2> QED
    BY <1>2, <1>6, <2>1, NoRootInLoop
<1> QED
  BY <1>5, <1>7 DEF ReplicationChain

----------------------------------------------------------------------------
(* The plan of a run is the one of its request, and neither changes.       *)
LEMMA OfItsRequest == Spec => [](plan = PlanDestinations(request.origin, request.listed)
                                 /\ request \in Request)
<1> DEFINE Of == plan = PlanDestinations(request.origin, request.listed) /\ request \in Request
<1>1. Init => Of
  BY DEF Init
<1>2. Of /\ [Next]_vars => Of'
  BY DEF Next, Execute, Around, Finished, Stage, BeforeHook, BeforeHookEnds,
         LoopEnds, LoopStops, SkipReplica, BeginDestination, AttemptStops, StartDriver,
         TakeResult, TakeFailure, GraceOver, BackoffEnds, BackoffStops, Close, Record,
         DriverEnds, StrayEnds, Fire, WatchdogFires, vars
<1> QED
  BY <1>1, <1>2, PTL DEF Spec

\* Every destination has one entry, behind the one of its source; blocked are
\* those a run cannot fill, and only those (runner.rs plan_destinations).
THEOREM SourceGoesFirstHolds == Spec => []SourceGoesFirst
<1>1. ASSUME request \in Request, plan = PlanDestinations(request.origin, request.listed)
      PROVE  SourceGoesFirst
  <2>1. ListShape(request)
    BY <1>1, RequestAssumption DEF RequestShape
  <2>2. /\ plan \in Seq(Entry) /\ Len(plan) = Len(request.listed)
        /\ Dests(plan) = Range(request.listed) /\ WellPlaced(request, plan)
    BY <1>1, <2>1, PlanIsRight
  <2>3. DOMAIN plan = 1..Len(plan) /\ Len(plan) \in Nat
    BY <2>2
  <2>4. ASSUME NEW k \in DOMAIN plan
        PROVE  LET d == plan[k].dest IN
               /\ plan[k].dependsOn # 0 =>
                    /\ plan[k].dependsOn < k
                    /\ plan[plan[k].dependsOn].dest = request.origin[d]
               /\ plan[k].blocked <=>
                    \/ request.origin[d] \notin Range(request.listed) \cup {NoDest}
                    \/ request.origin[d] = d
                    \/ Looped(request, d)
               /\ request.origin[d] # NoDest /\ ~plan[k].blocked => plan[k].dependsOn # 0
    BY <2>2, <2>3 DEF WellPlaced
  <2> QED
    BY <2>2, <2>4 DEF SourceGoesFirst, Dests
<1> QED
  BY <1>1, OfItsRequest, PTL

\* What is listed in a workable order is attempted before all that is listed
\* behind it (runner.rs:138).
THEOREM OnlyTheUnworkableMoveHolds == Spec => []OnlyTheUnworkableMove
<1>1. ASSUME request \in Request, plan = PlanDestinations(request.origin, request.listed)
      PROVE  OnlyTheUnworkableMove
  <2> SUFFICES ASSUME NEW i \in DOMAIN request.listed, NEW h \in DOMAIN request.listed,
                      i < h, InOrder(request, i)
               PROVE  \E a, b \in DOMAIN plan :
                        /\ a < b
                        /\ plan[a].dest = request.listed[i]
                        /\ plan[b].dest = request.listed[h]
    BY DEF OnlyTheUnworkableMove
  <2> DEFINE n == Len(request.listed)
             first == Pass(request.origin, request.listed,
                           [plan |-> <<>>, deferred |-> request.listed]).plan
             m == Len(first)
  <2>1. ListShape(request) /\ n \in Nat /\ DOMAIN request.listed = 1..n
    BY <1>1, RequestAssumption DEF RequestShape, ListShape
  <2>2. first \in Seq(Entry)
    BY <2>1, FirstSound, PassResult DEF Sound, Acc
  <2>3. /\ n > 0
        /\ PlanPasses(request.origin, request.listed)[1].plan = first
    <3>1. n > 0 /\ 1 \in 1..n
      BY <2>1
    <3> QED
      BY <2>1, <3>1, PlanSteps
  <2>4. /\ plan \in Seq(Entry) /\ Dests(plan) = Range(request.listed)
        /\ StartsWith(plan, first)
    BY <1>1, <2>1, <2>3, PlanIsRight
  <2>5. /\ PlacedAt(first, request.listed[i]) # {}
        /\ PlacedAt(first, request.listed[h]) # {} =>
             \E a \in PlacedAt(first, request.listed[i]),
                b \in PlacedAt(first, request.listed[h]) : a < b
    BY <2>1, FirstPassKeeps
  <2> HIDE DEF first, m
  <2>6. /\ m \in Nat /\ DOMAIN first = 1..m /\ Len(plan) \in Nat
        /\ DOMAIN plan = 1..Len(plan) /\ m <= Len(plan)
        /\ \A k \in 1..m : plan[k] = first[k] /\ k \in DOMAIN plan
    BY <2>2, <2>4 DEF StartsWith, m
  <2>7. CASE PlacedAt(first, request.listed[h]) # {}
    BY <2>5, <2>6, <2>7 DEF PlacedAt
  <2>8. CASE PlacedAt(first, request.listed[h]) = {}
    <3>1. PICK a \in 1..m : first[a].dest = request.listed[i]
      BY <2>5, <2>6 DEF PlacedAt
    <3>2. PICK b \in DOMAIN plan : plan[b].dest = request.listed[h]
      BY <2>4 DEF Dests, Range
    <3>3. b \notin 1..m
      BY <2>6, <2>8, <3>2 DEF PlacedAt
    <3>4. a < b /\ a \in DOMAIN plan /\ plan[a].dest = request.listed[i]
      BY <2>6, <3>1, <3>2, <3>3
    <3> QED
      BY <3>2, <3>4
  <2> QED
    BY <2>7, <2>8
<1> QED
  BY <1>1, OfItsRequest, PTL

\* Validation, planning and the lookup of passphrases agree, for chains of
\* every length but the longest (config.rs validate_replication, model.rs
\* replication_root).
THEOREM ValidPlansRunHolds == Spec => []ValidPlansRun
<1>1. ASSUME request \in Request, plan = PlanDestinations(request.origin, request.listed)
      PROVE  ValidPlansRun
  <2>1. ListShape(request) /\ Links(request.origin)
    BY <1>1, RequestAssumption DEF RequestShape, ListShape, Links
  <2>2. plan \in Seq(Entry) /\ WellPlaced(request, plan)
    BY <1>1, <2>1, PlanIsRight
  <2>3. ASSUME ValidReplication(request.origin), ValidWithinJob(request.origin, request.listed)
        PROVE  \A k \in DOMAIN plan : ~plan[k].blocked
    BY <2>1, <2>2, <2>3, NothingBlocked
  <2>4. ASSUME ValidReplication(request.origin), NEW d \in Configured(request.origin)
        PROVE  LET chain == ReplicationChain(request.origin, d)
               IN  /\ chain # <<>>
                   /\ Len(chain) <= MaxDepth =>
                        PassphraseHolder(request.origin, d) = Head(chain)
    BY <2>1, <2>4, ChainsOpen
  <2> QED
    BY <2>3, <2>4 DEF ValidPlansRun
<1> QED
  BY <1>1, OfItsRequest, PTL

----------------------------------------------------------------------------
(* The inductive invariant of a run.                                       *)
Early == {"stage", "before", "hook"}
Working == {"attempt", "driving", "backoff"}
Closing == {"close", "after", "done"}

\* Where `execute` is agrees with what it has noted so far: the destinations
\* from `index` on are waiting, the ones before it are settled.
Turn ==
    /\ phase \in Early => index = 1 /\ written = {}
    /\ phase \notin Closing =>
         \A i \in Positions : status[i] = "Queued" <=> index <= i
    /\ phase \in Working => index \in Positions /\ ~Blocker(index)
    /\ phase = "backoff" => attempt < MaxAttempts
    /\ phase \in Closing => \A i \in Positions : status[i] # "Queued"

\* A driver is at work exactly while the run waits for it; one left behind
\* is only met when the run is over.
Driving ==
    /\ driver # "none" <=> phase = "driving"
    /\ driver \in {"ok", "warned"} => index \in written
    /\ driver = "cancelled" => cancel # "None"
    /\ stray # 0 => phase \in Closing

Backed == \A i \in Positions : status[i] \in Good => i \in written

\* What the closing run says agrees with its destinations and its token.
Told ==
    /\ phase \notin Closing => \A i \in Positions : status[i] # "Cancelled"
    /\ phase \in Closing =>
         /\ \A i \in Positions : status[i] = "Failed" => runStatus = "Failed"
         /\ runStatus = "Succeeded" => \A i \in Positions : status[i] \in Good
         /\ runStatus = "Cancelled" => cancel # "None"
    /\ phase \in {"after", "done"} /\ runStatus = "Cancelled" => cancel # "Timeout"
    /\ phase \notin {"after", "done"} => hook = "none"
    /\ hook = "success" => runStatus \in Good
    /\ hook = "failure" => runStatus \notin Good

IInv ==
    TypeOK /\ Turn /\ Driving /\ Backed /\ ReplicaFollowsSource /\ Told

----------------------------------------------------------------------------
(* What derive_status makes of destinations that are all settled.          *)
LEMMA Derived ==
    ASSUME NEW P, NEW st \in [P -> Terminal]
    PROVE  /\ DeriveStatus(st) \in Terminal
           /\ \A i \in P : st[i] = "Failed" => DeriveStatus(st) = "Failed"
           /\ DeriveStatus(st) = "Cancelled" => \E i \in P : st[i] = "Cancelled"
           /\ DeriveStatus(st) = "Succeeded" => \A i \in P : st[i] \in Good
<1>1. Range(st) = {st[i] : i \in P}
  BY DEF Range
<1>2. \A i \in P : st[i] \in Range(st)
  BY <1>1
<1>3. \A x \in Range(st) : x \in Terminal /\ \E i \in P : x = st[i]
  BY <1>1
<1>4. "Queued" \notin Range(st)
  BY <1>3 DEF Terminal, Good
<1> QED
  BY <1>2, <1>3, <1>4 DEF DeriveStatus, Terminal, Good

LEMMA InvInit == ASSUME Init PROVE IInv
<1>1. PlanShape(plan)
  <2>1. ListShape(request)
    BY RequestAssumption DEF Init, RequestShape
  <2>2. plan \in Seq(Entry) /\ WellPlaced(request, plan)
    BY <2>1, PlanIsRight DEF Init
  <2>3. ASSUME NEW i \in DOMAIN plan PROVE plan[i].dependsOn \in 0..Len(plan)
    <3>1. plan[i].dependsOn \in Nat /\ i \in 1..Len(plan) /\ Len(plan) \in Nat
      <4>1. plan[i] \in Entry /\ i \in 1..Len(plan) /\ Len(plan) \in Nat
        BY <2>2
      <4> QED
        BY <4>1 DEF Entry
    <3> QED
      BY <2>2, <3>1 DEF WellPlaced
  <2> QED
    BY <2>2, <2>3 DEF PlanShape
<1>2. Len(plan) \in Nat /\ DOMAIN plan = 1..Len(plan)
  BY <1>1 DEF PlanShape
<1> QED
  BY <1>1, <1>2, RequestAssumption, AttemptsAssumption
  DEF Init, IInv, TypeOK, Turn, Driving, Backed, ReplicaFollowsSource, Told,
      RequestShape, Positions, AtWork, Strays, Early, Working, Closing, Good,
      Terminal, Reason, Result

----------------------------------------------------------------------------
(* Steps before the first destination.                                     *)
LEMMA InvEarly ==
    ASSUME IInv, Stage \/ BeforeHook \/ BeforeHookEnds
    PROVE  IInv'
<1> USE DEF IInv, TypeOK, Turn, Driving, Backed, ReplicaFollowsSource, Told,
            PlanShape, Positions, AtWork, Strays, Blocker, Early, Working, Closing,
            Good, Terminal, Reason, Result, Error
<1>1. phase \in Early /\ Len(plan) \in Nat /\ DOMAIN plan = 1..Len(plan)
  BY DEF Stage, BeforeHook, BeforeHookEnds
<1>2. phase' \in {"before", "hook", "loop", "close"}
  BY DEF Stage, BeforeHook, BeforeHookEnds, EarlyFailure, GoOn
<1>3. UNCHANGED <<request, plan, index, attempt, cancel, watchdog,
                  driver, stray, written, hook>>
  BY DEF Stage, BeforeHook, BeforeHookEnds
<1>4. CASE UNCHANGED <<status, runStatus>> /\ phase' # "close"
  BY <1>1, <1>2, <1>3, <1>4
<1>5. CASE EarlyFailure
  BY <1>1, <1>3, <1>5 DEF EarlyFailure
<1> QED
  BY <1>4, <1>5 DEF Stage, BeforeHook, BeforeHookEnds, EarlyFailure, GoOn

----------------------------------------------------------------------------
(* Destinations that are settled, one or all that are left.                *)

\* Leaving the loop with every destination settled, the new ones cancelled
\* (by a token that has fired), skipped or failed.
LEMMA InvSettle ==
    ASSUME IInv, phase \notin Closing,
           NEW st \in [Positions -> Terminal], Settle(st),
           \A i \in Positions : status[i] # "Queued" => st[i] = status[i],
           \A i \in Positions : st[i] \in Good => i \in written,
           \A i \in Positions : st[i] = "Cancelled" => cancel # "None",
           UNCHANGED <<request, plan, attempt, cancel, watchdog, written, hook>>,
           driver' = "none", stray' \in {0, index},
           stray' # 0 => index \in Positions /\ ~Blocker(index) /\ phase = "driving"
    PROVE  IInv'
<1>1. TypeOK'
  BY Derived DEF IInv, TypeOK, Settle, PlanShape, Positions, Terminal, Good
<1>2. Turn'
  BY DEF IInv, Turn, Settle, Positions, Early, Working, Closing, Terminal, Good
<1>3. Driving'
  BY DEF Driving, Settle, Closing
<1>4. Backed'
  BY DEF Backed, Settle, Positions
<1>5. ReplicaFollowsSource'
  <2>1. \A i \in Positions : status[i] \in Good => status'[i] = status[i]
    BY DEF Settle, Good
  <2>2. stray' # 0 => AtWork = {index}
    BY DEF IInv, Driving, AtWork
  <2>3. Positions' = Positions /\ written' = written /\ plan' = plan
    BY DEF Positions
  <2>4. \A i \in written' \cup AtWork' \cup Strays' : i \in written \cup AtWork
    BY <2>2 DEF AtWork, Strays
  <2>5. \A i \in written \cup AtWork : plan[i].dependsOn # 0 =>
          plan[i].dependsOn \in Positions
    BY DEF IInv, TypeOK, ReplicaFollowsSource
  <2> QED
    BY <2>1, <2>3, <2>4, <2>5 DEF IInv, ReplicaFollowsSource
<1>6. Told'
  <2>1. phase' = "close" /\ status' = st /\ runStatus' = DeriveStatus(st)
    BY DEF Settle
  <2>2. hook' = "none"
    BY DEF IInv, Told, Closing
  <2> QED
    BY <2>1, <2>2, Derived DEF Told, Positions, Closing, Good
<1> QED
  BY <1>1, <1>2, <1>3, <1>4, <1>5, <1>6 DEF IInv

LEMMA InvLoop ==
    ASSUME IInv, LoopEnds \/ LoopStops
    PROVE  IInv'
<1>1. phase = "loop" /\ Len(plan) \in Nat /\ Positions = 1..Len(plan)
  BY DEF LoopEnds, LoopStops, IInv, TypeOK, PlanShape, Positions
<1>2. phase \notin Closing /\ driver = "none" /\ stray = 0
  BY <1>1 DEF IInv, Driving, Closing
<1>3. \A i \in Positions : status[i] = "Queued" <=> index <= i
  BY <1>2 DEF IInv, Turn
<1>4. \A i \in Positions : status[i] # "Cancelled" /\ (status[i] \in Good => i \in written)
  BY <1>2 DEF IInv, Told, Backed
<1>5. status \in [Positions -> {"Queued"} \cup Terminal] /\ index \in 1..(Len(plan) + 1)
  BY DEF IInv, TypeOK
<1>6. CASE LoopEnds
  <2>1. \A i \in Positions : status[i] # "Queued"
    BY <1>1, <1>3, <1>5, <1>6 DEF LoopEnds
  <2>2. status \in [Positions -> Terminal]
    BY <2>1, <1>5
  <2> QED
    BY <1>2, <1>4, <1>6, <2>2, InvSettle DEF LoopEnds
<1>7. CASE LoopStops
  <2> DEFINE st == Marked(status, index, "Cancelled")
  <2>1. st \in [Positions -> Terminal]
    BY <1>3, <1>5 DEF Marked, Terminal
  <2>2. \A i \in Positions : status[i] # "Queued" => st[i] = status[i]
    BY <1>5 DEF Marked
  <2>3. \A i \in Positions : st[i] \in Good => i \in written
    BY <1>4, <1>5 DEF Marked, Good
  <2>4. cancel # "None" /\ Settle(st)
    BY <1>7 DEF LoopStops
  <2> HIDE DEF st
  <2> QED
    BY <1>2, <1>7, <2>1, <2>2, <2>3, <2>4, InvSettle DEF LoopStops
<1> QED
  BY <1>6, <1>7

\* One destination gets its outcome, and the run goes on or closes.
LEMMA InvOutcome ==
    ASSUME IInv, phase \in Working,
           NEW s \in {"Succeeded", "Warned", "Failed", "Cancelled"}, Outcome(s),
           s = "Cancelled" => cancel # "None",
           s \in Good => index \in written,
           UNCHANGED <<request, plan, attempt, cancel, watchdog, written, hook>>,
           driver' = "none", stray' \in {0, index},
           stray' # 0 => s = "Cancelled" /\ phase = "driving"
    PROVE  IInv'
<1> DEFINE st == [status EXCEPT ![index] = s]
<1>1. Len(plan) \in Nat /\ Positions = 1..Len(plan)
  BY DEF IInv, TypeOK, PlanShape, Positions
<1>2. phase \notin Closing /\ index \in Positions /\ ~Blocker(index)
  BY DEF IInv, Turn, Working, Closing
<1>3. \A i \in Positions : status[i] = "Queued" <=> index <= i
  BY <1>2 DEF IInv, Turn
<1>4. \A i \in Positions : status[i] # "Cancelled" /\ (status[i] \in Good => i \in written)
  BY <1>2 DEF IInv, Told, Backed
<1>5. status \in [Positions -> {"Queued"} \cup Terminal]
  BY DEF IInv, TypeOK
<1>6. st \in [Positions -> {"Queued"} \cup Terminal] /\ status[index] = "Queued"
  BY <1>1, <1>2, <1>3, <1>5 DEF Terminal, Good
<1>7. ASSUME NEW rest \in {"Skipped", "Cancelled"}, Settle(Marked(st, index + 1, rest)),
             rest = "Cancelled" => cancel # "None"
      PROVE  IInv'
  <2> DEFINE all == Marked(st, index + 1, rest)
  <2>1. all \in [Positions -> Terminal]
    BY <1>1, <1>2, <1>3, <1>5, <1>6 DEF Marked, Terminal, Good
  <2>2. \A i \in Positions : status[i] # "Queued" => all[i] = status[i]
    BY <1>5, <1>6 DEF Marked
  <2>3. \A i \in Positions : all[i] \in Good => i \in written
    BY <1>4, <1>5 DEF Marked, Good
  <2>4. \A i \in Positions : all[i] = "Cancelled" => cancel # "None"
    BY <1>4, <1>5, <1>7 DEF Marked
  <2>5. Settle(all)
    BY <1>7
  <2> HIDE DEF all
  <2> QED
    BY <1>2, <2>1, <2>2, <2>3, <2>4, <2>5, InvSettle
<1>8. CASE s = "Failed" /\ ~request.carryOn
  BY <1>7, <1>8 DEF Outcome, Good
<1>9. CASE s = "Cancelled"
  BY <1>7, <1>9 DEF Outcome, Good
<1>10. CASE s \in Good \/ (s = "Failed" /\ request.carryOn)
  <2>1. status' = st /\ index' = index + 1 /\ phase' = "loop"
        /\ UNCHANGED runStatus
    BY <1>10 DEF Outcome, Good
  <2>2. stray' = 0
    BY <1>10 DEF Good
  <2>3. TypeOK'
    BY <1>1, <1>2, <1>6, <2>1, <2>2 DEF IInv, TypeOK, PlanShape, Positions
  <2>4. Turn'
    <3>1. \A i \in Positions : st[i] = "Queued" <=> index + 1 <= i
      BY <1>1, <1>2, <1>3, <1>5
    <3> QED
      BY <2>1, <3>1 DEF Turn, Positions, Early, Working, Closing
  <2>5. Driving'
    BY <2>1, <2>2 DEF Driving
  <2>6. Backed'
    BY <1>4, <1>5, <2>1 DEF Backed, Positions
  <2>7. ReplicaFollowsSource'
    <3>1. \A i \in Positions : status[i] \in Good => status'[i] = status[i]
      BY <1>5, <1>6, <2>1 DEF Good
    <3>2. \A i \in written' \cup AtWork' \cup Strays' : i \in written
      BY <2>2 DEF AtWork, Strays
    <3>3. written \subseteq Positions
      BY DEF IInv, TypeOK
    <3> QED
      BY <3>1, <3>2, <3>3 DEF IInv, ReplicaFollowsSource, TypeOK
  <2>8. Told'
    BY <1>2, <1>4, <1>5, <1>10, <2>1 DEF IInv, Told, Closing, Positions, Good
  <2> QED
    BY <2>3, <2>4, <2>5, <2>6, <2>7, <2>8 DEF IInv
<1> QED
  BY <1>8, <1>9, <1>10 DEF Good

LEMMA InvTakeOutcome ==
    ASSUME IInv, AttemptStops \/ TakeResult \/ GraceOver \/ BackoffStops
    PROVE  IInv'
<1>1. phase \in Working /\ stray = 0
  BY DEF AttemptStops, TakeResult, GraceOver, BackoffStops, IInv, Driving,
         Working, Closing
<1>2. CASE AttemptStops \/ BackoffStops
  <2>1. driver = "none"
    BY <1>2 DEF AttemptStops, BackoffStops, IInv, Driving
  <2> QED
    BY <1>1, <1>2, <2>1, InvOutcome DEF AttemptStops, BackoffStops, Good
<1>3. CASE GraceOver
  <2>1. stray' \in {0, index} /\ phase = "driving"
    BY <1>1, <1>3 DEF GraceOver
  <2> QED
    BY <1>1, <1>3, <2>1, InvOutcome DEF GraceOver, Good
<1>4. CASE TakeResult
  <2>1. StatusOf(driver) \in {"Succeeded", "Warned", "Failed", "Cancelled"}
    BY DEF StatusOf
  <2>2. StatusOf(driver) = "Cancelled" => cancel # "None"
    BY DEF StatusOf, IInv, Driving
  <2>3. StatusOf(driver) \in Good => index \in written
    BY DEF StatusOf, IInv, Driving, Good
  <2> QED
    BY <1>1, <1>4, <2>1, <2>2, <2>3, InvOutcome DEF TakeResult
<1> QED
  BY <1>2, <1>3, <1>4

----------------------------------------------------------------------------
(* Steps within one destination.                                           *)
LEMMA InvSkip ==
    ASSUME IInv, SkipReplica
    PROVE  IInv'
<1>1. Len(plan) \in Nat /\ Positions = 1..Len(plan)
  BY DEF IInv, TypeOK, PlanShape, Positions
<1>2. phase = "loop" /\ phase' = "loop" /\ index \in Positions /\ index' = index + 1
      /\ status' = [status EXCEPT ![index] = "Skipped"]
      /\ UNCHANGED <<request, plan, attempt, runStatus, cancel, watchdog,
                     driver, stray, written, hook>>
  BY DEF SkipReplica
<1>3. status \in [Positions -> {"Queued"} \cup Terminal] /\ written \subseteq Positions
  BY DEF IInv, TypeOK
<1>4. \A i \in Positions : status[i] = "Queued" <=> index <= i
  BY <1>2 DEF IInv, Turn, Closing
<1>5. TypeOK'
  BY <1>1, <1>2, <1>3 DEF IInv, TypeOK, PlanShape, Positions, Terminal
<1>6. Turn'
  <2>1. \A i \in Positions : status'[i] = "Queued" <=> index' <= i
    BY <1>1, <1>2, <1>3, <1>4
  <2> QED
    BY <1>2, <2>1 DEF Turn, Positions, Early, Working, Closing
<1>7. Driving' /\ Backed'
  BY <1>2, <1>3 DEF IInv, Driving, Backed, Positions, Good
<1>8. ReplicaFollowsSource'
  <2>1. status[index] = "Queued"
    BY <1>1, <1>2, <1>4
  <2>2. \A i \in Positions : status[i] \in Good => status'[i] = status[i]
    BY <1>2, <1>3, <2>1 DEF Good
  <2>3. driver = "none" /\ stray = 0
    BY <1>2 DEF IInv, Driving, Closing
  <2>4. AtWork = {} /\ AtWork' = {} /\ Strays = {} /\ Strays' = {}
    BY <1>2, <2>3 DEF AtWork, Strays
  <2> QED
    BY <1>2, <1>3, <2>2, <2>4 DEF IInv, ReplicaFollowsSource
<1>9. Told'
  BY <1>2, <1>3 DEF IInv, Told, Closing, Positions, Good
<1> QED
  BY <1>5, <1>6, <1>7, <1>8, <1>9 DEF IInv

LEMMA InvAttempt ==
    ASSUME IInv, BeginDestination \/ StartDriver \/ TakeFailure \/ BackoffEnds
    PROVE  IInv'
<1> USE DEF IInv, TypeOK, Turn, Driving, Backed, ReplicaFollowsSource, Told,
            Positions, AtWork, Strays, Early, Working, Closing, report
<1>1. UNCHANGED <<request, plan, index, report, cancel, watchdog, stray>>
  BY DEF BeginDestination, StartDriver, TakeFailure, BackoffEnds
<1>2. Blocker(index)' = Blocker(index)
  BY <1>1 DEF Blocker
<1>3. CASE BeginDestination
  BY <1>1, <1>2, <1>3, AttemptsAssumption DEF BeginDestination
<1>4. CASE StartDriver
  <2>1. phase = "attempt" /\ phase' = "driving" /\ driver' = "busy" /\ attempt' = attempt
    BY <1>4 DEF StartDriver
  <2>2. ~plan[index].blocked
        /\ (plan[index].dependsOn # 0 =>
              status[plan[index].dependsOn] \in Good /\ plan[index].dependsOn \in written)
    BY <2>1 DEF Blocker, PlanShape, Entry
  <2>3. ReplicaFollowsSource'
    BY <1>1, <2>1, <2>2
  <2> QED
    BY <1>1, <1>2, <2>1, <2>3
<1>5. CASE TakeFailure
  BY <1>1, <1>2, <1>5 DEF TakeFailure, ShouldRetry
<1>6. CASE BackoffEnds
  BY <1>1, <1>2, <1>6, AttemptsAssumption DEF BackoffEnds
<1> QED
  BY <1>3, <1>4, <1>5, <1>6

----------------------------------------------------------------------------
(* Closing the run, and what happens around it.                            *)
LEMMA InvClose ==
    ASSUME IInv, Close \/ Record
    PROVE  IInv'
<1> USE DEF IInv, TypeOK, Turn, Driving, Backed, Told, Positions, Early,
            Working, Closing
<1>1. CASE Close
  <2>1. phase = "close" /\ phase' = "after" /\ driver = "none"
        /\ UNCHANGED <<request, plan, index, attempt, cancel, driver, stray, written>>
    BY <1>1 DEF Close
  <2>2. \A i \in Positions : \/ status'[i] = status[i]
                             \/ TimedOut /\ status[i] = "Cancelled" /\ status'[i] = "Failed"
    BY <1>1 DEF Close
  <2>3. \A i \in Positions : status[i] \in Good <=> status'[i] \in Good
    BY <2>2 DEF Good
  <2>4. TypeOK'
    BY <1>1, <2>1 DEF Close, PlanShape, Terminal, Good
  <2>5. Turn' /\ Driving' /\ Backed'
    BY <2>1, <2>2, <2>3
  <2>6. ReplicaFollowsSource'
    BY <2>1, <2>3 DEF ReplicaFollowsSource, AtWork, Strays
  <2>7. Told'
    <3>1. CASE TimedOut
      BY <1>1, <2>1, <2>2, <3>1 DEF Close, TimedOut, Good
    <3>2. CASE ~TimedOut
      BY <1>1, <2>1, <2>2, <3>2 DEF Close, TimedOut, Good
    <3> QED
      BY <3>1, <3>2
  <2> QED
    BY <2>4, <2>5, <2>6, <2>7
<1>2. CASE Record
  BY <1>2 DEF Record, report, ReplicaFollowsSource, AtWork, Strays
<1> QED
  BY <1>1, <1>2

LEMMA InvAround ==
    ASSUME IInv, Around \/ UNCHANGED vars
    PROVE  IInv'
<1> USE DEF IInv, TypeOK, Turn, Driving, Backed, ReplicaFollowsSource, Told,
            Positions, AtWork, Strays, Early, Working, Closing
<1>1. UNCHANGED <<request, plan, phase, index, attempt, status, runStatus, hook>>
  BY DEF Around, DriverEnds, StrayEnds, Fire, WatchdogFires, vars, control, report
<1>2. Blocker(index)' = Blocker(index)
  BY <1>1 DEF Blocker
<1>3. ASSUME NEW result \in Result, DriverEnds(result)
      PROVE  IInv'
  <2>1. phase = "driving" /\ index \in Positions
    BY <1>3 DEF DriverEnds
  <2>2. AtWork' = {index} /\ AtWork = {index}
    BY <1>1, <1>3 DEF DriverEnds, Result, Error
  <2>3. ReplicaFollowsSource'
    BY <1>1, <1>3, <2>1, <2>2 DEF DriverEnds
  <2> QED
    BY <1>1, <1>2, <1>3, <2>1, <2>3 DEF DriverEnds, Result, Error
<1>4. CASE StrayEnds
  <2>1. ReplicaFollowsSource'
    BY <1>1, <1>4 DEF StrayEnds
  <2> QED
    BY <1>1, <1>2, <1>4, <2>1 DEF StrayEnds
<1>5. CASE Fire("Requested") \/ Fire("Shutdown") \/ WatchdogFires
  <2>1. UNCHANGED <<driver, stray, written>>
    BY <1>5 DEF Fire, WatchdogFires, control, report
  <2>2. cancel' \in Reason /\ watchdog' \in BOOLEAN
        /\ (cancel # "None" => cancel' = cancel) /\ (cancel = "None" => cancel' # "None")
    BY <1>5 DEF Fire, WatchdogFires, Reason
  <2>3. TypeOK' /\ Backed' /\ ReplicaFollowsSource'
    BY <1>1, <2>1, <2>2
  <2>4. Turn' /\ Driving'
    BY <1>1, <1>2, <2>1, <2>2
  <2>5. Told'
    BY <1>1, <2>1, <2>2
  <2> QED
    BY <2>3, <2>4, <2>5
<1>6. CASE UNCHANGED vars
  BY <1>1, <1>2, <1>6 DEF vars, control, report
<1> QED
  BY <1>3, <1>4, <1>5, <1>6 DEF Around

LEMMA InvStep == ASSUME IInv, [Next]_vars PROVE IInv'
BY InvEarly, InvLoop, InvTakeOutcome, InvSkip, InvAttempt, InvClose, InvAround
DEF Next, Execute, Finished

THEOREM Invariant == Spec => []IInv
<1>1. Init => IInv
  BY InvInit
<1>2. IInv /\ [Next]_vars => IInv'
  BY InvStep
<1> QED
  BY <1>1, <1>2, PTL DEF Spec

----------------------------------------------------------------------------
(***************************************************************************)
(* What follows for every run.                                             *)
(***************************************************************************)
\* The variables of a run keep their types, and no destination is attempted
\* more often than the policy allows.
THEOREM TypeCorrect == Spec => []TypeOK
BY Invariant, PTL DEF IInv

\* A replica is only written, by a driver at work or left behind, after its
\* source was written and reported good in the same run (runner.rs
\* replication_blocker and attempt_destination).
THEOREM ReplicaFollowsSourceHolds == Spec => []ReplicaFollowsSource
BY Invariant, PTL DEF IInv

\* A driver that outlived its grace is never joined by another of its run
\* (runner.rs attempt_destination: the grace ends the run, not the attempt).
THEOREM OneDriverHolds == Spec => []OneDriver
<1>1. IInv => OneDriver
  BY DEF IInv, Driving, OneDriver, Closing
<1> QED
  BY <1>1, Invariant, PTL

\* The recorded run says what happened to every destination, and its status,
\* its reason and its after-hook agree with that (runner.rs finalise,
\* state.rs derive_status).
THEOREM RecordIsHonestHolds == Spec => []RecordIsHonest
<1>1. IInv => RecordIsHonest
  <2> SUFFICES ASSUME IInv, phase = "done" PROVE RecordIsHonest
    BY DEF RecordIsHonest
  <2>1. runStatus = "Succeeded" => written = Positions
    BY DEF IInv, TypeOK, Told, Backed, Closing
  <2>2. runStatus = "Cancelled" => cancel \in {"Requested", "Shutdown"}
    BY DEF IInv, TypeOK, Told, Closing, Reason
  <2> QED
    BY <2>1, <2>2 DEF RecordIsHonest, IInv, Turn, Backed, Told, Closing
<1> QED
  BY <1>1, Invariant, PTL

\* A settled destination is never reported differently later, but for the
\* time limit that turns its cancelled ones into failures (runner.rs
\* mark_remaining, apply_destination_outcome, finalise).
THEOREM SettledStaysHolds == Spec => SettledStays
<1> DEFINE Kept == \A i \in Positions : status[i] \in Terminal /\ status'[i] # status[i] =>
                     status[i] = "Cancelled" /\ status'[i] = "Failed" /\ cancel = "Timeout"
<1>1. ASSUME IInv, Next PROVE Kept
  <2>1. status \in [Positions -> {"Queued"} \cup Terminal]
    BY <1>1 DEF IInv, TypeOK
  <2>2. CASE status' = status
    BY <2>2
  <2>3. CASE EarlyFailure /\ phase \in Early
    <3>1. \A i \in Positions : i \in Nat /\ 1 <= i
      BY <1>1 DEF IInv, TypeOK, PlanShape, Positions
    <3>2. \A i \in Positions : status[i] = "Queued"
      BY <1>1, <2>3, <3>1 DEF IInv, Turn, Early, Closing
    <3> QED
      BY <3>2 DEF Terminal, Good
  <2>4. CASE phase = "loop" /\ (LoopEnds \/ LoopStops)
    BY <2>1, <2>4 DEF LoopEnds, LoopStops, Settle, Marked, Terminal, Good
  <2>5. CASE phase = "loop" /\ SkipReplica
    <3>1. index \in Positions /\ status[index] = "Queued"
      BY <1>1, <2>5 DEF SkipReplica, IInv, TypeOK, Turn, Closing
    <3> QED
      BY <2>1, <2>5, <3>1 DEF SkipReplica, Terminal, Good
  <2>6. ASSUME NEW s, phase \in Working, Outcome(s) PROVE Kept
    <3>1. index \in Positions /\ status[index] = "Queued"
      BY <1>1, <2>6 DEF IInv, TypeOK, Turn, Working, Closing
    <3>2. \A i \in Positions : status[i] # "Queued" => status'[i] = status[i]
      BY <2>1, <2>6, <3>1 DEF Outcome, Settle, Marked
    <3> QED
      BY <3>2 DEF Terminal, Good
  <2>7. CASE Close
    BY <2>1, <2>7 DEF Close, TimedOut
  <2> QED
    BY <1>1, <2>2, <2>3, <2>4, <2>5, <2>6, <2>7
    DEF Next, Execute, Around, Finished, Stage, BeforeHook, BeforeHookEnds, GoOn,
        LoopEnds, LoopStops, SkipReplica, BeginDestination, AttemptStops,
        StartDriver, TakeResult, TakeFailure, GraceOver, BackoffEnds, BackoffStops,
        Record, DriverEnds, StrayEnds, Fire, WatchdogFires, vars, control, report,
        Early, Working
<1>2. IInv /\ [Next]_vars => [Kept]_vars
  BY <1>1
<1> QED
  BY <1>2, Invariant, PTL DEF Spec, SettledStays

\* While nobody asked to stop and nothing failed, what was skipped is what the
\* plan cannot connect to the sources.
Reached ==
    /\ PlanFeeds(plan, Fed(request))
    /\ cancel = "None" /\ (phase \in Closing => runStatus # "Failed")
       /\ (\A i \in Positions : status[i] # "Failed") =>
         \A i \in Positions :
           status[i] # "Queued" => (status[i] = "Skipped" <=> plan[i].dest \notin Fed(request))

LEMMA ReachedInit == Init => Reached
<1> SUFFICES ASSUME Init PROVE Reached
  OBVIOUS
<1>1. ListShape(request)
  BY RequestAssumption DEF Init, RequestShape
<1>2. plan \in Seq(Entry) /\ WellPlaced(request, plan)
  BY <1>1, PlanIsRight DEF Init
<1>3. PlanFeeds(plan, Fed(request))
  BY <1>1, <1>2, RightPlanFeeds
<1> QED
  BY <1>3 DEF Init, Reached, Positions

LEMMA ReachedStep == IInv /\ Reached /\ [Next]_vars => Reached'
<1> SUFFICES ASSUME IInv, Reached, [Next]_vars PROVE Reached'
  OBVIOUS
<1> DEFINE fed == Fed(request)
<1>0. /\ status \in [Positions -> {"Queued"} \cup Terminal]
      /\ Len(plan) \in Nat /\ Positions = 1..Len(plan)
      /\ \A i \in Positions : plan[i].dependsOn \in 0..Len(plan)
      /\ PlanFeeds(plan, fed)
  BY DEF IInv, TypeOK, PlanShape, Positions, Reached
<1>1. UNCHANGED <<request, plan>> /\ (cancel' = "None" => cancel = "None")
  BY DEF Next, Execute, Around, Finished, Stage, BeforeHook, BeforeHookEnds,
         LoopEnds, LoopStops, SkipReplica, BeginDestination, AttemptStops, StartDriver,
         TakeResult, TakeFailure, GraceOver, BackoffEnds, BackoffStops, Close, Record,
         DriverEnds, StrayEnds, Fire, WatchdogFires, vars
<1>2. Positions' = Positions /\ Fed(request)' = fed /\ PlanFeeds(plan, Fed(request))'
  BY <1>0, <1>1 DEF Positions
<1> HIDE DEF fed
<1>3. ASSUME cancel' # "None" PROVE Reached'
  BY <1>2, <1>3 DEF Reached
<1>4. ASSUME UNCHANGED <<status, runStatus>>, phase' \in Closing <=> phase \in Closing
      PROVE  Reached'
  BY <1>1, <1>2, <1>4 DEF Reached, fed
<1>5. ASSUME EarlyFailure PROVE Reached'
  BY <1>2, <1>5 DEF EarlyFailure, Reached, Closing
<1>6. CASE LoopEnds
  BY <1>1, <1>2, <1>6 DEF LoopEnds, Settle, Reached, Closing, fed
<1>7. ASSUME phase \notin Closing, index \in Positions, status[index] = "Queued",
             NEW s \in {"Skipped"} \cup Good, status' = [status EXCEPT ![index] = s],
             s = "Skipped" <=> Blocker(index)
      PROVE  Reached'
  <2> SUFFICES ASSUME cancel = "None", \A i \in Positions : status'[i] # "Failed",
                      NEW i \in Positions, status'[i] # "Queued"
               PROVE  status'[i] = "Skipped" <=> plan[i].dest \notin fed
    BY <1>1, <1>2 DEF Reached
  <2>1. \A k \in Positions \ {index} : status'[k] = status[k]
    BY <1>0, <1>7
  <2>2. \A k \in Positions :
          status[k] # "Queued" => (status[k] = "Skipped" <=> plan[k].dest \notin fed)
    <3>1. \A k \in Positions : status[k] # "Failed"
      BY <1>7, <2>1
    <3> QED
      BY <1>7, <3>1 DEF Reached, fed
  <2>3. s = "Skipped" <=> plan[index].dest \notin fed
    <3> DEFINE k == plan[index].dependsOn
    <3>1. plan[index].dest \notin fed <=>
            plan[index].blocked \/ (k # 0 /\ plan[k].dest \notin fed)
      BY <1>0, <1>7 DEF PlanFeeds, Positions
    <3>2. ASSUME k # 0 PROVE status[k] \in Good <=> plan[k].dest \in fed
      <4>1. k \in Positions /\ k < index
        BY <1>0, <1>7, <3>2 DEF PlanFeeds, Positions
      <4>2. status[k] \notin {"Queued", "Cancelled"}
        BY <1>0, <1>7, <4>1 DEF IInv, Turn, Told
      <4>3. status[k] # "Failed" /\ (status[k] = "Skipped" <=> plan[k].dest \notin fed)
        BY <1>7, <2>1, <2>2, <4>1, <4>2
      <4>4. status[k] \in {"Skipped"} \cup Good
        BY <1>0, <4>1, <4>2, <4>3 DEF Terminal
      <4> QED
        BY <4>3, <4>4 DEF Good
    <3> QED
      BY <1>7, <3>1, <3>2 DEF Blocker
  <2>4. CASE i = index
    BY <1>0, <1>7, <2>3, <2>4
  <2>5. CASE i # index
    BY <2>1, <2>2, <2>5
  <2> QED
    BY <2>4, <2>5
<1>8. ASSUME NEW s, phase \in Working, Outcome(s), s = "Cancelled" => cancel # "None"
      PROVE  Reached'
  <2>1. /\ index \in Positions /\ status[index] = "Queued" /\ ~Blocker(index)
        /\ phase \notin Closing
    BY <1>8 DEF IInv, TypeOK, Turn, Working, Closing
  <2>2. CASE s \in Good
    <3>1. status' = [status EXCEPT ![index] = s] /\ s # "Skipped"
      BY <1>8, <2>2 DEF Outcome, Good
    <3> QED
      BY <1>7, <2>1, <2>2, <3>1
  <2>3. CASE s = "Failed"
    <3>1. status'[index] = "Failed"
      BY <1>0, <1>8, <2>1, <2>3 DEF Outcome, Settle, Marked
    <3> QED
      BY <1>2, <2>1, <3>1 DEF Reached
  <2>4. CASE s = "Cancelled"
    BY <1>1, <1>3, <1>8, <2>4
  <2> QED
    BY <1>8, <2>2, <2>3, <2>4 DEF Outcome
<1>9. CASE SkipReplica
  <2>1. /\ index \in Positions /\ status[index] = "Queued" /\ phase \notin Closing
        /\ Blocker(index) /\ status' = [status EXCEPT ![index] = "Skipped"]
    BY <1>0, <1>9 DEF SkipReplica, IInv, Turn, TypeOK, Closing
  <2> QED
    BY <1>7, <2>1
<1>10. CASE LoopStops
  BY <1>1, <1>3, <1>10 DEF LoopStops
<1>11. CASE AttemptStops \/ GraceOver \/ BackoffStops
  BY <1>8, <1>11 DEF AttemptStops, GraceOver, BackoffStops, Working
<1>12. CASE TakeResult
  <2>1. StatusOf(driver) = "Cancelled" => cancel # "None"
    BY <1>12 DEF TakeResult, StatusOf, IInv, Driving, Error
  <2> QED
    BY <1>8, <1>12, <2>1 DEF TakeResult, Working
<1>13. CASE Close
  <2>1. CASE TimedOut
    BY <1>1, <1>3, <1>13, <2>1 DEF Close, TimedOut
  <2>2. CASE ~TimedOut
    <3>1. status' = status /\ runStatus' = runStatus
      BY <1>0, <1>13, <2>2 DEF Close
    <3> QED
      BY <1>4, <1>13, <3>1 DEF Close, Closing
  <2> QED
    BY <2>1, <2>2
<1>14. CASE Around \/ Finished \/ UNCHANGED vars
  BY <1>4, <1>14 DEF Around, Finished, DriverEnds, StrayEnds, Fire, WatchdogFires, vars,
                     control, report
<1>15. CASE StartDriver \/ TakeFailure \/ BackoffEnds \/ BeginDestination \/ Record
  BY <1>4, <1>15 DEF StartDriver, TakeFailure, BackoffEnds, BeginDestination, Record, report,
                     Closing
<1>16. CASE Stage \/ BeforeHook \/ BeforeHookEnds
  BY <1>4, <1>5, <1>16 DEF Stage, BeforeHook, BeforeHookEnds, GoOn, Closing
<1> QED
  BY <1>6, <1>9, <1>10, <1>11, <1>12, <1>13, <1>14, <1>15, <1>16 DEF Next, Execute

\* A run that nobody stopped and nothing failed skips exactly the replicas
\* that no chain of links connects to the job's sources: the planner feeds the
\* ones it can, and the run follows it (runner.rs replication_blocker, execute).
THEOREM HealthyRunReachesAllHolds == Spec => []HealthyRunReachesAll
<1>1. IInv /\ Reached => HealthyRunReachesAll
  BY DEF IInv, TypeOK, Turn, Told, Closing, Reached, HealthyRunReachesAll
<1> QED
  BY <1>1, ReachedInit, ReachedStep, Invariant, PTL DEF Spec

----------------------------------------------------------------------------
(***************************************************************************)
(* What the end of a run rests on.  That it ends (StopEnds) is a matter of *)
(* fairness; these are not: a run waits for nothing but a driver, never    *)
(* after its token has fired and, with a time limit, never without the     *)
(* watchdog; and each of its steps brings the end nearer.                  *)
(***************************************************************************)
\* When `execute` can go on.
CanExecute ==
    \/ phase \notin {"driving", "done"}
    \/ phase = "driving" /\ (driver # "busy" \/ cancel # "None")

\* A run that cannot go on awaits a driver nobody has told to stop.
OnlyADriverIsAwaited ==
    phase # "done" /\ ~CanExecute =>
      driver = "busy" /\ cancel = "None" /\ (request.limit => watchdog)

\* How far a run is: the destination it is at, the part of `execute`, the
\* attempt, and the part of the attempt.
Part == [stage |-> 7, before |-> 6, hook |-> 5, loop |-> 4, attempt |-> 3, driving |-> 3,
         backoff |-> 3, close |-> 2, after |-> 1, done |-> 0]
Try == [attempt |-> 2, driving |-> 1, backoff |-> 0]

\* TypeOK bounds all of it: there are Len(plan) destinations and MaxAttempts.
Nearer ==
    \/ index' > index
    \/ index' = index /\ Part[phase'] < Part[phase]
    \/ index' = index /\ phase \in Working /\ phase' \in Working /\ attempt' > attempt
    \/ /\ index' = index /\ phase \in Working /\ phase' \in Working
       /\ attempt' = attempt /\ Try[phase'] < Try[phase]

\* Each step of `execute` brings the end nearer, no other one takes it back.
ExecuteCounts ==
    [][/\ Execute => Nearer
       /\ Nearer \/ UNCHANGED <<index, phase, attempt>>]_vars

\* The time limit of a run that has one is watched until it is of no use.
Watched == request.limit /\ phase \notin {"after", "done"} => watchdog \/ cancel # "None"

\* Staging, hooks and back-offs end by themselves; only a driver may hang, and
\* then whoever asked for the end, or the limit, is still there to end the run
\* (runner.rs attempt_destination, spawn_timeout_watchdog).
THEOREM OnlyADriverIsAwaitedHolds == Spec => []OnlyADriverIsAwaited
<1>1. Init => Watched
  BY DEF Init, Watched
<1>2. IInv /\ Watched /\ [Next]_vars => Watched'
  <2> SUFFICES ASSUME IInv, Watched, [Next]_vars PROVE Watched'
    OBVIOUS
  <2>1. request' = request
    BY DEF Next, Execute, Around, Finished, Stage, BeforeHook, BeforeHookEnds,
           LoopEnds, LoopStops, SkipReplica, BeginDestination, AttemptStops, StartDriver,
           TakeResult, TakeFailure, GraceOver, BackoffEnds, BackoffStops, Close, Record,
           DriverEnds, StrayEnds, Fire, WatchdogFires, vars
  <2>2. CASE Close \/ Record \/ Finished
    BY <2>1, <2>2 DEF Close, Record, Finished, Watched, vars, control
  <2>3. CASE Fire("Requested") \/ Fire("Shutdown") \/ WatchdogFires
    BY <2>1, <2>3 DEF Fire, WatchdogFires, Watched, control
  <2>4. CASE UNCHANGED <<cancel, watchdog>> /\ phase \notin {"after", "done"}
    BY <2>1, <2>4 DEF Watched
  <2>5. CASE UNCHANGED <<cancel, watchdog, phase>>
    BY <2>1, <2>5 DEF Watched
  <2>6. CASE Execute /\ ~Close /\ ~Record
    BY <2>4, <2>6
    DEF Execute, Stage, BeforeHook, BeforeHookEnds,
        LoopEnds, LoopStops, SkipReplica, BeginDestination, AttemptStops, StartDriver,
        TakeResult, TakeFailure, GraceOver, BackoffEnds, BackoffStops
  <2>7. CASE (\E result \in Result : DriverEnds(result)) \/ StrayEnds \/ UNCHANGED vars
    BY <2>5, <2>7 DEF DriverEnds, StrayEnds, vars, control
  <2> QED
    BY <2>2, <2>3, <2>6, <2>7 DEF Next, Around
<1>3. IInv /\ Watched => OnlyADriverIsAwaited
  BY DEF IInv, Driving, CanExecute, Watched, OnlyADriverIsAwaited
<1> QED
  BY <1>1, <1>2, <1>3, Invariant, PTL DEF Spec

\* An outcome ends the run or moves it to the next destination.
LEMMA OutcomeCounts ==
    ASSUME TypeOK, phase \in Working, NEW s, Outcome(s)
    PROVE  Nearer
BY DEF TypeOK, PlanShape, Working, Outcome, Settle, Nearer, Part

\* `execute` never goes round in circles, however often it retries: no step
\* leads back, and nothing around the run does.
THEOREM ExecuteCountsHolds == Spec => ExecuteCounts
<1>1. ASSUME TypeOK, [Next]_vars
      PROVE  /\ Execute => Nearer
             /\ Nearer \/ UNCHANGED <<index, phase, attempt>>
  <2>1. index \in Nat /\ attempt \in Nat
    BY <1>1, AttemptsAssumption DEF TypeOK, PlanShape
  <2>2. CASE Stage \/ BeforeHook \/ BeforeHookEnds
    BY <2>1, <2>2 DEF Stage, BeforeHook, BeforeHookEnds, EarlyFailure, GoOn, Nearer, Part
  <2>3. CASE LoopEnds \/ LoopStops \/ SkipReplica \/ BeginDestination
    BY <2>1, <2>3 DEF LoopEnds, LoopStops, SkipReplica, BeginDestination, Settle, Nearer, Part
  <2>4. CASE AttemptStops \/ TakeResult \/ GraceOver \/ BackoffStops
    BY <1>1, <2>4, OutcomeCounts
    DEF AttemptStops, TakeResult, GraceOver, BackoffStops, Working
  <2>5. CASE StartDriver \/ TakeFailure \/ BackoffEnds
    BY <2>1, <2>5 DEF StartDriver, TakeFailure, BackoffEnds, Nearer, Working, Try
  <2>6. CASE Close \/ Record
    BY <2>1, <2>6 DEF Close, Record, Nearer, Part
  <2>7. CASE Around \/ Finished \/ UNCHANGED vars
    <3>1. UNCHANGED <<index, phase, attempt>>
      BY <2>7 DEF Around, Finished, DriverEnds, StrayEnds, Fire, WatchdogFires, vars, control
    <3>2. ASSUME Execute PROVE Nearer
      BY <2>2, <2>3, <2>4, <2>5, <2>6, <3>2 DEF Execute
    <3> QED
      BY <3>1, <3>2
  <2> QED
    BY <1>1, <2>2, <2>3, <2>4, <2>5, <2>6, <2>7 DEF Next, Execute
<1>2. TypeOK /\ [Next]_vars =>
        (Execute => Nearer) /\ (Nearer \/ UNCHANGED <<index, phase, attempt>>)
  BY <1>1
<1> QED
  BY <1>2, TypeCorrect, PTL DEF Spec, ExecuteCounts
=============================================================================
