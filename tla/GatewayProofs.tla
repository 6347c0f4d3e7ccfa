--------------------------- MODULE GatewayProofs ---------------------------
(***************************************************************************)
(* Proofs about the Go gateway, for every set of traces, every number of   *)
(* workers and every queue limit: what GeneratedPolicy.Order computes, and *)
(* that Gateway.Run keeps the safety part of its contract.                 *)
(***************************************************************************)
EXTENDS Gateway, FiniteSetTheorems, WellFoundedInduction, TLAPS

(* The least-number principle for a set, which serves as induction.        *)
LEMMA LeastNatural ==
  ASSUME NEW T, T \subseteq Nat, T # {}
  PROVE  \E x \in T : \A y \in T : ~(y < x)
<1>1. IsWellFoundedOn(OpToRel(<, Nat), Nat)
  BY NatLessThanWellFounded
<1>2. PICK x \in T : \A y \in T : <<y, x>> \notin OpToRel(<, Nat)
  BY <1>1, WFMin
<1>3. \A y \in T : ~(y < x)
  BY <1>2 DEF OpToRel
<1> QED
  BY <1>3

Requests == [id : STRING, delay : Nat]

-----------------------------------------------------------------------------
(* GeneratedPolicy.Order.                                                  *)

Sorted(s, n) == \A i, j \in 1..n : i < j => s[i].delay <= s[j].delay

(* t holds the elements of s at other positions.                           *)
Permuted(t, s) ==
  /\ t \in Seq(Requests) /\ Len(t) = Len(s)
  /\ \E p \in [1..Len(s) -> 1..Len(s)] :
       /\ \A i, j \in 1..Len(s) : p[i] = p[j] => i = j
       /\ \A j \in 1..Len(s) : \E i \in 1..Len(s) : p[i] = j
       /\ \A i \in 1..Len(s) : t[i] = s[p[i]]

Landing(s, i, f) ==
  f = [j \in 1..i |-> IF j > 1 /\ s[i].delay < s[j - 1].delay THEN f[j - 1] ELSE j]

LEMMA LandingExists ==
  ASSUME NEW s, NEW i \in Nat
  PROVE  \E f : Landing(s, i, f)
<1> DEFINE L(n, f) == f = [j \in 1..n |-> IF j > 1 /\ s[i].delay < s[j - 1].delay THEN f[j - 1] ELSE j]
           T == {n \in Nat : ~\E f : L(n, f)}
<1>1. T = {}
  <2> SUFFICES ASSUME T # {} PROVE FALSE
    OBVIOUS
  <2>1. PICK n \in T : \A m \in T : ~(m < n)
    BY LeastNatural
  <2>2. CASE n = 0
    <3>1. L(0, [j \in 1..0 |-> j])
      OBVIOUS
    <3> QED
      BY <2>2, <3>1
  <2>3. CASE n # 0
    <3>1. n - 1 \in Nat /\ n - 1 \notin T
      BY <2>1, <2>3
    <3>2. PICK f : L(n - 1, f)
      BY <3>1
    <3> DEFINE g == [j \in 1..n |-> IF j = n
                                   THEN IF n > 1 /\ s[i].delay < s[n - 1].delay THEN f[n - 1] ELSE n
                                   ELSE f[j]]
    <3>3. \A j \in 1..n : g[j] = IF j > 1 /\ s[i].delay < s[j - 1].delay THEN g[j - 1] ELSE j
      BY <2>3, <3>1, <3>2
    <3>4. L(n, g)
      BY <3>3
    <3> QED
      BY <3>4
  <2> QED
    BY <2>2, <2>3
<1> QED
  BY <1>1 DEF Landing

(* Where element i lands: below it only smaller or equal delays next to    *)
(* it, above it only larger ones.                                          *)
LEMMA LandingIs ==
  ASSUME NEW s \in Seq(Requests), NEW i \in 1..Len(s), NEW f, Landing(s, i, f)
  PROVE  \A j \in 1..i :
           /\ f[j] \in 1..j
           /\ f[j] > 1 => s[f[j] - 1].delay <= s[i].delay
           /\ \A m \in f[j]..(j - 1) : s[i].delay < s[m].delay
<1> DEFINE Good(j) == /\ f[j] \in 1..j
                      /\ f[j] > 1 => s[f[j] - 1].delay <= s[i].delay
                      /\ \A m \in f[j]..(j - 1) : s[i].delay < s[m].delay
           T == {j \in 1..i : ~Good(j)}
<1> SUFFICES ASSUME T # {} PROVE FALSE
  OBVIOUS
<1>0. T \subseteq Nat
  OBVIOUS
<1>1. PICK j \in T : \A m \in T : ~(m < j)
  BY <1>0, LeastNatural, Zenon
<1>2. \A m \in 1..i : s[m].delay \in Nat
  <2>1. \A m \in 1..i : s[m] \in Requests
    OBVIOUS
  <2> QED
    BY <2>1 DEF Requests
<1>3. f[j] = IF j > 1 /\ s[i].delay < s[j - 1].delay THEN f[j - 1] ELSE j
  BY DEF Landing
<1>4. CASE j > 1 /\ s[i].delay < s[j - 1].delay
  <2>1. j - 1 \in 1..i /\ Good(j - 1)
    BY <1>1, <1>4
  <2>2. f[j] = f[j - 1]
    BY <1>3, <1>4
  <2> QED
    BY <1>2, <1>4, <2>1, <2>2
<1>5. CASE ~(j > 1 /\ s[i].delay < s[j - 1].delay)
  <2>1. f[j] = j
    BY <1>3, <1>5
  <2>2. j > 1 => s[j - 1].delay <= s[i].delay
    BY <1>2, <1>5
  <2>3. \A m \in j..(j - 1) : FALSE
    OBVIOUS
  <2> QED
    BY <2>1, <2>2, <2>3
<1> QED
  BY <1>4, <1>5

(* One round of the insertion sort.                                        *)
LEMMA InsertIs ==
  ASSUME NEW s \in Seq(Requests), NEW i \in 1..Len(s)
  PROVE  \E k \in 1..i :
           /\ Insert(s, i) = [n \in 1..Len(s) |-> IF n < k \/ n > i THEN s[n]
                                                 ELSE IF n = k THEN s[i] ELSE s[n - 1]]
           /\ k > 1 => s[k - 1].delay <= s[i].delay
           /\ \A m \in k..(i - 1) : s[i].delay < s[m].delay
<1> DEFINE f == CHOOSE g : Landing(s, i, g)
<1>0. \E g : Landing(s, i, g)
  <2>1. i \in Nat
    OBVIOUS
  <2> QED
    BY <2>1, LandingExists, Zenon
<1>1. Landing(s, i, f)
  BY <1>0, Zenon
<1>2. Insert(s, i) = [n \in 1..Len(s) |-> IF n < f[i] \/ n > i THEN s[n]
                                         ELSE IF n = f[i] THEN s[i] ELSE s[n - 1]]
  BY DEF Insert, Landing
<1> HIDE DEF f
<1>3. /\ f[i] \in 1..i
      /\ f[i] > 1 => s[f[i] - 1].delay <= s[i].delay
      /\ \A m \in f[i]..(i - 1) : s[i].delay < s[m].delay
  BY <1>1, LandingIs
<1> QED
  BY <1>2, <1>3

LEMMA InsertPermutes ==
  ASSUME NEW s \in Seq(Requests), NEW i \in 1..Len(s)
  PROVE  Permuted(Insert(s, i), s)
<1>1. PICK k \in 1..i :
        /\ Insert(s, i) = [n \in 1..Len(s) |-> IF n < k \/ n > i THEN s[n]
                                              ELSE IF n = k THEN s[i] ELSE s[n - 1]]
        /\ k > 1 => s[k - 1].delay <= s[i].delay
        /\ \A m \in k..(i - 1) : s[i].delay < s[m].delay
  BY InsertIs
<1> DEFINE p == [n \in 1..Len(s) |-> IF n < k \/ n > i THEN n ELSE IF n = k THEN i ELSE n - 1]
<1>2. p \in [1..Len(s) -> 1..Len(s)]
  OBVIOUS
<1>3. /\ \A m, n \in 1..Len(s) : p[m] = p[n] => m = n
      /\ \A j \in 1..Len(s) : \E n \in 1..Len(s) : p[n] = j
  <2>1. \A m, n \in 1..Len(s) : p[m] = p[n] => m = n
    OBVIOUS
  <2>2. ASSUME NEW j \in 1..Len(s)
        PROVE  \E n \in 1..Len(s) : p[n] = j
    <3> DEFINE n == IF j < k \/ j > i THEN j ELSE IF j = i THEN k ELSE j + 1
    <3>1. n \in 1..Len(s) /\ p[n] = j
      BY <1>1
    <3> QED
      BY <3>1
  <2> QED
    BY <2>1, <2>2
<1>4. \A n \in 1..Len(s) : Insert(s, i)[n] = s[p[n]]
  BY <1>1
<1>5. Insert(s, i) \in Seq(Requests) /\ Len(Insert(s, i)) = Len(s)
  <2>1. \A n \in 1..Len(s) : Insert(s, i)[n] \in Requests
    BY <1>2, <1>4
  <2>2. DOMAIN Insert(s, i) = 1..Len(s) /\ Insert(s, i) = [n \in 1..Len(s) |-> Insert(s, i)[n]]
    BY <1>1
  <2> QED
    BY <2>1, <2>2
<1> HIDE DEF p
<1> QED
  BY <1>2, <1>3, <1>4, <1>5 DEF Permuted

LEMMA InsertSorts ==
  ASSUME NEW s \in Seq(Requests), NEW i \in 1..Len(s), Sorted(s, i - 1)
  PROVE  Sorted(Insert(s, i), i)
<1>1. PICK k \in 1..i :
        /\ Insert(s, i) = [n \in 1..Len(s) |-> IF n < k \/ n > i THEN s[n]
                                              ELSE IF n = k THEN s[i] ELSE s[n - 1]]
        /\ k > 1 => s[k - 1].delay <= s[i].delay
        /\ \A m \in k..(i - 1) : s[i].delay < s[m].delay
  BY InsertIs
<1> DEFINE t == Insert(s, i)
           d == [n \in 1..Len(s) |-> s[n].delay]
<1>2. \A n \in 1..Len(s) : d[n] \in Nat
  <2>1. \A n \in 1..Len(s) : s[n] \in Requests
    OBVIOUS
  <2> QED
    BY <2>1 DEF Requests
<1>3. \A n \in 1..i : t[n].delay = IF n < k THEN d[n] ELSE IF n = k THEN d[i] ELSE d[n - 1]
  BY <1>1
<1>4. \A m, n \in 1..(i - 1) : m < n => d[m] <= d[n]
  BY DEF Sorted
<1>5. /\ k > 1 => d[k - 1] <= d[i]
      /\ \A m \in k..(i - 1) : d[i] < d[m]
  BY <1>1
<1> HIDE DEF t, d
<1>6. ASSUME NEW m \in 1..i, NEW n \in 1..i, m < n
      PROVE  t[m].delay <= t[n].delay
  <2>1. CASE n < k
    BY <1>3, <1>4, <1>6, <2>1
  <2>2. CASE n = k
    <3>1. m \in 1..(k - 1) /\ k - 1 \in 1..(i - 1)
      BY <1>6, <2>2
    <3>2. d[m] <= d[k - 1] /\ d[m] \in Nat /\ d[k - 1] \in Nat /\ d[i] \in Nat
      BY <1>2, <1>4, <3>1
    <3>3. d[m] <= d[i]
      BY <1>5, <3>1, <3>2
    <3> QED
      BY <1>3, <1>6, <2>2, <3>3
  <2>3. CASE n > k
    <3>1. n - 1 \in k..(i - 1) /\ t[n].delay = d[n - 1]
      BY <1>3, <1>6, <2>3
    <3>2. CASE m < k
      BY <1>3, <1>4, <1>6, <3>1, <3>2
    <3>3. CASE m = k
      BY <1>2, <1>3, <1>5, <1>6, <3>1, <3>3
    <3>4. CASE m > k
      BY <1>3, <1>4, <1>6, <3>1, <3>4
    <3> QED
      BY <3>2, <3>3, <3>4
  <2> QED
    BY <2>1, <2>2, <2>3
<1> QED
  BY <1>6 DEF Sorted, t

LEMMA PermutedTransitive ==
  ASSUME NEW s, NEW t, NEW u, Len(s) \in Nat, Permuted(t, s), Permuted(u, t)
  PROVE  Permuted(u, s)
<1>1. PICK p \in [1..Len(s) -> 1..Len(s)] :
        /\ \A i, j \in 1..Len(s) : p[i] = p[j] => i = j
        /\ \A j \in 1..Len(s) : \E i \in 1..Len(s) : p[i] = j
        /\ \A i \in 1..Len(s) : t[i] = s[p[i]]
  BY DEF Permuted
<1>0. Len(t) = Len(s)
  BY DEF Permuted
<1>2. PICK q \in [1..Len(t) -> 1..Len(t)] :
        /\ \A i, j \in 1..Len(t) : q[i] = q[j] => i = j
        /\ \A j \in 1..Len(t) : \E i \in 1..Len(t) : q[i] = j
        /\ \A i \in 1..Len(t) : u[i] = t[q[i]]
  BY DEF Permuted
<1> DEFINE r == [i \in 1..Len(s) |-> p[q[i]]]
<1>3. /\ r \in [1..Len(s) -> 1..Len(s)]
      /\ \A i, j \in 1..Len(s) : r[i] = r[j] => i = j
      /\ \A j \in 1..Len(s) : \E i \in 1..Len(s) : r[i] = j
      /\ \A i \in 1..Len(s) : u[i] = s[r[i]]
  <2>1. \A i \in 1..Len(s) : q[i] \in 1..Len(s) /\ r[i] = p[q[i]]
    BY <1>0, <1>2
  <2>2. ASSUME NEW j \in 1..Len(s) PROVE \E i \in 1..Len(s) : r[i] = j
    <3>1. PICK m \in 1..Len(s) : p[m] = j
      BY <1>1
    <3>2. PICK i \in 1..Len(s) : q[i] = m
      BY <1>0, <1>2
    <3> QED
      BY <2>1, <3>1, <3>2
  <2>3. r \in [1..Len(s) -> 1..Len(s)]
    BY <1>1, <2>1
  <2>4. ASSUME NEW i \in 1..Len(s), NEW j \in 1..Len(s), r[i] = r[j]
        PROVE  i = j
    <3>1. q[i] = q[j]
      BY <1>1, <2>1, <2>4
    <3> QED
      BY <1>0, <1>2, <3>1
  <2>5. \A i \in 1..Len(s) : u[i] = s[r[i]]
    BY <1>0, <1>1, <1>2, <2>1
  <2> QED
    BY <2>2, <2>3, <2>4, <2>5
<1>4. u \in Seq(Requests) /\ Len(u) = Len(s)
  BY DEF Permuted
<1> HIDE DEF r
<1> QED
  BY <1>3, <1>4 DEF Permuted

LEMMA PermutedReflexive ==
  ASSUME NEW s \in Seq(Requests)
  PROVE  Permuted(s, s)
<1> DEFINE p == [i \in 1..Len(s) |-> i]
<1>1. /\ p \in [1..Len(s) -> 1..Len(s)]
      /\ \A i, j \in 1..Len(s) : p[i] = p[j] => i = j
      /\ \A j \in 1..Len(s) : \E i \in 1..Len(s) : p[i] = j
      /\ \A i \in 1..Len(s) : s[i] = s[p[i]]
  OBVIOUS
<1> HIDE DEF p
<1> QED
  BY <1>1 DEF Permuted

Sorting(s, f) ==
  f = [i \in 0..Len(s) |-> IF i <= 1 THEN s ELSE Insert(f[i - 1], i)]

LEMMA SortingExists ==
  ASSUME NEW s \in Seq(Requests)
  PROVE  \E f : Sorting(s, f)
<1> DEFINE L(n, f) == f = [i \in 0..n |-> IF i <= 1 THEN s ELSE Insert(f[i - 1], i)]
           T == {n \in Nat : ~\E f : L(n, f)}
<1>1. T = {}
  <2> SUFFICES ASSUME T # {} PROVE FALSE
    OBVIOUS
  <2>1. PICK n \in T : \A m \in T : ~(m < n)
    BY LeastNatural
  <2>2. CASE n = 0
    <3> DEFINE g == [i \in 0..0 |-> s]
    <3>1. L(0, g)
      <4>1. \A i \in 0..0 : (IF i <= 1 THEN s ELSE Insert(g[i - 1], i)) = s
        OBVIOUS
      <4> QED
        BY <4>1
    <3> QED
      BY <2>2, <3>1
  <2>3. CASE n # 0
    <3>0. n \in Nat /\ n - 1 \in Nat /\ n - 1 < n
      BY <2>3
    <3>1. n - 1 \in Nat /\ n - 1 \notin T
      BY <2>1, <3>0, Zenon
    <3>2. PICK f : L(n - 1, f)
      BY <3>1
    <3> DEFINE g == [i \in 0..n |-> IF i = n THEN IF n <= 1 THEN s ELSE Insert(f[n - 1], n)
                                    ELSE f[i]]
    <3>3. \A i \in 0..n : g[i] = IF i <= 1 THEN s ELSE Insert(g[i - 1], i)
      BY <2>3, <3>0, <3>2
    <3>4. L(n, g)
      BY <3>3
    <3> QED
      BY <3>4
  <2> QED
    BY <2>2, <2>3
<1>2. Len(s) \in Nat
  OBVIOUS
<1> QED
  BY <1>1, <1>2 DEF Sorting

(* The insertion sort, round by round.                                     *)
LEMMA SortingIs ==
  ASSUME NEW s \in Seq(Requests), NEW f, Sorting(s, f)
  PROVE  \A i \in 0..Len(s) : Permuted(f[i], s) /\ Sorted(f[i], i)
<1> DEFINE T == {i \in 0..Len(s) : ~(Permuted(f[i], s) /\ Sorted(f[i], i))}
<1> SUFFICES ASSUME T # {} PROVE FALSE
  OBVIOUS
<1>0. T \subseteq Nat
  OBVIOUS
<1>1. PICK i \in T : \A m \in T : ~(m < i)
  BY <1>0, LeastNatural, Zenon
<1>2. f[i] = IF i <= 1 THEN s ELSE Insert(f[i - 1], i)
  BY DEF Sorting
<1>3. CASE i <= 1
  <2>1. Permuted(s, s)
    BY PermutedReflexive
  <2>2. Sorted(s, i)
    BY <1>3 DEF Sorted
  <2> QED
    BY <1>2, <1>3, <2>1, <2>2
<1>4. CASE i > 1
  <2> DEFINE t == f[i - 1]
  <2>1. i - 1 \in 0..Len(s) /\ i - 1 \notin T
    BY <1>1, <1>4
  <2>2. Permuted(t, s) /\ Sorted(t, i - 1)
    BY <2>1
  <2>3. f[i] = Insert(t, i)
    BY <1>2, <1>4
  <2> HIDE DEF t
  <2>4. t \in Seq(Requests) /\ Len(t) = Len(s) /\ i \in 1..Len(t)
    BY <1>4, <2>2 DEF Permuted
  <2>5. Permuted(Insert(t, i), t) /\ Sorted(Insert(t, i), i)
    BY <2>2, <2>4, InsertPermutes, InsertSorts
  <2>6. Permuted(Insert(t, i), s)
    BY <2>2, <2>5, PermutedTransitive
  <2> QED
    BY <2>3, <2>5, <2>6
<1> QED
  BY <1>3, <1>4

(* GeneratedPolicy.Order returns the requests it was given, each exactly   *)
(* once, in the order of their delays: the insertion sort is a sort, for   *)
(* every input.                                                            *)
THEOREM OrderTheorem ==
  ASSUME NEW s \in Seq(Requests)
  PROVE  Permuted(GeneratedOrder(s), s) /\ Sorted(GeneratedOrder(s), Len(s))
<1> DEFINE f == CHOOSE g : Sorting(s, g)
<1>1. Sorting(s, f)
  BY SortingExists, Zenon
<1>2. GeneratedOrder(s) = f[Len(s)]
  BY DEF GeneratedOrder, Sorting
<1> HIDE DEF f
<1>3. Len(s) \in 0..Len(s)
  OBVIOUS
<1> QED
  BY <1>1, <1>2, <1>3, SortingIs

-----------------------------------------------------------------------------
(* The inductive invariant.  A request is in exactly one place: still in   *)
(* the feeder's queue, held by a worker, answered in results, or collected *)
(* in out; only a cancelled context loses one.                             *)

Busy(w) == pc[w] \in {"delay", "send"}
Held == {job[w].id : w \in {v \in Workers : Busy(v)}}

DistinctIds(s) == \A i, j \in 1..Len(s) : s[i].id = s[j].id => i = j
Distinct(s) == \A i, j \in 1..Len(s) : s[i] = s[j] => i = j

Types ==
  /\ trace \in Traces /\ count \in Nat /\ policy \in Policies
  /\ in \in Seq(Requests) /\ queue \in Seq(Requests)
  /\ feeder \in {"feeding", "done"} /\ jobs_closed \in BOOLEAN
  /\ pc \in [Workers -> {"idle", "delay", "send", "done"}]
  /\ job \in [Workers -> Requests \cup {None}]
  /\ results \in Seq(STRING) /\ out \in Seq(STRING)
  /\ results_closed \in BOOLEAN /\ ctx_done \in BOOLEAN
  /\ returned \in {"parse", "running", "refused", "cancelled", "ok"}

(* Before the admission check, and after a refusal, nothing has started.   *)
Fresh ==
  ~Running => /\ in = <<>> /\ queue = <<>> /\ results = <<>> /\ out = <<>>
              /\ \A w \in Workers : pc[w] = "idle"
              /\ feeder = "feeding" /\ ~ctx_done /\ ~results_closed

Admitted ==
  Running => /\ count # 0
             /\ DistinctIds(in) /\ Ids(in) = Ids(trace)

OnePlace ==
  /\ DistinctIds(queue) /\ Distinct(results) /\ Distinct(out)
  /\ \A v, w \in Workers : Busy(v) /\ Busy(w) /\ job[v].id = job[w].id => v = w
  /\ Ids(queue) \cap Held = {}
  /\ Ids(queue) \cap Elements(results) = {}
  /\ Ids(queue) \cap Elements(out) = {}
  /\ Held \cap Elements(results) = {}
  /\ Held \cap Elements(out) = {}
  /\ Elements(results) \cap Elements(out) = {}

Everywhere == Ids(queue) \cup Held \cup Elements(results) \cup Elements(out)

NoneLost == /\ Everywhere \subseteq Ids(in)
            /\ ~ctx_done => Ids(in) \subseteq Everywhere

(* The channels are closed in order, and without a cancellation a closed   *)
(* jobs channel means that everything was fed.                             *)
Closing ==
  /\ results_closed => \A w \in Workers : pc[w] = "done"
  /\ jobs_closed <=> feeder = "done"
  /\ ~ctx_done /\ jobs_closed => queue = <<>>
  /\ ~ctx_done => \A w \in Workers : pc[w] = "done" => jobs_closed
  /\ returned \in {"cancelled", "ok"} => results_closed /\ results = <<>>

IInv == Types /\ Fresh /\ Admitted /\ OnePlace /\ NoneLost /\ Closing

-----------------------------------------------------------------------------
(* Sequences and the sets of their elements.                               *)

LEMMA ElementOf ==
  ASSUME NEW S, NEW s \in Seq(S), NEW i \in 1..Len(s)
  PROVE  s[i] \in S
  OBVIOUS

LEMMA PermutedIds ==
  ASSUME NEW s \in Seq(Requests), NEW t, Permuted(t, s), DistinctIds(s)
  PROVE  Ids(t) = Ids(s) /\ DistinctIds(t)
<1>1. PICK p \in [1..Len(s) -> 1..Len(s)] :
        /\ \A i, j \in 1..Len(s) : p[i] = p[j] => i = j
        /\ \A j \in 1..Len(s) : \E i \in 1..Len(s) : p[i] = j
        /\ \A i \in 1..Len(s) : t[i] = s[p[i]]
  BY DEF Permuted
<1>2. Len(t) = Len(s)
  BY DEF Permuted
<1>3. Ids(t) \subseteq Ids(s)
  BY <1>1, <1>2 DEF Ids
<1>4. Ids(s) \subseteq Ids(t)
  <2>1. ASSUME NEW j \in 1..Len(s) PROVE s[j].id \in Ids(t)
    <3>1. PICK i \in 1..Len(s) : p[i] = j
      BY <1>1
    <3>2. i \in 1..Len(t) /\ t[i] = s[j]
      BY <1>1, <1>2, <3>1
    <3> QED
      BY <3>2 DEF Ids
  <2> QED
    BY <2>1 DEF Ids
<1>5. ASSUME NEW i \in 1..Len(t), NEW j \in 1..Len(t), t[i].id = t[j].id
      PROVE  i = j
  <2>1. p[i] \in 1..Len(s) /\ p[j] \in 1..Len(s) /\ s[p[i]].id = s[p[j]].id
    BY <1>1, <1>2, <1>5
  <2>2. p[i] = p[j]
    BY <2>1 DEF DistinctIds
  <2> QED
    BY <1>1, <1>2, <2>2
<1> QED
  BY <1>3, <1>4, <1>5 DEF DistinctIds

LEMMA TakeRequest ==
  ASSUME NEW q \in Seq(Requests), q # <<>>, DistinctIds(q)
  PROVE  /\ Head(q) \in Requests /\ Tail(q) \in Seq(Requests)
         /\ Ids(q) = {Head(q).id} \cup Ids(Tail(q))
         /\ Head(q).id \notin Ids(Tail(q))
         /\ DistinctIds(Tail(q))
<1>1. /\ Len(q) \in Nat /\ Len(q) > 0 /\ Head(q) = q[1]
      /\ Head(q) \in Requests /\ Tail(q) \in Seq(Requests) /\ Len(Tail(q)) = Len(q) - 1
  OBVIOUS
<1>2. \A i \in 1..(Len(q) - 1) : Tail(q)[i] = q[i + 1]
  OBVIOUS
<1>3. ASSUME NEW i \in 1..Len(q) PROVE q[i].id \in {Head(q).id} \cup Ids(Tail(q))
  <2>1. CASE i = 1
    BY <1>1, <2>1
  <2>2. CASE i # 1
    <3>1. i - 1 \in 1..Len(Tail(q)) /\ Tail(q)[i - 1] = q[i]
      BY <1>1, <1>2, <2>2
    <3> QED
      BY <3>1 DEF Ids
  <2> QED
    BY <2>1, <2>2
<1>4. Ids(q) \subseteq {Head(q).id} \cup Ids(Tail(q))
  BY <1>3 DEF Ids
<1>5. {Head(q).id} \cup Ids(Tail(q)) \subseteq Ids(q)
  <2>1. Head(q).id \in Ids(q)
    BY <1>1 DEF Ids
  <2>2. ASSUME NEW i \in 1..Len(Tail(q)) PROVE Tail(q)[i].id \in Ids(q)
    <3>1. i + 1 \in 1..Len(q) /\ Tail(q)[i] = q[i + 1]
      BY <1>1, <1>2
    <3> QED
      BY <3>1 DEF Ids
  <2> QED
    BY <2>1, <2>2 DEF Ids
<1>6. Head(q).id \notin Ids(Tail(q))
  BY <1>1, <1>2 DEF Ids, DistinctIds
<1>7. DistinctIds(Tail(q))
  <2>1. ASSUME NEW i \in 1..Len(Tail(q)), NEW j \in 1..Len(Tail(q)), Tail(q)[i].id = Tail(q)[j].id
        PROVE  i = j
    <3>1. i + 1 \in 1..Len(q) /\ j + 1 \in 1..Len(q) /\ q[i + 1].id = q[j + 1].id
      BY <1>1, <1>2, <2>1
    <3>2. i + 1 = j + 1
      BY <3>1 DEF DistinctIds
    <3> QED
      BY <3>2
  <2> QED
    BY <2>1 DEF DistinctIds
<1> QED
  BY <1>1, <1>4, <1>5, <1>6, <1>7

LEMMA TakeResult ==
  ASSUME NEW q \in Seq(STRING), q # <<>>, Distinct(q)
  PROVE  /\ Head(q) \in STRING /\ Tail(q) \in Seq(STRING)
         /\ Elements(q) = {Head(q)} \cup Elements(Tail(q))
         /\ Head(q) \notin Elements(Tail(q))
         /\ Distinct(Tail(q))
<1>1. /\ Len(q) \in Nat /\ Len(q) > 0 /\ Head(q) = q[1]
      /\ Head(q) \in STRING /\ Tail(q) \in Seq(STRING) /\ Len(Tail(q)) = Len(q) - 1
  OBVIOUS
<1>2. \A i \in 1..(Len(q) - 1) : Tail(q)[i] = q[i + 1]
  OBVIOUS
<1>3. ASSUME NEW i \in 1..Len(q) PROVE q[i] \in {Head(q)} \cup Elements(Tail(q))
  <2>1. CASE i = 1
    BY <1>1, <2>1
  <2>2. CASE i # 1
    <3>1. i - 1 \in 1..Len(Tail(q)) /\ Tail(q)[i - 1] = q[i]
      BY <1>1, <1>2, <2>2
    <3> QED
      BY <3>1 DEF Elements
  <2> QED
    BY <2>1, <2>2
<1>4. Elements(q) \subseteq {Head(q)} \cup Elements(Tail(q))
  BY <1>3 DEF Elements
<1>5. {Head(q)} \cup Elements(Tail(q)) \subseteq Elements(q)
  <2>1. Head(q) \in Elements(q)
    BY <1>1 DEF Elements
  <2>2. ASSUME NEW i \in 1..Len(Tail(q)) PROVE Tail(q)[i] \in Elements(q)
    <3>1. i + 1 \in 1..Len(q) /\ Tail(q)[i] = q[i + 1]
      BY <1>1, <1>2
    <3> QED
      BY <3>1 DEF Elements
  <2> QED
    BY <2>1, <2>2 DEF Elements
<1>6. Head(q) \notin Elements(Tail(q))
  BY <1>1, <1>2 DEF Elements, Distinct
<1>7. Distinct(Tail(q))
  <2>1. ASSUME NEW i \in 1..Len(Tail(q)), NEW j \in 1..Len(Tail(q)), Tail(q)[i] = Tail(q)[j]
        PROVE  i = j
    <3>1. i + 1 \in 1..Len(q) /\ j + 1 \in 1..Len(q) /\ q[i + 1] = q[j + 1]
      BY <1>1, <1>2, <2>1
    <3>2. i + 1 = j + 1
      BY <3>1 DEF Distinct
    <3> QED
      BY <3>2
  <2> QED
    BY <2>1 DEF Distinct
<1> QED
  BY <1>1, <1>4, <1>5, <1>6, <1>7

LEMMA AddResult ==
  ASSUME NEW S, NEW s \in Seq(S), NEW x \in S, Distinct(s), x \notin Elements(s)
  PROVE  /\ Append(s, x) \in Seq(S)
         /\ Elements(Append(s, x)) = Elements(s) \cup {x}
         /\ Distinct(Append(s, x))
<1> DEFINE t == Append(s, x)
<1>1. t \in Seq(S) /\ Len(t) = Len(s) + 1 /\ Len(s) \in Nat
  OBVIOUS
<1>2. t[Len(s) + 1] = x /\ \A i \in 1..Len(s) : t[i] = s[i]
  OBVIOUS
<1> HIDE DEF t
<1>3. Elements(t) = Elements(s) \cup {x}
  BY <1>1, <1>2 DEF Elements
<1>4. Distinct(t)
  BY <1>1, <1>2 DEF Elements, Distinct
<1> QED
  BY <1>1, <1>3, <1>4 DEF t

(* The length of a sequence without repetitions counts its elements.       *)
LEMMA CountIds ==
  ASSUME NEW s \in Seq(Requests), DistinctIds(s)
  PROVE  IsFiniteSet(Ids(s)) /\ Cardinality(Ids(s)) = Len(s)
<1> DEFINE f == [i \in 1..Len(s) |-> s[i].id]
<1>1. f \in Bijection(1..Len(s), Ids(s))
  BY DEF Ids, DistinctIds, Bijection, Injection, Surjection, IsInjective
<1>2. ExistsBijection(1..Len(s), Ids(s)) /\ Len(s) \in Nat
  BY <1>1 DEF ExistsBijection
<1> QED
  BY <1>2, FS_NatBijection, FS_CountingElements

LEMMA CountElements ==
  ASSUME NEW s \in Seq(STRING), Distinct(s)
  PROVE  IsFiniteSet(Elements(s)) /\ Cardinality(Elements(s)) = Len(s)
<1> DEFINE f == [i \in 1..Len(s) |-> s[i]]
<1>1. f \in Bijection(1..Len(s), Elements(s))
  BY DEF Elements, Distinct, Bijection, Injection, Surjection, IsInjective
<1>2. ExistsBijection(1..Len(s), Elements(s)) /\ Len(s) \in Nat
  BY <1>1 DEF ExistsBijection
<1> QED
  BY <1>2, FS_NatBijection, FS_CountingElements

-----------------------------------------------------------------------------
(* Every action keeps the inductive invariant.                             *)

LEMMA InitHolds == Init => IInv
<1> SUFFICES ASSUME Init PROVE IInv
  OBVIOUS
<1>1. count \in Nat
  BY BoundsAssumption DEF Init
<1>2. Types
  <2>2. /\ pc \in [Workers -> {"idle", "delay", "send", "done"}]
        /\ job \in [Workers -> Requests \cup {None}]
    BY DEF Init
  <2>3. /\ in \in Seq(Requests) /\ queue \in Seq(Requests)
        /\ results \in Seq(STRING) /\ out \in Seq(STRING)
    BY DEF Init
  <2> QED
    BY <1>1, <2>2, <2>3 DEF Init, Types
<1>3. Fresh /\ Admitted /\ Closing
  BY <1>1 DEF Init, Fresh, Admitted, Running, Closing
<1>4. Ids(queue) = {} /\ Elements(results) = {} /\ Elements(out) = {} /\ Held = {}
  BY DEF Init, Ids, Elements, Held, Busy
<1>5. OnePlace
  BY <1>4 DEF Init, OnePlace, DistinctIds, Distinct, Busy
<1>6. NoneLost
  <2>1. Ids(in) = {}
    BY DEF Init, Ids
  <2> QED
    BY <1>4, <2>1 DEF NoneLost, Everywhere
<1> QED
  BY <1>2, <1>3, <1>5, <1>6 DEF IInv

LEMMA OrderPermutes ==
  ASSUME NEW s \in Seq(Requests), NEW p \in Policies
  PROVE  Permuted(Order(p, s), s)
  BY PermutedReflexive, OrderTheorem DEF Order

(* Before Run starts, nothing is anywhere.                                 *)
LEMMA FreshIsEmpty ==
  ASSUME IInv, ~Running
  PROVE  /\ Ids(queue) = {} /\ Elements(results) = {} /\ Elements(out) = {}
         /\ Held = {} /\ Ids(in) = {}
  BY DEF IInv, Fresh, Ids, Elements, Held, Busy

LEMMA StartKeeps ==
  ASSUME IInv, start
  PROVE  IInv'
<1>1. ~Running
  BY DEF start, Running
<1>2. CASE Accepted(trace) /\ count \in 1..MaxWorkers
  <2> DEFINE requests == [i \in 1..Len(trace) |-> [id |-> trace[i].id, delay |-> trace[i].delay]]
  <2>1. in' = requests /\ queue' = Order(policy, requests) /\ returned' = "running"
    BY <1>2 DEF start
  <2>2. UNCHANGED <<trace, count, policy, feeder, jobs_closed, pc, job, results,
                    results_closed, out, ctx_done>>
    BY DEF start
  <2>3. trace \in Seq([id : STRING, valid : BOOLEAN, delay : Nat])
    BY BoundsAssumption DEF IInv, Types
  <2>4. requests \in Seq(Requests) /\ Len(requests) = Len(trace)
    <3>1. \A i \in 1..Len(trace) : trace[i] \in [id : STRING, valid : BOOLEAN, delay : Nat]
      BY <2>3, ElementOf
    <3>2. \A i \in 1..Len(trace) : requests[i] \in Requests
      BY <3>1 DEF Requests
    <3>3. Len(trace) \in Nat
      BY <2>3
    <3> QED
      BY <3>2, <3>3
  <2>5. \A i \in 1..Len(trace) : requests[i].id = trace[i].id
    OBVIOUS
  <2> HIDE DEF requests
  <2>6. Ids(requests) = Ids(trace)
    BY <2>4, <2>5 DEF Ids
  <2>7. DistinctIds(requests)
    BY <1>2, <2>4, <2>5 DEF Accepted, DistinctIds
  <2>8. Permuted(queue', requests)
    <3>1. policy \in Policies
      BY DEF IInv, Types
    <3> QED
      BY <2>1, <2>4, <3>1, OrderPermutes
  <2>9. /\ queue' \in Seq(Requests)
        /\ Ids(queue') = Ids(requests) /\ DistinctIds(queue')
    BY <2>4, <2>7, <2>8, PermutedIds DEF Permuted
  <2>10. Types'
    BY <2>1, <2>2, <2>4, <2>9 DEF IInv, Types, Workers
  <2>11. Fresh' /\ Admitted'
    <3>1. Ids(trace)' = Ids(trace) /\ Ids(in)' = Ids(requests) /\ DistinctIds(in)' = DistinctIds(requests)
      BY <2>1, <2>2 DEF Ids, DistinctIds
    <3>2. Running' /\ count' # 0
      BY <1>2, <2>1, <2>2 DEF Running
    <3> QED
      BY <2>6, <2>7, <3>1, <3>2 DEF Fresh, Admitted
  <2>12. Closing'
    <3>1. /\ ~results_closed /\ feeder = "feeding" /\ ~jobs_closed
          /\ \A v \in Workers : pc[v] = "idle"
      BY <1>1 DEF IInv, Fresh, Closing
    <3> QED
      BY <2>1, <2>2, <3>1 DEF Closing, Workers
  <2>13. /\ Elements(results)' = {} /\ Elements(out)' = {} /\ Held' = {}
         /\ Ids(queue)' = Ids(requests) /\ Ids(in)' = Ids(requests)
    <3>1. Elements(results)' = Elements(results) /\ Elements(out)' = Elements(out) /\ Held' = Held
      BY <2>2 DEF Elements, Held, Busy, Workers
    <3> QED
      BY <1>1, <2>1, <2>9, <3>1, FreshIsEmpty DEF Ids
  <2>14. OnePlace'
    <3>1. DistinctIds(queue)' /\ Distinct(results)' /\ Distinct(out)'
      BY <2>2, <2>9 DEF IInv, OnePlace, DistinctIds, Distinct
    <3>2. \A v \in Workers' : ~Busy(v)'
      BY <1>1, <2>2 DEF IInv, Fresh, Busy, Workers
    <3> QED
      BY <2>13, <3>1, <3>2 DEF OnePlace
  <2>15. NoneLost'
    BY <2>13 DEF NoneLost, Everywhere
  <2> QED
    BY <2>10, <2>11, <2>12, <2>14, <2>15 DEF IInv
<1>3. CASE ~(Accepted(trace) /\ count \in 1..MaxWorkers)
  <2>1. /\ returned = "parse" /\ returned' = "refused"
        /\ UNCHANGED <<trace, count, policy, in, queue, feeder, jobs_closed, pc, job, results,
                       results_closed, out, ctx_done>>
    BY <1>3 DEF start
  <2> QED
    BY <1>1, <2>1 DEF IInv, Types, Fresh, Admitted, OnePlace, NoneLost, Closing, Running, Busy,
                      Held, Everywhere, Ids, Elements, DistinctIds, Distinct, Workers
<1> QED
  BY <1>2, <1>3

LEMMA HandoffKeeps ==
  ASSUME IInv, NEW w \in Workers, handoff(w)
  PROVE  IInv'
<1> DEFINE x == Head(queue).id
<1>1. /\ Running /\ feeder = "feeding" /\ queue # <<>> /\ pc[w] = "idle"
      /\ queue' = Tail(queue)
      /\ pc' = [pc EXCEPT ![w] = "delay"] /\ job' = [job EXCEPT ![w] = Head(queue)]
      /\ UNCHANGED <<trace, count, policy, in, feeder, jobs_closed, results,
                     results_closed, out, ctx_done, returned>>
  BY DEF handoff
<1>2. /\ queue \in Seq(Requests) /\ DistinctIds(queue)
      /\ pc \in [Workers -> {"idle", "delay", "send", "done"}] /\ job \in [Workers -> Requests \cup {None}]
  BY DEF IInv, Types, OnePlace
<1>3. /\ Head(queue) \in Requests /\ queue' \in Seq(Requests)
      /\ Ids(queue) = {x} \cup Ids(queue)' /\ x \notin Ids(queue)' /\ DistinctIds(queue)'
  <2>1. Ids(queue)' = Ids(Tail(queue)) /\ DistinctIds(queue)' = DistinctIds(Tail(queue))
    BY <1>1 DEF Ids, DistinctIds
  <2> QED
    BY <1>1, <1>2, <2>1, TakeRequest
<1>4. /\ Busy(w)' /\ ~Busy(w) /\ job'[w].id = x
      /\ \A v \in Workers : v # w => (Busy(v)' <=> Busy(v)) /\ job'[v] = job[v]
  BY <1>1, <1>2 DEF Busy
<1>5. Workers' = Workers
  BY <1>1 DEF Workers
<1> HIDE DEF x
<1>6. Held' = Held \cup {x}
  BY <1>4, <1>5 DEF Held
<1>7. Types'
  BY <1>1, <1>2, <1>3, <1>5 DEF IInv, Types
<1>8. /\ Elements(results)' = Elements(results) /\ Elements(out)' = Elements(out)
      /\ Ids(in)' = Ids(in) /\ Ids(trace)' = Ids(trace) /\ DistinctIds(in)' = DistinctIds(in)
      /\ Distinct(results)' = Distinct(results) /\ Distinct(out)' = Distinct(out)
  BY <1>1 DEF Ids, Elements, Distinct, DistinctIds
<1>9. Fresh' /\ Admitted'
  BY <1>1, <1>8 DEF IInv, Fresh, Admitted, Running
<1>10. OnePlace'
  <2>1. \A v, u \in Workers : Busy(v)' /\ Busy(u)' /\ job'[v].id = job'[u].id => v = u
    <3>1. \A v \in Workers : Busy(v) => job[v].id # x
      BY <1>3 DEF IInv, OnePlace, Held
    <3> QED
      BY <1>4, <3>1 DEF IInv, OnePlace
  <2> QED
    BY <1>3, <1>5, <1>6, <1>8, <2>1 DEF IInv, OnePlace
<1>11. NoneLost'
  <2>1. Everywhere' = Everywhere
    BY <1>3, <1>6, <1>8 DEF Everywhere
  <2> QED
    BY <1>1, <1>8, <2>1 DEF IInv, NoneLost
<1>12. Closing'
  <2>1. /\ ~results_closed /\ ~jobs_closed
        /\ returned \notin {"cancelled", "ok"}
    BY <1>1 DEF IInv, Closing
  <2>2. \A v \in Workers : pc'[v] = "done" => pc[v] = "done"
    BY <1>1, <1>2
  <2> QED
    BY <1>1, <1>5, <2>1, <2>2 DEF IInv, Closing
<1> QED
  BY <1>7, <1>9, <1>10, <1>11, <1>12 DEF IInv

(* A worker that returns drops what it holds only when the context is done.*)
LEMMA WorkerEndsKeeps ==
  ASSUME IInv, NEW w \in Workers, worker_ends(w)
  PROVE  IInv'
<1>1. /\ Running /\ pc[w] # "done"
      /\ ctx_done \/ (pc[w] = "idle" /\ jobs_closed)
      /\ pc' = [pc EXCEPT ![w] = "done"] /\ job' = [job EXCEPT ![w] = None]
      /\ UNCHANGED <<trace, count, policy, in, queue, feeder, jobs_closed, results,
                     results_closed, out, ctx_done, returned>>
  BY DEF worker_ends
<1>2. /\ pc \in [Workers -> {"idle", "delay", "send", "done"}] /\ job \in [Workers -> Requests \cup {None}]
  BY DEF IInv, Types
<1>4. /\ ~Busy(w)' /\ (~ctx_done => ~Busy(w))
      /\ \A v \in Workers : v # w => (Busy(v)' <=> Busy(v)) /\ job'[v] = job[v]
  BY <1>1, <1>2 DEF Busy
<1>5. Workers' = Workers
  BY <1>1 DEF Workers
<1>6. Held' \subseteq Held /\ (~ctx_done => Held' = Held)
  BY <1>4, <1>5 DEF Held
<1>7. Types'
  BY <1>1, <1>2, <1>5 DEF IInv, Types
<1>8. /\ Elements(results)' = Elements(results) /\ Elements(out)' = Elements(out)
      /\ Ids(in)' = Ids(in) /\ Ids(trace)' = Ids(trace) /\ Ids(queue)' = Ids(queue)
      /\ DistinctIds(in)' = DistinctIds(in) /\ DistinctIds(queue)' = DistinctIds(queue)
      /\ Distinct(results)' = Distinct(results) /\ Distinct(out)' = Distinct(out)
  BY <1>1 DEF Ids, Elements, Distinct, DistinctIds
<1>9. Fresh' /\ Admitted'
  BY <1>1, <1>8 DEF IInv, Fresh, Admitted, Running
<1>10. OnePlace'
  <2>1. \A v, u \in Workers : Busy(v)' /\ Busy(u)' /\ job'[v].id = job'[u].id => v = u
    BY <1>4 DEF IInv, OnePlace
  <2> QED
    BY <1>5, <1>6, <1>8, <2>1 DEF IInv, OnePlace
<1>11. NoneLost'
  BY <1>1, <1>6, <1>8 DEF IInv, NoneLost, Everywhere
<1>12. Closing'
  <2>1. \A v \in Workers : pc'[v] = IF v = w THEN "done" ELSE pc[v]
    BY <1>1, <1>2
  <2> QED
    BY <1>1, <1>5, <2>1 DEF IInv, Closing
<1> QED
  BY <1>7, <1>9, <1>10, <1>11, <1>12 DEF IInv

LEMMA TimerKeeps ==
  ASSUME IInv, NEW w \in Workers, timer(w)
  PROVE  IInv'
<1>1. /\ pc[w] = "delay" /\ pc' = [pc EXCEPT ![w] = "send"]
      /\ UNCHANGED <<trace, count, policy, in, queue, feeder, jobs_closed, job,
                     results, results_closed, out, ctx_done, returned>>
  BY DEF timer
<1>2. pc \in [Workers -> {"idle", "delay", "send", "done"}]
  BY DEF IInv, Types
<1>3. \A v \in Workers : (Busy(v)' <=> Busy(v)) /\ (pc'[v] = "done" <=> pc[v] = "done")
  BY <1>1, <1>2 DEF Busy
<1>4. Workers' = Workers
  BY <1>1 DEF Workers
<1>5. Held' = Held
  BY <1>1, <1>3, <1>4 DEF Held
<1>6. Types'
  BY <1>1, <1>2, <1>4 DEF IInv, Types
<1>7. /\ Elements(results)' = Elements(results) /\ Elements(out)' = Elements(out)
      /\ Ids(in)' = Ids(in) /\ Ids(trace)' = Ids(trace) /\ Ids(queue)' = Ids(queue)
      /\ DistinctIds(in)' = DistinctIds(in) /\ DistinctIds(queue)' = DistinctIds(queue)
      /\ Distinct(results)' = Distinct(results) /\ Distinct(out)' = Distinct(out)
  BY <1>1 DEF Ids, Elements, Distinct, DistinctIds
<1>8. Running
  BY <1>1 DEF IInv, Fresh
<1>9. Fresh' /\ Admitted'
  BY <1>1, <1>7, <1>8 DEF IInv, Fresh, Admitted, Running
<1>10. OnePlace'
  BY <1>1, <1>3, <1>4, <1>5, <1>7 DEF IInv, OnePlace
<1>11. NoneLost'
  BY <1>1, <1>5, <1>7 DEF IInv, NoneLost, Everywhere
<1>12. Closing'
  BY <1>1, <1>3, <1>4 DEF IInv, Closing
<1> QED
  BY <1>6, <1>9, <1>10, <1>11, <1>12 DEF IInv

(* A worker's answer is new: its request is nowhere else.                  *)
LEMMA AnswerIsNew ==
  ASSUME IInv, NEW w \in Workers, Busy(w)
  PROVE  /\ job[w].id \in Held /\ job[w].id \in Ids(in) /\ job[w].id \in STRING
         /\ job[w].id \notin Elements(results) /\ job[w].id \notin Elements(out)
<1>1. job[w].id \in Held
  BY DEF Held
<1>2. job[w].id \in Ids(in)
  BY <1>1 DEF IInv, NoneLost, Everywhere
<1>3. \A i \in 1..Len(in) : in[i].id \in STRING
  <2>1. in \in Seq(Requests)
    BY DEF IInv, Types
  <2>2. \A i \in 1..Len(in) : in[i] \in Requests
    BY <2>1, ElementOf
  <2> QED
    BY <2>2 DEF Requests
<1>4. job[w].id \in STRING
  BY <1>2, <1>3 DEF Ids
<1> QED
  BY <1>1, <1>2, <1>4 DEF IInv, OnePlace

LEMMA SendKeeps ==
  ASSUME IInv, NEW w \in Workers, send(w)
  PROVE  IInv'
<1> DEFINE x == job[w].id
<1>1. /\ pc[w] = "send" /\ results' = Append(results, x)
      /\ pc' = [pc EXCEPT ![w] = "idle"] /\ job' = [job EXCEPT ![w] = None]
      /\ UNCHANGED <<trace, count, policy, in, queue, feeder, jobs_closed,
                     results_closed, out, ctx_done, returned>>
  BY DEF send
<1>2. /\ pc \in [Workers -> {"idle", "delay", "send", "done"}]
      /\ job \in [Workers -> Requests \cup {None}]
      /\ results \in Seq(STRING) /\ Distinct(results)
  BY DEF IInv, Types, OnePlace
<1>3. /\ Busy(w) /\ ~Busy(w)'
      /\ \A v \in Workers : v # w => (Busy(v)' <=> Busy(v)) /\ job'[v] = job[v]
      /\ \A v \in Workers : pc'[v] = IF v = w THEN "idle" ELSE pc[v]
  BY <1>1, <1>2 DEF Busy
<1>4. /\ x \in Held /\ x \in Ids(in) /\ x \in STRING
      /\ x \notin Elements(results) /\ x \notin Elements(out)
  BY <1>3, AnswerIsNew
<1>5. Workers' = Workers
  BY <1>1 DEF Workers
<1>6. Held = Held' \cup {x} /\ x \notin Held'
  <2>1. \A v \in Workers : Busy(v) /\ job[v].id = x => v = w
    BY <1>3 DEF IInv, OnePlace
  <2> QED
    BY <1>3, <1>5, <2>1 DEF Held
<1> HIDE DEF x
<1>7. /\ results' \in Seq(STRING) /\ Distinct(results)'
      /\ Elements(results)' = Elements(results) \cup {x}
  <2>1. Elements(results)' = Elements(Append(results, x)) /\ Distinct(results)' = Distinct(Append(results, x))
    BY <1>1 DEF Elements, Distinct
  <2> QED
    BY <1>1, <1>2, <1>4, <2>1, AddResult
<1>8. /\ Elements(out)' = Elements(out)
      /\ Ids(in)' = Ids(in) /\ Ids(trace)' = Ids(trace) /\ Ids(queue)' = Ids(queue)
      /\ DistinctIds(in)' = DistinctIds(in) /\ DistinctIds(queue)' = DistinctIds(queue)
      /\ Distinct(out)' = Distinct(out)
  BY <1>1 DEF Ids, Elements, Distinct, DistinctIds
<1>9. Types'
  BY <1>1, <1>2, <1>5, <1>7 DEF IInv, Types
<1>10. Running
  BY <1>1 DEF IInv, Fresh
<1>11. Fresh' /\ Admitted'
  BY <1>1, <1>8, <1>10 DEF IInv, Fresh, Admitted, Running
<1>12. OnePlace'
  <2>1. \A v, u \in Workers : Busy(v)' /\ Busy(u)' /\ job'[v].id = job'[u].id => v = u
    BY <1>3 DEF IInv, OnePlace
  <2>2. x \notin Ids(queue)
    BY <1>4 DEF IInv, OnePlace
  <2> QED
    BY <1>4, <1>5, <1>6, <1>7, <1>8, <2>1, <2>2 DEF IInv, OnePlace
<1>13. NoneLost'
  <2>1. Everywhere' = Everywhere
    BY <1>6, <1>7, <1>8 DEF Everywhere
  <2> QED
    BY <1>1, <1>8, <2>1 DEF IInv, NoneLost
<1>14. Closing'
  <2>1. ~results_closed /\ returned \notin {"cancelled", "ok"}
    BY <1>1 DEF IInv, Closing
  <2> QED
    BY <1>1, <1>3, <1>5, <2>1 DEF IInv, Closing
<1> QED
  BY <1>9, <1>11, <1>12, <1>13, <1>14 DEF IInv

LEMMA CollectKeeps ==
  ASSUME IInv, collect
  PROVE  IInv'
<1> DEFINE x == Head(results)
<1>1. /\ returned = "running" /\ results # <<>>
      /\ out' = Append(out, x) /\ results' = Tail(results)
      /\ UNCHANGED <<trace, count, policy, in, queue, feeder, jobs_closed, pc, job,
                     results_closed, ctx_done, returned>>
  BY DEF collect
<1>2. /\ results \in Seq(STRING) /\ Distinct(results)
      /\ out \in Seq(STRING) /\ Distinct(out)
  BY DEF IInv, Types, OnePlace
<1>3. /\ x \in STRING /\ results' \in Seq(STRING) /\ Distinct(results)'
      /\ Elements(results) = {x} \cup Elements(results)' /\ x \notin Elements(results)'
  <2>1. Elements(results)' = Elements(Tail(results)) /\ Distinct(results)' = Distinct(Tail(results))
    BY <1>1 DEF Elements, Distinct
  <2> QED
    BY <1>1, <1>2, <2>1, TakeResult
<1> HIDE DEF x
<1>4. x \notin Elements(out)
  BY <1>3 DEF IInv, OnePlace
<1>5. /\ out' \in Seq(STRING) /\ Distinct(out)'
      /\ Elements(out)' = Elements(out) \cup {x}
  <2>1. Elements(out)' = Elements(Append(out, x)) /\ Distinct(out)' = Distinct(Append(out, x))
    BY <1>1 DEF Elements, Distinct
  <2> QED
    BY <1>1, <1>2, <1>3, <1>4, <2>1, AddResult
<1>6. Workers' = Workers /\ Held' = Held
  BY <1>1 DEF Workers, Held, Busy
<1>7. /\ Ids(in)' = Ids(in) /\ Ids(trace)' = Ids(trace) /\ Ids(queue)' = Ids(queue)
      /\ DistinctIds(in)' = DistinctIds(in) /\ DistinctIds(queue)' = DistinctIds(queue)
  BY <1>1 DEF Ids, DistinctIds
<1>8. Types'
  BY <1>1, <1>3, <1>5, <1>6 DEF IInv, Types
<1>9. Fresh' /\ Admitted'
  BY <1>1, <1>7 DEF IInv, Fresh, Admitted, Running
<1>10. OnePlace'
  <2>1. \A v, u \in Workers' : Busy(v)' /\ Busy(u)' /\ job'[v].id = job'[u].id => v = u
    BY <1>1, <1>6 DEF IInv, OnePlace, Busy
  <2>2. x \notin Ids(queue) /\ x \notin Held
    BY <1>3 DEF IInv, OnePlace
  <2> QED
    BY <1>3, <1>4, <1>5, <1>6, <1>7, <2>1, <2>2 DEF IInv, OnePlace
<1>11. NoneLost'
  <2>1. Everywhere' = Everywhere
    BY <1>3, <1>5, <1>6, <1>7 DEF Everywhere
  <2> QED
    BY <1>1, <1>7, <2>1 DEF IInv, NoneLost
<1>12. Closing'
  BY <1>1, <1>6 DEF IInv, Closing
<1> QED
  BY <1>8, <1>9, <1>10, <1>11, <1>12 DEF IInv

(* When the range over results has ended and nobody cancelled, every       *)
(* request has been collected, so the count that Run checks is right.      *)
LEMMA ReturnIs ==
  ASSUME IInv, return
  PROVE  \/ ctx_done /\ returned' = "cancelled"
         \/ ~ctx_done /\ returned' = "ok" /\ Elements(out) = Ids(in)
<1>1. CASE ctx_done
  BY <1>1 DEF return
<1>2. CASE ~ctx_done
  <2>1. /\ Running /\ results = <<>> /\ \A w \in Workers : pc[w] = "done"
    BY DEF return, Running, IInv, Closing
  <2>2. count \in Nat /\ count # 0 /\ DistinctIds(in)
    BY <2>1 DEF IInv, Types, Admitted
  <2>3. 1 \in Workers
    BY <2>2 DEF Workers
  <2>4. queue = <<>>
    BY <1>2, <2>1, <2>3 DEF IInv, Closing
  <2>5. Held = {} /\ Ids(queue) = {} /\ Elements(results) = {}
    BY <2>1, <2>4 DEF Held, Busy, Ids, Elements
  <2>6. Elements(out) = Ids(in)
    BY <1>2, <2>5 DEF IInv, NoneLost, Everywhere
  <2>7. Len(out) = Len(in)
    <3>1. Cardinality(Ids(in)) = Len(in)
      BY <2>2, CountIds DEF IInv, Types
    <3>2. Cardinality(Elements(out)) = Len(out)
      BY CountElements DEF IInv, Types, OnePlace
    <3> QED
      BY <2>6, <3>1, <3>2
  <2> QED
    BY <1>2, <2>6, <2>7 DEF return
<1> QED
  BY <1>1, <1>2

(* The steps that move no request.                                         *)
LEMMA NothingMoves ==
  ASSUME IInv, UNCHANGED <<trace, count, policy, in, queue, pc, job, results, out>>
  PROVE  /\ Workers' = Workers
         /\ OnePlace' /\ Ids(in)' = Ids(in) /\ Everywhere' = Everywhere
         /\ Ids(trace)' = Ids(trace) /\ DistinctIds(in)' = DistinctIds(in)
<1>1. Workers' = Workers
  BY DEF Workers
<1>2. /\ Held' = Held /\ Ids(in)' = Ids(in) /\ Ids(trace)' = Ids(trace)
      /\ Ids(queue)' = Ids(queue) /\ Elements(results)' = Elements(results)
      /\ Elements(out)' = Elements(out)
      /\ DistinctIds(in)' = DistinctIds(in) /\ DistinctIds(queue)' = DistinctIds(queue)
      /\ Distinct(results)' = Distinct(results) /\ Distinct(out)' = Distinct(out)
  BY DEF Held, Busy, Workers, Ids, Elements, Distinct, DistinctIds
<1>3. \A v, u \in Workers' : Busy(v)' /\ Busy(u)' /\ job'[v].id = job'[u].id => v = u
  BY <1>1 DEF IInv, OnePlace, Busy
<1> QED
  BY <1>1, <1>2, <1>3 DEF IInv, OnePlace, Everywhere

LEMMA ControlKeeps ==
  ASSUME IInv, cancel \/ feeder_ends \/ close_results \/ return
  PROVE  IInv'
<1>1. CASE cancel
  <2>1. /\ returned = "running" /\ ctx_done' = TRUE
        /\ UNCHANGED <<trace, count, policy, in, queue, feeder, jobs_closed, pc, job,
                       results, results_closed, out, returned>>
    BY <1>1 DEF cancel
  <2> QED
    BY <2>1, NothingMoves DEF IInv, Types, Fresh, Admitted, NoneLost, Closing, Running
<1>2. CASE feeder_ends
  <2>1. /\ Running /\ (queue = <<>> \/ ctx_done) /\ feeder' = "done" /\ jobs_closed' = TRUE
        /\ UNCHANGED <<trace, count, policy, in, queue, pc, job, results,
                       results_closed, out, ctx_done, returned>>
    BY <1>2 DEF feeder_ends
  <2> QED
    BY <2>1, NothingMoves DEF IInv, Types, Fresh, Admitted, NoneLost, Closing, Running
<1>3. CASE close_results
  <2>1. /\ Running /\ (\A w \in Workers : pc[w] = "done") /\ results_closed' = TRUE
        /\ UNCHANGED <<trace, count, policy, in, queue, feeder, jobs_closed, pc, job,
                       results, out, ctx_done, returned>>
    BY <1>3 DEF close_results
  <2> QED
    BY <2>1, NothingMoves DEF IInv, Types, Fresh, Admitted, NoneLost, Closing, Running
<1>4. CASE return
  <2>1. /\ returned = "running" /\ results = <<>> /\ results_closed
        /\ UNCHANGED <<trace, count, policy, in, queue, feeder, jobs_closed, pc, job,
                       results, results_closed, out, ctx_done>>
    BY <1>4 DEF return
  <2>2. returned' \in {"cancelled", "ok"}
    BY <1>4, ReturnIs
  <2> QED
    BY <2>1, <2>2, NothingMoves DEF IInv, Types, Fresh, Admitted, NoneLost, Closing, Running
<1> QED
  BY <1>1, <1>2, <1>3, <1>4

LEMMA NextKeeps == IInv /\ [Next]_vars => IInv'
<1> SUFFICES ASSUME IInv, [Next]_vars PROVE IInv'
  OBVIOUS
<1>1. CASE start
  BY <1>1, StartKeeps
<1>2. CASE cancel \/ feeder_ends \/ close_results \/ return
  BY <1>2, ControlKeeps
<1>3. ASSUME NEW w \in Workers, handoff(w) \/ worker_ends(w) \/ timer(w) \/ send(w)
      PROVE  IInv'
  BY <1>3, HandoffKeeps, WorkerEndsKeeps, TimerKeeps, SendKeeps
<1>4. CASE collect
  BY <1>4, CollectKeeps
<1>5. CASE UNCHANGED vars
  <2>1. /\ UNCHANGED <<trace, count, policy, in, queue, pc, job, results, out>>
        /\ UNCHANGED <<feeder, jobs_closed, results_closed, ctx_done, returned>>
    BY <1>5 DEF vars
  <2> QED
    BY <2>1, NothingMoves DEF IInv, Types, Fresh, Admitted, NoneLost, Closing, Running
<1> QED
  BY <1>1, <1>2, <1>3, <1>4, <1>5 DEF Next

(* In every run of the gateway each request is in one place only, and only *)
(* a cancellation loses one; the channels are closed in order.             *)
THEOREM GatewayInvariance == Spec => []IInv
<1>1. Init => IInv
  BY InitHolds
<1>2. IInv /\ [Next]_vars => IInv'
  BY NextKeeps
<1> QED
  BY <1>1, <1>2, PTL DEF Spec

(* No goroutine sends on a closed channel, and the buffer of results,      *)
(* which is as long as the trace, always has room for the answer of every  *)
(* worker that holds a request.                                            *)
THEOREM NoSendTheorem == Spec => []NoSendOnClosed
<1>1. IInv => NoSendOnClosed
  <2> SUFFICES ASSUME IInv PROVE NoSendOnClosed
    OBVIOUS
  <2>1. ASSUME NEW w \in Workers, Busy(w)
        PROVE  ~results_closed /\ Len(results) < Len(in)
    <3>1. ~results_closed
      BY <2>1 DEF IInv, Closing, Busy
    <3>2. Running
      BY <2>1 DEF IInv, Fresh, Busy
    <3>3. IsFiniteSet(Ids(in)) /\ Cardinality(Ids(in)) = Len(in)
      BY <3>2, CountIds DEF IInv, Types, Admitted
    <3>4. IsFiniteSet(Elements(results)) /\ Cardinality(Elements(results)) = Len(results)
      BY CountElements DEF IInv, Types, OnePlace
    <3>5. job[w].id \in Ids(in) \ Elements(results) /\ Elements(results) \subseteq Ids(in)
      BY <2>1, AnswerIsNew DEF IInv, NoneLost, Everywhere
    <3>6. /\ Cardinality(Elements(results)) <= Cardinality(Ids(in))
          /\ Cardinality(Ids(in)) # Cardinality(Elements(results))
      BY <3>3, <3>5, FS_Subset
    <3>7. Len(in) \in Nat /\ Len(results) \in Nat
      BY DEF IInv, Types
    <3> QED
      BY <3>1, <3>3, <3>4, <3>6, <3>7
  <2>2. jobs_closed => feeder = "done"
    BY DEF IInv, Closing
  <2> QED
    BY <2>1, <2>2 DEF NoSendOnClosed, Busy
<1> QED
  BY <1>1, GatewayInvariance, PTL

-----------------------------------------------------------------------------
(* Run keeps the safety part of its contract.                              *)

Answered == Elements(results) \cup Elements(out)

LEMMA AnswerOfRun ==
  ASSUME IInv, NEW w \in Workers, send(w)
  PROVE  /\ returned = "running"
         /\ job[w].id \in Ids(trace) \ Answered
         /\ Answered' = Answered \cup {job[w].id}
<1>1. /\ pc[w] = "send" /\ results' = Append(results, job[w].id) /\ out' = out
  BY DEF send
<1>2. Running /\ returned \notin {"cancelled", "ok"}
  BY <1>1 DEF IInv, Fresh, Closing
<1>3. returned = "running"
  BY <1>2 DEF IInv, Types, Running
<1>4. /\ job[w].id \in Ids(in) /\ job[w].id \in STRING
      /\ job[w].id \notin Elements(results) /\ job[w].id \notin Elements(out)
  BY <1>1, AnswerIsNew DEF Busy
<1>5. Elements(results') = Elements(results) \cup {job[w].id}
  BY <1>1, <1>4, AddResult DEF IInv, Types, OnePlace
<1>6. Ids(in) = Ids(trace)
  BY <1>2 DEF IInv, Admitted
<1> QED
  BY <1>1, <1>3, <1>4, <1>5, <1>6 DEF Answered, Elements

LEMMA CollectAnswersNothing ==
  ASSUME IInv, collect
  PROVE  Answered' = Answered
<1>1. results # <<>> /\ out' = Append(out, Head(results)) /\ results' = Tail(results)
  BY DEF collect
<1>2. /\ results \in Seq(STRING) /\ Distinct(results)
      /\ out \in Seq(STRING) /\ Distinct(out)
  BY DEF IInv, Types, OnePlace
<1>3. /\ Head(results) \in STRING
      /\ Elements(results) = {Head(results)} \cup Elements(Tail(results))
  BY <1>1, <1>2, TakeResult
<1>4. Head(results) \notin Elements(out)
  BY <1>3 DEF IInv, OnePlace
<1>5. Elements(Append(out, Head(results))) = Elements(out) \cup {Head(results)}
  BY <1>2, <1>3, <1>4, AddResult
<1>6. Answered' = Elements(Tail(results)) \cup Elements(Append(out, Head(results)))
  BY <1>1 DEF Answered, Elements
<1> QED
  BY <1>3, <1>5, <1>6 DEF Answered

LEMMA ContractInit == Init => Contract!CInit
<1> SUFFICES ASSUME Init PROVE Contract!CInit
  OBVIOUS
<1>1. Ids(trace) \subseteq UNION {Ids(t) : t \in Traces}
  BY DEF Init
<1>2. Elements(results) \cup Elements(out) = {}
  BY DEF Init, Elements
<1> QED
  BY <1>1, <1>2 DEF Init, Contract!CInit

LEMMA ContractStep == IInv /\ [Next]_vars => [Contract!CNext]_(Contract!cvars)
<1> SUFFICES ASSUME IInv, [Next]_vars PROVE [Contract!CNext]_(Contract!cvars)
  OBVIOUS
<1>1. CASE start
  <2>1. /\ returned = "parse" /\ returned' \in {"running", "refused"}
        /\ UNCHANGED <<trace, results, out, ctx_done>>
    BY <1>1 DEF start
  <2>2. /\ Ids(trace)' = Ids(trace)
        /\ (Elements(results) \cup Elements(out))' = Elements(results) \cup Elements(out)
    BY <2>1 DEF Ids, Elements
  <2>3. Elements(results) \cup Elements(out) = {}
    BY <2>1, FreshIsEmpty DEF Running
  <2> QED
    BY <2>1, <2>2, <2>3 DEF Contract!CNext, Contract!Refuse, Contract!cvars
<1>2. CASE cancel
  <2>1. /\ ~ctx_done /\ ctx_done' = TRUE
        /\ UNCHANGED <<trace, results, out, returned>>
    BY <1>2 DEF cancel
  <2>2. /\ Ids(trace)' = Ids(trace)
        /\ (Elements(results) \cup Elements(out))' = Elements(results) \cup Elements(out)
    BY <2>1 DEF Ids, Elements
  <2> QED
    BY <2>1, <2>2 DEF Contract!CNext, Contract!Cancel
<1>3. ASSUME NEW w \in Workers, send(w)
      PROVE  Contract!CNext
  <2>1. UNCHANGED <<trace, ctx_done, returned>>
    BY <1>3 DEF send
  <2>2. Ids(trace)' = Ids(trace)
    BY <2>1 DEF Ids
  <2>3. /\ returned = "running"
        /\ job[w].id \in Ids(trace) \ (Elements(results) \cup Elements(out))
        /\ (Elements(results) \cup Elements(out))' = (Elements(results) \cup Elements(out)) \cup {job[w].id}
    BY <1>3, AnswerOfRun DEF Answered
  <2> QED
    BY <2>1, <2>2, <2>3 DEF Contract!CNext, Contract!Answer
<1>4. CASE return
  <2>1. /\ returned = "running" /\ results = <<>> /\ UNCHANGED <<trace, results, out, ctx_done>>
    BY <1>4 DEF return
  <2>2. /\ Ids(trace)' = Ids(trace)
        /\ (Elements(results) \cup Elements(out))' = Elements(results) \cup Elements(out)
    BY <2>1 DEF Ids, Elements
  <2>3. \/ ctx_done /\ returned' = "cancelled"
        \/ ~ctx_done /\ returned' = "ok" /\ Elements(out) = Ids(in)
    BY <1>4, ReturnIs
  <2>4. Ids(in) = Ids(trace) /\ Elements(results) = {}
    BY <2>1 DEF IInv, Admitted, Running, Elements
  <2> QED
    BY <2>1, <2>2, <2>3, <2>4
    DEF Contract!CNext, Contract!ReturnAll, Contract!ReturnCancelled
<1>5. CASE collect
  <2>1. UNCHANGED <<trace, ctx_done, returned>>
    BY <1>5 DEF collect
  <2>2. /\ Ids(trace)' = Ids(trace)
        /\ (Elements(results) \cup Elements(out))' = Elements(results) \cup Elements(out)
    BY <1>5, <2>1, CollectAnswersNothing DEF Ids, Answered
  <2> QED
    BY <2>1, <2>2 DEF Contract!cvars
<1>6. CASE \/ feeder_ends \/ close_results \/ UNCHANGED vars
           \/ \E w \in Workers : handoff(w) \/ worker_ends(w) \/ timer(w)
  <2>1. UNCHANGED <<trace, results, out, ctx_done, returned>>
    BY <1>6 DEF feeder_ends, close_results, vars, handoff, worker_ends, timer
  <2>2. /\ Ids(trace)' = Ids(trace)
        /\ (Elements(results) \cup Elements(out))' = Elements(results) \cup Elements(out)
    BY <2>1 DEF Ids, Elements
  <2> QED
    BY <2>1, <2>2 DEF Contract!cvars
<1> QED
  BY <1>1, <1>2, <1>3, <1>4, <1>5, <1>6 DEF Next

(* Gateway.Run implements its contract's safety part: every request is     *)
(* answered at most once, "ok" is returned only with all of them answered, *)
(* "incomplete" never, and a failure means refusal or cancellation.        *)
THEOREM ContractTheorem == Spec => Contract!CSafety
<1>1. Init => Contract!CInit
  BY ContractInit
<1>2. IInv /\ [Next]_vars => [Contract!CNext]_(Contract!cvars)
  BY ContractStep
<1> QED
  BY <1>1, <1>2, GatewayInvariance, PTL DEF Spec, Contract!CSafety
============================================================================
