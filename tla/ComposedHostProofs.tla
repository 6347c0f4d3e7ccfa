------------------------- MODULE ComposedHostProofs -------------------------
(***************************************************************************)
(* Proofs about the wave-three host, for every set of inputs, of           *)
(* configurations (and so of authorities) and of builds.                   *)
(***************************************************************************)
EXTENDS ComposedHost, WellFoundedInduction, TLAPS

(* The least-number principle for a set, which serves as induction.        *)
LEMMA LeastNatural ==
  ASSUME NEW T, T \subseteq Nat, T # {}
  PROVE  \E x \in T : \A y \in T : ~(y < x)
<1>1. IsWellFoundedOn(OpToRel(<, Nat), Nat)
  BY NatLessThanWellFounded
<1>2. PICK x \in T : \A y \in T : <<y, x>> \notin OpToRel(<, Nat)
  BY <1>1, WFMin
<1>3. \A y \in T : ~(y < x)
  BY <1>2 DEF OpToRel
<1> QED
  BY <1>3

-----------------------------------------------------------------------------
(* Sum: the recursive function exists, is unique, and adds value by value. *)

Summing(vs, n, f) == f = [i \in 0..n |-> IF i = 0 THEN 0 ELSE f[i - 1] + vs[i]]

LEMMA SummingExists ==
  ASSUME NEW vs
  PROVE  \A n \in Nat : \E f : Summing(vs, n, f)
<1> DEFINE T == {n \in Nat : ~\E f : Summing(vs, n, f)}
<1> SUFFICES ASSUME T # {} PROVE FALSE
  OBVIOUS
<1>1. PICK n \in T : \A m \in T : ~(m < n)
  BY LeastNatural
<1>2. CASE n = 0
  <2>1. Summing(vs, 0, [i \in 0..0 |-> 0])
    BY DEF Summing
  <2> QED
    BY <1>2, <2>1
<1>3. CASE n # 0
  <2>1. n - 1 \in Nat /\ n - 1 \notin T
    BY <1>1, <1>3
  <2>2. PICK f : Summing(vs, n - 1, f)
    BY <2>1
  <2> DEFINE g == [i \in 0..n |-> IF i = n THEN f[n - 1] + vs[n] ELSE f[i]]
  <2>3. \A i \in 0..n : g[i] = IF i = 0 THEN 0 ELSE g[i - 1] + vs[i]
    BY <1>3, <2>1, <2>2 DEF Summing
  <2>4. Summing(vs, n, g)
    BY <2>3 DEF Summing
  <2> QED
    BY <2>4
<1> QED
  BY <1>2, <1>3

LEMMA SummingUnique ==
  ASSUME NEW vs, NEW n \in Nat, NEW m \in Nat, NEW f, NEW g,
         Summing(vs, n, f), Summing(vs, m, g), n <= m
  PROVE  \A i \in 0..n : f[i] = g[i]
<1> DEFINE T == {i \in 0..n : f[i] # g[i]}
<1> SUFFICES ASSUME T # {} PROVE FALSE
  OBVIOUS
<1>0. T \subseteq Nat
  OBVIOUS
<1>1. PICK i \in T : \A j \in T : ~(j < i)
  BY <1>0, LeastNatural, Zenon
<1>2. i # 0
  BY DEF Summing
<1>3. i - 1 \in 0..n /\ i - 1 \notin T
  BY <1>1, <1>2
<1>4. f[i] = f[i - 1] + vs[i]
  BY <1>2 DEF Summing
<1>5. g[i] = g[i - 1] + vs[i]
  BY <1>2 DEF Summing
<1> QED
  BY <1>3, <1>4, <1>5

LEMMA SumIs ==
  ASSUME NEW vs, NEW n \in Nat
  PROVE  \E f : Summing(vs, n, f) /\ Sum(vs, n) = f[n]
<1>1. Sum(vs, n) = (CHOOSE f : Summing(vs, n, f))[n]
  BY DEF Sum, Summing
<1>2. Summing(vs, n, CHOOSE f : Summing(vs, n, f))
  BY SummingExists
<1> QED
  BY <1>1, <1>2

(* The sum of no value, and the sum of one value more.                     *)
LEMMA SumStep ==
  ASSUME NEW vs
  PROVE  /\ Sum(vs, 0) = 0
         /\ \A n \in Nat : Sum(vs, n + 1) = Sum(vs, n) + vs[n + 1]
<1>1. Sum(vs, 0) = 0
  BY SumIs DEF Summing
<1>2. ASSUME NEW n \in Nat PROVE Sum(vs, n + 1) = Sum(vs, n) + vs[n + 1]
  <2>1. PICK f : Summing(vs, n, f) /\ Sum(vs, n) = f[n]
    BY SumIs
  <2>2. PICK g : Summing(vs, n + 1, g) /\ Sum(vs, n + 1) = g[n + 1]
    BY SumIs
  <2>3. f[n] = g[n]
    BY <2>1, <2>2, SummingUnique
  <2>4. g[n + 1] = g[n] + vs[n + 1]
    BY <2>2 DEF Summing
  <2> QED
    BY <2>1, <2>2, <2>3, <2>4
<1> QED
  BY <1>1, <1>2

LEMMA SumType ==
  ASSUME NEW vs \in Seq(Int)
  PROVE  \A n \in 0..Len(vs) : Sum(vs, n) \in Int
<1> DEFINE T == {n \in 0..Len(vs) : Sum(vs, n) \notin Int}
<1> SUFFICES ASSUME T # {} PROVE FALSE
  OBVIOUS
<1>0. T \subseteq Nat
  OBVIOUS
<1>1. PICK n \in T : \A m \in T : ~(m < n)
  BY <1>0, LeastNatural, Zenon
<1>2. n # 0
  BY SumStep
<1>3. n - 1 \in Nat /\ Sum(vs, n - 1) \in Int /\ vs[n] \in Int
  BY <1>1, <1>2
<1>4. Sum(vs, (n - 1) + 1) = Sum(vs, n - 1) + vs[(n - 1) + 1]
  BY <1>3, SumStep, Zenon
<1>5. (n - 1) + 1 = n
  OBVIOUS
<1> QED
  BY <1>3, <1>4, <1>5

-----------------------------------------------------------------------------
(* The inductive invariant.                                                *)

Authorities == {readableAuthority, rustAuthority, "none"}
Identities == Builds \cup {"none"}
Digests == {<<>>} \cup (Identities \X Authorities \X Seq(Int) \X Int \X Int)
Checkpoints ==
  [build : Identities, authority : Authorities, input : Seq(Int), processed : Int,
   sum : Int, digest : Digests]

Runs ==
  [pc : {"idle", "execute", "process", "running", "write", "rename"},
   cfg : Configs \cup {Idle.cfg}, values : Seq(Int), authority : Authorities,
   state : Checkpoints, requests : Nat, recovered : BOOLEAN, replaced : BOOLEAN,
   replacing : BOOLEAN, saving : {"none", "restored", "fallback", "applied", "final"}]

Types ==
  /\ build \in Builds /\ damaged \in BOOLEAN
  /\ disk = <<>> \/ (disk = <<disk[1]>> /\ disk[1] \in Checkpoints)
  /\ run \in Runs

(* A run r of build b in progress: its state is the sum of the prefix it   *)
(* claims, it replaces an authority only when it may, and it writes the    *)
(* last checkpoint when every value is done.                               *)
Sound(r, b) ==
  r.pc # "idle" =>
    /\ r.cfg \in Configs
    /\ r.authority \in {readableAuthority, rustAuthority}
    /\ r.state.input = r.values /\ r.state.build = b
    /\ r.state.processed \in 0..Len(r.values)
    /\ r.state.sum = Sum(r.values, r.state.processed)
    /\ r.state.authority \in {readableAuthority, rustAuthority}
    /\ r.replaced \/ r.replacing \/ r.saving \in {"restored", "fallback"} => r.cfg.allowReplace
    /\ r.pc \in {"write", "rename"} =>
         /\ r.saving # "none"
         /\ r.saving = "final" => r.state.processed = Len(r.values)

(* A resumed run r is never behind the file d that it will replace.        *)
Ahead(r, d) ==
  r.pc \notin {"idle", "execute"} /\ r.cfg.resume =>
    /\ d # <<>> /\ d[1].input = r.values
    /\ d[1].processed \in 0..r.state.processed
    /\ \/ d[1].authority = r.state.authority
       \/ /\ r.cfg.allowReplace /\ d[1].authority = rustAuthority
          /\ r.state.authority = readableAuthority

IInv == Types /\ Sound(run, build) /\ Ahead(run, disk) /\ CheckpointResumable /\ SameOutput

LEMMA IdleType == Idle \in Runs /\ Idle.pc = "idle"
<1>1. NoState \in Checkpoints
  BY DEF NoState, Checkpoints, Identities, Authorities, Digests
<1> QED
  BY <1>1 DEF Idle, Runs, Authorities

LEMMA IdleIsSound == \A b, d : Idle \in Runs /\ Sound(Idle, b) /\ Ahead(Idle, d)
  BY IdleType DEF Sound, Ahead

LEMMA InitHolds == Init => IInv
  BY IdleType DEF Init, IInv, Types, Sound, Ahead, CheckpointResumable, SameOutput, StateIsPrefix

LEMMA SealedType ==
  ASSUME NEW c \in Checkpoints
  PROVE  /\ Sealed(c) \in Checkpoints
         /\ Sealed(c).build = c.build /\ Sealed(c).authority = c.authority
         /\ Sealed(c).input = c.input /\ Sealed(c).processed = c.processed
         /\ Sealed(c).sum = c.sum
         /\ Sealed(c).digest = checkpointDigest(Sealed(c))
<1>1. checkpointDigest(c) \in Digests
  BY DEF Checkpoints, checkpointDigest, Digests
<1> QED
  BY <1>1 DEF Checkpoints, Sealed, checkpointDigest

(* The step every action shares: the properties of the file and of the     *)
(* record follow when the action leaves these alone.                       *)
LEMMA RunChanges ==
  ASSUME IInv, UNCHANGED <<build, disk, damaged, record>>,
         run' \in Runs, Sound(run', build), Ahead(run', disk)
  PROVE  IInv'
  BY DEF IInv, Types, Sound, Ahead, CheckpointResumable, SameOutput, StateIsPrefix, state, values,
     validateCheckpoint

LEMMA FailureKeeps ==
  ASSUME NEW r \in Runs, NEW b, NEW d, Sound(r, b), Ahead(r, d), r.pc \notin {"idle", "execute"}
  PROVE  AfterFailure(r) \in Runs /\ Sound(AfterFailure(r), b) /\ Ahead(AfterFailure(r), d)
<1>1. CASE AfterFailure(r) = Idle
  BY <1>1, IdleIsSound
<1>2. CASE AfterFailure(r) # Idle
  <2> DEFINE c == [r.state EXCEPT !.authority = readableAuthority]
  <2>1. c \in Checkpoints /\ c.authority = readableAuthority /\ c.build = r.state.build
        /\ c.input = r.state.input /\ c.processed = r.state.processed /\ c.sum = r.state.sum
    BY DEF Runs, Checkpoints, Authorities
  <2> HIDE DEF c
  <2>2. r.cfg.allowReplace
        /\ AfterFailure(r) = [r EXCEPT !.state = Sealed(c), !.replacing = TRUE,
                                       !.saving = "fallback", !.pc = "write"]
    BY <1>2 DEF AfterFailure, c
  <2>3. Sealed(c) \in Checkpoints /\ Sealed(c).authority = readableAuthority
        /\ Sealed(c).build = r.state.build /\ Sealed(c).input = r.state.input
        /\ Sealed(c).processed = r.state.processed /\ Sealed(c).sum = r.state.sum
    BY <2>1, SealedType
  <2>4. AfterFailure(r) \in Runs
    BY <2>2, <2>3 DEF Runs
  <2>5. Sound(AfterFailure(r), b)
    BY <2>2, <2>3 DEF Runs, Sound
  <2>6. Ahead(AfterFailure(r), d)
    BY <2>2, <2>3 DEF Runs, Sound, Ahead
  <2> QED
    BY <2>4, <2>5, <2>6
<1> QED
  BY <1>1, <1>2

LEMMA ApplyKeeps ==
  ASSUME NEW r \in Runs, NEW b, NEW d, Sound(r, b), Ahead(r, d), r.pc \in {"process", "running"},
         r.state.processed < Len(r.values), NEW v, v = r.values[r.state.processed + 1]
  PROVE  applyValue(r, v) \in Runs /\ Sound(applyValue(r, v), b) /\ Ahead(applyValue(r, v), d)
<1> DEFINE n == r.state.processed
           x == r.state.sum + v
           y == r.state.processed + 1
           c == [r.state EXCEPT !.sum = x, !.processed = y]
<1>1. r.state \in Checkpoints /\ r.values \in Seq(Int) /\ n \in 0..Len(r.values) /\ n + 1 \in 1..Len(r.values)
  BY DEF Runs, Sound
<1>2. v \in Int
  BY <1>1
<1>3. c \in Checkpoints /\ c.sum = r.state.sum + v /\ c.processed = n + 1 /\ c.build = r.state.build
      /\ c.input = r.state.input /\ c.authority = r.state.authority
  <2>1. x \in Int /\ y \in Int
    BY <1>1, <1>2 DEF Checkpoints
  <2> HIDE DEF x, y
  <2>2. \A q \in Checkpoints :
          /\ [q EXCEPT !.sum = x, !.processed = y] \in Checkpoints
          /\ [q EXCEPT !.sum = x, !.processed = y].sum = x
          /\ [q EXCEPT !.sum = x, !.processed = y].processed = y
          /\ [q EXCEPT !.sum = x, !.processed = y].build = q.build
          /\ [q EXCEPT !.sum = x, !.processed = y].input = q.input
          /\ [q EXCEPT !.sum = x, !.processed = y].authority = q.authority
    BY <2>1 DEF Checkpoints
  <2>3. c \in Checkpoints /\ c.sum = x /\ c.processed = y /\ c.build = r.state.build
        /\ c.input = r.state.input /\ c.authority = r.state.authority
    BY <1>1, <2>2, Zenon
  <2> QED
    BY <2>3 DEF x, y
<1>4. Sum(r.values, n + 1) = r.state.sum + v
  <2>1. r.state.sum = Sum(r.values, n)
    BY DEF Sound
  <2>2. Sum(r.values, n + 1) = Sum(r.values, n) + r.values[n + 1]
    <3>1. n \in Nat
      BY <1>1
    <3> QED
      BY <3>1, SumStep, Zenon
  <2> QED
    BY <2>1, <2>2
<1> HIDE DEF c
<1>5. applyValue(r, v) = [r EXCEPT !.state = Sealed(c), !.saving = "applied", !.pc = "write"]
  BY DEF applyValue, c
<1>6. Sealed(c) \in Checkpoints /\ Sealed(c).sum = Sum(r.values, n + 1) /\ Sealed(c).processed = n + 1
      /\ Sealed(c).build = r.state.build /\ Sealed(c).input = r.state.input
      /\ Sealed(c).authority = r.state.authority
  BY <1>3, <1>4, SealedType
<1>7. applyValue(r, v) \in Runs
  BY <1>5, <1>6 DEF Runs
<1>8. Sound(applyValue(r, v), b)
  BY <1>1, <1>5, <1>6 DEF Runs, Sound
<1>9. Ahead(applyValue(r, v), d)
  BY <1>1, <1>5, <1>6 DEF Runs, Ahead
<1> QED
  BY <1>7, <1>8, <1>9

(* A run starts with nothing processed, for well-formed input only.        *)
LEMMA MainKeeps == ASSUME IInv, NEW c \in Configs, NEW t \in Inputs, main(c, t) PROVE IInv'
<1>1. CASE run' = Idle
  BY <1>1, IdleIsSound, IdleType DEF main, IInv, Types, Sound, Ahead, CheckpointResumable, SameOutput,
     StateIsPrefix, state, values, validateCheckpoint
<1>2. CASE run' # Idle
  <2> DEFINE a == IF c.rollback THEN readableAuthority ELSE rustAuthority
             k == [build |-> build, authority |-> a, input |-> t, processed |-> 0, sum |-> 0,
                   digest |-> <<>>]
  <2>1. a \in {readableAuthority, rustAuthority} /\ t \in Seq(Int) /\ build \in Builds
    BY InputsAssumption DEF IInv, Types
  <2>2. k \in Checkpoints
    BY <2>1 DEF Checkpoints, Identities, Authorities, Digests
  <2>3. run' = [Idle EXCEPT !.pc = "execute", !.cfg = c, !.values = t, !.authority = a,
                            !.state = newCheckpoint(t, a)]
    BY <1>2 DEF main
  <2> HIDE DEF a
  <2>4. newCheckpoint(t, a) \in Checkpoints /\ newCheckpoint(t, a).build = build
        /\ newCheckpoint(t, a).authority = a /\ newCheckpoint(t, a).input = t
        /\ newCheckpoint(t, a).processed = 0 /\ newCheckpoint(t, a).sum = 0
    BY <2>2, SealedType DEF newCheckpoint
  <2>5. run' \in Runs /\ run'.pc = "execute" /\ run'.cfg = c /\ run'.values = t /\ run'.authority = a
        /\ run'.state = newCheckpoint(t, a) /\ run'.saving = "none" /\ ~run'.replaced /\ ~run'.replacing
    <3>1. Idle \in Runs /\ Idle.saving = "none" /\ Idle.replaced = FALSE /\ Idle.replacing = FALSE
      BY IdleType DEF Idle
    <3> QED
      BY <2>1, <2>3, <2>4, <3>1 DEF Runs, Authorities
  <2>6. Sound(run', build) /\ Ahead(run', disk)
    BY <2>1, <2>4, <2>5, SumStep DEF Sound, Ahead
  <2> QED
    BY <2>5, <2>6 DEF main, IInv, Types, Sound, CheckpointResumable, SameOutput, StateIsPrefix,
       state, values, validateCheckpoint
<1> QED
  BY <1>1, <1>2

LEMMA ExecuteKeeps == ASSUME IInv, execute PROVE IInv'
<1> SUFFICES run' \in Runs /\ Sound(run', build) /\ Ahead(run', disk)
  BY RunChanges DEF execute
<1> USE DEF cfg, values, state
<1>1. run \in Runs /\ Sound(run, build) /\ run.pc = "execute" /\ run.cfg \in Configs
  BY DEF execute, IInv, Types, Sound
<1>2. ASSUME cfg.resume, Restorable
      PROVE  /\ disk # <<>> /\ disk[1] \in Checkpoints
             /\ disk[1].build = build /\ disk[1].input = run.values
             /\ disk[1].processed \in 0..Len(run.values)
             /\ disk[1].sum = Sum(run.values, disk[1].processed)
             /\ disk[1].authority = run.authority
                \/ (/\ run.cfg.allowReplace /\ disk[1].authority = rustAuthority
                    /\ run.authority = readableAuthority)
  BY <1>2 DEF Restorable, validateCheckpoint, IInv, Types
<1>3. CASE ~cfg.resume /\ run' = [run EXCEPT !.pc = "process"]
  BY <1>1, <1>3 DEF Runs, Sound, Ahead
<1>4. CASE /\ cfg.resume /\ Restorable /\ disk[1].authority = run.authority
           /\ run' = [run EXCEPT !.pc = "process", !.state = disk[1], !.recovered = TRUE]
  <2>1. run' \in Runs
    BY <1>1, <1>2, <1>4 DEF Runs
  <2>2. Sound(run', build)
    BY <1>1, <1>2, <1>4 DEF Runs, Sound
  <2>3. Ahead(run', disk)
    BY <1>1, <1>2, <1>4 DEF Runs, Ahead, Checkpoints
  <2> QED
    BY <2>1, <2>2, <2>3
<1>5. CASE /\ cfg.resume /\ Restorable /\ disk[1].authority # run.authority
           /\ run' = [run EXCEPT !.pc = "write", !.saving = "restored",
                        !.state = Sealed([disk[1] EXCEPT !.authority = run.authority]),
                        !.recovered = TRUE, !.replaced = TRUE]
  <2> DEFINE c == [disk[1] EXCEPT !.authority = run.authority]
  <2>0. /\ run.cfg.allowReplace /\ disk[1].authority = rustAuthority
        /\ run.authority = readableAuthority /\ disk[1] \in Checkpoints
        /\ disk # <<>> /\ disk[1].input = run.values /\ disk[1].processed \in 0..Len(run.values)
        /\ disk[1].sum = Sum(run.values, disk[1].processed)
    BY <1>2, <1>5
  <2>1. c \in Checkpoints /\ c.authority = run.authority /\ c.build = build /\ c.input = run.values
        /\ c.processed = disk[1].processed /\ c.sum = disk[1].sum
    BY <1>1, <1>2, <1>5 DEF Runs, Checkpoints
  <2> HIDE DEF c
  <2>2. Sealed(c) \in Checkpoints /\ Sealed(c).authority = run.authority /\ Sealed(c).build = build
        /\ Sealed(c).input = run.values /\ Sealed(c).processed = disk[1].processed
        /\ Sealed(c).sum = disk[1].sum
    BY <2>1, SealedType
  <2>3. run' = [run EXCEPT !.pc = "write", !.saving = "restored", !.state = Sealed(c),
                           !.recovered = TRUE, !.replaced = TRUE]
    BY <1>5 DEF c
  <2>4. run' \in Runs
    BY <1>1, <2>2, <2>3 DEF Runs
  <2>5. Sound(run', build)
    BY <1>1, <2>0, <2>2, <2>3 DEF Runs, Sound
  <2>6. Ahead(run', disk)
    BY <1>1, <2>0, <2>2, <2>3 DEF Runs, Ahead
  <2> QED
    BY <2>4, <2>5, <2>6
<1>6. CASE run' = Idle
  BY <1>6, IdleIsSound
<1> QED
  BY <1>3, <1>4, <1>5, <1>6 DEF execute

LEMMA ProcessingKeeps ==
  ASSUME IInv, processReadable \/ handshake \/ exchange \/ exchange_fails \/ complete
  PROVE  IInv'
<1> SUFFICES run' \in Runs /\ Sound(run', build) /\ Ahead(run', disk)
  BY RunChanges DEF processReadable, handshake, exchange, exchange_fails, complete
<1> USE DEF cfg, values, state
<1>1. run \in Runs /\ Sound(run, build) /\ Ahead(run, disk) /\ run.pc \in {"process", "running"}
  BY DEF IInv, Types, processReadable, handshake, exchange, exchange_fails, complete
<1>2. CASE run' = AfterFailure(run)
  BY <1>1, <1>2, FailureKeeps
<1>3. CASE processReadable
  BY <1>1, <1>3, ApplyKeeps DEF processReadable, More
<1>4. CASE handshake
  <2>1. CASE run' = [run EXCEPT !.pc = "running", !.requests = 0]
    BY <1>1, <2>1 DEF Runs, Sound, Ahead
  <2> QED
    BY <1>2, <1>4, <2>1 DEF handshake
<1>5. CASE exchange
  <2> DEFINE r == [run EXCEPT !.requests = @ + 1]
  <2>1. r \in Runs /\ Sound(r, build) /\ Ahead(r, disk) /\ r.pc = run.pc
        /\ r.state = run.state /\ r.values = run.values
    <3>1. run.requests + 1 \in Nat
      BY <1>1 DEF Runs
    <3> QED
      BY <1>1, <3>1 DEF Runs, Sound, Ahead
  <2>2. run' = applyValue(r, run.values[run.state.processed + 1])
        /\ run.state.processed < Len(run.values)
    BY <1>5 DEF exchange, More
  <2> HIDE DEF r
  <2> QED
    BY <1>1, <2>1, <2>2, ApplyKeeps
<1>6. CASE complete
  <2>1. run.state.processed = Len(run.values)
    BY <1>1, <1>6 DEF complete, More, Sound, Runs
  <2> QED
    BY <1>1, <1>6, <2>1 DEF complete, Runs, Sound, Ahead
<1> QED
  BY <1>2, <1>3, <1>4, <1>5, <1>6 DEF exchange_fails

LEMMA WritingKeeps == ASSUME IInv, writeTemporary \/ writeFails \/ crash PROVE IInv'
<1> SUFFICES run' \in Runs /\ Sound(run', build) /\ Ahead(run', disk)
  BY RunChanges DEF writeTemporary, writeFails, crash
<1>1. run \in Runs /\ Sound(run, build) /\ Ahead(run, disk)
  BY DEF IInv, Types
<1>2. CASE writeTemporary
  BY <1>1, <1>2 DEF writeTemporary, Runs, Sound, Ahead
<1>3. CASE writeFails
  BY <1>1, <1>3, FailureKeeps, IdleIsSound DEF writeFails
<1>4. CASE crash
  BY <1>4, IdleIsSound DEF crash
<1> QED
  BY <1>2, <1>3, <1>4

(* The checkpoint that a rename installs: sealed, and never behind the one *)
(* it replaces when the run was resumed.                                   *)
LEMMA Installed ==
  ASSUME IInv, rename
  PROVE  /\ run \in Runs /\ Sound(run, build) /\ Ahead(run, disk) /\ run.pc = "rename"
         /\ Sealed(run.state) \in Checkpoints
         /\ Sealed(run.state).authority = run.state.authority
         /\ Sealed(run.state).processed = run.state.processed
         /\ Sealed(run.state).input = run.values
         /\ validateCheckpoint(Sealed(run.state), run.values, run.state.authority, FALSE)
<1>1. run \in Runs /\ Sound(run, build) /\ Ahead(run, disk) /\ run.pc = "rename"
  BY DEF IInv, Types, rename
<1>2. run.state \in Checkpoints
  BY <1>1 DEF Runs
<1> QED
  BY <1>1, <1>2, SealedType DEF Sound, validateCheckpoint

LEMMA RenameKeeps == ASSUME IInv, rename PROVE IInv'
<1> USE DEF cfg, values, state
<1> DEFINE c == Sealed(run.state)
<1>1. /\ run \in Runs /\ Sound(run, build) /\ Ahead(run, disk) /\ run.pc = "rename"
      /\ c \in Checkpoints /\ c.authority = run.state.authority
      /\ c.processed = run.state.processed /\ c.input = run.values
      /\ validateCheckpoint(c, run.values, run.state.authority, FALSE)
  BY Installed
<1>2. disk' = IF run.cfg.checkpointPath THEN <<c>> ELSE disk
  BY DEF rename
<1> HIDE DEF c
<1>3. build' = build /\ damaged' = (damaged /\ ~run.cfg.checkpointPath)
  BY DEF rename
<1>4. /\ build' \in Builds /\ damaged' \in BOOLEAN
      /\ disk' = <<>> \/ (disk' = <<disk'[1]>> /\ disk'[1] \in Checkpoints)
  BY <1>1, <1>2, <1>3 DEF IInv, Types
<1>5. CheckpointResumable'
  <2>1. CASE run.cfg.checkpointPath
    BY <1>1, <1>2, <1>3, <2>1 DEF CheckpointResumable, validateCheckpoint
  <2>2. CASE ~run.cfg.checkpointPath
    BY <1>2, <1>3, <2>2 DEF IInv, CheckpointResumable, validateCheckpoint
  <2> QED
    BY <2>1, <2>2
<1>6. Ahead(run, disk')
  <2>1. CASE run.cfg.checkpointPath
    BY <1>1, <1>2, <2>1 DEF Ahead, Sound, Runs, Checkpoints
  <2>2. CASE ~run.cfg.checkpointPath
    BY <1>1, <1>2, <2>2
  <2> QED
    BY <2>1, <2>2
<1>7. run' \in Runs /\ Sound(run', build) /\ Ahead(run', disk')
  <2>1. CASE run' = AfterFailure(run)
    BY <1>1, <1>6, <2>1, FailureKeeps
  <2>2. CASE run.saving = "applied" /\ run' = [run EXCEPT !.pc = IF Readable THEN "process" ELSE "running"]
    BY <1>1, <1>6, <2>2 DEF Runs, Sound, Ahead
  <2>3. CASE /\ run.saving \in {"restored", "fallback"}
             /\ run' = [run EXCEPT !.pc = "process", !.replaced = TRUE]
    BY <1>1, <1>6, <2>3 DEF Runs, Sound, Ahead
  <2>4. CASE run' = Idle
    BY <2>4, IdleIsSound
  <2> QED
    BY <2>1, <2>2, <2>3, <2>4 DEF rename
<1>8. SameOutput'
  <2>1. StateIsPrefix'
    BY <1>3, <1>7 DEF StateIsPrefix, Sound
  <2>2. CASE run.saving = "final"
    <3>1. record' = <<[checkpoint |-> run.state, values |-> run.values, replaced |-> run.replaced,
                       allowReplace |-> run.cfg.allowReplace]>>
      BY <2>2 DEF rename
    <3>2. run.state.processed = Len(run.values) /\ run.state.sum = Sum(run.values, run.state.processed)
          /\ (run.replaced => run.cfg.allowReplace)
      BY <1>1, <2>2 DEF Sound
    <3> QED
      BY <2>1, <3>1, <3>2 DEF SameOutput
  <2>3. CASE run.saving # "final"
    BY <2>1, <2>3 DEF rename, IInv, SameOutput
  <2> QED
    BY <2>2, <2>3
<1> QED
  BY <1>3, <1>4, <1>5, <1>7, <1>8 DEF IInv, Types

(* Changes from outside happen between runs and are remembered.            *)
LEMMA OutsideKeeps == ASSUME IInv, damage \/ rebuild PROVE IInv'
<1>1. run.pc = "idle" /\ run' = run /\ record' = <<>>
  BY DEF damage, rebuild
<1>2. SameOutput' /\ run' \in Runs /\ Sound(run', build') /\ Ahead(run', disk')
  BY <1>1 DEF IInv, Types, SameOutput, StateIsPrefix, Sound, Ahead
<1>3. CASE damage
  <2>1. disk # <<>> /\ disk[1] \in Checkpoints
    BY <1>3 DEF damage, IInv, Types
  <2>2. \A q \in Checkpoints : q.sum + 1 \in Int /\ q.processed + 1 \in Int
    BY DEF Checkpoints
  <2>3. \A q \in Checkpoints, x \in Int :
          [q EXCEPT !.sum = x] \in Checkpoints /\ [q EXCEPT !.processed = x] \in Checkpoints
    BY DEF Checkpoints
  <2>4. PICK c \in {[disk[1] EXCEPT !.sum = @ + 1], [disk[1] EXCEPT !.processed = @ + 1]} :
          disk' \in {<<c>>, <<Sealed(c)>>}
    BY <1>3 DEF damage
  <2>5. c \in Checkpoints
    BY <2>1, <2>2, <2>3, <2>4
  <2>6. disk' = <<disk'[1]>> /\ disk'[1] \in Checkpoints
    BY <2>4, <2>5, SealedType
  <2> QED
    BY <1>2, <1>3, <2>6 DEF damage, IInv, Types, CheckpointResumable
<1>4. CASE rebuild
  BY <1>2, <1>4 DEF rebuild, IInv, Types, CheckpointResumable
<1> QED
  BY <1>3, <1>4

LEMMA NextKeeps == IInv /\ [Next]_vars => IInv'
<1> SUFFICES ASSUME IInv, [Next]_vars PROVE IInv'
  OBVIOUS
<1>1. CASE UNCHANGED vars
  BY <1>1 DEF vars, IInv, Types, Sound, Ahead, CheckpointResumable, SameOutput, StateIsPrefix, state,
     values, validateCheckpoint
<1>2. CASE Next
  BY <1>2, MainKeeps, ExecuteKeeps, ProcessingKeeps, WritingKeeps, RenameKeeps, OutsideKeeps
  DEF Next, Host
<1> QED
  BY <1>1, <1>2

(* The inductive invariant: the run in progress holds the sum of a prefix  *)
(* of its input, is never behind the file it resumed from, and the file    *)
(* is restorable unless it was changed from outside.                       *)
THEOREM HostInvariance == Spec => []IInv
  BY InitHolds, NextKeeps, PTL DEF Spec

(* However a run ends, a later run with the same input and authority can   *)
(* restore the checkpoint it left (writeCheckpoint, validateCheckpoint).   *)
THEOREM ResumableTheorem == Spec => []CheckpointResumable
<1>1. IInv => CheckpointResumable
  BY DEF IInv
<1> QED
  BY HostInvariance, <1>1, PTL

(* Uninterrupted, recovered and replaced executions end with the sum of    *)
(* the whole input; on the way the state is always the sum of a prefix.    *)
THEOREM OutputTheorem == Spec => []SameOutput
<1>1. IInv => SameOutput
  BY DEF IInv
<1> QED
  BY HostInvariance, <1>1, PTL

(* A resumed run never takes the file back, never changes its input, and   *)
(* replaces the authority only from Rust to readable, with the flag.       *)
THEOREM ProgressTheorem == Spec => ResumeKeepsProgress
<1> DEFINE Kept ==
      run.pc # "idle" /\ cfg.resume /\ disk' # disk =>
        /\ disk'[1].processed >= disk[1].processed
        /\ disk'[1].input = disk[1].input
        /\ \/ disk'[1].authority = disk[1].authority
           \/ /\ cfg.allowReplace /\ disk[1].authority = rustAuthority
              /\ disk'[1].authority = readableAuthority
<1>1. IInv /\ [Next]_vars => [Kept]_vars
  <2> SUFFICES ASSUME IInv, Next, run.pc # "idle", cfg.resume, disk' # disk
               PROVE  Kept
    OBVIOUS
  <2>1. rename
    BY DEF Next, Host, main, execute, processReadable, handshake, exchange, exchange_fails, complete,
       writeTemporary, writeFails, crash, damage, rebuild
  <2>2. disk' = <<Sealed(run.state)>>
    BY <2>1 DEF rename, state
  <2>3. /\ disk[1].processed \in 0..run.state.processed /\ disk[1].input = run.values
        /\ \/ disk[1].authority = run.state.authority
           \/ /\ run.cfg.allowReplace /\ disk[1].authority = rustAuthority
              /\ run.state.authority = readableAuthority
        /\ run.state.processed \in Int
    BY <2>1, Installed DEF Ahead, cfg, Sound, Runs, Checkpoints
  <2>4. /\ disk'[1].authority = run.state.authority /\ disk'[1].processed = run.state.processed
        /\ disk'[1].input = run.values
    BY <2>1, <2>2, Installed
  <2> QED
    BY <2>3, <2>4 DEF cfg
<1>2. Spec => [][Kept]_vars
  BY HostInvariance, <1>1, PTL DEF Spec
<1> QED
  BY <1>2 DEF ResumeKeepsProgress
=============================================================================
