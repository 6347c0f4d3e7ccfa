------------------------ MODULE ForgeProviderProofs ------------------------
(***************************************************************************)
(* Proofs about the project provider, for every tree, every set of edits   *)
(* by others between its steps, every request and every set of roots.      *)
(***************************************************************************)
EXTENDS ForgeProvider, FiniteSetTheorems, WellFoundedInduction, TLAPS

(* The least-number principle for a set, which serves as induction.        *)
LEMMA LeastNatural ==
  ASSUME NEW T, T \subseteq Nat, T # {}
  PROVE  \E x \in T : \A y \in T : ~(y < x)
<1>1. IsWellFoundedOn(OpToRel(<, Nat), Nat)
  BY NatLessThanWellFounded
<1>2. PICK x \in T : \A y \in T : <<y, x>> \notin OpToRel(<, Nat)
  BY <1>1, WFMin
<1>3. \A y \in T : ~(y < x)
  BY <1>2 DEF OpToRel
<1> QED
  BY <1>3

-----------------------------------------------------------------------------
(* material_change_impact: the recursive function exists, and its last     *)
(* value is closed under the dependencies.                                 *)

Grow(D, S) == S \cup {d[2] : d \in {e \in D : e[1] \in S}}
Reaching(C, D, n, f) == f = [i \in 0..n |-> IF i = 0 THEN C ELSE Grow(D, f[i - 1])]

LEMMA ReachingExists ==
  ASSUME NEW C, NEW D
  PROVE  \A n \in Nat : \E f : Reaching(C, D, n, f)
<1> DEFINE T == {n \in Nat : ~\E f : Reaching(C, D, n, f)}
<1> SUFFICES ASSUME T # {} PROVE FALSE
  OBVIOUS
<1>1. PICK n \in T : \A m \in T : ~(m < n)
  BY LeastNatural
<1>2. CASE n = 0
  <2>1. Reaching(C, D, 0, [i \in 0..0 |-> C])
    BY DEF Reaching
  <2> QED
    BY <1>2, <2>1
<1>3. CASE n # 0
  <2>1. n - 1 \in Nat /\ n - 1 \notin T
    BY <1>1, <1>3
  <2>2. PICK f : Reaching(C, D, n - 1, f)
    BY <2>1
  <2> DEFINE g == [i \in 0..n |-> IF i = n THEN Grow(D, f[n - 1]) ELSE f[i]]
  <2>3. \A i \in 0..n : g[i] = IF i = 0 THEN C ELSE Grow(D, g[i - 1])
    BY <1>3, <2>1, <2>2 DEF Reaching
  <2>4. Reaching(C, D, n, g)
    BY <2>3 DEF Reaching
  <2> QED
    BY <2>4
<1> QED
  BY <1>2, <1>3

LEMMA ImpactIs ==
  ASSUME NEW C, NEW D, IsFiniteSet(D)
  PROVE  \E f : /\ Reaching(C, D, Cardinality(D), f)
                /\ material_change_impact(C, D) = f[Cardinality(D)]
<1>0. Cardinality(D) \in Nat
  BY FS_CardinalityType
<1> DEFINE n == Cardinality(D)
<1>1. material_change_impact(C, D) = (CHOOSE f : Reaching(C, D, n, f))[n]
  BY DEF material_change_impact, Reaching, Grow
<1>2. Reaching(C, D, n, CHOOSE f : Reaching(C, D, n, f))
  BY <1>0, ReachingExists
<1> QED
  BY <1>1, <1>2

(* Both ends of d have been reached.                                       *)
Inside(D, S) == {d \in D : d[1] \in S /\ d[2] \in S}

(* As long as the set is not closed, every round takes in one dependency   *)
(* more, and there are no more rounds to go than dependencies.             *)
LEMMA ImpactClosed ==
  ASSUME NEW C, NEW D, IsFiniteSet(D)
  PROVE  /\ C \subseteq material_change_impact(C, D)
         /\ ClosedUnder(material_change_impact(C, D), D)
<1> DEFINE N == Cardinality(D)
<1>0. N \in Nat
  BY FS_CardinalityType
<1>1. PICK f : Reaching(C, D, N, f) /\ material_change_impact(C, D) = f[N]
  BY ImpactIs
<1> DEFINE OK(i) == /\ C \subseteq f[i]
                    /\ ClosedUnder(f[i], D) \/ Cardinality(Inside(D, f[i])) >= i
           T == {i \in 0..N : ~OK(i)}
<1> HIDE DEF N
<1>2. f[0] = C /\ \A i \in 1..N : f[i] = Grow(D, f[i - 1])
  BY <1>0, <1>1 DEF Reaching
<1>3. \A i \in 0..N : IsFiniteSet(Inside(D, f[i])) /\ Cardinality(Inside(D, f[i])) \in Nat
  <2> SUFFICES ASSUME NEW i \in 0..N
               PROVE  IsFiniteSet(Inside(D, f[i])) /\ Cardinality(Inside(D, f[i])) \in Nat
    OBVIOUS
  <2>1. Inside(D, f[i]) \subseteq D
    BY DEF Inside
  <2> QED
    BY <2>1, FS_Subset, FS_CardinalityType
<1>4. T = {}
  <2> SUFFICES ASSUME T # {} PROVE FALSE
    OBVIOUS
  <2>0. T \subseteq Nat
    BY <1>0
  <2>1. PICK i \in T : \A j \in T : ~(j < i)
    BY <2>0, LeastNatural, Zenon
  <2>2. CASE i = 0
    <3>1. Cardinality(Inside(D, f[0])) >= 0
      BY <1>0, <1>3
    <3> QED
      BY <1>2, <2>1, <2>2, <3>1
  <2>3. CASE i # 0
    <3>1. i - 1 \in 0..N /\ i \in 1..N /\ i - 1 < i /\ i \in Nat
      BY <1>0, <2>3
    <3>2. OK(i - 1)
      BY <2>1, <3>1
    <3>3. f[i] = Grow(D, f[i - 1]) /\ f[i - 1] \subseteq f[i]
      BY <1>2, <3>1 DEF Grow
    <3>4. CASE ClosedUnder(f[i - 1], D)
      <4>1. f[i] = f[i - 1]
        BY <3>3, <3>4 DEF Grow, ClosedUnder
      <4> QED
        BY <2>1, <3>2, <3>4, <4>1
    <3>5. CASE ~ClosedUnder(f[i - 1], D)
      <4>1. PICK d \in D : d[1] \in f[i - 1] /\ d[2] \notin f[i - 1]
        BY <3>5 DEF ClosedUnder
      <4>2. d \in Inside(D, f[i]) /\ d \notin Inside(D, f[i - 1])
        BY <3>3, <4>1 DEF Grow, Inside
      <4>3. Inside(D, f[i - 1]) \subseteq Inside(D, f[i])
        BY <3>3 DEF Inside
      <4>4. Cardinality(Inside(D, f[i - 1]) \cup {d}) = Cardinality(Inside(D, f[i - 1])) + 1
        BY <1>3, <3>1, <4>2, FS_AddElement
      <4>5. Cardinality(Inside(D, f[i - 1]) \cup {d}) <= Cardinality(Inside(D, f[i]))
        BY <1>3, <3>1, <4>2, <4>3, FS_Subset
      <4>6. Cardinality(Inside(D, f[i - 1])) >= i - 1
        BY <3>2, <3>5
      <4>7. Cardinality(Inside(D, f[i])) >= i
        BY <1>3, <3>1, <4>4, <4>5, <4>6
      <4> QED
        BY <2>1, <3>2, <3>3, <4>7
    <3> QED
      BY <3>4, <3>5
  <2> QED
    BY <2>2, <2>3
<1>5. OK(N)
  BY <1>0, <1>4
<1>6. ClosedUnder(f[N], D)
  <2>1. SUFFICES ASSUME Cardinality(Inside(D, f[N])) >= N PROVE ClosedUnder(f[N], D)
    BY <1>5
  <2>2. Inside(D, f[N]) \subseteq D
    BY DEF Inside
  <2>3. Inside(D, f[N]) = D
    <3>1. /\ Cardinality(Inside(D, f[N])) <= Cardinality(D)
          /\ Cardinality(D) = Cardinality(Inside(D, f[N])) => D = Inside(D, f[N])
      BY <2>2, FS_Subset
    <3> QED
      BY <1>0, <1>3, <2>1, <3>1 DEF N
  <2> QED
    BY <2>3 DEF Inside, ClosedUnder
<1> QED
  BY <1>1, <1>5, <1>6

-----------------------------------------------------------------------------
(* The inductive invariant.                                                *)

TreeOK ==
  /\ tree \in [Files -> Nodes] /\ seen \in [Files -> SUBSET Nodes]
  /\ \A p \in Files : tree[p] \in seen[p]

Visible(p) == p \in Files /\ _within(p, ALLOWED_ROOTS) /\ ~_within(p, PROTECTED_ROOTS)

Loading == {"load", "load stat", "load read"}
Digesting == {"artifact", "artifact stat", "artifact read"}
Judging == {"version", "validate"}
Working == {"main", "impact", "shape"} \cup Loading \cup Digesting \cup Judging

RecordMethods == {"mncs-assurance-graph-impact", "mncs-record-dispatch"}
Manifest == "artifact-manifest-identity"

(* Which method a step belongs to.                                         *)
Asked ==
  /\ pc # "main" => req.parameters
  /\ pc = "impact" => req.analysis = "evidence-change-impact"
  /\ pc \in Loading => req.analysis \in RecordMethods \cup {Manifest}
  /\ pc \in {"shape"} \cup Digesting => req.analysis = Manifest
  /\ pc \in Judging => req.analysis \in RecordMethods

(* Every read was by a visible path, and opened the file of that name      *)
(* unless a link was put on the path after its check.                      *)
ReadOK(r) == Visible(r.asked) /\ (r.opened = r.asked \/ r.late)

Collected ==
  /\ deps \in Seq(Files) /\ ToSet(deps) = {r.asked : r \in reads}
  /\ \A r \in reads : ReadOK(r)

(* Between its check and the reads that follow it a path is on no link but *)
(* one put there since.                                                    *)
Checked == OnLink(path) => \E q \in linked : IsPrefix(q, path)

Opening == {"load stat", "load read", "artifact stat", "artifact read"} \cup Judging

(* The envelope starts with the record and goes on as the loop does.       *)
Ordered ==
  /\ Len(deps) = index
  /\ \A i \in 1..index-1 : deps[i + 1] = req.supplied.items[i].path

Route ==
  /\ pc \in Opening => Checked
  /\ pc \in {"shape"} \cup Digesting \cup Judging => Len(deps) >= 1 /\ deps[1] = req.record_path.path
  /\ pc \in {"shape"} \cup Digesting => Ordered

(* Before the record is loaded nothing has been read; afterwards it was on *)
(* disk, and the envelope holds what was read.                             *)
RecordHeld ==
  /\ req.record_path.path \in Files
  /\ \E m \in Held(req.record_path.path) : m.json = "object" /\ m.value = record

Envelope ==
  /\ Collected
  /\ pc \in {"main", "impact"} \cup Loading =>
        deps = <<>> /\ reads = {} /\ actual = <<>> /\ index = 1
  /\ pc = "shape" => actual = <<>> /\ index = 1
  /\ pc \in {"load stat", "load read"} \cup Judging =>
        path = req.record_path.path /\ Visible(path)
  /\ pc \in {"shape"} \cup Digesting \cup Judging => RecordHeld

(* The loop over the artifacts.  Sizes come from stat, digests from read.  *)
FileNodes == {n \in Nodes : n.kind = "file"}
Identities ==
  [path : Files, size : {n.size : n \in FileNodes}] \cup
  [path : Files, size : {n.size : n \in FileNodes}, sha256 : {n.bytes : n \in FileNodes}]

Item(i) == record.artifacts.items[i]
Measured(i) == \E n \in Held(Item(i).path.path) : n.size = actual[i].size
Digested(i) == \E n \in Held(Item(i).path.path) : n.bytes = actual[i].sha256
Named(i) == Item(i).path.path = req.supplied.items[i].path /\ Item(i).path.path \in Files

Loop ==
  pc \in Digesting =>
    LET L == Len(req.supplied.items)
    IN /\ L \in Nat /\ Len(record.artifacts.items) = L
       /\ index \in 1..L+1 /\ (pc # "artifact" => index <= L)
       /\ actual \in Seq(Identities)
       /\ Len(actual) = IF pc = "artifact read" THEN index ELSE index - 1
       /\ \A i \in 1..index-1 : Named(i) /\ Measured(i) /\ Digested(i)
       /\ pc # "artifact" => Named(index) /\ path = Item(index).path.path /\ Visible(path)
       /\ pc = "artifact read" => Measured(index)

Kept == PassWasTrue /\ EnvelopeWhole /\ DeletedPathsCount

IInv ==
  /\ TreeOK /\ req \in Requests
  /\ pc \in Working \cup {"exit", "traceback"}
  /\ pc \in Working => out = <<>> /\ Asked /\ Envelope /\ Route /\ Loop
  /\ Kept

LEMMA InitOK == Init => IInv
<1> SUFFICES ASSUME Init PROVE IInv
  OBVIOUS
<1>1. TreeOK
  BY NodesAssumption DEF Init, TreeOK
<1>2. req \in Requests /\ pc = "main" /\ out = <<>>
  BY DEF Init
<1>3. Asked
  BY <1>2 DEF Asked, Loading, Digesting, Judging
<1>4. Envelope /\ Route
  <2>1. Collected
    BY DEF Init, Collected, ToSet
  <2>2. Envelope
    BY <1>2, <2>1 DEF Init, Envelope, Loading, Digesting, Judging
  <2>3. Route
    BY <1>2 DEF Route, Opening, Loading, Digesting, Judging
  <2> QED
    BY <2>2, <2>3
<1>5. Loop
  BY <1>2 DEF Loop, Digesting
<1>6. Kept
  BY <1>2 DEF Kept, PassWasTrue, EnvelopeWhole, DeletedPathsCount, Passed, ToSet
<1> QED
  BY <1>1, <1>2, <1>3, <1>4, <1>5, <1>6 DEF IInv, Working

-----------------------------------------------------------------------------
(* What a file is known to have held.                                      *)

(* The first link on a path.                                               *)
FirstLink(p) == CHOOSE q \in LinksOn(p) : \A r \in LinksOn(p) : Len(q) <= Len(r)

LEMMA FirstLinkIs ==
  ASSUME NEW p, OnLink(p)
  PROVE  /\ FirstLink(p) \in Files /\ IsPrefix(FirstLink(p), p)
         /\ tree[FirstLink(p)].kind = "link"
         /\ Real(p) = Via(FirstLink(p), tree[FirstLink(p)].target, p)
<1> DEFINE T == {Len(q) : q \in LinksOn(p)}
<1>1. \A q \in LinksOn(p) : Len(q) \in Nat
  BY BoundsAssumption DEF LinksOn
<1>2. T \subseteq Nat /\ T # {}
  BY <1>1 DEF OnLink
<1>3. PICK x \in T : \A y \in T : ~(y < x)
  BY <1>2, LeastNatural, Zenon
<1>4. PICK q \in LinksOn(p) : x = Len(q)
  BY <1>3
<1>5. \A r \in LinksOn(p) : Len(q) <= Len(r)
  BY <1>1, <1>3, <1>4
<1>6. FirstLink(p) \in LinksOn(p)
  BY <1>4, <1>5 DEF FirstLink
<1>7. Real(p) = Via(FirstLink(p), tree[FirstLink(p)].target, p)
  BY DEF Real, FirstLink
<1> QED
  BY <1>6, <1>7 DEF LinksOn

LEMMA ReadableIs ==
  ASSUME NEW p, Readable(p)
  PROVE  Real(p) \in Files /\ Node(p) = tree[Real(p)] /\ Node(p).kind = "file"
  BY DEF Readable, Node, Nothing

LEMMA NodeHeld ==
  ASSUME TreeOK, NEW p \in Files, Readable(p)
  PROVE  /\ Node(p) \in Held(p) /\ Node(p) \in Nodes /\ Node(p).kind = "file"
<1>1. /\ Real(p) \in Files /\ Node(p) = tree[Real(p)] /\ Node(p).kind = "file"
      /\ Node(p) \in seen[Real(p)] /\ Node(p) \in Nodes
  BY ReadableIs DEF TreeOK
<1>2. CASE OnLink(p)
  <2>1. tree[FirstLink(p)] \in seen[FirstLink(p)]
    BY <1>2, FirstLinkIs DEF TreeOK
  <2> QED
    BY <1>1, <1>2, <2>1, FirstLinkIs DEF Held
<1>3. CASE ~OnLink(p)
  BY <1>1, <1>3 DEF Real, Held
<1> QED
  BY <1>1, <1>2, <1>3

LEMMA HeldIs ==
  ASSUME NEW p, NEW m \in Held(p)
  PROVE  m \in Nodes /\ m.kind = "file"
  BY DEF Held

(* Once the record is loaded nothing that was held is forgotten.           *)
LEMMA HeldGrows ==
  ASSUME TreeOK, edit, NEW p \in Files
  PROVE  Held(p) \subseteq Held(p)'
<1>1. PICK e \in Edits : seen' = [seen EXCEPT ![e[1]] = @ \cup {e[2]}]
  BY DEF edit
<1>2. \A q \in Files : seen[q] \subseteq seen'[q]
  BY <1>1 DEF TreeOK
<1> QED
  BY <1>2 DEF Held

(* What a read of a checked path opens.                                    *)
LEMMA ReadingOK ==
  ASSUME Checked, Visible(path)
  PROVE  ReadOK(Reading(path)) /\ Reading(path).asked = path
<1>1. CASE OnLink(path)
  BY <1>1 DEF Checked, ReadOK, Reading
<1>2. CASE ~OnLink(path)
  BY <1>2 DEF ReadOK, Reading, Real
<1> QED
  BY <1>1, <1>2 DEF Reading

-----------------------------------------------------------------------------
(* Answers.  Of most answers the properties ask nothing.                   *)

Impact == "evidence-change-impact"
Harmless(r) ==
  /\ r.status # "PASS" /\ ~r.complete
  /\ r.type = "analysis_response" => ~(req.analysis = Impact /\ req.parameters)

LEMMA SilentKept ==
  ASSUME out' = <<>>
  PROVE  Kept'
  BY DEF Kept, PassWasTrue, EnvelopeWhole, DeletedPathsCount, Passed, ToSet

LEMMA EmitIs ==
  ASSUME out = <<>>, NEW r, emit(r)
  PROVE  /\ pc' = "exit" /\ out' # <<>> /\ ToSet(out') = {out'[1]}
         /\ out'[1] = r \/ out'[1] = error_response(r.id, "OUTPUT_LIMIT")
<1>1. pc' = "exit" /\ \E x : out' = <<x>> /\ (x = r \/ x = error_response(r.id, "OUTPUT_LIMIT"))
  BY DEF emit
<1>2. PICK x : out' = <<x>> /\ (x = r \/ x = error_response(r.id, "OUTPUT_LIMIT"))
  BY <1>1
<1>3. ToSet(<<x>>) = {x}
  BY DEF ToSet
<1> QED
  BY <1>1, <1>2, <1>3

LEMMA ErrorHarmless ==
  ASSUME NEW id, NEW code, code # "PASS"
  PROVE  Harmless(error_response(id, code))
  BY DEF Harmless, error_response

LEMMA UnknownHarmless ==
  ASSUME NEW S, NEW paths, ~(req.analysis = Impact /\ req.parameters)
  PROVE  Harmless(response("UNKNOWN", S, paths, FALSE))
  BY DEF Harmless, response

LEMMA HarmlessKept ==
  ASSUME out = <<>>, NEW r, emit(r), Harmless(r), req' = req
  PROVE  Kept' /\ pc' = "exit"
<1>1. Harmless(out'[1]) /\ ToSet(out') = {out'[1]} /\ pc' = "exit"
  BY EmitIs, ErrorHarmless
<1>2. PassWasTrue'
  BY <1>1 DEF PassWasTrue, Passed, Answer, Harmless
<1>3. EnvelopeWhole'
  BY <1>1 DEF EnvelopeWhole, Answer, Harmless
<1>4. DeletedPathsCount'
  BY <1>1 DEF DeletedPathsCount, Harmless, Impact
<1> QED
  BY <1>1, <1>2, <1>3, <1>4 DEF Kept

(* A step of the provider that answers.                                    *)
Same == UNCHANGED <<tree, seen, req>>

LEMMA Answered ==
  ASSUME IInv, Same, pc' = "exit", Kept'
  PROVE  IInv'
<1>1. TreeOK' /\ req' \in Requests
  BY DEF IInv, Same, TreeOK
<1> QED
  BY <1>1 DEF IInv, Working, Loading, Digesting, Judging

LEMMA HarmlessStep ==
  ASSUME IInv, pc \in Working, Same, NEW r, emit(r), Harmless(r)
  PROVE  IInv'
<1>1. Kept' /\ pc' = "exit"
  BY HarmlessKept DEF IInv, Same
<1> QED
  BY <1>1, Answered

(* A step of the provider that does not.                                   *)
LEMMA Continued ==
  ASSUME IInv, Same, out' = <<>>, pc' \in Working, Asked', Envelope', Route', Loop'
  PROVE  IInv'
<1>1. TreeOK' /\ req' \in Requests
  BY DEF IInv, Same, TreeOK
<1> QED
  BY <1>1, SilentKept DEF IInv

(* A path that was just checked, and one that is still as it was.          *)
LEMMA CheckedNow ==
  ASSUME ~OnLink(path'), tree' = tree
  PROVE  Checked'
  BY DEF Checked, OnLink, LinksOn

LEMMA CheckedStays ==
  ASSUME UNCHANGED <<tree, path, linked>>, Checked
  PROVE  Checked'
  BY DEF Checked, OnLink, LinksOn

-----------------------------------------------------------------------------
(* main, handle and evidence-change-impact.                                *)

LEMMA MainKeeps ==
  ASSUME IInv, main
  PROVE  IInv'
<1>0. pc = "main" /\ pc \in Working /\ out = <<>> /\ Same
  BY DEF main, IInv, Working, Same
<1>1. CASE FramingError # "none"
  <2>1. emit(error_response("invalid", FramingError)) /\ FramingError # "PASS"
    BY <1>1 DEF main, FramingError
  <2> QED
    BY <1>0, <2>1, ErrorHarmless, HarmlessStep
<1>2. CASE FramingError = "none" /\ req.json \in Unparsed
  <2>1. pc' = "traceback" /\ UNCHANGED out
    BY <1>2 DEF main
  <2>2. TreeOK' /\ req' \in Requests /\ Kept'
    BY <1>0, <2>1, SilentKept DEF IInv, Same, TreeOK
  <2> QED
    BY <2>1, <2>2 DEF IInv, Working, Loading, Digesting, Judging
<1>3. CASE FramingError = "none" /\ req.json \notin Unparsed
  <2>0. handle
    BY <1>3 DEF main
  <2>1. \/ emit(error_response(req.id, "UNSUPPORTED_PROTOCOL"))
        \/ emit(error_response("invalid", "INVALID_REQUEST_ID"))
        \/ emit(capabilities)
        \/ emit(error_response(req.id, "UNSUPPORTED_REQUEST"))
        \/ pc' = "traceback" /\ UNCHANGED out
        \/ req.analysis \notin Methods /\ Unknown("unsupported-method", <<>>)
        \/ ~req.parameters /\ Unknown("unsupported-input", <<>>)
        \/ req.analysis # Impact /\ Unknown("unsupported-record-kind", <<>>)
        \/ req.parameters /\ req.analysis = Impact /\ pc' = "impact" /\ UNCHANGED out
        \/ /\ req.parameters /\ req.analysis \in RecordMethods \cup {Manifest}
           /\ pc' = "load" /\ UNCHANGED out
    BY <2>0 DEF handle, parameters, Impact, RecordMethods, Manifest, Methods
  <2>2. CASE emit(error_response(req.id, "UNSUPPORTED_PROTOCOL"))
    BY <1>0, <2>2, ErrorHarmless, HarmlessStep
  <2>3. CASE emit(error_response("invalid", "INVALID_REQUEST_ID"))
    BY <1>0, <2>3, ErrorHarmless, HarmlessStep
  <2>4. CASE emit(capabilities)
    <3>1. Harmless(capabilities)
      BY DEF Harmless, capabilities, response
    <3> QED
      BY <1>0, <2>4, <3>1, HarmlessStep
  <2>5. CASE emit(error_response(req.id, "UNSUPPORTED_REQUEST"))
    BY <1>0, <2>5, ErrorHarmless, HarmlessStep
  <2>6. CASE pc' = "traceback" /\ UNCHANGED out
    <3>1. TreeOK' /\ req' \in Requests /\ Kept'
      BY <1>0, <2>6, SilentKept DEF IInv, Same, TreeOK
    <3> QED
      BY <2>6, <3>1 DEF IInv, Working, Loading, Digesting, Judging
  <2>7. CASE req.analysis \notin Methods /\ Unknown("unsupported-method", <<>>)
    <3>1. req.analysis # Impact
      BY <2>7 DEF Methods, Impact
    <3> QED
      BY <1>0, <2>7, <3>1, UnknownHarmless, HarmlessStep DEF Unknown
  <2>8. CASE ~req.parameters /\ Unknown("unsupported-input", <<>>)
    BY <1>0, <2>8, UnknownHarmless, HarmlessStep DEF Unknown
  <2>9. CASE req.analysis # Impact /\ Unknown("unsupported-record-kind", <<>>)
    BY <1>0, <2>9, UnknownHarmless, HarmlessStep DEF Unknown
  <2>10. ASSUME UNCHANGED out, req.parameters,
                \/ pc' = "impact" /\ req.analysis = Impact
                \/ pc' = "load" /\ req.analysis \in RecordMethods \cup {Manifest}
         PROVE  IInv'
    <3>1. UNCHANGED work /\ UNCHANGED <<deps, reads, actual, index, req, tree, seen>>
      BY DEF main, work
    <3>2. Asked'
      BY <2>10, <3>1 DEF Asked, Impact, Loading, Digesting, Judging
    <3>3. deps = <<>> /\ reads = {} /\ actual = <<>> /\ index = 1
      BY <1>0 DEF IInv, Envelope
    <3>4. Envelope'
      <4>1. deps' = <<>> /\ reads' = {} /\ actual' = <<>> /\ index' = 1
        BY <3>1, <3>3
      <4>2. Collected'
        BY <4>1 DEF Collected, ToSet
      <4>3. pc' \in {"impact", "load"}
        BY <2>10
      <4> QED
        BY <4>1, <4>2, <4>3 DEF Envelope, Loading, Digesting, Judging
    <3>5. Loop' /\ Route' /\ pc' \in Working
      BY <2>10 DEF Loop, Route, Opening, Digesting, Judging, Working, Loading
    <3> QED
      BY <1>0, <2>10, <3>2, <3>4, <3>5, Continued
  <2> QED
    BY <2>1, <2>2, <2>3, <2>4, <2>5, <2>6, <2>7, <2>8, <2>9, <2>10
<1> QED
  BY <1>1, <1>2, <1>3

(* Two roots of one path lie one within the other.                         *)
LEMMA PrefixesOfOne ==
  ASSUME NEW S, NEW a \in Seq(S), NEW b \in Seq(S), NEW p \in Seq(S),
         IsPrefix(a, p), IsPrefix(b, p), Len(a) <= Len(b)
  PROVE  IsPrefix(a, b)
<1>1. Len(a) \in Nat /\ Len(b) \in Nat /\ Len(p) \in Nat /\ Len(b) <= Len(p)
  BY DEF IsPrefix
<1>2. \A i \in 1..Len(a) : a[i] = p[i]
  BY <1>1 DEF IsPrefix
<1>3. \A i \in 1..Len(b) : b[i] = p[i]
  BY <1>1 DEF IsPrefix
<1>4. \A i \in 1..Len(a) : a[i] = b[i]
  BY <1>1, <1>2, <1>3
<1> QED
  BY <1>1, <1>4 DEF IsPrefix

LEMMA VisibleNotProtected ==
  ASSUME NEW p \in Seq(STRING), _within(p, ALLOWED_ROOTS)
  PROVE  ~_within(p, PROTECTED_ROOTS)
<1> SUFFICES ASSUME _within(p, PROTECTED_ROOTS) PROVE FALSE
  OBVIOUS
<1>1. PICK a \in ALLOWED_ROOTS : IsPrefix(a, p)
  BY DEF _within
<1>2. PICK b \in PROTECTED_ROOTS : IsPrefix(b, p)
  BY DEF _within
<1>3. a \in Seq(STRING) /\ b \in Seq(STRING) /\ ~IsPrefix(a, b) /\ ~IsPrefix(b, a)
  BY RootsAssumption
<1>4. Len(a) \in Nat /\ Len(b) \in Nat
  BY <1>3
<1>5. CASE Len(a) <= Len(b)
  BY <1>1, <1>2, <1>3, <1>5, PrefixesOfOne
<1>6. CASE Len(b) <= Len(a)
  BY <1>1, <1>2, <1>3, <1>6, PrefixesOfOne
<1> QED
  BY <1>4, <1>5, <1>6

LEMMA ImpactKeeps ==
  ASSUME IInv, evidence_change_impact
  PROVE  IInv'
<1>0. pc = "impact" /\ pc \in Working /\ out = <<>> /\ Same /\ UNCHANGED entry
  BY DEF evidence_change_impact, IInv, Working, Same
<1>1. req.parameters /\ req.analysis = Impact
  BY <1>0 DEF IInv, Asked, Impact
<1> DEFINE r == ImpactAnswer(entry = "base")
           All == ToSet(req.changed.items) \cup ToSet(req.dependencies.items)
           overlap == \E v \in ToSet(req.changed.items), w \in ToSet(req.dependencies.items) :
                         path_overlap(v.path, w.path)
<1>2. emit(r)
  BY DEF evidence_change_impact
<1>3. ~r.complete
  BY DEF ImpactAnswer, response
<1>4. ASSUME Bounded(req.changed, 0), Bounded(req.dependencies, 1),
             \A v \in All : safe_relative_path(v, entry = "base")
      PROVE  r.status = IF overlap THEN "FAIL" ELSE "PASS"
  BY <1>4 DEF ImpactAnswer, response, ToSet
<1> HIDE DEF r
<1>5. /\ pc' = "exit" /\ ToSet(out') = {out'[1]} /\ ~out'[1].complete
      /\ out'[1].type = "analysis_response" => out'[1] = r
  <2>1. /\ pc' = "exit" /\ ToSet(out') = {out'[1]}
        /\ out'[1] = r \/ out'[1] = error_response(r.id, "OUTPUT_LIMIT")
    BY <1>0, <1>2, EmitIs
  <2>2. /\ ~error_response(r.id, "OUTPUT_LIMIT").complete
        /\ error_response(r.id, "OUTPUT_LIMIT").type = "error"
    BY DEF error_response
  <2> QED
    BY <1>3, <2>1, <2>2
<1>6. PassWasTrue'
  BY <1>0, <1>1 DEF PassWasTrue, Passed, Impact, Same
<1>7. EnvelopeWhole'
  BY <1>5 DEF EnvelopeWhole, Answer
<1>8. DeletedPathsCount'
  <2> SUFFICES ASSUME entry = "hardened", out'[1].type = "analysis_response",
                      Bounded(req.changed, 0), Bounded(req.dependencies, 1),
                      \A v \in All :
                         /\ v.text \in {"plain", "dotted"} /\ _within(v.path, ALLOWED_ROOTS)
                         /\ \A p \in Files : IsPrefix(p, v.path) =>
                               \A n \in seen[p] : n.kind # "link"
               PROVE  out'[1].status = IF overlap THEN "FAIL" ELSE "PASS"
    BY <1>0, <1>5 DEF DeletedPathsCount, Same, Bounded
  <2>1. ASSUME NEW v \in All PROVE safe_relative_path(v, entry = "base")
    <3>1. v.path \in Seq(STRING)
      BY <1>1, RequestsAssumption DEF IInv, Impact
    <3>2. ~_within(v.path, PROTECTED_ROOTS)
      BY <3>1, VisibleNotProtected
    <3>3. ~OnLink(v.path)
      BY DEF OnLink, LinksOn, IInv, TreeOK
    <3> QED
      BY <3>2, <3>3 DEF safe_relative_path
  <2> QED
    BY <1>4, <1>5, <2>1
<1> QED
  BY <1>0, <1>5, <1>6, <1>7, <1>8, Answered DEF Kept

-----------------------------------------------------------------------------
(* load_json_path.                                                         *)

LEMMA SafeVisible ==
  ASSUME NEW v, safe_relative_path(v, TRUE)
  PROVE  Visible(v.path) /\ ~OnLink(v.path)
  BY DEF safe_relative_path, Visible, IsFile

(* The envelope while nothing has been read, and after one more read.      *)
LEMMA NothingRead ==
  ASSUME deps' = <<>>, reads' = {}
  PROVE  Collected'
  BY DEF Collected, ToSet

LEMMA OneMoreRead ==
  ASSUME Collected, Checked, Visible(path), Depend(path)
  PROVE  Collected'
<1>1. path \in Files /\ deps \in Seq(Files) /\ ToSet(deps) = {r.asked : r \in reads}
  BY DEF Visible, Collected
<1>2. deps' = Append(deps, path) /\ reads' = reads \cup {Reading(path)}
  BY DEF Depend
<1>3. deps' \in Seq(Files) /\ ToSet(deps') = ToSet(deps) \cup {path}
  BY <1>1, <1>2 DEF ToSet
<1>4. \A r \in reads' : ReadOK(r)
  BY <1>2, ReadingOK DEF Collected
<1>5. {r.asked : r \in reads'} = {r.asked : r \in reads} \cup {path}
  BY <1>2, ReadingOK
<1>6. \A r : ReadOK(r)' = ReadOK(r)
  BY DEF ReadOK, Visible
<1>7. ToSet(deps)' = ToSet(deps')
  BY DEF ToSet
<1> QED
  BY <1>1, <1>3, <1>4, <1>5, <1>6, <1>7 DEF Collected

LEMMA LoadCheckKeeps ==
  ASSUME IInv, load_check
  PROVE  IInv'
<1>0. /\ pc = "load" /\ pc \in Working /\ out = <<>> /\ Same
      /\ UNCHANGED <<req, deps, reads, index, actual>>
  BY DEF load_check, IInv, Working, Loading, Same
<1>1. /\ req.parameters /\ req.analysis \in RecordMethods \cup {Manifest} /\ req.analysis # Impact
      /\ deps = <<>> /\ reads = {} /\ actual = <<>> /\ index = 1
  BY <1>0 DEF IInv, Asked, Envelope, Loading, RecordMethods, Manifest, Impact
<1>2. CASE ~safe_relative_path(req.record_path, TRUE)
  BY <1>0, <1>1, <1>2, UnknownHarmless, HarmlessStep DEF load_check, Unknown
<1>3. CASE safe_relative_path(req.record_path, TRUE)
  <2>1. pc' = "load stat" /\ path' = req.record_path.path /\ out' = <<>>
    BY <1>0, <1>3 DEF load_check
  <2>2. Visible(path')
    BY <1>3, <2>1, SafeVisible
  <2>3. Asked' /\ pc' \in Working /\ Loop'
    BY <1>0, <1>1, <2>1 DEF Asked, Working, Loading, Digesting, Judging, Loop
  <2>5. Route'
    <3>1. Checked'
      BY <1>0, <1>3, <2>1, SafeVisible, CheckedNow DEF Same
    <3> QED
      BY <2>1, <3>1 DEF Route, Digesting, Judging
  <2>4. Envelope'
    <3>1. Collected'
      BY <1>0, <1>1, NothingRead
    <3>2. (path = req.record_path.path /\ Visible(path))'
      BY <1>0, <2>1, <2>2 DEF Visible
    <3> QED
      BY <1>0, <1>1, <2>1, <3>1, <3>2 DEF Envelope, Loading, Digesting, Judging
  <2> QED
    BY <1>0, <2>1, <2>3, <2>4, <2>5, Continued
<1> QED
  BY <1>2, <1>3

LEMMA LoadStatKeeps ==
  ASSUME IInv, load_stat
  PROVE  IInv'
<1>0. /\ pc = "load stat" /\ pc \in Working /\ out = <<>> /\ Same
      /\ UNCHANGED <<path, deps, reads, index, actual>>
  BY DEF load_stat, IInv, Working, Loading, Same, work
<1>4. Checked
  BY <1>0 DEF IInv, Route, Opening
<1>1. /\ req.parameters /\ req.analysis \in RecordMethods \cup {Manifest} /\ req.analysis # Impact
      /\ deps = <<>> /\ reads = {} /\ actual = <<>> /\ index = 1
      /\ path = req.record_path.path /\ Visible(path)
  BY <1>0 DEF IInv, Asked, Envelope, Loading, RecordMethods, Manifest, Impact
<1>2. CASE OperationalError \/ Unknown(Unavailable, <<>>)
  BY <1>0, <1>1, <1>2, UnknownHarmless, HarmlessStep DEF Unknown, OperationalError
<1>3. CASE pc' = "load read" /\ out' = <<>>
  <2>1. Asked' /\ pc' \in Working /\ Loop'
    BY <1>0, <1>1, <1>3 DEF Asked, Working, Loading, Digesting, Judging, Loop, Same
  <2>2. Envelope'
    <3>1. Collected'
      BY <1>0, <1>1, NothingRead
    <3>2. (path = req.record_path.path /\ Visible(path))'
      BY <1>0, <1>1 DEF Visible, Same
    <3> QED
      BY <1>0, <1>1, <1>3, <3>1, <3>2 DEF Envelope, Loading, Digesting, Judging
  <2>3. Route'
    <3>1. Checked'
      BY <1>0, <1>4, CheckedStays DEF load_stat, work
    <3> QED
      BY <1>3, <3>1 DEF Route, Digesting, Judging
  <2> QED
    BY <1>0, <1>3, <2>1, <2>2, <2>3, Continued
<1> QED
  BY <1>0, <1>2, <1>3 DEF load_stat

(* From here on it counts what the files hold.                             *)
LEMMA LoadReadKeeps ==
  ASSUME IInv, load_read
  PROVE  IInv'
<1>0. /\ pc = "load read" /\ pc \in Working /\ out = <<>> /\ UNCHANGED <<tree, req>>
      /\ UNCHANGED <<path, index, actual, linked>>
  BY DEF load_read, IInv, Working, Loading
<1>1. /\ req.parameters /\ req.analysis \in RecordMethods \cup {Manifest} /\ req.analysis # Impact
      /\ deps = <<>> /\ reads = {} /\ actual = <<>> /\ index = 1
      /\ path = req.record_path.path /\ Visible(path) /\ path \in Files
      /\ Checked /\ Collected
  BY <1>0 DEF IInv, Asked, Envelope, Route, Opening, Loading, RecordMethods, Manifest, Impact, Visible
<1>2. CASE (OperationalError \/ Unknown(Unavailable, <<>>)) /\ UNCHANGED seen
  BY <1>0, <1>1, <1>2, UnknownHarmless, HarmlessStep DEF Unknown, OperationalError, Same
<1>4. CASE pc' = "traceback" /\ UNCHANGED <<out, seen>>
  <2>1. TreeOK' /\ req' \in Requests /\ Kept'
    BY <1>0, <1>4, SilentKept DEF IInv, TreeOK
  <2> QED
    BY <1>4, <2>1 DEF IInv, Working, Loading, Digesting, Judging
<1>3. CASE /\ Readable(path) /\ Node(path).json = "object" /\ record' = Node(path).value
           /\ Depend(path) /\ seen' = [p \in Files |-> {tree[p]}] /\ UNCHANGED out
           /\ pc' = IF req.analysis = Manifest THEN "shape" ELSE "version"
  <2>1. TreeOK' /\ req' \in Requests
    BY <1>0, <1>3 DEF IInv, TreeOK
  <2>2. deps' = <<path>>
    BY <1>1, <1>3 DEF Depend
  <2>3. RecordHeld'
    <3>1. /\ Real(path) \in Files /\ Node(path) = tree[Real(path)] /\ Node(path).kind = "file"
          /\ Node(path) \in Nodes
      BY <1>3, ReadableIs DEF IInv, TreeOK
    <3>2. \A q \in Files : seen'[q] = {tree[q]}
      BY <1>3
    <3>3. Node(path) \in Held(path)'
      <4>1. CASE OnLink(path)
        <5> DEFINE q == FirstLink(path)
                   l == tree[q]
        <5>1. q \in Files /\ IsPrefix(q, path) /\ l.kind = "link"
              /\ Real(path) = Via(q, l.target, path)
          BY <4>1, FirstLinkIs
        <5> HIDE DEF q, l
        <5>2. l \in seen'[q] /\ Node(path) \in seen'[Via(q, l.target, path)]
          BY <3>1, <3>2, <5>1 DEF l
        <5>3. Via(q, l.target, path) \in Files
          BY <3>1, <5>1
        <5>4. path' = path
          BY <1>0
        <5>5. Node(path) \in {n \in Nodes : n.kind = "file" /\
                 (\/ n \in seen'[path]
                  \/ \E q_1 \in Files : /\ IsPrefix(q_1, path)
                       /\ \E l_1 \in seen'[q_1] :
                             /\ l_1.kind = "link" /\ Via(q_1, l_1.target, path) \in Files
                             /\ n \in seen'[Via(q_1, l_1.target, path)])}
          BY <3>1, <5>1, <5>2, <5>3, Zenon
        <5> QED
          BY <5>4, <5>5 DEF Held
      <4>2. CASE ~OnLink(path)
        BY <1>0, <3>1, <3>2, <4>2 DEF Held, Real
      <4> QED
        BY <4>1, <4>2
    <3> QED
      BY <1>0, <1>1, <1>3, <3>3 DEF RecordHeld
  <2>4. Asked' /\ pc' \in Working /\ Loop' /\ pc' \in {"shape", "version"}
    BY <1>0, <1>1, <1>3 DEF Asked, Working, Loading, Digesting, Judging, Loop, RecordMethods, Manifest
  <2>5. Envelope'
    <3>1. Collected'
      BY <1>1, <1>3, OneMoreRead
    <3>2. (path = req.record_path.path /\ Visible(path) /\ actual = <<>> /\ index = 1)'
      BY <1>0, <1>1 DEF Visible
    <3> QED
      BY <2>3, <2>4, <3>1, <3>2 DEF Envelope, Loading, Digesting, Judging
  <2>6. Route'
    <3>1. Checked'
      BY <1>0, <1>1, CheckedStays
    <3>2. (Len(deps) = 1 /\ deps[1] = req.record_path.path /\ index = 1)'
      BY <1>0, <1>1, <2>2
    <3> QED
      BY <2>4, <3>1, <3>2 DEF Route, Opening, Ordered
  <2> QED
    BY <1>0, <1>3, <2>1, <2>4, <2>5, <2>6, SilentKept DEF IInv
<1> QED
  BY <1>0, <1>2, <1>3, <1>4 DEF load_read, Manifest

-----------------------------------------------------------------------------
(* artifact-manifest-identity.                                             *)

(* A step that leaves the files, the record and the envelope alone.        *)
LEMMA EnvelopeStays ==
  ASSUME IInv, pc \in {"shape"} \cup Digesting \cup Judging, Same,
         UNCHANGED <<record, deps, reads>>,
         \/ pc' \in Digesting
         \/ pc' = "validate" /\ UNCHANGED path /\ pc \in Judging
  PROVE  Envelope'
<1>1. pc \in Working
  BY DEF Working
<1>2. Collected /\ RecordHeld
  BY <1>1 DEF IInv, Envelope
<1>3. Collected'
  BY <1>2 DEF Collected, ToSet, ReadOK, Visible
<1>4. RecordHeld'
  BY <1>2 DEF RecordHeld, Held, Same
<1>5. CASE pc' \in Digesting
  BY <1>3, <1>4, <1>5 DEF Envelope, Loading, Digesting, Judging
<1>6. CASE pc' = "validate" /\ UNCHANGED path /\ pc \in Judging
  <2>1. path = req.record_path.path /\ Visible(path)
    BY <1>1, <1>6 DEF IInv, Envelope
  <2>2. (path = req.record_path.path /\ Visible(path))'
    BY <1>6, <2>1 DEF Visible, Same
  <2> QED
    BY <1>3, <1>4, <1>6, <2>2 DEF Envelope, Loading, Digesting, Judging
<1> QED
  BY <1>5, <1>6

(* The same for its order, wherever the step leads.                        *)
LEMMA RouteStays ==
  ASSUME Route, UNCHANGED <<deps, index, req>>, pc' \in Opening => Checked',
         \/ pc \in {"shape"} \cup Digesting /\ pc' \in Digesting
         \/ pc \in Judging /\ pc' \in Judging
  PROVE  Route'
<1>1. Len(deps) >= 1 /\ deps[1] = req.record_path.path
  BY DEF Route
<1>2. CASE pc \in {"shape"} \cup Digesting /\ pc' \in Digesting
  <2>1. Ordered
    BY <1>2 DEF Route
  <2> QED
    BY <1>1, <2>1 DEF Route, Ordered
<1>3. CASE pc \in Judging /\ pc' \in Judging
  BY <1>1, <1>3 DEF Route, Judging, Digesting
<1> QED
  BY <1>2, <1>3

LEMMA ShapeKeeps ==
  ASSUME IInv, manifest_shape
  PROVE  IInv'
<1>0. /\ pc = "shape" /\ pc \in Working /\ out = <<>> /\ Same
      /\ UNCHANGED <<path, record, deps, reads, index, actual>>
  BY DEF manifest_shape, IInv, Working, Same, work
<1>1. /\ req.parameters /\ req.analysis = Manifest /\ actual = <<>> /\ index = 1
  BY <1>0 DEF IInv, Asked, Envelope
<1>2. CASE Unknown("unsupported-manifest-shape", deps)
  BY <1>0, <1>1, <1>2, UnknownHarmless, HarmlessStep DEF Unknown, Impact, Manifest
<1>3. CASE /\ pc' = "artifact" /\ UNCHANGED out
           /\ Len(record.artifacts.items) \in 1..MAX_FILES
           /\ Len(req.supplied.items) = Len(record.artifacts.items)
  <2>1. Asked' /\ pc' \in Working
    BY <1>0, <1>1, <1>3 DEF Asked, Working, Loading, Digesting, Judging, Same, Manifest
  <2>2. Envelope'
    BY <1>0, <1>3, EnvelopeStays DEF Digesting
  <2>3. Loop'
    <3>1. MAX_FILES \in Nat
      BY BoundsAssumption
    <3>2. <<>> \in Seq(Identities) /\ Len(<<>>) = 0
      OBVIOUS
    <3>3. (actual \in Seq(Identities) /\ Len(actual) = index - 1 /\ index = 1)'
      BY <1>0, <1>1, <3>2
    <3>4. (Len(req.supplied.items) \in Nat /\ Len(record.artifacts.items) = Len(req.supplied.items))'
      BY <1>0, <1>3, <3>1 DEF Same
    <3> QED
      BY <1>3, <3>3, <3>4 DEF Loop
  <2>4. Route'
    <3>1. Route /\ pc' \in Digesting /\ pc' \notin Opening
      BY <1>0, <1>3 DEF IInv, Digesting, Opening, Judging
    <3> QED
      BY <1>0, <3>1, RouteStays DEF Same
  <2> QED
    BY <1>0, <1>3, <2>1, <2>2, <2>3, <2>4, Continued
<1> QED
  BY <1>0, <1>2, <1>3 DEF manifest_shape

(* What is known of the artifacts so far stays known while seen does not   *)
(* shrink and the entries themselves stay.                                 *)
LEMMA ArtifactStays ==
  ASSUME NEW i, UNCHANGED <<record, req, seen>>, actual'[i] = actual[i]
  PROVE  /\ Named(i)' = Named(i) /\ Measured(i)' = Measured(i) /\ Digested(i)' = Digested(i)
         /\ Item(i)' = Item(i)
  BY DEF Named, Measured, Digested, Item, Held

LEMMA ArtifactCheckKeeps ==
  ASSUME IInv, artifact_check
  PROVE  IInv'
<1>0. /\ pc = "artifact" /\ pc \in Working /\ out = <<>> /\ Same
      /\ UNCHANGED <<record, deps, reads, index, actual>>
  BY DEF artifact_check, IInv, Working, Digesting, Same
<1>1. req.parameters /\ req.analysis = Manifest
  BY <1>0 DEF IInv, Asked, Digesting
<1>2. CASE ArtifactRefused
  BY <1>0, <1>1, <1>2, UnknownHarmless, HarmlessStep DEF ArtifactRefused, Unknown, Impact, Manifest
<1>3. CASE /\ pc' = "artifact stat" /\ UNCHANGED out /\ path' = Item(index).path.path
           /\ safe_relative_path(Item(index).path, TRUE) /\ Named(index)
  <2>1. Asked' /\ pc' \in Working
    BY <1>0, <1>1, <1>3 DEF Asked, Working, Loading, Digesting, Judging, Same, Manifest
  <2>2. Envelope'
    BY <1>0, <1>3, EnvelopeStays DEF Digesting
  <2>3. Loop'
    <3>1. Loop /\ index <= Len(record.artifacts.items)
      BY <1>0 DEF IInv, artifact_check
    <3>2. \A i : Named(i)' = Named(i) /\ Measured(i)' = Measured(i) /\ Digested(i)' = Digested(i)
                 /\ Item(i)' = Item(i)
      BY <1>0, ArtifactStays DEF Same
    <3>3. Visible(Item(index).path.path)
      BY <1>3, SafeVisible
    <3>4. Visible(path)'
      BY <1>3, <3>3 DEF Visible
    <3> QED
      BY <1>0, <1>3, <3>1, <3>2, <3>4 DEF Loop, Digesting, Same
  <2>4. Route'
    <3>1. Route /\ pc \in Digesting /\ pc' \in Digesting
      BY <1>0, <1>3 DEF IInv, Digesting
    <3>2. Checked'
      BY <1>0, <1>3, SafeVisible, CheckedNow DEF Same
    <3> QED
      BY <1>0, <3>1, <3>2, RouteStays DEF Same
  <2> QED
    BY <1>0, <1>3, <2>1, <2>2, <2>3, <2>4, Continued
<1> QED
  BY <1>0, <1>2, <1>3, SafeVisible DEF artifact_check, Item, Named, Visible

(* Arithmetic of the loop's index.                                         *)
LEMMA IndexIn ==
  ASSUME NEW L \in Nat, NEW k \in 1..L+1, k <= L
  PROVE  k \in 1..L
  OBVIOUS

LEMMA IndexNext ==
  ASSUME NEW L \in Nat, NEW k \in 1..L, NEW x \in {k, k + 1}
  PROVE  /\ x \in 1..L+1 /\ (x = k => x <= L)
         /\ \A i \in 1..x-1 : i \in 1..k-1 \/ (i = k /\ x = k + 1)
  OBVIOUS

LEMMA AppendIs ==
  ASSUME NEW S, NEW s \in Seq(S), NEW x \in S, NEW k \in Nat, Len(s) = k - 1
  PROVE  /\ Append(s, x) \in Seq(S) /\ Len(Append(s, x)) = k /\ Append(s, x)[k] = x
         /\ \A i \in 1..k-1 : Append(s, x)[i] = s[i]
<1>1. k = Len(s) + 1
  OBVIOUS
<1> QED
  BY <1>1

(* The loop's facts while an artifact is measured or digested.             *)
LEMMA LoopIs ==
  ASSUME IInv, pc \in {"artifact stat", "artifact read"}
  PROVE  /\ Len(req.supplied.items) \in Nat
         /\ Len(record.artifacts.items) = Len(req.supplied.items)
         /\ index \in 1..Len(req.supplied.items)
         /\ actual \in Seq(Identities)
         /\ Len(actual) = IF pc = "artifact read" THEN index ELSE index - 1
         /\ \A i \in 1..index-1 : Named(i) /\ Measured(i) /\ Digested(i)
         /\ Named(index) /\ path = Item(index).path.path /\ Visible(path)
         /\ pc = "artifact read" => Measured(index)
<1> DEFINE L == Len(req.supplied.items)
<1>1. pc \in Working /\ pc \in Digesting /\ pc # "artifact"
  BY DEF Working, Digesting
<1>2. Loop
  BY <1>1 DEF IInv
<1>3. /\ L \in Nat /\ Len(record.artifacts.items) = L /\ index \in 1..L+1 /\ index <= L
      /\ actual \in Seq(Identities)
      /\ Len(actual) = IF pc = "artifact read" THEN index ELSE index - 1
      /\ \A i \in 1..index-1 : Named(i) /\ Measured(i) /\ Digested(i)
      /\ Named(index) /\ path = Item(index).path.path /\ Visible(path)
      /\ pc = "artifact read" => Measured(index)
  BY <1>1, <1>2, Zenon DEF Loop
<1> HIDE DEF L
<1>4. index \in 1..L
  <2>1. L \in Nat /\ index \in 1..L+1 /\ index <= L
    BY <1>3
  <2> QED
    BY <2>1, IndexIn
<1> QED
  BY <1>3, <1>4 DEF L

(* And how they are carried over: entry k of actual is new.                *)
LEMMA LoopStep ==
  ASSUME pc' \in Digesting, UNCHANGED <<record, req, seen>>,
         NEW L, L = Len(req.supplied.items), L \in Nat, Len(record.artifacts.items) = L,
         NEW k, k \in 1..L, index' \in {k, k + 1}, pc' # "artifact" => index' = k,
         actual' \in Seq(Identities),
         Len(actual') = IF pc' = "artifact read" THEN index' ELSE index' - 1,
         \A i \in 1..k-1 : actual'[i] = actual[i],
         \A i \in 1..k-1 : Named(i) /\ Measured(i) /\ Digested(i),
         Named(k),
         \E n \in Held(Item(k).path.path) : n.size = actual'[k].size,
         index' = k + 1 => \E n \in Held(Item(k).path.path) : n.bytes = actual'[k].sha256,
         path' = Item(k).path.path, Visible(Item(k).path.path)
  PROVE  Loop'
<1>1. \A i : Named(i)' = Named(i) /\ Item(i)' = Item(i)
  BY DEF Named, Item
<1>2. \A p : Held(p)' = Held(p)
  BY DEF Held
<1>3. \A i \in 1..k-1 : Measured(i)' /\ Digested(i)'
  BY <1>1, <1>2 DEF Measured, Digested
<1>4. Measured(k)' /\ (index' = k + 1 => Digested(k)')
  BY <1>1, <1>2 DEF Measured, Digested
<1>5. Visible(path)' /\ path' = Item(k)'.path.path
  BY <1>1 DEF Visible
<1>6. /\ index' \in 1..L+1 /\ (index' = k => index' <= L)
      /\ \A i \in 1..index'-1 : i \in 1..k-1 \/ (i = k /\ index' = k + 1)
  <2>1. L \in Nat /\ k \in 1..L /\ index' \in {k, k + 1}
    OBVIOUS
  <2>2. \A x \in {k, k + 1} :
          /\ x \in 1..L+1 /\ (x = k => x <= L)
          /\ \A i \in 1..x-1 : i \in 1..k-1 \/ (i = k /\ x = k + 1)
    BY ONLY <2>1, IndexNext
  <2> QED
    BY ONLY <2>1, <2>2
<1>7. \A i \in 1..index'-1 : Named(i)' /\ Measured(i)' /\ Digested(i)'
  BY <1>1, <1>3, <1>4, <1>6, Zenon
<1>8. L = Len(req'.supplied.items) /\ Len(record'.artifacts.items) = L
  OBVIOUS
<1> QED
  BY <1>1, <1>4, <1>5, <1>6, <1>7, <1>8, Zenon DEF Loop

LEMMA ArtifactStatKeeps ==
  ASSUME IInv, artifact_stat
  PROVE  IInv'
<1>0. /\ pc = "artifact stat" /\ pc \in Working /\ out = <<>> /\ Same
      /\ UNCHANGED <<path, record, deps, reads, index, linked>>
  BY DEF artifact_stat, IInv, Working, Digesting, Same
<1>1. req.parameters /\ req.analysis = Manifest
  BY <1>0 DEF IInv, Asked, Digesting
<1>2. CASE ArtifactRefused
  BY <1>0, <1>1, <1>2, UnknownHarmless, HarmlessStep DEF ArtifactRefused, Unknown, Impact, Manifest
<1> DEFINE entry_ == [path |-> path, size |-> Node(path).size]
<1>3. CASE /\ pc' = "artifact read" /\ UNCHANGED out /\ Readable(path)
           /\ actual' = Append(actual, entry_)
  <2>1. Asked' /\ pc' \in Working
    BY <1>0, <1>1, <1>3 DEF Asked, Working, Loading, Digesting, Judging, Same, Manifest
  <2>2. Envelope'
    BY <1>0, <1>3, EnvelopeStays DEF Digesting
  <2>3. Loop'
    <3>1. /\ Len(req.supplied.items) \in Nat
          /\ Len(record.artifacts.items) = Len(req.supplied.items)
          /\ index \in 1..Len(req.supplied.items)
          /\ actual \in Seq(Identities) /\ Len(actual) = index - 1
          /\ \A i \in 1..index-1 : Named(i) /\ Measured(i) /\ Digested(i)
          /\ Named(index) /\ path = Item(index).path.path /\ Visible(path)
      BY <1>0, LoopIs
    <3>2. /\ Node(path) \in Held(path) /\ Node(path) \in FileNodes /\ path \in Files
      BY <1>3, <3>1, NodeHeld DEF IInv, Visible, FileNodes
    <3>3. entry_ \in Identities
      BY <3>2 DEF Identities
    <3> HIDE DEF entry_
    <3>4. index \in Nat
      BY <3>1
    <3>5. /\ actual' \in Seq(Identities) /\ Len(actual') = index /\ actual'[index] = entry_
          /\ \A i \in 1..index-1 : actual'[i] = actual[i]
      <4>1. actual \in Seq(Identities) /\ Len(actual) = index - 1
        BY <3>1
      <4>2. actual' = Append(actual, entry_)
        BY <1>3
      <4>3. /\ Append(actual, entry_) \in Seq(Identities) /\ Len(Append(actual, entry_)) = index
            /\ Append(actual, entry_)[index] = entry_
            /\ \A i \in 1..index-1 : Append(actual, entry_)[i] = actual[i]
        BY ONLY <3>3, <3>4, <4>1, AppendIs
      <4> QED
        BY ONLY <4>2, <4>3, Zenon
    <3>6. \E n \in Held(path) : n.size = actual'[index].size
      BY <3>2, <3>5 DEF entry_
    <3>7. /\ pc' \in Digesting /\ UNCHANGED <<record, req, seen>> /\ index' = index
          /\ pc' = "artifact read"
      BY <1>0, <1>3 DEF Same, Digesting
    <3>8. Len(actual') = (IF pc' = "artifact read" THEN index' ELSE index' - 1) /\ path' = path
      <4>1. path' = path
        BY <1>0
      <4> QED
        BY ONLY <4>1, <3>5, <3>7, Zenon
    <3>9. index' \in {index, index + 1} /\ index' # index + 1
      <4>1. index' = index
        BY <3>7
      <4>2. index # index + 1
        BY ONLY <3>4
      <4> QED
        BY ONLY <4>1, <4>2
    <3> QED
      BY <3>1, <3>5, <3>6, <3>7, <3>8, <3>9, LoopStep, Zenon
  <2>4. Route'
    <3>1. Route /\ Checked /\ pc \in Digesting /\ pc' \in Digesting
      BY <1>0, <1>3 DEF IInv, Route, Opening, Digesting
    <3>2. Checked'
      BY <1>0, <3>1, CheckedStays DEF Same
    <3> QED
      BY <1>0, <3>1, <3>2, RouteStays DEF Same
  <2> QED
    BY <1>0, <1>3, <2>1, <2>2, <2>3, <2>4, Continued
<1> QED
  BY <1>0, <1>2, <1>3 DEF artifact_stat

LEMMA ArtifactReadKeeps ==
  ASSUME IInv, artifact_read
  PROVE  IInv'
<1>0. /\ pc = "artifact read" /\ pc \in Working /\ out = <<>> /\ Same
      /\ UNCHANGED <<path, record>>
  BY DEF artifact_read, IInv, Working, Digesting, Same
<1>1. req.parameters /\ req.analysis = Manifest
  BY <1>0 DEF IInv, Asked, Digesting
<1>2. CASE ArtifactRefused
  BY <1>0, <1>1, <1>2, UnknownHarmless, HarmlessStep DEF ArtifactRefused, Unknown, Impact, Manifest
<1> DEFINE entry_ == [path |-> path, size |-> actual[index].size, sha256 |-> Node(path).bytes]
<1>3. CASE /\ pc' = "artifact" /\ UNCHANGED out /\ Readable(path) /\ index' = index + 1
           /\ actual' = [actual EXCEPT ![index] = entry_] /\ Depend(path)
  <2>1. Asked' /\ pc' \in Working
    BY <1>0, <1>1, <1>3 DEF Asked, Working, Loading, Digesting, Judging, Same, Manifest
  <2>2. /\ Len(req.supplied.items) \in Nat
        /\ Len(record.artifacts.items) = Len(req.supplied.items)
        /\ index \in 1..Len(req.supplied.items)
        /\ actual \in Seq(Identities) /\ Len(actual) = index
        /\ \A i \in 1..index-1 : Named(i) /\ Measured(i) /\ Digested(i)
        /\ Named(index) /\ path = Item(index).path.path /\ Visible(path) /\ Measured(index)
    BY <1>0, LoopIs
  <2>3. Envelope' /\ Route'
    <3>1. Collected /\ Checked /\ RecordHeld /\ Ordered /\ Len(deps) >= 1 /\ deps[1] = req.record_path.path
      BY <1>0 DEF IInv, Envelope, Route, Opening, Digesting
    <3>2. Collected'
      BY <1>3, <2>2, <3>1, OneMoreRead
    <3>3. RecordHeld'
      BY <1>0, <3>1 DEF RecordHeld, Held, Same
    <3>4. Envelope'
      BY <1>3, <3>2, <3>3 DEF Envelope, Loading, Digesting, Judging
    <3>5. deps' = Append(deps, path) /\ path \in Files /\ deps \in Seq(Files)
      BY <1>3, <2>2, <3>1 DEF Depend, Visible, Collected
    <3>6. index \in Nat /\ Len(deps) = index /\ path = req.supplied.items[index].path
      BY <2>2, <3>1 DEF Ordered, Named
    <3>7. /\ Len(deps') = index + 1 /\ deps'[index + 1] = path
          /\ \A i \in 1..index : deps'[i] = deps[i]
      BY <3>5, <3>6
    <3>8. Ordered'
      <4>1. \A i \in 1..index : deps'[i + 1] = req.supplied.items[i].path
        <5> SUFFICES ASSUME NEW i \in 1..index PROVE deps'[i + 1] = req.supplied.items[i].path
          OBVIOUS
        <5>1. CASE i = index
          BY <3>6, <3>7, <5>1
        <5>2. CASE i # index
          <6>1. i \in 1..index-1 /\ i + 1 \in 1..index
            BY <3>6, <5>2
          <6> QED
            BY <3>1, <3>7, <6>1 DEF Ordered
        <5> QED
          BY <5>1, <5>2
      <4>2. index' = index + 1 /\ index' - 1 = index /\ req' = req
        <5>1. index' = index + 1 /\ req' = req
          BY <1>0, <1>3 DEF Same
        <5>2. (index + 1) - 1 = index
          BY ONLY <3>6
        <5> QED
          BY ONLY <5>1, <5>2
      <4> QED
        BY <3>7, <4>1, <4>2 DEF Ordered
    <3>9. (Len(deps) >= 1 /\ deps[1] = req.record_path.path)'
      <4>1. req' = req
        BY <1>0 DEF Same
      <4>2. index >= 1 /\ index + 1 >= 1 /\ 1 \in 1..index
        BY ONLY <3>1, <3>6
      <4>3. Len(deps') >= 1 /\ deps'[1] = deps[1]
        BY ONLY <3>7, <4>2
      <4> QED
        BY ONLY <3>1, <4>1, <4>3
    <3> QED
      BY <1>3, <3>4, <3>8, <3>9 DEF Route, Opening, Judging
  <2>4. Loop'
    <3>1. /\ Node(path) \in Held(path) /\ Node(path) \in FileNodes /\ path \in Files
      BY <1>3, <2>2, NodeHeld DEF IInv, Visible, FileNodes
    <3>2. actual[index] \in Identities
      BY <2>2
    <3>3. entry_ \in Identities
      BY <3>1, <3>2 DEF Identities
    <3>4. entry_.size = actual[index].size /\ entry_.sha256 = Node(path).bytes
      OBVIOUS
    <3> HIDE DEF entry_
    <3>5. /\ actual' \in Seq(Identities) /\ Len(actual') = index /\ actual'[index] = entry_
          /\ \A i \in 1..index-1 : actual'[i] = actual[i]
      BY <1>3, <2>2, <3>3
    <3>6. /\ \E n \in Held(path) : n.size = actual'[index].size
          /\ \E n \in Held(path) : n.bytes = actual'[index].sha256
      BY <2>2, <3>1, <3>4, <3>5 DEF Measured
    <3>7. /\ pc' \in Digesting /\ UNCHANGED <<record, req, seen>> /\ index' = index + 1
          /\ pc' = "artifact"
      BY <1>0, <1>3 DEF Same, Digesting
    <3>8. Len(actual') = index' - 1
      BY <2>2, <3>5, <3>7
    <3> QED
      BY <2>2, <3>5, <3>6, <3>7, <3>8, <1>0, LoopStep, Zenon
  <2> QED
    BY <1>0, <1>3, <2>1, <2>3, <2>4, Continued
<1> QED
  BY <1>0, <1>2, <1>3 DEF artifact_read

-----------------------------------------------------------------------------
(* Complete answers: the envelope is the one that has been collected.      *)

LEMMA CompleteStep ==
  ASSUME IInv, pc \in Working, req.analysis # Impact, Same,
         ToSet(deps) = {x.asked : x \in reads'}, \A x \in reads' : ReadOK(x),
         deps[1] = req.record_path.path,
         req.analysis = Manifest =>
            /\ Len(deps) = Len(req.supplied.items) + 1
            /\ \A i \in DOMAIN req.supplied.items : deps[i + 1] = req.supplied.items[i].path,
         NEW r, emit(r), r.complete => r.paths = deps
  PROVE  /\ pc' = "exit" /\ EnvelopeWhole' /\ DeletedPathsCount'
         /\ out'[1].status = "PASS" => r.status = "PASS"
<1>0. out = <<>> /\ req' = req
  BY DEF IInv, Same
<1>1. /\ pc' = "exit"
      /\ out'[1] = r \/ out'[1] = error_response(r.id, "OUTPUT_LIMIT")
  BY <1>0, EmitIs
<1>2. /\ ~error_response(r.id, "OUTPUT_LIMIT").complete
      /\ error_response(r.id, "OUTPUT_LIMIT").status # "PASS"
  BY DEF error_response
<1>3. \A x \in reads' : /\ _within(x.asked, ALLOWED_ROOTS) /\ ~_within(x.asked, PROTECTED_ROOTS)
                        /\ x.opened = x.asked \/ x.late
  BY DEF ReadOK, Visible
<1>4. EnvelopeWhole'
  <2>1. SUFFICES ASSUME out'[1].complete PROVE EnvelopeWhole'
    BY DEF EnvelopeWhole, Answer
  <2>2. out'[1].paths = deps
    BY <1>1, <1>2, <2>1
  <2>3. ToSet(out'[1].paths) = {x.asked : x \in reads'}
    BY <2>2
  <2> QED
    BY <1>0, <1>3, <2>2, <2>3, Zenon DEF EnvelopeWhole, Answer, Manifest
<1>5. DeletedPathsCount'
  BY DEF DeletedPathsCount, Same, Impact
<1> QED
  BY <1>1, <1>2, <1>4, <1>5

(* A PASS of the manifest: every entry agrees with what was measured and   *)
(* digested under its path.                                                *)
LEMMA AgreedIs ==
  ASSUME NEW i \in DOMAIN actual, ManifestAgrees
  PROVE  /\ actual[i].size = Item(i).size /\ actual[i].sha256 = Item(i).sha256
         /\ record.ordered_digest[i] = actual[i]
<1>1. declared(Item(i)) = actual[i] /\ record.ordered_digest = actual
  BY DEF ManifestAgrees, Mismatches, Item
<1>2. declared(Item(i)).size = Item(i).size /\ declared(Item(i)).sha256 = Item(i).sha256
  BY DEF declared
<1> QED
  BY <1>1, <1>2

LEMMA VerdictKeeps ==
  ASSUME IInv, manifest_verdict
  PROVE  IInv'
<1>0. /\ pc = "artifact" /\ pc \in Working /\ out = <<>> /\ Same
      /\ record' = record /\ reads' = reads
  BY DEF manifest_verdict, IInv, Working, Digesting, Same, work
<1>1. req.parameters /\ req.analysis = Manifest /\ req.analysis # Impact
  BY <1>0 DEF IInv, Asked, Digesting, Manifest, Impact
<1> DEFINE L == Len(req.supplied.items)
<1>2. PICK z : emit([response(IF ManifestAgrees THEN "PASS" ELSE "FAIL", {}, deps, TRUE)
                      EXCEPT !.size = z])
  BY DEF manifest_verdict
<1> DEFINE r == [response(IF ManifestAgrees THEN "PASS" ELSE "FAIL", {}, deps, TRUE)
                   EXCEPT !.size = z]
<1>3. emit(r)
  BY <1>2
<1>4. r.paths = deps /\ (r.status = "PASS" => ManifestAgrees)
  BY DEF response
<1> HIDE DEF r
<1>7. /\ ToSet(deps) = {x.asked : x \in reads'} /\ \A x \in reads' : ReadOK(x)
      /\ deps[1] = req.record_path.path
  BY <1>0 DEF IInv, Envelope, Collected, Route, Digesting
<1>8. /\ Len(deps) = L + 1
      /\ \A i \in DOMAIN req.supplied.items : deps[i + 1] = req.supplied.items[i].path
  <2>1. Ordered /\ Loop /\ pc \in Digesting
    BY <1>0 DEF IInv, Route, Digesting
  <2>2. L \in Nat /\ Len(record.artifacts.items) = L /\ index \in 1..L+1
    BY <2>1, Zenon DEF Loop
  <2>3. index > L
    BY <2>2 DEF manifest_verdict
  <2>4. DOMAIN req.supplied.items = 1..L
    BY <1>1, RequestsAssumption DEF IInv, Manifest
  <2> HIDE DEF L
  <2>5. index = L + 1 /\ index - 1 = L
    BY ONLY <2>2, <2>3
  <2> QED
    BY <2>1, <2>4, <2>5 DEF Ordered
<1>5. /\ pc' = "exit" /\ EnvelopeWhole' /\ DeletedPathsCount'
      /\ out'[1].status = "PASS" => r.status = "PASS"
  BY <1>0, <1>1, <1>3, <1>4, <1>7, <1>8, CompleteStep, Zenon
<1>6. PassWasTrue'
  <2>1. SUFFICES ASSUME ManifestAgrees
                 PROVE  \E m \in Held(req.record_path.path) :
                          /\ m.json = "object" /\ m.value = record
                          /\ Len(m.value.artifacts.items) = Len(req.supplied.items)
                          /\ \A i \in DOMAIN req.supplied.items :
                              LET item == m.value.artifacts.items[i]
                              IN /\ item.path.path = req.supplied.items[i].path
                                 /\ \E n \in Held(item.path.path) : n.bytes = item.sha256
                                 /\ \E n \in Held(item.path.path) : n.size = item.size
                                 /\ m.value.ordered_digest[i].sha256 = item.sha256
    <3>1. \A p : Held(p)' = Held(p)
      BY <1>0 DEF Held, Same
    <3>2. req' = req /\ record' = record
      BY <1>0 DEF Same
    <3>3. out'[1].status = "PASS" => ManifestAgrees
      BY <1>4, <1>5
    <3> QED
      BY <1>1, <3>1, <3>2, <3>3 DEF PassWasTrue, Passed, Answer, Manifest
  <2>2. PICK m \in Held(req.record_path.path) : m.json = "object" /\ m.value = record
    BY <1>0 DEF IInv, Envelope, Digesting, RecordHeld
  <2>3. /\ L \in Nat /\ Len(record.artifacts.items) = L /\ index \in 1..L+1
        /\ actual \in Seq(Identities) /\ Len(actual) = index - 1
        /\ \A i \in 1..index-1 : Named(i) /\ Measured(i) /\ Digested(i)
    <3>1. Loop /\ pc \in Digesting /\ pc # "artifact read"
      BY <1>0 DEF IInv, Digesting
    <3> QED
      BY <3>1, Zenon DEF Loop
  <2>4. index > L
    BY <2>3 DEF manifest_verdict
  <2>5. DOMAIN req.supplied.items = 1..L
    BY <1>1, RequestsAssumption DEF IInv, Manifest
  <2> HIDE DEF L
  <2>6. index - 1 = L /\ DOMAIN actual = 1..L
    <3>1. L \in Nat /\ index \in 1..L+1 /\ index > L
      BY <2>3, <2>4
    <3>2. index - 1 = L
      BY ONLY <3>1
    <3> QED
      BY <2>3, <3>2
  <2>7. ASSUME NEW i \in 1..L
        PROVE  /\ Item(i).path.path = req.supplied.items[i].path
               /\ \E n \in Held(Item(i).path.path) : n.bytes = Item(i).sha256
               /\ \E n \in Held(Item(i).path.path) : n.size = Item(i).size
               /\ record.ordered_digest[i].sha256 = Item(i).sha256
    <3>1. Named(i) /\ Measured(i) /\ Digested(i)
      BY <2>3, <2>6
    <3>2. /\ actual[i].size = Item(i).size /\ actual[i].sha256 = Item(i).sha256
          /\ record.ordered_digest[i] = actual[i]
      BY <2>1, <2>6, AgreedIs
    <3> QED
      BY <3>1, <3>2 DEF Named, Measured, Digested
  <2> QED
    BY <2>2, <2>3, <2>5, <2>7, Zenon DEF Item, L
<1> QED
  BY <1>0, <1>5, <1>6, Answered DEF Kept

-----------------------------------------------------------------------------
(* mncs-assurance-graph-impact and mncs-record-dispatch.                   *)

LEMMA VersionKeeps ==
  ASSUME IInv, record_version
  PROVE  IInv'
<1>0. /\ pc = "version" /\ pc \in Working /\ pc \in Judging /\ out = <<>> /\ Same
      /\ record' = record /\ reads' = reads /\ deps' = deps /\ path' = path
      /\ index' = index /\ linked' = linked
  BY DEF record_version, IInv, Working, Judging, Same, work
<1>1. req.parameters /\ req.analysis \in RecordMethods /\ req.analysis # Impact
  BY <1>0 DEF IInv, Asked, Judging, RecordMethods, Impact
<1>2. CASE Unknown("unsupported-assurance-version", deps)
  BY <1>0, <1>1, <1>2, UnknownHarmless, HarmlessStep DEF Unknown
<1>3. CASE emit(response("UNKNOWN", {"unsupported-or-downgraded-version"}, deps, TRUE))
  <2> DEFINE r == response("UNKNOWN", {"unsupported-or-downgraded-version"}, deps, TRUE)
  <2>1. emit(r) /\ r.paths = deps /\ r.status # "PASS"
    BY <1>3 DEF response
  <2> HIDE DEF r
  <2>4. /\ ToSet(deps) = {x.asked : x \in reads'} /\ \A x \in reads' : ReadOK(x)
        /\ deps[1] = req.record_path.path
    BY <1>0 DEF IInv, Envelope, Collected, Route
  <2>5. req.analysis # Manifest
    BY <1>1 DEF RecordMethods, Manifest
  <2>2. /\ pc' = "exit" /\ EnvelopeWhole' /\ DeletedPathsCount'
        /\ out'[1].status = "PASS" => r.status = "PASS"
    BY <1>0, <1>1, <2>1, <2>4, <2>5, CompleteStep, Zenon
  <2>3. PassWasTrue'
    BY <2>1, <2>2 DEF PassWasTrue, Passed, Answer
  <2> QED
    BY <1>0, <2>2, <2>3, Answered DEF Kept
<1>4. CASE pc' = "validate" /\ UNCHANGED out
  <2>1. Asked' /\ pc' \in Working /\ Loop' /\ out' = <<>>
    BY <1>0, <1>1, <1>4 DEF Asked, Working, Loading, Digesting, Judging, Same, Loop
  <2>2. Envelope'
    BY <1>0, <1>4, EnvelopeStays
  <2>3. Route'
    <3>1. Route /\ Checked /\ pc' \in Judging
      BY <1>0, <1>4 DEF IInv, Route, Opening, Judging
    <3>2. Checked'
      BY <1>0, <3>1, CheckedStays DEF Same
    <3> QED
      BY <1>0, <3>1, <3>2, RouteStays DEF Same
  <2> QED
    BY <1>0, <2>1, <2>2, <2>3, Continued
<1> QED
  BY <1>2, <1>3, <1>4 DEF record_version

(* The closure that material_change_impact computes is the covered scope   *)
(* that a PASS promises.                                                   *)
LEMMA GraphPass ==
  ASSUME IInv, pc = "validate", GraphAnswer.status = "PASS"
  PROVE  \E m \in Held(req.record_path.path) :
            /\ m.json = "object" /\ m.value = record
            /\ \E S \in SUBSET req.scope.proposed :
                  req.scope.changes \subseteq S /\ ClosedUnder(S, m.value.dependencies)
<1>0. pc \in Working /\ pc \in Judging
  BY DEF Working, Judging
<1>1. PICK m \in Held(req.record_path.path) : m.json = "object" /\ m.value = record
  BY <1>0 DEF IInv, Envelope, RecordHeld
<1>2. req.record_path.path \in Files
  BY <1>0 DEF IInv, Envelope, Visible
<1>3. m \in Nodes /\ m.kind = "file"
  BY HeldIs
<1>4. IsFiniteSet(record.dependencies)
  BY <1>1, <1>3, NodesAssumption
<1> DEFINE S == material_change_impact(req.scope.changes, record.dependencies)
<1>5. S \subseteq req.scope.proposed
  BY DEF GraphAnswer, response
<1>6. req.scope.changes \subseteq S /\ ClosedUnder(S, record.dependencies)
  BY <1>4, ImpactClosed
<1> HIDE DEF S
<1> QED
  BY <1>1, <1>5, <1>6

LEMMA AnswersComplete ==
  /\ GraphAnswer.complete => GraphAnswer.paths = deps
  /\ \A c : DispatchAnswer(c).paths = deps
  /\ \A c : DispatchAnswer(c).status = "PASS" => c \notin {"UNSUPPORTED", "INVALID"}
<1>1. GraphAnswer.complete => GraphAnswer.paths = deps
  BY DEF GraphAnswer, response
<1>2. ASSUME NEW c
      PROVE  /\ DispatchAnswer(c).paths = deps
             /\ DispatchAnswer(c).status = "PASS" => c \notin {"UNSUPPORTED", "INVALID"}
  <2>1. CASE c = "UNSUPPORTED"
    BY <2>1 DEF DispatchAnswer, response
  <2>2. CASE c = "INVALID"
    BY <2>2 DEF DispatchAnswer, response
  <2>3. CASE c \notin {"UNSUPPORTED", "INVALID"}
    BY <2>3 DEF DispatchAnswer, response
  <2> QED
    BY <2>1, <2>2, <2>3
<1> QED
  BY <1>1, <1>2

LEMMA ValidateKeeps ==
  ASSUME IInv, validate
  PROVE  IInv'
<1>0. /\ pc = "validate" /\ pc \in Working /\ pc \in Judging /\ out = <<>> /\ Same
      /\ record' = record
  BY DEF validate, IInv, Working, Judging, Same
<1>1. req.parameters /\ req.analysis \in RecordMethods /\ req.analysis # Impact
  BY <1>0 DEF IInv, Asked, Judging, RecordMethods, Impact
<1>2. path = req.record_path.path /\ path \in Files /\ Visible(path)
  BY <1>0 DEF IInv, Envelope, Visible
<1>3. CASE OperationalError
  BY <1>0, <1>1, <1>3, UnknownHarmless, HarmlessStep DEF OperationalError, Unknown
<1>4. CASE ~OperationalError
  <2> DEFINE c == report_category(Node(path))
             Dispatch == req.analysis = "mncs-record-dispatch"
             r == IF Dispatch THEN DispatchAnswer(c)
                  ELSE IF c = "VALID" THEN GraphAnswer
                  ELSE response("FAIL", {}, deps, TRUE)
  <2>1. Readable(path) /\ emit(r) /\ reads' = reads \cup {Reading(path)}
    BY <1>4 DEF validate
  <2>2. Node(path) \in Held(path) /\ c \in {"VALID", "INVALID", "UNSUPPORTED"}
    BY <1>2, <2>1, NodeHeld, NodesAssumption DEF IInv
  <2>3. r.complete => r.paths = deps
    BY AnswersComplete DEF response
  <2>4. r.status = "PASS" => c = "VALID" /\ (~Dispatch => GraphAnswer.status = "PASS")
    <3>1. CASE Dispatch
      BY <2>2, <3>1, AnswersComplete
    <3>2. CASE ~Dispatch
      BY <3>2 DEF response
    <3> QED
      BY <3>1, <3>2
  <2> HIDE DEF r
  <2>5. /\ pc' = "exit" /\ EnvelopeWhole' /\ DeletedPathsCount'
        /\ out'[1].status = "PASS" => r.status = "PASS"
    <3>1. /\ Collected /\ Checked /\ Len(deps) >= 1 /\ deps[1] = path
      BY <1>0, <1>2 DEF IInv, Envelope, Route, Opening
    <3>2. path \in ToSet(deps)
      BY <3>1 DEF ToSet, Collected
    <3>3. {x.asked : x \in reads'} = {x.asked : x \in reads} \cup {path}
      BY <1>2, <2>1, <3>1, ReadingOK
    <3>4. ToSet(deps) = {x.asked : x \in reads'} /\ \A x \in reads' : ReadOK(x)
      BY <1>2, <2>1, <3>1, <3>2, <3>3, ReadingOK DEF Collected
    <3>5. req.analysis # Manifest
      BY <1>1 DEF RecordMethods, Manifest
    <3> QED
      BY <1>0, <1>1, <1>2, <2>1, <2>3, <3>1, <3>4, <3>5, CompleteStep, Zenon
  <2>6. PassWasTrue'
    <3>1. SUFFICES ASSUME out'[1].status = "PASS" PROVE PassWasTrue'
      BY DEF PassWasTrue, Passed, Answer
    <3>2. \A p : Held(p)' = Held(p)
      BY <1>0 DEF Held, Same
    <3>3. req' = req /\ record' = record
      BY <1>0 DEF Same
    <3>4. \E m \in Held(req.record_path.path) : report_category(m) = "VALID"
      BY <1>2, <2>2, <2>4, <2>5, <3>1
    <3>5. ~Dispatch =>
            \E m \in Held(req.record_path.path) :
              /\ m.json = "object" /\ m.value = record
              /\ \E S \in SUBSET req.scope.proposed :
                    req.scope.changes \subseteq S /\ ClosedUnder(S, m.value.dependencies)
      BY <1>0, <2>4, <2>5, <3>1, GraphPass
    <3>6. req.analysis # "artifact-manifest-identity"
      BY <1>1 DEF RecordMethods
    <3> QED
      BY <3>2, <3>3, <3>4, <3>5, <3>6, Zenon DEF PassWasTrue, Passed
  <2> QED
    BY <1>0, <2>5, <2>6, Answered DEF Kept
<1> QED
  BY <1>3, <1>4

-----------------------------------------------------------------------------
(* A file changes between two steps of the provider.                       *)

LEMMA EditKeeps ==
  ASSUME IInv, edit
  PROVE  IInv'
<1>0. /\ pc \in Working /\ out = <<>> /\ out' = out /\ pc' = pc /\ req' = req
      /\ path' = path /\ record' = record /\ index' = index /\ actual' = actual
      /\ deps' = deps /\ reads' = reads
  BY DEF edit, IInv
<1>1. TreeOK'
  <2>1. PICK e \in Edits : /\ tree' = [tree EXCEPT ![e[1]] = e[2]]
                          /\ seen' = [seen EXCEPT ![e[1]] = @ \cup {e[2]}]
    BY DEF edit
  <2>2. e[1] \in Files /\ e[2] \in Nodes
    BY BoundsAssumption DEF Nodes
  <2>3. TreeOK
    BY DEF IInv
  <2> QED
    BY <2>1, <2>2, <2>3 DEF TreeOK
<1>2. \A p \in Files : Held(p) \subseteq Held(p)'
  BY HeldGrows DEF IInv
<1>3. Asked'
  <2>1. Asked
    BY <1>0 DEF IInv
  <2> QED
    BY <1>0, <2>1 DEF Asked
<1>4. Envelope'
  <2>1. Envelope
    BY <1>0 DEF IInv
  <2>2. RecordHeld => RecordHeld'
    BY <1>0, <1>2 DEF RecordHeld
  <2>3. Collected'
    BY <1>0, <2>1 DEF Envelope, Collected, ToSet, ReadOK, Visible
  <2>4. Visible(path) => Visible(path)'
    BY <1>0 DEF Visible
  <2> QED
    BY <1>0, <2>1, <2>2, <2>3, <2>4 DEF Envelope
<1>5. Loop'
  <2>1. Loop
    BY <1>0 DEF IInv
  <2>2. \A i : /\ Item(i)' = Item(i) /\ (Named(i) => Named(i)')
               /\ (Named(i) /\ Measured(i) => Measured(i)')
               /\ (Named(i) /\ Digested(i) => Digested(i)')
    BY <1>0, <1>2 DEF Item, Named, Measured, Digested
  <2>3. Visible(path) => Visible(path)'
    BY <1>0 DEF Visible
  <2> SUFFICES ASSUME pc \in Digesting PROVE Loop'
    BY <1>0 DEF Loop
  <2> DEFINE L == Len(req.supplied.items)
  <2>4. /\ L \in Nat /\ Len(record.artifacts.items) = L
        /\ index \in 1..L+1 /\ (pc # "artifact" => index <= L)
        /\ actual \in Seq(Identities)
        /\ Len(actual) = IF pc = "artifact read" THEN index ELSE index - 1
        /\ \A i \in 1..index-1 : Named(i) /\ Measured(i) /\ Digested(i)
        /\ pc # "artifact" => Named(index) /\ path = Item(index).path.path /\ Visible(path)
        /\ pc = "artifact read" => Measured(index)
    BY <2>1, Zenon DEF Loop
  <2>5. L' = L
    BY <1>0
  <2>6. \A i \in 1..index-1 : Named(i)' /\ Measured(i)' /\ Digested(i)'
    BY <2>2, <2>4, Zenon
  <2>7. pc # "artifact" => Named(index)' /\ path = Item(index)'.path.path /\ Visible(path)'
    BY <1>0, <2>2, <2>3, <2>4
  <2>8. pc = "artifact read" => Measured(index)'
    BY <1>0, <2>2, <2>4
  <2> HIDE DEF L
  <2> QED
    BY <1>0, <2>4, <2>5, <2>6, <2>7, <2>8 DEF Loop, L
<1>6. Kept'
  BY <1>0, SilentKept
<1>7. Route'
  <2>1. Route
    BY <1>0 DEF IInv
  <2>2. PICK e \in Edits :
          /\ tree' = [tree EXCEPT ![e[1]] = e[2]]
          /\ linked' = IF e[2].kind = "link" THEN linked \cup {e[1]} ELSE linked
    BY DEF edit
  <2>3. Checked => Checked'
    <3> SUFFICES ASSUME Checked, NEW q \in Files, IsPrefix(q, path), tree'[q].kind = "link"
                 PROVE  \E x \in linked' : IsPrefix(x, path)
      BY <1>0 DEF Checked, OnLink, LinksOn
    <3>1. tree \in [Files -> Nodes]
      BY DEF IInv, TreeOK
    <3>2. CASE q = e[1]
      BY <2>2, <3>1, <3>2
    <3>3. CASE q # e[1]
      <4>1. tree[q].kind = "link"
        BY <2>2, <3>1, <3>3
      <4> QED
        BY <2>2, <4>1 DEF Checked, OnLink, LinksOn
    <3> QED
      BY <3>2, <3>3
  <2> QED
    BY <1>0, <2>1, <2>3 DEF Route, Ordered
<1> QED
  BY <1>0, <1>1, <1>3, <1>4, <1>5, <1>6, <1>7 DEF IInv

LEMMA StutterKeeps ==
  ASSUME IInv, UNCHANGED vars
  PROVE  IInv'
<1>0. /\ tree' = tree /\ req' = req /\ entry' = entry /\ pc' = pc /\ path' = path
      /\ record' = record /\ index' = index /\ actual' = actual /\ deps' = deps
      /\ out' = out /\ seen' = seen /\ reads' = reads /\ linked' = linked
  BY DEF vars
<1>1. TreeOK' = TreeOK /\ Asked' = Asked
  BY <1>0 DEF TreeOK, Asked
<1>2. \A p : Held(p)' = Held(p) /\ Visible(p)' = Visible(p)
  BY <1>0 DEF Held, Visible
<1>3. Envelope' = Envelope
  BY <1>0, <1>2 DEF Envelope, Collected, ReadOK, RecordHeld, ToSet
<1>6. Route => Route'
  BY <1>0 DEF Route, Ordered, Checked, OnLink, LinksOn
<1>4. Loop' = Loop
  BY <1>0, <1>2 DEF Loop, Item, Named, Measured, Digested
<1>5. Kept => Kept'
  <2>1. PassWasTrue => PassWasTrue'
    BY <1>0, <1>2 DEF PassWasTrue, Passed, Answer
  <2>2. EnvelopeWhole => EnvelopeWhole'
    BY <1>0 DEF EnvelopeWhole, Answer
  <2>3. DeletedPathsCount => DeletedPathsCount'
    BY <1>0 DEF DeletedPathsCount
  <2> QED
    BY <2>1, <2>2, <2>3 DEF Kept
<1> QED
  BY <1>0, <1>1, <1>3, <1>4, <1>5, <1>6 DEF IInv

LEMMA NextKeeps ==
  ASSUME IInv, [Next]_vars
  PROVE  IInv'
<1>1. CASE provider
  BY <1>1, MainKeeps, ImpactKeeps, LoadCheckKeeps, LoadStatKeeps, LoadReadKeeps, ShapeKeeps,
     ArtifactCheckKeeps, ArtifactStatKeeps, ArtifactReadKeeps, VerdictKeeps, VersionKeeps,
     ValidateKeeps DEF provider
<1>2. CASE edit
  BY <1>2, EditKeeps
<1>3. CASE Finished \/ UNCHANGED vars
  BY <1>3, StutterKeeps DEF Finished
<1> QED
  BY <1>1, <1>2, <1>3 DEF Next

-----------------------------------------------------------------------------
(* IInv holds throughout: what the provider has collected - the record,    *)
(* the measured sizes, the digests, the dependency paths - was on disk     *)
(* after the record was loaded, however the files change in between.       *)
THEOREM ProviderInvariance == Spec => []IInv
  BY InitOK, NextKeeps, PTL DEF Spec

(* A PASS of artifact_manifest_identity, of the graph impact or of the     *)
(* record dispatch is true of what the files held since the record was     *)
(* loaded, for every request and every sequence of edits: each artifact    *)
(* had its declared size and bytes in the supplied order, a covered scope  *)
(* is closed under the record's dependencies, an accepted record was there.*)
THEOREM PassTheorem == Spec => []PassWasTrue
<1>1. IInv => PassWasTrue
  BY DEF IInv, Kept
<1> QED
  BY <1>1, ProviderInvariance, PTL

(* A complete dependency envelope names the record and every supplied      *)
(* artifact in order, and each read that the answer rests on, the second   *)
(* one by the validator too, was by one of these paths, visible and not    *)
(* protected, and opened the file of that name: for every sequence of      *)
(* edits and links, but for a link put on a path between its check and its *)
(* read, which is followed.                                                *)
THEOREM EnvelopeTheorem == Spec => []EnvelopeWhole
<1>1. IInv => EnvelopeWhole
  BY DEF IInv, Kept
<1> QED
  BY <1>1, ProviderInvariance, PTL

(* The hardened change impact answers by the names alone: a deleted path   *)
(* still counts as a change of everything that overlaps it.                *)
THEOREM DeletedTheorem == Spec => []DeletedPathsCount
<1>1. IInv => DeletedPathsCount
  BY DEF IInv, Kept
<1> QED
  BY <1>1, ProviderInvariance, PTL

============================================================================
