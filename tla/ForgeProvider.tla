--------------------------- MODULE ForgeProvider ---------------------------
(***************************************************************************)
(* The project provider of the Forge integration: one process that reads   *)
(* one request, answers one of four bounded questions about files of the   *)
(* repository and writes one line.  The files are shared: editors and      *)
(* builds change them between any two steps of the provider.               *)
(*                                                                         *)
(* A path is a sequence of names, a path value what a request or a         *)
(* manifest holds in its place: a spelling and the path it normalizes to.  *)
(* SHA-256 is taken as collision free: a digest is what was digested.      *)
(* Sizes are abstract units; the response's wording is left out.           *)
(***************************************************************************)
EXTENDS Integers, Sequences, FiniteSets, SequencesExt

CONSTANTS
    Files,            \* the paths that exist or may come to exist
    ALLOWED_ROOTS, PROTECTED_ROOTS,
    Requests,         \* what may arrive on standard input
    InitTree,         \* [Files -> node]
    Edits,            \* the <<path, node>> pairs the environment may write
    MaxEdits,         \* bound: how often it does
    MAX_REQUEST_BYTES, MAX_OUTPUT_BYTES, MAX_JSON_BYTES, MAX_FILES,
    MAX_TOTAL_FILE_BYTES,
    report_category(_)  \* validate_rc_file of the installed mncs_validator

ASSUME BoundsAssumption ==
    /\ {MAX_REQUEST_BYTES, MAX_OUTPUT_BYTES, MAX_JSON_BYTES, MAX_FILES,
        MAX_TOTAL_FILE_BYTES, MaxEdits} \subseteq Nat
    /\ Files \subseteq Seq(STRING)
    /\ \A e \in Edits : e[1] \in Files

\* What may ever be at a path.
Nodes == {InitTree[p] : p \in Files} \cup {e[2] : e \in Edits}

\* A JSON list is finite, and the validator knows three categories.
ASSUME NodesAssumption ==
    /\ InitTree \in [Files -> Nodes]
    /\ \A n \in Nodes :
        /\ n.kind \in {"file", "absent", "dir", "link"}
        /\ n.kind = "link" => n.target \in Files
        /\ n.kind = "file" => report_category(n) \in {"VALID", "INVALID", "UNSUPPORTED"}
        /\ n.kind = "file" /\ n.json = "object" => IsFiniteSet(n.value.dependencies)

\* The supplied paths and the names of a change are lists.
ASSUME RequestsAssumption ==
    \A r \in Requests :
        /\ r.analysis = "artifact-manifest-identity" /\ r.parameters =>
              DOMAIN r.supplied.items = 1..Len(r.supplied.items)
        /\ r.analysis = "evidence-change-impact" /\ r.parameters =>
              \A v \in ToSet(r.changed.items) \cup ToSet(r.dependencies.items) :
                  v.path \in Seq(STRING)

\* No visible root is inside a protected one or around it (lines 45-59).
ASSUME RootsAssumption ==
    /\ ALLOWED_ROOTS \cup PROTECTED_ROOTS \subseteq Seq(STRING)
    /\ \A a \in ALLOWED_ROOTS, b \in PROTECTED_ROOTS : ~IsPrefix(a, b) /\ ~IsPrefix(b, a)

VARIABLES
    tree,      \* the files
    req,       \* the request being answered
    entry,     \* which entry point runs: base or hardened
    pc,
    path,      \* the path the next stat or read is about
    record,    \* the JSON object load_json_path returned
    index, total, actual,   \* the loop of artifact_manifest_identity
    deps,      \* dependency_paths
    out,       \* the lines written
    edits,     \* bound on the environment
    seen,      \* history: what each file has held since the request or the load
    linked,    \* history: where a link was put since the last check of a path
    reads      \* history: the reads the answer depends on

vars == <<tree, req, entry, pc, path, record, index, total, actual, deps, out,
          edits, seen, linked, reads>>
work == <<path, record, index, total, actual, deps, reads, linked>>

----------------------------------------------------------------------------
(* Paths *)

_within(p, roots) == \E root \in roots : IsPrefix(root, p)

path_overlap(first, second) == IsPrefix(first, second) \/ IsPrefix(second, first)

IsFile(p) == p \in Files /\ tree[p].kind = "file"

LinksOn(p) == {q \in Files : IsPrefix(q, p) /\ tree[q].kind = "link"}
OnLink(p) == LinksOn(p) # {}

\* p with its first part q replaced by t
Via(q, t, p) == t \o SubSeq(p, Len(q) + 1, Len(p))

\* The file that stat, open and the validator reach by a path: a link put in
\* the place of the file or of a directory above it after the check is
\* followed.
Real(p) ==
    IF ~OnLink(p) THEN p
    ELSE LET q == CHOOSE q \in LinksOn(p) : \A r \in LinksOn(p) : Len(q) <= Len(r)
         IN Via(q, tree[q].target, p)

Nothing == [kind |-> "absent"]
Node(p) == IF Real(p) \in Files THEN tree[Real(p)] ELSE Nothing

Readable(p) == Node(p).kind = "file"

\* Mutant: every name has to be a file, deleted ones too.
safe_relative_path_existing(value, must_exist) ==
    value.text = "plain" /\ _within(value.path, ALLOWED_ROOTS) /\ IsFile(value.path)

\* Mutant: the parts of the path are not tested for links.
safe_relative_path_following(value, must_exist) ==
    /\ value.text \in {"plain", "dotted"}
    /\ _within(value.path, ALLOWED_ROOTS) /\ ~_within(value.path, PROTECTED_ROOTS)
    /\ must_exist => Readable(value.path)

\* PurePosixPath drops "." parts and doubled slashes, so a "dotted" spelling
\* is accepted and normalized; the test for "." never meets one.
safe_relative_path(value, must_exist) ==
    /\ value.text \notin {"not text", "empty", "backslash"}
    /\ value.text \notin {"absolute", "climbing"}
    /\ ~_within(value.path, PROTECTED_ROOTS)
    /\ _within(value.path, ALLOWED_ROOTS)
    /\ ~OnLink(value.path)
    /\ must_exist => IsFile(value.path)

----------------------------------------------------------------------------
(* Answers *)

\* A JSON value is measured by its nesting, its longest text, its largest
\* collection and the lengths of its keys.
bounded_json_value(shape) ==
    /\ shape.depth <= 8 /\ shape.text <= 4096 /\ shape.items <= 128
    /\ \A n \in shape.keys : n \in 1..128

response(status, unsupported, paths, complete) ==
    [type |-> "analysis_response", id |-> req.id, status |-> status,
     unsupported |-> unsupported, paths |-> paths, complete |-> complete,
     size |-> 1]

error_response(id, code) ==
    [type |-> "error", id |-> id, status |-> code, unsupported |-> {},
     paths |-> <<>>, complete |-> FALSE, size |-> 1]

capabilities == [response("CAPABILITIES", {}, <<>>, FALSE) EXCEPT
                     !.type = "capabilities"]

\* The line also carries the request's id, however long it is; the error
\* that replaces a line that is too long is not measured again.
Encoded(r) == r.size + (IF r.id = "long" THEN MAX_OUTPUT_BYTES ELSE 0)

emit(r) ==
    /\ out' = Append(out, IF Encoded(r) > MAX_OUTPUT_BYTES
                          THEN error_response(r.id, "OUTPUT_LIMIT") ELSE r)
    /\ pc' = "exit"

Unknown(why, paths) == emit(response("UNKNOWN", {why}, paths, FALSE))

\* Mutant: handle catches ProviderInputError only.
OperationalError_uncaught == pc' = "traceback" /\ UNCHANGED out

\* handle answers an OSError, UnicodeError or ValueError of a method.
OperationalError == Unknown("operational-input-error", <<>>)

\* A read by the checked path p: the file really opened, and whether a link
\* was put on the path since its check.
Reading(p) == [asked |-> p, opened |-> Real(p), late |-> \E q \in linked : IsPrefix(q, p)]

\* A file whose bytes the answer rests on enters the dependency envelope by
\* the path that was asked for.
Depend(p) == deps' = Append(deps, p) /\ reads' = reads \cup {Reading(p)}

----------------------------------------------------------------------------
(* main and handle *)

Init ==
    /\ tree = InitTree /\ req \in Requests /\ entry \in {"base", "hardened"}
    /\ pc = "main" /\ path = <<>> /\ record = [schema |-> "none"]
    /\ index = 1 /\ total = 0 /\ actual = <<>> /\ deps = <<>> /\ out = <<>>
    /\ edits = 0 /\ seen = [p \in Files |-> {InitTree[p]}] /\ linked = {} /\ reads = {}

\* json.loads gives up on an integer of more than 4300 digits with a plain
\* ValueError and on deep nesting with a RecursionError; main catches
\* neither.
Unparsed == {"digits", "nested"}

FramingError ==
    IF req.bytes > MAX_REQUEST_BYTES THEN "REQUEST_LIMIT"
    ELSE IF req.newlines # 1         THEN "FRAMING"
    ELSE IF req.json = "malformed"   THEN "MALFORMED_JSON"
    ELSE IF req.json \in Unparsed     THEN "none"
    ELSE IF req.json = "other"       THEN "MALFORMED_REQUEST"
    ELSE IF ~bounded_json_value(req.shape) THEN "REQUEST_LIMIT"
    ELSE "none"

Methods == {"evidence-change-impact", "artifact-manifest-identity",
            "mncs-assurance-graph-impact", "mncs-record-dispatch"}

Kinds == {"contract", "assurance", "threat", "measurement"}

\* A method or kind that is a JSON array or object cannot be looked up in a
\* dict or set: the TypeError leaves handle and main, and no line is written.
Unhashable == "array"

\* The question parameters are an object; as part of a request within the
\* bounds they are within them too.
parameters == req.parameters

\* handle up to the first file access; a method asks for its parameters first.
handle ==
    IF req.protocol # "0.1" THEN emit(error_response(req.id, "UNSUPPORTED_PROTOCOL"))
    ELSE IF req.id \in {"invalid", "long"}
    THEN emit(error_response("invalid", "INVALID_REQUEST_ID"))
    ELSE IF req.type = "capabilities" THEN emit(capabilities)
    ELSE IF req.type # "analysis_request"
    THEN emit(error_response(req.id, "UNSUPPORTED_REQUEST"))
    ELSE IF req.analysis = Unhashable THEN pc' = "traceback" /\ UNCHANGED out
    ELSE IF req.analysis \notin Methods THEN Unknown("unsupported-method", <<>>)
    ELSE IF ~parameters THEN Unknown("unsupported-input", <<>>)
    ELSE IF req.analysis = "evidence-change-impact" THEN pc' = "impact" /\ UNCHANGED out
    ELSE IF req.analysis # "mncs-record-dispatch" THEN pc' = "load" /\ UNCHANGED out
    ELSE IF req.kind = Unhashable THEN pc' = "traceback" /\ UNCHANGED out
    ELSE IF req.kind \notin Kinds THEN Unknown("unsupported-record-kind", <<>>)
    ELSE pc' = "load" /\ UNCHANGED out

main ==
    /\ pc = "main"
    /\ IF FramingError # "none" THEN emit(error_response("invalid", FramingError))
       ELSE IF req.json \in Unparsed THEN pc' = "traceback" /\ UNCHANGED out
       ELSE handle
    /\ UNCHANGED <<tree, req, entry, edits, seen>> /\ UNCHANGED work

----------------------------------------------------------------------------
(* evidence-change-impact *)

Bounded(list, least) == list.ok /\ Len(list.items) \in least..MAX_FILES

ImpactAnswer(must_exist) ==
    LET changed      == req.changed.items
        dependencies == req.dependencies.items
        names(s)     == [i \in DOMAIN s |-> s[i].path]
        overlap      == \E i \in DOMAIN changed, j \in DOMAIN dependencies :
                            path_overlap(changed[i].path, dependencies[j].path)
    IN IF ~Bounded(req.changed, 0) \/ ~Bounded(req.dependencies, 1)
       THEN response("UNKNOWN", {"missing-or-unbounded-dependency-envelope"}, <<>>, FALSE)
       ELSE IF \E v \in ToSet(changed) \cup ToSet(dependencies) :
                  ~safe_relative_path(v, must_exist)
       THEN response("UNKNOWN", {"unsupported-path"}, <<>>, FALSE)
       ELSE response(IF overlap THEN "FAIL" ELSE "PASS", {}, names(dependencies), FALSE)

\* The base method asks for existing files, the hardened one also takes
\* names of files that a change has deleted.
evidence_change_impact ==
    /\ pc = "impact"
    /\ emit(ImpactAnswer(entry = "base"))
    /\ UNCHANGED <<tree, req, entry, edits, seen>> /\ UNCHANGED work

----------------------------------------------------------------------------
(* load_json_path: check, stat, read *)

Unavailable == CASE req.analysis = "artifact-manifest-identity"  -> "manifest-unavailable"
                 [] req.analysis = "mncs-assurance-graph-impact" -> "assurance-record-unavailable"
                 [] OTHER                                        -> "record-unavailable"

load_check ==
    /\ pc = "load"
    /\ IF safe_relative_path(req.record_path, TRUE)
       THEN pc' = "load stat" /\ path' = req.record_path.path /\ UNCHANGED out
       ELSE Unknown(Unavailable, <<>>) /\ UNCHANGED path
    /\ linked' = {}
    /\ UNCHANGED <<tree, req, entry, edits, seen, record, index, total, actual, deps, reads>>

\* stat is outside the try: its OSError is answered by handle.
load_stat ==
    /\ pc = "load stat"
    /\ IF ~Readable(path) THEN OperationalError
       ELSE IF Node(path).size > MAX_JSON_BYTES THEN Unknown(Unavailable, <<>>)
       ELSE pc' = "load read" /\ UNCHANGED out
    /\ UNCHANGED <<tree, req, entry, edits, seen>> /\ UNCHANGED work

\* The bytes read may be another version than the one stat measured.  The
\* ValueError of a long integer is left to handle, the RecursionError of
\* deep nesting to nobody.
load_read ==
    /\ pc = "load read"
    /\ IF Readable(path) /\ Node(path).json = "object" /\ bounded_json_value(Node(path).shape)
       THEN /\ record' = Node(path).value /\ Depend(path)
            /\ pc' = IF req.analysis = "artifact-manifest-identity" THEN "shape" ELSE "version"
            /\ seen' = [p \in Files |-> {tree[p]}] /\ UNCHANGED out
       ELSE /\ IF Readable(path) /\ Node(path).json = "digits" THEN OperationalError
               ELSE IF Readable(path) /\ Node(path).json = "nested"
               THEN pc' = "traceback" /\ UNCHANGED out
               ELSE Unknown(Unavailable, <<>>)
            /\ UNCHANGED <<record, deps, reads, seen>>
    /\ UNCHANGED <<tree, req, entry, edits, linked, path, index, total, actual>>

----------------------------------------------------------------------------
(* artifact-manifest-identity *)

manifest_shape ==
    /\ pc = "shape"
    /\ IF /\ record.schema = "0.1" /\ record.artifacts.ok /\ req.supplied.ok
          /\ Len(record.artifacts.items) \in 1..MAX_FILES
          /\ Len(req.supplied.items) = Len(record.artifacts.items)
       THEN pc' = "artifact" /\ UNCHANGED out
       ELSE Unknown("unsupported-manifest-shape", deps)
    /\ UNCHANGED <<tree, req, entry, edits, seen>> /\ UNCHANGED work

ArtifactRefused == Unknown("artifact-unavailable", deps)

artifact_check ==
    /\ pc = "artifact"
    /\ index <= Len(record.artifacts.items)
    /\ LET raw == record.artifacts.items[index]
           named == req.supplied.items[index]
       IN IF /\ raw.object
             /\ safe_relative_path(raw.path, TRUE) /\ safe_relative_path(named, TRUE)
             /\ raw.path.path = named.path
          THEN pc' = "artifact stat" /\ path' = raw.path.path /\ UNCHANGED out
          ELSE ArtifactRefused /\ UNCHANGED path
    /\ linked' = {}
    /\ UNCHANGED <<tree, req, entry, edits, seen, record, index, total, actual, deps, reads>>

artifact_stat ==
    /\ pc = "artifact stat"
    /\ IF Readable(path) /\ total + Node(path).size <= MAX_TOTAL_FILE_BYTES
       THEN /\ total' = total + Node(path).size
            /\ actual' = Append(actual, [path |-> path, size |-> Node(path).size])
            /\ pc' = "artifact read" /\ UNCHANGED out
       ELSE ArtifactRefused /\ UNCHANGED <<total, actual>>
    /\ UNCHANGED <<tree, req, entry, edits, seen, linked, path, record, index, deps, reads>>

artifact_read ==
    /\ pc = "artifact read"
    /\ IF Readable(path)
       THEN /\ actual' = [actual EXCEPT ![index] =
                             [path |-> path, size |-> actual[index].size,
                              sha256 |-> Node(path).bytes]]
            /\ Depend(path)
            /\ index' = index + 1 /\ pc' = "artifact" /\ UNCHANGED out
       ELSE ArtifactRefused /\ UNCHANGED <<actual, deps, reads, index>>
    /\ UNCHANGED <<tree, req, entry, edits, seen, linked, path, record, total>>

\* What a manifest entry declares: the path as it is spelled.
declared(item) == [path |-> IF item.path.text = "plain" THEN item.path.path ELSE <<".">>,
                   size |-> item.size, sha256 |-> item.sha256]

Mismatches == {i \in DOMAIN actual : declared(record.artifacts.items[i]) # actual[i]}

\* Mutant: the digest is taken over what the manifest declares.
ManifestAgrees_declared ==
    record.ordered_digest = [i \in DOMAIN actual |-> declared(record.artifacts.items[i])]

\* ordered_manifest_digest digests the whole sequence of identities.
ManifestAgrees == Mismatches = {} /\ record.ordered_digest = actual

manifest_verdict ==
    /\ pc = "artifact" /\ index > Len(record.artifacts.items)
    /\ LET witnesses == IF \E i \in Mismatches : record.artifacts.items[i].long
                        THEN MAX_OUTPUT_BYTES ELSE 0
       IN emit([response(IF ManifestAgrees THEN "PASS" ELSE "FAIL", {}, deps, TRUE)
                   EXCEPT !.size = 1 + witnesses])
    /\ UNCHANGED <<tree, req, entry, edits, seen>> /\ UNCHANGED work

----------------------------------------------------------------------------
(* mncs-assurance-graph-impact and mncs-record-dispatch *)

SchemaVersion == "0.3-rc.1"

record_version ==
    /\ pc = "version"
    /\ IF record.schema = SchemaVersion
              /\ (req.analysis = "mncs-record-dispatch" => req.expected = SchemaVersion)
       THEN pc' = "validate" /\ UNCHANGED out
       ELSE IF req.analysis = "mncs-record-dispatch"
       THEN emit(response("UNKNOWN", {"unsupported-or-downgraded-version"}, deps, TRUE))
       ELSE Unknown("unsupported-assurance-version", deps)
    /\ UNCHANGED <<tree, req, entry, edits, seen>> /\ UNCHANGED work

\* claims reached from the changed ones along the record's dependencies
material_change_impact(changes, dependencies) ==
    LET grow(S) == S \cup {d[2] : d \in {e \in dependencies : e[1] \in S}}
    IN LET reach[n \in 0..Cardinality(dependencies)] ==
               IF n = 0 THEN changes ELSE grow(reach[n - 1])
       IN reach[Cardinality(dependencies)]

GraphAnswer ==
    IF ~req.scope.ok THEN response("UNKNOWN", {"unsupported-change-scope-shape"}, deps, FALSE)
    ELSE IF ~record.graph THEN response("UNKNOWN", {"unsupported-dependency-graph"}, deps, FALSE)
    ELSE response(IF material_change_impact(req.scope.changes, record.dependencies)
                        \subseteq req.scope.proposed
                  THEN "PASS" ELSE "FAIL", {}, deps, TRUE)

DispatchAnswer(category) ==
    CASE category = "UNSUPPORTED" ->
            response("UNKNOWN", {"public-validator-unsupported"}, deps, TRUE)
      [] category = "INVALID" -> response("FAIL", {}, deps, TRUE)
      [] OTHER                -> response("PASS", {}, deps, TRUE)

\* validate_rc_file opens the path again; parse_time may reject the time.
validate ==
    /\ pc = "validate"
    /\ IF ~Readable(path) \/ (req.analysis = "mncs-record-dispatch" /\ ~req.time)
       THEN OperationalError /\ UNCHANGED reads
       ELSE /\ LET category == report_category(Node(path))
               IN emit(IF req.analysis = "mncs-record-dispatch" THEN DispatchAnswer(category)
                       ELSE IF category = "VALID" THEN GraphAnswer
                       ELSE response("FAIL", {}, deps, TRUE))
            /\ reads' = reads \cup {Reading(path)}
    /\ UNCHANGED <<tree, req, entry, edits, seen, path, record, index, total, actual, deps, linked>>

----------------------------------------------------------------------------
(* The environment: an editor or a build writes, deletes or links a file   *)
(* or a directory.  What is written below a link is written to its target, *)
(* and a link to a link is the same as one to its end.                     *)

NoChain(t) == \A q \in Files : t[q].kind = "link" =>
                  \A r \in Files : IsPrefix(r, t[q].target) => t[r].kind # "link"

edit ==
    /\ edits < MaxEdits /\ pc \notin {"exit", "traceback"}
    /\ \E e \in Edits :
          /\ tree[e[1]] # e[2]
          /\ LinksOn(e[1]) \subseteq {e[1]}
          /\ tree' = [tree EXCEPT ![e[1]] = e[2]]
          /\ NoChain(tree')
          /\ seen' = [seen EXCEPT ![e[1]] = @ \cup {e[2]}]
          /\ linked' = IF e[2].kind = "link" THEN linked \cup {e[1]} ELSE linked
    /\ edits' = edits + 1
    /\ UNCHANGED <<req, entry, pc, out, path, record, index, total, actual, deps, reads>>

provider ==
    \/ main \/ evidence_change_impact
    \/ load_check \/ load_stat \/ load_read
    \/ manifest_shape \/ artifact_check \/ artifact_stat \/ artifact_read \/ manifest_verdict
    \/ record_version \/ validate

Finished == pc \in {"exit", "traceback"} /\ UNCHANGED vars

Next == provider \/ edit \/ Finished

Spec == Init /\ [][Next]_vars /\ WF_vars(provider)
----------------------------------------------------------------------------
(* Properties *)

Answer == out[1]

Passed(method) == out # <<>> /\ Answer.status = "PASS" /\ req.analysis = method

\* The contents a path has had since the record was loaded, through links too.
Held(p) ==
    {n \in Nodes : n.kind = "file" /\
        (\/ n \in seen[p]
         \/ \E q \in Files : /\ IsPrefix(q, p)
                             /\ \E l \in seen[q] : /\ l.kind = "link"
                                                  /\ Via(q, l.target, p) \in Files
                                                  /\ n \in seen[Via(q, l.target, p)])}

\* The claims that have to be revalidated: the least set that holds the
\* changed claims and is closed under the dependencies.
ClosedUnder(S, dependencies) == \A d \in dependencies : d[1] \in S => d[2] \in S

\* A PASS is never an artefact of files that changed while the provider was
\* reading them (lines 317-331, 407, 528): after the manifest was loaded each
\* artifact had its declared bytes and its declared size on disk, in the
\* supplied order; a covered scope is closed under the
\* dependencies of a record that was on disk, and a record that the
\* validator accepts was there too.
PassWasTrue ==
    /\ Passed("artifact-manifest-identity") =>
          \E m \in Held(req.record_path.path) :
             /\ m.json = "object" /\ m.value = record
             /\ Len(m.value.artifacts.items) = Len(req.supplied.items)
             /\ \A i \in DOMAIN req.supplied.items :
                   LET item == m.value.artifacts.items[i]
                   IN /\ item.path.path = req.supplied.items[i].path
                      /\ \E n \in Held(item.path.path) : n.bytes = item.sha256
                      /\ \E n \in Held(item.path.path) : n.size = item.size
                      /\ m.value.ordered_digest[i].sha256 = item.sha256
    /\ Passed("mncs-assurance-graph-impact") =>
          \E m \in Held(req.record_path.path) :
             /\ m.json = "object" /\ m.value = record
             /\ \E S \in SUBSET req.scope.proposed :
                   req.scope.changes \subseteq S /\ ClosedUnder(S, m.value.dependencies)
    /\ Passed("mncs-assurance-graph-impact") \/ Passed("mncs-record-dispatch") =>
          \E m \in Held(req.record_path.path) : report_category(m) = "VALID"

\* A response that calls its dependency envelope complete (lines 360-381)
\* names the record and then every supplied artifact in its order, and they
\* are all it rests on: each read, the validator's too, was by one of these
\* paths, visible and not protected, and opened the very file of that name,
\* whatever was edited and linked meanwhile.  The exception is a link put on
\* a path between its check and its read: the read follows it (lines 131-136,
\* 320-329), and the envelope still names the path that was asked for.
EnvelopeWhole ==
    out # <<>> /\ Answer.complete =>
        /\ Answer.paths[1] = req.record_path.path
        /\ req.analysis = "artifact-manifest-identity" =>
              /\ Len(Answer.paths) = Len(req.supplied.items) + 1
              /\ \A i \in DOMAIN req.supplied.items :
                    Answer.paths[i + 1] = req.supplied.items[i].path
        /\ {r.asked : r \in reads} = ToSet(Answer.paths)
        /\ \A r \in reads :
              /\ _within(r.asked, ALLOWED_ROOTS) /\ ~_within(r.asked, PROTECTED_ROOTS)
              /\ r.opened = r.asked \/ r.late

\* The hardened entry point decides a change impact by the names alone
\* (project_provider_hardened.py lines 35-54): a path deleted before or
\* while it is asked about still counts as a change of what depends on it.
DeletedPathsCount ==
    \A r \in ToSet(out) :
        /\ entry = "hardened" /\ pc = "exit" /\ r.type = "analysis_response"
        /\ req.analysis = "evidence-change-impact" /\ req.parameters
        /\ Bounded(req.changed, 0) /\ Bounded(req.dependencies, 1)
        /\ \A v \in ToSet(req.changed.items) \cup ToSet(req.dependencies.items) :
              /\ v.text \in {"plain", "dotted"} /\ _within(v.path, ALLOWED_ROOTS)
              /\ \A p \in Files : IsPrefix(p, v.path) =>
                    \A n \in seen[p] : n.kind # "link"
        => r.status = IF \E v \in ToSet(req.changed.items), w \in ToSet(req.dependencies.items) :
                            path_overlap(v.path, w.path)
                      THEN "FAIL" ELSE "PASS"

\* A line never exceeds the output bound (emit, lines 652-670), but for the
\* error that echoes the overlong id of a request of another protocol.
LinesBounded ==
    \A r \in ToSet(out) : Encoded(r) <= MAX_OUTPUT_BYTES \/ req.protocol # "0.1"

\* A request or a file that raises where nothing catches it: a method or kind
\* that cannot be hashed, or JSON that json.loads gives up on.
Uncaught ==
    \/ Unhashable \in {req.analysis, req.kind}
    \/ req.json \in Unparsed
    \/ path # <<>> /\ Readable(path) /\ Node(path).json = "nested"

\* Whatever happens to the files, a request is answered, with one bounded
\* line and no other (main, lines 673-698).  The only requests that get no
\* line are those that end in a traceback for one of the reasons above.
AnswersOnce ==
    <>[](\/ pc = "exit" /\ Len(out) = 1 /\ LinesBounded
         \/ pc = "traceback" /\ out = <<>> /\ Uncaught)

============================================================================
