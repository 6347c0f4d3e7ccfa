-------------------------- MODULE MCForgeProvider --------------------------
(* A small tree: a manifest of two artifacts, one of them in a directory,  *)
(* an assurance record, a protected file and a record outside the visible  *)
(* roots, which links put on a path lead to.                               *)
EXTENDS ForgeProvider, TLC

P(name) == <<"fixtures", name>>
Dir     == P("d")
InDir   == P("d") \o <<"b">>
Tools   == <<"tools">>
Hidden  == <<"tools", "b">>
Outside == <<"other">>

MCFiles     == {P("manifest"), P("a"), Dir, InDir, P("record"), Tools, Hidden, Outside}
MCAllowed   == {<<"fixtures">>}
MCProtected == {<<"tools">>}

Shape   == [depth |-> 3, text |-> 20, items |-> 4, keys |-> {4, 12}]
Deep    == [Shape EXCEPT !.depth = 9]
Unkeyed == [Shape EXCEPT !.keys = {0}]
Absent     == [kind |-> "absent"]
Directory  == [kind |-> "dir"]
Link(p)    == [kind |-> "link", target |-> p]
File(b, n) == [kind |-> "file", bytes |-> b, size |-> n, json |-> "malformed", shape |-> Shape]
Json(b, v) == [kind |-> "file", bytes |-> b, size |-> 1, json |-> "object", shape |-> Shape,
               value |-> v]

Plain(p)       == [text |-> "plain", path |-> p]
Spelled(t, p)  == [text |-> t, path |-> p]
List(s)        == [ok |-> TRUE, items |-> s]
NoList         == [ok |-> FALSE, items |-> <<>>]
Item(v, n, b)  == [object |-> TRUE, path |-> v, size |-> n, sha256 |-> b, long |-> FALSE]
Identity(p, n, b) == [path |-> p, size |-> n, sha256 |-> b]

ItemA == Item(Plain(P("a")), 1, "a1")
ItemB == Item(Plain(InDir), 2, "b1")
Manifest(items, digest) == [schema |-> "0.1", artifacts |-> List(items), ordered_digest |-> digest,
                            graph |-> FALSE, dependencies |-> {}]
Digest == <<Identity(P("a"), 1, "a1"), Identity(InDir, 2, "b1")>>
Manifests ==
    {Manifest(<<ItemA, ItemB>>, Digest),
     Manifest(<<ItemA, ItemB>>, <<Digest[2], Digest[1]>>),
     Manifest(<<[ItemA EXCEPT !.sha256 = "a2"], ItemB>>, Digest),
     Manifest(<<[ItemA EXCEPT !.sha256 = "a2", !.long = TRUE], ItemB>>, Digest),
     Manifest(<<ItemA, [ItemB EXCEPT !.object = FALSE]>>, Digest),
     Manifest(<<ItemA, [ItemB EXCEPT !.path = Spelled("dotted", InDir)]>>, Digest),
     Manifest(<<ItemA, [ItemB EXCEPT !.path = Plain(Hidden)]>>, Digest),
     Manifest(<<>>, <<>>),
     [Manifest(<<ItemA, ItemB>>, Digest) EXCEPT !.schema = "0.2"]}

Assurance(v, dependencies) == [schema |-> v, graph |-> TRUE, dependencies |-> dependencies]
Record1 == Assurance("0.3-rc.1", {<<"c1", "c2">>, <<"c2", "c3">>})
Record2 == Assurance("0.3-rc.1", {<<"c1", "c2">>})

MCTree == [p \in MCFiles |->
    CASE p = P("manifest") -> Json("m1", Manifest(<<ItemA, ItemB>>, Digest))
      [] p = P("a")        -> File("a1", 1)
      [] p \in {Dir, Tools} -> Directory
      [] p = InDir         -> File("b1", 2)
      [] p = P("record")   -> Json("valid1", Record1)
      [] p = Hidden        -> File("b1", 2)
      [] p = Outside       -> Json("valid2", Record2)]

MCEdits ==
    {<<P("manifest"), Json("m", m)>> : m \in Manifests} \cup
    {<<P("a"), File("a2", 1)>>, <<P("a"), File("a1", 3)>>, <<P("a"), Absent>>, <<P("a"), MCTree[P("a")]>>,
     <<P("a"), Link(InDir)>>, <<P("a"), File("big", 9)>>, <<InDir, Absent>>,
     <<Dir, Link(Tools)>>, <<P("record"), Link(Outside)>>,
     <<P("record"), Json("valid2", Record2)>>, <<P("record"), Json("bad", Record1)>>,
     <<P("record"), Json("old", Assurance("0.2", {}))>>,
     <<P("record"), Json("unsupported", Record2)>>,
     <<P("record"), [Json("valid3", Record2) EXCEPT !.value.graph = FALSE]>>,
     <<P("record"), [Json("valid1", Record1) EXCEPT !.shape = Unkeyed]>>,
     <<P("record"), [File("digits", 1) EXCEPT !.json = "digits"]>>,
     <<P("record"), [File("nested", 1) EXCEPT !.json = "nested"]>>,
     <<P("record"), File("text", 1)>>, <<P("record"), File("big", 9)>>, <<P("record"), Absent>>}

Category(node) ==
    CASE node.bytes \in {"valid1", "valid2", "valid3"} -> "VALID"
      [] node.bytes = "unsupported"                    -> "UNSUPPORTED"
      [] OTHER                                         -> "INVALID"

Ask(method) == [bytes |-> 1, newlines |-> 1, json |-> "object", shape |-> Shape,
    protocol |-> "0.1", id |-> "r", type |-> "analysis_request", analysis |-> method,
    parameters |-> TRUE, kind |-> "assurance"]

Framed ==
    {[Ask("m") EXCEPT !.bytes = 9], [Ask("m") EXCEPT !.newlines = 0],
     [Ask("m") EXCEPT !.newlines = 2], [Ask("m") EXCEPT !.json = "malformed"],
     [Ask("m") EXCEPT !.json = "other"], [Ask("m") EXCEPT !.shape = Deep],
     [Ask("m") EXCEPT !.protocol = "0.2"], [Ask("m") EXCEPT !.protocol = "0.2", !.id = "long"],
     [Ask("m") EXCEPT !.id = "invalid"], [Ask("m") EXCEPT !.type = "capabilities"],
     [Ask("m") EXCEPT !.type = "cancel"], Ask("m"),
     [Ask("artifact-manifest-identity") EXCEPT !.parameters = FALSE]}

Broken == {Ask("array"), [Ask("m") EXCEPT !.json = "digits"],
           [Ask("m") EXCEPT !.json = "nested"],
           [Ask("mncs-record-dispatch") EXCEPT !.kind = "array"]}

Impact(changed, dependencies) ==
    Ask("evidence-change-impact") @@ [changed |-> changed, dependencies |-> dependencies]
Values == {Plain(P("a")), Plain(Dir), Plain(InDir), Spelled("dotted", P("a")), Plain(P("gone")),
           Spelled("climbing", P("a")), Spelled("backslash", P("a")), Plain(Hidden), Plain(Outside)}
Impacts == {Impact(List(<<v>>), List(<<w, Plain(P("record"))>>)) : v, w \in Values} \cup
           {Impact(NoList, List(<<Plain(Dir)>>)), Impact(List(<<>>), List(<<Plain(P("a"))>>)),
            Impact(List(<<Plain(Dir)>>), List(<<>>)),
            Impact(List([i \in 1..4 |-> Plain(Dir)]), List(<<Plain(Dir)>>))}

Identify(v, supplied) ==
    Ask("artifact-manifest-identity") @@ [record_path |-> v, supplied |-> supplied]
Identifies ==
    {Identify(Plain(P("manifest")), s) : s \in
        {List(<<Plain(P("a")), Plain(InDir)>>), List(<<Plain(InDir), Plain(P("a"))>>),
         List(<<Plain(P("a"))>>), NoList}} \cup
    {Identify(v, List(<<Plain(P("a")), Plain(InDir)>>)) : v \in {Plain(Hidden), Plain(Dir)}}

Scope(changes, proposed) == [ok |-> TRUE, changes |-> changes, proposed |-> proposed]
Graphs ==
    {Ask("mncs-assurance-graph-impact") @@ [record_path |-> Plain(P("record")), scope |-> s] :
        s \in {Scope({"c1"}, {"c1", "c2", "c3"}), Scope({"c1"}, {"c1", "c2"}), Scope({"c3"}, {"c3"}),
               [Scope({}, {}) EXCEPT !.ok = FALSE]}}

Dispatch(kind, expected, time) ==
    [Ask("mncs-record-dispatch") EXCEPT !.kind = kind] @@
    [record_path |-> Plain(P("record")), expected |-> expected, time |-> time]
Dispatches == {Dispatch("assurance", "0.3-rc.1", TRUE), Dispatch("assurance", "0.3-rc.1", FALSE),
               Dispatch("assurance", "0.2", TRUE), Dispatch("release", "0.3-rc.1", TRUE)}

MCRequests == Framed \cup Broken \cup Impacts \cup Identifies \cup Graphs \cup Dispatches
============================================================================
