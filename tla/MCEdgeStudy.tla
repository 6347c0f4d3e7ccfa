---------------------------- MODULE MCEdgeStudy ----------------------------
(* Instance of EdgeStudy for TLC: references whose candidates are good, or *)
(* have one of the faults an evaluator is there to find.                   *)
EXTENDS EdgeStudy

Source(id, acts) ==
    [id |-> id, acts |-> acts, stable |-> acts # "unstable",
     compiles |-> acts # "broken",
     defects |-> IF acts = "unmarked" THEN {"generated_marker"} ELSE {}]

MCReferences == {Source("r", acts) : acts \in
    {"good", "differs", "jitter", "brief", "leaks", "tears", "mute", "unmarked", "broken", "unstable"}}
MCRevisions == {r \in MCReferences : r.acts \in {"good", "differs"}}
MCSpecialize(r) == Source("c", r.acts)
MCStrays == {Source("c", "differs")}

Acts(b) == IF b.source.id = "r" THEN "good" ELSE b.source.acts

\* One run takes 12 and 24 units of the reference's time, 8 of a good
\* candidate's; "jitter" is fast on the mean but slow in one repetition;
\* "brief" is so fast that the largest batch stays below the target.
MCElapsed(b, w, r) ==
    CASE b.source.id = "r" -> IF w = "steady" THEN 12 ELSE 24
      [] b.source.id = "c" /\ b.source.acts = "jitter" /\ w = "steady" /\ r = 2 -> 15
      [] b.source.id = "c" /\ b.source.acts = "brief" -> 2
      [] OTHER -> 8

Line(type, text) == [type |-> type, text |-> text]
Saved == [saved |-> "state"]
MCMutations == {[input |-> "bad-version", reason |-> "version", accepted |-> 0],
                [input |-> "junk-prefix", reason |-> "junk", accepted |-> 1]}

\* The program as the study sees it.
MCExecute(b, input, chunk, options) ==
    LET acts == Acts(b)
        damage == {m \in MCMutations : m.input = input}
        refused == input = "second" /\ options.in # Saved
        torn == acts = "tears" /\ options.fail = 2
        output ==
            CASE damage # {} -> <<Line("reject", (CHOOSE m \in damage : TRUE).reason)>>
              [] refused -> <<Line("recovery", "FAIL")>>
              [] input = "second" /\ ~refused -> <<Line("recovery", "PASS"), Line("event", "second")>>
              [] input = "first" -> <<Line("event", "first"), Line("checkpoint", "PASS")>>
              [] input = "steady" -> <<Line("event", "first"), Line("event", "second")>>
              [] OTHER -> <<Line("event", IF acts = "differs" /\ chunk = 1 THEN "other" ELSE input)>>
    IN [stdout |-> output,
        returncode |-> IF refused THEN 3 ELSE IF options.fail > 0 THEN 2
                       ELSE IF input \in {"hostile", "edge-cases"} \/ damage # {} THEN 1 ELSE 0,
        metric |-> IF acts = "mute" /\ damage # {} THEN Missing
                   ELSE [accepted |-> IF input = "bad-version" THEN 0 ELSE 1,
                         rejected |-> IF damage # {} THEN 1 ELSE 0],
        diagnostics |-> IF acts = "leaks" /\ b.compiler = "sanitized" THEN {"LeakSanitizer"} ELSE {},
        checkpoint |-> IF torn THEN [saved |-> "torn"]
                       ELSE IF options.fail > 0 THEN options.out ELSE Saved,
        temporary |-> FALSE]
=============================================================================
