--------------------------- MODULE MCComposedHost ---------------------------
(* Instance of ComposedHost for TLC.                                       *)
EXTENDS ComposedHost

\* Two orders of the same values, nothing, a bad frame, one frame too many.
MCInputs == { <<1, 2>>, <<2, 1>>, <<>>, <<1, -1>>, <<1, 1, 1>> }

Process(kind, ends_at, half_at, wrong) ==
  [kind |-> kind, crash_after |-> ends_at, partial_at |-> half_at, wrong_version |-> wrong]

\* Healthy, crashing on the second line, answering half the first, speaking
\* another version, and the V1 authority; -1 is never.
MCAuthorities ==
  { Process("v2", -1, -1, FALSE), Process("v2", 1, -1, FALSE), Process("v2", -1, 0, FALSE),
    Process("v2", -1, -1, TRUE), Process("v1", -1, -1, FALSE) }

\* Every combination, except that the authority process only matters without
\* rollback and that runs without a checkpoint path inject no failure.
MCConfigs ==
  { c \in [authority : MCAuthorities, checkpointPath : BOOLEAN, resume : BOOLEAN,
           rollback : BOOLEAN, fallback : BOOLEAN, allowReplace : BOOLEAN,
           failAfter : {0, 1}] :
      /\ c.rollback => c.authority = Process("v2", -1, -1, FALSE)
      /\ ~c.checkpointPath => c.failAfter = 0 /\ c.fallback = c.allowReplace }
=============================================================================
