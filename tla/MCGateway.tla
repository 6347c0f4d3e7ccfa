----------------------------- MODULE MCGateway -----------------------------
(* Instance of Gateway for TLC.                                            *)
EXTENDS Gateway

Line(id, valid, delay) == [id |-> id, valid |-> valid, delay |-> delay]

\* Empty, in order, out of order with a tie, a duplicate id, a bad line, and
\* one line too many.
MCTraces ==
  { <<>>,
    <<Line("a", TRUE, 1), Line("b", TRUE, 0)>>,
    <<Line("a", TRUE, 1), Line("b", TRUE, 1), Line("c", TRUE, 0)>>,
    <<Line("a", TRUE, 0), Line("a", TRUE, 0)>>,
    <<Line("a", FALSE, 0)>>,
    <<Line("a", TRUE, 0), Line("b", TRUE, 0), Line("c", TRUE, 0), Line("d", TRUE, 0)>> }
============================================================================
