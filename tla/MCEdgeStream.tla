---------------------------- MODULE MCEdgeStream ----------------------------
(* Instance of EdgeStream and of the adapter for TLC.                      *)
EXTENDS EdgeWater

Fields(version, device, sequence, timestamp, metric, value) ==
  [version |-> version, crc |-> TRUE, restart |-> FALSE, device |-> device,
   sequence |-> sequence, timestamp |-> timestamp, metric |-> metric, value |-> value]

NoFrame == [Fields(1, 0, 0, 0, 0, 0) EXCEPT !.crc = FALSE]

Wire(f) ==
  << Symbol("e5", NoFrame), Symbol("47", NoFrame), Symbol("length", NoFrame), Symbol("body", f) >>

\* Two devices in order, high and low values, one beyond the stored width, a
\* late one, one that rolls over and its successor, a restart, watermarks before and after the silence
\* threshold, a third device, an invalid metric, a version and a checksum.
MCFrames ==
  { Fields(1, 1, 1, 1, 0, 60), Fields(2, 1, 2, 2, 0, 4), Fields(1, 1, 3, 3, 0, 47),
    Fields(2, 1, 2, 2, 0, 20),
    Fields(1, 2, 1, 1, 0, -3), Fields(1, 1, 14, 3, 0, -87), Fields(1, 1, 0, 4, 0, 60),
    [Fields(1, 1, 1, 5, 0, 7) EXCEPT !.restart = TRUE],
    Fields(1, 0, 0, 2, 9, 0), Fields(1, 0, 0, 8, 9, 0),
    Fields(1, 3, 1, 1, 0, 1), Fields(1, 1, 4, 1, 2, 1),
    Fields(3, 1, 5, 1, 0, 1), NoFrame }

\* Bytes that are not frames: junk, a repeated first magic byte, a wrong
\* length, a frame cut short.
MCNoise ==
  { <<Symbol("body", NoFrame)>>, <<Symbol("e5", NoFrame)>>,
    <<Symbol("e5", NoFrame), Symbol("47", NoFrame), Symbol("body", NoFrame)>>,
    <<Symbol("e5", NoFrame), Symbol("47", NoFrame), Symbol("length", NoFrame)>> }

MCWires == {Wire(f) : f \in MCFrames}
MCGood == Wire(Fields(1, 1, 1, 1, 0, 60))

MCLast == {w \in MCWires : w[4].frame.device = 1 /\ w[4].frame.sequence \in {0, 1, 3}}

MCCodes == [m \in {1} |-> 0..2]

\* Levels and qualities of the adapter's device: samples sent cleanly, with
\* frames repeated or late, out of order, incomplete, after a restart, from
\* sequence 0, with a code that means nothing, or mixed with another device.
L1 == Wire(Fields(1, 1, 1, 1, 0, 40))
Q1 == Wire(Fields(1, 1, 2, 1, 1, 0))
L2 == Wire(Fields(2, 1, 3, 2, 0, 4))
Q2 == Wire(Fields(1, 1, 4, 2, 1, 2))
MCSampleStreams ==
  { L1 \o Q1 \o L2 \o Q2, L1 \o Q1, L1 \o L1 \o Q1 \o L1, L1 \o L2 \o Q1 \o Q2, L1 \o L2 \o Q2,
    L1 \o Q1 \o Wire([Fields(1, 1, 1, 2, 0, 7) EXCEPT !.restart = TRUE]),
    Wire(Fields(1, 1, 0, 1, 0, 9)) \o Q1, L1 \o Wire(Fields(1, 1, 2, 1, 1, 7)),
    L1 \o Wire(Fields(1, 2, 1, 1, 0, 9)) \o Q1, L1 \o Wire(Fields(1, 1, 2, 1, 0, 9)) }

MCStreams ==
  {a \o b \o c : a \in MCWires, b \in MCWires, c \in MCLast}
  \cup {a \o b : a \in MCWires, b \in MCNoise}
  \cup {a \o b \o MCGood : a \in MCNoise, b \in MCNoise}
  \cup MCSampleStreams
=============================================================================
