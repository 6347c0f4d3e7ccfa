----------------------------- MODULE EdgeWater -----------------------------
(***************************************************************************)
(* EdgeStream feeding the water controller: the adapter of the integration *)
(* study reads the records of a run of EdgeStream and joins the events of  *)
(* one device with one timestamp, one per metric, to a telemetry sample.   *)
(* The controller decides on each sample in turn, as WaterControl models.  *)
(***************************************************************************)
EXTENDS EdgeStream

CONSTANTS
  DeviceId,   \* the one device the adapter serves
  Second,     \* a second in the unit of the timestamps: 1000
  Codes       \* [metric that carries a code -> codes with a meaning]

ASSUME AdapterAssumption == DOMAIN Codes \subseteq Metrics /\ Second \in Nat \ {0}

EdgeStreamTelemetryAdapter ==
  [last_sequence |-> 0, pending |-> <<>>, samples |-> <<>>, error |-> "none"]

(* pending: [timestamp -> [metric -> value]].                              *)
Pending(a, t) == IF t \in DOMAIN a.pending THEN a.pending[t] ELSE <<>>
Put(f, x, v) == [y \in DOMAIN f \cup {x} |-> IF y = x THEN v ELSE f[y]]
Drop(f, x) == [y \in DOMAIN f \ {x} |-> f[y]]

(* A sample carries whole seconds.  Its levels stay in thousandths here:   *)
(* dividing them by 1000.0 changes their unit and no decision.             *)
observed_at_s(timestamp) == timestamp \div Second

\* Defect: the finished sample stays among the pending ones.
Deliver_kept(a, timestamp, values) ==
  [a EXCEPT !.samples = Append(@, [observed |-> observed_at_s(timestamp), values |-> values]),
            !.pending = Put(@, timestamp, values)]

(* The last metric of a timestamp completes the sample.                    *)
Deliver(a, timestamp, values) ==
  [a EXCEPT !.samples = Append(@, [observed |-> observed_at_s(timestamp), values |-> values]),
            !.pending = Drop(@, timestamp)]

(* EdgeStream lets a sequence come back after a restart or a rollover; the *)
(* adapter does not, nor does it take a first sequence of 0.               *)
Refuse(a, sequence) == sequence <= a.last_sequence

(* accept: what is raised ends the study; an incomplete sample waits.      *)
accept(a, record) ==
  LET sequence == record.fields[1]
      timestamp == record.fields[2]
      metric == record.fields[3]
      b == [a EXCEPT !.last_sequence = sequence]
      values == Put(Pending(a, timestamp), metric, record.fields[4])
  IN IF a.error # "none" \/ record.type # "event" THEN a
     ELSE IF record.device # DeviceId THEN [a EXCEPT !.error = "device"]
     ELSE IF Refuse(a, sequence) THEN [a EXCEPT !.error = "sequence"]
     ELSE IF metric \notin Metrics THEN [b EXCEPT !.error = "metric"]
     ELSE IF metric \in DOMAIN Pending(a, timestamp) THEN [b EXCEPT !.error = "duplicate"]
     ELSE IF DOMAIN values # Metrics THEN [b EXCEPT !.pending = Put(@, timestamp, values)]
     ELSE IF \E m \in DOMAIN Codes : values[m] \notin Codes[m] THEN [b EXCEPT !.error = "code"]
     ELSE Deliver(b, timestamp, values)

(* run: the adapter over all records of the program, and the demand that   *)
(* nothing is left pending.                                                *)
Adapted(out) ==
  LET a[i \in 0..Len(out)] ==
        IF i = 0 THEN EdgeStreamTelemetryAdapter ELSE accept(a[i - 1], out[i])
      last == a[Len(out)]
  IN IF last.error = "none" /\ DOMAIN last.pending # {} THEN [last EXCEPT !.error = "incomplete"] ELSE last

-----------------------------------------------------------------------------
(* Properties.                                                             *)

Valid(f) == f.version \in {1, 2} /\ f.crc /\ f.metric < ES_MAX_METRICS

(* The frames of an input that holds nothing else, in order.               *)
Sent == [i \in 1..(Len(stream) \div FrameSize) |-> stream[FrameSize * i].frame]

WholeFrame(i) ==
  LET k == FrameSize * (i - 1)
  IN /\ stream[k + 1].kind = "e5" /\ stream[k + 2].kind = "47"
     /\ stream[k + 3].kind = "length" /\ Valid(stream[k + 4].frame)

FreshRunDone == pc = "finished" /\ origin = es_init

(* A clean sender: whole samples of the one device, metric by metric, with *)
(* increasing sequences and meaningful codes, the metrics of a sample with *)
(* one time.                                                               *)
CleanSender ==
  LET n == ES_MAX_METRICS
  IN /\ Len(stream) = FrameSize * Len(Sent) /\ Len(Sent) % n = 0
     /\ \A i \in DOMAIN Sent :
          /\ WholeFrame(i)
          /\ Sent[i].device = DeviceId /\ ~Sent[i].restart /\ Sent[i].metric = (i - 1) % n
          /\ Sent[i].metric \in DOMAIN Codes => normalized(Sent[i]) \in Codes[Sent[i].metric]
          /\ Sent[i].sequence > IF i = 1 THEN 0 ELSE Sent[i - 1].sequence
          /\ \A j \in 1..i-1 : (i - 1) \div n = (j - 1) \div n =>
                                  Sent[i].timestamp = Sent[j].timestamp

(* "adapted_samples_equal_direct_samples" (run_study.py, run): whatever    *)
(* the fragmentation, what a clean sender sent through EdgeStream and the  *)
(* adapter arrives as the samples that were sent, in order, each with the  *)
(* second of its time.                                                     *)
AdapterDelivers ==
  FreshRunDone /\ CleanSender =>
    LET n == ES_MAX_METRICS
        a == Adapted(proc.out)
    IN /\ a.error = "none"
       /\ a.samples = [k \in 1..(Len(Sent) \div n) |->
            [observed |-> Sent[(k - 1) * n + 1].timestamp \div Second,
             values |-> [m \in Metrics |-> normalized(Sent[(k - 1) * n + m + 1])]]]

(* EdgeStream drops repeated and late frames, so that the adapter's demand *)
(* for increasing sequences (accept) fails for nothing the network does:   *)
(* only after the sender restarted, rolled over or began with sequence 0.  *)
AdapterRefusesOnly ==
  FreshRunDone /\ Adapted(proc.out).error = "sequence" =>
    \E i \in DOMAIN stream :
      LET f == stream[i].frame
      IN Valid(f) /\ (f.restart \/ f.sequence = 0 \/ f.sequence >= RolloverFrom)
=============================================================================
