----------------------------- MODULE EdgeStream -----------------------------
(***************************************************************************)
(* The EdgeStream telemetry processor (edgestream_reference.c, and the     *)
(* generated edgestream_generated.c, which differs in its CRC table only)  *)
(* under its runner edgestream_cli.c: a byte stream in arbitrary fragments *)
(* is parsed into frames that update a bounded device table with rolling   *)
(* windows and alarms; the state is checkpointed and restored.             *)
(*                                                                         *)
(* A frame is FrameSize symbols long instead of 32 bytes: two for the      *)
(* magic, one for the length, one for everything else.  Whether a CRC      *)
(* matches is part of a symbol.                                            *)
(***************************************************************************)
EXTENDS Integers, Sequences, FiniteSets

CONSTANTS
  Streams,       \* input files: sequences of symbols (see Symbol)
  ES_MAX_DEVICES, ES_MAX_METRICS, ES_WINDOW_SAMPLES, ES_MAX_BUFFER, ES_SILENCE_MS,
  ES_METRIC_WATERMARK,
  RolloverFrom, RolloverTo,  \* 0xfffffff0 and 0x0f
  HighAbove, ClearAt,        \* 50000 and 45000
  Int32Limit,                \* 2^31: values are stored as int32
  MaxRuns                    \* bound: runs of the program in a behaviour

FrameSize == 4
HeaderSize == 3

ASSUME SizesAssumption ==
  /\ ES_MAX_DEVICES \in Nat \ {0} /\ ES_MAX_METRICS \in Nat \ {0}
  /\ ES_WINDOW_SAMPLES \in Nat \ {0} /\ ES_SILENCE_MS \in Nat
  /\ ES_MAX_BUFFER \in Nat /\ FrameSize <= ES_MAX_BUFFER \div 2
  /\ ClearAt \in Int /\ HighAbove \in Int /\ ClearAt <= HighAbove
  /\ Int32Limit \in Nat \ {0} /\ MaxRuns \in Nat

\* The pseudo-metric of a watermark is none of the real ones.
ASSUME WatermarkAssumption == ES_METRIC_WATERMARK \in Nat /\ ES_METRIC_WATERMARK >= ES_MAX_METRICS

(* A symbol: its kind, and for a body the fields of the frame, with        *)
(* whether the version is known and the checksum right.                    *)
Symbol(kind, frame) == [kind |-> kind, frame |-> frame]

Frame == [version : Nat, crc : BOOLEAN, restart : BOOLEAN, device : Nat, sequence : Nat,
          timestamp : Nat, metric : Nat, value : Int]

Symbols == [kind : {"e5", "47", "length", "body"}, frame : Frame]

ASSUME StreamsAssumption == Streams \subseteq Seq(Symbols)

Slots == 1..ES_MAX_DEVICES
Metrics == 0..(ES_MAX_METRICS - 1)
Ring == 0..(ES_WINDOW_SAMPLES - 1)

VARIABLES
  stream, position,  \* the input file, and how much of it was delivered
  pc,                \* "idle", "reading", "finished", "renaming", "renamed",
                     \*   "reported", "exiting"
  runs,
  origin,            \* the processor as the run started
  proc,              \* [p, out, history]: the processor, the records of this
                     \*   run and, not in the code, what each window has seen
  disk,              \* checkpoint file: <<>>, or <<[crc, content]>>
  damaged,           \* its bytes changed since the rename
  saved              \* contents that were put in place by a rename, in order

vars == <<stream, position, pc, runs, origin, proc, disk, damaged, saved>>

-----------------------------------------------------------------------------
(* es_init.                                                                *)
NoMetric == [values |-> [i \in Ring |-> 0], count |-> 0, next |-> 0, high_alarm |-> FALSE]
NoDevice ==
  [used |-> FALSE, seq_valid |-> FALSE, silence_alarm |-> FALSE, device_id |-> 0,
   last_seq |-> 0, last_timestamp |-> 0, metrics |-> [m \in Metrics |-> NoMetric]]
es_init ==
  [p |-> [buffer |-> <<>>, devices |-> [i \in Slots |-> NoDevice],
          accepted |-> 0, rejected |-> 0],
   out |-> <<>>,
   history |-> [i \in Slots |-> [m \in Metrics |-> <<>>]]]

emit_with(s, type, device, text, fields) ==
  [s EXCEPT !.out = Append(@, [type |-> type, device |-> device, text |-> text, fields |-> fields])]

emit(s, type, device, text) == emit_with(s, type, device, text, <<>>)

emit_reject(s, reason) == emit([s EXCEPT !.p.rejected = @ + 1], "reject", 0, reason)

(* find_device: the slot of the device, else the first free one, else 0.   *)
find_device(p, id) ==
  LET known == {i \in Slots : p.devices[i].used /\ p.devices[i].device_id = id}
      free == {i \in Slots : ~p.devices[i].used}
      First(S) == CHOOSE i \in S : \A j \in S : i <= j
  IN IF known # {} THEN First(known) ELSE IF free # {} THEN First(free) ELSE 0

(* emit_silence: a watermark raises the alarm of every device whose last   *)
(* event is too old; a timestamp of 0 stands for no event yet.             *)
IsSilent(d, watermark) ==
  /\ d.used /\ d.last_timestamp # 0
  /\ watermark - d.last_timestamp > ES_SILENCE_MS

\* Defect: a device already in alarm is reported again.
emit_silence_again(s, watermark) ==
  LET visit[i \in 0..ES_MAX_DEVICES] ==
        IF i = 0 THEN s
        ELSE LET d == s.p.devices[i]
             IN IF IsSilent(d, watermark)
                THEN emit([visit[i - 1] EXCEPT !.p.devices[i].silence_alarm = TRUE],
                          "silence", d.device_id, "active")
                ELSE visit[i - 1]
  IN visit[ES_MAX_DEVICES]

emit_silence(s, watermark) ==
  LET visit[i \in 0..ES_MAX_DEVICES] ==
        IF i = 0 THEN s
        ELSE LET d == s.p.devices[i]
             IN IF IsSilent(d, watermark) /\ ~d.silence_alarm
                THEN emit([visit[i - 1] EXCEPT !.p.devices[i].silence_alarm = TRUE],
                          "silence", d.device_id, "active")
                ELSE visit[i - 1]
  IN visit[ES_MAX_DEVICES]

-----------------------------------------------------------------------------
(* Arithmetic of the C types: the int32 cast, and division towards zero.   *)
Int32(v) == ((v + Int32Limit) % (2 * Int32Limit)) - Int32Limit
Quotient(a, b) == IF a >= 0 THEN a \div b ELSE -((-a) \div b)

normalized(f) == IF f.version = 2 THEN f.value * 10 ELSE f.value

Average(m) ==
  LET sum[i \in 0..ES_WINDOW_SAMPLES] ==
        IF i = 0 THEN 0 ELSE sum[i - 1] + (IF i <= m.count THEN m.values[i - 1] ELSE 0)
  IN Quotient(sum[ES_WINDOW_SAMPLES], m.count)

\* Defect: the ring index stays at the last sample.
Push_late(m, v) ==
  [m EXCEPT !.values[m.next] = v,
            !.next = IF m.next + 1 >= ES_WINDOW_SAMPLES THEN ES_WINDOW_SAMPLES - 1 ELSE m.next + 1,
            !.count = IF @ < ES_WINDOW_SAMPLES THEN @ + 1 ELSE @]

(* The rolling window after one more value.                                *)
Push(m, v) ==
  [m EXCEPT !.values[m.next] = v,
            !.next = (m.next + 1) % ES_WINDOW_SAMPLES,
            !.count = IF @ < ES_WINDOW_SAMPLES THEN @ + 1 ELSE @]

(* The sequence check of a device whose last sequence is valid.            *)
Rollover(d, f) == d.last_seq >= RolloverFrom /\ f.sequence <= RolloverTo
Duplicate(d, f) == d.seq_valid /\ f.sequence = d.last_seq
\* Defect: only an equal sequence is refused.
Late_never(d, f) == FALSE
Late(d, f) == d.seq_valid /\ ~Rollover(d, f) /\ f.sequence < d.last_seq

(* The device a frame finds: a slot just taken is cleared, and the restart *)
(* flag clears the sequence and the metrics.                               *)
Found(d, f) ==
  LET e == IF d.used THEN d ELSE [NoDevice EXCEPT !.used = TRUE, !.device_id = f.device]
  IN IF f.restart
     THEN [e EXCEPT !.seq_valid = FALSE, !.metrics = [m \in Metrics |-> NoMetric]]
     ELSE e

\* Defect: the alarm is cleared as soon as it is no longer above the limit.
HighAlarm_no_hysteresis(was, average) == average > HighAbove

(* The high alarm with hysteresis.                                         *)
HighAlarm(was, average) ==
  IF average > HighAbove THEN TRUE ELSE IF average <= ClearAt THEN FALSE ELSE was

(* accept_frame once the sequence was accepted: the silence alarm is       *)
(* cleared, the window is advanced, the event and a change of the high     *)
(* alarm are reported.                                                     *)
AcceptEvent(s, i, d, f) ==
  LET m == Push(d.metrics[f.metric], Int32(normalized(f)))
      high == HighAlarm(m.high_alarm, Average(m))
      e == [d EXCEPT !.silence_alarm = FALSE, !.seq_valid = TRUE, !.last_seq = f.sequence,
                     !.last_timestamp = f.timestamp,
                     !.metrics[f.metric] = [m EXCEPT !.high_alarm = high]]
      s1 == IF d.silence_alarm THEN emit(s, "silence", f.device, "clear") ELSE s
      s2 == emit_with([s1 EXCEPT !.p.accepted = @ + 1, !.p.devices[i] = e,
                                 !.history[i][f.metric] = Append(@, normalized(f))],
                      "event", f.device, "event",
                      <<f.sequence, f.timestamp, f.metric, normalized(f)>>)
  IN IF high = m.high_alarm THEN s2
     ELSE emit(s2, "high", f.device, IF high THEN "active" ELSE "clear")

accept_frame(s, f) ==
  IF f.metric = ES_METRIC_WATERMARK THEN emit_silence(s, f.timestamp)
  ELSE IF f.metric >= ES_MAX_METRICS THEN emit_reject(s, "metric")
  ELSE LET i == find_device(s.p, f.device)
       IN IF i = 0 THEN emit(s, "resource_limit", f.device, "active_devices")
          ELSE LET d == Found(s.p.devices[i], f)
                   s1 == [s EXCEPT !.p.devices[i] = d,
                            !.history[i] = IF f.restart THEN [m \in Metrics |-> <<>>] ELSE @]
               IN IF Duplicate(d, f) THEN emit(s1, "duplicate", f.device, "duplicate")
                  ELSE IF Late(d, f) THEN emit(s1, "late", f.device, "late")
                  ELSE AcceptEvent(s1, i, d, f)

-----------------------------------------------------------------------------
Magic(buffer, k) == buffer[k].kind = "e5" /\ buffer[k + 1].kind = "47"

(* One iteration of the loop of es_process_bytes at an offset of the       *)
(* buffer; at the end of what can be decided, more becomes FALSE.          *)
ParseStep(st) ==
  LET buffer == st.s.p.buffer
      rest == Len(buffer) - st.offset
      k == st.offset + 1
      Skip(n, s) == [st EXCEPT !.offset = @ + n, !.s = s]
      Stop == [st EXCEPT !.more = FALSE]
  IN IF ~st.more THEN st
     ELSE IF rest < 2 THEN Stop
     ELSE IF ~Magic(buffer, k) THEN Skip(1, emit_reject(st.s, "junk"))
     ELSE IF rest < HeaderSize THEN Stop
     ELSE IF buffer[k + 2].kind # "length" THEN Skip(1, emit_reject(st.s, "length"))
     ELSE IF rest < FrameSize THEN Stop
     ELSE LET f == buffer[k + 3].frame
          IN Skip(FrameSize,
                  IF f.version \notin {1, 2} THEN emit_reject(st.s, "version")
                  ELSE IF ~f.crc THEN emit_reject(st.s, "checksum")
                  ELSE accept_frame(st.s, f))

(* The loop, and the memmove of what is left.                              *)
ParseBuffer(s) ==
  LET n == Len(s.p.buffer)
      st[i \in 0..n + 1] ==
        IF i = 0 THEN [s |-> s, offset |-> 0, more |-> TRUE] ELSE ParseStep(st[i - 1])
      last == st[n + 1]
  IN [last.s EXCEPT !.p.buffer = SubSeq(@, last.offset + 1, n)]

\* Defect: each delivery starts from an empty buffer.
es_process_bytes_forgetful(s, data) == ParseBuffer([s EXCEPT !.p.buffer = data])

es_process_bytes(s, data) ==
  IF Len(data) > ES_MAX_BUFFER - Len(s.p.buffer)
  THEN [emit_reject(s, "parser_buffer") EXCEPT !.p.buffer = <<>>]
  ELSE ParseBuffer([s EXCEPT !.p.buffer = @ \o data])

es_finish(s) ==
  IF s.p.buffer = <<>> THEN s ELSE [emit_reject(s, "truncated") EXCEPT !.p.buffer = <<>>]

-----------------------------------------------------------------------------
(* edgestream_cli.c.                                                       *)
Init ==
  /\ stream \in Streams /\ position = 0 /\ pc = "idle" /\ runs = 0
  /\ origin = es_init /\ proc = es_init /\ disk = <<>> /\ damaged = FALSE
  /\ saved = <<>>

Content == [p |-> proc.p, history |-> proc.history]

\* Defect: the CRC is not compared.
es_restore_unchecked == disk # <<>>

(* es_restore: the file is there, whole and of the right checksum.         *)
es_restore == disk # <<>> /\ disk[1].crc

(* main with or without --checkpoint-in; a failed restore ends the run.    *)
start(checkpoint_in) ==
  /\ pc = "idle" /\ runs < MaxRuns
  /\ runs' = runs + 1
  /\ \/ /\ ~checkpoint_in
        /\ origin' = es_init /\ proc' = es_init /\ pc' = "reading"
     \/ /\ checkpoint_in /\ es_restore
        /\ proc' = emit([p |-> disk[1].content.p, out |-> <<>>,
                         history |-> disk[1].content.history], "recovery", 0, "PASS")
        /\ origin' = proc' /\ pc' = "reading"
     \/ /\ checkpoint_in /\ ~es_restore
        /\ UNCHANGED <<origin, proc, pc>>
  /\ UNCHANGED <<stream, position, disk, damaged, saved>>

(* fread and the inner loop: at most half the parser buffer at a time.     *)
deliver(n) ==
  /\ pc = "reading" /\ position + n <= Len(stream)
  /\ proc' = es_process_bytes(proc, SubSeq(stream, position + 1, position + n))
  /\ position' = position + n
  /\ UNCHANGED <<stream, pc, runs, origin, disk, damaged, saved>>

finish ==
  /\ pc = "reading" /\ position = Len(stream)
  /\ proc' = es_finish(proc)
  /\ pc' = "finished"
  /\ UNCHANGED <<stream, position, runs, origin, disk, damaged, saved>>

\* Defect: a failed write is renamed over the last checkpoint.
es_checkpoint_fails_renamed ==
  /\ pc = "finished"
  /\ proc' = emit(proc, "checkpoint", 0, "FAIL")
  /\ disk' = <<[crc |-> FALSE, content |-> Content]>>
  /\ pc' = "exiting"
  /\ UNCHANGED <<stream, position, runs, origin, damaged, saved>>

(* es_checkpoint with one of the failure steps 1 to 4, or a real failure   *)
(* of the same calls: the temporary file is removed.  When it cannot even  *)
(* be opened nothing is reported.                                          *)
es_checkpoint_fails ==
  /\ pc = "finished"
  /\ proc' \in {proc, emit(proc, "checkpoint", 0, "FAIL")}
  /\ pc' = "exiting"
  /\ UNCHANGED <<stream, position, runs, origin, disk, damaged, saved>>

(* es_checkpoint: the temporary file is written, flushed and closed.       *)
es_checkpoint ==
  /\ pc = "finished"
  /\ pc' = "renaming"
  /\ UNCHANGED <<stream, position, runs, origin, proc, disk, damaged, saved>>

(* rename over the last checkpoint, or its failure.                        *)
rename ==
  /\ pc = "renaming"
  /\ \/ /\ disk' = <<[crc |-> TRUE, content |-> Content]>>
        /\ damaged' = FALSE /\ saved' = Append(saved, Content)
        /\ pc' = "renamed" /\ UNCHANGED proc
     \/ /\ proc' = emit(proc, "checkpoint", 0, "FAIL") /\ pc' = "exiting"
        /\ UNCHANGED <<disk, damaged, saved>>
  /\ UNCHANGED <<stream, position, runs, origin>>

(* The checkpoint is reported once it is in place.                         *)
report ==
  /\ pc = "renamed"
  /\ proc' = emit(proc, "checkpoint", 0, "PASS")
  /\ pc' = "reported"
  /\ UNCHANGED <<stream, position, runs, origin, disk, damaged, saved>>

(* The program ends, with or without --checkpoint-out, or is killed: only  *)
(* the checkpoint file remains.                                            *)
stop ==
  /\ pc # "idle"
  /\ pc' = "idle" /\ position' = 0 /\ origin' = es_init /\ proc' = es_init
  /\ UNCHANGED <<stream, runs, disk, damaged, saved>>

(* Bytes of the checkpoint change on disk.                                 *)
corrupt ==
  /\ pc = "idle" /\ es_restore
  /\ disk' = <<[crc |-> FALSE, content |-> [disk[1].content EXCEPT !.p.accepted = @ + 1]]>>
  /\ damaged' = TRUE
  /\ UNCHANGED <<stream, position, pc, runs, origin, proc, saved>>

Next ==
  \/ (\E checkpoint_in \in BOOLEAN : start(checkpoint_in))
  \/ (\E n \in 1..(ES_MAX_BUFFER \div 2) : deliver(n))
  \/ finish \/ es_checkpoint_fails \/ es_checkpoint \/ rename \/ report \/ stop \/ corrupt

Spec == Init /\ [][Next]_vars

-----------------------------------------------------------------------------
(* Properties.                                                             *)

(* "Splitting or joining chunks must not change canonical records": what   *)
(* the processor holds and has reported is what it would hold and report   *)
(* had everything delivered so far come at once; nothing is lost to a full *)
(* parser buffer.                                                          *)
FragmentationIndependent ==
  pc = "reading" =>
    proc = ParseBuffer([origin EXCEPT !.p.buffer = @ \o SubSeq(stream, 1, position)])

(* An int32 holds the value.                                               *)
Fits(v) == -Int32Limit <= v /\ v < Int32Limit

(* The k-th last value of a metric's window.                               *)
Retained(w, k) == w.values[(w.next - k) % ES_WINDOW_SAMPLES]

(* "Each metric retains the last eight accepted normalized values" as far  *)
(* as an int32 can: the ring, whatever restarts, taken slots, wraps and    *)
(* recoveries it went through, is as long as the history of the metric     *)
(* since the last restart, or full, and holds each of its last values that *)
(* fits, in its place, also next to ones that do not.                      *)
WindowIsHistory ==
  \A i \in Slots, m \in Metrics :
    LET w == proc.p.devices[i].metrics[m]
        h == proc.history[i][m]
    IN /\ w.count = IF Len(h) < ES_WINDOW_SAMPLES THEN Len(h) ELSE ES_WINDOW_SAMPLES
       /\ \A k \in 1..w.count : Fits(h[Len(h) - k + 1]) => Retained(w, k) = h[Len(h) - k + 1]

(* The contract's sentence as it stands (contract.md, rolling state): what *)
(* was accepted and reported as a normalized value is what is retained.    *)
(* accept_frame stores the 64-bit product of a version 2 measurement in an *)
(* int32.                                                                  *)
NormalizedRetained ==
  \A i \in Slots, m \in Metrics :
    LET w == proc.p.devices[i].metrics[m]
        h == proc.history[i][m]
    IN \A k \in 1..w.count : Retained(w, k) = h[Len(h) - k + 1]

(* The average of the last values after the k-th one of a history, from    *)
(* the definition.                                                         *)
AverageAfter(h, k) ==
  LET from == IF k <= ES_WINDOW_SAMPLES THEN 1 ELSE k - ES_WINDOW_SAMPLES + 1
      sum[i \in (from - 1)..k] == IF i < from THEN 0 ELSE sum[i - 1] + h[i]
  IN Quotient(sum[k], k - from + 1)

(* "A high alarm activates above 50000 milli-units and clears at or below  *)
(* 45000": it is up exactly when some average of the normalized values     *)
(* accepted since the restart went above the limit and none since came     *)
(* down to the clearing point, provided that each of them fits an int32.   *)
HighAlarmFollowsHistory ==
  \A i \in Slots, m \in Metrics :
    LET h == proc.history[i][m]
    IN (\A k \in 1..Len(h) : Fits(h[k])) =>
       (proc.p.devices[i].metrics[m].high_alarm <=>
         \E k \in 1..Len(h) :
           /\ AverageAfter(h, k) > HighAbove
           /\ \A j \in k..Len(h) : AverageAfter(h, j) > ClearAt)

IsSilence(record, id) == record.type = "silence" /\ record.device = id

(* The silence alarm a reader of the records believes in is the one the    *)
(* processor holds: reports alternate, from the state the run started in,  *)
(* restored checkpoints included.                                          *)
SilenceReportsAlternate ==
  \A i \in Slots :
    LET id == proc.p.devices[i].device_id
        told[k \in 0..Len(proc.out)] ==
          IF k = 0 THEN IF origin.p.devices[i].silence_alarm THEN "active" ELSE "clear"
          ELSE IF IsSilence(proc.out[k], id) THEN proc.out[k].text ELSE told[k - 1]
    IN proc.p.devices[i].used =>
         /\ \A k \in 1..Len(proc.out) : IsSilence(proc.out[k], id) => told[k] # told[k - 1]
         /\ told[Len(proc.out)] = IF proc.p.devices[i].silence_alarm THEN "active" ELSE "clear"

(* "An incomplete or corrupt checkpoint must not replace the last valid    *)
(* checkpoint": unless its bytes change, the file is the last one that was *)
(* written whole and renamed, whatever failed or was killed since, and     *)
(* what is reported PASS is the state of the processor and on disk.        *)
CheckpointKept ==
  ~damaged =>
    /\ disk = IF saved = <<>> THEN <<>> ELSE <<[crc |-> TRUE, content |-> saved[Len(saved)]]>>
    /\ pc = "reported" => disk = <<[crc |-> TRUE, content |-> Content]>>

(* "... and must not be restored as valid state": a run starts from        *)
(* nothing or from a state that was saved.                                 *)
RestoredWasSaved ==
  origin = es_init \/ [p |-> origin.p, history |-> origin.history] \in
                        {saved[k] : k \in 1..Len(saved)}
=============================================================================
