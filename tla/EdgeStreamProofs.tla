-------------------------- MODULE EdgeStreamProofs --------------------------
(***************************************************************************)
(* Proofs about the EdgeStream processor, for every input stream, every    *)
(* fragmentation of it and every size of the device table and the window.  *)
(***************************************************************************)
EXTENDS EdgeWater, SequenceTheorems, WellFoundedInduction, TLAPS

(* The least-number principle for a set, which serves as induction.        *)
LEMMA LeastNatural ==
  ASSUME NEW T, T \subseteq Nat, T # {}
  PROVE  \E x \in T : \A y \in T : ~(y < x)
<1>1. IsWellFoundedOn(OpToRel(<, Nat), Nat)
  BY NatLessThanWellFounded
<1>2. PICK x \in T : \A y \in T : <<y, x>> \notin OpToRel(<, Nat)
  BY <1>1, WFMin
<1>3. \A y \in T : ~(y < x)
  BY <1>2 DEF OpToRel
<1> QED
  BY <1>3

-----------------------------------------------------------------------------
(* The operations on a frame never look at the parser buffer.              *)

Mk(b, dv, a, r, o, h) ==
  [p |-> [buffer |-> b, devices |-> dv, accepted |-> a, rejected |-> r], out |-> o, history |-> h]

IsProc(s) == \E b, dv, a, r, o, h : s = Mk(b, dv, a, r, o, h)

With(s, b) == Mk(b, s.p.devices, s.p.accepted, s.p.rejected, s.out, s.history)

LEMMA MkIs ==
  ASSUME NEW b, NEW dv, NEW a, NEW r, NEW o, NEW h
  PROVE  /\ Mk(b, dv, a, r, o, h).p.buffer = b /\ Mk(b, dv, a, r, o, h).p.devices = dv
         /\ Mk(b, dv, a, r, o, h).p.accepted = a /\ Mk(b, dv, a, r, o, h).p.rejected = r
         /\ Mk(b, dv, a, r, o, h).out = o /\ Mk(b, dv, a, r, o, h).history = h
         /\ IsProc(Mk(b, dv, a, r, o, h))
         /\ \A c : With(Mk(b, dv, a, r, o, h), c) = Mk(c, dv, a, r, o, h)
<1>1. /\ Mk(b, dv, a, r, o, h).p.buffer = b /\ Mk(b, dv, a, r, o, h).p.devices = dv
      /\ Mk(b, dv, a, r, o, h).p.accepted = a /\ Mk(b, dv, a, r, o, h).p.rejected = r
      /\ Mk(b, dv, a, r, o, h).out = o /\ Mk(b, dv, a, r, o, h).history = h
  BY DEF Mk
<1>2. IsProc(Mk(b, dv, a, r, o, h))
  BY Zenon DEF IsProc
<1> QED
  BY <1>1, <1>2 DEF With

LEMMA WithIs ==
  ASSUME NEW s, IsProc(s), NEW b
  PROVE  /\ [s EXCEPT !.p.buffer = b] = With(s, b)
         /\ IsProc(With(s, b)) /\ With(s, b).p.buffer = b
         /\ With(s, s.p.buffer) = s
         /\ \A c : With(With(s, b), c) = With(s, c)
<1>1. PICK c, dv, a, r, o, h : s = Mk(c, dv, a, r, o, h)
  BY DEF IsProc
<1>2. [s EXCEPT !.p.buffer = b] = Mk(b, dv, a, r, o, h)
  BY <1>1 DEF Mk
<1> QED
  BY <1>1, <1>2, MkIs

LEMMA EmitIs ==
  ASSUME NEW b, NEW dv, NEW a, NEW r, NEW o, NEW h,
         NEW type, NEW device, NEW text, NEW fields
  PROVE  emit_with(Mk(b, dv, a, r, o, h), type, device, text, fields)
           = Mk(b, dv, a, r, Append(o, [type |-> type, device |-> device,
                                        text |-> text, fields |-> fields]), h)
<1> DEFINE x == [type |-> type, device |-> device, text |-> text, fields |-> fields]
<1>1. emit_with(Mk(b, dv, a, r, o, h), type, device, text, fields)
        = [Mk(b, dv, a, r, o, h) EXCEPT !.out = Append(@, x)]
  BY DEF emit_with
<1> HIDE DEF x
<1> DEFINE y == Append(o, x)
<1>2. emit_with(Mk(b, dv, a, r, o, h), type, device, text, fields)
        = [Mk(b, dv, a, r, o, h) EXCEPT !.out = y]
  BY <1>1, MkIs
<1> HIDE DEF y
<1>3. [Mk(b, dv, a, r, o, h) EXCEPT !.out = y] = Mk(b, dv, a, r, y, h)
  BY DEF Mk
<1> QED
  BY <1>2, <1>3 DEF x, y

LEMMA EmitBlind ==
  ASSUME NEW s, IsProc(s), NEW type, NEW device, NEW text, NEW fields
  PROVE  /\ IsProc(emit_with(s, type, device, text, fields))
         /\ emit_with(s, type, device, text, fields).p = s.p
         /\ emit_with(s, type, device, text, fields).history = s.history
         /\ \A b : emit_with(With(s, b), type, device, text, fields)
                     = With(emit_with(s, type, device, text, fields), b)
<1>1. PICK b, dv, a, r, o, h : s = Mk(b, dv, a, r, o, h)
  BY DEF IsProc
<1> DEFINE O == Append(o, [type |-> type, device |-> device, text |-> text, fields |-> fields])
<1>2. \A c : emit_with(Mk(c, dv, a, r, o, h), type, device, text, fields) = Mk(c, dv, a, r, O, h)
  BY EmitIs
<1> HIDE DEF O
<1>3. Mk(b, dv, a, r, O, h).p = Mk(b, dv, a, r, o, h).p
  BY DEF Mk
<1> QED
  BY <1>1, <1>2, <1>3, MkIs

LEMMA RejectBlind ==
  ASSUME NEW s, IsProc(s), NEW reason
  PROVE  /\ IsProc(emit_reject(s, reason))
         /\ emit_reject(s, reason).p.buffer = s.p.buffer
         /\ emit_reject(s, reason).p.devices = s.p.devices
         /\ emit_reject(s, reason).history = s.history
         /\ \A b : emit_reject(With(s, b), reason) = With(emit_reject(s, reason), b)
<1>1. PICK b, dv, a, r, o, h : s = Mk(b, dv, a, r, o, h)
  BY DEF IsProc
<1> DEFINE O == Append(o, [type |-> "reject", device |-> 0, text |-> reason, fields |-> <<>>])
<1>2. ASSUME NEW c
      PROVE  emit_reject(Mk(c, dv, a, r, o, h), reason) = Mk(c, dv, a, r + 1, O, h)
  <2>1. [Mk(c, dv, a, r, o, h) EXCEPT !.p.rejected = @ + 1] = Mk(c, dv, a, r + 1, o, h)
    BY DEF Mk
  <2> QED
    BY <2>1, EmitIs DEF emit_reject, emit
<1> HIDE DEF O
<1> QED
  BY <1>1, <1>2, MkIs

Updated(z, i, j, A, e, y) ==
  [z EXCEPT !.p.accepted = A, !.p.devices[i] = e, !.history[i][j] = y]

SetDevice(dv, i, e) == [dv EXCEPT ![i] = e]
SetHistory(h, i, j, y) == [h EXCEPT ![i][j] = y]

LEMMA MkUpdated ==
  ASSUME NEW b, NEW dv, NEW a, NEW r, NEW o, NEW h, NEW i, NEW j, NEW A, NEW e, NEW y
  PROVE  Updated(Mk(b, dv, a, r, o, h), i, j, A, e, y)
           = Mk(b, SetDevice(dv, i, e), A, r, o, SetHistory(h, i, j, y))
<1> DEFINE z == Mk(b, dv, a, r, o, h)
           V == SetDevice(dv, i, e)
           H == SetHistory(h, i, j, y)
<1>1. [z EXCEPT !.p.accepted = A] = Mk(b, dv, A, r, o, h)
  BY DEF Mk
<1>2. [Mk(b, dv, A, r, o, h) EXCEPT !.p.devices[i] = e] = Mk(b, V, A, r, o, h)
  BY DEF Mk, SetDevice
<1>3. [Mk(b, V, A, r, o, h) EXCEPT !.history[i][j] = y] = Mk(b, V, A, r, o, H)
  <2> HIDE DEF V
  <2> QED
    BY DEF Mk, SetHistory
<1> HIDE DEF z, V, H
<1>4. Updated(z, i, j, A, e, y)
        = [[[z EXCEPT !.p.accepted = A] EXCEPT !.p.devices[i] = e] EXCEPT !.history[i][j] = y]
  BY DEF Updated
<1> QED
  BY <1>1, <1>2, <1>3, <1>4 DEF z, V, H

LEMMA AcceptEventBlind ==
  ASSUME NEW s, IsProc(s), NEW i, NEW d, NEW f
  PROVE  /\ IsProc(AcceptEvent(s, i, d, f))
         /\ AcceptEvent(s, i, d, f).p.buffer = s.p.buffer
         /\ \A b : AcceptEvent(With(s, b), i, d, f) = With(AcceptEvent(s, i, d, f), b)
<1> DEFINE m == Push(d.metrics[f.metric], Int32(normalized(f)))
           high == HighAlarm(m.high_alarm, Average(m))
           e == [d EXCEPT !.silence_alarm = FALSE, !.seq_valid = TRUE, !.last_seq = f.sequence,
                          !.last_timestamp = f.timestamp,
                          !.metrics[f.metric] = [m EXCEPT !.high_alarm = high]]
           v == normalized(f)
           one(q) == IF d.silence_alarm THEN emit(q, "silence", f.device, "clear") ELSE q
           mid(q) == [q EXCEPT !.p.accepted = @ + 1, !.p.devices[i] = e,
                               !.history[i][f.metric] = Append(@, v)]
           two(q) == emit_with(q, "event", f.device, "event",
                               <<f.sequence, f.timestamp, f.metric, v>>)
           end(q) == IF high = m.high_alarm THEN q
                     ELSE emit(q, "high", f.device, IF high THEN "active" ELSE "clear")
           Blind(q, r) == IsProc(r) /\ r.p.buffer = q.p.buffer
<1>1. \A q : AcceptEvent(q, i, d, f) = end(two(mid(one(q))))
  BY DEF AcceptEvent
<1> HIDE DEF m, high, e, v
<1>2. ASSUME NEW q, IsProc(q)
      PROVE  Blind(q, one(q)) /\ \A b : one(With(q, b)) = With(one(q), b)
  <2>1. CASE d.silence_alarm
    BY <1>2, <2>1, EmitBlind DEF emit
  <2>2. CASE ~d.silence_alarm
    BY <1>2, <2>2
  <2> QED
    BY <2>1, <2>2
<1>3. ASSUME NEW q, IsProc(q)
      PROVE  Blind(q, mid(q)) /\ \A b : mid(With(q, b)) = With(mid(q), b)
  <2>1. PICK c, dv, a, r, o, h : q = Mk(c, dv, a, r, o, h)
    BY <1>3 DEF IsProc
  <2> DEFINE V == [dv EXCEPT ![i] = e]
             y == Append(h[i][f.metric], v)
             H == [h EXCEPT ![i][f.metric] = y]
  <2>2. ASSUME NEW b
        PROVE  mid(Mk(b, dv, a, r, o, h)) = Mk(b, V, a + 1, r, o, H)
    <3> DEFINE z == Mk(b, dv, a, r, o, h)
    <3>1. mid(z) = [z EXCEPT !.p.accepted = a + 1, !.p.devices[i] = e, !.history[i][f.metric] = y]
      <4>1. z.p.accepted = a /\ z.history = h
        BY MkIs
      <4>2. mid(z) = [z EXCEPT !.p.accepted = z.p.accepted + 1, !.p.devices[i] = e,
                               !.history[i][f.metric] = Append(z.history[i][f.metric], v)]
        OBVIOUS
      <4> HIDE DEF z
      <4> QED
        BY <4>1, <4>2
    <3> HIDE DEF mid, y
    <3>2. mid(z) = Updated(z, i, f.metric, a + 1, e, y)
      BY <3>1 DEF Updated
    <3>3. V = SetDevice(dv, i, e) /\ H = SetHistory(h, i, f.metric, y)
      BY DEF SetDevice, SetHistory
    <3> HIDE DEF V, H
    <3>4. Updated(z, i, f.metric, a + 1, e, y) = Mk(b, V, a + 1, r, o, H)
      BY <3>3, MkUpdated
    <3> QED
      BY <3>2, <3>4
  <2> HIDE DEF V, H, mid
  <2> QED
    BY <2>1, <2>2, MkIs
<1>4. ASSUME NEW q, IsProc(q)
      PROVE  Blind(q, two(q)) /\ \A b : two(With(q, b)) = With(two(q), b)
  BY <1>4, EmitBlind
<1>5. ASSUME NEW q, IsProc(q)
      PROVE  Blind(q, end(q)) /\ \A b : end(With(q, b)) = With(end(q), b)
  <2>1. CASE high = m.high_alarm
    BY <1>5, <2>1
  <2>2. CASE high # m.high_alarm
    BY <1>5, <2>2, EmitBlind DEF emit
  <2> QED
    BY <2>1, <2>2
<1> HIDE DEF one, mid, two, end
<1>6. Blind(s, one(s)) /\ Blind(s, mid(one(s))) /\ Blind(s, two(mid(one(s))))
  BY <1>2, <1>3, <1>4
<1>7. Blind(s, end(two(mid(one(s)))))
  BY <1>5, <1>6
<1>8. ASSUME NEW b
      PROVE  AcceptEvent(With(s, b), i, d, f) = With(AcceptEvent(s, i, d, f), b)
  <2>1. mid(one(With(s, b))) = With(mid(one(s)), b)
    BY <1>2, <1>3, <1>6
  <2>2. two(mid(one(With(s, b)))) = With(two(mid(one(s))), b)
    BY <1>4, <1>6, <2>1
  <2>3. end(two(mid(one(With(s, b))))) = With(end(two(mid(one(s)))), b)
    BY <1>5, <1>6, <2>2
  <2> QED
    BY <1>1, <2>3
<1> QED
  BY <1>1, <1>7, <1>8

(* emit_silence, device by device.                                         *)
SilenceAt(s, watermark, i, before) ==
  LET d == s.p.devices[i]
  IN IF IsSilent(d, watermark) /\ ~d.silence_alarm
     THEN emit([before EXCEPT !.p.devices[i].silence_alarm = TRUE], "silence", d.device_id, "active")
     ELSE before

Visiting(s, watermark, n, v) ==
  v = [i \in 0..n |-> IF i = 0 THEN s ELSE SilenceAt(s, watermark, i, v[i - 1])]

LEMMA SilenceIs ==
  ASSUME NEW s, NEW watermark
  PROVE  \E v : /\ Visiting(s, watermark, ES_MAX_DEVICES, v)
                /\ emit_silence(s, watermark) = v[ES_MAX_DEVICES]
<1> DEFINE T == {n \in Nat : ~\E v : Visiting(s, watermark, n, v)}
<1>1. T = {}
  <2> SUFFICES ASSUME T # {} PROVE FALSE
    OBVIOUS
  <2>1. PICK n \in T : \A m \in T : ~(m < n)
    BY LeastNatural
  <2>2. CASE n = 0
    <3>1. Visiting(s, watermark, 0, [i \in 0..0 |-> s])
      BY DEF Visiting
    <3> QED
      BY <2>2, <3>1
  <2>3. CASE n # 0
    <3>1. n - 1 \in Nat /\ n - 1 \notin T
      BY <2>1, <2>3
    <3>2. PICK v : Visiting(s, watermark, n - 1, v)
      BY <3>1
    <3> DEFINE w == [i \in 0..n |-> IF i = n THEN SilenceAt(s, watermark, n, v[n - 1]) ELSE v[i]]
    <3>3. \A i \in 0..n : w[i] = IF i = 0 THEN s ELSE SilenceAt(s, watermark, i, w[i - 1])
      BY <2>3, <3>1, <3>2 DEF Visiting
    <3>4. Visiting(s, watermark, n, w)
      BY <3>3 DEF Visiting
    <3> QED
      BY <3>4
  <2> QED
    BY <2>2, <2>3
<1> DEFINE v == CHOOSE w : Visiting(s, watermark, ES_MAX_DEVICES, w)
<1>2. emit_silence(s, watermark) = v[ES_MAX_DEVICES]
  BY DEF emit_silence, Visiting, SilenceAt
<1>3. Visiting(s, watermark, ES_MAX_DEVICES, v)
  <2>1. \E w : Visiting(s, watermark, ES_MAX_DEVICES, w)
    BY <1>1, SizesAssumption
  <2> QED
    BY <2>1, Zenon
<1> QED
  BY <1>2, <1>3

LEMMA SilenceAtBlind ==
  ASSUME NEW s, NEW t, s.p.devices = t.p.devices, NEW watermark, NEW i, NEW before, IsProc(before)
  PROVE  /\ IsProc(SilenceAt(s, watermark, i, before))
         /\ SilenceAt(s, watermark, i, before).p.buffer = before.p.buffer
         /\ \A b : SilenceAt(t, watermark, i, With(before, b))
                     = With(SilenceAt(s, watermark, i, before), b)
<1> DEFINE d == s.p.devices[i]
           mark(q) == [q EXCEPT !.p.devices[i].silence_alarm = TRUE]
           told(q) == emit(q, "silence", d.device_id, "active")
<1>1. CASE IsSilent(d, watermark) /\ ~d.silence_alarm
  <2>1. ASSUME NEW q
        PROVE  /\ SilenceAt(s, watermark, i, q) = told(mark(q))
               /\ SilenceAt(t, watermark, i, q) = told(mark(q))
    BY <1>1 DEF SilenceAt
  <2>2. PICK c, dv, a, r, o, h : before = Mk(c, dv, a, r, o, h)
    BY DEF IsProc
  <2> DEFINE V == [dv EXCEPT ![i] = [dv[i] EXCEPT !.silence_alarm = TRUE]]
  <2>3. ASSUME NEW b
        PROVE  mark(Mk(b, dv, a, r, o, h)) = Mk(b, V, a, r, o, h)
    <3> DEFINE z == Mk(b, dv, a, r, o, h)
    <3>1. z.p.devices[i] = dv[i]
      BY MkIs
    <3>2. mark(z) = [z EXCEPT !.p.devices[i] = [z.p.devices[i] EXCEPT !.silence_alarm = TRUE]]
      BY DEF Mk
    <3> HIDE DEF mark
    <3> DEFINE W == [dv[i] EXCEPT !.silence_alarm = TRUE]
    <3>3. mark(z) = [z EXCEPT !.p.devices[i] = W]
      BY <3>1, <3>2
    <3> HIDE DEF W
    <3>4. mark(z) = Mk(b, [dv EXCEPT ![i] = W], a, r, o, h)
      BY <3>3 DEF Mk
    <3> QED
      BY <3>4 DEF W
  <2> HIDE DEF V, mark
  <2>4. ASSUME NEW q, IsProc(q)
        PROVE  /\ IsProc(told(q)) /\ told(q).p.buffer = q.p.buffer
               /\ \A b : told(With(q, b)) = With(told(q), b)
    BY <2>4, EmitBlind DEF emit
  <2> HIDE DEF told, d
  <2>5. IsProc(mark(before)) /\ mark(before).p.buffer = before.p.buffer
    BY <2>2, <2>3, MkIs
  <2>6. \A b : mark(With(before, b)) = With(mark(before), b)
    BY <2>2, <2>3, MkIs
  <2> QED
    BY <2>1, <2>4, <2>5, <2>6
<1>2. CASE ~(IsSilent(d, watermark) /\ ~d.silence_alarm)
  BY <1>2 DEF SilenceAt
<1> QED
  BY <1>1, <1>2

LEMMA SilenceBlind ==
  ASSUME NEW s, IsProc(s), NEW watermark
  PROVE  /\ IsProc(emit_silence(s, watermark))
         /\ emit_silence(s, watermark).p.buffer = s.p.buffer
         /\ \A b : emit_silence(With(s, b), watermark) = With(emit_silence(s, watermark), b)
<1> DEFINE N == ES_MAX_DEVICES
<1>0. N \in Nat
  BY SizesAssumption
<1>1. PICK v : Visiting(s, watermark, N, v) /\ emit_silence(s, watermark) = v[N]
  BY SilenceIs
<1>2. ASSUME NEW b
      PROVE  /\ IsProc(v[N]) /\ v[N].p.buffer = s.p.buffer
             /\ emit_silence(With(s, b), watermark) = With(v[N], b)
  <2>1. PICK w : /\ Visiting(With(s, b), watermark, N, w)
                 /\ emit_silence(With(s, b), watermark) = w[N]
    BY SilenceIs
  <2> HIDE DEF N
  <2> DEFINE Good(i) == /\ IsProc(v[i]) /\ v[i].p.buffer = s.p.buffer
                        /\ w[i] = With(v[i], b)
             T == {i \in 0..N : ~Good(i)}
  <2>2. T = {}
    <3> SUFFICES ASSUME T # {} PROVE FALSE
      OBVIOUS
    <3>0. T \subseteq Nat
      BY <1>0
    <3>1. PICK i \in T : \A j \in T : ~(j < i)
      BY <3>0, LeastNatural, Zenon
    <3>2. CASE i = 0
      <4>1. v[0] = s /\ w[0] = With(s, b)
        BY <1>0, <1>1, <2>1 DEF Visiting
      <4> QED
        BY <3>2, <4>1
    <3>3. CASE i # 0
      <4>1. i - 1 \in 0..N /\ Good(i - 1)
        BY <1>0, <3>1, <3>3
      <4>2. /\ v[i] = SilenceAt(s, watermark, i, v[i - 1])
            /\ w[i] = SilenceAt(With(s, b), watermark, i, w[i - 1])
        BY <1>0, <1>1, <2>1, <3>3 DEF Visiting
      <4>3. With(s, b).p.devices = s.p.devices
        BY MkIs DEF With
      <4>4. /\ IsProc(v[i]) /\ v[i].p.buffer = v[i - 1].p.buffer
            /\ SilenceAt(With(s, b), watermark, i, With(v[i - 1], b)) = With(v[i], b)
        BY <4>1, <4>2, <4>3, SilenceAtBlind
      <4> QED
        BY <4>1, <4>2, <4>4
    <3> QED
      BY <3>2, <3>3
  <2>3. Good(N)
    BY <1>0, <2>2
  <2> QED
    BY <2>1, <2>3
<1> QED
  BY <1>1, <1>2

LEMMA FindBlind ==
  ASSUME NEW p, NEW q, p.devices = q.devices, NEW id
  PROVE  find_device(p, id) = find_device(q, id)
<1> DEFINE K(r) == {i \in Slots : r.devices[i].used /\ r.devices[i].device_id = id}
           F(r) == {i \in Slots : ~r.devices[i].used}
           First(S) == CHOOSE i \in S : \A j \in S : i <= j
           Pick(k, f) == IF k # {} THEN First(k) ELSE IF f # {} THEN First(f) ELSE 0
<1>1. \A r : find_device(r, id) = Pick(K(r), F(r))
  BY Zenon DEF find_device
<1>2. K(p) = K(q) /\ F(p) = F(q)
  OBVIOUS
<1> HIDE DEF K, F, Pick
<1> QED
  BY <1>1, <1>2

LEMMA FrameBlind ==
  ASSUME NEW s, IsProc(s), NEW f
  PROVE  /\ IsProc(accept_frame(s, f))
         /\ accept_frame(s, f).p.buffer = s.p.buffer
         /\ \A b : accept_frame(With(s, b), f) = With(accept_frame(s, f), b)
<1> DEFINE i == find_device(s.p, f.device)
           d == Found(s.p.devices[i], f)
           taken(q) == [q EXCEPT !.p.devices[i] = d,
                          !.history[i] = IF f.restart THEN [m \in Metrics |-> <<>>] ELSE @]
<1>1. CASE f.metric = ES_METRIC_WATERMARK
  BY <1>1, SilenceBlind DEF accept_frame
<1>2. CASE f.metric # ES_METRIC_WATERMARK /\ f.metric >= ES_MAX_METRICS
  <2>1. \A q : accept_frame(q, f) = emit_reject(q, "metric")
    BY <1>2 DEF accept_frame
  <2> QED
    BY <2>1, RejectBlind
<1>3. CASE f.metric # ES_METRIC_WATERMARK /\ ~(f.metric >= ES_MAX_METRICS)
  <2>1. \A b : With(s, b).p.devices = s.p.devices
    BY MkIs DEF With
  <2>2. \A b : find_device(With(s, b).p, f.device) = i
    BY <2>1, FindBlind
  <2> HIDE DEF i
  <2>3. CASE i = 0
    <3>1. /\ accept_frame(s, f) = emit_with(s, "resource_limit", f.device, "active_devices", <<>>)
          /\ \A b : accept_frame(With(s, b), f)
                      = emit_with(With(s, b), "resource_limit", f.device, "active_devices", <<>>)
      BY <1>3, <2>2, <2>3 DEF accept_frame, i, emit
    <3> DEFINE E(q) == emit_with(q, "resource_limit", f.device, "active_devices", <<>>)
    <3>2. IsProc(E(s)) /\ E(s).p = s.p /\ \A b : E(With(s, b)) = With(E(s), b)
      BY EmitBlind
    <3>3. accept_frame(s, f) = E(s) /\ \A b : accept_frame(With(s, b), f) = E(With(s, b))
      BY <3>1
    <3> HIDE DEF E
    <3> QED
      BY <3>2, <3>3, SMTT(40)
  <2>4. CASE i # 0
    <3> DEFINE end(q) == IF Duplicate(d, f) THEN emit(q, "duplicate", f.device, "duplicate")
                         ELSE IF Late(d, f) THEN emit(q, "late", f.device, "late")
                         ELSE AcceptEvent(q, i, d, f)
    <3>1. /\ accept_frame(s, f) = end(taken(s))
          /\ \A b : accept_frame(With(s, b), f) = end(taken(With(s, b)))
      <4>1. accept_frame(s, f) = end(taken(s))
        BY <1>3, <2>4 DEF accept_frame, i
      <4>2. ASSUME NEW b PROVE accept_frame(With(s, b), f) = end(taken(With(s, b)))
        <5> DEFINE j == find_device(With(s, b).p, f.device)
                   D == Found(With(s, b).p.devices[j], f)
        <5>1. j = i /\ D = d
          BY <2>1, <2>2
        <5>2. accept_frame(With(s, b), f) =
                LET q == [With(s, b) EXCEPT !.p.devices[j] = D,
                            !.history[j] = IF f.restart THEN [m \in Metrics |-> <<>>] ELSE @]
                IN IF Duplicate(D, f) THEN emit(q, "duplicate", f.device, "duplicate")
                   ELSE IF Late(D, f) THEN emit(q, "late", f.device, "late")
                   ELSE AcceptEvent(q, j, D, f)
          BY <1>3, <2>2, <2>4 DEF accept_frame
        <5> HIDE DEF j, D, d
        <5> QED
          BY <5>1, <5>2
      <4> QED
        BY <4>1, <4>2
    <3>2. /\ IsProc(taken(s)) /\ taken(s).p.buffer = s.p.buffer
          /\ \A b : taken(With(s, b)) = With(taken(s), b)
      <4>1. PICK c, dv, a, r, o, h : s = Mk(c, dv, a, r, o, h)
        BY DEF IsProc
      <4> DEFINE V == [dv EXCEPT ![i] = d]
                 H == [h EXCEPT ![i] = IF f.restart THEN [m \in Metrics |-> <<>>] ELSE h[i]]
      <4> HIDE DEF d
      <4>2. ASSUME NEW b
            PROVE  taken(Mk(b, dv, a, r, o, h)) = Mk(b, V, a, r, o, H)
        <5> DEFINE z == Mk(b, dv, a, r, o, h)
                   G == IF f.restart THEN [m \in Metrics |-> <<>>] ELSE h[i]
        <5>1. z.history[i] = h[i]
          BY MkIs
        <5>2. taken(z) = [z EXCEPT !.p.devices[i] = d, !.history[i] = G]
          BY <5>1
        <5> HIDE DEF G, taken
        <5>3. taken(z) = Mk(b, V, a, r, o, [h EXCEPT ![i] = G])
          BY <5>2 DEF Mk
        <5> QED
          BY <5>3 DEF G
      <4> HIDE DEF V, H, taken
      <4> QED
        BY <4>1, <4>2, MkIs
    <3> HIDE DEF taken, d
    <3>3. ASSUME NEW q, IsProc(q)
          PROVE  /\ IsProc(end(q)) /\ end(q).p.buffer = q.p.buffer
                 /\ \A b : end(With(q, b)) = With(end(q), b)
      <4>1. CASE Duplicate(d, f)
        BY <3>3, <4>1, EmitBlind DEF emit
      <4>2. CASE ~Duplicate(d, f) /\ Late(d, f)
        BY <3>3, <4>2, EmitBlind DEF emit
      <4>3. CASE ~Duplicate(d, f) /\ ~Late(d, f)
        BY <3>3, <4>3, AcceptEventBlind
      <4> QED
        BY <4>1, <4>2, <4>3
    <3> HIDE DEF end
    <3> QED
      BY <3>1, <3>2, <3>3
  <2> QED
    BY <2>3, <2>4
<1> QED
  BY <1>1, <1>2, <1>3

-----------------------------------------------------------------------------
(* The loop of es_process_bytes.                                           *)

Loop(s, o, more) == [s |-> s, offset |-> o, more |-> more]
On(s, o) == Loop(s, o, TRUE)
Off(s, o) == Loop(s, o, FALSE)

Decide(b, o) ==
  IF Len(b) - o < 2 THEN "stop"
  ELSE IF ~Magic(b, o + 1) THEN "junk"
  ELSE IF Len(b) - o < HeaderSize THEN "stop"
  ELSE IF b[o + 3].kind # "length" THEN "length"
  ELSE IF Len(b) - o < FrameSize THEN "stop"
  ELSE "frame"

Process(s, f) ==
  IF f.version \notin {1, 2} THEN emit_reject(s, "version")
  ELSE IF ~f.crc THEN emit_reject(s, "checksum")
  ELSE accept_frame(s, f)

(* One iteration, by what the buffer holds at the offset.                  *)
LEMMA StepIs ==
  ASSUME NEW s, NEW o \in Nat, NEW b, b = s.p.buffer, b \in Seq(Symbols)
  PROVE  /\ ParseStep(Off(s, o)) = Off(s, o)
         /\ Decide(b, o) = "stop" => ParseStep(On(s, o)) = Off(s, o)
         /\ Decide(b, o) = "frame" =>
              ParseStep(On(s, o)) = On(Process(s, b[o + 4].frame), o + FrameSize)
         /\ Decide(b, o) \in {"junk", "length"} =>
              ParseStep(On(s, o)) = On(emit_reject(s, Decide(b, o)), o + 1)
         /\ Decide(b, o) \in {"stop", "frame", "junk", "length"}
<1> DEFINE st == Loop(s, o, TRUE)
           Skip(n, t) == [st EXCEPT !.offset = @ + n, !.s = t]
<1>1. ParseStep(Loop(s, o, FALSE)) = Loop(s, o, FALSE)
  <2>1. Loop(s, o, FALSE).more = FALSE
    BY DEF Loop
  <2> QED
    BY <2>1 DEF ParseStep
<1>2. st.s = s /\ st.offset = o /\ st.more = TRUE
  BY DEF Loop
<1>3. ParseStep(st) =
        IF Len(b) - o < 2 THEN [st EXCEPT !.more = FALSE]
        ELSE IF ~Magic(b, o + 1) THEN Skip(1, emit_reject(s, "junk"))
        ELSE IF Len(b) - o < HeaderSize THEN [st EXCEPT !.more = FALSE]
        ELSE IF b[o + 1 + 2].kind # "length" THEN Skip(1, emit_reject(s, "length"))
        ELSE IF Len(b) - o < FrameSize THEN [st EXCEPT !.more = FALSE]
        ELSE Skip(FrameSize, Process(s, b[o + 1 + 3].frame))
  <2> HIDE DEF st
  <2> QED
    BY <1>2 DEF ParseStep, Process
<1>4. /\ \A n, t : Skip(n, t) = Loop(t, o + n, TRUE)
      /\ [st EXCEPT !.more = FALSE] = Loop(s, o, FALSE)
  <2>1. ASSUME NEW n, NEW t PROVE Skip(n, t) = Loop(t, o + n, TRUE)
    <3> DEFINE k == o + n
    <3>1. Skip(n, t) = [st EXCEPT !.offset = k, !.s = t]
      BY <1>2
    <3> HIDE DEF k, Skip
    <3>2. ASSUME NEW x, NEW y
          PROVE  [[Loop(s, o, x) EXCEPT !.offset = y] EXCEPT !.s = t] = Loop(t, y, x)
      <4>1. [Loop(s, o, x) EXCEPT !.offset = y] = Loop(s, y, x)
        BY DEF Loop
      <4>2. [Loop(s, y, x) EXCEPT !.s = t] = Loop(t, y, x)
        BY DEF Loop
      <4> QED
        BY <4>1, <4>2
    <3>3. [st EXCEPT !.offset = k, !.s = t] = [[st EXCEPT !.offset = k] EXCEPT !.s = t]
      BY DEF Loop
    <3>4. [[st EXCEPT !.offset = k] EXCEPT !.s = t] = Loop(t, k, TRUE)
      BY <3>2, Zenon
    <3> QED
      BY <3>1, <3>3, <3>4 DEF k
  <2>2. \A x, y : [Loop(s, o, x) EXCEPT !.more = y] = Loop(s, o, y)
    BY DEF Loop
  <2>3. [st EXCEPT !.more = FALSE] = Loop(s, o, FALSE)
    BY <2>2, Zenon
  <2> QED
    BY <2>1, <2>3
<1>5. o + 1 + 2 = o + 3 /\ o + 1 + 3 = o + 4
  OBVIOUS
<1> HIDE DEF st, Skip
<1> QED
  BY <1>1, <1>3, <1>4, <1>5 DEF Decide, st, On, Off

LEMMA ProcessBlind ==
  ASSUME NEW s, IsProc(s), NEW f
  PROVE  /\ IsProc(Process(s, f)) /\ Process(s, f).p.buffer = s.p.buffer
         /\ \A b : Process(With(s, b), f) = With(Process(s, f), b)
<1>1. CASE f.version \notin {1, 2}
  <2>1. \A q : Process(q, f) = emit_reject(q, "version")
    BY <1>1 DEF Process
  <2> QED
    BY <2>1, RejectBlind
<1>2. CASE f.version \in {1, 2} /\ ~f.crc
  <2>1. \A q : Process(q, f) = emit_reject(q, "checksum")
    BY <1>2 DEF Process
  <2> QED
    BY <2>1, RejectBlind
<1>3. CASE f.version \in {1, 2} /\ f.crc
  <2>1. \A q : Process(q, f) = accept_frame(q, f)
    BY <1>3 DEF Process
  <2> QED
    BY <2>1, FrameBlind
<1> QED
  BY <1>1, <1>2, <1>3

(* What an iteration decides depends only on the symbols after the offset. *)
LEMMA DecideSame ==
  ASSUME NEW b \in Seq(Symbols), NEW c \in Seq(Symbols), NEW o \in 0..Len(b), NEW q \in 0..Len(c),
         Len(b) - o <= Len(c) - q, \A j \in 1..(Len(b) - o) : b[o + j] = c[q + j],
         Decide(b, o) # "stop" \/ Len(b) - o = Len(c) - q
  PROVE  /\ Decide(c, q) = Decide(b, o)
         /\ Decide(b, o) = "frame" => b[o + 4] = c[q + 4] /\ o + FrameSize <= Len(b)
         /\ Decide(b, o) \in {"junk", "length"} => o + 1 <= Len(b)
         /\ Decide(b, o) = "stop" => Len(b) - o < FrameSize
<1>1. Len(b) \in Nat /\ Len(c) \in Nat
  OBVIOUS
<1>2. /\ Len(b) - o >= 2 => b[o + 1] = c[q + 1] /\ b[o + 2] = c[q + 2]
      /\ Len(b) - o >= 3 => b[o + 3] = c[q + 3]
      /\ Len(b) - o >= 4 => b[o + 4] = c[q + 4]
  BY <1>1
<1>3. Len(b) - o >= 2 => (Magic(b, o + 1) <=> Magic(c, q + 1))
  <2>1. o + 1 + 1 = o + 2 /\ q + 1 + 1 = q + 2
    OBVIOUS
  <2> QED
    BY <1>1, <1>2, <2>1 DEF Magic
<1> DEFINE r == Len(b) - o
           x == Len(c) - q
           Choice(n, magic, length) ==
             IF n < 2 THEN "stop" ELSE IF ~magic THEN "junk" ELSE IF n < 3 THEN "stop"
             ELSE IF ~length THEN "length" ELSE IF n < 4 THEN "stop" ELSE "frame"
           L(w, k) == w[k].kind = "length"
<1>4. r \in Nat /\ x \in Nat /\ r <= x
  BY <1>1
<1>5. /\ Decide(b, o) = Choice(r, Magic(b, o + 1), L(b, o + 3))
      /\ Decide(c, q) = Choice(x, Magic(c, q + 1), L(c, q + 3))
  BY DEF Decide, HeaderSize, FrameSize
<1>6. /\ r >= 2 => (Magic(b, o + 1) <=> Magic(c, q + 1))
      /\ r >= 3 => (L(b, o + 3) <=> L(c, q + 3))
  BY <1>2, <1>3
<1>7. Decide(b, o) # "stop" \/ r = x
  OBVIOUS
<1> DEFINE D == Decide(b, o)
<1>8. /\ Decide(c, q) = D
      /\ D = "frame" => r >= 4
      /\ D \in {"junk", "length"} => r >= 2
      /\ D = "stop" => r < 4
  <2> HIDE DEF r, x, L, D
  <2>1. D = Choice(r, Magic(b, o + 1), L(b, o + 3)) /\ (D # "stop" \/ r = x)
    BY <1>5, <1>7 DEF D
  <2> QED
    BY <1>4, <1>5, <1>6, <2>1
<1>9. /\ r >= 4 => b[o + 4] = c[q + 4] /\ o + FrameSize <= Len(b)
      /\ r >= 2 => o + 1 <= Len(b)
      /\ r < 4 => Len(b) - o < FrameSize
  BY <1>1, <1>2 DEF FrameSize
<1> HIDE DEF r
<1> QED
  BY <1>8, <1>9

(* An iteration on another buffer that holds the same symbols from the     *)
(* offset on, and perhaps more behind them.                                *)
BothStop(s, b, o, c, q) ==
  /\ Decide(b, o) = "stop" /\ Len(b) - o < FrameSize
  /\ ParseStep(On(s, o)) = Off(s, o)
  /\ ParseStep(On(With(s, c), q)) = Off(With(s, c), q)

BothGo(s, b, o, c, q) ==
  \E t, n : /\ IsProc(t) /\ t.p.buffer = b /\ n \in 1..(Len(b) - o)
            /\ Decide(b, o) # "stop"
            /\ ParseStep(On(s, o)) = On(t, o + n)
            /\ ParseStep(On(With(s, c), q)) = On(With(t, c), q + n)

LEMMA StepView ==
  ASSUME NEW s, IsProc(s), NEW b \in Seq(Symbols), NEW c \in Seq(Symbols), b = s.p.buffer,
         NEW o \in 0..Len(b), NEW q \in 0..Len(c),
         Len(b) - o <= Len(c) - q, \A j \in 1..(Len(b) - o) : b[o + j] = c[q + j],
         Decide(b, o) # "stop" \/ Len(b) - o = Len(c) - q
  PROVE  BothStop(s, b, o, c, q) \/ BothGo(s, b, o, c, q)
<1> DEFINE w == With(s, c)
<1>1. IsProc(w) /\ w.p.buffer = c
  BY WithIs
<1>2. o \in Nat /\ q \in Nat /\ Len(b) \in Nat /\ Len(c) \in Nat
  OBVIOUS
<1>3. /\ Decide(c, q) = Decide(b, o)
      /\ Decide(b, o) = "frame" => b[o + 4] = c[q + 4] /\ o + FrameSize <= Len(b)
      /\ Decide(b, o) \in {"junk", "length"} => o + 1 <= Len(b)
      /\ Decide(b, o) = "stop" => Len(b) - o < FrameSize
  BY DecideSame
<1>4. CASE Decide(b, o) = "stop"
  BY <1>1, <1>2, <1>3, <1>4, StepIs DEF BothStop
<1>5. CASE Decide(b, o) = "frame"
  <2> DEFINE t == Process(s, b[o + 4].frame)
  <2>1. IsProc(t) /\ t.p.buffer = b /\ Process(w, b[o + 4].frame) = With(t, c)
    BY ProcessBlind
  <2>2. ParseStep(On(s, o)) = On(t, o + FrameSize)
    BY <1>2, <1>5, StepIs
  <2>3. ParseStep(On(w, q)) = On(Process(w, c[q + 4].frame), q + FrameSize)
    <3>1. Decide(c, q) = "frame"
      BY <1>3, <1>5
    <3> HIDE DEF w
    <3> QED
      BY <1>1, <1>2, <3>1, StepIs
  <2>4. FrameSize \in 1..(Len(b) - o)
    BY <1>2, <1>3, <1>5 DEF FrameSize
  <2>5. c[q + 4] = b[o + 4]
    BY <1>3, <1>5
  <2> HIDE DEF w, t
  <2>6. ParseStep(On(w, q)) = On(With(t, c), q + FrameSize)
    BY <2>1, <2>3, <2>5
  <2> QED
    BY <1>5, <2>1, <2>2, <2>4, <2>6 DEF w, BothGo
<1>6. CASE Decide(b, o) \in {"junk", "length"}
  <2> DEFINE t == emit_reject(s, Decide(b, o))
  <2>1. IsProc(t) /\ t.p.buffer = b /\ emit_reject(w, Decide(b, o)) = With(t, c)
    BY RejectBlind
  <2>2. ParseStep(On(s, o)) = On(t, o + 1)
    BY <1>2, <1>6, StepIs
  <2>3. ParseStep(On(w, q)) = On(emit_reject(w, Decide(c, q)), q + 1)
    BY <1>1, <1>2, <1>3, <1>6, StepIs
  <2>4. 1 \in 1..(Len(b) - o)
    BY <1>2, <1>3, <1>6
  <2> HIDE DEF w, t
  <2>6. ParseStep(On(w, q)) = On(With(t, c), q + 1)
    BY <1>3, <2>1, <2>3
  <2> QED
    BY <1>6, <2>1, <2>2, <2>4, <2>6 DEF w, BothGo
<1>7. Decide(b, o) \in {"stop", "frame", "junk", "length"}
  BY <1>2, StepIs
<1> QED
  BY <1>4, <1>5, <1>6, <1>7

LEMMA StepGoes ==
  ASSUME NEW s, IsProc(s), NEW b \in Seq(Symbols), b = s.p.buffer, NEW o \in 0..Len(b)
  PROVE  BothStop(s, b, o, b, o) \/ BothGo(s, b, o, b, o)
<1>1. Len(b) - o <= Len(b) - o /\ \A j \in 1..(Len(b) - o) : b[o + j] = b[o + j]
  OBVIOUS
<1> QED
  BY <1>1, StepView

(* The loop as a sequence of states.                                       *)
Parsing(s, n, st) ==
  st = [i \in 0..n |-> IF i = 0 THEN On(s, 0) ELSE ParseStep(st[i - 1])]

LEMMA ParsingIs ==
  ASSUME NEW s, Len(s.p.buffer) \in Nat
  PROVE  \E st : /\ Parsing(s, Len(s.p.buffer) + 1, st)
                 /\ ParseBuffer(s) = LET last == st[Len(s.p.buffer) + 1]
                                     IN [last.s EXCEPT !.p.buffer = SubSeq(@, last.offset + 1,
                                                                           Len(s.p.buffer))]
<1> DEFINE T == {n \in Nat : ~\E st : Parsing(s, n, st)}
<1>1. T = {}
  <2> SUFFICES ASSUME T # {} PROVE FALSE
    OBVIOUS
  <2>1. PICK n \in T : \A m \in T : ~(m < n)
    BY LeastNatural
  <2>2. CASE n = 0
    <3>1. Parsing(s, 0, [i \in 0..0 |-> On(s, 0)])
      BY DEF Parsing
    <3> QED
      BY <2>2, <3>1
  <2>3. CASE n # 0
    <3>1. n - 1 \in Nat /\ n - 1 \notin T
      BY <2>1, <2>3
    <3>2. PICK v : Parsing(s, n - 1, v)
      BY <3>1
    <3> DEFINE w == [i \in 0..n |-> IF i = n THEN ParseStep(v[n - 1]) ELSE v[i]]
    <3>3. \A i \in 0..n : w[i] = IF i = 0 THEN On(s, 0) ELSE ParseStep(w[i - 1])
      BY <2>3, <3>1, <3>2 DEF Parsing
    <3>4. Parsing(s, n, w)
      BY <3>3 DEF Parsing
    <3> QED
      BY <3>4
  <2> QED
    BY <2>2, <2>3
<1> DEFINE N == Len(s.p.buffer) + 1
           st == CHOOSE w : Parsing(s, N, w)
<1>2. ParseBuffer(s) = LET last == st[N]
                       IN [last.s EXCEPT !.p.buffer = SubSeq(@, last.offset + 1, Len(s.p.buffer))]
  BY DEF ParseBuffer, Parsing, On, Loop
<1>3. Parsing(s, N, st)
  <2>1. \E w : Parsing(s, N, w)
    BY <1>1
  <2> QED
    BY <2>1, Zenon
<1> QED
  BY <1>2, <1>3

(* The states of the loop: while it goes on, every iteration advances.     *)
Going(b, x, i) ==
  \E s, o : IsProc(s) /\ s.p.buffer = b /\ o \in i..Len(b) /\ x = On(s, o)

Ended(b, x, y, j) ==
  \E s, o : /\ IsProc(s) /\ s.p.buffer = b /\ o \in j..Len(b) /\ Decide(b, o) = "stop"
            /\ Len(b) - o < FrameSize
            /\ y = On(s, o) /\ x = Off(s, o)

LEMMA ParsingGoes ==
  ASSUME NEW s, IsProc(s), NEW b \in Seq(Symbols), b = s.p.buffer, NEW n \in Nat, NEW st,
         Parsing(s, n, st)
  PROVE  \A i \in 0..n : \/ Going(b, st[i], i)
                         \/ \E j \in 0..(i - 1) : Ended(b, st[i], st[j], j)
<1> DEFINE Good(i) == \/ Going(b, st[i], i)
                      \/ \E j \in 0..(i - 1) : Ended(b, st[i], st[j], j)
           T == {i \in 0..n : ~Good(i)}
<1> SUFFICES ASSUME T # {} PROVE FALSE
  OBVIOUS
<1>0. T \subseteq Nat
  OBVIOUS
<1>1. PICK i \in T : \A j \in T : ~(j < i)
  BY <1>0, LeastNatural, Zenon
<1>2. CASE i = 0
  <2>1. st[0] = On(s, 0) /\ 0 \in 0..Len(b)
    BY DEF Parsing
  <2> QED
    BY <1>2, <2>1 DEF Going
<1>3. CASE i # 0
  <2>1. i - 1 \in 0..n /\ Good(i - 1) /\ i \in Nat
    BY <1>1, <1>3
  <2>2. st[i] = ParseStep(st[i - 1])
    BY <1>3 DEF Parsing
  <2>3. CASE Going(b, st[i - 1], i - 1)
    <3>1. PICK t, o : IsProc(t) /\ t.p.buffer = b /\ o \in (i - 1)..Len(b) /\ st[i - 1] = On(t, o)
      BY <2>3 DEF Going
    <3>2. o \in 0..Len(b)
      BY <2>1, <3>1
    <3>3. BothStop(t, b, o, b, o) \/ BothGo(t, b, o, b, o)
      BY <3>1, <3>2, StepGoes
    <3>4. CASE BothStop(t, b, o, b, o)
      <4>1. st[i] = Off(t, o)
        BY <2>2, <3>1, <3>4 DEF BothStop
      <4>2. Ended(b, st[i], st[i - 1], i - 1)
        BY <3>1, <3>4, <4>1 DEF Ended, BothStop
      <4> QED
        BY <2>1, <4>2
    <3>5. CASE BothGo(t, b, o, b, o)
      <4>1. PICK u, k : /\ IsProc(u) /\ u.p.buffer = b /\ k \in 1..(Len(b) - o)
                        /\ ParseStep(On(t, o)) = On(u, o + k)
        BY <3>5 DEF BothGo
      <4>2. o + k \in i..Len(b)
        BY <2>1, <3>1, <4>1
      <4>3. st[i] = On(u, o + k)
        BY <2>2, <3>1, <4>1
      <4> QED
        BY <4>1, <4>2, <4>3 DEF Going
    <3> QED
      BY <3>3, <3>4, <3>5
  <2>4. CASE \E j \in 0..(i - 2) : Ended(b, st[i - 1], st[j], j)
    <3>1. PICK j \in 0..(i - 2) : Ended(b, st[i - 1], st[j], j)
      BY <2>4
    <3>2. PICK t, o : /\ IsProc(t) /\ t.p.buffer = b /\ o \in j..Len(b) /\ Decide(b, o) = "stop"
                      /\ Len(b) - o < FrameSize
                      /\ st[j] = On(t, o) /\ st[i - 1] = Off(t, o)
      BY <3>1 DEF Ended
    <3>3. o \in Nat
      BY <3>1, <3>2
    <3>4. ParseStep(Off(t, o)) = Off(t, o)
      BY <3>2, <3>3, StepIs
    <3>5. st[i] = Off(t, o)
      BY <2>2, <3>2, <3>4
    <3>6. Ended(b, st[i], st[j], j)
      BY <3>2, <3>5 DEF Ended
    <3>7. j \in 0..(i - 1)
      BY <2>1, <3>1
    <3> QED
      BY <3>6, <3>7
  <2>5. (i - 1) - 1 = i - 2
    BY <2>1
  <2> QED
    BY <2>1, <2>3, <2>4, <2>5
<1> QED
  BY <1>2, <1>3

LEMMA LoopParts ==
  ASSUME NEW s, NEW o, NEW t, NEW q
  PROVE  /\ On(s, o) = On(t, q) => s = t /\ o = q
         /\ Off(s, o) = Off(t, q) => s = t /\ o = q
         /\ On(s, o) # Off(t, q)
         /\ Off(s, o).s = s /\ Off(s, o).offset = o
<1>1. On(s, o).s = s /\ On(s, o).offset = o /\ On(s, o).more = TRUE
  BY DEF On, Off, Loop
<1>2. On(t, q).s = t /\ On(t, q).offset = q
  BY DEF On, Off, Loop
<1>3. Off(s, o).s = s /\ Off(s, o).offset = o
  BY DEF On, Off, Loop
<1>4. Off(t, q).s = t /\ Off(t, q).offset = q /\ Off(t, q).more = FALSE
  BY DEF On, Off, Loop
<1> QED
  BY <1>1, <1>2, <1>3, <1>4

Rests(st, i, n, x) == \A l \in i..n : st[l] = x

LEMMA ParsingStays ==
  ASSUME NEW s, NEW n \in Nat, NEW st, Parsing(s, n, st), NEW i \in 0..n,
         NEW x, ParseStep(x) = x, st[i] = x
  PROVE  Rests(st, i, n, x)
<1> USE DEF Rests
<1> DEFINE T == {l \in i..n : st[l] # x}
<1> SUFFICES ASSUME T # {} PROVE FALSE
  OBVIOUS
<1>i. i \in Nat
  OBVIOUS
<1>0. T \subseteq Nat
  <2>1. \A l \in i..n : l \in Nat
    BY <1>i
  <2> QED
    BY <2>1
<1>1. PICK l \in T : \A k \in T : ~(k < l)
  BY <1>0, LeastNatural, Zenon
<1>a. l \in i..n /\ l # i
  BY <1>1
<1>2. l - 1 \in i..n /\ l - 1 \notin T /\ l \in 1..n
  <2>1. l \in Nat /\ l > i
    BY <1>i, <1>a
  <2>2. l - 1 \in i..n /\ l \in 1..n /\ l - 1 < l
    BY <1>i, <1>a, <2>1
  <2> QED
    BY <1>1, <2>2
<1>3. st[l - 1] = x
  BY <1>2
<1>4. st[l] = ParseStep(st[l - 1])
  <2>1. l \in 0..n /\ l # 0
    BY <1>2
  <2> HIDE DEF T
  <2> QED
    BY <2>1 DEF Parsing
<1> QED
  BY <1>1, <1>3, <1>4

(* The loop ends within the buffer, in front of less than a frame.         *)
Parsed(s, b, st, j, t, o) ==
  /\ Parsing(s, Len(b) + 1, st)
  /\ j \in 0..Len(b) /\ o \in j..Len(b)
  /\ IsProc(t) /\ t.p.buffer = b
  /\ Len(b) - o < FrameSize
  /\ st[j] = On(t, o) /\ st[Len(b) + 1] = Off(t, o)
  /\ ParseBuffer(s) = With(t, SubSeq(b, o + 1, Len(b)))

LEMMA ParseBufferIs ==
  ASSUME NEW s, IsProc(s), NEW b \in Seq(Symbols), b = s.p.buffer
  PROVE  \E st, j, t, o : Parsed(s, b, st, j, t, o)
<1> DEFINE N == Len(b) + 1
<1>0. Len(b) \in Nat /\ N \in Nat
  OBVIOUS
<1>1. PICK st : /\ Parsing(s, N, st)
                /\ ParseBuffer(s) = [st[N].s EXCEPT !.p.buffer = SubSeq(@, st[N].offset + 1, Len(b))]
  BY <1>0, ParsingIs
<1>2. \/ Going(b, st[N], N)
      \/ \E j \in 0..(N - 1) : Ended(b, st[N], st[j], j)
  BY <1>0, <1>1, ParsingGoes
<1>3. ~Going(b, st[N], N)
  <2>1. \A o : o \notin N..Len(b)
    BY <1>0
  <2> QED
    BY <2>1 DEF Going
<1>4. PICK j \in 0..Len(b) : Ended(b, st[N], st[j], j)
  BY <1>0, <1>2, <1>3
<1>5. PICK t, o : /\ IsProc(t) /\ t.p.buffer = b /\ o \in j..Len(b) /\ Decide(b, o) = "stop"
                  /\ Len(b) - o < FrameSize
                  /\ st[j] = On(t, o) /\ st[N] = Off(t, o)
  BY <1>4 DEF Ended
<1>6. st[N].s = t /\ st[N].offset = o
  <2>1. Off(t, o).s = t /\ Off(t, o).offset = o
    BY LoopParts
  <2> QED
    BY <1>5, <2>1
<1>7. ParseBuffer(s) = [t EXCEPT !.p.buffer = SubSeq(b, o + 1, Len(b))]
  BY <1>1, <1>5, <1>6
<1>8. ParseBuffer(s) = With(t, SubSeq(b, o + 1, Len(b)))
  BY <1>5, <1>7, WithIs
<1>9. Parsed(s, b, st, j, t, o)
  BY <1>1, <1>4, <1>5, <1>8 DEF Parsed
<1> QED
  BY <1>9

LEMMA SuffixIs ==
  ASSUME NEW w \in Seq(Symbols), NEW x \in 0..Len(w)
  PROVE  /\ SubSeq(w, x + 1, Len(w)) \in Seq(Symbols)
         /\ Len(SubSeq(w, x + 1, Len(w))) = Len(w) - x
         /\ \A k \in 1..(Len(w) - x) : SubSeq(w, x + 1, Len(w))[k] = w[x + k]
<1> DEFINE v == SubSeq(w, x + 1, Len(w))
<1>0. x \in Nat /\ Len(w) \in Nat /\ x <= Len(w)
  OBVIOUS
<1>1. \A k \in (x + 1)..Len(w) : w[k] \in Symbols
  BY <1>0
<1>2. /\ v \in Seq(Symbols) /\ Len(v) = IF x + 1 <= Len(w) THEN Len(w) - (x + 1) + 1 ELSE 0
      /\ \A k \in 1..(Len(w) - (x + 1) + 1) : v[k] = w[(x + 1) + k - 1]
  BY <1>0, <1>1, SubSeqProperties
<1> HIDE DEF v
<1>3. /\ v \in Seq(Symbols) /\ Len(v) = Len(w) - x
      /\ \A k \in 1..(Len(w) - x) : v[k] = w[x + k]
  BY <1>0, <1>2
<1> QED
  BY <1>3 DEF v

TailFrom(c, o, e) ==
  /\ e \in Seq(Symbols) /\ Len(e) = Len(c) - o
  /\ \A k \in 1..Len(e) : e[k] = c[o + k]
  /\ \A x \in o..Len(c) : SubSeq(e, x - o + 1, Len(e)) = SubSeq(c, x + 1, Len(c))

LEMMA TailOf ==
  ASSUME NEW b \in Seq(Symbols), NEW d \in Seq(Symbols), NEW o \in 0..Len(b),
         NEW e, e = SubSeq(b, o + 1, Len(b)) \o d
  PROVE  TailFrom(b \o d, o, e)
<1> DEFINE r == SubSeq(b, o + 1, Len(b))
           f == b \o d
<1>0. Len(b) \in Nat /\ Len(d) \in Nat /\ o \in Nat
  OBVIOUS
<1>1. r \in Seq(Symbols) /\ Len(r) = Len(b) - o /\ \A k \in 1..Len(r) : r[k] = b[o + k]
  BY SuffixIs
<1>2. f \in Seq(Symbols) /\ Len(f) = Len(b) + Len(d)
  BY ConcatProperties
<1>3. \A k \in 1..(Len(b) + Len(d)) : f[k] = IF k <= Len(b) THEN b[k] ELSE d[k - Len(b)]
  BY ConcatProperties
<1> HIDE DEF r, f
<1>4. /\ e \in Seq(Symbols) /\ Len(e) = Len(r) + Len(d)
      /\ \A k \in 1..(Len(r) + Len(d)) : e[k] = IF k <= Len(r) THEN r[k] ELSE d[k - Len(r)]
  <2>1. e = r \o d
    BY DEF r
  <2>2. ASSUME NEW w \in Seq(Symbols)
        PROVE  /\ w \o d \in Seq(Symbols) /\ Len(w \o d) = Len(w) + Len(d)
               /\ \A k \in 1..(Len(w) + Len(d)) :
                    (w \o d)[k] = IF k <= Len(w) THEN w[k] ELSE d[k - Len(w)]
    BY ConcatProperties
  <2> QED
    BY <1>1, <2>1, <2>2, Zenon
<1>5. Len(e) = Len(f) - o
  BY <1>0, <1>1, <1>2, <1>4
<1>6. ASSUME NEW k \in 1..Len(e)
      PROVE  e[k] = f[o + k]
  <2>0. Len(r) \in Nat /\ k \in 1..(Len(r) + Len(d)) /\ o + k \in 1..(Len(b) + Len(d))
    BY <1>0, <1>1, <1>4
  <2>1. CASE k <= Len(r)
    <3>1. o + k <= Len(b)
      BY <1>0, <1>1, <2>0, <2>1
    <3>2. e[k] = r[k] /\ k \in 1..Len(r)
      BY <1>4, <2>0, <2>1
    <3>3. f[o + k] = b[o + k]
      BY <1>3, <2>0, <3>1
    <3> QED
      BY <1>1, <3>2, <3>3
  <2>2. CASE ~(k <= Len(r))
    <3>1. ~(o + k <= Len(b)) /\ (o + k) - Len(b) = k - Len(r)
      BY <1>0, <1>1, <2>0, <2>2
    <3>2. e[k] = d[k - Len(r)]
      BY <1>4, <2>0, <2>2
    <3>3. f[o + k] = d[(o + k) - Len(b)]
      BY <1>3, <2>0, <3>1
    <3> QED
      BY <3>1, <3>2, <3>3
  <2> QED
    BY <2>1, <2>2
<1>7. ASSUME NEW x \in o..Len(f)
      PROVE  SubSeq(e, x - o + 1, Len(e)) = SubSeq(f, x + 1, Len(f))
  <2> DEFINE y == x - o
             u == SubSeq(e, y + 1, Len(e))
             v == SubSeq(f, x + 1, Len(f))
  <2>1. x \in 0..Len(f) /\ y \in 0..Len(e) /\ Len(e) - y = Len(f) - x /\ Len(e) \in Nat
    BY <1>0, <1>2, <1>4, <1>5
  <2>2. \A k \in 1..(Len(e) - y) : y + k \in 1..Len(e) /\ o + (y + k) = x + k
    BY <1>0, <2>1
  <2> HIDE DEF y
  <2>3. /\ u \in Seq(Symbols) /\ Len(u) = Len(e) - y
        /\ \A k \in 1..(Len(e) - y) : u[k] = e[y + k]
    BY <1>4, <2>1, SuffixIs
  <2>4. /\ v \in Seq(Symbols) /\ Len(v) = Len(f) - x
        /\ \A k \in 1..(Len(f) - x) : v[k] = f[x + k]
    BY <1>2, <2>1, SuffixIs
  <2> HIDE DEF u, v
  <2>5. Len(u) = Len(v) /\ \A k \in 1..Len(u) : u[k] = v[k]
    <3>1. Len(u) = Len(v) /\ Len(u) = Len(e) - y /\ Len(f) - x = Len(e) - y
      BY <2>1, <2>3, <2>4
    <3>2. ASSUME NEW k \in 1..(Len(e) - y)
          PROVE  u[k] = v[k]
      <4>1. u[k] = e[y + k] /\ v[k] = f[x + k]
        BY <2>3, <2>4, <3>1
      <4>2. e[y + k] = f[o + (y + k)] /\ o + (y + k) = x + k
        BY <1>6, <2>2
      <4> QED
        BY <4>1, <4>2
    <3> QED
      BY <3>1, <3>2
  <2>6. u = v
    BY <2>3, <2>4, <2>5, SeqEqual
  <2> QED
    BY <2>6 DEF u, v, y
<1> QED
  BY <1>2, <1>4, <1>5, <1>6, <1>7 DEF f, TailFrom

(* Splitting what the loop is given changes nothing.                       *)

Alike(b, c, x, y) ==
  \E u, o : /\ IsProc(u) /\ u.p.buffer = b /\ o \in 0..Len(b)
            /\ x = On(u, o) /\ y = On(With(u, c), o)

(* As long as the loop on b has not stopped, the loop on a longer buffer   *)
(* goes the same way.                                                      *)
LEMMA LongerGoes ==
  ASSUME NEW s, IsProc(s), NEW b \in Seq(Symbols), b = s.p.buffer, NEW d \in Seq(Symbols),
         NEW n \in Nat, NEW st, Parsing(s, n, st), NEW j \in 0..n, NEW t, NEW o,
         st[j] = On(t, o),
         NEW l \in Nat, j <= l, NEW su, Parsing(With(s, b \o d), l, su)
  PROVE  su[j] = On(With(t, b \o d), o)
<1> DEFINE c == b \o d
           T == {i \in 0..j : ~Alike(b, c, st[i], su[i])}
<1>j. j \in Nat /\ \A i \in 0..j : i \in 0..n /\ i \in 0..l /\ i \in Nat
  OBVIOUS
<1>0. /\ c \in Seq(Symbols) /\ Len(c) = Len(b) + Len(d) /\ Len(d) \in Nat /\ Len(b) \in Nat
      /\ \A k \in 1..Len(b) : c[k] = b[k]
  <2>1. /\ c \in Seq(Symbols) /\ Len(c) = Len(b) + Len(d)
        /\ \A k \in 1..(Len(b) + Len(d)) : c[k] = IF k <= Len(b) THEN b[k] ELSE d[k - Len(b)]
    BY ConcatProperties
  <2> HIDE DEF c
  <2> QED
    BY <2>1
<1> HIDE DEF c
<1>1. T = {}
  <2> SUFFICES ASSUME T # {} PROVE FALSE
    OBVIOUS
  <2>0. T \subseteq Nat
    BY <1>j
  <2>1. PICK i \in T : \A k \in T : ~(k < i)
    BY <2>0, LeastNatural, Zenon
  <2>2. CASE i = 0
    <3>1. st[0] = On(s, 0) /\ su[0] = On(With(s, c), 0)
      BY DEF Parsing, c
    <3>2. Alike(b, c, st[0], su[0])
      BY <1>0, <3>1 DEF Alike
    <3> QED
      BY <2>1, <2>2, <3>2
  <2>3. CASE i # 0
    <3>0. i \in 0..j /\ i \in 0..n /\ i \in 0..l /\ i \in Nat
      BY <1>j, <2>1
    <3>1. i - 1 \in 0..j /\ Alike(b, c, st[i - 1], su[i - 1])
      <4>1. i - 1 \in 0..j /\ i - 1 < i
        BY <1>j, <2>3, <3>0
      <4> QED
        BY <2>1, <4>1
    <3>2. st[i] = ParseStep(st[i - 1]) /\ su[i] = ParseStep(su[i - 1])
      <4> HIDE DEF T
      <4> QED
        BY <2>3, <3>0 DEF Parsing
    <3>3. PICK u, x : /\ IsProc(u) /\ u.p.buffer = b /\ x \in 0..Len(b)
                      /\ st[i - 1] = On(u, x) /\ su[i - 1] = On(With(u, c), x)
      BY <3>1 DEF Alike
    <3>4. Decide(b, x) # "stop"
      <4> SUFFICES ASSUME Decide(b, x) = "stop" PROVE FALSE
        OBVIOUS
      <4> HIDE DEF T
      <4>2. j \in i..n /\ x \in Nat
        BY <1>0, <3>0, <3>3
      <4>0. ParseStep(On(u, x)) = Off(u, x)
        BY <3>3, <4>2, StepIs
      <4>1. st[i] = Off(u, x)
        BY <3>2, <3>3, <4>0
      <4>b. \A k \in i..n : st[k] = Off(u, x)
        <5>1. ParseStep(Off(u, x)) = Off(u, x)
          BY <3>3, <4>2, StepIs
        <5> QED
          <6>1. Rests(st, i, n, Off(u, x))
            BY <3>0, <4>1, <5>1, ParsingStays
          <6> QED
            BY <6>1 DEF Rests
      <4>3. st[j] = Off(u, x)
        BY <4>2, <4>b
      <4>4. On(t, o) # Off(u, x)
        BY LoopParts
      <4> QED
        BY <4>3, <4>4
    <3>5. BothStop(u, b, x, c, x) \/ BothGo(u, b, x, c, x)
      <4>1. x \in 0..Len(c) /\ Len(b) - x <= Len(c) - x
        BY <1>0, <3>3
      <4>2. \A k \in 1..(Len(b) - x) : b[x + k] = c[x + k]
        BY <1>0, <3>3
      <4> QED
        BY <1>0, <3>3, <3>4, <4>1, <4>2, StepView
    <3>6. PICK v, k : /\ IsProc(v) /\ v.p.buffer = b /\ k \in 1..(Len(b) - x)
                      /\ ParseStep(On(u, x)) = On(v, x + k)
                      /\ ParseStep(On(With(u, c), x)) = On(With(v, c), x + k)
      BY <3>4, <3>5 DEF BothStop, BothGo
    <3>7. x + k \in 0..Len(b)
      BY <1>0, <3>3, <3>6
    <3>8. st[i] = On(v, x + k) /\ su[i] = On(With(v, c), x + k)
      BY <3>2, <3>3, <3>6
    <3>9. Alike(b, c, st[i], su[i])
      BY <3>6, <3>7, <3>8 DEF Alike
    <3> QED
      BY <2>1, <3>9
  <2> QED
    BY <2>2, <2>3
<1>a. Alike(b, c, st[j], su[j])
  <2>1. j \in 0..j
    BY <1>j
  <2> QED
    BY <1>1, <2>1
<1>2. PICK u, x : /\ st[j] = On(u, x) /\ su[j] = On(With(u, c), x)
  BY <1>a DEF Alike
<1>3. u = t /\ x = o
  <2>1. On(u, x) = On(t, o) => u = t /\ x = o
    BY LoopParts
  <2> QED
    BY <1>2, <2>1
<1> QED
  BY <1>2, <1>3 DEF c

(* The loop on the rest of a buffer goes the way of the loop on the whole. *)
Follows(c, e, o, x, y) ==
  \E u, q : /\ IsProc(u) /\ u.p.buffer = c /\ q \in o..Len(c)
            /\ \/ x = On(u, q) /\ y = On(With(u, e), q - o)
               \/ x = Off(u, q) /\ y = Off(With(u, e), q - o)

LEMMA FollowsStep ==
  ASSUME NEW c \in Seq(Symbols), NEW e \in Seq(Symbols), NEW o \in 0..Len(c),
         Len(e) = Len(c) - o, \A k \in 1..Len(e) : e[k] = c[o + k],
         NEW x, NEW y, Follows(c, e, o, x, y)
  PROVE  Follows(c, e, o, ParseStep(x), ParseStep(y))
<1>0. o \in Nat /\ Len(c) \in Nat /\ Len(e) \in Nat
  OBVIOUS
<1>1. PICK u, q : /\ IsProc(u) /\ u.p.buffer = c /\ q \in o..Len(c)
                  /\ \/ x = On(u, q) /\ y = On(With(u, e), q - o)
                     \/ x = Off(u, q) /\ y = Off(With(u, e), q - o)
  BY DEF Follows
<1>2. q \in 0..Len(c) /\ q - o \in 0..Len(e) /\ Len(c) - q = Len(e) - (q - o) /\ q \in Nat /\ q - o \in Nat
  BY <1>0, <1>1
<1> DEFINE r == q - o
<1>3. IsProc(With(u, e)) /\ With(u, e).p.buffer = e
  BY <1>1, WithIs
<1>4. CASE x = Off(u, q) /\ y = Off(With(u, e), r)
  <2>1. ParseStep(Off(u, q)) = Off(u, q)
    BY <1>1, <1>2, StepIs
  <2>2. ParseStep(Off(With(u, e), r)) = Off(With(u, e), r)
    <3> HIDE DEF r
    <3>1. r \in Nat
      BY <1>2 DEF r
    <3> QED
      BY <1>3, <3>1, StepIs
  <2>3. ParseStep(x) = Off(u, q) /\ ParseStep(y) = Off(With(u, e), r)
    BY <1>4, <2>1, <2>2
  <2> QED
    BY <1>1, <2>3 DEF Follows
<1>5. CASE x = On(u, q) /\ y = On(With(u, e), r)
  <2>1. \A k \in 1..(Len(c) - q) : c[q + k] = e[r + k]
    <3> TAKE k \in 1..(Len(c) - q)
    <3>1. r + k \in 1..Len(e) /\ o + (r + k) = q + k
      BY <1>0, <1>2
    <3> QED
      BY <3>1
  <2>2. r \in 0..Len(e) /\ Len(c) - q = Len(e) - r /\ Len(c) - q <= Len(e) - r
    BY <1>0, <1>2
  <2> HIDE DEF r
  <2>3. BothStop(u, c, q, e, r) \/ BothGo(u, c, q, e, r)
    BY <1>1, <1>2, <2>1, <2>2, StepView
  <2>4. CASE BothStop(u, c, q, e, r)
    <3>1. ParseStep(x) = Off(u, q) /\ ParseStep(y) = Off(With(u, e), r)
      BY <1>5, <2>4 DEF BothStop
    <3> QED
      BY <1>1, <3>1 DEF Follows, r
  <2>5. CASE BothGo(u, c, q, e, r)
    <3>1. PICK t, n : /\ IsProc(t) /\ t.p.buffer = c /\ n \in 1..(Len(c) - q)
                      /\ ParseStep(On(u, q)) = On(t, q + n)
                      /\ ParseStep(On(With(u, e), r)) = On(With(t, e), r + n)
      BY <2>5 DEF BothGo
    <3>2. q + n \in o..Len(c) /\ (q + n) - o = r + n
      BY <1>0, <1>1, <1>2, <3>1 DEF r
    <3>3. ParseStep(x) = On(t, q + n) /\ ParseStep(y) = On(With(t, e), (q + n) - o)
      BY <1>5, <3>1, <3>2
    <3> QED
      BY <3>1, <3>2, <3>3 DEF Follows
  <2> QED
    BY <2>3, <2>4, <2>5
<1> QED
  BY <1>1, <1>4, <1>5

LEMMA RestGoes ==
  ASSUME NEW c \in Seq(Symbols), NEW e \in Seq(Symbols), NEW o \in 0..Len(c),
         Len(e) = Len(c) - o, \A k \in 1..Len(e) : e[k] = c[o + k],
         NEW s, NEW n \in Nat, NEW st, Parsing(s, n, st),
         NEW t, NEW m \in Nat, NEW su, Parsing(t, m, su),
         NEW j \in Nat, j + m <= n, Follows(c, e, o, st[j], su[0])
  PROVE  Follows(c, e, o, st[j + m], su[m])
<1> DEFINE T == {i \in 0..m : ~Follows(c, e, o, st[j + i], su[i])}
<1>1. T = {}
  <2> SUFFICES ASSUME T # {} PROVE FALSE
    OBVIOUS
  <2>0. T \subseteq Nat
    OBVIOUS
  <2>1. PICK i \in T : \A k \in T : ~(k < i)
    BY <2>0, LeastNatural, Zenon
  <2>2. i # 0
    BY <2>1
  <2>3. i \in 0..m /\ i - 1 \in 0..m /\ i - 1 < i /\ j + i \in 0..n /\ j + i # 0 /\ (j + i) - 1 = j + (i - 1)
    BY <2>1, <2>2
  <2>4. Follows(c, e, o, st[j + (i - 1)], su[i - 1])
    BY <2>1, <2>3
  <2>5. st[j + i] = ParseStep(st[j + (i - 1)])
    <3> DEFINE l == j + i
    <3> HIDE DEF T
    <3>1. st[l] = ParseStep(st[l - 1])
      <4>1. l \in 0..n /\ l # 0
        BY <2>3
      <4> HIDE DEF l
      <4> QED
        BY <4>1 DEF Parsing
    <3> QED
      BY <2>3, <3>1
  <2>6. su[i] = ParseStep(su[i - 1])
    <3> HIDE DEF T
    <3> QED
      BY <2>2, <2>3 DEF Parsing
  <2>7. Follows(c, e, o, st[j + i], su[i])
    BY <2>4, <2>5, <2>6, FollowsStep
  <2> QED
    BY <2>1, <2>7
<1>2. m \in 0..m
  OBVIOUS
<1> QED
  BY <1>1, <1>2

(* Parsing b and then d after what is left of it is parsing b \o d.        *)
LEMMA ParseTwice ==
  ASSUME NEW s, IsProc(s), NEW b \in Seq(Symbols), b = s.p.buffer, NEW d \in Seq(Symbols)
  PROVE  \E r \in Seq(Symbols) :
           /\ IsProc(ParseBuffer(s)) /\ ParseBuffer(s).p.buffer = r /\ Len(r) < FrameSize
           /\ ParseBuffer(With(s, b \o d)) = ParseBuffer(With(ParseBuffer(s), r \o d))
<1>1. PICK st, j, t, o : Parsed(s, b, st, j, t, o)
  BY ParseBufferIs
<1>2. /\ Parsing(s, Len(b) + 1, st) /\ j \in 0..Len(b) /\ o \in j..Len(b)
      /\ IsProc(t) /\ t.p.buffer = b /\ Len(b) - o < FrameSize /\ st[j] = On(t, o)
      /\ ParseBuffer(s) = With(t, SubSeq(b, o + 1, Len(b)))
  BY <1>1 DEF Parsed
<1>3. j \in Nat /\ o \in Nat /\ o \in 0..Len(b) /\ Len(b) \in Nat /\ Len(d) \in Nat /\ j <= o
  BY <1>2
<1> DEFINE r == SubSeq(b, o + 1, Len(b))
           c == b \o d
           e == r \o d
           w == With(s, c)
           v == With(t, e)
<1>4. r \in Seq(Symbols) /\ Len(r) = Len(b) - o
  BY <1>3, SuffixIs
<1>5. /\ c \in Seq(Symbols) /\ Len(c) = Len(b) + Len(d)
      /\ e \in Seq(Symbols) /\ Len(e) = Len(c) - o
      /\ \A k \in 1..Len(e) : e[k] = c[o + k]
      /\ \A x \in o..Len(c) : SubSeq(e, x - o + 1, Len(e)) = SubSeq(c, x + 1, Len(c))
  <2>1. e = SubSeq(b, o + 1, Len(b)) \o d
    OBVIOUS
  <2>2. c \in Seq(Symbols) /\ Len(c) = Len(b) + Len(d)
    BY ConcatProperties
  <2> HIDE DEF e
  <2>3. TailFrom(c, o, e)
    BY <1>3, <2>1, TailOf
  <2> HIDE DEF c
  <2> QED
    BY <2>2, <2>3 DEF TailFrom
<1>6. /\ IsProc(w) /\ w.p.buffer = c /\ IsProc(v) /\ v.p.buffer = e
      /\ IsProc(With(t, r)) /\ With(t, r).p.buffer = r /\ With(With(t, r), e) = v
  BY <1>2, WithIs
<1> HIDE DEF r, c, e, w, v
<1>7. PICK su, ju, tu, ou : Parsed(w, c, su, ju, tu, ou)
  BY <1>5, <1>6, ParseBufferIs
<1>8. /\ Parsing(w, Len(c) + 1, su) /\ su[Len(c) + 1] = Off(tu, ou)
      /\ ParseBuffer(w) = With(tu, SubSeq(c, ou + 1, Len(c)))
  BY <1>7 DEF Parsed
<1>9. PICK sv, jv, tv, ov : Parsed(v, e, sv, jv, tv, ov)
  BY <1>5, <1>6, ParseBufferIs
<1>10. /\ Parsing(v, Len(e) + 1, sv) /\ sv[Len(e) + 1] = Off(tv, ov)
       /\ ParseBuffer(v) = With(tv, SubSeq(e, ov + 1, Len(e)))
  BY <1>9 DEF Parsed
<1> DEFINE N == Len(c) + 1
           M == Len(e) + 1
<1>11. /\ N \in Nat /\ M \in Nat /\ j \in 0..(Len(b) + 1) /\ j <= N /\ j + M <= N /\ j + M \in 0..N
       /\ o \in 0..Len(c) /\ Len(c) \in Nat /\ Len(b) + 1 \in Nat /\ o \in o..Len(c)
  <2>1. Len(c) = Len(b) + Len(d) /\ Len(e) = (Len(b) + Len(d)) - o /\ j <= Len(b) /\ o <= Len(b)
    BY <1>2, <1>3, <1>5
  <2>2. Len(c) \in Nat /\ Len(e) \in Nat /\ j + (Len(e) + 1) <= Len(c) + 1
    BY <1>3, <2>1
  <2>3. /\ j \in 0..(Len(b) + 1) /\ j <= Len(c) + 1 /\ o \in 0..Len(c)
        /\ Len(b) + 1 \in Nat /\ o \in o..Len(c)
    BY <1>3, <2>1
  <2> QED
    BY <1>3, <2>2, <2>3
<1>12. su[j] = On(With(t, c), o)
  <2>1. Parsing(With(s, b \o d), N, su)
    BY <1>8 DEF w, c
  <2> HIDE DEF N
  <2>2. su[j] = On(With(t, b \o d), o)
    BY <1>2, <1>11, <2>1, LongerGoes, SMTT(40)
  <2> QED
    BY <2>2 DEF c
<1>13. sv[0] = On(v, 0)
  BY <1>10, <1>11 DEF Parsing
<1>14. Follows(c, e, o, su[j], sv[0])
  <2>1. IsProc(With(t, c)) /\ With(t, c).p.buffer = c /\ With(With(t, c), e) = v
    BY <1>2, WithIs DEF v
  <2>2. o - o = 0
    BY <1>3
  <2> QED
    BY <1>11, <1>12, <1>13, <2>1, <2>2 DEF Follows
<1>15. Follows(c, e, o, su[j + M], sv[M])
  <2> HIDE DEF N, M
  <2>1. Parsing(w, N, su) /\ Parsing(v, M, sv)
    BY <1>8, <1>10 DEF N, M
  <2> QED
    BY <1>3, <1>5, <1>11, <1>14, <2>1, RestGoes
<1>16. PICK u, x : /\ IsProc(u) /\ u.p.buffer = c /\ x \in o..Len(c)
                   /\ \/ su[j + M] = On(u, x) /\ sv[M] = On(With(u, e), x - o)
                      \/ su[j + M] = Off(u, x) /\ sv[M] = Off(With(u, e), x - o)
  BY <1>15 DEF Follows
<1>17. su[j + M] = Off(u, x) /\ tv = With(u, e) /\ ov = x - o
  <2>1. On(With(u, e), x - o) # Off(tv, ov)
    BY LoopParts
  <2>2. Off(With(u, e), x - o) = Off(tv, ov) => With(u, e) = tv /\ x - o = ov
    BY LoopParts
  <2> QED
    BY <1>10, <1>16, <2>1, <2>2
<1>18. tu = u /\ ou = x
  <2>1. ParseStep(Off(u, x)) = Off(u, x)
    <3>1. x \in Nat
      BY <1>3, <1>16
    <3> QED
      BY <1>5, <1>16, <3>1, StepIs
  <2>2. Rests(su, j + M, N, Off(u, x))
    <3>1. Parsing(w, N, su)
      BY <1>8
    <3> HIDE DEF N, M
    <3> QED
      BY <1>11, <1>17, <2>1, <3>1, ParsingStays
  <2>3. su[N] = Off(u, x)
    <3>1. N \in (j + M)..N
      BY <1>11
    <3> QED
      BY <2>2, <3>1 DEF Rests
  <2>4. Off(tu, ou) = Off(u, x) => tu = u /\ ou = x
    BY LoopParts
  <2> QED
    BY <1>8, <2>3, <2>4
<1>19. ParseBuffer(w) = ParseBuffer(v)
  <2>1. SubSeq(e, ov + 1, Len(e)) = SubSeq(c, x + 1, Len(c))
    BY <1>5, <1>16, <1>17
  <2>2. With(With(u, e), SubSeq(c, x + 1, Len(c))) = With(u, SubSeq(c, x + 1, Len(c)))
    BY <1>16, WithIs
  <2> QED
    BY <1>8, <1>10, <1>17, <1>18, <2>1, <2>2
<1>20. ParseBuffer(s) = With(t, r)
  BY <1>2 DEF r
<1>21. Len(r) < FrameSize
  BY <1>2, <1>4
<1>22. ParseBuffer(With(s, b \o d)) = ParseBuffer(With(With(t, r), r \o d))
  BY <1>6, <1>19 DEF c, w, e
<1> QED
  BY <1>4, <1>6, <1>20, <1>21, <1>22

-----------------------------------------------------------------------------
(* The runner.                                                             *)

LEMMA ParseNothing ==
  ASSUME NEW s, IsProc(s), s.p.buffer = <<>>
  PROVE  ParseBuffer(s) = s
<1> DEFINE b == s.p.buffer
<1>0. b \in Seq(Symbols) /\ Len(b) = 0
  OBVIOUS
<1>1. PICK st, j, t, o : Parsed(s, b, st, j, t, o)
  BY <1>0, ParseBufferIs
<1>2. /\ Parsing(s, Len(b) + 1, st) /\ j \in 0..Len(b) /\ o \in j..Len(b) /\ st[j] = On(t, o)
      /\ ParseBuffer(s) = With(t, SubSeq(b, o + 1, Len(b)))
  BY <1>1 DEF Parsed
<1> HIDE DEF b
<1>3. j = 0 /\ o = 0
  BY <1>0, <1>2
<1>4. Parsing(s, 1, st)
  BY <1>0, <1>2
<1>5. st[0] = On(s, 0)
  BY <1>4 DEF Parsing
<1>6. On(s, 0) = On(t, o) => s = t /\ 0 = o
  BY LoopParts
<1>7. t = s
  BY <1>2, <1>3, <1>5, <1>6
<1>8. SubSeq(b, o + 1, Len(b)) = <<>>
  <2>1. o + 1 \in Int /\ Len(b) \in Int /\ Len(b) < o + 1
    BY <1>0, <1>3
  <2> QED
    BY <2>1, SubSeqEmpty
<1>9. ParseBuffer(s) = With(s, <<>>)
  BY <1>2, <1>7, <1>8
<1> QED
  BY <1>9, WithIs

(* es_process_bytes after a delivery: what a single delivery of both parts *)
(* would have done, the parser buffer being large enough.                  *)
LEMMA DeliveryJoins ==
  ASSUME NEW s, IsProc(s), s.p.buffer = <<>>, NEW b \in Seq(Symbols), NEW d \in Seq(Symbols),
         Len(d) <= ES_MAX_BUFFER \div 2
  PROVE  /\ es_process_bytes(ParseBuffer(With(s, b)), d) = ParseBuffer(With(s, b \o d))
         /\ IsProc(ParseBuffer(With(s, b \o d)))
<1> DEFINE w == With(s, b)
           x == ParseBuffer(w)
           c == b \o d
<1>0. c \in Seq(Symbols) /\ Len(d) \in Nat
  BY ConcatProperties
<1>1. /\ IsProc(w) /\ w.p.buffer = b /\ With(w, c) = With(s, c)
      /\ IsProc(With(s, c)) /\ With(s, c).p.buffer = c
  BY WithIs
<1>2. PICK r \in Seq(Symbols) :
        /\ IsProc(x) /\ x.p.buffer = r /\ Len(r) < FrameSize
        /\ ParseBuffer(With(w, b \o d)) = ParseBuffer(With(x, r \o d))
  <2> HIDE DEF w
  <2> QED
    BY <1>1, ParseTwice
<1>3. ParseBuffer(With(s, c)) = ParseBuffer(With(x, r \o d))
  BY <1>1, <1>2
<1>4. IsProc(ParseBuffer(With(s, c)))
  <2> HIDE DEF c
  <2> DEFINE v == With(s, c)
  <2>1. IsProc(v) /\ c = v.p.buffer
    BY <1>1
  <2> HIDE DEF v
  <2>2. PICK e \in Seq(Symbols) : IsProc(ParseBuffer(v))
    BY <1>0, <2>1, ParseTwice
  <2> QED
    BY <2>2 DEF v
<1>5. ~(Len(d) > ES_MAX_BUFFER - Len(r))
  <2>1. Len(r) \in Nat /\ Len(r) < 4 /\ 4 <= ES_MAX_BUFFER \div 2 /\ ES_MAX_BUFFER \in Nat
    BY <1>2, SizesAssumption DEF FrameSize
  <2>2. 2 * (ES_MAX_BUFFER \div 2) <= ES_MAX_BUFFER
    BY <2>1
  <2> DEFINE half == ES_MAX_BUFFER \div 2
  <2>3. half \in Int
    BY <2>1
  <2> HIDE DEF half
  <2>4. Len(d) <= half /\ 4 <= half /\ 2 * half <= ES_MAX_BUFFER
    BY <2>1, <2>2 DEF half
  <2> QED
    BY <1>0, <2>1, <2>3, <2>4
<1> HIDE DEF x, c
<1>6. es_process_bytes(x, d) = ParseBuffer([x EXCEPT !.p.buffer = r \o d])
  BY <1>2, <1>5 DEF es_process_bytes
<1>7. [x EXCEPT !.p.buffer = r \o d] = With(x, r \o d)
  BY <1>2, WithIs
<1>8. es_process_bytes(x, d) = ParseBuffer(With(s, c))
  BY <1>3, <1>6, <1>7
<1> QED
  BY <1>4, <1>8 DEF x, c, w

(* A checkpoint is taken after es_finish: its parser buffer is empty.      *)
IsContent(k) == \E dv, a, r, h : k = [p |-> Mk(<<>>, dv, a, r, <<>>, h).p, history |-> h]

File(crc, k) == [crc |-> crc, content |-> k]
Sound(k) == <<File(TRUE, k)>>
Broken(k) == <<File(FALSE, k)>>

(* The file, as CheckpointKept says, holds the last saved content, which   *)
(* is the processor's when it was just renamed, or was changed, and then   *)
(* its checksum tells.                                                     *)
DiskInvariant ==
  \/ /\ disk = <<>> /\ saved = <<>> /\ damaged = FALSE
     /\ pc \notin {"renamed", "reported"}
  \/ /\ saved # <<>> /\ damaged = FALSE
     /\ IsContent(saved[Len(saved)]) /\ disk = Sound(saved[Len(saved)])
     /\ pc \in {"renamed", "reported"} => saved[Len(saved)] = Content
  \/ damaged = TRUE /\ \E k : disk = Broken(k)

ShapeInvariant ==
  /\ stream \in Streams /\ position \in 0..Len(stream)
  /\ IsProc(proc) /\ IsProc(origin) /\ origin.p.buffer = <<>>
  /\ pc \notin {"idle", "reading"} => proc.p.buffer = <<>>
  /\ pc = "idle" => position = 0
  /\ \E C : saved \in Seq(C)

(* What is delivered joins what was delivered before; the file, the saved  *)
(* contents and the state a run started from agree.                        *)
RunnerInvariant ==
  ShapeInvariant /\ DiskInvariant /\ FragmentationIndependent /\ RestoredWasSaved

LEMMA FileIs ==
  ASSUME NEW k
  PROVE  /\ Sound(k) # <<>> /\ Sound(k)[1].crc /\ Sound(k)[1].content = k
         /\ Broken(k) # <<>> /\ ~Broken(k)[1].crc /\ Broken(k)[1].content = k
<1>1. Sound(k) # <<>> /\ Sound(k)[1] = File(TRUE, k)
  BY DEF Sound
<1>2. Broken(k) # <<>> /\ Broken(k)[1] = File(FALSE, k)
  BY DEF Broken
<1>3. File(TRUE, k).crc = TRUE /\ File(TRUE, k).content = k
  BY DEF File
<1>4. File(FALSE, k).crc = FALSE /\ File(FALSE, k).content = k
  BY DEF File
<1> QED
  BY <1>1, <1>2, <1>3, <1>4

LEMMA ContentIs ==
  ASSUME NEW k, IsContent(k), NEW type, NEW device, NEW text
  PROVE  LET s == emit([p |-> k.p, out |-> <<>>, history |-> k.history], type, device, text)
         IN /\ IsProc(s) /\ s.p.buffer = <<>> /\ [p |-> s.p, history |-> s.history] = k
<1>1. PICK dv, a, r, h : k = [p |-> Mk(<<>>, dv, a, r, <<>>, h).p, history |-> h]
  BY DEF IsContent
<1> DEFINE t == [p |-> k.p, out |-> <<>>, history |-> k.history]
           s == emit(t, type, device, text)
<1>2. t = Mk(<<>>, dv, a, r, <<>>, h)
  BY <1>1 DEF Mk
<1>3. IsProc(t) /\ t.p.buffer = <<>> /\ t.p = k.p /\ t.history = k.history
  BY <1>2, MkIs
<1> HIDE DEF t
<1>4. IsProc(s) /\ s.p = t.p /\ s.history = t.history
  BY <1>3, EmitBlind DEF emit
<1>5. [p |-> k.p, history |-> k.history] = k
  BY <1>1
<1> HIDE DEF s
<1>6. IsProc(s) /\ s.p.buffer = <<>> /\ [p |-> s.p, history |-> s.history] = k
  BY <1>3, <1>4, <1>5
<1> QED
  BY <1>6 DEF s, t

LEMMA ContentOf ==
  ASSUME NEW s, IsProc(s), s.p.buffer = <<>>
  PROVE  IsContent([p |-> s.p, history |-> s.history])
<1>1. PICK b, dv, a, r, o, h : s = Mk(b, dv, a, r, o, h)
  BY DEF IsProc
<1>2. b = <<>> /\ s.history = h
  BY <1>1, MkIs
<1>3. s.p = Mk(<<>>, dv, a, r, <<>>, h).p
  BY <1>1, <1>2 DEF Mk
<1> DEFINE k == [p |-> s.p, history |-> s.history]
<1>4. k = [p |-> Mk(<<>>, dv, a, r, <<>>, h).p, history |-> h]
  BY <1>2, <1>3
<1> HIDE DEF k
<1>5. IsContent(k)
  BY <1>4, Zenon DEF IsContent
<1> QED
  BY <1>5 DEF k

LEMMA InitIs ==
  IsProc(es_init) /\ es_init.p.buffer = <<>>
<1>1. es_init = Mk(<<>>, [i \in Slots |-> NoDevice], 0, 0, <<>>,
                   [i \in Slots |-> [m \in Metrics |-> <<>>]])
  BY DEF es_init, Mk
<1> QED
  BY <1>1, MkIs

(* A run that has just started has parsed all of nothing.                  *)
LEMMA NothingDelivered ==
  ASSUME NEW s, IsProc(s), s.p.buffer = <<>>, NEW w
  PROVE  s = ParseBuffer([s EXCEPT !.p.buffer = @ \o SubSeq(w, 1, 0)])
<1>1. SubSeq(w, 1, 0) = <<>>
  BY SubSeqEmpty
<1>2. [s EXCEPT !.p.buffer = @ \o SubSeq(w, 1, 0)] = [s EXCEPT !.p.buffer = <<>> \o <<>>]
  BY <1>1
<1>3. <<>> \o <<>> = <<>>
  OBVIOUS
<1>4. [s EXCEPT !.p.buffer = @ \o SubSeq(w, 1, 0)] = s
  BY <1>2, <1>3, WithIs
<1> QED
  BY <1>4, ParseNothing

LEMMA RunnerInit ==
  ASSUME Init PROVE RunnerInvariant
<1> USE DEF Init
<1>1. ShapeInvariant
  <2>1. stream \in Seq(Symbols) /\ Len(stream) \in Nat
    BY StreamsAssumption
  <2>2. saved \in Seq({})
    OBVIOUS
  <2> QED
    BY <2>1, <2>2, InitIs DEF ShapeInvariant
<1>2. DiskInvariant
  BY DEF DiskInvariant
<1>3. FragmentationIndependent
  BY DEF FragmentationIndependent
<1>4. RestoredWasSaved
  BY DEF RestoredWasSaved
<1> QED
  BY <1>1, <1>2, <1>3, <1>4 DEF RunnerInvariant

LEMMA StreamIs ==
  ASSUME ShapeInvariant
  PROVE  stream \in Seq(Symbols) /\ Len(stream) \in Nat
BY StreamsAssumption DEF ShapeInvariant

(* A run that starts, from nothing or from the file.                       *)
LEMMA StartKeeps ==
  ASSUME RunnerInvariant, NEW checkpoint_in \in BOOLEAN, start(checkpoint_in)
  PROVE  RunnerInvariant'
<1> USE DEF RunnerInvariant
<1>0. /\ pc = "idle" /\ position = 0 /\ pc' \in {"idle", "reading"}
      /\ UNCHANGED <<stream, position, disk, damaged, saved>>
  BY DEF start, ShapeInvariant
<1>1. DiskInvariant'
  BY <1>0 DEF DiskInvariant
<1>2. ASSUME NEW s, IsProc(s), s.p.buffer = <<>>, origin' = s, proc' = s, pc' = "reading"
      PROVE  ShapeInvariant' /\ FragmentationIndependent'
  <2>1. ShapeInvariant'
    BY <1>0, <1>2 DEF ShapeInvariant
  <2>2. s = ParseBuffer([s EXCEPT !.p.buffer = @ \o SubSeq(stream, 1, 0)])
    BY <1>2, NothingDelivered
  <2>3. FragmentationIndependent'
    BY <1>0, <1>2, <2>2 DEF FragmentationIndependent
  <2> QED
    BY <2>1, <2>3
<1>3. CASE origin' = es_init /\ proc' = es_init /\ pc' = "reading"
  <2>1. RestoredWasSaved'
    BY <1>3 DEF RestoredWasSaved
  <2> QED
    BY <1>1, <1>2, <1>3, <2>1, InitIs
<1>4. CASE /\ es_restore
           /\ proc' = emit([p |-> disk[1].content.p, out |-> <<>>,
                            history |-> disk[1].content.history], "recovery", 0, "PASS")
           /\ origin' = proc' /\ pc' = "reading"
  <2> DEFINE k == saved[Len(saved)]
  <2>1. saved # <<>> /\ IsContent(k) /\ disk = Sound(k)
    <3>1. disk # <<>> /\ disk[1].crc
      BY <1>4 DEF es_restore
    <3>2. ~\E j : disk = Broken(j)
      BY <3>1, FileIs
    <3> QED
      BY <3>1, <3>2 DEF DiskInvariant
  <2>2. disk[1].content = k
    BY <2>1, FileIs
  <2> HIDE DEF k
  <2> DEFINE s == emit([p |-> k.p, out |-> <<>>, history |-> k.history], "recovery", 0, "PASS")
  <2>3. IsProc(s) /\ s.p.buffer = <<>> /\ [p |-> s.p, history |-> s.history] = k
    BY <2>1, ContentIs
  <2>4. proc' = s /\ origin' = s
    BY <1>4, <2>2
  <2> HIDE DEF s
  <2>5. k \in {saved[j] : j \in 1..Len(saved)}
    <3>1. PICK C : saved \in Seq(C)
      BY DEF ShapeInvariant
    <3>2. Len(saved) \in 1..Len(saved)
      BY <2>1, <3>1
    <3> QED
      BY <3>2 DEF k
  <2>6. RestoredWasSaved'
    BY <1>0, <2>3, <2>4, <2>5 DEF RestoredWasSaved
  <2> QED
    BY <1>1, <1>2, <1>4, <2>3, <2>4, <2>6
<1>5. CASE UNCHANGED <<origin, proc, pc>>
  <2>1. ShapeInvariant'
    BY <1>0, <1>5 DEF ShapeInvariant
  <2>2. FragmentationIndependent'
    BY <1>0, <1>5 DEF FragmentationIndependent
  <2>3. RestoredWasSaved'
    BY <1>0, <1>5 DEF RestoredWasSaved
  <2> QED
    BY <1>1, <2>1, <2>2, <2>3
<1> QED
  BY <1>3, <1>4, <1>5 DEF start

(* A delivery joins the ones before it.                                    *)
LEMMA DeliverKeeps ==
  ASSUME RunnerInvariant, NEW n \in 1..(ES_MAX_BUFFER \div 2), deliver(n)
  PROVE  RunnerInvariant'
<1> USE DEF RunnerInvariant
<1>0. /\ pc = "reading" /\ position + n <= Len(stream) /\ position' = position + n
      /\ UNCHANGED <<stream, pc, runs, origin, disk, damaged, saved>>
      /\ proc' = es_process_bytes(proc, SubSeq(stream, position + 1, position + n))
  BY DEF deliver
<1>1. /\ stream \in Seq(Symbols) /\ Len(stream) \in Nat /\ position \in 0..Len(stream)
      /\ IsProc(origin) /\ origin.p.buffer = <<>>
  BY StreamIs DEF ShapeInvariant
<1>2. n \in Nat /\ n <= ES_MAX_BUFFER \div 2 /\ position + n \in 0..Len(stream)
  <2>1. ES_MAX_BUFFER \div 2 \in Int
    BY SizesAssumption
  <2> QED
    BY <1>0, <1>1, <2>1
<1> DEFINE b == SubSeq(stream, 1, position)
           d == SubSeq(stream, position + 1, position + n)
<1>3. b \in Seq(Symbols)
  <2>1. \A i \in 1..position : stream[i] \in Symbols
    BY <1>1
  <2> QED
    BY <1>1, <2>1, SubSeqProperties
<1>4. d \in Seq(Symbols) /\ Len(d) = n
  <2> DEFINE lo == position + 1
             hi == position + n
  <2>1. \A i \in lo..hi : stream[i] \in Symbols
    BY <1>1, <1>2
  <2>2. lo \in Int /\ hi \in Int /\ (IF lo <= hi THEN hi - lo + 1 ELSE 0) = n
    BY <1>1, <1>2
  <2> HIDE DEF lo, hi
  <2>3. /\ SubSeq(stream, lo, hi) \in Seq(Symbols)
        /\ Len(SubSeq(stream, lo, hi)) = IF lo <= hi THEN hi - lo + 1 ELSE 0
    BY <2>1, <2>2, SubSeqProperties
  <2> QED
    BY <2>2, <2>3 DEF lo, hi
<1>5. SubSeq(stream, 1, position + n) = b \o d
  <2>1. 1 \in 1..(Len(stream) + 1) /\ position \in (1 - 1)..Len(stream)
    BY <1>1
  <2>2. position + n \in position..Len(stream)
    BY <1>1, <1>2
  <2> QED
    BY <1>1, <2>1, <2>2, ConcatAdjacentSubSeq
<1> HIDE DEF b, d
<1>6. ASSUME NEW c \in Seq(Symbols)
      PROVE  [origin EXCEPT !.p.buffer = @ \o c] = With(origin, c)
  <2>1. <<>> \o c = c
    BY ConcatEmptySeq
  <2>2. [origin EXCEPT !.p.buffer = c] = With(origin, c)
    BY <1>1, WithIs
  <2> QED
    BY <1>1, <2>1, <2>2
<1>7. proc = ParseBuffer(With(origin, b))
  BY <1>0, <1>3, <1>6 DEF FragmentationIndependent, b
<1>8. proc' = ParseBuffer(With(origin, b \o d)) /\ IsProc(proc')
  <2>1. Len(d) <= ES_MAX_BUFFER \div 2
    BY <1>2, <1>4
  <2>2. proc' = es_process_bytes(ParseBuffer(With(origin, b)), d)
    BY <1>0, <1>7 DEF d
  <2>3. /\ es_process_bytes(ParseBuffer(With(origin, b)), d) = ParseBuffer(With(origin, b \o d))
        /\ IsProc(ParseBuffer(With(origin, b \o d)))
    BY <1>1, <1>3, <1>4, <2>1, DeliveryJoins
  <2> QED
    BY <2>2, <2>3
<1>9. FragmentationIndependent'
  <2>1. b \o d \in Seq(Symbols)
    BY <1>3, <1>4, ConcatProperties
  <2>2. [origin EXCEPT !.p.buffer = @ \o (b \o d)] = With(origin, b \o d)
    BY <1>6, <2>1
  <2>3. proc' = ParseBuffer([origin' EXCEPT !.p.buffer = @ \o SubSeq(stream', 1, position')])
    BY <1>0, <1>5, <1>8, <2>2
  <2> QED
    BY <2>3 DEF FragmentationIndependent
<1>10. ShapeInvariant'
  BY <1>0, <1>1, <1>2, <1>8 DEF ShapeInvariant
<1>11. DiskInvariant' /\ RestoredWasSaved'
  BY <1>0 DEF DiskInvariant, RestoredWasSaved
<1> QED
  BY <1>9, <1>10, <1>11

(* es_finish leaves the parser buffer empty.                               *)
LEMMA FinishKeeps ==
  ASSUME RunnerInvariant, finish
  PROVE  RunnerInvariant'
<1> USE DEF RunnerInvariant
<1>0. /\ pc' = "finished" /\ proc' = es_finish(proc)
      /\ UNCHANGED <<stream, position, runs, origin, disk, damaged, saved>>
  BY DEF finish
<1>1. IsProc(es_finish(proc)) /\ es_finish(proc).p.buffer = <<>>
  <2>0. IsProc(proc)
    BY DEF ShapeInvariant
  <2>1. CASE proc.p.buffer = <<>>
    BY <2>0, <2>1 DEF es_finish
  <2>2. CASE proc.p.buffer # <<>>
    <3> DEFINE s == emit_reject(proc, "truncated")
    <3>1. es_finish(proc) = [s EXCEPT !.p.buffer = <<>>]
      BY <2>2 DEF es_finish
    <3>2. IsProc(s)
      BY <2>0, RejectBlind
    <3> HIDE DEF s
    <3>3. [s EXCEPT !.p.buffer = <<>>] = With(s, <<>>)
      BY <3>2, WithIs
    <3>4. IsProc(With(s, <<>>)) /\ With(s, <<>>).p.buffer = <<>>
      BY <3>2, WithIs
    <3> QED
      BY <3>1, <3>3, <3>4
  <2> QED
    BY <2>1, <2>2
<1>2. ShapeInvariant'
  BY <1>0, <1>1 DEF ShapeInvariant
<1>3. FragmentationIndependent' /\ DiskInvariant' /\ RestoredWasSaved'
  BY <1>0 DEF FragmentationIndependent, DiskInvariant, RestoredWasSaved
<1> QED
  BY <1>2, <1>3

(* The steps of es_checkpoint up to the rename, and its failures.          *)
LEMMA CheckpointKeeps ==
  ASSUME RunnerInvariant, es_checkpoint \/ es_checkpoint_fails
  PROVE  RunnerInvariant'
<1> USE DEF RunnerInvariant
<1>0. /\ pc = "finished" /\ pc' \in {"renaming", "exiting"}
      /\ UNCHANGED <<stream, position, runs, origin, disk, damaged, saved>>
      /\ proc' = proc \/ proc' = emit(proc, "checkpoint", 0, "FAIL")
  BY DEF es_checkpoint, es_checkpoint_fails
<1>1. IsProc(proc') /\ proc'.p.buffer = <<>>
  <2>1. IsProc(proc) /\ proc.p.buffer = <<>>
    BY <1>0 DEF ShapeInvariant
  <2> QED
    BY <1>0, <2>1, EmitBlind DEF emit
<1>2. ShapeInvariant'
  BY <1>0, <1>1 DEF ShapeInvariant
<1>3. FragmentationIndependent' /\ DiskInvariant' /\ RestoredWasSaved'
  BY <1>0 DEF FragmentationIndependent, DiskInvariant, RestoredWasSaved
<1> QED
  BY <1>2, <1>3

(* Saving once more keeps what was saved before.                           *)
LEMMA SavedGrows ==
  ASSUME NEW C, NEW q \in Seq(C), NEW k
  PROVE  /\ Append(q, k) \in Seq(C \cup {k}) /\ Append(q, k) # <<>>
         /\ Append(q, k)[Len(Append(q, k))] = k
         /\ {q[j] : j \in 1..Len(q)} \subseteq
              {Append(q, k)[j] : j \in 1..Len(Append(q, k))}
<1> DEFINE D == C \cup {k}
           a == Append(q, k)
<1>0. q \in Seq(D) /\ k \in D /\ Len(q) \in Nat
  BY SeqMonotonic
<1>1. /\ a \in Seq(D) /\ a # <<>> /\ Len(a) = Len(q) + 1
      /\ \A i \in 1..Len(q) : a[i] = q[i]
      /\ a[Len(q) + 1] = k
  <2> HIDE DEF D
  <2> QED
    BY <1>0, AppendProperties
<1> HIDE DEF a
<1>2. ASSUME NEW j \in 1..Len(q)
      PROVE  q[j] \in {a[i] : i \in 1..Len(a)}
  BY <1>0, <1>1
<1>3. a[Len(a)] = k
  BY <1>1
<1> QED
  BY <1>1, <1>2, <1>3 DEF a

LEMMA RenameKeeps ==
  ASSUME RunnerInvariant, rename
  PROVE  RunnerInvariant'
<1> USE DEF RunnerInvariant
<1>0. /\ pc = "renaming" /\ pc' \in {"renamed", "exiting"}
      /\ UNCHANGED <<stream, position, runs, origin>>
  BY DEF rename
<1>1. IsProc(proc) /\ proc.p.buffer = <<>>
  BY <1>0 DEF ShapeInvariant
<1>2. FragmentationIndependent'
  BY <1>0 DEF FragmentationIndependent
<1>4. CASE /\ disk' = <<[crc |-> TRUE, content |-> Content]>>
           /\ damaged' = FALSE /\ saved' = Append(saved, Content)
           /\ pc' = "renamed" /\ UNCHANGED proc
  <2> DEFINE k == [p |-> proc.p, history |-> proc.history]
  <2>1. IsContent(k)
    BY <1>1, ContentOf
  <2>2. disk' = Sound(k) /\ saved' = Append(saved, k)
    BY <1>4 DEF Content, Sound, File
  <2> HIDE DEF k
  <2>3. PICK C : saved \in Seq(C)
    BY DEF ShapeInvariant
  <2>4. /\ saved' \in Seq(C \cup {k}) /\ saved' # <<>> /\ saved'[Len(saved')] = k
        /\ {saved[j] : j \in 1..Len(saved)} \subseteq {saved'[j] : j \in 1..Len(saved')}
    BY <2>2, <2>3, SavedGrows
  <2>5. DiskInvariant'
    BY <1>4, <2>1, <2>2, <2>4 DEF DiskInvariant, Content, k
  <2>6. RestoredWasSaved'
    BY <1>0, <2>4 DEF RestoredWasSaved
  <2>7. ShapeInvariant'
    BY <1>0, <1>1, <1>4, <2>4 DEF ShapeInvariant
  <2> QED
    BY <1>2, <2>5, <2>6, <2>7
<1>5. CASE /\ proc' = emit(proc, "checkpoint", 0, "FAIL") /\ pc' = "exiting"
           /\ UNCHANGED <<disk, damaged, saved>>
  <2>0. IsProc(proc') /\ proc'.p.buffer = <<>>
    BY <1>1, <1>5, EmitBlind DEF emit
  <2>1. ShapeInvariant'
    BY <1>0, <2>0, <1>5 DEF ShapeInvariant
  <2>2. DiskInvariant' /\ RestoredWasSaved'
    BY <1>0, <1>5 DEF DiskInvariant, RestoredWasSaved
  <2> QED
    BY <1>2, <2>1, <2>2
<1> QED
  BY <1>4, <1>5 DEF rename

(* A record does not touch what is checkpointed.                           *)
LEMMA ReportKeeps ==
  ASSUME RunnerInvariant, report
  PROVE  RunnerInvariant'
<1> USE DEF RunnerInvariant
<1>0. /\ pc = "renamed" /\ pc' = "reported"
      /\ proc' = emit_with(proc, "checkpoint", 0, "PASS", <<>>)
      /\ UNCHANGED <<stream, position, runs, origin, disk, damaged, saved>>
  BY DEF report, emit
<1>1. IsProc(proc) /\ proc.p.buffer = <<>>
  BY <1>0 DEF ShapeInvariant
<1>2. IsProc(proc') /\ proc'.p.buffer = <<>>
  BY <1>0, <1>1, EmitBlind
<1>3. ShapeInvariant'
  BY <1>0, <1>2 DEF ShapeInvariant
<1>4. Content' = Content
  <2>1. PICK b, dv, a, r, o, h : proc = Mk(b, dv, a, r, o, h)
    BY <1>1 DEF IsProc
  <2> QED
    BY <1>0, <2>1 DEF emit_with, Mk, Content
<1>5. FragmentationIndependent' /\ DiskInvariant' /\ RestoredWasSaved'
  BY <1>0, <1>4 DEF FragmentationIndependent, DiskInvariant, RestoredWasSaved
<1> QED
  BY <1>3, <1>5

(* The program ends, wherever it is; the file stays.                       *)
LEMMA StopKeeps ==
  ASSUME RunnerInvariant, stop
  PROVE  RunnerInvariant'
<1> USE DEF RunnerInvariant
<1>0. /\ pc' = "idle" /\ position' = 0 /\ origin' = es_init /\ proc' = es_init
      /\ UNCHANGED <<stream, runs, disk, damaged, saved>>
  BY DEF stop
<1>1. ShapeInvariant'
  BY <1>0, StreamIs, InitIs DEF ShapeInvariant
<1>2. FragmentationIndependent' /\ DiskInvariant' /\ RestoredWasSaved'
  BY <1>0 DEF FragmentationIndependent, DiskInvariant, RestoredWasSaved
<1> QED
  BY <1>1, <1>2

LEMMA CorruptKeeps ==
  ASSUME RunnerInvariant, corrupt
  PROVE  RunnerInvariant'
<1> USE DEF RunnerInvariant
<1> DEFINE k == [disk[1].content EXCEPT !.p.accepted = @ + 1]
<1>0. /\ pc = "idle" /\ disk' = <<[crc |-> FALSE, content |-> k]>> /\ damaged' = TRUE
      /\ UNCHANGED <<stream, position, pc, runs, origin, proc, saved>>
  BY DEF corrupt
<1> HIDE DEF k
<1>1. disk' = Broken(k)
  BY <1>0 DEF Broken, File
<1>2. DiskInvariant'
  BY <1>0, <1>1 DEF DiskInvariant
<1>3. ShapeInvariant' /\ FragmentationIndependent' /\ RestoredWasSaved'
  BY <1>0 DEF ShapeInvariant, FragmentationIndependent, RestoredWasSaved
<1> QED
  BY <1>2, <1>3

(* The invariant of the runner holds of every behaviour: every delivery of *)
(* es_process_bytes, every checkpoint and every recovery keeps it.         *)
THEOREM RunnerInvariance == Spec => []RunnerInvariant
<1>1. Init => RunnerInvariant
  BY RunnerInit
<1>2. RunnerInvariant /\ [Next]_vars => RunnerInvariant'
  <2> SUFFICES ASSUME RunnerInvariant, [Next]_vars PROVE RunnerInvariant'
    OBVIOUS
  <2>1. ASSUME NEW checkpoint_in \in BOOLEAN, start(checkpoint_in) PROVE RunnerInvariant'
    BY <2>1, StartKeeps
  <2>2. ASSUME NEW n \in 1..(ES_MAX_BUFFER \div 2), deliver(n) PROVE RunnerInvariant'
    BY <2>2, DeliverKeeps
  <2>3. CASE finish
    BY <2>3, FinishKeeps
  <2>4. CASE es_checkpoint_fails \/ es_checkpoint
    BY <2>4, CheckpointKeeps
  <2>5. CASE rename
    BY <2>5, RenameKeeps
  <2>9. CASE report
    BY <2>9, ReportKeeps
  <2>6. CASE stop
    BY <2>6, StopKeeps
  <2>7. CASE corrupt
    BY <2>7, CorruptKeeps
  <2>8. CASE UNCHANGED vars
    BY <2>8 DEF vars, RunnerInvariant, ShapeInvariant, DiskInvariant, FragmentationIndependent,
                RestoredWasSaved, Content
  <2> QED
    BY <2>1, <2>2, <2>3, <2>4, <2>5, <2>6, <2>7, <2>8, <2>9 DEF Next
<1> QED
  BY <1>1, <1>2, PTL DEF Spec

(* FragmentationIndependent for every stream and every way to cut it: what *)
(* es_process_bytes holds and has reported after any deliveries is what it *)
(* would after one, and none is refused for lack of room in the parser     *)
(* buffer.                                                                 *)
THEOREM FragmentationTheorem == Spec => []FragmentationIndependent
<1>1. RunnerInvariant => FragmentationIndependent
  BY DEF RunnerInvariant
<1> QED
  BY <1>1, RunnerInvariance, PTL

(* CheckpointKept: whichever step of es_checkpoint fails, wherever the     *)
(* program is killed, the file is the last checkpoint renamed into place,  *)
(* unless its bytes were changed, and a PASS is about what is on disk.     *)
THEOREM CheckpointTheorem == Spec => []CheckpointKept
<1>1. RunnerInvariant => CheckpointKept
  BY DEF RunnerInvariant, DiskInvariant, CheckpointKept, Sound, File
<1> QED
  BY <1>1, RunnerInvariance, PTL

(* RestoredWasSaved: es_restore never accepts what was not saved.          *)
THEOREM RestoredTheorem == Spec => []RestoredWasSaved
<1>1. RunnerInvariant => RestoredWasSaved
  BY DEF RunnerInvariant
<1> QED
  BY <1>1, RunnerInvariance, PTL

-----------------------------------------------------------------------------
(* Sums: the loop over the ring and the sums over a history are the only   *)
(* functions with their recurrence.                                        *)
Adds(n, c, R) ==
  /\ R \in [0..n -> Int] /\ R[0] = 0
  /\ \A i \in 1..n : R[i] = R[i - 1] + c[i]

LEMMA AddsExist ==
  ASSUME NEW n \in Nat, NEW c \in [1..n -> Int]
  PROVE  \E R : Adds(n, c, R)
<1> DEFINE Ok(j) == \E R : Adds(j, c, R)
           T == {j \in Nat : j <= n /\ ~Ok(j)}
<1> SUFFICES ASSUME T # {} PROVE FALSE
  <2> HIDE DEF Ok
  <2>1. n \in Nat /\ n <= n
    OBVIOUS
  <2>2. T = {} => Ok(n)
    BY <2>1
  <2> QED
    BY <2>2 DEF Ok
<1>0. T \subseteq Nat
  OBVIOUS
<1>1. PICK j \in T : \A l \in T : ~(l < j)
  BY <1>0, LeastNatural, Zenon
<1>2. CASE j = 0
  <2>1. Adds(0, c, [i \in 0..0 |-> 0])
    BY DEF Adds
  <2> QED
    BY <1>1, <1>2, <2>1
<1>3. CASE j # 0
  <2>1. j \in 1..n /\ j - 1 \in Nat /\ j - 1 <= n /\ j - 1 < j
    BY <1>1, <1>3
  <2>2. PICK R : Adds(j - 1, c, R)
    BY <1>1, <2>1
  <2> DEFINE Q == [i \in 0..j |-> IF i = j THEN R[j - 1] + c[j] ELSE R[i]]
  <2>3. R \in [0..(j - 1) -> Int] /\ R[0] = 0 /\ \A i \in 1..(j - 1) : R[i] = R[i - 1] + c[i]
    BY <2>2 DEF Adds
  <2>4. R[j - 1] \in Int /\ c[j] \in Int
    BY <2>1, <2>3
  <2>5. \A i \in 0..j : Q[i] \in Int
    BY <2>1, <2>3, <2>4
  <2>6. \A i \in 1..j : Q[i] = Q[i - 1] + c[i]
    BY <2>1, <2>3
  <2>7. Q[0] = 0
    BY <2>1, <2>3
  <2>8. Q \in [0..j -> Int]
    BY <2>5
  <2> HIDE DEF Q
  <2>9. Adds(j, c, Q)
    BY <2>6, <2>7, <2>8 DEF Adds
  <2> QED
    BY <1>1, <2>9
<1> QED
  BY <1>2, <1>3

LEMMA AddsUnique ==
  ASSUME NEW n \in Nat, NEW c, NEW R, Adds(n, c, R), NEW Q, Q[0] = 0,
         \A i \in 1..n : Q[i] = Q[i - 1] + c[i], NEW k \in 0..n
  PROVE  Q[k] = R[k]
<1> DEFINE T == {j \in 0..n : Q[j] # R[j]}
<1> SUFFICES ASSUME T # {} PROVE FALSE
  OBVIOUS
<1>0. T \subseteq Nat
  OBVIOUS
<1>1. PICK j \in T : \A l \in T : ~(l < j)
  BY <1>0, LeastNatural, Zenon
<1>2. j # 0
  BY <1>1 DEF Adds
<1>3. j \in 1..n /\ j - 1 \in 0..n /\ j - 1 < j
  BY <1>1, <1>2
<1>4. Q[j - 1] = R[j - 1]
  BY <1>1, <1>3
<1>5. R[j] = R[j - 1] + c[j]
  BY <1>3 DEF Adds
<1> QED
  BY <1>1, <1>3, <1>4, <1>5

-----------------------------------------------------------------------------
(* Windows.                                                                *)
W == ES_WINDOW_SAMPLES

MkM(v, n, x, a) == [values |-> v, count |-> n, next |-> x, high_alarm |-> a]

LEMMA MkMIs ==
  ASSUME NEW v, NEW n, NEW x, NEW a
  PROVE  /\ MkM(v, n, x, a).values = v /\ MkM(v, n, x, a).count = n
         /\ MkM(v, n, x, a).next = x /\ MkM(v, n, x, a).high_alarm = a
         /\ \A b : [MkM(v, n, x, a) EXCEPT !.high_alarm = b] = MkM(v, n, x, b)
BY DEF MkM

LEMMA Int32Is ==
  ASSUME NEW v \in Int PROVE Int32(v) \in Int
BY SizesAssumption DEF Int32

(* What the loop of accept_frame adds at each index of the ring.           *)
Share(v, n) == [i \in 1..W |-> IF i <= n THEN v[i - 1] ELSE 0]

LEMMA ShareIs ==
  ASSUME NEW v \in [Ring -> Int], NEW n \in 0..W
  PROVE  Share(v, n) \in [1..W -> Int]
<1>1. \A i \in 1..W : i - 1 \in Ring
  BY SizesAssumption DEF Ring, W
<1> QED
  BY <1>1 DEF Share

RingSums(m, R) ==
  R = [i \in 0..ES_WINDOW_SAMPLES |->
         IF i = 0 THEN 0 ELSE R[i - 1] + (IF i <= m.count THEN m.values[i - 1] ELSE 0)]

LEMMA AverageIs ==
  ASSUME NEW v \in [Ring -> Int], NEW n \in 0..W, NEW x, NEW a,
         NEW R, Adds(W, Share(v, n), R)
  PROVE  Average(MkM(v, n, x, a)) = Quotient(R[W], n)
<1> DEFINE m == MkM(v, n, x, a)
           c == Share(v, n)
           Q == CHOOSE S : RingSums(m, S)
<1>0. m.values = v /\ m.count = n /\ W \in Nat
  BY MkMIs, SizesAssumption DEF W
<1>1. \A i \in 1..W : c[i] = IF i <= m.count THEN m.values[i - 1] ELSE 0
  BY <1>0 DEF Share
<1>2. Average(m) = Quotient(Q[W], m.count)
  BY DEF Average, RingSums, W
<1> HIDE DEF m
<1>3. RingSums(m, R)
  <2>1. R = [i \in 0..W |-> R[i]]
    BY DEF Adds
  <2>2. ASSUME NEW i \in 0..W
        PROVE  R[i] = IF i = 0 THEN 0 ELSE R[i - 1] + (IF i <= m.count THEN m.values[i - 1] ELSE 0)
    <3>1. CASE i = 0
      BY <3>1 DEF Adds
    <3>2. CASE i # 0
      <4>1. i \in 1..W
        BY <1>0, <3>2
      <4> HIDE DEF c
      <4> QED
        BY <1>1, <3>2, <4>1 DEF Adds, c
    <3> QED
      BY <3>1, <3>2
  <2> QED
    BY <2>1, <2>2 DEF RingSums, W
<1>4. RingSums(m, Q)
  BY <1>3, Zenon
<1>5. Q[0] = 0 /\ \A i \in 1..W : Q[i] = Q[i - 1] + c[i]
  <2>1. \A i \in 0..W : Q[i] = IF i = 0 THEN 0
                               ELSE Q[i - 1] + (IF i <= m.count THEN m.values[i - 1] ELSE 0)
    <3> HIDE DEF Q
    <3> QED
      BY <1>4 DEF RingSums, W
  <2> HIDE DEF Q, c
  <2> QED
    BY <1>0, <1>1, <2>1
<1>6. W \in 0..W
  BY <1>0
<1>7. Q[W] = R[W]
  <2> HIDE DEF Q, c
  <2> QED
    BY <1>0, <1>5, <1>6, AddsUnique DEF c
<1> QED
  BY <1>0, <1>2, <1>7 DEF m

(* The values of a history as they are retained, and its prefix sums.      *)
Stored(h) == [i \in 1..Len(h) |-> Int32(h[i])]

From(k) == IF k <= ES_WINDOW_SAMPLES THEN 1 ELSE k - ES_WINDOW_SAMPLES + 1

HistorySums(h, k, S) ==
  S = [i \in (From(k) - 1)..k |-> IF i < From(k) THEN 0 ELSE S[i - 1] + Stored(h)[i]]

(* The average of what is retained after the k-th value.                   *)
StoredAfter(h, k) == AverageAfter(Stored(h), k)

LEMMA StoredIs ==
  ASSUME NEW h \in Seq(Int) PROVE Stored(h) \in [1..Len(h) -> Int]
<1>1. \A i \in 1..Len(h) : Int32(h[i]) \in Int
  BY Int32Is
<1> QED
  BY <1>1 DEF Stored

LEMMA FromIs ==
  ASSUME NEW k \in Nat, k >= 1
  PROVE  /\ From(k) \in 1..k /\ From(k) - 1 \in 0..(k - 1) /\ k - From(k) + 1 \in 1..W
         /\ k <= W => From(k) = 1
         /\ k > W => From(k) = k - W + 1
         /\ k - From(k) + 1 = IF k < W THEN k ELSE W
BY SizesAssumption DEF From, W

LEMMA AverageAfterIs ==
  ASSUME NEW h \in Seq(Int), NEW k \in 1..Len(h), NEW P, Adds(Len(h), Stored(h), P)
  PROVE  StoredAfter(h, k) = Quotient(P[k] - P[From(k) - 1], k - From(k) + 1)
<1> DEFINE S == CHOOSE S : HistorySums(h, k, S)
           f == From(k)
           Q == [i \in (f - 1)..k |-> P[i] - P[f - 1]]
<1>0. Len(h) \in Nat /\ k \in Nat /\ k <= Len(h) /\ f \in 1..k /\ f - 1 \in 0..(k - 1)
  BY FromIs
<1>1. StoredAfter(h, k) = Quotient(S[k], k - f + 1)
  BY DEF StoredAfter, AverageAfter, HistorySums, From
<1>2. /\ P \in [0..Len(h) -> Int]
      /\ \A i \in 1..Len(h) : P[i] = P[i - 1] + Stored(h)[i]
  BY DEF Adds
<1> HIDE DEF f
<1>3. HistorySums(h, k, Q)
  <2>1. ASSUME NEW i \in (f - 1)..k
        PROVE  Q[i] = IF i < f THEN 0 ELSE Q[i - 1] + Stored(h)[i]
    <3>0. i \in 0..Len(h) /\ f - 1 \in 0..Len(h) /\ P[i] \in Int /\ P[f - 1] \in Int
      <4>1. i \in 0..Len(h) /\ f - 1 \in 0..Len(h)
        BY <1>0
      <4> QED
        BY <1>2, <4>1
    <3>1. CASE i < f
      <4>1. i = f - 1
        BY <1>0, <3>1
      <4> QED
        BY <3>0, <3>1, <4>1
    <3>2. CASE ~(i < f)
      <4>1. i - 1 \in (f - 1)..k /\ i \in 1..Len(h) /\ i - 1 \in 0..Len(h)
        BY <1>0, <3>0, <3>2
      <4>2. P[i] = P[i - 1] + Stored(h)[i] /\ P[i - 1] \in Int /\ Stored(h)[i] \in Int
        BY <1>2, <4>1, StoredIs
      <4>3. Q[i] = P[i] - P[f - 1] /\ Q[i - 1] = P[i - 1] - P[f - 1]
        BY <4>1
      <4> QED
        BY <3>0, <3>2, <4>2, <4>3
    <3> QED
      BY <3>1, <3>2
  <2>2. Q = [i \in (f - 1)..k |-> Q[i]]
    OBVIOUS
  <2> HIDE DEF Q
  <2> QED
    BY <2>1, <2>2 DEF HistorySums, f
<1>4. HistorySums(h, k, S)
  BY <1>3, Zenon
<1>5. S[k] = Q[k]
  <2> HIDE DEF S, Q
  <2>1. /\ \A i \in (f - 1)..k : S[i] = IF i < f THEN 0 ELSE S[i - 1] + Stored(h)[i]
        /\ \A i \in (f - 1)..k : Q[i] = IF i < f THEN 0 ELSE Q[i - 1] + Stored(h)[i]
    BY <1>3, <1>4 DEF HistorySums, f
  <2> DEFINE T == {i \in (f - 1)..k : S[i] # Q[i]}
  <2> SUFFICES ASSUME T # {} PROVE FALSE
    BY <1>0
  <2>2. T \subseteq Nat
    BY <1>0
  <2>3. PICK i \in T : \A l \in T : ~(l < i)
    BY <2>2, LeastNatural, Zenon
  <2>4. i \in (f - 1)..k /\ ~(i < f)
    BY <2>1, <2>3
  <2>5. i - 1 \in (f - 1)..k /\ i - 1 < i
    BY <1>0, <2>4
  <2>6. S[i - 1] = Q[i - 1]
    BY <2>3, <2>5
  <2> QED
    BY <2>1, <2>3, <2>4, <2>6
<1>6. Q[k] = P[k] - P[f - 1]
  BY <1>0
<1> QED
  BY <1>1, <1>5, <1>6 DEF f

-----------------------------------------------------------------------------
(* The ring, one value at a time.                                          *)
Back(x, k) == IF k <= x THEN x - k ELSE x - k + W
Ahead(x) == IF x + 1 = W THEN 0 ELSE x + 1
More(n) == IF n < W THEN n + 1 ELSE n

LEMMA WindowSize == W \in Nat /\ W >= 1 /\ W = ES_WINDOW_SAMPLES /\ Ring = 0..(W - 1)
BY SizesAssumption DEF W, Ring

LEMMA RingSteps ==
  ASSUME NEW x \in Ring
  PROVE  /\ (x + 1) % ES_WINDOW_SAMPLES = Ahead(x) /\ Ahead(x) \in Ring
         /\ \A k \in 1..W : (x - k) % ES_WINDOW_SAMPLES = Back(x, k) /\ Back(x, k) \in Ring
         /\ Back(Ahead(x), 1) = x
         /\ \A k \in 2..W : Back(Ahead(x), k) = Back(x, k - 1) /\ Back(x, k - 1) # x
<1>0. W \in Nat /\ W >= 1 /\ x \in Int /\ 0 <= x /\ x <= W - 1
  BY WindowSize
<1>1. (x + 1) % W = Ahead(x)
  <2>1. CASE x + 1 = W
    BY <1>0, <2>1 DEF Ahead
  <2>2. CASE x + 1 # W
    <3>1. x + 1 \in 0..(W - 1)
      BY <1>0, <2>2
    <3>2. \A y \in 0..(W - 1) : y % W = y
      BY <1>0
    <3> QED
      BY <2>2, <3>1, <3>2 DEF Ahead
  <2> QED
    BY <2>1, <2>2
<1>2. ASSUME NEW k \in 1..W
      PROVE  (x - k) % W = Back(x, k)
  <2>1. CASE k <= x
    <3>1. x - k \in 0..(W - 1)
      BY <1>0, <2>1
    <3>2. \A y \in 0..(W - 1) : y % W = y
      BY <1>0
    <3> QED
      BY <2>1, <3>1, <3>2 DEF Back
  <2>2. CASE ~(k <= x)
    <3>1. x - k \in (-W)..(-1)
      BY <1>0, <2>2
    <3>2. \A y \in (-W)..(-1) : y % W = y + W
      BY <1>0
    <3> QED
      BY <2>2, <3>1, <3>2 DEF Back
  <2> QED
    BY <2>1, <2>2
<1>3. \A k \in 1..W : Back(x, k) \in 0..(W - 1)
  BY <1>0 DEF Back
<1>4. Ahead(x) \in 0..(W - 1) /\ Back(Ahead(x), 1) = x
  BY <1>0 DEF Ahead, Back
<1>5. \A k \in 2..W : Back(Ahead(x), k) = Back(x, k - 1) /\ Back(x, k - 1) # x
  BY <1>0 DEF Ahead, Back
<1> QED
  BY <1>1, <1>2, <1>3, <1>4, <1>5, WindowSize

LEMMA PushIs ==
  ASSUME NEW v, NEW n, NEW x \in Ring, NEW a, NEW y
  PROVE  Push(MkM(v, n, x, a), y) = MkM([v EXCEPT ![x] = y], More(n), Ahead(x), a)
<1> DEFINE m == MkM(v, n, x, a)
<1>1. m.count = n /\ m.next = x
  BY MkMIs
<1>2. (x + 1) % ES_WINDOW_SAMPLES = Ahead(x)
  BY RingSteps
<1>3. Push(m, y) = [m EXCEPT !.values[x] = y, !.next = Ahead(x), !.count = More(n)]
  <2> HIDE DEF m
  <2> QED
    BY <1>1, <1>2, WindowSize DEF Push, More
<1> HIDE DEF m
<1>4. [m EXCEPT !.values[x] = y, !.next = Ahead(x), !.count = More(n)]
        = MkM([v EXCEPT ![x] = y], More(n), Ahead(x), a)
  <2>1. ASSUME NEW e, NEW k
        PROVE  [m EXCEPT !.values[x] = y, !.next = e, !.count = k]
                 = MkM([v EXCEPT ![x] = y], k, e, a)
    <3> DEFINE z == [v EXCEPT ![x] = y]
    <3>1. [m EXCEPT !.values[x] = y] = MkM(z, n, x, a)
      BY DEF m, MkM
    <3> HIDE DEF z
    <3>2. [MkM(z, n, x, a) EXCEPT !.next = e] = MkM(z, n, e, a)
      BY DEF MkM
    <3>3. [MkM(z, n, e, a) EXCEPT !.count = k] = MkM(z, k, e, a)
      BY DEF MkM
    <3>4. [m EXCEPT !.values[x] = y, !.next = e, !.count = k]
            = [[[m EXCEPT !.values[x] = y] EXCEPT !.next = e] EXCEPT !.count = k]
      BY DEF m, MkM
    <3> QED
      BY <3>1, <3>2, <3>3, <3>4 DEF z
  <2> QED
    BY <2>1, Zenon
<1> QED
  BY <1>3, <1>4 DEF m

(* The ring v of n values with the next at x holds the end of h.           *)
Holds(v, n, x, h) ==
  /\ v \in [Ring -> Int] /\ n \in 0..W /\ x \in Ring /\ h \in Seq(Int)
  /\ n = IF Len(h) < W THEN Len(h) ELSE W
  /\ Len(h) < W => x = Len(h)
  /\ \A k \in 1..n : v[Back(x, k)] = Int32(h[Len(h) - k + 1])

LEMMA LongerIs ==
  ASSUME NEW h \in Seq(Int), NEW y \in Int
  PROVE  /\ Append(h, y) \in Seq(Int) /\ Len(h) \in Nat /\ Len(Append(h, y)) = Len(h) + 1
         /\ \A i \in 1..Len(h) : Append(h, y)[i] = h[i]
         /\ Append(h, y)[Len(h) + 1] = y
BY AppendProperties

LEMMA HoldsPush ==
  ASSUME NEW v, NEW n, NEW x, NEW h, Holds(v, n, x, h), NEW y \in Int
  PROVE  Holds([v EXCEPT ![x] = Int32(y)], More(n), Ahead(x), Append(h, y))
<1> DEFINE g == Append(h, y)
           u == [v EXCEPT ![x] = Int32(y)]
<1>0. /\ v \in [Ring -> Int] /\ n \in 0..W /\ x \in Ring /\ h \in Seq(Int)
      /\ n = IF Len(h) < W THEN Len(h) ELSE W
      /\ Len(h) < W => x = Len(h)
      /\ \A k \in 1..n : v[Back(x, k)] = Int32(h[Len(h) - k + 1])
  BY DEF Holds
<1>1. /\ g \in Seq(Int) /\ Len(h) \in Nat /\ Len(g) = Len(h) + 1
      /\ \A i \in 1..Len(h) : g[i] = h[i]
      /\ g[Len(h) + 1] = y
  BY <1>0, LongerIs
<1>2. /\ u \in [Ring -> Int] /\ u[x] = Int32(y)
      /\ \A i \in Ring : i # x => u[i] = v[i]
  BY <1>0, Int32Is
<1> HIDE DEF g, u
<1> DEFINE l == Len(h)
<1>3. W \in Nat /\ W >= 1 /\ Ring = 0..(W - 1)
  BY WindowSize
<1>4. More(n) \in 0..W /\ More(n) = IF Len(g) < W THEN Len(g) ELSE W
  BY <1>0, <1>1, <1>3 DEF More
<1>5. Len(g) < W => Ahead(x) = Len(g)
  BY <1>0, <1>1, <1>3 DEF Ahead
<1>6. ASSUME NEW k \in 1..More(n)
      PROVE  u[Back(Ahead(x), k)] = Int32(g[Len(g) - k + 1])
  <2>1. CASE k = 1
    <3>1. Back(Ahead(x), 1) = x
      BY <1>0, RingSteps
    <3>2. Len(g) - 1 + 1 = l + 1
      BY <1>1
    <3> QED
      BY <1>1, <1>2, <2>1, <3>1, <3>2
  <2>2. CASE k # 1
    <3>1. k \in 2..W /\ k - 1 \in 1..n /\ k - 1 \in 1..W
      BY <1>0, <1>3, <1>4, <2>2 DEF More
    <3>2. Back(Ahead(x), k) = Back(x, k - 1) /\ Back(x, k - 1) # x
      BY <1>0, <3>1, RingSteps
    <3>3. Back(x, k - 1) \in Ring
      BY <1>0, <3>1, RingSteps
    <3>4. v[Back(x, k - 1)] = Int32(h[l - (k - 1) + 1])
      BY <1>0, <3>1
    <3>5. l - (k - 1) + 1 = Len(g) - k + 1 /\ Len(g) - k + 1 \in 1..l
      BY <1>0, <1>1, <1>3, <3>1
    <3>6. g[Len(g) - k + 1] = h[l - (k - 1) + 1]
      BY <1>1, <3>5
    <3> QED
      BY <1>2, <3>2, <3>3, <3>4, <3>6
  <2> QED
    BY <2>1, <2>2
<1>7. Ahead(x) \in Ring
  BY <1>0, RingSteps
<1>8. Holds(u, More(n), Ahead(x), g)
  BY <1>1, <1>2, <1>4, <1>5, <1>6, <1>7 DEF Holds
<1> QED
  BY <1>8 DEF u, g

(* The sum over the ring is the sum over the end of the history.           *)
Totals(v, n, h) ==
  \E P, R : /\ Adds(Len(h), Stored(h), P) /\ Adds(W, Share(v, n), R)
            /\ R[W] = P[Len(h)] - P[Len(h) - n]

(* The prefix sums of a history stay as it grows.                          *)
LEMMA PrefixStays ==
  ASSUME NEW h \in Seq(Int), NEW y \in Int, NEW P, Adds(Len(h), Stored(h), P),
         NEW Q, Adds(Len(h) + 1, Stored(Append(h, y)), Q)
  PROVE  /\ \A i \in 0..Len(h) : Q[i] = P[i]
         /\ Q[Len(h) + 1] = P[Len(h)] + Int32(y)
<1> DEFINE l == Len(h)
           g == Append(h, y)
           c == Stored(h)
<1>0. /\ l \in Nat /\ Len(g) = l + 1 /\ g[l + 1] = y
      /\ \A i \in 1..l : g[i] = h[i]
  BY LongerIs
<1> HIDE DEF g
<1>1. Q[0] = 0 /\ \A i \in 1..(l + 1) : Q[i] = Q[i - 1] + Int32(g[i])
  BY <1>0 DEF Adds, Stored, g
<1>2. \A i \in 1..l : c[i] = Int32(h[i])
  BY DEF Stored
<1> HIDE DEF c
<1>3. \A i \in 1..l : Q[i] = Q[i - 1] + c[i]
  <2>1. \A i \in 1..l : i \in 1..(l + 1)
    BY <1>0
  <2> QED
    BY <1>0, <1>1, <1>2, <2>1
<1>4. ASSUME NEW i \in 0..l
      PROVE  Q[i] = P[i]
  BY <1>0, <1>1, <1>3, AddsUnique DEF c
<1>5. Q[l + 1] = Q[l] + Int32(y)
  <2>1. l + 1 \in 1..(l + 1) /\ l + 1 - 1 = l
    BY <1>0
  <2> QED
    BY <1>0, <1>1, <2>1
<1>6. l \in 0..l
  BY <1>0
<1> QED
  BY <1>4, <1>5, <1>6

LEMMA TotalsPush ==
  ASSUME NEW v, NEW n, NEW x, NEW h, Holds(v, n, x, h), Totals(v, n, h), NEW y \in Int
  PROVE  Totals([v EXCEPT ![x] = Int32(y)], More(n), Append(h, y))
<1> DEFINE g == Append(h, y)
           u == [v EXCEPT ![x] = Int32(y)]
           l == Len(h)
           k == More(n)
           z == Int32(y)
<1>0. /\ v \in [Ring -> Int] /\ n \in 0..W /\ x \in Ring /\ h \in Seq(Int)
      /\ n = IF l < W THEN l ELSE W
      /\ l < W => x = l
      /\ \A j \in 1..n : v[Back(x, j)] = Int32(h[l - j + 1])
  BY DEF Holds
<1>1. g \in Seq(Int) /\ l \in Nat /\ Len(g) = l + 1
  BY <1>0, LongerIs
<1>2. Holds(u, k, Ahead(x), g)
  BY HoldsPush
<1>3. u \in [Ring -> Int] /\ k \in 0..W /\ z \in Int
  BY <1>2, Int32Is DEF Holds
<1>4. u[x] = z /\ \A i \in Ring : i # x => u[i] = v[i]
  BY <1>0
<1>5. W \in Nat /\ W >= 1 /\ Ring = 0..(W - 1) /\ x \in Nat /\ x + 1 \in 1..W
  BY <1>0, WindowSize
<1> HIDE DEF g, u, z
<1>6. PICK P, R : /\ Adds(l, Stored(h), P) /\ Adds(W, Share(v, n), R)
                  /\ R[W] = P[l] - P[l - n]
  BY DEF Totals
<1>7. PICK Q : Adds(Len(g), Stored(g), Q)
  <2>1. Len(g) \in Nat /\ Stored(g) \in [1..Len(g) -> Int]
    BY <1>1, StoredIs
  <2> QED
    BY <2>1, AddsExist
<1>8. PICK S : Adds(W, Share(u, k), S)
  BY <1>3, <1>5, ShareIs, AddsExist
<1>9. /\ \A i \in 0..l : Q[i] = P[i]
      /\ Q[l + 1] = P[l] + z
  BY <1>0, <1>1, <1>6, <1>7, PrefixStays DEF g, z
<1>10. /\ R \in [0..W -> Int] /\ R[0] = 0
       /\ \A i \in 1..W : R[i] = R[i - 1] + Share(v, n)[i]
  BY <1>6 DEF Adds
<1> DEFINE old == Share(v, n)[x + 1]
           D == z - old
           E == [i \in 0..W |-> IF i <= x THEN R[i] ELSE R[i] + D]
<1>11. /\ \A i \in 1..W : i # x + 1 => Share(u, k)[i] = Share(v, n)[i]
       /\ Share(u, k)[x + 1] = z
       /\ old = IF l < W THEN 0 ELSE v[x]
  <2>1. /\ \A i \in 1..W : Share(u, k)[i] = IF i <= k THEN u[i - 1] ELSE 0
        /\ \A i \in 1..W : Share(v, n)[i] = IF i <= n THEN v[i - 1] ELSE 0
    BY DEF Share
  <2>2. \A i \in 1..W : i - 1 \in Ring /\ (i # x + 1 <=> i - 1 # x)
    BY <1>5
  <2>3. x + 1 <= k /\ x + 1 - 1 = x /\ (x + 1 <= n <=> ~(l < W))
    BY <1>0, <1>1, <1>5 DEF More
  <2>4. \A i \in 1..W : i # x + 1 => (i <= k <=> i <= n)
    BY <1>0, <1>1, <1>5 DEF More
  <2> QED
    BY <1>4, <1>5, <2>1, <2>2, <2>3, <2>4
<1>12. old \in Int /\ (~(l < W) => old = Int32(h[l - W + 1]))
  <2>1. old \in Int
    BY <1>0, <1>11
  <2>2. ASSUME ~(l < W)
        PROVE  old = Int32(h[l - W + 1])
    <3>1. Back(x, W) = x /\ W \in 1..n
      BY <1>0, <1>1, <1>5, <2>2 DEF Back
    <3> QED
      BY <1>0, <1>11, <2>2, <3>1
  <2> QED
    BY <2>1, <2>2
<1> HIDE DEF old, D
<1>13. D \in Int /\ old + D = z
  BY <1>3, <1>12 DEF D
<1>14. S[W] = R[W] + D
  <2>1. E[0] = 0
    BY <1>5, <1>10
  <2>2. ASSUME NEW i \in 1..W
        PROVE  E[i] = E[i - 1] + Share(u, k)[i]
    <3>0. /\ i - 1 \in 0..W /\ i \in 0..W /\ R[i] \in Int /\ R[i - 1] \in Int
          /\ R[i] = R[i - 1] + Share(v, n)[i]
      <4>1. i - 1 \in 0..W /\ i \in 0..W
        BY <1>5
      <4> QED
        BY <1>10, <4>1
    <3>1. /\ E[i] = IF i <= x THEN R[i] ELSE R[i] + D
          /\ E[i - 1] = IF i - 1 <= x THEN R[i - 1] ELSE R[i - 1] + D
      BY <3>0
    <3>2. Share(v, n)[i] \in Int
      BY <1>0, ShareIs
    <3> HIDE DEF E
    <3>3. CASE i <= x
      <4>1. i - 1 <= x /\ i # x + 1
        BY <1>5, <3>3
      <4> QED
        BY <1>11, <3>0, <3>1, <3>3, <4>1
    <3>4. CASE i = x + 1
      <4>1. i - 1 <= x /\ ~(i <= x)
        BY <1>5, <3>4
      <4>2. Share(u, k)[i] = z /\ Share(v, n)[i] = old
        BY <1>11, <3>4 DEF old
      <4> QED
        BY <1>12, <1>13, <3>0, <3>1, <4>1, <4>2
    <3>5. CASE i > x + 1
      <4>1. ~(i - 1 <= x) /\ ~(i <= x) /\ i # x + 1
        BY <1>5, <3>5
      <4>2. Share(u, k)[i] = Share(v, n)[i]
        BY <1>11, <4>1
      <4> QED
        BY <1>13, <3>0, <3>1, <3>2, <4>1, <4>2
    <3> QED
      BY <1>5, <3>3, <3>4, <3>5
  <2>3. W \in 0..W /\ ~(W <= x)
    BY <1>5
  <2>4. E[W] = R[W] + D
    BY <2>3
  <2> HIDE DEF E
  <2>5. E[W] = S[W]
    BY <1>5, <1>8, <2>1, <2>2, <2>3, AddsUnique
  <2> QED
    BY <2>4, <2>5
<1>15. P \in [0..l -> Int] /\ P[0] = 0 /\ \A i \in 1..l : P[i] = P[i - 1] + Int32(h[i])
  BY <1>6 DEF Adds, Stored
<1>16. S[W] = Q[l + 1] - Q[l + 1 - k]
  <2>0. P[l] \in Int
    BY <1>1, <1>15
  <2>1. CASE l < W
    <3>1. n = l /\ k = l + 1 /\ l - n = 0 /\ l + 1 - k = 0 /\ 0 \in 0..l
      BY <1>0, <1>1, <2>1 DEF More
    <3>2. old = 0
      BY <1>11, <2>1 DEF old
    <3>3. R[W] = P[l] - 0 /\ Q[0] = 0
      BY <1>6, <1>9, <1>15, <3>1
    <3> HIDE DEF k
    <3>4. S[W] = P[l] + D /\ D = z /\ z \in Int
      BY <1>3, <1>13, <1>14, <2>0, <3>2, <3>3
    <3>5. Q[l + 1 - k] = 0 /\ Q[l + 1] = P[l] + z
      BY <1>9, <3>1, <3>3
    <3> QED
      BY <2>0, <3>4, <3>5
  <2>2. CASE ~(l < W)
    <3>1. n = W /\ k = W /\ l - W \in 0..l /\ l + 1 - W \in 1..l /\ l + 1 - W = l - W + 1
          /\ l - W + 1 - 1 = l - W /\ l + 1 - W \in 0..l
      BY <1>0, <1>1, <1>5, <2>2, SMTT(40) DEF More
    <3>2. P[l - W + 1] = P[l - W] + old
      <4>1. P[l - W + 1] = P[l - W + 1 - 1] + Int32(h[l - W + 1])
        BY <1>15, <3>1
      <4> QED
        BY <1>12, <2>2, <3>1, <4>1
    <3>3. P[l - W] \in Int
      BY <1>15, <3>1
    <3>4. Q[l + 1 - W] = P[l - W] + old
      BY <1>9, <3>1, <3>2
    <3>5. S[W] = (P[l] - P[l - W]) + (z - old)
      BY <1>6, <1>14, <3>1 DEF D
    <3>6. Q[l + 1] = P[l] + z /\ Q[l + 1 - k] = P[l - W] + old
      BY <1>9, <3>1, <3>4
    <3> QED
      BY <1>3, <1>12, <2>0, <3>3, <3>5, <3>6
  <2> QED
    BY <2>1, <2>2
<1>17. Totals(u, k, g)
  <2>1. S[W] = Q[Len(g)] - Q[Len(g) - k]
    <3>1. Len(g) = l + 1
      BY <1>1
    <3>2. ASSUME NEW N, N = l + 1
          PROVE  S[W] = Q[N] - Q[N - k]
      <4> HIDE DEF k
      <4>1. N \in Nat /\ l \in Nat /\ k \in Nat
        BY <1>1, <1>3, <1>5, <3>2
      <4>2. N - k = l + 1 - k
        BY <3>2, <4>1
      <4> QED
        BY <1>16, <3>2, <4>2
    <3> QED
      BY <3>1, <3>2, Zenon
  <2> HIDE DEF k
  <2> QED
    BY <1>7, <1>8, <2>1 DEF Totals
<1> QED
  BY <1>17 DEF u, g

-----------------------------------------------------------------------------
(* The high alarm.                                                         *)
High(h) ==
  \E k \in 1..Len(h) :
    /\ StoredAfter(h, k) > HighAbove
    /\ \A j \in k..Len(h) : StoredAfter(h, j) > ClearAt

LEMMA SumsExist ==
  ASSUME NEW h \in Seq(Int)
  PROVE  \E P : Adds(Len(h), Stored(h), P)
<1>1. Len(h) \in Nat /\ Stored(h) \in [1..Len(h) -> Int]
  BY StoredIs
<1> QED
  BY <1>1, AddsExist

LEMMA AverageInt ==
  ASSUME NEW h \in Seq(Int), NEW k \in 1..Len(h)
  PROVE  StoredAfter(h, k) \in Int
<1>1. PICK P : Adds(Len(h), Stored(h), P)
  BY SumsExist
<1>2. StoredAfter(h, k) = Quotient(P[k] - P[From(k) - 1], k - From(k) + 1)
  BY <1>1, AverageAfterIs
<1>3. k \in Nat /\ k >= 1 /\ Len(h) \in Nat /\ k <= Len(h)
  OBVIOUS
<1>4. From(k) - 1 \in 0..(k - 1) /\ k - From(k) + 1 \in 1..W
  BY <1>3, FromIs
<1>5. From(k) - 1 \in 0..Len(h) /\ k \in 0..Len(h)
  BY <1>3, <1>4
<1>6. P[k] \in Int /\ P[From(k) - 1] \in Int
  BY <1>1, <1>5 DEF Adds
<1>7. ASSUME NEW a \in Int, NEW b \in 1..W
      PROVE  Quotient(a, b) \in Int
  <2>1. b \in Nat /\ b > 0
    BY WindowSize
  <2>2. a \div b \in Int /\ (-a) \div b \in Int
    BY <2>1
  <2> QED
    BY <2>2 DEF Quotient
<1>8. P[k] - P[From(k) - 1] \in Int
  BY <1>6
<1> QED
  BY <1>2, <1>4, <1>7, <1>8

(* One more value does not change the averages before it.                  *)
LEMMA AverageStays ==
  ASSUME NEW h \in Seq(Int), NEW y \in Int, NEW k \in 1..Len(h)
  PROVE  StoredAfter(Append(h, y), k) = StoredAfter(h, k)
<1> DEFINE g == Append(h, y)
<1>0. g \in Seq(Int) /\ Len(h) \in Nat /\ Len(g) = Len(h) + 1
  BY LongerIs
<1>1. PICK P : Adds(Len(h), Stored(h), P)
  BY SumsExist
<1> HIDE DEF g
<1>2. PICK Q : Adds(Len(g), Stored(g), Q)
  BY <1>0, SumsExist
<1>3. \A i \in 0..Len(h) : Q[i] = P[i]
  <2>1. Adds(Len(h) + 1, Stored(Append(h, y)), Q)
    BY <1>0, <1>2 DEF g
  <2>2. /\ \A i \in 0..Len(h) : Q[i] = P[i]
        /\ Q[Len(h) + 1] = P[Len(h)] + Int32(y)
    BY <1>1, <2>1, PrefixStays
  <2> QED
    BY <2>2
<1>4. k \in 1..Len(g) /\ k \in 0..Len(h) /\ k \in Nat /\ k >= 1
  BY <1>0
<1>5. From(k) - 1 \in 0..Len(h)
  <2>1. From(k) - 1 \in 0..(k - 1)
    BY <1>4, FromIs
  <2> QED
    BY <1>0, <1>4, <2>1
<1>6. StoredAfter(h, k) = Quotient(P[k] - P[From(k) - 1], k - From(k) + 1)
  BY <1>1, AverageAfterIs
<1>7. StoredAfter(g, k) = Quotient(Q[k] - Q[From(k) - 1], k - From(k) + 1)
  BY <1>0, <1>2, <1>4, AverageAfterIs
<1>8. Q[k] = P[k] /\ Q[From(k) - 1] = P[From(k) - 1]
  BY <1>3, <1>4, <1>5
<1> QED
  BY <1>6, <1>7, <1>8 DEF g

LEMMA AverageSame ==
  ASSUME NEW v, NEW n, NEW x, NEW h, Holds(v, n, x, h), Totals(v, n, h), Len(h) >= 1, NEW a
  PROVE  Average(MkM(v, n, x, a)) = StoredAfter(h, Len(h))
<1>0. /\ v \in [Ring -> Int] /\ n \in 0..W /\ h \in Seq(Int)
      /\ n = IF Len(h) < W THEN Len(h) ELSE W
  BY DEF Holds
<1>1. PICK P, R : /\ Adds(Len(h), Stored(h), P) /\ Adds(W, Share(v, n), R)
                  /\ R[W] = P[Len(h)] - P[Len(h) - n]
  BY DEF Totals
<1> DEFINE l == Len(h)
<1>2. l \in Nat /\ l \in 1..l /\ W \in Nat
  BY <1>0, WindowSize
<1>3. l - From(l) + 1 = n /\ From(l) - 1 = l - n
  <2>1. l - From(l) + 1 = (IF l < W THEN l ELSE W) /\ From(l) \in 1..l
    BY <1>2, FromIs
  <2>2. l - From(l) + 1 = n
    BY <1>0, <2>1
  <2> HIDE DEF l
  <2> QED
    BY <1>2, <2>1, <2>2
<1>4. Average(MkM(v, n, x, a)) = Quotient(R[W], n)
  BY <1>0, <1>1, AverageIs
<1>5. StoredAfter(h, l) = Quotient(P[l] - P[From(l) - 1], l - From(l) + 1)
  BY <1>0, <1>1, <1>2, AverageAfterIs
<1> QED
  BY <1>1, <1>3, <1>4, <1>5

LEMMA HighPush ==
  ASSUME NEW h \in Seq(Int), NEW y \in Int, NEW r, r = StoredAfter(Append(h, y), Len(h) + 1)
  PROVE  High(Append(h, y)) <=> \/ r > HighAbove
                                \/ ~(r > HighAbove) /\ ~(r <= ClearAt) /\ High(h)
<1> DEFINE g == Append(h, y)
           l == Len(h)
           A(k) == StoredAfter(h, k)
           B(k) == StoredAfter(g, k)
<1>0. g \in Seq(Int) /\ l \in Nat /\ Len(g) = l + 1
  BY LongerIs
<1>1. \A k \in 1..l : B(k) = A(k)
  BY AverageStays
<1>2. \A k \in 1..(l + 1) : B(k) \in Int
  BY <1>0, AverageInt
<1>3. ClearAt \in Int /\ HighAbove \in Int /\ ClearAt <= HighAbove
  BY SizesAssumption
<1>4. /\ High(g) <=> \E k \in 1..(l + 1) : B(k) > HighAbove /\ \A j \in k..(l + 1) : B(j) > ClearAt
      /\ High(h) <=> \E k \in 1..l : A(k) > HighAbove /\ \A j \in k..l : A(j) > ClearAt
  BY <1>0 DEF High
<1>5. r = B(l + 1) /\ l + 1 \in 1..(l + 1)
  BY <1>0
<1>6. r \in Int
  BY <1>2, <1>5
<1> HIDE DEF g, l, A, B
<1>7. CASE r > HighAbove
  <2>1. \A j \in (l + 1)..(l + 1) : B(j) > ClearAt
    BY <1>0, <1>3, <1>5, <1>6, <1>7
  <2> QED
    BY <1>4, <1>5, <1>7, <2>1 DEF g
<1>8. CASE ~(r > HighAbove)
  <2>1. ASSUME High(g)
        PROVE  ~(r <= ClearAt) /\ High(h)
    <3>1. PICK k \in 1..(l + 1) : B(k) > HighAbove /\ \A j \in k..(l + 1) : B(j) > ClearAt
      BY <1>4, <2>1
    <3>2. k \in 1..l
      BY <1>0, <1>5, <1>8, <3>1
    <3>3. l + 1 \in k..(l + 1) /\ \A j \in k..l : j \in k..(l + 1) /\ j \in 1..l
      BY <1>0, <3>2
    <3>4. r > ClearAt
      BY <1>5, <3>1, <3>3
    <3>5. A(k) > HighAbove /\ \A j \in k..l : A(j) > ClearAt
      BY <1>1, <3>1, <3>2, <3>3
    <3> QED
      BY <1>3, <1>4, <1>6, <3>2, <3>4, <3>5
  <2>2. ASSUME ~(r <= ClearAt), High(h)
        PROVE  High(g)
    <3>1. PICK k \in 1..l : A(k) > HighAbove /\ \A j \in k..l : A(j) > ClearAt
      BY <1>4, <2>2
    <3>2. k \in 1..(l + 1) /\ \A j \in k..(l + 1) : j = l + 1 \/ (j \in k..l /\ j \in 1..l)
      BY <1>0
    <3>3. r > ClearAt
      BY <1>3, <1>6, <2>2
    <3>4. \A j \in k..(l + 1) : B(j) > ClearAt
      BY <1>1, <1>5, <3>1, <3>2, <3>3
    <3>5. B(k) > HighAbove
      BY <1>1, <3>1
    <3> QED
      BY <1>4, <3>2, <3>4, <3>5
  <2> QED
    BY <1>8, <2>1, <2>2 DEF g
<1> QED
  BY <1>7, <1>8

(* A window and its history.                                               *)
Agree(w, h) ==
  \E v, n, x, a : /\ w = MkM(v, n, x, a) /\ Holds(v, n, x, h) /\ Totals(v, n, h)
                  /\ a \in BOOLEAN /\ (a = TRUE <=> High(h))

(* The window as accept_frame leaves it.                                   *)
Advanced(w, y) ==
  LET m == Push(w, Int32(y))
  IN [m EXCEPT !.high_alarm = HighAlarm(m.high_alarm, Average(m))]

LEMMA AgreePush ==
  ASSUME NEW w, NEW h, Agree(w, h), NEW y \in Int
  PROVE  Agree(Advanced(w, y), Append(h, y))
<1>1. PICK v, n, x, a : /\ w = MkM(v, n, x, a) /\ Holds(v, n, x, h) /\ Totals(v, n, h)
                        /\ a \in BOOLEAN /\ (a = TRUE <=> High(h))
  BY DEF Agree
<1> DEFINE u == [v EXCEPT ![x] = Int32(y)]
           k == More(n)
           z == Ahead(x)
           g == Append(h, y)
           m == MkM(u, k, z, a)
           r == StoredAfter(g, Len(h) + 1)
           b == HighAlarm(a, r)
<1>2. h \in Seq(Int) /\ x \in Ring
  BY <1>1 DEF Holds
<1>3. Len(h) \in Nat /\ Len(g) = Len(h) + 1 /\ Len(g) >= 1
  BY <1>2, LongerIs
<1>4. Holds(u, k, z, g) /\ Totals(u, k, g)
  BY <1>1, HoldsPush, TotalsPush
<1>5. Push(w, Int32(y)) = m
  BY <1>1, <1>2, PushIs
<1> HIDE DEF u, k, z, g
<1>6. Average(m) = r
  BY <1>3, <1>4, AverageSame
<1>7. m.high_alarm = a /\ [m EXCEPT !.high_alarm = b] = MkM(u, k, z, b)
  BY MkMIs
<1>8. Advanced(w, y) = [m EXCEPT !.high_alarm = b]
  BY <1>5, <1>6, <1>7 DEF Advanced
<1>9. High(g) <=> \/ r > HighAbove
                  \/ ~(r > HighAbove) /\ ~(r <= ClearAt) /\ High(h)
  BY <1>2, HighPush DEF g
<1> HIDE DEF m, r
<1>10. b \in BOOLEAN /\ (b = TRUE <=> High(g))
  <2>1. b = IF r > HighAbove THEN TRUE ELSE IF r <= ClearAt THEN FALSE ELSE a
    BY DEF HighAlarm
  <2>2. CASE r > HighAbove
    BY <1>9, <2>1, <2>2
  <2>3. CASE ~(r > HighAbove) /\ r <= ClearAt
    BY <1>9, <2>1, <2>3
  <2>4. CASE ~(r > HighAbove) /\ ~(r <= ClearAt)
    BY <1>1, <1>9, <2>1, <2>4
  <2> QED
    BY <2>2, <2>3, <2>4
<1> HIDE DEF b
<1>11. Advanced(w, y) = MkM(u, k, z, b)
  BY <1>7, <1>8
<1>12. Agree(Advanced(w, y), g)
  BY <1>4, <1>10, <1>11, Zenon DEF Agree
<1> QED
  BY <1>12 DEF g

(* The empty window.                                                       *)
LEMMA AgreeNone == Agree(NoMetric, <<>>)
<1> DEFINE v == [i \in Ring |-> 0]
           h == <<>>
<1>1. NoMetric = MkM(v, 0, 0, FALSE)
  BY DEF NoMetric, MkM
<1>2. h \in Seq(Int) /\ Len(h) = 0
  OBVIOUS
<1>3. Holds(v, 0, 0, h)
  <2>1. v \in [Ring -> Int] /\ 0 \in Ring /\ 0 \in 0..W /\ W \in Nat /\ 0 < W
    BY WindowSize
  <2>2. \A k \in 1..0 : v[Back(0, k)] = Int32(h[Len(h) - k + 1])
    OBVIOUS
  <2> HIDE DEF v, h
  <2> QED
    BY <1>2, <2>1, <2>2 DEF Holds
<1>4. Totals(v, 0, h)
  <2>1. PICK P : Adds(Len(h), Stored(h), P)
    BY <1>2, SumsExist
  <2> DEFINE R == [i \in 0..W |-> 0]
  <2>2. \A i \in 1..W : Share(v, 0)[i] = 0
    BY WindowSize DEF Share
  <2>3. Adds(W, Share(v, 0), R)
    <3>1. /\ R \in [0..W -> Int] /\ R[0] = 0
          /\ \A i \in 1..W : R[i] = 0 /\ R[i - 1] = 0
      BY WindowSize
    <3> HIDE DEF R
    <3> QED
      BY <2>2, <3>1 DEF Adds
  <2>4. P[0] = 0 /\ R[W] = 0
    BY <2>1, WindowSize DEF Adds
  <2>5. R[W] = P[Len(h)] - P[Len(h) - 0]
    BY <1>2, <2>4
  <2> HIDE DEF R, h, v
  <2> QED
    BY <2>1, <2>3, <2>5 DEF Totals
<1>5. ~High(h)
  BY DEF High
<1> HIDE DEF v, h
<1>6. Agree(NoMetric, h)
  <2>1. FALSE \in BOOLEAN /\ (FALSE = TRUE <=> High(h))
    BY <1>5
  <2> QED
    BY <1>1, <1>3, <1>4, <2>1, Zenon DEF Agree
<1> QED
  BY <1>6 DEF h

-----------------------------------------------------------------------------
(* Devices.  The truth values of their fields have names here: the provers *)
(* then treat them as any other value.                                     *)
Yes == TRUE
No == FALSE

LEMMA YesNo == Yes /\ ~No /\ Yes = TRUE /\ No = FALSE
BY DEF Yes, No

MkD(u, q, a, id, ls, lt, ms) ==
  [used |-> u, seq_valid |-> q, silence_alarm |-> a, device_id |-> id,
   last_seq |-> ls, last_timestamp |-> lt, metrics |-> ms]

LEMMA MkDIs ==
  ASSUME NEW u, NEW q, NEW a, NEW id, NEW ls, NEW lt, NEW ms
  PROVE  /\ MkD(u, q, a, id, ls, lt, ms).used = u
         /\ MkD(u, q, a, id, ls, lt, ms).silence_alarm = a
         /\ MkD(u, q, a, id, ls, lt, ms).device_id = id
         /\ MkD(u, q, a, id, ls, lt, ms).metrics = ms
         /\ MkD(u, q, a, id, ls, lt, ms).seq_valid = q
         /\ MkD(u, q, a, id, ls, lt, ms).last_seq = ls
BY DEF MkD

LEMMA MkDExcept ==
  ASSUME NEW u, NEW q, NEW a, NEW id, NEW ls, NEW lt, NEW ms, NEW c
  PROVE  /\ [MkD(u, q, a, id, ls, lt, ms) EXCEPT !.used = c] = MkD(c, q, a, id, ls, lt, ms)
         /\ [MkD(u, q, a, id, ls, lt, ms) EXCEPT !.seq_valid = c] = MkD(u, c, a, id, ls, lt, ms)
         /\ [MkD(u, q, a, id, ls, lt, ms) EXCEPT !.silence_alarm = c] = MkD(u, q, c, id, ls, lt, ms)
         /\ [MkD(u, q, a, id, ls, lt, ms) EXCEPT !.device_id = c] = MkD(u, q, a, c, ls, lt, ms)
         /\ [MkD(u, q, a, id, ls, lt, ms) EXCEPT !.last_seq = c] = MkD(u, q, a, id, c, lt, ms)
         /\ [MkD(u, q, a, id, ls, lt, ms) EXCEPT !.last_timestamp = c] = MkD(u, q, a, id, ls, c, ms)
         /\ [MkD(u, q, a, id, ls, lt, ms) EXCEPT !.metrics = c] = MkD(u, q, a, id, ls, lt, c)
<1>1. [MkD(u, q, a, id, ls, lt, ms) EXCEPT !.used = c] = MkD(c, q, a, id, ls, lt, ms)
  BY DEF MkD
<1>2. [MkD(u, q, a, id, ls, lt, ms) EXCEPT !.seq_valid = c] = MkD(u, c, a, id, ls, lt, ms)
  BY DEF MkD
<1>3. [MkD(u, q, a, id, ls, lt, ms) EXCEPT !.silence_alarm = c] = MkD(u, q, c, id, ls, lt, ms)
  BY DEF MkD
<1>4. [MkD(u, q, a, id, ls, lt, ms) EXCEPT !.device_id = c] = MkD(u, q, a, c, ls, lt, ms)
  BY DEF MkD
<1>5. [MkD(u, q, a, id, ls, lt, ms) EXCEPT !.last_seq = c] = MkD(u, q, a, id, c, lt, ms)
  BY DEF MkD
<1>6. [MkD(u, q, a, id, ls, lt, ms) EXCEPT !.last_timestamp = c] = MkD(u, q, a, id, ls, c, ms)
  BY DEF MkD
<1>7. [MkD(u, q, a, id, ls, lt, ms) EXCEPT !.metrics = c] = MkD(u, q, a, id, ls, lt, c)
  BY DEF MkD
<1> QED
  BY <1>1, <1>2, <1>3, <1>4, <1>5, <1>6, <1>7

IsFun(f, S) == f = [x \in S |-> f[x]]

NoHistory == [m \in Metrics |-> <<>>]

(* A slot and the histories of its windows.                                *)
IsDevice(d) == \E u, q, a, id, ls, lt, ms : d = MkD(u, q, a, id, ls, lt, ms)

Kept(d, hs) ==
  /\ IsDevice(d) /\ IsFun(d.metrics, Metrics) /\ IsFun(hs, Metrics)
  /\ \A m \in Metrics : Agree(d.metrics[m], hs[m])
  /\ ~d.used => ~d.silence_alarm /\ hs = NoHistory

LEMMA NoDeviceIs ==
  /\ NoDevice = MkD(No, No, No, 0, 0, 0, [m \in Metrics |-> NoMetric])
  /\ Kept(NoDevice, NoHistory)
<1> DEFINE ms == [m \in Metrics |-> NoMetric]
           d == MkD(No, No, No, 0, 0, 0, ms)
<1>1. NoDevice = d
  BY DEF NoDevice, MkD, No
<1>2. /\ IsFun(ms, Metrics) /\ IsFun(NoHistory, Metrics)
      /\ \A m \in Metrics : ms[m] = NoMetric /\ NoHistory[m] = <<>>
  BY DEF IsFun, NoHistory
<1>3. \A m \in Metrics : Agree(ms[m], NoHistory[m])
  BY <1>2, AgreeNone
<1> HIDE DEF ms
<1>4. d.silence_alarm = No /\ d.metrics = ms
  BY MkDIs
<1>5. IsDevice(d)
  BY Zenon DEF IsDevice
<1> HIDE DEF d
<1>6. Kept(d, NoHistory)
  BY <1>2, <1>3, <1>4, <1>5, YesNo DEF Kept
<1>7. NoDevice = MkD(No, No, No, 0, 0, 0, ms)
  BY <1>1 DEF d
<1> QED
  BY <1>1, <1>6, <1>7 DEF ms

(* Found: a device that is known keeps its identity and silence alarm; a   *)
(* new one has its own and no alarm; the restart flag empties the windows. *)
LEMMA FoundIs ==
  ASSUME NEW d, NEW hs, Kept(d, hs), NEW f
  PROVE  /\ Kept(Found(d, f), IF f.restart THEN NoHistory ELSE hs)
         /\ Found(d, f).used
         /\ d.used => Found(d, f).device_id = d.device_id /\ Found(d, f).silence_alarm = d.silence_alarm
         /\ ~d.used => Found(d, f).device_id = f.device /\ ~Found(d, f).silence_alarm
<1> DEFINE None == [m \in Metrics |-> NoMetric]
           E == IF d.used THEN d ELSE [NoDevice EXCEPT !.used = TRUE, !.device_id = f.device]
<1>0. Found(d, f) = IF f.restart THEN [E EXCEPT !.seq_valid = FALSE, !.metrics = None] ELSE E
  BY DEF Found
<1>1. [E EXCEPT !.seq_valid = FALSE, !.metrics = None]
        = [[E EXCEPT !.seq_valid = No] EXCEPT !.metrics = None]
  <2> HIDE DEF E, None
  <2> QED
    BY DEF No
<1>2. /\ IsFun(None, Metrics) /\ IsFun(NoHistory, Metrics)
      /\ \A m \in Metrics : None[m] = NoMetric /\ NoHistory[m] = <<>>
  BY DEF IsFun, NoHistory
<1>3. \A m \in Metrics : Agree(None[m], NoHistory[m])
  BY <1>2, AgreeNone
<1>4. /\ IsDevice(E) /\ E.used /\ Kept(E, hs)
      /\ d.used => E.device_id = d.device_id /\ E.silence_alarm = d.silence_alarm
      /\ ~d.used => E.device_id = f.device /\ ~E.silence_alarm
  <2>1. CASE d.used
    BY <2>1 DEF Kept
  <2>2. CASE ~d.used
    <3> DEFINE e == MkD(Yes, No, No, f.device, 0, 0, None)
    <3>1. E = [[NoDevice EXCEPT !.used = Yes] EXCEPT !.device_id = f.device]
      <4>1. E = [NoDevice EXCEPT !.used = TRUE, !.device_id = f.device]
        BY <2>2
      <4> HIDE DEF E
      <4> QED
        BY <4>1 DEF Yes
    <3> HIDE DEF None
    <3>2. NoDevice = MkD(No, No, No, 0, 0, 0, None)
      BY NoDeviceIs DEF None
    <3>3. [NoDevice EXCEPT !.used = Yes] = MkD(Yes, No, No, 0, 0, 0, None)
      <4>1. [MkD(No, No, No, 0, 0, 0, None) EXCEPT !.used = Yes] = MkD(Yes, No, No, 0, 0, 0, None)
        BY MkDExcept
      <4> QED
        BY <3>2, <4>1
    <3>4. E = e
      <4>1. [MkD(Yes, No, No, 0, 0, 0, None) EXCEPT !.device_id = f.device] = e
        BY DEF MkD
      <4> HIDE DEF e
      <4> QED
        BY <3>1, <3>3, <4>1
    <3>5. e.used = Yes /\ e.silence_alarm = No /\ e.device_id = f.device /\ e.metrics = None
      BY MkDIs
    <3>6. IsDevice(e)
      BY Zenon DEF IsDevice
    <3>7. hs = NoHistory
      BY <2>2 DEF Kept
    <3> HIDE DEF e, E
    <3>8. Kept(e, hs)
      BY <1>2, <1>3, <3>5, <3>6, <3>7, YesNo DEF Kept
    <3> QED
      BY <2>2, <3>4, <3>5, <3>6, <3>8, YesNo
  <2> QED
    BY <2>1, <2>2
<1> HIDE DEF None, E
<1>5. CASE f.restart
  <2>1. PICK u, q, a, id, ls, lt, ms : E = MkD(u, q, a, id, ls, lt, ms)
    BY <1>4 DEF IsDevice
  <2> DEFINE e == MkD(u, No, a, id, ls, lt, None)
  <2>2. [E EXCEPT !.seq_valid = No] = MkD(u, No, a, id, ls, lt, ms)
    BY <2>1, MkDExcept
  <2>3. Found(d, f) = e
    <3>1. [MkD(u, No, a, id, ls, lt, ms) EXCEPT !.metrics = None] = e
      BY DEF MkD
    <3> HIDE DEF e
    <3> QED
      BY <1>0, <1>1, <1>5, <2>2, <3>1
  <2>4. e.used = E.used /\ e.silence_alarm = E.silence_alarm /\ e.device_id = E.device_id
        /\ e.metrics = None
    BY <2>1, MkDIs
  <2>5. IsDevice(e)
    BY Zenon DEF IsDevice
  <2> HIDE DEF e
  <2>6. Kept(e, NoHistory)
    BY <1>2, <1>3, <1>4, <2>4, <2>5 DEF Kept
  <2> QED
    BY <1>4, <1>5, <2>3, <2>4, <2>6
<1>6. CASE ~f.restart
  BY <1>0, <1>4, <1>6
<1> QED
  BY <1>5, <1>6

(* emit_silence on one device.                                             *)
LEMMA MarkedIs ==
  ASSUME NEW d, NEW hs, Kept(d, hs), d.used, NEW e, e = [d EXCEPT !.silence_alarm = TRUE]
  PROVE  /\ Kept(e, hs) /\ e.used /\ e.silence_alarm /\ e.device_id = d.device_id
         /\ e.seq_valid = d.seq_valid /\ e.last_seq = d.last_seq
<1>1. PICK u, q, a, id, ls, lt, ms : d = MkD(u, q, a, id, ls, lt, ms)
  BY DEF Kept, IsDevice
<1>2. e = [d EXCEPT !.silence_alarm = Yes]
  BY DEF Yes
<1> DEFINE E == MkD(u, q, Yes, id, ls, lt, ms)
<1>3. e = E
  BY <1>1, <1>2 DEF MkD
<1>a. /\ E.used = u /\ E.silence_alarm = Yes /\ E.device_id = id /\ E.metrics = ms
      /\ E.seq_valid = q /\ E.last_seq = ls
  BY MkDIs
<1>b. d.used = u /\ d.device_id = id /\ d.metrics = ms /\ d.seq_valid = q /\ d.last_seq = ls
  <2>1. ASSUME NEW D, D = MkD(u, q, a, id, ls, lt, ms)
        PROVE  D.used = u /\ D.device_id = id /\ D.metrics = ms /\ D.seq_valid = q /\ D.last_seq = ls
    BY <2>1, MkDIs
  <2> QED
    BY <1>1, <2>1, Zenon
<1>c. IsDevice(E)
  BY Zenon DEF IsDevice
<1> HIDE DEF E
<1>4. /\ e.used = d.used /\ e.silence_alarm = Yes /\ e.device_id = d.device_id /\ e.metrics = d.metrics
      /\ e.seq_valid = d.seq_valid /\ e.last_seq = d.last_seq
  BY <1>3, <1>a, <1>b
<1>5. IsDevice(e)
  BY <1>3, <1>c
<1>6. Kept(e, hs)
  BY <1>4, <1>5 DEF Kept
<1> QED
  BY <1>4, <1>6, YesNo

(* The device after an accepted event.                                     *)
EventDevice(d, f) ==
  [d EXCEPT !.silence_alarm = FALSE, !.seq_valid = TRUE, !.last_seq = f.sequence,
            !.last_timestamp = f.timestamp,
            !.metrics[f.metric] = Advanced(d.metrics[f.metric], normalized(f))]

LEMMA EventDeviceIs ==
  ASSUME NEW d, NEW hs, Kept(d, hs), d.used, NEW f \in Frame, f.metric \in Metrics
  PROVE  /\ Kept(EventDevice(d, f), [hs EXCEPT ![f.metric] = Append(hs[f.metric], normalized(f))])
         /\ EventDevice(d, f).used /\ ~EventDevice(d, f).silence_alarm
         /\ EventDevice(d, f).device_id = d.device_id
         /\ EventDevice(d, f).seq_valid /\ EventDevice(d, f).last_seq = f.sequence
<1> DEFINE k == f.metric
           y == normalized(f)
           w == Advanced(d.metrics[k], y)
           e == EventDevice(d, f)
           g == Append(hs[k], y)
           H == [hs EXCEPT ![k] = g]
<1>1. PICK u, q, a, id, ls, lt, ms : d = MkD(u, q, a, id, ls, lt, ms)
  BY DEF Kept, IsDevice
<1>2. y \in Int
  <2>1. f.value \in Int
    BY DEF Frame
  <2> QED
    BY <2>1 DEF normalized
<1>3. e = [[[[[d EXCEPT !.silence_alarm = No] EXCEPT !.seq_valid = Yes] EXCEPT !.last_seq = f.sequence]
             EXCEPT !.last_timestamp = f.timestamp] EXCEPT !.metrics[k] = w]
  <2> HIDE DEF w
  <2>1. e = [d EXCEPT !.silence_alarm = FALSE, !.seq_valid = TRUE, !.last_seq = f.sequence,
                      !.last_timestamp = f.timestamp, !.metrics[k] = w]
    BY DEF EventDevice, w
  <2> QED
    BY <2>1 DEF Yes, No
<1>4. d.metrics = ms
  BY <1>1, MkDIs
<1> DEFINE M == [ms EXCEPT ![k] = w]
<1>5. e = MkD(u, Yes, No, id, f.sequence, f.timestamp, M)
  <2> HIDE DEF w, M, e
  <2>1. [d EXCEPT !.silence_alarm = No] = MkD(u, q, No, id, ls, lt, ms)
    <3>1. [MkD(u, q, a, id, ls, lt, ms) EXCEPT !.silence_alarm = No] = MkD(u, q, No, id, ls, lt, ms)
      BY DEF MkD
    <3> QED
      BY <1>1, <3>1
  <2>2. [MkD(u, q, No, id, ls, lt, ms) EXCEPT !.seq_valid = Yes] = MkD(u, Yes, No, id, ls, lt, ms)
    BY DEF MkD
  <2>3. [MkD(u, Yes, No, id, ls, lt, ms) EXCEPT !.last_seq = f.sequence]
          = MkD(u, Yes, No, id, f.sequence, lt, ms)
    BY DEF MkD
  <2>4. [MkD(u, Yes, No, id, f.sequence, lt, ms) EXCEPT !.last_timestamp = f.timestamp]
          = MkD(u, Yes, No, id, f.sequence, f.timestamp, ms)
    BY DEF MkD
  <2>5. [MkD(u, Yes, No, id, f.sequence, f.timestamp, ms) EXCEPT !.metrics[k] = w]
          = MkD(u, Yes, No, id, f.sequence, f.timestamp, M)
    BY DEF MkD, M
  <2>6. [[[d EXCEPT !.silence_alarm = No] EXCEPT !.seq_valid = Yes] EXCEPT !.last_seq = f.sequence]
          = MkD(u, Yes, No, id, f.sequence, lt, ms)
    BY <2>1, <2>2, <2>3
  <2> QED
    BY <1>3, <2>4, <2>5, <2>6
<1>6. Agree(w, g)
  <2>1. Agree(d.metrics[k], hs[k])
    BY DEF Kept
  <2> QED
    BY <1>2, <2>1, AgreePush
<1> HIDE DEF w, g, e
<1>7. /\ IsFun(M, Metrics) /\ IsFun(H, Metrics)
      /\ M[k] = w /\ H[k] = g
      /\ \A m \in Metrics : m # k => M[m] = d.metrics[m] /\ H[m] = hs[m]
  <2>1. IsFun(ms, Metrics) /\ IsFun(hs, Metrics)
    BY <1>4 DEF Kept
  <2> QED
    BY <1>4, <2>1 DEF IsFun
<1> HIDE DEF M, H
<1>8. \A m \in Metrics : Agree(M[m], H[m])
  BY <1>6, <1>7 DEF Kept
<1> DEFINE E == MkD(u, Yes, No, id, f.sequence, f.timestamp, M)
<1>a. /\ E.used = u /\ E.silence_alarm = No /\ E.device_id = id /\ E.metrics = M
      /\ E.seq_valid = Yes /\ E.last_seq = f.sequence
  BY MkDIs
<1>b. d.used = u /\ d.device_id = id
  <2>1. ASSUME NEW D, D = MkD(u, q, a, id, ls, lt, ms)
        PROVE  D.used = u /\ D.device_id = id /\ D.metrics = ms
    BY <2>1, MkDIs
  <2> QED
    BY <1>1, <2>1, Zenon
<1>c. IsDevice(E)
  BY Zenon DEF IsDevice
<1>d. e = E
  BY <1>5
<1> HIDE DEF E
<1>9. /\ e.used = d.used /\ e.silence_alarm = No /\ e.device_id = d.device_id /\ e.metrics = M
      /\ e.seq_valid = Yes /\ e.last_seq = f.sequence
  BY <1>a, <1>b, <1>d
<1>10. IsDevice(e)
  BY <1>c, <1>d
<1>11. Kept(e, H)
  BY <1>7, <1>8, <1>9, <1>10 DEF Kept
<1> QED
  BY <1>9, <1>11, YesNo DEF e, H, g

(* AcceptEvent: the device, the history, and the records: the end of a     *)
(* silence, then the event, then perhaps the high alarm.                   *)
Cleared(o, d, f) ==
  IF d.silence_alarm
  THEN Append(o, [type |-> "silence", device |-> f.device, text |-> "clear", fields |-> <<>>])
  ELSE o

EventRecord(f) ==
  [type |-> "event", device |-> f.device, text |-> "event",
   fields |-> <<f.sequence, f.timestamp, f.metric, normalized(f)>>]

Longer(o, f, O) ==
  \E x, y : /\ x = EventRecord(f) /\ x.type = "event" /\ y.type = "high"
            /\ O = Append(o, x) \/ O = Append(Append(o, x), y)

EventOutcome(b, dv, a, r, o, h, i, d, f, O) ==
  /\ AcceptEvent(Mk(b, dv, a, r, o, h), i, d, f)
       = Mk(b, [dv EXCEPT ![i] = EventDevice(d, f)], a + 1, r, O,
            [h EXCEPT ![i][f.metric] = Append(h[i][f.metric], normalized(f))])
  /\ Longer(Cleared(o, d, f), f, O)

LEMMA AcceptEventIs ==
  ASSUME NEW b, NEW dv, NEW a, NEW r, NEW o, NEW h, NEW i, NEW d, NEW f
  PROVE  \E O : EventOutcome(b, dv, a, r, o, h, i, d, f, O)
<1> DEFINE m == Push(d.metrics[f.metric], Int32(normalized(f)))
           high == HighAlarm(m.high_alarm, Average(m))
           v == normalized(f)
           e == EventDevice(d, f)
           z == Mk(b, dv, a, r, o, h)
           C == Cleared(o, d, f)
           y == Append(h[i][f.metric], v)
           V == [dv EXCEPT ![i] = e]
           H == [h EXCEPT ![i][f.metric] = y]
           one == IF d.silence_alarm THEN emit(z, "silence", f.device, "clear") ELSE z
           mid == [one EXCEPT !.p.accepted = @ + 1, !.p.devices[i] = e,
                              !.history[i][f.metric] = Append(@, v)]
           X == [type |-> "event", device |-> f.device, text |-> "event",
                 fields |-> <<f.sequence, f.timestamp, f.metric, v>>]
           told == IF high THEN "active" ELSE "clear"
           Y == [type |-> "high", device |-> f.device, text |-> told, fields |-> <<>>]
           two == emit_with(mid, "event", f.device, "event",
                            <<f.sequence, f.timestamp, f.metric, v>>)
           O == IF high = m.high_alarm THEN Append(C, X) ELSE Append(Append(C, X), Y)
<1>1. AcceptEvent(z, i, d, f) = IF high = m.high_alarm THEN two
                                ELSE emit(two, "high", f.device, told)
  BY DEF AcceptEvent, EventDevice, Advanced
<1>2. one = Mk(b, dv, a, r, C, h)
  BY EmitIs DEF emit, Cleared
<1> HIDE DEF m, high, e, told, one, C
<1>3. mid = Mk(b, V, a + 1, r, C, H)
  <2> DEFINE t == Mk(b, dv, a, r, C, h)
  <2>1. t.p.accepted = a /\ t.history = h
    BY MkIs
  <2>2. mid = [t EXCEPT !.p.accepted = t.p.accepted + 1, !.p.devices[i] = e,
                        !.history[i][f.metric] = Append(t.history[i][f.metric], v)]
    BY <1>2
  <2> HIDE DEF t, v, mid
  <2>3. mid = [t EXCEPT !.p.accepted = a + 1, !.p.devices[i] = e, !.history[i][f.metric] = y]
    BY <2>1, <2>2
  <2> HIDE DEF y
  <2>4. mid = Updated(t, i, f.metric, a + 1, e, y)
    BY <2>3 DEF Updated
  <2>5. V = SetDevice(dv, i, e) /\ H = SetHistory(h, i, f.metric, y)
    BY DEF SetDevice, SetHistory
  <2> HIDE DEF V, H
  <2>6. Updated(t, i, f.metric, a + 1, e, y) = Mk(b, V, a + 1, r, C, H)
    BY <2>5, MkUpdated DEF t
  <2> QED
    BY <2>4, <2>6
<1> HIDE DEF mid, V, H
<1>4. two = Mk(b, V, a + 1, r, Append(C, X), H)
  BY <1>3, EmitIs
<1> HIDE DEF two
<1>5. emit(two, "high", f.device, told) = Mk(b, V, a + 1, r, Append(Append(C, X), Y), H)
  <2> DEFINE K == Append(C, X)
  <2>1. two = Mk(b, V, a + 1, r, K, H)
    BY <1>4
  <2> HIDE DEF K
  <2>2. emit(two, "high", f.device, told) = Mk(b, V, a + 1, r, Append(K, Y), H)
    BY <2>1, EmitIs DEF emit
  <2> QED
    BY <2>2 DEF K
<1>6. AcceptEvent(z, i, d, f) = Mk(b, V, a + 1, r, O, H)
  <2> HIDE DEF X, Y
  <2> QED
    BY <1>1, <1>4, <1>5
<1>7. Longer(C, f, O)
  <2>1. X = EventRecord(f) /\ X.type = "event" /\ Y.type = "high"
    BY DEF EventRecord
  <2> HIDE DEF X, Y
  <2> QED
    BY <2>1, Zenon DEF Longer
<1> HIDE DEF O, z
<1> QED
  BY <1>6, <1>7 DEF z, V, H, e, C, y, EventOutcome

-----------------------------------------------------------------------------
(* The table of devices.                                                   *)

(* find_device returns 0, the slot of the device, or a free one when no    *)
(* slot has the device.                                                    *)
LEMMA FindIs ==
  ASSUME NEW p, NEW id
  PROVE  LET i == find_device(p, id)
         IN \/ i = 0
            \/ i \in Slots /\ p.devices[i].used /\ p.devices[i].device_id = id
            \/ /\ i \in Slots /\ ~p.devices[i].used
               /\ \A j \in Slots : ~(p.devices[j].used /\ p.devices[j].device_id = id)
<1> DEFINE K == {i \in Slots : p.devices[i].used /\ p.devices[i].device_id = id}
           F == {i \in Slots : ~p.devices[i].used}
           First(S) == CHOOSE i \in S : \A j \in S : i <= j
<1>1. find_device(p, id) = IF K # {} THEN First(K) ELSE IF F # {} THEN First(F) ELSE 0
  BY Zenon DEF find_device
<1>2. ASSUME NEW S, S \subseteq Slots, S # {}
      PROVE  First(S) \in S
  <2>1. S \subseteq Nat
    BY <1>2 DEF Slots
  <2>2. PICK x \in S : \A y \in S : ~(y < x)
    BY <1>2, <2>1, LeastNatural, Zenon
  <2>3. \A y \in S : x <= y
    BY <2>1, <2>2
  <2> QED
    BY <2>3, Zenon
<1>3. K \subseteq Slots /\ F \subseteq Slots
  OBVIOUS
<1>4. K # {} => First(K) \in K
  BY <1>2, <1>3
<1>5. F # {} => First(F) \in F
  BY <1>2, <1>3
<1> HIDE DEF First
<1>6. CASE K # {}
  BY <1>1, <1>4, <1>6
<1>7. CASE K = {} /\ F # {}
  BY <1>1, <1>5, <1>7
<1>8. CASE K = {} /\ F = {}
  BY <1>1, <1>8
<1> QED
  BY <1>6, <1>7, <1>8

(* Every slot agrees with its histories.                                   *)
Tab(dv, h) ==
  IsFun(dv, Slots) /\ IsFun(h, Slots) /\ \A i \in Slots : Kept(dv[i], h[i])

LEMMA TabSet ==
  ASSUME NEW dv, NEW h, Tab(dv, h), NEW i \in Slots, NEW d, NEW hs, Kept(d, hs)
  PROVE  Tab([dv EXCEPT ![i] = d], [h EXCEPT ![i] = hs])
<1> DEFINE V == [dv EXCEPT ![i] = d]
           H == [h EXCEPT ![i] = hs]
<1>1. /\ IsFun(V, Slots) /\ IsFun(H, Slots) /\ V[i] = d /\ H[i] = hs
      /\ \A j \in Slots : j # i => V[j] = dv[j] /\ H[j] = h[j]
  BY DEF Tab, IsFun
<1> HIDE DEF V, H
<1>2. Tab(V, H)
  BY <1>1 DEF Tab
<1> QED
  BY <1>2 DEF V, H

-----------------------------------------------------------------------------
(* What the records say about silence.                                     *)
Say(x) == IF x THEN "active" ELSE "clear"

Tells(o, id, first, T) ==
  T = [k \in 0..Len(o) |-> IF k = 0 THEN first
                           ELSE IF IsSilence(o[k], id) THEN o[k].text ELSE T[k - 1]]

Alternates(o, id, first, now) ==
  \E T : /\ Tells(o, id, first, T)
         /\ \A k \in 1..Len(o) : IsSilence(o[k], id) => T[k] # T[k - 1]
         /\ T[Len(o)] = now

LEMMA GrownIs ==
  ASSUME NEW C, NEW o \in Seq(C), NEW x
  PROVE  /\ Append(o, x) \in Seq(C \cup {x}) /\ Len(o) \in Nat /\ Len(Append(o, x)) = Len(o) + 1
         /\ \A k \in 1..Len(o) : Append(o, x)[k] = o[k]
         /\ Append(o, x)[Len(o) + 1] = x
<1> DEFINE D == C \cup {x}
<1>1. o \in Seq(D) /\ x \in D
  BY SeqMonotonic
<1> HIDE DEF D
<1>2. /\ Append(o, x) \in Seq(D) /\ Len(o) \in Nat /\ Len(Append(o, x)) = Len(o) + 1
      /\ \A k \in 1..Len(o) : Append(o, x)[k] = o[k]
      /\ Append(o, x)[Len(o) + 1] = x
  BY <1>1, AppendProperties
<1> QED
  BY <1>2 DEF D

LEMMA AlternatesGrown ==
  ASSUME NEW C, NEW o \in Seq(C), NEW id, NEW first, NEW now, Alternates(o, id, first, now), NEW x
  PROVE  /\ ~IsSilence(x, id) => Alternates(Append(o, x), id, first, now)
         /\ IsSilence(x, id) /\ x.text # now => Alternates(Append(o, x), id, first, x.text)
<1> DEFINE O == Append(o, x)
           n == Len(o)
<1>0. /\ n \in Nat /\ Len(O) = n + 1 /\ O[n + 1] = x
      /\ \A k \in 1..n : O[k] = o[k]
  BY GrownIs
<1>1. PICK T : /\ Tells(o, id, first, T)
               /\ \A k \in 1..n : IsSilence(o[k], id) => T[k] # T[k - 1]
               /\ T[n] = now
  BY DEF Alternates
<1> DEFINE end == IF IsSilence(x, id) THEN x.text ELSE now
           U == [k \in 0..(n + 1) |-> IF k = n + 1 THEN end ELSE T[k]]
<1> HIDE DEF O
<1>2. \A k \in 0..n : T[k] = IF k = 0 THEN first
                             ELSE IF IsSilence(o[k], id) THEN o[k].text ELSE T[k - 1]
  BY <1>1 DEF Tells
<1>3. \A k \in 0..n : U[k] = T[k]
  BY <1>0
<1>4. U[n + 1] = end
  BY <1>0
<1>5. U = [k \in 0..(n + 1) |-> U[k]]
  OBVIOUS
<1> HIDE DEF U, n, end
<1>6. ASSUME NEW k \in 0..(n + 1)
      PROVE  U[k] = IF k = 0 THEN first
                    ELSE IF IsSilence(O[k], id) THEN O[k].text ELSE U[k - 1]
  <2>1. CASE k = n + 1
    <3>1. k # 0 /\ k - 1 = n /\ n \in 0..n
      BY <1>0, <2>1
    <3> QED
      BY <1>0, <1>1, <1>3, <1>4, <2>1, <3>1 DEF end
  <2>2. CASE k = 0
    <3>1. 0 \in 0..n
      BY <1>0
    <3> QED
      BY <1>2, <1>3, <2>2, <3>1
  <2>3. CASE k # 0 /\ k # n + 1
    <3>1. k \in 1..n /\ k \in 0..n /\ k - 1 \in 0..n
      BY <1>0, <2>3
    <3>2. T[k] = IF IsSilence(o[k], id) THEN o[k].text ELSE T[k - 1]
      BY <1>2, <2>3, <3>1
    <3> QED
      BY <1>0, <1>3, <2>3, <3>1, <3>2
  <2> QED
    BY <2>1, <2>2, <2>3
<1>7. Tells(O, id, first, U)
  BY <1>0, <1>5, <1>6 DEF Tells
<1>8. ASSUME IsSilence(x, id) => x.text # now, NEW k \in 1..(n + 1), IsSilence(O[k], id)
      PROVE  U[k] # U[k - 1]
  <2>1. CASE k = n + 1
    <3>1. k - 1 = n /\ n \in 0..n
      BY <1>0, <2>1
    <3>2. U[k - 1] = now /\ U[k] = end
      BY <1>1, <1>3, <1>4, <2>1, <3>1 DEF n
    <3> QED
      BY <1>0, <1>8, <2>1, <3>2 DEF end
  <2>2. CASE k # n + 1
    <3>1. k \in 1..n /\ k \in 0..n /\ k - 1 \in 0..n
      BY <1>0, <2>2
    <3> QED
      BY <1>0, <1>1, <1>3, <1>8, <3>1 DEF n
  <2> QED
    BY <2>1, <2>2
<1>9. (IsSilence(x, id) => x.text # now) => Alternates(O, id, first, end)
  <2> SUFFICES ASSUME IsSilence(x, id) => x.text # now
               PROVE  Alternates(O, id, first, end)
    OBVIOUS
  <2>1. U[Len(O)] = end /\ \A k \in 1..Len(O) : IsSilence(O[k], id) => U[k] # U[k - 1]
    BY <1>0, <1>4, <1>8
  <2> QED
    BY <1>7, <2>1, Zenon DEF Alternates
<1> QED
  BY <1>9 DEF O, end

LEMMA AlternatesNever ==
  ASSUME NEW C, NEW o \in Seq(C), NEW id, NEW first,
         \A k \in 1..Len(o) : ~IsSilence(o[k], id)
  PROVE  Alternates(o, id, first, first)
<1> DEFINE T == [k \in 0..Len(o) |-> first]
<1>0. Len(o) \in Nat
  OBVIOUS
<1>1. \A k \in 0..Len(o) : T[k] = IF k = 0 THEN first
                                  ELSE IF IsSilence(o[k], id) THEN o[k].text ELSE T[k - 1]
  BY <1>0
<1>2. Tells(o, id, first, T)
  BY <1>1 DEF Tells
<1>3. T[Len(o)] = first
  BY <1>0
<1> HIDE DEF T
<1> QED
  BY <1>2, <1>3, Zenon DEF Alternates

(* No two slots have one device.                                           *)
Distinct(dv) ==
  \A i, j \in Slots :
    dv[i].used /\ dv[j].used /\ dv[i].device_id = dv[j].device_id => i = j

Speaks(x, d) == x.type = "silence" /\ d.used /\ d.device_id = x.device

(* The devices dv after the records o of a run that started with od.       *)
Reports(dv, o, od) ==
  /\ \E C : o \in Seq(C)
  /\ Distinct(dv)
  /\ \A k \in 1..Len(o) : o[k].type = "silence" => \E i \in Slots : Speaks(o[k], dv[i])
  /\ \A i \in Slots : ~dv[i].used => ~od[i].silence_alarm
  /\ \A i \in Slots : dv[i].used => Alternates(o, dv[i].device_id, Say(od[i].silence_alarm),
                                               Say(dv[i].silence_alarm))

(* Records about other things.                                             *)
LEMMA ReportsQuiet ==
  ASSUME NEW dv, NEW o, NEW od, Reports(dv, o, od), NEW x, x.type # "silence"
  PROVE  Reports(dv, Append(o, x), od)
<1> DEFINE O == Append(o, x)
<1>1. PICK C : o \in Seq(C)
  BY DEF Reports
<1>2. /\ O \in Seq(C \cup {x}) /\ Len(o) \in Nat /\ Len(O) = Len(o) + 1
      /\ \A k \in 1..Len(o) : O[k] = o[k]
      /\ O[Len(o) + 1] = x
  BY <1>1, GrownIs
<1>3. ASSUME NEW i \in Slots, dv[i].used
      PROVE  Alternates(O, dv[i].device_id, Say(od[i].silence_alarm), Say(dv[i].silence_alarm))
  <2>1. ~IsSilence(x, dv[i].device_id)
    BY DEF IsSilence
  <2>2. Alternates(o, dv[i].device_id, Say(od[i].silence_alarm), Say(dv[i].silence_alarm))
    BY <1>3 DEF Reports
  <2> QED
    BY <1>1, <2>1, <2>2, AlternatesGrown
<1> HIDE DEF O
<1>4. ASSUME NEW k \in 1..Len(O), O[k].type = "silence"
      PROVE  \E i \in Slots : Speaks(O[k], dv[i])
  <2>1. k \in 1..Len(o)
    BY <1>2, <1>4
  <2> QED
    BY <1>2, <1>4, <2>1 DEF Reports
<1>5. \E D : O \in Seq(D)
  BY <1>2
<1>6. Reports(dv, O, od)
  BY <1>3, <1>4, <1>5 DEF Reports
<1> QED
  BY <1>6 DEF O

(* A slot that stays what it was to a reader.                              *)
LEMMA ReportsSame ==
  ASSUME NEW dv, NEW o, NEW od, Reports(dv, o, od), IsFun(dv, Slots), NEW i \in Slots, NEW e,
         dv[i].used, e.used, e.device_id = dv[i].device_id,
         Say(e.silence_alarm) = Say(dv[i].silence_alarm)
  PROVE  Reports([dv EXCEPT ![i] = e], o, od)
<1> DEFINE V == [dv EXCEPT ![i] = e]
<1>1. V[i] = e /\ \A j \in Slots : j # i => V[j] = dv[j]
  BY DEF IsFun
<1> HIDE DEF V
<1>2. \A j \in Slots : /\ V[j].used <=> dv[j].used
                       /\ V[j].device_id = dv[j].device_id
                       /\ Say(V[j].silence_alarm) = Say(dv[j].silence_alarm)
  BY <1>1
<1>3. Distinct(V)
  <2>1. Distinct(dv)
    BY DEF Reports
  <2> QED
    BY <1>2, <2>1 DEF Distinct
<1>4. ASSUME NEW k \in 1..Len(o), o[k].type = "silence"
      PROVE  \E j \in Slots : Speaks(o[k], V[j])
  <2>1. PICK j \in Slots : Speaks(o[k], dv[j])
    BY <1>4 DEF Reports
  <2> QED
    BY <1>2, <2>1 DEF Speaks
<1>5. ASSUME NEW j \in Slots, V[j].used
      PROVE  Alternates(o, V[j].device_id, Say(od[j].silence_alarm), Say(V[j].silence_alarm))
  BY <1>2, <1>5 DEF Reports
<1>6. \A j \in Slots : ~V[j].used => ~od[j].silence_alarm
  BY <1>2 DEF Reports
<1>7. \E C : o \in Seq(C)
  BY DEF Reports
<1>8. Reports(V, o, od)
  BY <1>3, <1>4, <1>5, <1>6, <1>7 DEF Reports
<1> QED
  BY <1>8 DEF V

(* A slot that is taken by a device no slot has.                           *)
LEMMA ReportsNew ==
  ASSUME NEW dv, NEW o, NEW od, Reports(dv, o, od), IsFun(dv, Slots), NEW i \in Slots, NEW e,
         ~dv[i].used, e.used, ~e.silence_alarm,
         \A j \in Slots : ~(dv[j].used /\ dv[j].device_id = e.device_id)
  PROVE  Reports([dv EXCEPT ![i] = e], o, od)
<1> DEFINE V == [dv EXCEPT ![i] = e]
<1>1. V[i] = e /\ \A j \in Slots : j # i => V[j] = dv[j]
  BY DEF IsFun
<1> HIDE DEF V
<1>2. PICK C : o \in Seq(C)
  BY DEF Reports
<1>3. Distinct(V)
  <2>0. Distinct(dv)
    BY DEF Reports
  <2>1. ASSUME NEW j \in Slots, NEW k \in Slots, V[j].used, V[k].used, V[j].device_id = V[k].device_id
        PROVE  j = k
    <3>1. CASE j = i
      BY <1>1, <2>1, <3>1
    <3>2. CASE k = i
      BY <1>1, <2>1, <3>2
    <3>3. CASE j # i /\ k # i
      BY <1>1, <2>0, <2>1, <3>3 DEF Distinct
    <3> QED
      BY <3>1, <3>2, <3>3
  <2> QED
    BY <2>1 DEF Distinct
<1>4. ASSUME NEW k \in 1..Len(o), o[k].type = "silence"
      PROVE  /\ \E j \in Slots : Speaks(o[k], V[j])
             /\ o[k].device # e.device_id
  <2>1. PICK j \in Slots : Speaks(o[k], dv[j])
    BY <1>4 DEF Reports
  <2>2. j # i
    BY <2>1 DEF Speaks
  <2> QED
    BY <1>1, <2>1, <2>2 DEF Speaks
<1>5. ASSUME NEW j \in Slots, V[j].used
      PROVE  Alternates(o, V[j].device_id, Say(od[j].silence_alarm), Say(V[j].silence_alarm))
  <2>1. CASE j = i
    <3>1. \A k \in 1..Len(o) : ~IsSilence(o[k], e.device_id)
      BY <1>4 DEF IsSilence
    <3>2. Alternates(o, e.device_id, "clear", "clear")
      BY <1>2, <3>1, AlternatesNever
    <3>3. ~od[i].silence_alarm
      BY DEF Reports
    <3>4. Say(od[i].silence_alarm) = "clear" /\ Say(e.silence_alarm) = "clear"
      BY <3>3 DEF Say
    <3> QED
      BY <1>1, <2>1, <3>2, <3>4
  <2>2. CASE j # i
    BY <1>1, <1>5, <2>2 DEF Reports
  <2> QED
    BY <2>1, <2>2
<1>6. \A j \in Slots : ~V[j].used => ~od[j].silence_alarm
  BY <1>1 DEF Reports
<1>7. Reports(V, o, od)
  BY <1>2, <1>3, <1>4, <1>5, <1>6 DEF Reports
<1> QED
  BY <1>7 DEF V

(* A slot whose silence alarm changes, with the record that says so.       *)
LEMMA ReportsChange ==
  ASSUME NEW dv, NEW o, NEW od, Reports(dv, o, od), IsFun(dv, Slots), NEW i \in Slots, NEW e,
         dv[i].used, e.used, e.device_id = dv[i].device_id, NEW x, IsSilence(x, e.device_id),
         x.text # Say(dv[i].silence_alarm), x.text = Say(e.silence_alarm)
  PROVE  Reports([dv EXCEPT ![i] = e], Append(o, x), od)
<1> DEFINE V == [dv EXCEPT ![i] = e]
           O == Append(o, x)
<1>1. V[i] = e /\ \A j \in Slots : j # i => V[j] = dv[j]
  BY DEF IsFun
<1>2. PICK C : o \in Seq(C)
  BY DEF Reports
<1>3. /\ O \in Seq(C \cup {x}) /\ Len(o) \in Nat /\ Len(O) = Len(o) + 1
      /\ \A k \in 1..Len(o) : O[k] = o[k]
      /\ O[Len(o) + 1] = x
  BY <1>2, GrownIs
<1>4. Distinct(dv)
  BY DEF Reports
<1>5. ASSUME NEW j \in Slots, V[j].used
      PROVE  Alternates(O, V[j].device_id, Say(od[j].silence_alarm), Say(V[j].silence_alarm))
  <2>1. CASE j = i
    <3>1. Alternates(o, e.device_id, Say(od[i].silence_alarm), Say(dv[i].silence_alarm))
      BY DEF Reports
    <3>2. Alternates(O, e.device_id, Say(od[i].silence_alarm), x.text)
      BY <1>2, <3>1, AlternatesGrown
    <3> HIDE DEF V, O
    <3> QED
      BY <1>1, <2>1, <3>2
  <2>2. CASE j # i
    <3>0. V[j] = dv[j] /\ dv[j].used
      BY <1>1, <1>5, <2>2
    <3>1. dv[j].device_id # e.device_id
      BY <1>4, <2>2, <3>0 DEF Distinct
    <3>2. ~IsSilence(x, dv[j].device_id)
      BY <3>1 DEF IsSilence
    <3>3. Alternates(o, dv[j].device_id, Say(od[j].silence_alarm), Say(dv[j].silence_alarm))
      BY <3>0 DEF Reports
    <3>4. Alternates(O, dv[j].device_id, Say(od[j].silence_alarm), Say(dv[j].silence_alarm))
      BY <1>2, <3>2, <3>3, AlternatesGrown
    <3> HIDE DEF V, O
    <3> QED
      BY <3>0, <3>4
  <2> QED
    BY <2>1, <2>2
<1> HIDE DEF V, O
<1>6. \A j \in Slots : (V[j].used <=> dv[j].used) /\ V[j].device_id = dv[j].device_id
  BY <1>1
<1>7. Distinct(V)
  BY <1>4, <1>6 DEF Distinct
<1>8. ASSUME NEW k \in 1..Len(O), O[k].type = "silence"
      PROVE  \E j \in Slots : Speaks(O[k], V[j])
  <2>1. CASE k = Len(o) + 1
    <3>1. Speaks(O[k], V[i])
      BY <1>1, <1>3, <2>1 DEF Speaks, IsSilence
    <3> QED
      BY <3>1
  <2>2. CASE k # Len(o) + 1
    <3>1. k \in 1..Len(o)
      BY <1>3, <2>2
    <3>2. PICK j \in Slots : Speaks(o[k], dv[j])
      BY <1>3, <1>8, <3>1 DEF Reports
    <3> QED
      BY <1>3, <1>6, <3>1, <3>2 DEF Speaks
  <2> QED
    BY <2>1, <2>2
<1>9. \A j \in Slots : ~V[j].used => ~od[j].silence_alarm
  BY <1>6 DEF Reports
<1>10. \E D : O \in Seq(D)
  BY <1>3
<1>11. Reports(V, O, od)
  BY <1>5, <1>7, <1>8, <1>9, <1>10 DEF Reports
<1> QED
  BY <1>11 DEF V, O

-----------------------------------------------------------------------------
(* The processor: windows and histories agree, and so do the silence       *)
(* alarms and the records since the run started with the devices od.       *)
Fine(s, od) == IsProc(s) /\ Tab(s.p.devices, s.history) /\ Reports(s.p.devices, s.out, od)

LEMMA FineIs ==
  ASSUME NEW b, NEW dv, NEW a, NEW r, NEW o, NEW h, NEW od
  PROVE  Fine(Mk(b, dv, a, r, o, h), od) <=> Tab(dv, h) /\ Reports(dv, o, od)
BY MkIs DEF Fine

LEMMA FineWith ==
  ASSUME NEW s, NEW od, Fine(s, od), NEW b
  PROVE  Fine(With(s, b), od)
<1>1. IsProc(s) /\ Tab(s.p.devices, s.history) /\ Reports(s.p.devices, s.out, od)
  BY DEF Fine
<1> QED
  BY <1>1, FineIs DEF With

LEMMA FineEmit ==
  ASSUME NEW s, NEW od, Fine(s, od), NEW type, type # "silence", NEW device, NEW text, NEW fields
  PROVE  Fine(emit_with(s, type, device, text, fields), od)
<1>1. PICK b, dv, a, r, o, h : s = Mk(b, dv, a, r, o, h)
  BY DEF Fine, IsProc
<1> DEFINE x == [type |-> type, device |-> device, text |-> text, fields |-> fields]
<1>2. emit_with(s, type, device, text, fields) = Mk(b, dv, a, r, Append(o, x), h)
  BY <1>1, EmitIs
<1>3. x.type # "silence"
  OBVIOUS
<1> HIDE DEF x
<1>4. Tab(dv, h) /\ Reports(dv, o, od)
  BY <1>1, FineIs
<1>5. Reports(dv, Append(o, x), od)
  BY <1>3, <1>4, ReportsQuiet
<1> QED
  BY <1>2, <1>4, <1>5, FineIs

LEMMA FineReject ==
  ASSUME NEW s, NEW od, Fine(s, od), NEW reason
  PROVE  Fine(emit_reject(s, reason), od)
<1>1. PICK b, dv, a, r, o, h : s = Mk(b, dv, a, r, o, h)
  BY DEF Fine, IsProc
<1> DEFINE t == Mk(b, dv, a, r + 1, o, h)
<1>2. [s EXCEPT !.p.rejected = @ + 1] = t
  BY <1>1 DEF Mk
<1>3. Fine(t, od)
  BY <1>1, FineIs
<1> HIDE DEF t
<1>4. emit_reject(s, reason) = emit_with(t, "reject", 0, reason, <<>>)
  BY <1>2 DEF emit_reject, emit
<1> QED
  BY <1>3, <1>4, FineEmit

(* emit_silence at one slot.                                               *)
Elsewhere(t, i, s) == \A j \in Slots : j # i => t.p.devices[j] = s.p.devices[j]

LEMMA FineSilenceAt ==
  ASSUME NEW s, NEW before, NEW od, Fine(before, od), NEW i \in Slots, NEW watermark,
         before.p.devices[i] = s.p.devices[i]
  PROVE  /\ Fine(SilenceAt(s, watermark, i, before), od)
         /\ Elsewhere(SilenceAt(s, watermark, i, before), i, before)
<1> DEFINE d == s.p.devices[i]
<1>1. CASE IsSilent(d, watermark) /\ ~d.silence_alarm
  <2>1. PICK b, dv, a, r, o, h : before = Mk(b, dv, a, r, o, h)
    BY DEF Fine, IsProc
  <2> DEFINE e == [d EXCEPT !.silence_alarm = TRUE]
             V == [dv EXCEPT ![i] = e]
             x == [type |-> "silence", device |-> d.device_id, text |-> "active", fields |-> <<>>]
  <2>2. dv[i] = d
    BY <2>1, MkIs
  <2>3. Tab(dv, h) /\ Reports(dv, o, od)
    BY <2>1, FineIs
  <2>4. SilenceAt(s, watermark, i, before) = Mk(b, V, a, r, Append(o, x), h)
    <3> DEFINE z == Mk(b, dv, a, r, o, h)
               mark == [z EXCEPT !.p.devices[i].silence_alarm = TRUE]
    <3>1. SilenceAt(s, watermark, i, before) = emit(mark, "silence", d.device_id, "active")
      BY <1>1, <2>1 DEF SilenceAt
    <3>2. z.p.devices[i] = d
      BY <2>2, MkIs
    <3>3. mark = [z EXCEPT !.p.devices[i] = [z.p.devices[i] EXCEPT !.silence_alarm = TRUE]]
      BY DEF Mk
    <3> HIDE DEF mark
    <3>4. mark = [z EXCEPT !.p.devices[i] = e]
      BY <3>2, <3>3
    <3> HIDE DEF e
    <3>5. mark = Mk(b, V, a, r, o, h)
      BY <3>4 DEF Mk
    <3> HIDE DEF V, d
    <3>6. emit(mark, "silence", d.device_id, "active") = Mk(b, V, a, r, Append(o, x), h)
      BY <3>5, EmitIs DEF emit
    <3> QED
      BY <3>1, <3>6
  <2>5. d.used
    BY <1>1 DEF IsSilent
  <2>6. Kept(d, h[i])
    BY <2>2, <2>3 DEF Tab
  <2> HIDE DEF d
  <2>7. Kept(e, h[i]) /\ e.used /\ e.silence_alarm /\ e.device_id = d.device_id
    BY <2>5, <2>6, MarkedIs
  <2> HIDE DEF e
  <2>8. Tab(V, h)
    <3>1. Tab(V, [h EXCEPT ![i] = h[i]])
      BY <2>3, <2>7, TabSet
    <3>2. [h EXCEPT ![i] = h[i]] = h
      BY <2>3 DEF Tab, IsFun
    <3> QED
      BY <3>1, <3>2
  <2>9. IsSilence(x, e.device_id) /\ x.text = "active"
    BY <2>7 DEF IsSilence
  <2> HIDE DEF x
  <2>10. Say(d.silence_alarm) = "clear" /\ Say(e.silence_alarm) = "active"
    BY <1>1, <2>7 DEF Say
  <2>11. IsFun(dv, Slots)
    BY <2>3 DEF Tab
  <2>12. Reports(V, Append(o, x), od)
    BY <2>2, <2>3, <2>5, <2>7, <2>9, <2>10, <2>11, ReportsChange
  <2>13. \A j \in Slots : j # i => V[j] = dv[j]
    BY <2>11 DEF IsFun
  <2> HIDE DEF V
  <2> QED
    BY <2>1, <2>4, <2>8, <2>12, <2>13, FineIs, MkIs DEF Elsewhere
<1>2. CASE ~(IsSilent(d, watermark) /\ ~d.silence_alarm)
  BY <1>2 DEF SilenceAt, Elsewhere
<1> QED
  BY <1>1, <1>2

LEMMA FineSilence ==
  ASSUME NEW s, NEW od, Fine(s, od), NEW watermark
  PROVE  Fine(emit_silence(s, watermark), od)
<1> DEFINE N == ES_MAX_DEVICES
<1>0. N \in Nat /\ Slots = 1..N
  BY SizesAssumption DEF Slots
<1>1. PICK v : Visiting(s, watermark, N, v) /\ emit_silence(s, watermark) = v[N]
  BY SilenceIs
<1> HIDE DEF N
<1> DEFINE Same(i) == \A j \in Slots : j > i => v[i].p.devices[j] = s.p.devices[j]
           Good(i) == Fine(v[i], od) /\ Same(i)
           T == {i \in 0..N : ~Good(i)}
<1>2. T = {}
  <2> SUFFICES ASSUME T # {} PROVE FALSE
    OBVIOUS
  <2>0. T \subseteq Nat
    BY <1>0
  <2>1. PICK i \in T : \A j \in T : ~(j < i)
    BY <2>0, LeastNatural, Zenon
  <2>2. CASE i = 0
    <3>1. v[0] = s
      BY <1>0, <1>1 DEF Visiting
    <3>2. Good(0)
      BY <3>1
    <3> QED
      BY <2>1, <2>2, <3>2
  <2>3. CASE i # 0
    <3> HIDE DEF Good
    <3>1. i \in Nat /\ i \in Slots /\ i - 1 \in 0..N /\ i - 1 < i /\ i \in 0..N
      BY <1>0, <2>1, <2>3
    <3>2. Good(i - 1)
      BY <2>1, <3>1
    <3>3. v[i] = SilenceAt(s, watermark, i, v[i - 1])
      BY <1>0, <1>1, <2>3, <3>1 DEF Visiting
    <3>4. Fine(v[i - 1], od) /\ v[i - 1].p.devices[i] = s.p.devices[i]
      BY <3>1, <3>2 DEF Good
    <3>5. Fine(v[i], od) /\ Elsewhere(v[i], i, v[i - 1])
      <4>1. ASSUME NEW w, Fine(w, od), w.p.devices[i] = s.p.devices[i]
            PROVE  /\ Fine(SilenceAt(s, watermark, i, w), od)
                   /\ Elsewhere(SilenceAt(s, watermark, i, w), i, w)
        BY <3>1, <4>1, FineSilenceAt
      <4> QED
        BY <3>3, <3>4, <4>1
    <3>6. Same(i)
      <4>1. ASSUME NEW j \in Slots, j > i
            PROVE  v[i].p.devices[j] = s.p.devices[j]
        <5>1. j \in Nat /\ j # i /\ j > i - 1
          BY <1>0, <3>1, <4>1
        <5> QED
          BY <3>2, <3>5, <5>1 DEF Good, Elsewhere
      <4> QED
        BY <4>1
    <3>7. Good(i)
      BY <3>5, <3>6 DEF Good
    <3> QED
      BY <2>1, <3>7
  <2> QED
    BY <2>2, <2>3
<1>3. Good(N)
  BY <1>0, <1>2
<1> QED
  BY <1>1, <1>3

(* An event and perhaps a change of the high alarm.                        *)
LEMMA ReportsLonger ==
  ASSUME NEW dv, NEW o, NEW od, Reports(dv, o, od), NEW O, NEW f, Longer(o, f, O)
  PROVE  Reports(dv, O, od)
<1>1. PICK x, y : /\ x.type = "event" /\ y.type = "high"
                  /\ O = Append(o, x) \/ O = Append(Append(o, x), y)
  BY DEF Longer
<1>2. x.type # "silence" /\ y.type # "silence"
  BY <1>1
<1> DEFINE P == Append(o, x)
<1>3. Reports(dv, P, od)
  BY <1>2, ReportsQuiet
<1>4. O = P \/ O = Append(P, y)
  BY <1>1
<1> HIDE DEF P
<1>5. Reports(dv, Append(P, y), od)
  BY <1>2, <1>3, ReportsQuiet
<1> QED
  BY <1>3, <1>4, <1>5

(* The slot a frame finds or takes.                                        *)
LEMMA FineTaken ==
  ASSUME NEW dv, NEW h, NEW o, NEW od, Tab(dv, h), Reports(dv, o, od), NEW f, NEW i \in Slots,
         \/ dv[i].used /\ dv[i].device_id = f.device
         \/ ~dv[i].used /\ \A j \in Slots : ~(dv[j].used /\ dv[j].device_id = f.device)
  PROVE  LET d == Found(dv[i], f)
             hs == IF f.restart THEN NoHistory ELSE h[i]
         IN /\ Tab([dv EXCEPT ![i] = d], [h EXCEPT ![i] = hs])
            /\ Reports([dv EXCEPT ![i] = d], o, od)
            /\ Kept(d, hs) /\ d.used /\ d.device_id = f.device
<1> DEFINE d == Found(dv[i], f)
           hs == IF f.restart THEN NoHistory ELSE h[i]
<1>0. Kept(dv[i], h[i]) /\ IsFun(dv, Slots)
  BY DEF Tab
<1>1. /\ Kept(d, hs) /\ d.used
      /\ dv[i].used => d.device_id = dv[i].device_id /\ d.silence_alarm = dv[i].silence_alarm
      /\ ~dv[i].used => d.device_id = f.device /\ ~d.silence_alarm
  <2>1. ASSUME NEW e, Kept(e, h[i])
        PROVE  /\ Kept(Found(e, f), hs)
               /\ Found(e, f).used
               /\ e.used => Found(e, f).device_id = e.device_id
                              /\ Found(e, f).silence_alarm = e.silence_alarm
               /\ ~e.used => Found(e, f).device_id = f.device /\ ~Found(e, f).silence_alarm
    BY <2>1, FoundIs
  <2> QED
    BY <1>0, <2>1
<1> HIDE DEF d, hs
<1>2. Tab([dv EXCEPT ![i] = d], [h EXCEPT ![i] = hs])
  BY <1>1, TabSet
<1>3. d.device_id = f.device
  BY <1>1
<1>4. Reports([dv EXCEPT ![i] = d], o, od)
  <2>1. CASE dv[i].used
    <3>1. d.used /\ d.device_id = dv[i].device_id /\ Say(d.silence_alarm) = Say(dv[i].silence_alarm)
      BY <1>1, <2>1
    <3> QED
      BY <1>0, <2>1, <3>1, ReportsSame
  <2>2. CASE ~dv[i].used
    <3>1. \A j \in Slots : ~(dv[j].used /\ dv[j].device_id = d.device_id)
      BY <1>3, <2>2
    <3> QED
      BY <1>0, <1>1, <2>2, <3>1, ReportsNew
  <2> QED
    BY <2>1, <2>2
<1>5. Kept(d, hs) /\ d.used
  BY <1>1
<1> QED
  BY <1>2, <1>3, <1>4, <1>5 DEF d, hs

(* The rest of accept_frame for an event.                                  *)
LEMMA FineEvent ==
  ASSUME NEW s, NEW od, Fine(s, od), NEW i \in Slots, NEW f \in Frame, f.metric \in Metrics,
         NEW d, s.p.devices[i] = d, d.used, d.device_id = f.device
  PROVE  Fine(AcceptEvent(s, i, d, f), od)
<1>1. PICK b, dv, a, r, o, h : s = Mk(b, dv, a, r, o, h)
  BY DEF Fine, IsProc
<1>2. Tab(dv, h) /\ Reports(dv, o, od) /\ dv[i] = d
  BY <1>1, FineIs, MkIs
<1>3. Kept(d, h[i]) /\ IsFun(dv, Slots) /\ IsFun(h, Slots)
  BY <1>2 DEF Tab
<1> DEFINE e == EventDevice(d, f)
           k == f.metric
           g == Append(h[i][k], normalized(f))
           V == [dv EXCEPT ![i] = e]
           hs == [h[i] EXCEPT ![k] = g]
           C == Cleared(o, d, f)
<1>4. PICK O : /\ AcceptEvent(s, i, d, f) = Mk(b, V, a + 1, r, O, [h EXCEPT ![i][k] = g])
               /\ Longer(C, f, O)
  <2>1. PICK O : EventOutcome(b, dv, a, r, o, h, i, d, f, O)
    BY AcceptEventIs
  <2> QED
    BY <1>1, <2>1, Zenon DEF EventOutcome
<1>5. Kept(e, hs) /\ e.used /\ ~e.silence_alarm /\ e.device_id = d.device_id
  BY <1>3, EventDeviceIs
<1>6. Reports(V, C, od)
  <2> HIDE DEF e, C
  <2>1. CASE d.silence_alarm
    <3> DEFINE x == [type |-> "silence", device |-> f.device, text |-> "clear", fields |-> <<>>]
    <3>1. C = Append(o, x)
      BY <2>1 DEF C, Cleared
    <3>2. IsSilence(x, e.device_id) /\ x.text = "clear"
      BY <1>5 DEF IsSilence
    <3> HIDE DEF x
    <3>3. x.text # Say(dv[i].silence_alarm) /\ x.text = Say(e.silence_alarm)
      BY <1>2, <1>5, <2>1, <3>2 DEF Say
    <3>4. dv[i].used /\ e.device_id = dv[i].device_id
      BY <1>2, <1>5
    <3>5. Reports(V, Append(o, x), od)
      BY <1>2, <1>3, <1>5, <3>2, <3>3, <3>4, ReportsChange
    <3> QED
      BY <3>1, <3>5
  <2>2. CASE ~d.silence_alarm
    <3>1. C = o
      BY <2>2 DEF C, Cleared
    <3>2. Say(dv[i].silence_alarm) = Say(e.silence_alarm)
      BY <1>2, <1>5, <2>2 DEF Say
    <3>3. dv[i].used /\ e.device_id = dv[i].device_id
      BY <1>2, <1>5
    <3>4. Reports(V, o, od)
      BY <1>2, <1>3, <1>5, <3>2, <3>3, ReportsSame
    <3> QED
      BY <3>1, <3>4
  <2> QED
    BY <2>1, <2>2
<1> HIDE DEF e, C, g
<1>7. [h EXCEPT ![i][k] = g] = [h EXCEPT ![i] = hs]
  OBVIOUS
<1> HIDE DEF hs
<1>8. Tab(V, [h EXCEPT ![i] = hs])
  BY <1>2, <1>5, TabSet
<1> HIDE DEF V
<1>9. Reports(V, O, od)
  BY <1>4, <1>6, ReportsLonger
<1> QED
  BY <1>4, <1>7, <1>8, <1>9, FineIs

LEMMA FineFrame ==
  ASSUME NEW s, NEW od, Fine(s, od), NEW f \in Frame
  PROVE  Fine(accept_frame(s, f), od)
<1>1. CASE f.metric = ES_METRIC_WATERMARK
  <2>1. accept_frame(s, f) = emit_silence(s, f.timestamp)
    BY <1>1 DEF accept_frame
  <2> QED
    BY <2>1, FineSilence
<1>2. CASE f.metric # ES_METRIC_WATERMARK /\ f.metric >= ES_MAX_METRICS
  <2>1. accept_frame(s, f) = emit_reject(s, "metric")
    BY <1>2 DEF accept_frame
  <2> QED
    BY <2>1, FineReject
<1>3. CASE f.metric # ES_METRIC_WATERMARK /\ ~(f.metric >= ES_MAX_METRICS)
  <2>0. f.metric \in Metrics
    <3>1. f.metric \in Nat
      BY DEF Frame
    <3> QED
      BY <1>3, <3>1, SizesAssumption DEF Metrics
  <2> DEFINE i == find_device(s.p, f.device)
             d == Found(s.p.devices[i], f)
             t == [s EXCEPT !.p.devices[i] = d,
                     !.history[i] = IF f.restart THEN [m \in Metrics |-> <<>>] ELSE @]
  <2>1. CASE i = 0
    <3>1. accept_frame(s, f) = emit_with(s, "resource_limit", f.device, "active_devices", <<>>)
      BY <1>3, <2>1 DEF accept_frame, emit
    <3> QED
      BY <3>1, FineEmit
  <2>2. CASE i # 0
    <3>1. accept_frame(s, f) =
            IF Duplicate(d, f) THEN emit(t, "duplicate", f.device, "duplicate")
            ELSE IF Late(d, f) THEN emit(t, "late", f.device, "late")
            ELSE AcceptEvent(t, i, d, f)
      BY <1>3, <2>2 DEF accept_frame
    <3>2. PICK b, dv, a, r, o, h : s = Mk(b, dv, a, r, o, h)
      BY DEF Fine, IsProc
    <3>3. Tab(dv, h) /\ Reports(dv, o, od)
      BY <3>2, FineIs
    <3>4. s.p.devices = dv /\ s.history = h
      BY <3>2, MkIs
    <3>5. /\ i \in Slots
          /\ \/ dv[i].used /\ dv[i].device_id = f.device
             \/ ~dv[i].used /\ \A j \in Slots : ~(dv[j].used /\ dv[j].device_id = f.device)
      BY <2>2, <3>4, FindIs
    <3> HIDE DEF i
    <3> DEFINE hs == IF f.restart THEN NoHistory ELSE h[i]
               V == [dv EXCEPT ![i] = d]
               H == [h EXCEPT ![i] = hs]
    <3>6. Tab(V, H) /\ Reports(V, o, od) /\ d.used /\ d.device_id = f.device
      <4>1. d = Found(dv[i], f)
        BY <3>4
      <4> HIDE DEF d
      <4> QED
        BY <3>3, <3>5, <4>1, FineTaken
    <3>7. t = Mk(b, V, a, r, o, H)
      <4> DEFINE z == Mk(b, dv, a, r, o, h)
      <4> HIDE DEF d
      <4>1. t = [z EXCEPT !.p.devices[i] = d, !.history[i] = hs]
        BY <3>2, <3>4 DEF NoHistory
      <4> HIDE DEF hs, t
      <4> QED
        BY <4>1 DEF Mk
    <3> HIDE DEF t, H, d
    <3>8. Fine(t, od)
      BY <3>6, <3>7, FineIs
    <3>9. t.p.devices[i] = d
      <4>1. V[i] = d
        BY <3>3, <3>5 DEF Tab, IsFun
      <4> HIDE DEF V
      <4> QED
        BY <3>7, <4>1, MkIs
    <3>10. Fine(AcceptEvent(t, i, d, f), od)
      BY <2>0, <3>5, <3>6, <3>8, <3>9, FineEvent
    <3>11. Fine(emit(t, "duplicate", f.device, "duplicate"), od) /\ Fine(emit(t, "late", f.device, "late"), od)
      BY <3>8, FineEmit DEF emit
    <3> QED
      BY <3>1, <3>10, <3>11
  <2> QED
    BY <2>1, <2>2
<1> QED
  BY <1>1, <1>2, <1>3

LEMMA FineProcess ==
  ASSUME NEW s, NEW od, Fine(s, od), NEW f \in Frame
  PROVE  Fine(Process(s, f), od)
<1>1. CASE f.version \notin {1, 2}
  BY <1>1, FineReject DEF Process
<1>2. CASE f.version \in {1, 2} /\ ~f.crc
  BY <1>2, FineReject DEF Process
<1>3. CASE f.version \in {1, 2} /\ f.crc
  BY <1>3, FineFrame DEF Process
<1> QED
  BY <1>1, <1>2, <1>3

(* The loop of es_process_bytes.                                           *)
Runs(x, b, od) ==
  \E t, o : /\ x = On(t, o) \/ x = Off(t, o)
            /\ Fine(t, od) /\ t.p.buffer = b /\ o \in Nat

LEMMA RunsStep ==
  ASSUME NEW x, NEW b \in Seq(Symbols), NEW od, Runs(x, b, od)
  PROVE  Runs(ParseStep(x), b, od)
<1>1. PICK t, o : /\ x = On(t, o) \/ x = Off(t, o)
                  /\ Fine(t, od) /\ t.p.buffer = b /\ o \in Nat
  BY DEF Runs
<1>2. IsProc(t)
  BY <1>1 DEF Fine
<1>3. /\ ParseStep(Off(t, o)) = Off(t, o)
      /\ Decide(b, o) = "stop" => ParseStep(On(t, o)) = Off(t, o)
      /\ Decide(b, o) = "frame" =>
           ParseStep(On(t, o)) = On(Process(t, b[o + 4].frame), o + FrameSize)
      /\ Decide(b, o) \in {"junk", "length"} =>
           ParseStep(On(t, o)) = On(emit_reject(t, Decide(b, o)), o + 1)
      /\ Decide(b, o) \in {"stop", "frame", "junk", "length"}
  BY <1>1, StepIs
<1>4. CASE x = Off(t, o)
  BY <1>1, <1>3, <1>4 DEF Runs
<1>5. CASE x = On(t, o) /\ Decide(b, o) = "stop"
  <2>1. ParseStep(x) = Off(t, o)
    BY <1>3, <1>5
  <2> QED
    BY <1>1, <2>1 DEF Runs
<1>6. CASE x = On(t, o) /\ Decide(b, o) = "frame"
  <2> DEFINE f == b[o + 4].frame
             u == Process(t, f)
  <2>1. f \in Frame
    <3>1. Len(b) - o >= 4 /\ Len(b) \in Nat
      BY <1>1, <1>6 DEF Decide, FrameSize, HeaderSize
    <3>2. o + 4 \in 1..Len(b)
      BY <1>1, <3>1
    <3>3. b[o + 4] \in Symbols
      BY <3>2
    <3> QED
      BY <3>3 DEF Symbols
  <2> HIDE DEF f
  <2>2. Fine(u, od)
    BY <1>1, <2>1, FineProcess
  <2>3. u.p.buffer = b
    BY <1>1, <1>2, ProcessBlind
  <2>4. ParseStep(x) = On(u, o + FrameSize) /\ o + FrameSize \in Nat
    BY <1>1, <1>3, <1>6 DEF f, FrameSize
  <2> HIDE DEF u
  <2> QED
    BY <2>2, <2>3, <2>4 DEF Runs
<1>7. CASE x = On(t, o) /\ Decide(b, o) \in {"junk", "length"}
  <2> DEFINE u == emit_reject(t, Decide(b, o))
  <2>1. Fine(u, od)
    BY <1>1, FineReject
  <2>2. u.p.buffer = b
    BY <1>1, <1>2, RejectBlind
  <2>3. ParseStep(x) = On(u, o + 1) /\ o + 1 \in Nat
    BY <1>1, <1>3, <1>7
  <2> HIDE DEF u
  <2> QED
    BY <2>1, <2>2, <2>3 DEF Runs
<1> QED
  BY <1>1, <1>3, <1>4, <1>5, <1>6, <1>7

LEMMA FineParse ==
  ASSUME NEW s, NEW od, Fine(s, od), NEW b \in Seq(Symbols), b = s.p.buffer
  PROVE  Fine(ParseBuffer(s), od)
<1>0. IsProc(s)
  BY DEF Fine
<1>1. PICK st, j, t, o : Parsed(s, b, st, j, t, o)
  BY <1>0, ParseBufferIs
<1> DEFINE N == Len(b) + 1
           T == {i \in 0..N : ~Runs(st[i], b, od)}
<1>2. N \in Nat /\ Parsing(s, N, st) /\ st[N] = Off(t, o)
      /\ ParseBuffer(s) = With(t, SubSeq(b, o + 1, Len(b)))
  BY <1>1 DEF Parsed
<1> HIDE DEF N
<1>3. T = {}
  <2> SUFFICES ASSUME T # {} PROVE FALSE
    OBVIOUS
  <2>0. T \subseteq Nat
    BY <1>2
  <2>1. PICK i \in T : \A k \in T : ~(k < i)
    BY <2>0, LeastNatural, Zenon
  <2>2. i \in 0..N /\ ~Runs(st[i], b, od)
    BY <2>1
  <2>3. CASE i = 0
    <3>1. st[0] = On(s, 0)
      BY <1>2 DEF Parsing
    <3>2. Runs(On(s, 0), b, od)
      BY Zenon, 0 \in Nat DEF Runs
    <3> QED
      BY <2>2, <2>3, <3>1, <3>2
  <2>4. CASE i # 0
    <3>1. i \in Nat /\ i - 1 \in 0..N /\ i - 1 < i
      BY <1>2, <2>2, <2>4
    <3>2. Runs(st[i - 1], b, od)
      BY <2>1, <3>1
    <3>3. st[i] = ParseStep(st[i - 1])
      <4> HIDE DEF T
      <4> QED
        BY <1>2, <2>2, <2>4, <3>1 DEF Parsing
    <3> QED
      BY <2>2, <3>2, <3>3, RunsStep
  <2> QED
    BY <2>3, <2>4
<1>4. Runs(Off(t, o), b, od)
  <2>1. N \in 0..N
    BY <1>2
  <2> QED
    BY <1>2, <1>3, <2>1
<1>5. PICK u, q : /\ Off(t, o) = On(u, q) \/ Off(t, o) = Off(u, q)
                  /\ Fine(u, od)
  BY <1>4 DEF Runs
<1>6. Fine(t, od)
  BY <1>5, LoopParts
<1> QED
  BY <1>2, <1>6, FineWith

-----------------------------------------------------------------------------
(* A saved content from which a run may start.                             *)
Restorable(k) == Tab(k.p.devices, k.history) /\ Distinct(k.p.devices)

(* The state a run started from, the processor since, and what the next    *)
(* run would start from.                                                   *)
ProcessorInvariant ==
  /\ Fine(origin, origin.p.devices) /\ Fine(proc, origin.p.devices)
  /\ saved # <<>> => Restorable(saved[Len(saved)])

(* A processor that has reported nothing.                                  *)
LEMMA FineFresh ==
  ASSUME NEW b, NEW dv, NEW a, NEW r, NEW h, Tab(dv, h), Distinct(dv)
  PROVE  Fine(Mk(b, dv, a, r, <<>>, h), dv)
<1> DEFINE o == <<>>
<1>1. o \in Seq({}) /\ Len(o) = 0 /\ 1..Len(o) = {}
  OBVIOUS
<1> HIDE DEF o
<1>2. ASSUME NEW i \in Slots
      PROVE  Alternates(o, dv[i].device_id, Say(dv[i].silence_alarm), Say(dv[i].silence_alarm))
  <2>1. \A k \in 1..Len(o) : ~IsSilence(o[k], dv[i].device_id)
    BY <1>1
  <2> QED
    BY <1>1, <2>1, AlternatesNever
<1>3. \A i \in Slots : ~dv[i].used => ~dv[i].silence_alarm
  BY DEF Tab, Kept
<1>4. \E C : o \in Seq(C)
  BY <1>1
<1>5. \A k \in 1..Len(o) : o[k].type = "silence" => \E i \in Slots : Speaks(o[k], dv[i])
  BY <1>1
<1>6. Reports(dv, o, dv)
  BY <1>2, <1>3, <1>4, <1>5 DEF Reports
<1> QED
  BY <1>6, FineIs DEF o

LEMMA FineInit == Fine(es_init, es_init.p.devices)
<1> DEFINE dv == [i \in Slots |-> NoDevice]
           h == [i \in Slots |-> NoHistory]
<1>1. es_init = Mk(<<>>, dv, 0, 0, <<>>, h)
  BY DEF es_init, Mk, NoHistory
<1>2. IsFun(dv, Slots) /\ IsFun(h, Slots) /\ \A i \in Slots : dv[i] = NoDevice /\ h[i] = NoHistory
  BY DEF IsFun
<1> HIDE DEF dv, h
<1>3. Tab(dv, h)
  BY <1>2, NoDeviceIs DEF Tab
<1>4. ~NoDevice.used
  <2>1. ASSUME NEW d, d = MkD(No, No, No, 0, 0, 0, [m \in Metrics |-> NoMetric])
        PROVE  d.used = No
    BY <2>1, MkDIs
  <2>2. NoDevice.used = No
    BY <2>1, NoDeviceIs
  <2> QED
    BY <2>2, YesNo
<1>5. Distinct(dv)
  BY <1>2, <1>4 DEF Distinct
<1>6. Fine(Mk(<<>>, dv, 0, 0, <<>>, h), dv)
  BY <1>3, <1>5, FineFresh
<1>7. es_init.p.devices = dv
  BY <1>1, MkIs
<1> QED
  BY <1>1, <1>6, <1>7

(* es_restore and the report of it.                                        *)
LEMMA FineRestored ==
  ASSUME NEW k, IsContent(k), Restorable(k)
  PROVE  LET s == emit([p |-> k.p, out |-> <<>>, history |-> k.history], "recovery", 0, "PASS")
         IN Fine(s, s.p.devices)
<1>1. PICK dv, a, r, h : k = [p |-> Mk(<<>>, dv, a, r, <<>>, h).p, history |-> h]
  BY DEF IsContent
<1> DEFINE t == [p |-> k.p, out |-> <<>>, history |-> k.history]
           s == emit(t, "recovery", 0, "PASS")
<1>2. t = Mk(<<>>, dv, a, r, <<>>, h)
  BY <1>1 DEF Mk
<1>3. k.p.devices = dv /\ k.history = h
  BY <1>1, MkIs
<1>4. Fine(t, dv)
  BY <1>2, <1>3, FineFresh DEF Restorable
<1>5. IsProc(t) /\ t.p.devices = dv
  BY <1>2, MkIs
<1> HIDE DEF t
<1>6. Fine(s, dv) /\ s.p = t.p
  BY <1>4, <1>5, FineEmit, EmitBlind DEF emit
<1> HIDE DEF s
<1>7. Fine(s, s.p.devices)
  BY <1>5, <1>6
<1> QED
  BY <1>7 DEF s, t

LEMMA ProcessorInit ==
  ASSUME Init PROVE ProcessorInvariant
BY FineInit DEF Init, ProcessorInvariant

LEMMA StartKeepsProcessor ==
  ASSUME RunnerInvariant, ProcessorInvariant, NEW checkpoint_in \in BOOLEAN, start(checkpoint_in)
  PROVE  ProcessorInvariant'
<1>0. UNCHANGED saved
  BY DEF start
<1>1. CASE origin' = es_init /\ proc' = es_init
  BY <1>0, <1>1, FineInit DEF ProcessorInvariant
<1>2. CASE /\ es_restore
           /\ proc' = emit([p |-> disk[1].content.p, out |-> <<>>,
                            history |-> disk[1].content.history], "recovery", 0, "PASS")
           /\ origin' = proc'
  <2> DEFINE k == saved[Len(saved)]
  <2>1. saved # <<>> /\ IsContent(k) /\ disk = Sound(k)
    <3>1. disk # <<>> /\ disk[1].crc
      BY <1>2 DEF es_restore
    <3>2. ~\E j : disk = Broken(j)
      BY <3>1, FileIs
    <3> QED
      BY <3>1, <3>2 DEF RunnerInvariant, DiskInvariant
  <2>2. disk[1].content = k
    BY <2>1, FileIs
  <2>3. Restorable(k)
    BY <2>1 DEF ProcessorInvariant
  <2> HIDE DEF k
  <2> DEFINE s == emit([p |-> k.p, out |-> <<>>, history |-> k.history], "recovery", 0, "PASS")
  <2>4. Fine(s, s.p.devices)
    BY <2>1, <2>3, FineRestored
  <2>5. proc' = s /\ origin' = s
    BY <1>2, <2>2
  <2> HIDE DEF s
  <2> QED
    BY <1>0, <2>4, <2>5 DEF ProcessorInvariant
<1>3. CASE UNCHANGED <<origin, proc>>
  BY <1>0, <1>3 DEF ProcessorInvariant
<1> QED
  BY <1>1, <1>2, <1>3 DEF start

(* What a delivery leaves is, by FragmentationIndependent, one parse of    *)
(* everything delivered.                                                   *)
LEMMA DeliverKeepsProcessor ==
  ASSUME RunnerInvariant, ProcessorInvariant, NEW n \in 1..(ES_MAX_BUFFER \div 2), deliver(n)
  PROVE  ProcessorInvariant'
<1>0. /\ RunnerInvariant' /\ pc' = "reading" /\ UNCHANGED <<origin, saved>>
  BY DeliverKeeps DEF deliver
<1> DEFINE b == SubSeq(stream', 1, position')
<1>1. proc' = ParseBuffer([origin EXCEPT !.p.buffer = @ \o b])
  BY <1>0 DEF RunnerInvariant, FragmentationIndependent
<1>2. /\ stream' \in Seq(Symbols) /\ Len(stream') \in Nat /\ position' \in 0..Len(stream')
      /\ IsProc(origin) /\ origin.p.buffer = <<>>
  BY <1>0, StreamsAssumption DEF RunnerInvariant, ShapeInvariant
<1>3. b \in Seq(Symbols)
  <2>1. \A i \in 1..position' : stream'[i] \in Symbols
    BY <1>2
  <2> QED
    BY <1>2, <2>1, SubSeqProperties
<1> HIDE DEF b
<1>4. <<>> \o b = b
  BY <1>3, ConcatEmptySeq
<1>5. [origin EXCEPT !.p.buffer = @ \o b] = With(origin, b) /\ With(origin, b).p.buffer = b
  BY <1>2, <1>4, WithIs
<1>6. Fine(With(origin, b), origin.p.devices)
  BY FineWith DEF ProcessorInvariant
<1>7. Fine(ParseBuffer(With(origin, b)), origin.p.devices)
  BY <1>3, <1>5, <1>6, FineParse
<1> QED
  BY <1>0, <1>1, <1>5, <1>7 DEF ProcessorInvariant

LEMMA FinishKeepsProcessor ==
  ASSUME ProcessorInvariant, finish
  PROVE  ProcessorInvariant'
<1> DEFINE od == origin.p.devices
<1>0. UNCHANGED <<origin, saved>> /\ proc' = es_finish(proc) /\ Fine(proc, od)
  BY DEF finish, ProcessorInvariant
<1> HIDE DEF od
<1>1. Fine(es_finish(proc), od)
  <2>1. CASE proc.p.buffer = <<>>
    BY <1>0, <2>1 DEF es_finish
  <2>2. CASE proc.p.buffer # <<>>
    <3> DEFINE s == emit_reject(proc, "truncated")
    <3>1. es_finish(proc) = [s EXCEPT !.p.buffer = <<>>]
      BY <2>2 DEF es_finish
    <3>2. Fine(s, od)
      BY <1>0, FineReject
    <3> HIDE DEF s
    <3>3. IsProc(s)
      BY <3>2 DEF Fine
    <3>4. [s EXCEPT !.p.buffer = <<>>] = With(s, <<>>)
      BY <3>3, WithIs
    <3>5. Fine(With(s, <<>>), od)
      BY <3>2, FineWith
    <3> QED
      BY <3>1, <3>4, <3>5
  <2> QED
    BY <2>1, <2>2
<1> QED
  BY <1>0, <1>1 DEF ProcessorInvariant, od

LEMMA CheckpointKeepsProcessor ==
  ASSUME ProcessorInvariant, es_checkpoint \/ es_checkpoint_fails
  PROVE  ProcessorInvariant'
<1>0. /\ UNCHANGED <<origin, saved>>
      /\ proc' = proc \/ proc' = emit_with(proc, "checkpoint", 0, "FAIL", <<>>)
  BY DEF es_checkpoint, es_checkpoint_fails, emit
<1>1. Fine(emit_with(proc, "checkpoint", 0, "FAIL", <<>>), origin.p.devices)
  BY FineEmit DEF ProcessorInvariant
<1> QED
  BY <1>0, <1>1 DEF ProcessorInvariant

LEMMA RenameKeepsProcessor ==
  ASSUME RunnerInvariant, ProcessorInvariant, rename
  PROVE  ProcessorInvariant'
<1>0. UNCHANGED origin
  BY DEF rename
<1>1. ASSUME NEW text
      PROVE  Fine(emit(proc, "checkpoint", 0, text), origin.p.devices)
  BY FineEmit DEF ProcessorInvariant, emit
<1>2. CASE saved' = Append(saved, Content) /\ UNCHANGED proc
  <2> DEFINE k == [p |-> proc.p, history |-> proc.history]
  <2>1. Tab(proc.p.devices, proc.history) /\ Distinct(proc.p.devices)
    BY DEF ProcessorInvariant, Fine, Reports
  <2>2. k.p = proc.p /\ k.history = proc.history
    OBVIOUS
  <2>3. saved' = Append(saved, k)
    BY <1>2 DEF Content
  <2> HIDE DEF k
  <2>4. Restorable(k)
    BY <2>1, <2>2 DEF Restorable
  <2>5. PICK C : saved \in Seq(C)
    BY DEF RunnerInvariant, ShapeInvariant
  <2>6. saved'[Len(saved')] = k
    BY <2>3, <2>5, SavedGrows
  <2> QED
    BY <1>0, <1>1, <1>2, <2>4, <2>6 DEF ProcessorInvariant
<1>3. CASE proc' = emit(proc, "checkpoint", 0, "FAIL") /\ UNCHANGED saved
  BY <1>0, <1>1, <1>3 DEF ProcessorInvariant
<1> QED
  BY <1>2, <1>3 DEF rename

(* The windows, the high alarms and the silence alarms of es_processor     *)
(* follow what was accepted and reported, in every behaviour: through      *)
(* restarts, taken slots, watermarks, checkpoints and recoveries.          *)
THEOREM ProcessorInvariance == Spec => []ProcessorInvariant
<1>1. Init => ProcessorInvariant
  BY ProcessorInit
<1>2. RunnerInvariant /\ ProcessorInvariant /\ [Next]_vars => ProcessorInvariant'
  <2> SUFFICES ASSUME RunnerInvariant, ProcessorInvariant, [Next]_vars PROVE ProcessorInvariant'
    OBVIOUS
  <2>1. ASSUME NEW checkpoint_in \in BOOLEAN, start(checkpoint_in) PROVE ProcessorInvariant'
    BY <2>1, StartKeepsProcessor
  <2>2. ASSUME NEW n \in 1..(ES_MAX_BUFFER \div 2), deliver(n) PROVE ProcessorInvariant'
    BY <2>2, DeliverKeepsProcessor
  <2>3. CASE finish
    BY <2>3, FinishKeepsProcessor
  <2>4. CASE es_checkpoint_fails \/ es_checkpoint
    BY <2>4, CheckpointKeepsProcessor
  <2>5. CASE rename
    BY <2>5, RenameKeepsProcessor
  <2>9. CASE report
    BY <2>9, FineEmit DEF report, emit, ProcessorInvariant
  <2>6. CASE stop
    BY <2>6, FineInit DEF stop, ProcessorInvariant
  <2>7. CASE corrupt
    BY <2>7 DEF corrupt, ProcessorInvariant
  <2>8. CASE UNCHANGED vars
    BY <2>8 DEF vars, ProcessorInvariant
  <2> QED
    BY <2>1, <2>2, <2>3, <2>4, <2>5, <2>6, <2>7, <2>8, <2>9 DEF Next
<1> QED
  BY <1>1, <1>2, RunnerInvariance, PTL DEF Spec

-----------------------------------------------------------------------------
(* What the invariant says of one window.                                  *)
LEMMA AgreeSays ==
  ASSUME NEW w, NEW h, Agree(w, h)
  PROVE  /\ w.high_alarm <=> High(h)
         /\ w.count = IF Len(h) < ES_WINDOW_SAMPLES THEN Len(h) ELSE ES_WINDOW_SAMPLES
         /\ \A k \in 1..w.count :
              w.values[(w.next - k) % ES_WINDOW_SAMPLES] = Int32(h[Len(h) - k + 1])
<1>1. PICK v, n, x, a : /\ w = MkM(v, n, x, a) /\ Holds(v, n, x, h) /\ Totals(v, n, h)
                        /\ a \in BOOLEAN /\ (a = TRUE <=> High(h))
  BY DEF Agree
<1>2. w.values = v /\ w.count = n /\ w.next = x /\ w.high_alarm = a
  BY <1>1, MkMIs
<1>3. x \in Ring /\ n \in 0..W /\ W \in Nat
  BY <1>1, WindowSize DEF Holds
<1>4. \A k \in 1..n : (x - k) % ES_WINDOW_SAMPLES = Back(x, k)
  <2>1. 1..n \subseteq 1..W
    BY <1>3
  <2> QED
    BY <1>3, <2>1, RingSteps
<1>5. n = IF Len(h) < ES_WINDOW_SAMPLES THEN Len(h) ELSE ES_WINDOW_SAMPLES
  BY <1>1, WindowSize DEF Holds
<1>6. \A k \in 1..n : v[Back(x, k)] = Int32(h[Len(h) - k + 1])
  BY <1>1 DEF Holds
<1>7. a <=> High(h)
  BY <1>1, Zenon
<1>8. w.high_alarm <=> High(h)
  BY <1>2, <1>7, Zenon
<1>9. \A k \in 1..n : v[(x - k) % ES_WINDOW_SAMPLES] = Int32(h[Len(h) - k + 1])
  BY <1>4, <1>6
<1> QED
  BY <1>2, <1>5, <1>8, <1>9

LEMMA WindowsAgree ==
  ASSUME ProcessorInvariant, NEW i \in Slots, NEW m \in Metrics
  PROVE  Agree(proc.p.devices[i].metrics[m], proc.history[i][m])
BY DEF ProcessorInvariant, Fine, Tab, Kept

LEMMA FitsIs ==
  ASSUME NEW v \in Int, Fits(v)
  PROVE  Int32(v) = v
<1>1. (v + Int32Limit) % (2 * Int32Limit) = v + Int32Limit
  <2>1. Int32Limit \in Nat /\ Int32Limit # 0
    BY SizesAssumption
  <2> DEFINE u == v + Int32Limit
             d == 2 * Int32Limit
  <2>2. u \in Nat /\ d \in Nat \ {0} /\ u < d
    BY <2>1 DEF Fits
  <2> HIDE DEF u, d
  <2>3. u % d = u
    BY <2>2
  <2> QED
    BY <2>3 DEF u, d
<1> QED
  BY <1>1, SizesAssumption DEF Int32

(* WindowIsHistory for every stream and every window size: the ring that   *)
(* accept_frame writes holds the last values accepted, in the order of     *)
(* the ring, and no more than were accepted since the last restart; each   *)
(* of them that an int32 can hold is there as it was reported.             *)
THEOREM WindowTheorem == Spec => []WindowIsHistory
<1>1. ProcessorInvariant => WindowIsHistory
  <2> SUFFICES ASSUME ProcessorInvariant, NEW i \in Slots, NEW m \in Metrics
               PROVE  LET w == proc.p.devices[i].metrics[m]
                          h == proc.history[i][m]
                      IN /\ w.count = IF Len(h) < ES_WINDOW_SAMPLES THEN Len(h)
                                      ELSE ES_WINDOW_SAMPLES
                         /\ \A k \in 1..w.count : Fits(h[Len(h) - k + 1]) =>
                              Retained(w, k) = h[Len(h) - k + 1]
    BY DEF WindowIsHistory
  <2> DEFINE w == proc.p.devices[i].metrics[m]
             h == proc.history[i][m]
  <2>1. Agree(w, h)
    BY WindowsAgree
  <2>2. h \in Seq(Int) /\ Len(h) \in Nat
    BY <2>1 DEF Agree, Holds
  <2> HIDE DEF w, h
  <2>3. /\ w.count = IF Len(h) < ES_WINDOW_SAMPLES THEN Len(h) ELSE ES_WINDOW_SAMPLES
        /\ \A k \in 1..w.count :
             w.values[(w.next - k) % ES_WINDOW_SAMPLES] = Int32(h[Len(h) - k + 1])
    BY <2>1, AgreeSays
  <2>4. ASSUME NEW k \in 1..w.count, Fits(h[Len(h) - k + 1])
        PROVE  Retained(w, k) = h[Len(h) - k + 1]
    <3>1. Len(h) - k + 1 \in 1..Len(h)
      BY <2>2, <2>3, <2>4, SizesAssumption
    <3>2. h[Len(h) - k + 1] \in Int
      BY <2>2, <3>1
    <3> QED
      BY <2>3, <2>4, <3>2, FitsIs DEF Retained
  <2> QED
    BY <2>3, <2>4 DEF w, h
<1> QED
  BY <1>1, ProcessorInvariance, PTL

(* HighAlarmFollowsHistory for every stream, window and pair of limits:    *)
(* the alarm accept_frame keeps is up exactly when some average of what    *)
(* was accepted since the restart went above the limit and none since came *)
(* down to the clearing point, if an int32 can hold all of it.             *)
THEOREM HighAlarmTheorem == Spec => []HighAlarmFollowsHistory
<1>1. ProcessorInvariant => HighAlarmFollowsHistory
  <2>1. ASSUME ProcessorInvariant, NEW i \in Slots, NEW m \in Metrics
        PROVE  proc.p.devices[i].metrics[m].high_alarm <=> High(proc.history[i][m])
    <3>1. Agree(proc.p.devices[i].metrics[m], proc.history[i][m])
      BY <2>1, WindowsAgree
    <3>2. \A w, h : Agree(w, h) => (w.high_alarm <=> High(h))
      BY AgreeSays
    <3> QED
      BY <3>1, <3>2, Zenon
  <2>2. ASSUME ProcessorInvariant, NEW i \in Slots, NEW m \in Metrics,
               \A k \in 1..Len(proc.history[i][m]) : Fits(proc.history[i][m][k])
        PROVE  Stored(proc.history[i][m]) = proc.history[i][m]
    <3> DEFINE h == proc.history[i][m]
    <3>1. h \in Seq(Int)
      BY <2>2, WindowsAgree DEF Agree, Holds
    <3> HIDE DEF h
    <3>2. \A k \in 1..Len(h) : h[k] \in Int /\ Fits(h[k])
      BY <2>2, <3>1 DEF h
    <3>3. \A k \in 1..Len(h) : Int32(h[k]) = h[k]
      BY <3>2, FitsIs
    <3>4. Stored(h) = h
      BY <3>1, <3>3 DEF Stored
    <3> QED
      BY <3>4 DEF h
  <2> QED
    BY <2>1, <2>2, Zenon DEF HighAlarmFollowsHistory, High, StoredAfter
<1> QED
  BY <1>1, ProcessorInvariance, PTL

(* There is one way to read the records.                                   *)
LEMMA TellsOnce ==
  ASSUME NEW C, NEW o \in Seq(C), NEW id, NEW first, NEW T, NEW U,
         Tells(o, id, first, T), Tells(o, id, first, U)
  PROVE  T = U
<1> DEFINE n == Len(o)
<1>0. n \in Nat
  OBVIOUS
<1> HIDE DEF n
<1> DEFINE D == {k \in 0..n : T[k] # U[k]}
<1>1. /\ T = [k \in 0..n |-> IF k = 0 THEN first ELSE IF IsSilence(o[k], id) THEN o[k].text ELSE T[k - 1]]
      /\ U = [k \in 0..n |-> IF k = 0 THEN first ELSE IF IsSilence(o[k], id) THEN o[k].text ELSE U[k - 1]]
  BY DEF Tells, n
<1>2. D = {}
  <2> SUFFICES ASSUME D # {} PROVE FALSE
    OBVIOUS
  <2>0. D \subseteq Nat
    BY <1>0
  <2>1. PICK k \in D : \A j \in D : ~(j < k)
    BY <2>0, LeastNatural, Zenon
  <2>2. k \in 0..n /\ T[k] # U[k]
    BY <2>1
  <2>3. k # 0
    BY <1>1, <2>2
  <2>4. k - 1 \in 0..n /\ k - 1 < k
    BY <1>0, <2>2, <2>3
  <2>5. T[k - 1] = U[k - 1]
    BY <2>1, <2>4
  <2> HIDE DEF D
  <2> QED
    BY <1>1, <2>2, <2>3, <2>5
<1>3. \A k \in 0..n : T[k] = U[k]
  BY <1>2
<1> QED
  BY <1>1, <1>3

(* SilenceReportsAlternate for every stream and every table: emit_silence  *)
(* and accept_frame report each change of a silence alarm once, and a run  *)
(* that restores a checkpoint goes on from the alarm it restored.          *)
THEOREM SilenceTheorem == Spec => []SilenceReportsAlternate
<1>1. ProcessorInvariant => SilenceReportsAlternate
  <2> SUFFICES ASSUME ProcessorInvariant PROVE SilenceReportsAlternate
    OBVIOUS
  <2> DEFINE o == proc.out
             dv == proc.p.devices
             od == origin.p.devices
             told(i) == CHOOSE T : Tells(o, dv[i].device_id, Say(od[i].silence_alarm), T)
  <2>1. ASSUME NEW i \in Slots, dv[i].used
        PROVE  /\ \A k \in 1..Len(o) :
                    IsSilence(o[k], dv[i].device_id) => told(i)[k] # told(i)[k - 1]
               /\ told(i)[Len(o)] = Say(dv[i].silence_alarm)
    <3> DEFINE id == dv[i].device_id
               first == Say(od[i].silence_alarm)
               now == Say(dv[i].silence_alarm)
    <3>1. Alternates(o, id, first, now) /\ \E C : o \in Seq(C)
      BY <2>1 DEF ProcessorInvariant, Fine, Reports
    <3>2. told(i) = CHOOSE T : Tells(o, id, first, T)
      OBVIOUS
    <3> HIDE DEF o, id, first, now, told
    <3>3. PICK C : o \in Seq(C)
      BY <3>1
    <3>4. PICK T : /\ Tells(o, id, first, T)
                   /\ \A k \in 1..Len(o) : IsSilence(o[k], id) => T[k] # T[k - 1]
                   /\ T[Len(o)] = now
      BY <3>1 DEF Alternates
    <3>5. Tells(o, id, first, told(i))
      BY <3>2, <3>4, Zenon
    <3>6. told(i) = T
      BY <3>3, <3>4, <3>5, TellsOnce
    <3> QED
      BY <3>4, <3>6 DEF id, now
  <2> QED
    BY <2>1, Zenon DEF SilenceReportsAlternate, Tells, Say
<1> QED
  BY <1>1, ProcessorInvariance, PTL

-----------------------------------------------------------------------------
(* The adapter, record by record.                                          *)

Adapting(o, n, a) ==
  a = [i \in 0..n |-> IF i = 0 THEN EdgeStreamTelemetryAdapter ELSE accept(a[i - 1], o[i])]

Fed(o) == (CHOOSE a : Adapting(o, Len(o), a))[Len(o)]

LEMMA AdaptingExists ==
  ASSUME NEW o
  PROVE  \A n \in Nat : \E a : Adapting(o, n, a)
<1> DEFINE T == {n \in Nat : ~\E a : Adapting(o, n, a)}
<1> SUFFICES ASSUME T # {} PROVE FALSE
  OBVIOUS
<1>1. PICK n \in T : \A m \in T : ~(m < n)
  BY LeastNatural
<1>2. CASE n = 0
  <2>1. Adapting(o, 0, [i \in 0..0 |-> EdgeStreamTelemetryAdapter])
    BY DEF Adapting
  <2> QED
    BY <1>2, <2>1
<1>3. CASE n # 0
  <2>1. n - 1 \in Nat /\ n - 1 \notin T
    BY <1>1, <1>3
  <2>2. PICK v : Adapting(o, n - 1, v)
    BY <2>1
  <2> DEFINE w == [i \in 0..n |-> IF i = n THEN accept(v[n - 1], o[n]) ELSE v[i]]
  <2>3. \A i \in 0..n : w[i] = IF i = 0 THEN EdgeStreamTelemetryAdapter ELSE accept(w[i - 1], o[i])
    BY <1>3, <2>1, <2>2 DEF Adapting
  <2>4. Adapting(o, n, w)
    BY <2>3 DEF Adapting
  <2> QED
    BY <2>4
<1> QED
  BY <1>2, <1>3

LEMMA FedIs ==
  ASSUME NEW o, Len(o) \in Nat
  PROVE  /\ \E a : Adapting(o, Len(o), a) /\ Fed(o) = a[Len(o)]
         /\ Adapted(o) = IF Fed(o).error = "none" /\ DOMAIN Fed(o).pending # {}
                         THEN [Fed(o) EXCEPT !.error = "incomplete"] ELSE Fed(o)
<1> DEFINE a == CHOOSE x : Adapting(o, Len(o), x)
<1>1. Adapted(o) = IF a[Len(o)].error = "none" /\ DOMAIN a[Len(o)].pending # {}
                   THEN [a[Len(o)] EXCEPT !.error = "incomplete"] ELSE a[Len(o)]
  BY DEF Adapted, Adapting
<1>2. \E x : Adapting(o, Len(o), x)
  BY AdaptingExists
<1>3. Adapting(o, Len(o), a)
  BY <1>2, Zenon
<1>4. Fed(o) = a[Len(o)]
  BY DEF Fed
<1> HIDE DEF a
<1> QED
  BY <1>1, <1>3, <1>4

LEMMA FedNone == Fed(<<>>) = EdgeStreamTelemetryAdapter
<1>1. Len(<<>>) = 0
  OBVIOUS
<1> DEFINE o == <<>>
<1>2. Len(o) = 0
  BY <1>1
<1> HIDE DEF o
<1>3. PICK a : Adapting(o, 0, a) /\ Fed(o) = a[0]
  BY <1>2, FedIs
<1> QED
  BY <1>3 DEF Adapting, o

LEMMA FedGrown ==
  ASSUME NEW C, NEW o \in Seq(C), NEW x
  PROVE  Fed(Append(o, x)) = accept(Fed(o), x)
<1> DEFINE n == Len(o)
           O == Append(o, x)
<1>1. /\ n \in Nat /\ Len(O) = n + 1 /\ O[n + 1] = x
      /\ \A k \in 1..n : O[k] = o[k]
  BY GrownIs
<1> HIDE DEF n, O
<1>2. PICK a : Adapting(O, n + 1, a) /\ Fed(O) = a[n + 1]
  BY <1>1, FedIs
<1>3. PICK b : Adapting(o, n, b) /\ Fed(o) = b[n]
  BY <1>1, FedIs DEF n
<1> DEFINE T == {i \in 0..n : a[i] # b[i]}
<1>4. T = {}
  <2> SUFFICES ASSUME T # {} PROVE FALSE
    OBVIOUS
  <2>0. T \subseteq Nat
    BY <1>1
  <2>1. PICK i \in T : \A j \in T : ~(j < i)
    BY <2>0, LeastNatural, Zenon
  <2>2. i \in 0..n /\ a[i] # b[i] /\ i \in Nat
    BY <1>1, <2>1
  <2>3. CASE i = 0
    BY <1>1, <1>2, <1>3, <2>2, <2>3 DEF Adapting
  <2>4. CASE i # 0
    <3>1. i - 1 \in 0..n /\ i - 1 < i /\ i \in 1..n /\ i \in 0..(n + 1)
      BY <1>1, <2>2, <2>4
    <3>2. a[i - 1] = b[i - 1]
      BY <2>1, <3>1
    <3>3. a[i] = accept(a[i - 1], O[i])
      BY <1>2, <2>4, <3>1 DEF Adapting
    <3>4. b[i] = accept(b[i - 1], o[i])
      BY <1>3, <2>4, <2>2 DEF Adapting
    <3>5. O[i] = o[i]
      BY <1>1, <3>1
    <3> QED
      BY <2>2, <3>2, <3>3, <3>4, <3>5
  <2> QED
    BY <2>3, <2>4
<1>5. a[n] = b[n]
  BY <1>1, <1>4
<1>6. a[n + 1] = accept(a[n], x)
  <2>1. n + 1 \in 0..(n + 1) /\ n + 1 # 0 /\ (n + 1) - 1 = n
    BY <1>1
  <2>2. a[n + 1] = accept(a[(n + 1) - 1], O[n + 1])
    BY <1>2, <2>1 DEF Adapting
  <2> QED
    BY <1>1, <2>1, <2>2
<1> QED
  BY <1>2, <1>3, <1>5, <1>6 DEF O

(* Only events mean anything to the adapter.                               *)
LEMMA FedQuiet ==
  ASSUME NEW C, NEW o \in Seq(C), NEW x, x.type # "event"
  PROVE  Fed(Append(o, x)) = Fed(o)
<1>1. accept(Fed(o), x) = Fed(o)
  BY DEF accept
<1> QED
  BY <1>1, FedGrown

(* An accepted event, with the records around it.                          *)
LEMMA FedEvent ==
  ASSUME NEW C, NEW o \in Seq(C), NEW d, NEW f, NEW O, Longer(Cleared(o, d, f), f, O)
  PROVE  Fed(O) = accept(Fed(o), EventRecord(f)) /\ \E D : O \in Seq(D)
<1> DEFINE Q == Cleared(o, d, f)
<1>1. Fed(Q) = Fed(o) /\ \E D : Q \in Seq(D)
  <2>1. CASE d.silence_alarm
    <3> DEFINE x == [type |-> "silence", device |-> f.device, text |-> "clear", fields |-> <<>>]
    <3>1. Q = Append(o, x) /\ x.type # "event"
      BY <2>1 DEF Cleared
    <3> HIDE DEF x, Q
    <3>2. Append(o, x) \in Seq(C \cup {x})
      BY GrownIs
    <3> QED
      BY <3>1, <3>2, FedQuiet
  <2>2. CASE ~d.silence_alarm
    BY <2>2 DEF Cleared
  <2> QED
    BY <2>1, <2>2
<1> HIDE DEF Q
<1>2. PICK D : Q \in Seq(D)
  BY <1>1
<1>3. PICK x, y : /\ x = EventRecord(f) /\ x.type = "event" /\ y.type = "high"
                  /\ O = Append(Q, x) \/ O = Append(Append(Q, x), y)
  BY DEF Longer, Q
<1> DEFINE P == Append(Q, x)
<1>4. P \in Seq(D \cup {x}) /\ Fed(P) = accept(Fed(o), x)
  BY <1>1, <1>2, GrownIs, FedGrown
<1>5. O = P \/ O = Append(P, y)
  BY <1>3
<1> HIDE DEF P
<1>6. y.type # "event"
  BY <1>3
<1>7. Fed(Append(P, y)) = Fed(P) /\ Append(P, y) \in Seq((D \cup {x}) \cup {y})
  BY <1>4, <1>6, GrownIs, FedQuiet
<1> QED
  BY <1>3, <1>4, <1>5, <1>7

(* The parts of an adapter's state.                                        *)
MkA(l, p, s, e) == [last_sequence |-> l, pending |-> p, samples |-> s, error |-> e]
IsAdapter(A) == \E l, p, s, e : A = MkA(l, p, s, e)

LEMMA MkAIs ==
  ASSUME NEW l, NEW p, NEW s, NEW e
  PROVE  /\ MkA(l, p, s, e).last_sequence = l /\ MkA(l, p, s, e).pending = p
         /\ MkA(l, p, s, e).samples = s /\ MkA(l, p, s, e).error = e
         /\ IsAdapter(MkA(l, p, s, e))
<1>1. IsAdapter(MkA(l, p, s, e))
  BY Zenon DEF IsAdapter
<1>2. /\ MkA(l, p, s, e).last_sequence = l /\ MkA(l, p, s, e).pending = p
      /\ MkA(l, p, s, e).samples = s /\ MkA(l, p, s, e).error = e
  BY DEF MkA
<1> QED
  BY <1>1, <1>2

Delivered(A, c, g) == [A EXCEPT !.samples = c, !.pending = g]

LEMMA MkADelivered ==
  ASSUME NEW l, NEW p, NEW s, NEW e, NEW c, NEW g
  PROVE  Delivered(MkA(l, p, s, e), c, g) = MkA(l, g, c, e)
<1> DEFINE A == MkA(l, p, s, e)
<1>1. Delivered(A, c, g) = [[A EXCEPT !.samples = c] EXCEPT !.pending = g]
  <2> HIDE DEF A
  <2> QED
    BY DEF Delivered
<1>2. [A EXCEPT !.samples = c] = MkA(l, p, c, e)
  BY DEF MkA
<1>3. [MkA(l, p, c, e) EXCEPT !.pending = g] = MkA(l, g, c, e)
  BY DEF MkA
<1> QED
  BY <1>1, <1>2, <1>3

LEMMA RecordIs ==
  ASSUME NEW f
  PROVE  /\ EventRecord(f).type = "event" /\ EventRecord(f).device = f.device
         /\ EventRecord(f).fields[1] = f.sequence /\ EventRecord(f).fields[2] = f.timestamp
         /\ EventRecord(f).fields[3] = f.metric /\ EventRecord(f).fields[4] = normalized(f)
<1>1. EventRecord(f).fields = <<f.sequence, f.timestamp, f.metric, normalized(f)>>
  BY DEF EventRecord
<1>2. EventRecord(f).type = "event" /\ EventRecord(f).device = f.device
  BY DEF EventRecord
<1> QED
  BY <1>1, <1>2

(* accept on an event, by what the adapter finds.                          *)
LEMMA AcceptIs ==
  ASSUME NEW l, NEW p, NEW s, NEW f, NEW A, A = MkA(l, p, s, "none"), f.device = DeviceId,
         ~(f.sequence <= l), NEW g, g = Pending(A, f.timestamp), f.metric \notin DOMAIN g,
         f.metric \in Metrics, NEW v, v = Put(g, f.metric, normalized(f))
  PROVE  LET B == accept(A, EventRecord(f))
         IN /\ DOMAIN v # Metrics => B = MkA(f.sequence, Put(p, f.timestamp, v), s, "none")
            /\ DOMAIN v = Metrics /\ (\A m \in DOMAIN Codes : v[m] \in Codes[m]) =>
                 B = MkA(f.sequence, Drop(p, f.timestamp),
                         Append(s, [observed |-> observed_at_s(f.timestamp), values |-> v]), "none")
<1> DEFINE x == EventRecord(f)
           b == [A EXCEPT !.last_sequence = f.sequence]
<1>1. A.error = "none" /\ A.last_sequence = l /\ b = MkA(f.sequence, p, s, "none")
  <2>1. b = MkA(f.sequence, p, s, "none")
    BY DEF MkA
  <2> QED
    BY <2>1, MkAIs
<1>2. /\ x.type = "event" /\ x.device = f.device /\ x.fields[1] = f.sequence
      /\ x.fields[2] = f.timestamp /\ x.fields[3] = f.metric /\ x.fields[4] = normalized(f)
  BY RecordIs
<1> HIDE DEF x, b
<1>3. accept(A, x) =
        IF DOMAIN v # Metrics THEN [b EXCEPT !.pending = Put(@, f.timestamp, v)]
        ELSE IF \E m \in DOMAIN Codes : v[m] \notin Codes[m] THEN [b EXCEPT !.error = "code"]
        ELSE Deliver(b, f.timestamp, v)
  <2>1. ~Refuse(A, f.sequence)
    BY <1>1 DEF Refuse
  <2> QED
    BY <1>1, <1>2, <2>1 DEF accept, b
<1>4. b.pending = p /\ b.samples = s
  BY <1>1, MkAIs
<1>5. [b EXCEPT !.pending = Put(@, f.timestamp, v)] = MkA(f.sequence, Put(p, f.timestamp, v), s, "none")
  <2> DEFINE q == Put(p, f.timestamp, v)
  <2>1. [b EXCEPT !.pending = Put(@, f.timestamp, v)] = [b EXCEPT !.pending = q]
    BY <1>4
  <2> HIDE DEF q
  <2>2. [MkA(f.sequence, p, s, "none") EXCEPT !.pending = q] = MkA(f.sequence, q, s, "none")
    BY DEF MkA
  <2> QED
    BY <1>1, <2>1, <2>2 DEF q
<1>6. Deliver(b, f.timestamp, v) =
        MkA(f.sequence, Drop(p, f.timestamp),
            Append(s, [observed |-> observed_at_s(f.timestamp), values |-> v]), "none")
  <2> DEFINE q == Drop(p, f.timestamp)
             S == Append(s, [observed |-> observed_at_s(f.timestamp), values |-> v])
  <2>1. Deliver(b, f.timestamp, v) = Delivered(b, S, q)
    BY <1>4 DEF Deliver, Delivered
  <2> HIDE DEF q, S
  <2>2. Delivered(MkA(f.sequence, p, s, "none"), S, q) = MkA(f.sequence, q, S, "none")
    BY MkADelivered
  <2> QED
    BY <1>1, <2>1, <2>2 DEF q, S
<1> QED
  BY <1>3, <1>5, <1>6 DEF x

(* Whatever an event brings, the sequence is refused only where it does    *)
(* not increase.                                                           *)
LEMMA AcceptRefuses ==
  ASSUME NEW A, IsAdapter(A), NEW f
  PROVE  LET B == accept(A, EventRecord(f))
         IN /\ IsAdapter(B)
            /\ A.error # "none" => B = A
            /\ A.error = "none" /\ f.device # DeviceId => B.error = "device"
            /\ A.error = "none" /\ f.device = DeviceId /\ ~(f.sequence <= A.last_sequence) =>
                 B.error # "sequence" /\ B.last_sequence = f.sequence
<1> DEFINE x == EventRecord(f)
           B == accept(A, x)
           t == f.timestamp
           v == Put(Pending(A, t), f.metric, normalized(f))
<1>1. /\ x.type = "event" /\ x.device = f.device /\ x.fields[1] = f.sequence
      /\ x.fields[2] = t /\ x.fields[3] = f.metric /\ x.fields[4] = normalized(f)
  BY RecordIs
<1>2. PICK l, p, s, e : A = MkA(l, p, s, e)
  BY DEF IsAdapter
<1>3. A.error = e /\ A.last_sequence = l /\ A.pending = p /\ A.samples = s
  BY <1>2, MkAIs
<1> HIDE DEF x
<1>4. CASE A.error # "none"
  BY <1>4 DEF accept
<1>5. CASE A.error = "none" /\ f.device # DeviceId
  <2>1. B = [A EXCEPT !.error = "device"]
    BY <1>1, <1>5 DEF accept
  <2>2. [MkA(l, p, s, e) EXCEPT !.error = "device"] = MkA(l, p, s, "device")
    BY DEF MkA
  <2>3. B = MkA(l, p, s, "device")
    BY <1>2, <2>1, <2>2
  <2> HIDE DEF B
  <2>4. IsAdapter(B) /\ B.error = "device"
    BY <2>3, MkAIs
  <2> QED
    BY <1>5, <2>4 DEF B, x
<1>6. CASE A.error = "none" /\ f.device = DeviceId
  <2> DEFINE b == [A EXCEPT !.last_sequence = f.sequence]
  <2>1. b = MkA(f.sequence, p, s, "none")
    <3>1. [MkA(l, p, s, e) EXCEPT !.last_sequence = f.sequence] = MkA(f.sequence, p, s, e)
      BY DEF MkA
    <3> QED
      BY <1>2, <1>3, <1>6, <3>1
  <2> HIDE DEF b
  <2>2. B = IF Refuse(A, f.sequence) THEN [A EXCEPT !.error = "sequence"]
            ELSE IF f.metric \notin Metrics THEN [b EXCEPT !.error = "metric"]
            ELSE IF f.metric \in DOMAIN Pending(A, t) THEN [b EXCEPT !.error = "duplicate"]
            ELSE IF DOMAIN v # Metrics THEN [b EXCEPT !.pending = Put(@, t, v)]
            ELSE IF \E m \in DOMAIN Codes : v[m] \notin Codes[m] THEN [b EXCEPT !.error = "code"]
            ELSE Deliver(b, t, v)
    <3> HIDE DEF v
    <3> QED
      BY <1>1, <1>6 DEF accept, b, v
  <2> HIDE DEF v, B
  <2>3. [A EXCEPT !.error = "sequence"] = MkA(l, p, s, "sequence")
    <3>1. [MkA(l, p, s, e) EXCEPT !.error = "sequence"] = MkA(l, p, s, "sequence")
      BY DEF MkA
    <3> QED
      BY <1>2, <3>1
  <2>4. /\ [b EXCEPT !.error = "duplicate"] = MkA(f.sequence, p, s, "duplicate")
        /\ [b EXCEPT !.error = "code"] = MkA(f.sequence, p, s, "code")
        /\ [b EXCEPT !.error = "metric"] = MkA(f.sequence, p, s, "metric")
    <3>1. \A c : [MkA(f.sequence, p, s, "none") EXCEPT !.error = c] = MkA(f.sequence, p, s, c)
      BY DEF MkA
    <3> QED
      BY <2>1, <3>1, Zenon
  <2>5. \E q : [b EXCEPT !.pending = Put(@, t, v)] = MkA(f.sequence, q, s, "none")
    <3> DEFINE q == Put(b.pending, t, v)
    <3>1. [b EXCEPT !.pending = Put(@, t, v)] = [b EXCEPT !.pending = q]
      OBVIOUS
    <3> HIDE DEF q
    <3>2. [MkA(f.sequence, p, s, "none") EXCEPT !.pending = q] = MkA(f.sequence, q, s, "none")
      BY DEF MkA
    <3> QED
      BY <2>1, <3>1, <3>2
  <2>6. \E q, S : Deliver(b, t, v) = MkA(f.sequence, q, S, "none")
    <3> DEFINE q == Drop(b.pending, t)
               S == Append(b.samples, [observed |-> observed_at_s(t), values |-> v])
    <3>1. Deliver(b, t, v) = Delivered(b, S, q)
      BY DEF Deliver, Delivered
    <3> HIDE DEF q, S
    <3>2. Delivered(MkA(f.sequence, p, s, "none"), S, q) = MkA(f.sequence, q, S, "none")
      BY MkADelivered
    <3> QED
      BY <2>1, <3>1, <3>2
  <2>7. \/ Refuse(A, f.sequence) /\ B = MkA(l, p, s, "sequence")
        \/ \E q, S, c : c # "sequence" /\ B = MkA(f.sequence, q, S, c)
    <3>1. CASE Refuse(A, f.sequence)
      BY <2>2, <2>3, <3>1
    <3>2. CASE ~Refuse(A, f.sequence) /\ B = [b EXCEPT !.error = "duplicate"]
      BY <2>4, <3>2
    <3>3. CASE ~Refuse(A, f.sequence) /\ B = [b EXCEPT !.error = "code"]
      BY <2>4, <3>3
    <3>6. CASE ~Refuse(A, f.sequence) /\ B = [b EXCEPT !.error = "metric"]
      BY <2>4, <3>6
    <3>4. CASE ~Refuse(A, f.sequence) /\ B = [b EXCEPT !.pending = Put(@, t, v)]
      <4>1. PICK q : B = MkA(f.sequence, q, s, "none")
        BY <2>5, <3>4
      <4>2. "none" # "sequence"
        OBVIOUS
      <4> QED
        BY <4>1, <4>2
    <3>5. CASE ~Refuse(A, f.sequence) /\ B = Deliver(b, t, v)
      <4>1. PICK q, S : B = MkA(f.sequence, q, S, "none")
        BY <2>6, <3>5
      <4>2. "none" # "sequence"
        OBVIOUS
      <4> QED
        BY <4>1, <4>2
    <3> QED
      BY <2>2, <3>1, <3>2, <3>3, <3>4, <3>5, <3>6
  <2>8. CASE Refuse(A, f.sequence) /\ B = MkA(l, p, s, "sequence")
    <3>1. IsAdapter(B) /\ f.sequence <= A.last_sequence
      BY <2>8, MkAIs DEF Refuse
    <3> QED
      BY <1>6, <3>1 DEF B, x
  <2>9. CASE \E q, S, c : c # "sequence" /\ B = MkA(f.sequence, q, S, c)
    <3>1. PICK q, S, c : c # "sequence" /\ B = MkA(f.sequence, q, S, c)
      BY <2>9
    <3>2. IsAdapter(B) /\ B.error # "sequence" /\ B.last_sequence = f.sequence
      BY <3>1, MkAIs
    <3> QED
      BY <1>6, <3>2 DEF B, x
  <2> QED
    BY <2>7, <2>8, <2>9
<1> QED
  BY <1>4, <1>5, <1>6

-----------------------------------------------------------------------------
(* When the adapter refuses a sequence.                                    *)

Live(d) == d.used /\ d.seq_valid

(* The adapter A after records that left the devices dv: no device is near *)
(* the rollover, and what the adapter last took is what its device has.    *)
Sane(dv, A) ==
  /\ IsAdapter(A) /\ A.error # "sequence"
  /\ \A i \in Slots : Live(dv[i]) => dv[i].last_seq \in Nat /\ ~(dv[i].last_seq >= RolloverFrom)
  /\ A.error = "none" =>
       \/ A.last_sequence = 0
       \/ \E i \in Slots : /\ Live(dv[i]) /\ dv[i].device_id = DeviceId
                           /\ dv[i].last_seq = A.last_sequence

(* A frame after which the adapter has no reason to refuse.                *)
Tame(f) == ~f.restart /\ f.sequence # 0 /\ ~(f.sequence >= RolloverFrom)

Steady(s, od) == Fine(s, od) /\ Sane(s.p.devices, Fed(s.out))

LEMMA SaneSame ==
  ASSUME NEW dv, IsFun(dv, Slots), NEW A, Sane(dv, A), NEW i \in Slots, NEW e,
         Live(e) <=> Live(dv[i]),
         Live(e) => e.device_id = dv[i].device_id /\ e.last_seq = dv[i].last_seq
  PROVE  Sane([dv EXCEPT ![i] = e], A)
<1> DEFINE V == [dv EXCEPT ![i] = e]
<1>1. V[i] = e /\ \A j \in Slots : j # i => V[j] = dv[j]
  BY DEF IsFun
<1> HIDE DEF V
<1>2. ASSUME NEW j \in Slots
      PROVE  /\ Live(V[j]) <=> Live(dv[j])
             /\ Live(dv[j]) => V[j].device_id = dv[j].device_id /\ V[j].last_seq = dv[j].last_seq
  <2>1. CASE j = i
    BY <1>1, <2>1
  <2>2. CASE j # i
    BY <1>1, <2>2
  <2> QED
    BY <2>1, <2>2
<1>3. \A j \in Slots : Live(V[j]) => V[j].last_seq \in Nat /\ ~(V[j].last_seq >= RolloverFrom)
  BY <1>2 DEF Sane
<1>4. A.error = "none" =>
        \/ A.last_sequence = 0
        \/ \E j \in Slots : /\ Live(V[j]) /\ V[j].device_id = DeviceId
                            /\ V[j].last_seq = A.last_sequence
  BY <1>2 DEF Sane
<1>5. Sane(V, A)
  BY <1>3, <1>4 DEF Sane
<1> QED
  BY <1>5 DEF V

(* EdgeStream let the event pass, so its sequence is above the last one of *)
(* the device, and that is the one the adapter remembers.                  *)
LEMMA SaneEvent ==
  ASSUME NEW dv, IsFun(dv, Slots), Distinct(dv), NEW A, Sane(dv, A), NEW i \in Slots,
         NEW f \in Frame, Tame(f), dv[i].used, dv[i].device_id = f.device,
         ~Duplicate(dv[i], f), ~Late(dv[i], f),
         NEW e, Live(e), e.device_id = f.device, e.last_seq = f.sequence
  PROVE  Sane([dv EXCEPT ![i] = e], accept(A, EventRecord(f)))
<1> DEFINE V == [dv EXCEPT ![i] = e]
           B == accept(A, EventRecord(f))
<1>1. V[i] = e /\ \A j \in Slots : j # i => V[j] = dv[j]
  BY DEF IsFun
<1>2. /\ IsAdapter(B)
      /\ A.error # "none" => B = A
      /\ A.error = "none" /\ f.device # DeviceId => B.error = "device"
      /\ A.error = "none" /\ f.device = DeviceId /\ ~(f.sequence <= A.last_sequence) =>
           B.error # "sequence" /\ B.last_sequence = f.sequence
  BY AcceptRefuses DEF Sane
<1>3. f.sequence \in Nat /\ f.sequence # 0 /\ ~(f.sequence >= RolloverFrom)
  BY DEF Frame, Tame
<1> HIDE DEF V, B
<1>4. \A j \in Slots : Live(V[j]) => V[j].last_seq \in Nat /\ ~(V[j].last_seq >= RolloverFrom)
  <2>1. ASSUME NEW j \in Slots, Live(V[j])
        PROVE  V[j].last_seq \in Nat /\ ~(V[j].last_seq >= RolloverFrom)
    <3>1. CASE j = i
      BY <1>1, <1>3, <3>1
    <3>2. CASE j # i
      BY <1>1, <2>1, <3>2 DEF Sane
    <3> QED
      BY <3>1, <3>2
  <2> QED
    BY <2>1
<1>5. CASE A.error # "none"
  <2>1. B.error # "sequence" /\ B.error # "none"
    BY <1>2, <1>5 DEF Sane
  <2>2. Sane(V, B)
    BY <1>2, <1>4, <2>1 DEF Sane
  <2> QED
    BY <2>2 DEF V, B
<1>6. CASE A.error = "none" /\ f.device # DeviceId
  <2>1. B.error # "sequence" /\ B.error # "none"
    BY <1>2, <1>6
  <2>2. Sane(V, B)
    BY <1>2, <1>4, <2>1 DEF Sane
  <2> QED
    BY <2>2 DEF V, B
<1>7. CASE A.error = "none" /\ f.device = DeviceId
  <2>1. ~(f.sequence <= A.last_sequence)
    <3>1. CASE A.last_sequence = 0
      BY <1>3, <3>1
    <3>2. CASE A.last_sequence # 0
      <4>1. PICK k \in Slots : /\ Live(dv[k]) /\ dv[k].device_id = DeviceId
                               /\ dv[k].last_seq = A.last_sequence
        BY <1>7, <3>2 DEF Sane
      <4>2. k = i
        <5>1. dv[k].used /\ dv[k].device_id = dv[i].device_id
          BY <1>7, <4>1 DEF Live
        <5> QED
          BY <5>1 DEF Distinct
      <4>3. dv[i].seq_valid /\ dv[i].last_seq \in Nat /\ ~(dv[i].last_seq >= RolloverFrom)
        BY <4>1, <4>2 DEF Live, Sane
      <4>4. f.sequence # dv[i].last_seq /\ ~(f.sequence < dv[i].last_seq)
        BY <4>3 DEF Duplicate, Late, Rollover
      <4>5. f.sequence > dv[i].last_seq
        BY <1>3, <4>3, <4>4
      <4> QED
        BY <1>3, <4>1, <4>2, <4>3, <4>5
    <3> QED
      BY <3>1, <3>2
  <2>2. B.error # "sequence" /\ B.last_sequence = f.sequence
    BY <1>2, <1>7, <2>1
  <2>3. Live(V[i]) /\ V[i].device_id = DeviceId /\ V[i].last_seq = B.last_sequence
    BY <1>1, <1>7, <2>2
  <2>4. Sane(V, B)
    BY <1>2, <1>4, <2>2, <2>3 DEF Sane
  <2> QED
    BY <2>4 DEF V, B
<1> QED
  BY <1>5, <1>6, <1>7

(* Records that are not events.                                            *)
LEMMA EmitFed ==
  ASSUME NEW s, IsProc(s), NEW C, s.out \in Seq(C),
         NEW type, type # "event", NEW device, NEW text, NEW fields
  PROVE  Fed(emit_with(s, type, device, text, fields).out) = Fed(s.out)
<1>1. PICK b, dv, a, r, o, h : s = Mk(b, dv, a, r, o, h)
  BY DEF IsProc
<1> DEFINE x == [type |-> type, device |-> device, text |-> text, fields |-> fields]
           P == Append(o, x)
           u == emit_with(s, type, device, text, fields)
<1>2. u = Mk(b, dv, a, r, P, h)
  BY <1>1, EmitIs
<1>3. x.type # "event"
  OBVIOUS
<1> HIDE DEF x
<1>4. s.out = o
  BY <1>1, MkIs
<1>5. Fed(P) = Fed(o)
  BY <1>3, <1>4, FedQuiet
<1> HIDE DEF P, u
<1>6. u.out = P
  BY <1>2, MkIs
<1> QED
  BY <1>4, <1>5, <1>6 DEF u

LEMMA FineOut ==
  ASSUME NEW s, NEW od, Fine(s, od)
  PROVE  /\ IsProc(s) /\ IsFun(s.p.devices, Slots) /\ Distinct(s.p.devices)
         /\ \E C : s.out \in Seq(C)
BY DEF Fine, Tab, Reports

LEMMA SteadyEmit ==
  ASSUME NEW s, NEW od, Steady(s, od), NEW type, type # "silence", type # "event",
         NEW device, NEW text, NEW fields
  PROVE  Steady(emit_with(s, type, device, text, fields), od)
<1>1. Fine(s, od) /\ Sane(s.p.devices, Fed(s.out))
  BY DEF Steady
<1>2. PICK C : s.out \in Seq(C)
  BY <1>1, FineOut
<1> DEFINE u == emit_with(s, type, device, text, fields)
<1>3. Fine(u, od) /\ u.p = s.p /\ Fed(u.out) = Fed(s.out)
  BY <1>1, <1>2, FineOut, FineEmit, EmitBlind, EmitFed
<1> HIDE DEF u
<1>4. Steady(u, od)
  BY <1>1, <1>3 DEF Steady
<1> QED
  BY <1>4 DEF u

LEMMA SteadyWith ==
  ASSUME NEW s, NEW od, Steady(s, od), NEW b
  PROVE  Steady(With(s, b), od)
<1>1. With(s, b).p.devices = s.p.devices /\ With(s, b).out = s.out
  BY MkIs DEF With
<1> QED
  BY <1>1, FineWith DEF Steady

LEMMA SteadyReject ==
  ASSUME NEW s, NEW od, Steady(s, od), NEW reason
  PROVE  Steady(emit_reject(s, reason), od)
<1>0. Fine(s, od) /\ Sane(s.p.devices, Fed(s.out))
  BY DEF Steady
<1>1. PICK b, dv, a, r, o, h : s = Mk(b, dv, a, r, o, h)
  BY <1>0 DEF Fine, IsProc
<1> DEFINE t == Mk(b, dv, a, r + 1, o, h)
<1>2. [s EXCEPT !.p.rejected = @ + 1] = t
  BY <1>1 DEF Mk
<1>3. Fine(t, od)
  BY <1>0, <1>1, FineIs
<1>4. t.p.devices = s.p.devices /\ t.out = s.out
  BY <1>1, MkIs
<1> HIDE DEF t
<1>5. Steady(t, od)
  BY <1>0, <1>3, <1>4 DEF Steady
<1>6. emit_reject(s, reason) = emit_with(t, "reject", 0, reason, <<>>)
  BY <1>2 DEF emit_reject, emit
<1> QED
  BY <1>5, <1>6, SteadyEmit

(* emit_silence: no slot loses its sequence.                               *)
LEMMA SteadySilenceAt ==
  ASSUME NEW s, NEW before, NEW od, Steady(before, od), NEW i \in Slots, NEW watermark,
         before.p.devices[i] = s.p.devices[i]
  PROVE  /\ Steady(SilenceAt(s, watermark, i, before), od)
         /\ Elsewhere(SilenceAt(s, watermark, i, before), i, before)
<1> DEFINE d == s.p.devices[i]
           u == SilenceAt(s, watermark, i, before)
<1>0. Fine(before, od) /\ Sane(before.p.devices, Fed(before.out))
  BY DEF Steady
<1>1. Fine(u, od) /\ Elsewhere(u, i, before)
  BY <1>0, FineSilenceAt
<1>2. CASE IsSilent(d, watermark) /\ ~d.silence_alarm
  <2>1. PICK b, dv, a, r, o, h : before = Mk(b, dv, a, r, o, h)
    BY <1>0 DEF Fine, IsProc
  <2> DEFINE e == [d EXCEPT !.silence_alarm = TRUE]
             V == [dv EXCEPT ![i] = e]
             t == Mk(b, V, a, r, o, h)
  <2>2. dv[i] = d
    BY <2>1, MkIs
  <2>3. Tab(dv, h) /\ Sane(dv, Fed(o)) /\ \E C : o \in Seq(C)
    <3>1. before.p.devices = dv /\ before.out = o /\ before.history = h
      BY <2>1, MkIs
    <3> QED
      BY <1>0, <3>1, FineOut DEF Fine
  <2>4. u = emit_with(t, "silence", d.device_id, "active", <<>>)
    <3> DEFINE z == Mk(b, dv, a, r, o, h)
               mark == [z EXCEPT !.p.devices[i].silence_alarm = TRUE]
    <3>1. u = emit(mark, "silence", d.device_id, "active")
      BY <1>2, <2>1 DEF SilenceAt
    <3>2. z.p.devices[i] = d
      BY <2>2, MkIs
    <3>3. mark = [z EXCEPT !.p.devices[i] = [z.p.devices[i] EXCEPT !.silence_alarm = TRUE]]
      BY DEF Mk
    <3> HIDE DEF mark
    <3>4. mark = [z EXCEPT !.p.devices[i] = e]
      BY <3>2, <3>3
    <3> HIDE DEF e
    <3>5. mark = t
      BY <3>4 DEF Mk
    <3> QED
      BY <3>1, <3>5 DEF emit
  <2>5. Kept(d, h[i]) /\ d.used /\ IsFun(dv, Slots)
    BY <1>2, <2>2, <2>3 DEF Tab, IsSilent
  <2> HIDE DEF d
  <2>6. /\ e.used /\ e.device_id = d.device_id
        /\ e.seq_valid = d.seq_valid /\ e.last_seq = d.last_seq
    BY <2>5, MarkedIs
  <2> HIDE DEF e
  <2>7. Live(e) <=> Live(dv[i])
    BY <2>2, <2>5, <2>6 DEF Live
  <2>8. Sane(V, Fed(o))
    BY <2>2, <2>3, <2>5, <2>6, <2>7, SaneSame
  <2> HIDE DEF V
  <2>9. IsProc(t) /\ t.p.devices = V /\ t.out = o
    BY MkIs
  <2> HIDE DEF t
  <2>10. u.p = t.p /\ Fed(u.out) = Fed(o)
    <3>1. "silence" # "event"
      OBVIOUS
    <3> QED
      BY <2>3, <2>4, <2>9, <3>1, EmitBlind, EmitFed
  <2> HIDE DEF u
  <2>11. Steady(u, od)
    BY <1>1, <2>8, <2>9, <2>10 DEF Steady
  <2> QED
    BY <1>1, <2>11 DEF u
<1>3. CASE ~(IsSilent(d, watermark) /\ ~d.silence_alarm)
  BY <1>1, <1>3 DEF SilenceAt
<1> QED
  BY <1>2, <1>3

LEMMA SteadySilence ==
  ASSUME NEW s, NEW od, Steady(s, od), NEW watermark
  PROVE  Steady(emit_silence(s, watermark), od)
<1> DEFINE N == ES_MAX_DEVICES
<1>0. N \in Nat /\ Slots = 1..N
  BY SizesAssumption DEF Slots
<1>1. PICK v : Visiting(s, watermark, N, v) /\ emit_silence(s, watermark) = v[N]
  BY SilenceIs
<1> HIDE DEF N
<1> DEFINE Same(i) == \A j \in Slots : j > i => v[i].p.devices[j] = s.p.devices[j]
           Good(i) == Steady(v[i], od) /\ Same(i)
           T == {i \in 0..N : ~Good(i)}
<1>2. T = {}
  <2> SUFFICES ASSUME T # {} PROVE FALSE
    OBVIOUS
  <2>0. T \subseteq Nat
    BY <1>0
  <2>1. PICK i \in T : \A j \in T : ~(j < i)
    BY <2>0, LeastNatural, Zenon
  <2>2. CASE i = 0
    <3>1. v[0] = s
      BY <1>0, <1>1 DEF Visiting
    <3>2. Good(0)
      BY <3>1
    <3> QED
      BY <2>1, <2>2, <3>2
  <2>3. CASE i # 0
    <3> HIDE DEF Good
    <3>1. i \in Nat /\ i \in Slots /\ i - 1 \in 0..N /\ i - 1 < i /\ i \in 0..N
      BY <1>0, <2>1, <2>3
    <3>2. Good(i - 1)
      BY <2>1, <3>1
    <3>3. v[i] = SilenceAt(s, watermark, i, v[i - 1])
      BY <1>0, <1>1, <2>3, <3>1 DEF Visiting
    <3>4. Steady(v[i - 1], od) /\ v[i - 1].p.devices[i] = s.p.devices[i]
      BY <3>1, <3>2 DEF Good
    <3>5. Steady(v[i], od) /\ Elsewhere(v[i], i, v[i - 1])
      <4>1. ASSUME NEW w, Steady(w, od), w.p.devices[i] = s.p.devices[i]
            PROVE  /\ Steady(SilenceAt(s, watermark, i, w), od)
                   /\ Elsewhere(SilenceAt(s, watermark, i, w), i, w)
        BY <3>1, <4>1, SteadySilenceAt
      <4> QED
        BY <3>3, <3>4, <4>1
    <3>6. Same(i)
      <4>1. ASSUME NEW j \in Slots, j > i
            PROVE  v[i].p.devices[j] = s.p.devices[j]
        <5>1. j \in Nat /\ j # i /\ j > i - 1
          BY <1>0, <3>1, <4>1
        <5> QED
          BY <3>2, <3>5, <5>1 DEF Good, Elsewhere
      <4> QED
        BY <4>1
    <3>7. Good(i)
      BY <3>5, <3>6 DEF Good
    <3> QED
      BY <2>1, <3>7
  <2> QED
    BY <2>2, <2>3
<1>3. Good(N)
  BY <1>0, <1>2
<1> QED
  BY <1>1, <1>3

(* Found without the restart flag.                                         *)
LEMMA FoundTame ==
  ASSUME NEW d, NEW f, ~f.restart
  PROVE  /\ d.used => Found(d, f) = d
         /\ ~d.used => ~Found(d, f).seq_valid
<1>1. CASE d.used
  BY <1>1 DEF Found
<1>2. CASE ~d.used
  <2> DEFINE ms == [m \in Metrics |-> NoMetric]
             e == [NoDevice EXCEPT !.used = TRUE, !.device_id = f.device]
  <2>1. Found(d, f) = e
    BY <1>2 DEF Found
  <2>2. NoDevice = MkD(No, No, No, 0, 0, 0, ms)
    BY NoDeviceIs
  <2>3. e = [[NoDevice EXCEPT !.used = Yes] EXCEPT !.device_id = f.device]
    <3> HIDE DEF ms
    <3> QED
      BY DEF Yes
  <2> HIDE DEF ms
  <2>4. [NoDevice EXCEPT !.used = Yes] = MkD(Yes, No, No, 0, 0, 0, ms)
    <3>1. [MkD(No, No, No, 0, 0, 0, ms) EXCEPT !.used = Yes] = MkD(Yes, No, No, 0, 0, 0, ms)
      BY MkDExcept
    <3> QED
      BY <2>2, <3>1
  <2>5. [MkD(Yes, No, No, 0, 0, 0, ms) EXCEPT !.device_id = f.device]
          = MkD(Yes, No, No, f.device, 0, 0, ms)
    BY DEF MkD
  <2>6. e = MkD(Yes, No, No, f.device, 0, 0, ms)
    BY <2>3, <2>4, <2>5
  <2> HIDE DEF e
  <2>7. e.seq_valid = No
    BY <2>6, MkDIs
  <2> QED
    BY <1>2, <2>1, <2>7, YesNo
<1> QED
  BY <1>1, <1>2

(* accept_frame on a frame that is tame if it can become an event.         *)
LEMMA SteadyFrame ==
  ASSUME NEW s, NEW od, Steady(s, od), NEW f \in Frame, f.metric < ES_MAX_METRICS => Tame(f)
  PROVE  Steady(accept_frame(s, f), od)
<1>0. Fine(s, od) /\ Sane(s.p.devices, Fed(s.out)) /\ Fine(accept_frame(s, f), od)
  BY FineFrame DEF Steady
<1>1. CASE f.metric = ES_METRIC_WATERMARK
  <2>1. accept_frame(s, f) = emit_silence(s, f.timestamp)
    BY <1>1 DEF accept_frame
  <2> QED
    BY <2>1, SteadySilence
<1>2. CASE f.metric # ES_METRIC_WATERMARK /\ f.metric >= ES_MAX_METRICS
  <2>1. accept_frame(s, f) = emit_reject(s, "metric")
    BY <1>2 DEF accept_frame
  <2> QED
    BY <2>1, SteadyReject
<1>3. CASE f.metric # ES_METRIC_WATERMARK /\ ~(f.metric >= ES_MAX_METRICS)
  <2>0. f.metric \in Metrics /\ Tame(f)
    <3>1. f.metric \in Nat
      BY DEF Frame
    <3> QED
      BY <1>3, <3>1, SizesAssumption DEF Metrics
  <2> DEFINE i == find_device(s.p, f.device)
             d == Found(s.p.devices[i], f)
             t == [s EXCEPT !.p.devices[i] = d,
                     !.history[i] = IF f.restart THEN [m \in Metrics |-> <<>>] ELSE @]
  <2>1. CASE i = 0
    <3>1. accept_frame(s, f) = emit_with(s, "resource_limit", f.device, "active_devices", <<>>)
      BY <1>3, <2>1 DEF accept_frame, emit
    <3> QED
      BY <3>1, SteadyEmit
  <2>2. CASE i # 0
    <3>1. accept_frame(s, f) =
            IF Duplicate(d, f) THEN emit(t, "duplicate", f.device, "duplicate")
            ELSE IF Late(d, f) THEN emit(t, "late", f.device, "late")
            ELSE AcceptEvent(t, i, d, f)
      BY <1>3, <2>2 DEF accept_frame
    <3>2. PICK b, dv, a, r, o, h : s = Mk(b, dv, a, r, o, h)
      BY <1>0 DEF Fine, IsProc
    <3>3. Tab(dv, h) /\ Reports(dv, o, od)
      BY <1>0, <3>2, FineIs
    <3>4. s.p.devices = dv /\ s.history = h /\ s.out = o
      BY <3>2, MkIs
    <3>5. /\ i \in Slots
          /\ \/ dv[i].used /\ dv[i].device_id = f.device
             \/ ~dv[i].used /\ \A j \in Slots : ~(dv[j].used /\ dv[j].device_id = f.device)
      BY <2>2, <3>4, FindIs
    <3> HIDE DEF i
    <3>a. ~f.restart
      BY <2>0 DEF Tame
    <3> DEFINE hs == IF f.restart THEN NoHistory ELSE h[i]
               V == [dv EXCEPT ![i] = d]
               H == [h EXCEPT ![i] = hs]
    <3>6. Tab(V, H) /\ Reports(V, o, od) /\ d.used /\ d.device_id = f.device /\ Kept(d, hs)
      <4>1. d = Found(dv[i], f)
        BY <3>4
      <4> HIDE DEF d
      <4> QED
        BY <3>3, <3>5, <4>1, FineTaken
    <3>7. t = Mk(b, V, a, r, o, H)
      <4> DEFINE z == Mk(b, dv, a, r, o, h)
      <4> HIDE DEF d
      <4>1. t = [z EXCEPT !.p.devices[i] = d, !.history[i] = hs]
        BY <3>2, <3>4 DEF NoHistory
      <4> HIDE DEF hs, t
      <4> QED
        BY <4>1 DEF Mk
    <3>8. Sane(V, Fed(o))
      <4>1. /\ dv[i].used => d = dv[i]
            /\ ~dv[i].used => ~d.seq_valid
        BY <3>4, <3>a, FoundTame
      <4> HIDE DEF d
      <4>2. /\ Live(d) <=> Live(dv[i])
            /\ Live(d) => d.device_id = dv[i].device_id /\ d.last_seq = dv[i].last_seq
        BY <4>1 DEF Live
      <4>3. Sane(dv, Fed(o)) /\ IsFun(dv, Slots)
        BY <1>0, <3>3, <3>4 DEF Tab
      <4> QED
        BY <3>5, <4>2, <4>3, SaneSame
    <3> HIDE DEF t, H, d, hs
    <3>9. IsFun(V, Slots) /\ Distinct(V) /\ V[i] = d
      <4>1. V[i] = d
        BY <3>3, <3>5 DEF Tab, IsFun
      <4> QED
        BY <3>6, <4>1 DEF Tab, Reports
    <3> HIDE DEF V
    <3>10. t.p.devices = V /\ t.out = o
      BY <3>7, MkIs
    <3>11. Steady(t, od)
      <4>1. Fine(t, od)
        BY <3>6, <3>7, FineIs
      <4> QED
        BY <3>8, <3>10, <4>1 DEF Steady
    <3>12. CASE Duplicate(d, f) \/ Late(d, f)
      <4>1. Steady(emit(t, "duplicate", f.device, "duplicate"), od)
            /\ Steady(emit(t, "late", f.device, "late"), od)
        BY <3>11, SteadyEmit DEF emit
      <4> QED
        BY <3>1, <3>12, <4>1
    <3>13. CASE ~Duplicate(d, f) /\ ~Late(d, f)
      <4> DEFINE e == EventDevice(d, f)
                 U == [V EXCEPT ![i] = e]
                 k == f.metric
                 g == Append(H[i][k], normalized(f))
      <4>1. PICK O : /\ AcceptEvent(t, i, d, f) = Mk(b, U, a + 1, r, O, [H EXCEPT ![i][k] = g])
                     /\ Longer(Cleared(o, d, f), f, O)
        <5>1. PICK O : EventOutcome(b, V, a, r, o, H, i, d, f, O)
          BY AcceptEventIs
        <5> QED
          BY <3>7, <5>1, Zenon DEF EventOutcome
      <4>2. Live(e) /\ e.device_id = f.device /\ e.last_seq = f.sequence
        <5>1. e.used /\ e.seq_valid /\ e.device_id = d.device_id /\ e.last_seq = f.sequence
          BY <2>0, <3>6, EventDeviceIs
        <5> HIDE DEF e
        <5> QED
          BY <3>6, <5>1 DEF Live
      <4> HIDE DEF e, g
      <4>3. Sane(U, accept(Fed(o), EventRecord(f)))
        BY <2>0, <3>5, <3>6, <3>8, <3>9, <3>13, <4>2, SaneEvent
      <4>4. PICK C : o \in Seq(C)
        BY <3>6 DEF Reports
      <4>5. Fed(O) = accept(Fed(o), EventRecord(f))
        BY <4>1, <4>4, FedEvent
      <4> DEFINE w == accept_frame(s, f)
      <4>6. w = Mk(b, U, a + 1, r, O, [H EXCEPT ![i][k] = g])
        BY <3>1, <3>13, <4>1
      <4> HIDE DEF U, w
      <4>7. w.p.devices = U /\ w.out = O
        BY <4>6, MkIs
      <4>8. Sane(w.p.devices, Fed(w.out))
        BY <4>3, <4>5, <4>7
      <4> QED
        BY <1>0, <4>8 DEF Steady, w
    <3> QED
      BY <3>12, <3>13
  <2> QED
    BY <2>1, <2>2
<1> QED
  BY <1>1, <1>2, <1>3

LEMMA SteadyProcess ==
  ASSUME NEW s, NEW od, Steady(s, od), NEW f \in Frame, Valid(f) => Tame(f)
  PROVE  Steady(Process(s, f), od)
<1>1. CASE f.version \notin {1, 2}
  BY <1>1, SteadyReject DEF Process
<1>2. CASE f.version \in {1, 2} /\ ~f.crc
  BY <1>2, SteadyReject DEF Process
<1>3. CASE f.version \in {1, 2} /\ f.crc
  <2>1. f.metric < ES_MAX_METRICS => Tame(f)
    BY <1>3 DEF Valid
  <2> QED
    BY <1>3, <2>1, SteadyFrame DEF Process
<1> QED
  BY <1>1, <1>2, <1>3

(* The loop over a buffer of tame frames.                                  *)
TameBuffer(b) == \A k \in 1..Len(b) : Valid(b[k].frame) => Tame(b[k].frame)

Steadily(x, b, od) ==
  \E t, o : /\ x = On(t, o) \/ x = Off(t, o)
            /\ Steady(t, od) /\ t.p.buffer = b /\ o \in Nat

LEMMA SteadyStep ==
  ASSUME NEW x, NEW b \in Seq(Symbols), TameBuffer(b), NEW od, Steadily(x, b, od)
  PROVE  Steadily(ParseStep(x), b, od)
<1>1. PICK t, o : /\ x = On(t, o) \/ x = Off(t, o)
                  /\ Steady(t, od) /\ t.p.buffer = b /\ o \in Nat
  BY DEF Steadily
<1>2. IsProc(t)
  BY <1>1 DEF Steady, Fine
<1>3. /\ ParseStep(Off(t, o)) = Off(t, o)
      /\ Decide(b, o) = "stop" => ParseStep(On(t, o)) = Off(t, o)
      /\ Decide(b, o) = "frame" =>
           ParseStep(On(t, o)) = On(Process(t, b[o + 4].frame), o + FrameSize)
      /\ Decide(b, o) \in {"junk", "length"} =>
           ParseStep(On(t, o)) = On(emit_reject(t, Decide(b, o)), o + 1)
      /\ Decide(b, o) \in {"stop", "frame", "junk", "length"}
  BY <1>1, StepIs
<1>4. CASE x = Off(t, o)
  BY <1>1, <1>3, <1>4 DEF Steadily
<1>5. CASE x = On(t, o) /\ Decide(b, o) = "stop"
  <2>1. ParseStep(x) = Off(t, o)
    BY <1>3, <1>5
  <2> QED
    BY <1>1, <2>1 DEF Steadily
<1>6. CASE x = On(t, o) /\ Decide(b, o) = "frame"
  <2> DEFINE f == b[o + 4].frame
             u == Process(t, f)
  <2>1. f \in Frame /\ (Valid(f) => Tame(f))
    <3>1. Len(b) - o >= 4 /\ Len(b) \in Nat
      BY <1>1, <1>6 DEF Decide, FrameSize, HeaderSize
    <3>2. o + 4 \in 1..Len(b)
      BY <1>1, <3>1
    <3>3. b[o + 4] \in Symbols
      BY <3>2
    <3>4. b[o + 4].frame \in Frame
      BY <3>3 DEF Symbols
    <3> QED
      BY <3>2, <3>4 DEF TameBuffer
  <2> HIDE DEF f
  <2>2. Steady(u, od)
    BY <1>1, <2>1, SteadyProcess
  <2>3. u.p.buffer = b
    BY <1>1, <1>2, ProcessBlind
  <2>4. ParseStep(x) = On(u, o + FrameSize) /\ o + FrameSize \in Nat
    BY <1>1, <1>3, <1>6 DEF f, FrameSize
  <2> HIDE DEF u
  <2> QED
    BY <2>2, <2>3, <2>4 DEF Steadily
<1>7. CASE x = On(t, o) /\ Decide(b, o) \in {"junk", "length"}
  <2> DEFINE u == emit_reject(t, Decide(b, o))
  <2>1. Steady(u, od)
    BY <1>1, SteadyReject
  <2>2. u.p.buffer = b
    BY <1>1, <1>2, RejectBlind
  <2>3. ParseStep(x) = On(u, o + 1) /\ o + 1 \in Nat
    BY <1>1, <1>3, <1>7
  <2> HIDE DEF u
  <2> QED
    BY <2>1, <2>2, <2>3 DEF Steadily
<1> QED
  BY <1>1, <1>3, <1>4, <1>5, <1>6, <1>7

LEMMA SteadyParse ==
  ASSUME NEW s, NEW od, Steady(s, od), NEW b \in Seq(Symbols), b = s.p.buffer, TameBuffer(b)
  PROVE  Steady(ParseBuffer(s), od)
<1>0. IsProc(s)
  BY DEF Steady, Fine
<1>1. PICK st, j, t, o : Parsed(s, b, st, j, t, o)
  BY <1>0, ParseBufferIs
<1> DEFINE N == Len(b) + 1
           T == {i \in 0..N : ~Steadily(st[i], b, od)}
<1>2. N \in Nat /\ Parsing(s, N, st) /\ st[N] = Off(t, o)
      /\ ParseBuffer(s) = With(t, SubSeq(b, o + 1, Len(b)))
  BY <1>1 DEF Parsed
<1> HIDE DEF N
<1>3. T = {}
  <2> SUFFICES ASSUME T # {} PROVE FALSE
    OBVIOUS
  <2>0. T \subseteq Nat
    BY <1>2
  <2>1. PICK i \in T : \A k \in T : ~(k < i)
    BY <2>0, LeastNatural, Zenon
  <2>2. i \in 0..N /\ ~Steadily(st[i], b, od)
    BY <2>1
  <2>3. CASE i = 0
    <3>1. st[0] = On(s, 0)
      BY <1>2 DEF Parsing
    <3>2. Steadily(On(s, 0), b, od)
      BY Zenon, 0 \in Nat DEF Steadily
    <3> QED
      BY <2>2, <2>3, <3>1, <3>2
  <2>4. CASE i # 0
    <3>1. i \in Nat /\ i - 1 \in 0..N /\ i - 1 < i
      BY <1>2, <2>2, <2>4
    <3>2. Steadily(st[i - 1], b, od)
      BY <2>1, <3>1
    <3>3. st[i] = ParseStep(st[i - 1])
      <4> HIDE DEF T
      <4> QED
        BY <1>2, <2>2, <2>4, <3>1 DEF Parsing
    <3> QED
      BY <2>2, <3>2, <3>3, SteadyStep
  <2> QED
    BY <2>3, <2>4
<1>4. Steadily(Off(t, o), b, od)
  <2>1. N \in 0..N
    BY <1>2
  <2> QED
    BY <1>2, <1>3, <2>1
<1>5. PICK u, q : /\ Off(t, o) = On(u, q) \/ Off(t, o) = Off(u, q)
                  /\ Steady(u, od)
  BY <1>4 DEF Steadily
<1>6. Steady(t, od)
  BY <1>5, LoopParts
<1> QED
  BY <1>2, <1>6, SteadyWith

LEMMA SteadyInit == Steady(es_init, es_init.p.devices)
<1> DEFINE A == EdgeStreamTelemetryAdapter
<1>1. es_init = Mk(<<>>, [i \in Slots |-> NoDevice], 0, 0, <<>>, [i \in Slots |-> [m \in Metrics |-> <<>>]])
  BY DEF es_init, Mk
<1>2. es_init.out = <<>> /\ \A i \in Slots : es_init.p.devices[i] = NoDevice
  <2> DEFINE dv == [i \in Slots |-> NoDevice]
  <2>1. \A i \in Slots : dv[i] = NoDevice
    OBVIOUS
  <2> HIDE DEF dv
  <2>2. es_init.p.devices = dv /\ es_init.out = <<>>
    BY <1>1, MkIs DEF dv
  <2> QED
    BY <2>1, <2>2
<1>3. ~Live(NoDevice)
  <2>1. ASSUME NEW d, d = MkD(No, No, No, 0, 0, 0, [m \in Metrics |-> NoMetric])
        PROVE  d.used = No
    BY <2>1, MkDIs
  <2>2. NoDevice.used = No
    BY <2>1, NoDeviceIs
  <2> QED
    BY <2>2, YesNo DEF Live
<1>4. A = MkA(0, <<>>, <<>>, "none")
  BY DEF EdgeStreamTelemetryAdapter, MkA
<1> HIDE DEF A
<1>5. IsAdapter(A) /\ A.error = "none" /\ A.last_sequence = 0
  BY <1>4, MkAIs
<1>6. Sane(es_init.p.devices, A)
  BY <1>2, <1>3, <1>5 DEF Sane
<1>7. Fed(es_init.out) = A
  BY <1>2, FedNone DEF A
<1> QED
  BY <1>6, <1>7, FineInit DEF Steady

-----------------------------------------------------------------------------
(* A finished run has parsed all of the input, as if it had come at once.  *)
FinishedInvariant ==
  pc = "finished" =>
    proc = es_finish(ParseBuffer([origin EXCEPT !.p.buffer = @ \o SubSeq(stream, 1, Len(stream))]))

(* However the input was cut into deliveries, the processor a finished run *)
(* leaves is that of one parse of the whole input, then es_finish.         *)
THEOREM FinishedTheorem == Spec => []FinishedInvariant
<1>1. Init => FinishedInvariant
  BY DEF Init, FinishedInvariant
<1>2. RunnerInvariant /\ FinishedInvariant /\ [Next]_vars => FinishedInvariant'
  <2> SUFFICES ASSUME RunnerInvariant, FinishedInvariant, [Next]_vars PROVE FinishedInvariant'
    OBVIOUS
  <2>1. CASE finish
    <3>1. /\ pc = "reading" /\ position = Len(stream) /\ proc' = es_finish(proc)
          /\ UNCHANGED <<stream, origin>>
      BY <2>1 DEF finish
    <3>2. proc = ParseBuffer([origin EXCEPT !.p.buffer = @ \o SubSeq(stream, 1, Len(stream))])
      BY <3>1 DEF RunnerInvariant, FragmentationIndependent
    <3> QED
      BY <3>1, <3>2 DEF FinishedInvariant
  <2>2. CASE pc' # "finished"
    BY <2>2 DEF FinishedInvariant
  <2>3. CASE UNCHANGED vars
    BY <2>3 DEF FinishedInvariant, vars
  <2>4. CASE \E checkpoint_in \in BOOLEAN : start(checkpoint_in)
    BY <2>2, <2>4 DEF start
  <2>5. CASE \E n \in 1..(ES_MAX_BUFFER \div 2) : deliver(n)
    BY <2>2, <2>5 DEF deliver
  <2>6. CASE es_checkpoint_fails \/ es_checkpoint \/ rename \/ report \/ stop \/ corrupt
    BY <2>2, <2>6 DEF es_checkpoint_fails, es_checkpoint, rename, report, stop, corrupt
  <2> QED
    BY <2>1, <2>3, <2>4, <2>5, <2>6 DEF Next
<1> QED
  BY <1>1, <1>2, RunnerInvariance, PTL DEF Spec

(* A fresh run that is done.                                               *)
LEMMA FreshRun ==
  ASSUME RunnerInvariant, FinishedInvariant, FreshRunDone
  PROVE  /\ stream \in Seq(Symbols) /\ IsProc(With(es_init, stream))
         /\ With(es_init, stream).p.buffer = stream
         /\ proc = es_finish(ParseBuffer(With(es_init, stream)))
<1>1. stream \in Seq(Symbols) /\ Len(stream) \in Nat
  BY StreamIs DEF RunnerInvariant
<1>2. SubSeq(stream, 1, Len(stream)) = stream
  BY <1>1, SubSeqFull
<1>3. <<>> \o stream = stream
  BY <1>1, ConcatEmptySeq
<1>4. [es_init EXCEPT !.p.buffer = @ \o stream] = [es_init EXCEPT !.p.buffer = stream]
  BY <1>3, InitIs
<1>5. [es_init EXCEPT !.p.buffer = stream] = With(es_init, stream)
  BY InitIs, WithIs
<1>6. proc = es_finish(ParseBuffer([es_init EXCEPT !.p.buffer = @ \o stream]))
  BY <1>2 DEF FreshRunDone, FinishedInvariant
<1>7. IsProc(With(es_init, stream)) /\ With(es_init, stream).p.buffer = stream
  BY InitIs, WithIs
<1> QED
  BY <1>1, <1>4, <1>5, <1>6, <1>7

LEMMA SteadyFinish ==
  ASSUME NEW s, NEW od, Steady(s, od)
  PROVE  Steady(es_finish(s), od)
<1>1. CASE s.p.buffer = <<>>
  BY <1>1 DEF es_finish
<1>2. CASE s.p.buffer # <<>>
  <2> DEFINE t == emit_reject(s, "truncated")
  <2>1. es_finish(s) = [t EXCEPT !.p.buffer = <<>>]
    BY <1>2 DEF es_finish
  <2>2. Steady(t, od)
    BY SteadyReject
  <2> HIDE DEF t
  <2>3. [t EXCEPT !.p.buffer = <<>>] = With(t, <<>>)
    BY <2>2, WithIs DEF Steady, Fine
  <2> QED
    BY <2>1, <2>2, <2>3, SteadyWith
<1> QED
  BY <1>1, <1>2

(* The adapter refuses a sequence only where the sender restarted, rolled  *)
(* over or began with 0: what EdgeStream passes on otherwise increases,    *)
(* for every input and however it is cut (accept, accept_frame).           *)
THEOREM RefusesTheorem == Spec => []AdapterRefusesOnly
<1>1. RunnerInvariant /\ FinishedInvariant => AdapterRefusesOnly
  <2> SUFFICES ASSUME RunnerInvariant, FinishedInvariant, FreshRunDone, TameBuffer(stream)
               PROVE  Adapted(proc.out).error # "sequence"
    BY DEF AdapterRefusesOnly, TameBuffer, Tame
  <2> DEFINE z == With(es_init, stream)
             od == es_init.p.devices
  <2>1. /\ stream \in Seq(Symbols) /\ z.p.buffer = stream
        /\ proc = es_finish(ParseBuffer(z))
    BY FreshRun
  <2>2. Steady(z, od)
    BY SteadyInit, SteadyWith
  <2> HIDE DEF z, od
  <2>3. Steady(ParseBuffer(z), od)
    BY <2>1, <2>2, SteadyParse
  <2>4. Steady(proc, od)
    BY <2>1, <2>3, SteadyFinish
  <2>5. IsAdapter(Fed(proc.out)) /\ Fed(proc.out).error # "sequence"
    BY <2>4 DEF Steady, Sane
  <2>6. Len(proc.out) \in Nat
    <3>1. PICK C : proc.out \in Seq(C)
      BY <2>4, FineOut DEF Steady
    <3> QED
      BY <3>1
  <2> DEFINE A == Fed(proc.out)
  <2>7. Adapted(proc.out) = IF A.error = "none" /\ DOMAIN A.pending # {}
                            THEN [A EXCEPT !.error = "incomplete"] ELSE A
    BY <2>6, FedIs
  <2> HIDE DEF A
  <2>8. [A EXCEPT !.error = "incomplete"].error # "sequence"
    <3>1. PICK l, p, s, e : A = MkA(l, p, s, e)
      BY <2>5 DEF A, IsAdapter
    <3>2. [A EXCEPT !.error = "incomplete"] = MkA(l, p, s, "incomplete")
      BY <3>1 DEF MkA
    <3>3. MkA(l, p, s, "incomplete").error = "incomplete"
      BY MkAIs
    <3> QED
      BY <3>2, <3>3
  <2> QED
    BY <2>5, <2>7, <2>8 DEF A
<1> QED
  BY <1>1, RunnerInvariance, FinishedTheorem, PTL

-----------------------------------------------------------------------------
(* What a clean sender's samples become.                                   *)

LEMMA Quotients ==
  ASSUME NEW n \in Nat \ {0}, NEW q \in Nat, NEW r \in 0..(n - 1)
  PROVE  (q * n + r) % n = r /\ (q * n + r) \div n = q
<1> DEFINE i == q * n + r
           a == i \div n
           b == i % n
<1>1. i \in Nat /\ q * n \in Nat
  OBVIOUS
<1>2. a \in Int /\ b \in 0..(n - 1) /\ i = n * a + b
  <2> HIDE DEF i
  <2> QED
    BY <1>1
<1> HIDE DEF a, b
<1>3. n * (a - q) = n * a - n * q /\ n * q = q * n /\ n * (q - a) = n * q - n * a
  BY <1>2
<1>4. n * (a - q) = r - b /\ n * (q - a) = b - r
  BY <1>1, <1>2, <1>3 DEF i
<1>5. \A k \in Int : k >= 1 => n * k >= n
  OBVIOUS
<1>6. a = q
  <2>1. ~(a - q >= 1)
    BY <1>2, <1>4, <1>5
  <2>2. ~(q - a >= 1)
    BY <1>2, <1>4, <1>5
  <2> QED
    BY <1>2, <2>1, <2>2
<1>7. b = r
  BY <1>2, <1>4, <1>6
<1> QED
  BY <1>6, <1>7 DEF a, b

LastSent(i) == IF i = 0 THEN 0 ELSE Sent[i].sequence

(* CleanSender for an input of L frames, in the terms of the parser.       *)
CleanFrames(L) ==
  /\ L \in Nat /\ Len(Sent) = L /\ Len(stream) = 4 * L /\ L % ES_MAX_METRICS = 0
  /\ \A i \in 1..L :
       /\ Sent[i] \in Frame /\ Sent[i] = stream[4 * i].frame /\ Valid(Sent[i])
       /\ Decide(stream, 4 * (i - 1)) = "frame"
       /\ Sent[i].device = DeviceId /\ ~Sent[i].restart
       /\ Sent[i].metric = (i - 1) % ES_MAX_METRICS
       /\ Sent[i].metric \in DOMAIN Codes => normalized(Sent[i]) \in Codes[Sent[i].metric]
       /\ Sent[i].sequence > LastSent(i - 1)
       /\ \A j \in 1..(i - 1) : (i - 1) \div ES_MAX_METRICS = (j - 1) \div ES_MAX_METRICS =>
                                  Sent[i].timestamp = Sent[j].timestamp

LEMMA CleanIs ==
  ASSUME stream \in Seq(Symbols), CleanSender
  PROVE  \E L : CleanFrames(L)
<1> DEFINE L == Len(stream) \div 4
<1>1. L \in Nat /\ Len(stream) \in Nat
  <2>1. \A k \in Nat : k \div 4 \in Nat
    OBVIOUS
  <2> QED
    BY <2>1
<1>2. /\ Len(Sent) = L /\ DOMAIN Sent = 1..L
      /\ \A i \in 1..L : Sent[i] = stream[4 * i].frame
  <2>1. Sent = [i \in 1..L |-> stream[4 * i].frame]
    BY DEF Sent, FrameSize
  <2> HIDE DEF L
  <2> QED
    BY <1>1, <2>1
<1> HIDE DEF L
<1>3. Len(stream) = 4 * L /\ L % ES_MAX_METRICS = 0
  BY <1>2 DEF CleanSender, FrameSize
<1>4. ASSUME NEW i \in 1..L
      PROVE  /\ Sent[i] \in Frame /\ Valid(Sent[i])
             /\ Decide(stream, 4 * (i - 1)) = "frame"
  <2>1. /\ stream[4 * (i - 1) + 1].kind = "e5" /\ stream[4 * (i - 1) + 2].kind = "47"
        /\ stream[4 * (i - 1) + 3].kind = "length" /\ Valid(stream[4 * (i - 1) + 4].frame)
    BY <1>2, <1>4 DEF CleanSender, WholeFrame, FrameSize
  <2>2. 4 * (i - 1) + 4 = 4 * i /\ 4 * i \in 1..Len(stream)
    BY <1>1, <1>3, <1>4
  <2>3. Sent[i] \in Frame
    <3>1. stream[4 * i] \in Symbols
      BY <2>2
    <3> QED
      BY <1>2, <3>1 DEF Symbols
  <2> DEFINE o == 4 * (i - 1)
  <2>4. o \in Nat /\ Len(stream) - o >= 4 /\ (o + 1) + 1 = o + 2
    BY <1>1, <1>3, <1>4
  <2> HIDE DEF o
  <2>5. Magic(stream, o + 1)
    BY <2>1, <2>4 DEF Magic, o
  <2>6. Decide(stream, o) = "frame"
    <3>1. stream[o + 3].kind = "length"
      BY <2>1 DEF o
    <3> QED
      BY <1>1, <2>4, <2>5, <3>1 DEF Decide, FrameSize, HeaderSize
  <2> QED
    BY <1>2, <2>1, <2>2, <2>3, <2>6 DEF o
<1>5. ASSUME NEW i \in 1..L
      PROVE  /\ Sent[i].device = DeviceId /\ ~Sent[i].restart
             /\ Sent[i].metric = (i - 1) % ES_MAX_METRICS
             /\ Sent[i].metric \in DOMAIN Codes => normalized(Sent[i]) \in Codes[Sent[i].metric]
             /\ Sent[i].sequence > LastSent(i - 1)
             /\ \A j \in 1..(i - 1) : (i - 1) \div ES_MAX_METRICS = (j - 1) \div ES_MAX_METRICS =>
                                        Sent[i].timestamp = Sent[j].timestamp
  <2>1. i \in DOMAIN Sent
    BY <1>2
  <2>2. /\ Sent[i].device = DeviceId /\ ~Sent[i].restart
        /\ Sent[i].metric = (i - 1) % ES_MAX_METRICS
        /\ Sent[i].metric \in DOMAIN Codes => normalized(Sent[i]) \in Codes[Sent[i].metric]
        /\ Sent[i].sequence > IF i = 1 THEN 0 ELSE Sent[i - 1].sequence
        /\ \A j \in 1..(i - 1) : (i - 1) \div ES_MAX_METRICS = (j - 1) \div ES_MAX_METRICS =>
                                   Sent[i].timestamp = Sent[j].timestamp
    BY <2>1, Zenon DEF CleanSender
  <2>3. LastSent(i - 1) = IF i = 1 THEN 0 ELSE Sent[i - 1].sequence
    BY <1>1, <1>5 DEF LastSent
  <2> QED
    BY <2>2, <2>3
<1>6. CleanFrames(L)
  BY <1>1, <1>2, <1>3, <1>4, <1>5 DEF CleanFrames
<1> QED
  BY <1>6

(* The adapter after i frames: whole samples, and the metrics so far of    *)
(* the one that is not whole.                                              *)
SampleAt(k) ==
  [observed |-> observed_at_s(Sent[(k - 1) * ES_MAX_METRICS + 1].timestamp),
   values |-> [m \in Metrics |-> normalized(Sent[(k - 1) * ES_MAX_METRICS + m + 1])]]
Samples(q) == [k \in 1..q |-> SampleAt(k)]
Part(q, r) == [m \in 0..(r - 1) |-> normalized(Sent[q * ES_MAX_METRICS + m + 1])]
OnlyAt(p, t, g) == DOMAIN p = {t} /\ p[t] = g

Waiting(p, q, r) ==
  IF r = 0 THEN DOMAIN p = {} ELSE OnlyAt(p, Sent[q * ES_MAX_METRICS + 1].timestamp, Part(q, r))

Joined(A, i) ==
  \E q \in Nat, r \in 0..(ES_MAX_METRICS - 1) :
    /\ i = q * ES_MAX_METRICS + r
    /\ \E p : Waiting(p, q, r) /\ A = MkA(LastSent(i), p, Samples(q), "none")

LEMMA JoinStep ==
  ASSUME NEW L, CleanFrames(L), NEW i \in 0..(L - 1), NEW A, Joined(A, i)
  PROVE  Joined(accept(A, EventRecord(Sent[i + 1])), i + 1)
<1> DEFINE n == ES_MAX_METRICS
           f == Sent[i + 1]
           B == accept(A, EventRecord(f))
<1>0. n \in Nat \ {0} /\ L \in Nat /\ i \in Nat /\ i + 1 \in 1..L /\ (i + 1) - 1 = i
  BY SizesAssumption DEF CleanFrames
<1>a. PICK q \in Nat, r \in 0..(n - 1) :
         /\ i = q * n + r
         /\ \E p : Waiting(p, q, r) /\ A = MkA(LastSent(i), p, Samples(q), "none")
  BY DEF Joined
<1>1. PICK p : /\ i = q * n + r /\ Waiting(p, q, r)
               /\ A = MkA(LastSent(i), p, Samples(q), "none")
  BY <1>a
<1> DEFINE at(m) == q * n + m + 1
           t == Sent[q * n + 1].timestamp
<1>2. q * n \in Nat /\ r \in Nat /\ at(r) = i + 1 /\ \A m \in 0..r : at(m) \in 1..L
  BY <1>0, <1>1
<1>3. ASSUME NEW m \in 0..r
      PROVE  /\ (at(m) - 1) % n = m /\ (at(m) - 1) \div n = q
             /\ Sent[at(m)].metric = m
             /\ m \in DOMAIN Codes => normalized(Sent[at(m)]) \in Codes[m]
  <2>1. m \in 0..(n - 1) /\ at(m) - 1 = q * n + m
    BY <1>0, <1>2
  <2>2. (q * n + m) % n = m /\ (q * n + m) \div n = q
    BY <1>0, <2>1, Quotients
  <2>3. (at(m) - 1) % n = m /\ (at(m) - 1) \div n = q
    BY <2>1, <2>2
  <2>4. /\ Sent[at(m)].metric = (at(m) - 1) % n
        /\ Sent[at(m)].metric \in DOMAIN Codes =>
             normalized(Sent[at(m)]) \in Codes[Sent[at(m)].metric]
    <3>1. at(m) \in 1..L
      BY <1>2
    <3> HIDE DEF at
    <3> QED
      BY <3>1 DEF CleanFrames
  <2> HIDE DEF at
  <2> QED
    BY <2>3, <2>4
<1>4. /\ f.device = DeviceId /\ f.sequence > LastSent(i) /\ f \in Frame
      /\ f.metric = r
  <2>1. f.device = DeviceId /\ f.sequence > LastSent((i + 1) - 1) /\ f \in Frame
    BY <1>0 DEF CleanFrames
  <2>2. r \in 0..r
    BY <1>2
  <2>3. Sent[at(r)].metric = r
    BY <1>3, <2>2
  <2> QED
    BY <1>0, <1>2, <2>1, <2>3
<1>5. f.timestamp = t
  <2>1. CASE r = 0
    <3>1. i + 1 = q * n + 1
      BY <1>1, <1>2, <2>1
    <3> QED
      BY <3>1
  <2>2. CASE r # 0
    <3>1. 0 \in 0..r /\ r \in 0..r /\ at(0) = q * n + 1 /\ at(0) \in 1..i
      BY <1>1, <1>2, <2>2
    <3>2. (at(0) - 1) \div n = q /\ (at(r) - 1) \div n = q
      BY <1>3, <3>1
    <3>3. \A j \in 1..i : i \div n = (j - 1) \div n => f.timestamp = Sent[j].timestamp
      <4>1. \A j \in 1..((i + 1) - 1) : ((i + 1) - 1) \div n = (j - 1) \div n =>
                                          f.timestamp = Sent[j].timestamp
        BY <1>0 DEF CleanFrames
      <4> QED
        BY <1>0, <4>1
    <3>4. i \div n = q
      BY <1>0, <1>2, <3>2
    <3> HIDE DEF at
    <3>5. f.timestamp = Sent[at(0)].timestamp
      BY <3>1, <3>2, <3>3, <3>4
    <3> QED
      BY <3>1, <3>5
  <2> QED
    BY <2>1, <2>2
<1> DEFINE g == Pending(A, t)
           v == Put(g, r, normalized(f))
<1>6. A.pending = p
  BY <1>1, MkAIs
<1>7. /\ DOMAIN g = 0..(r - 1)
      /\ \A m \in 0..(r - 1) : g[m] = normalized(Sent[at(m)])
  <2>1. CASE r = 0
    <3>1. DOMAIN p = {}
      BY <1>1, <2>1 DEF Waiting
    <3>2. g = <<>>
      BY <1>6, <3>1 DEF Pending
    <3>3. DOMAIN <<>> = {} /\ 0..(r - 1) = {}
      BY <2>1
    <3> HIDE DEF g
    <3> QED
      BY <3>2, <3>3
  <2>2. CASE r # 0
    <3>1. DOMAIN p = {t} /\ p[t] = Part(q, r)
      BY <1>1, <2>2 DEF Waiting, OnlyAt
    <3>2. g = Part(q, r)
      BY <1>6, <3>1 DEF Pending
    <3> HIDE DEF g
    <3> QED
      BY <3>2 DEF Part
  <2> QED
    BY <2>1, <2>2
<1> HIDE DEF g
<1>8. r \notin DOMAIN g
  BY <1>2, <1>7
<1>9. /\ DOMAIN v = 0..r
      /\ \A m \in 0..r : v[m] = normalized(Sent[at(m)])
  <2>1. /\ DOMAIN v = DOMAIN g \cup {r} /\ v[r] = normalized(f)
        /\ \A y \in DOMAIN g : y # r => v[y] = g[y]
    BY DEF Put
  <2> HIDE DEF v
  <2>2. DOMAIN v = 0..r
    BY <1>2, <1>7, <2>1
  <2>3. ASSUME NEW m \in 0..r
        PROVE  v[m] = normalized(Sent[at(m)])
    <3>1. CASE m = r
      <4>1. Sent[at(r)] = f
        BY <1>2
      <4> HIDE DEF at, f
      <4> QED
        BY <2>1, <3>1, <4>1
    <3>2. CASE m # r
      <4>1. m \in 0..(r - 1)
        BY <1>2, <3>2
      <4> QED
        BY <1>7, <2>1, <3>2, <4>1
    <3> QED
      BY <3>1, <3>2
  <2> QED
    BY <2>2, <2>3
<1>10. v = [m \in 0..r |-> normalized(Sent[at(m)])]
  <2>1. v = [m \in DOMAIN v |-> v[m]]
    BY DEF v, Put
  <2> HIDE DEF v
  <2> QED
    BY <1>9, <2>1
<1>11. /\ DOMAIN v # Metrics => B = MkA(f.sequence, Put(p, t, v), Samples(q), "none")
       /\ DOMAIN v = Metrics /\ (\A m \in DOMAIN Codes : v[m] \in Codes[m]) =>
            B = MkA(f.sequence, Drop(p, t),
                    Append(Samples(q), [observed |-> observed_at_s(t), values |-> v]), "none")
  <2> HIDE DEF t, v, f
  <2>1. ~(f.sequence <= LastSent(i))
    <3>1. f.sequence \in Nat /\ LastSent(i) \in Nat
      <4>1. f.sequence \in Nat
        BY <1>4 DEF Frame
      <4>2. CASE i = 0
        BY <4>1, <4>2 DEF LastSent
      <4>3. CASE i # 0
        <5>1. i \in 1..L
          BY <1>0, <4>3
        <5>2. Sent[i] \in Frame
          BY <5>1 DEF CleanFrames
        <5>3. Sent[i].sequence \in Nat
          BY <5>2 DEF Frame
        <5> QED
          BY <4>1, <4>3, <5>3 DEF LastSent
      <4> QED
        BY <4>2, <4>3
    <3> QED
      BY <1>4, <3>1
  <2>2. v = Put(g, f.metric, normalized(f)) /\ f.metric \notin DOMAIN g /\ g = Pending(A, f.timestamp)
    BY <1>4, <1>5, <1>8 DEF v, g
  <2>3. f.metric \in Metrics
    BY <1>2, <1>4, SizesAssumption DEF Metrics
  <2> QED
    BY <1>1, <1>4, <1>5, <2>1, <2>2, <2>3, AcceptIs
<1>12. LastSent(i + 1) = f.sequence
  BY <1>0 DEF LastSent
<1> HIDE DEF B, f, v
<1>13. CASE r # n - 1
  <2>1. r + 1 \in 0..(n - 1) /\ i + 1 = q * n + (r + 1) /\ r + 1 # 0 /\ (r + 1) - 1 = r
    BY <1>0, <1>1, <1>2, <1>13
  <2>2. DOMAIN v # Metrics
    <3>1. n - 1 \in Metrics /\ n - 1 \notin 0..r
      BY <1>0, <2>1 DEF Metrics
    <3> QED
      BY <1>9, <3>1
  <2> DEFINE P == Put(p, t, v)
  <2>3. DOMAIN P = {t} /\ P[t] = v
    <3>1. DOMAIN p \subseteq {t}
      BY <1>1 DEF Waiting, OnlyAt
    <3> HIDE DEF t
    <3> QED
      BY <3>1 DEF P, Put
  <2> HIDE DEF P
  <2>4. v = Part(q, r + 1)
    BY <1>10, <2>1 DEF Part
  <2>5. Waiting(P, q, r + 1)
    BY <2>1, <2>3, <2>4 DEF Waiting, OnlyAt
  <2>6. B = MkA(LastSent(i + 1), P, Samples(q), "none")
    BY <1>11, <1>12, <2>2 DEF P
  <2>7. Joined(B, i + 1)
    BY <2>1, <2>5, <2>6 DEF Joined
  <2> QED
    BY <2>7 DEF B, f
<1>14. CASE r = n - 1
  <2>1. 0..r = Metrics
    BY <1>14 DEF Metrics
  <2>2. \A m \in DOMAIN Codes : v[m] \in Codes[m]
    <3>1. ASSUME NEW m \in DOMAIN Codes PROVE v[m] \in Codes[m]
      <4>1. m \in 0..r
        BY <2>1, AdapterAssumption
      <4> HIDE DEF at
      <4> QED
        BY <1>3, <1>9, <4>1
    <3> QED
      BY <3>1
  <2> DEFINE P == Drop(p, t)
             S == Append(Samples(q), [observed |-> observed_at_s(t), values |-> v])
  <2>3. B = MkA(LastSent(i + 1), P, S, "none")
    BY <1>9, <1>11, <1>12, <2>1, <2>2
  <2>4. DOMAIN P = {}
    <3>1. DOMAIN p \subseteq {t}
      BY <1>1 DEF Waiting, OnlyAt
    <3> HIDE DEF t
    <3> QED
      BY <3>1 DEF P, Drop
  <2>5. q + 1 \in Nat /\ 0 \in 0..(n - 1) /\ i + 1 = (q + 1) * n + 0
    <3>1. (q + 1) * n = q * n + n
      BY <1>0
    <3> QED
      BY <1>0, <1>1, <1>2, <1>14, <3>1
  <2>6. S = Samples(q + 1)
    <3>1. SampleAt(q + 1) = [observed |-> observed_at_s(t), values |-> v]
      <4>1. (q + 1) - 1 = q
        OBVIOUS
      <4> QED
        BY <1>10, <2>1, <4>1 DEF SampleAt
    <3>2. Samples(q) \in Seq({SampleAt(k) : k \in 1..q}) /\ Len(Samples(q)) = q
      BY DEF Samples
    <3> QED
      BY <3>1, <3>2 DEF Samples
  <2>7. Waiting(P, q + 1, 0)
    BY <2>4 DEF Waiting
  <2> HIDE DEF P, S
  <2>8. Joined(B, i + 1)
    BY <2>3, <2>5, <2>6, <2>7 DEF Joined
  <2> QED
    BY <2>8 DEF B, f
<1> QED
  BY <1>13, <1>14

(* The one device of a clean sender after i frames.                        *)
Known(dv, i) ==
  IF i = 0 THEN \A j \in Slots : ~dv[j].used
  ELSE \E j \in Slots : /\ Live(dv[j]) /\ dv[j].device_id = DeviceId
                        /\ dv[j].last_seq = Sent[i].sequence

Serves(s, od, i) == Fine(s, od) /\ Known(s.p.devices, i) /\ Joined(Fed(s.out), i)

LEMMA FindSome ==
  ASSUME NEW p, NEW id, NEW k \in Slots,
         ~p.devices[k].used \/ p.devices[k].device_id = id
  PROVE  find_device(p, id) # 0
<1> DEFINE K == {i \in Slots : p.devices[i].used /\ p.devices[i].device_id = id}
           F == {i \in Slots : ~p.devices[i].used}
           First(S) == CHOOSE i \in S : \A j \in S : i <= j
<1>1. find_device(p, id) = IF K # {} THEN First(K) ELSE IF F # {} THEN First(F) ELSE 0
  BY Zenon DEF find_device
<1>2. ASSUME NEW S, S \subseteq Slots, S # {}
      PROVE  First(S) \in S
  <2>1. S \subseteq Nat
    BY <1>2 DEF Slots
  <2>2. PICK x \in S : \A y \in S : ~(y < x)
    BY <1>2, <2>1, LeastNatural, Zenon
  <2>3. \A y \in S : x <= y
    BY <2>1, <2>2
  <2> QED
    BY <2>3, Zenon
<1>3. K \subseteq Slots /\ F \subseteq Slots /\ (K # {} \/ F # {})
  <2>1. CASE p.devices[k].used
    BY <2>1
  <2>2. CASE ~p.devices[k].used
    BY <2>2
  <2> QED
    BY <2>1, <2>2
<1>4. K # {} => First(K) \in Slots
  BY <1>2, <1>3
<1>5. F # {} => First(F) \in Slots
  BY <1>2, <1>3
<1> HIDE DEF First, K, F
<1>6. find_device(p, id) \in Slots
  BY <1>1, <1>3, <1>4, <1>5
<1> QED
  BY <1>6 DEF Slots

(* Every frame of a clean sender is accepted, and the adapter takes it.    *)
LEMMA ServesFrame ==
  ASSUME NEW L, CleanFrames(L), NEW k \in 0..(L - 1), NEW s, NEW od, Serves(s, od, k)
  PROVE  Serves(Process(s, Sent[k + 1]), od, k + 1)
<1> DEFINE f == Sent[k + 1]
           w == accept_frame(s, f)
<1>0. Fine(s, od) /\ Known(s.p.devices, k) /\ Joined(Fed(s.out), k)
  BY DEF Serves
<1>1. L \in Nat /\ k \in Nat /\ k + 1 \in 1..L /\ (k + 1) - 1 = k
  BY DEF CleanFrames
<1>2. /\ f \in Frame /\ Valid(f) /\ f.device = DeviceId /\ ~f.restart
      /\ f.sequence > LastSent((k + 1) - 1)
  BY <1>1 DEF CleanFrames
<1>3. Joined(accept(Fed(s.out), EventRecord(f)), k + 1)
  BY <1>0, JoinStep
<1> HIDE DEF f
<1>4. Process(s, f) = w
  BY <1>2 DEF Process, Valid
<1>5. f.metric \in Metrics /\ f.metric # ES_METRIC_WATERMARK /\ ~(f.metric >= ES_MAX_METRICS)
  <2>1. f.metric \in Nat /\ f.metric < ES_MAX_METRICS
    BY <1>2 DEF Frame, Valid
  <2> QED
    BY <2>1, SizesAssumption, WatermarkAssumption DEF Metrics
<1>6. f.sequence \in Nat /\ f.sequence > LastSent(k)
  BY <1>1, <1>2 DEF Frame
<1> DEFINE i == find_device(s.p, f.device)
           d == Found(s.p.devices[i], f)
           t == [s EXCEPT !.p.devices[i] = d,
                   !.history[i] = IF f.restart THEN [m \in Metrics |-> <<>>] ELSE @]
<1>7. PICK b, dv, a, r, o, h : s = Mk(b, dv, a, r, o, h)
  BY <1>0 DEF Fine, IsProc
<1>8. Tab(dv, h) /\ Reports(dv, o, od)
  BY <1>0, <1>7, FineIs
<1>9. s.p.devices = dv /\ s.history = h /\ s.out = o
  BY <1>7, MkIs
<1>10. i # 0
  <2>1. CASE k = 0
    <3>1. 1 \in Slots
      BY SizesAssumption DEF Slots
    <3>2. ~s.p.devices[1].used
      BY <1>0, <2>1, <3>1 DEF Known
    <3> QED
      BY <3>1, <3>2, FindSome
  <2>2. CASE k # 0
    <3>1. PICK j \in Slots : s.p.devices[j].device_id = f.device
      BY <1>0, <1>2, <2>2 DEF Known
    <3> QED
      BY <3>1, FindSome
  <2> QED
    BY <2>1, <2>2
<1>11. /\ i \in Slots
       /\ \/ dv[i].used /\ dv[i].device_id = f.device
          \/ ~dv[i].used /\ \A j \in Slots : ~(dv[j].used /\ dv[j].device_id = f.device)
  BY <1>9, <1>10, FindIs
<1>12. w = IF Duplicate(d, f) THEN emit(t, "duplicate", f.device, "duplicate")
           ELSE IF Late(d, f) THEN emit(t, "late", f.device, "late")
           ELSE AcceptEvent(t, i, d, f)
  BY <1>5, <1>10 DEF accept_frame
<1> HIDE DEF i
<1> DEFINE hs == IF f.restart THEN NoHistory ELSE h[i]
           V == [dv EXCEPT ![i] = d]
           H == [h EXCEPT ![i] = hs]
<1>13. Tab(V, H) /\ Reports(V, o, od) /\ d.used /\ d.device_id = f.device /\ Kept(d, hs)
  <2>1. d = Found(dv[i], f)
    BY <1>9
  <2> HIDE DEF d
  <2> QED
    BY <1>8, <1>11, <2>1, FineTaken
<1>14. t = Mk(b, V, a, r, o, H)
  <2> DEFINE z == Mk(b, dv, a, r, o, h)
  <2> HIDE DEF d
  <2>1. t = [z EXCEPT !.p.devices[i] = d, !.history[i] = hs]
    BY <1>7, <1>9 DEF NoHistory
  <2> HIDE DEF hs, t
  <2> QED
    BY <2>1 DEF Mk
<1>15. ~Duplicate(d, f) /\ ~Late(d, f)
  <2>1. /\ dv[i].used => d = dv[i]
        /\ ~dv[i].used => ~d.seq_valid
    BY <1>2, <1>9, FoundTame
  <2> HIDE DEF d
  <2>2. CASE k = 0
    <3>1. ~dv[i].used
      BY <1>0, <1>9, <1>11, <2>2 DEF Known
    <3> QED
      BY <2>1, <3>1 DEF Duplicate, Late
  <2>3. CASE k # 0
    <3>1. PICK j \in Slots : /\ Live(dv[j]) /\ dv[j].device_id = DeviceId
                             /\ dv[j].last_seq = Sent[k].sequence
      BY <1>0, <1>9, <2>3 DEF Known
    <3>2. j = i
      <4>1. dv[j].used /\ dv[j].device_id = f.device
        BY <1>2, <3>1 DEF Live
      <4>2. dv[i].used /\ dv[i].device_id = f.device
        BY <1>11, <4>1
      <4> QED
        BY <1>8, <1>11, <4>1, <4>2 DEF Reports, Distinct
    <3>3. d.last_seq = LastSent(k)
      BY <2>1, <2>3, <3>1, <3>2 DEF LastSent, Live
    <3>4. LastSent(k) \in Nat
      <4>1. k \in 1..L
        BY <1>1, <2>3
      <4>2. Sent[k] \in Frame
        BY <4>1 DEF CleanFrames
      <4>3. Sent[k].sequence \in Nat
        BY <4>2 DEF Frame
      <4> QED
        BY <2>3, <4>3 DEF LastSent
    <3> QED
      BY <1>6, <3>3, <3>4 DEF Duplicate, Late
  <2> QED
    BY <2>2, <2>3
<1> HIDE DEF t, H, d, hs
<1>16. IsFun(V, Slots)
  BY <1>13 DEF Tab
<1> HIDE DEF V
<1> DEFINE e == EventDevice(d, f)
           U == [V EXCEPT ![i] = e]
           m == f.metric
           g == Append(H[i][m], normalized(f))
<1>17. PICK O : /\ AcceptEvent(t, i, d, f) = Mk(b, U, a + 1, r, O, [H EXCEPT ![i][m] = g])
                /\ Longer(Cleared(o, d, f), f, O)
  <2>1. PICK O : EventOutcome(b, V, a, r, o, H, i, d, f, O)
    BY AcceptEventIs
  <2> QED
    BY <1>14, <2>1, Zenon DEF EventOutcome
<1>18. Live(e) /\ e.device_id = DeviceId /\ e.last_seq = f.sequence
  <2>1. e.used /\ e.seq_valid /\ e.device_id = d.device_id /\ e.last_seq = f.sequence
    BY <1>2, <1>5, <1>13, EventDeviceIs
  <2> HIDE DEF e
  <2> QED
    BY <1>2, <1>13, <2>1 DEF Live
<1> HIDE DEF e, g
<1>19. U[i] = e
  BY <1>11, <1>16 DEF IsFun
<1>20. PICK C : o \in Seq(C)
  BY <1>13 DEF Reports
<1>21. Fed(O) = accept(Fed(s.out), EventRecord(f))
  BY <1>9, <1>17, <1>20, FedEvent
<1>22. w = Mk(b, U, a + 1, r, O, [H EXCEPT ![i][m] = g])
  BY <1>12, <1>15, <1>17
<1>23. Fine(w, od)
  BY <1>0, <1>2, FineFrame
<1> HIDE DEF U, w
<1>24. w.p.devices = U /\ w.out = O
  BY <1>22, MkIs
<1>25. Known(w.p.devices, k + 1)
  <2>1. k + 1 # 0
    BY <1>1
  <2>2. Live(U[i]) /\ U[i].device_id = DeviceId /\ U[i].last_seq = Sent[k + 1].sequence
    BY <1>18, <1>19 DEF f
  <2> QED
    BY <1>11, <1>24, <2>1, <2>2 DEF Known
<1>26. Joined(Fed(w.out), k + 1)
  BY <1>3, <1>21, <1>24
<1>27. Serves(w, od, k + 1)
  BY <1>23, <1>25, <1>26 DEF Serves
<1> QED
  BY <1>4, <1>27 DEF f

LEMMA ServesInit == Serves(With(es_init, stream), es_init.p.devices, 0)
<1> DEFINE z == With(es_init, stream)
           A == EdgeStreamTelemetryAdapter
<1>1. Fine(z, es_init.p.devices)
  BY FineInit, FineWith
<1>2. z.p.devices = es_init.p.devices /\ z.out = es_init.out
  BY MkIs DEF With
<1>3. es_init.out = <<>> /\ \A i \in Slots : es_init.p.devices[i] = NoDevice
  <2> DEFINE dv == [i \in Slots |-> NoDevice]
  <2>1. \A i \in Slots : dv[i] = NoDevice
    OBVIOUS
  <2>2. es_init = Mk(<<>>, dv, 0, 0, <<>>, [i \in Slots |-> [m \in Metrics |-> <<>>]])
    BY DEF es_init, Mk
  <2> HIDE DEF dv
  <2>3. es_init.p.devices = dv /\ es_init.out = <<>>
    BY <2>2, MkIs
  <2> QED
    BY <2>1, <2>3
<1>4. ~NoDevice.used
  <2>1. ASSUME NEW d, d = MkD(No, No, No, 0, 0, 0, [m \in Metrics |-> NoMetric])
        PROVE  d.used = No
    BY <2>1, MkDIs
  <2>2. NoDevice.used = No
    BY <2>1, NoDeviceIs
  <2> QED
    BY <2>2, YesNo
<1> HIDE DEF z
<1>5. Known(z.p.devices, 0)
  BY <1>2, <1>3, <1>4 DEF Known
<1>6. A = MkA(LastSent(0), <<>>, Samples(0), "none")
  <2>1. LastSent(0) = 0
    BY DEF LastSent
  <2>2. Samples(0) = <<>>
    BY DEF Samples
  <2> QED
    BY <2>1, <2>2 DEF EdgeStreamTelemetryAdapter, MkA
<1> HIDE DEF A
<1>7. Waiting(<<>>, 0, 0)
  BY DEF Waiting
<1>8. 0 \in Nat /\ 0 \in 0..(ES_MAX_METRICS - 1) /\ 0 = 0 * ES_MAX_METRICS + 0
  BY SizesAssumption
<1>9. Joined(A, 0)
  BY <1>6, <1>7, <1>8 DEF Joined
<1>10. Fed(z.out) = A
  BY <1>2, <1>3, FedNone DEF A
<1> QED
  BY <1>1, <1>5, <1>9, <1>10 DEF Serves, z

(* The loop takes a clean input frame by frame, to its end.                *)
LEMMA ServesParse ==
  ASSUME stream \in Seq(Symbols), NEW L, CleanFrames(L)
  PROVE  \E t : /\ Serves(t, es_init.p.devices, L)
                /\ ParseBuffer(With(es_init, stream)) = With(t, <<>>)
<1> DEFINE z == With(es_init, stream)
           od == es_init.p.devices
           M == Len(stream) + 1
<1>0. L \in Nat /\ Len(stream) = 4 * L /\ M \in Nat /\ L + 1 \in 0..M
  BY DEF CleanFrames
<1>1. Serves(z, od, 0) /\ IsProc(z) /\ z.p.buffer = stream
  BY ServesInit, InitIs, WithIs
<1> HIDE DEF z, od
<1>2. PICK st, j, t, o : Parsed(z, stream, st, j, t, o)
  BY <1>1, ParseBufferIs
<1>3. /\ Parsing(z, M, st) /\ st[M] = Off(t, o)
      /\ ParseBuffer(z) = With(t, SubSeq(stream, o + 1, Len(stream)))
  BY <1>2 DEF Parsed
<1> HIDE DEF M
<1> DEFINE Good(i) == \E u : st[i] = On(u, 4 * i) /\ Serves(u, od, i) /\ u.p.buffer = stream
           T == {i \in 0..L : ~Good(i)}
<1>4. T = {}
  <2> SUFFICES ASSUME T # {} PROVE FALSE
    OBVIOUS
  <2>0. T \subseteq Nat
    BY <1>0
  <2>1. PICK i \in T : \A k \in T : ~(k < i)
    BY <2>0, LeastNatural, Zenon
  <2>2. i \in 0..L /\ ~Good(i) /\ i \in 0..M
    BY <1>0, <2>1
  <2>3. CASE i = 0
    <3>1. st[0] = On(z, 0) /\ 4 * 0 = 0
      BY <1>0, <1>3 DEF Parsing
    <3>2. Good(0)
      BY <1>1, <3>1
    <3> QED
      BY <2>2, <2>3, <3>2
  <2>4. CASE i # 0
    <3> DEFINE k == i - 1
    <3>1. i \in Nat /\ k \in 0..L /\ k < i /\ k \in 0..(L - 1) /\ k + 1 = i /\ i \in 1..L
      BY <1>0, <2>2, <2>4
    <3>2. Good(k)
      BY <2>1, <3>1
    <3>3. st[i] = ParseStep(st[k])
      <4> HIDE DEF T, Good
      <4> QED
        BY <1>3, <2>2, <2>4 DEF Parsing
    <3>4. PICK u : st[k] = On(u, 4 * k) /\ Serves(u, od, k) /\ u.p.buffer = stream
      BY <3>2
    <3>5. Decide(stream, 4 * k) = "frame" /\ stream[4 * i].frame = Sent[i]
      BY <3>1 DEF CleanFrames
    <3>6. 4 * k \in Nat /\ 4 * k + 4 = 4 * i
      BY <3>1
    <3> DEFINE y == Process(u, Sent[i])
    <3>7. ParseStep(On(u, 4 * k)) = On(y, 4 * i)
      <4>1. ParseStep(On(u, 4 * k)) = On(Process(u, stream[4 * k + 4].frame), 4 * k + FrameSize)
        BY <3>4, <3>5, <3>6, StepIs
      <4> QED
        BY <3>5, <3>6, <4>1 DEF FrameSize
    <3>8. Serves(y, od, i)
      BY <3>1, <3>4, ServesFrame
    <3>9. y.p.buffer = stream
      <4>1. IsProc(u)
        BY <3>4 DEF Serves, Fine
      <4> QED
        BY <3>4, <4>1, ProcessBlind
    <3> HIDE DEF y
    <3>10. Good(i)
      BY <3>3, <3>4, <3>7, <3>8, <3>9
    <3> QED
      BY <2>2, <3>10
  <2> QED
    BY <2>3, <2>4
<1>5. PICK u : st[L] = On(u, 4 * L) /\ Serves(u, od, L) /\ u.p.buffer = stream
  <2>1. L \in 0..L
    BY <1>0
  <2> QED
    BY <1>4, <2>1
<1> DEFINE x == Off(u, 4 * L)
<1>6. ParseStep(On(u, 4 * L)) = x /\ ParseStep(x) = x
  <2>1. 4 * L \in Nat /\ Len(stream) - 4 * L = 0
    BY <1>0
  <2>2. Decide(stream, 4 * L) = "stop"
    BY <2>1 DEF Decide
  <2> QED
    BY <1>5, <2>1, <2>2, StepIs
<1>7. st[L + 1] = x
  <2>1. L + 1 # 0 /\ (L + 1) - 1 = L
    BY <1>0
  <2>2. st[L + 1] = ParseStep(st[(L + 1) - 1])
    <3> HIDE DEF T, Good
    <3> QED
      BY <1>0, <1>3, <2>1 DEF Parsing
  <2> QED
    BY <1>5, <1>6, <2>1, <2>2
<1> HIDE DEF x
<1>8. Rests(st, L + 1, M, x)
  BY <1>0, <1>3, <1>6, <1>7, ParsingStays
<1>9. st[M] = x
  <2>1. M \in (L + 1)..M
    BY <1>0
  <2> QED
    BY <1>8, <2>1 DEF Rests
<1>10. t = u /\ o = 4 * L
  <2> DEFINE c == 4 * L
  <2>1. Off(t, o) = Off(u, c)
    BY <1>3, <1>9 DEF x
  <2> HIDE DEF c
  <2>2. t = u /\ o = c
    BY <2>1, LoopParts
  <2> QED
    BY <2>2 DEF c
<1>11. SubSeq(stream, o + 1, Len(stream)) = <<>>
  <2>1. o + 1 \in Int /\ Len(stream) \in Int /\ Len(stream) < o + 1
    BY <1>0, <1>10
  <2> QED
    BY <2>1, SubSeqEmpty
<1> QED
  BY <1>3, <1>5, <1>10, <1>11 DEF z, od

(* Whatever the fragmentation, and for any number of metrics and samples,  *)
(* what a clean sender sent through EdgeStream and the adapter arrives as  *)
(* the samples that were sent (run of run_study.py).                       *)
THEOREM DeliversTheorem == Spec => []AdapterDelivers
<1>1. RunnerInvariant /\ FinishedInvariant => AdapterDelivers
  <2> SUFFICES ASSUME RunnerInvariant, FinishedInvariant, FreshRunDone, CleanSender
               PROVE  /\ Adapted(proc.out).error = "none"
                      /\ Adapted(proc.out).samples = Samples(Len(Sent) \div ES_MAX_METRICS)
    BY DEF AdapterDelivers, Samples, SampleAt, observed_at_s
  <2>1. stream \in Seq(Symbols) /\ proc = es_finish(ParseBuffer(With(es_init, stream)))
    BY FreshRun
  <2>2. PICK L : CleanFrames(L)
    BY <2>1, CleanIs
  <2>3. PICK t : /\ Serves(t, es_init.p.devices, L)
                 /\ ParseBuffer(With(es_init, stream)) = With(t, <<>>)
    BY <2>1, <2>2, ServesParse
  <2>4. IsProc(t) /\ Joined(Fed(t.out), L) /\ \E C : t.out \in Seq(C)
    BY <2>3, FineOut DEF Serves
  <2>5. proc.out = t.out
    <3>1. With(t, <<>>).p.buffer = <<>> /\ With(t, <<>>).out = t.out
      BY MkIs DEF With
    <3>2. es_finish(With(t, <<>>)) = With(t, <<>>)
      BY <3>1 DEF es_finish
    <3> QED
      BY <2>1, <2>3, <3>1, <3>2
  <2> DEFINE n == ES_MAX_METRICS
             A == Fed(proc.out)
  <2>a. PICK q \in Nat, r \in 0..(n - 1) :
           /\ L = q * n + r
           /\ \E p : Waiting(p, q, r) /\ A = MkA(LastSent(L), p, Samples(q), "none")
    BY <2>4, <2>5 DEF Joined
  <2>6. PICK p : /\ L = q * n + r /\ Waiting(p, q, r)
                 /\ A = MkA(LastSent(L), p, Samples(q), "none")
    BY <2>a
  <2>7. r = 0 /\ L \div n = q /\ Len(Sent) = L
    <3>1. (q * n + r) % n = r /\ (q * n + r) \div n = q
      BY <2>6, SizesAssumption, Quotients
    <3> QED
      BY <2>2, <2>6, <3>1 DEF CleanFrames
  <2>8. Len(proc.out) \in Nat
    BY <2>4, <2>5
  <2>9. Adapted(proc.out) = IF A.error = "none" /\ DOMAIN A.pending # {}
                            THEN [A EXCEPT !.error = "incomplete"] ELSE A
    BY <2>8, FedIs
  <2> HIDE DEF A
  <2>10. A.pending = p /\ A.samples = Samples(q) /\ A.error = "none"
    BY <2>6, MkAIs
  <2>11. DOMAIN A.pending = {}
    BY <2>6, <2>7, <2>10 DEF Waiting
  <2> QED
    BY <2>7, <2>9, <2>10, <2>11
<1> QED
  BY <1>1, RunnerInvariance, FinishedTheorem, PTL
=============================================================================
