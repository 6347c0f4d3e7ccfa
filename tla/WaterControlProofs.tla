------------------------- MODULE WaterControlProofs -------------------------
(***************************************************************************)
(* Proofs about WaterControl, for every configuration, every set of        *)
(* samples and proposals and every digest function.                        *)
(***************************************************************************)
EXTENDS WaterControl, TLAPS

-----------------------------------------------------------------------------
(* The safety kernel.                                                      *)

(* The three forms of an adjudication.                                     *)
LEMMA AuthorizeForms ==
  ASSUME NEW proposal, NEW sample, NEW c, NEW t
  PROVE  \/ \E mode \in {"HOLD", "DEGRADED"} :
              authorize(proposal, sample, c, t) = _hold(c, mode)
         \/ \E on \in BOOLEAN : authorize(proposal, sample, c, t) = Emergency(on)
         \/ authorize(proposal, sample, c, t) = Normal(proposal, c, t)
  BY DEF authorize, Adjudicate

LEMMA NormalForm ==
  ASSUME NEW proposal \in PlannerProposal, NEW c \in ControllerState, NEW t
  PROVE  /\ Normal(proposal, c, t) \in Adjudication
         /\ Normal(proposal, c, t).standby_on => Normal(proposal, c, t).duty_on
<1> DEFINE d == _apply_dwell(proposal.duty_on \/ proposal.standby_on,
                              c.duty_on, c.duty_last_changed_s, t)
           s == _apply_dwell(proposal.standby_on, c.standby_on,
                             c.standby_last_changed_s, t)
<1>1. d \in BOOLEAN /\ s \in BOOLEAN
  BY DEF _apply_dwell, PlannerProposal, ControllerState
<1>2. Normal(proposal, c, t) =
        [duty_on |-> d, standby_on |-> s /\ d, mode |-> "NORMAL"]
  BY DEF Normal
<1> HIDE DEF d, s
<1> QED
  BY <1>1, <1>2 DEF Adjudication, ControlMode

(* SafetyKernel.authorize returns a well-formed adjudication and never     *)
(* authorizes standby alone, provided the state it may hold does not.      *)
LEMMA AuthorizeSafe ==
  ASSUME NEW proposal \in PlannerProposal, NEW sample,
         NEW c \in ControllerState, NEW t,
         c.standby_on => c.duty_on
  PROVE  /\ authorize(proposal, sample, c, t) \in Adjudication
         /\ authorize(proposal, sample, c, t).standby_on
              => authorize(proposal, sample, c, t).duty_on
<1>1. ASSUME NEW mode \in {"HOLD", "DEGRADED"}
      PROVE  /\ _hold(c, mode) \in Adjudication
             /\ _hold(c, mode).standby_on => _hold(c, mode).duty_on
  BY DEF _hold, Adjudication, ControllerState, ControlMode
<1>2. ASSUME NEW on \in BOOLEAN
      PROVE  /\ Emergency(on) \in Adjudication
             /\ Emergency(on).standby_on => Emergency(on).duty_on
  BY DEF Emergency, Adjudication, ControlMode
<1> QED
  BY <1>1, <1>2, NormalForm, AuthorizeForms

LEMMA ClassifyType ==
  ASSUME NEW proposal, NEW a, NEW c
  PROVE  _classify_intervention(proposal, a, c) \in Dispositions
  BY DEF _classify_intervention, Dispositions

-----------------------------------------------------------------------------

(* Appending to a sequence, in the untyped form the journal needs.         *)
LEMMA AppendFacts ==
  ASSUME NEW s, IsSequence(s), NEW e
  PROVE  /\ IsSequence(Append(s, e))
         /\ Len(s) \in Nat
         /\ Len(Append(s, e)) = Len(s) + 1
         /\ \A i \in 1..Len(s) : Append(s, e)[i] = s[i]
         /\ Append(s, e)[Len(s) + 1] = e
<1> DEFINE S == {s[i] : i \in DOMAIN s}
           T == S \cup {e}
<1>1. s \in Seq(S)
  BY DEF IsSequence
<1>2. s \in Seq(T)
  BY <1>1
<1> HIDE DEF S
<1>3. /\ Len(s) \in Nat
      /\ Append(s, e) \in Seq(T)
      /\ Len(Append(s, e)) = Len(s) + 1
      /\ \A i \in 1..Len(s) : Append(s, e)[i] = s[i]
      /\ Append(s, e)[Len(s) + 1] = e
  BY <1>2
<1> DEFINE r == Append(s, e)
<1>4. r \in Seq({r[i] : i \in DOMAIN r})
  <2>1. r \in Seq(T)
    BY <1>3
  <2> HIDE DEF r, T
  <2> QED
    BY <2>1
<1> QED
  BY <1>3, <1>4 DEF IsSequence

LEMMA EmptySequence == IsSequence(<<>>) /\ Len(<<>>) = 0
  BY DEF IsSequence

(* Adding one to one counter adds one to the total.                        *)
LEMMA TotalStep ==
  ASSUME NEW c \in [Dispositions -> Nat], NEW d \in Dispositions
  PROVE  /\ [c EXCEPT ![d] = @ + 1] \in [Dispositions -> Nat]
         /\ Total([c EXCEPT ![d] = @ + 1]) = Total(c) + 1
  BY DEF Total, Dispositions

(* Controller.decide extends the payload of the running controller by one  *)
(* entry of its chain.                                                     *)
LEMMA ExtendPayload ==
  ASSUME NEW p, NEW q, NEW e, PayloadOK(p),
         e.sequence = Len(p.chain) + 1,
         e.previous_hash = p.journal.tail_hash,
         e.entry_hash = Hash(e.previous_hash, e.intent),
         e.intent.planner_id = p.planner_id,
         q.planner_id = p.planner_id,
         q.chain = Append(p.chain, e),
         q.journal.last_sequence = e.sequence,
         q.journal.tail_hash = e.entry_hash,
         q.controller_state \in ControllerState,
         q.controller_state.standby_on => q.controller_state.duty_on,
         q.controller_state.last_sequence = e.sequence,
         q.intervention_counts \in [Dispositions -> Nat],
         Total(q.intervention_counts) = Total(p.intervention_counts) + 1
  PROVE  PayloadOK(q)
<1> DEFINE n == Len(p.chain)
<1>1. /\ IsSequence(q.chain)
      /\ n \in Nat
      /\ Len(q.chain) = n + 1
      /\ \A i \in 1..n : q.chain[i] = p.chain[i]
      /\ q.chain[n + 1] = e
  BY AppendFacts DEF PayloadOK
<1>2. /\ \A i \in 1..n : p.chain[i].sequence = i
      /\ \A i \in 1..n : p.chain[i].intent.planner_id = p.planner_id
      /\ Linked(p.chain, GENESIS_HASH)
      /\ p.journal.tail_hash = IF n = 0 THEN GENESIS_HASH ELSE p.chain[n].entry_hash
      /\ p.controller_state.last_sequence = n
      /\ Total(p.intervention_counts) = n
  BY DEF PayloadOK, Continues
<1> HIDE DEF n
<1>3. \A i \in 1..(n + 1) : i \in 1..n \/ i = n + 1
  BY <1>1
<1>4. Linked(q.chain, GENESIS_HASH)
  <2> SUFFICES ASSUME NEW i \in 1..(n + 1)
               PROVE  /\ q.chain[i].entry_hash =
                           Hash(q.chain[i].previous_hash, q.chain[i].intent)
                      /\ q.chain[i].previous_hash =
                           IF i = 1 THEN GENESIS_HASH ELSE q.chain[i - 1].entry_hash
    BY <1>1 DEF Linked
  <2>1. CASE i \in 1..n
    <3>1. i # 1 => q.chain[i - 1] = p.chain[i - 1]
      BY <2>1, <1>1
    <3>2. /\ p.chain[i].entry_hash =
               Hash(p.chain[i].previous_hash, p.chain[i].intent)
          /\ p.chain[i].previous_hash =
               IF i = 1 THEN GENESIS_HASH ELSE p.chain[i - 1].entry_hash
      BY <2>1, <1>2 DEF Linked, n
    <3>3. q.chain[i] = p.chain[i]
      BY <2>1, <1>1
    <3> QED
      BY <3>1, <3>2, <3>3
  <2>2. CASE i = n + 1
    <3>1. n # 0 => i # 1 /\ q.chain[i - 1] = p.chain[n]
      BY <2>2, <1>1
    <3>2. n = 0 => i = 1
      BY <2>2
    <3>3. q.chain[i] = e
      BY <2>2, <1>1
    <3> QED
      BY <3>1, <3>2, <3>3, <1>1, <1>2
  <2> QED
    BY <1>3, <2>1, <2>2
<1>5. \A i \in 1..(n + 1) : /\ q.chain[i].sequence = i
                            /\ q.chain[i].intent.planner_id = q.planner_id
  BY <1>1, <1>2, <1>3 DEF n
<1>6. Continues(q)
  BY <1>1, <1>4, <1>5 DEF Continues, n
<1>7. q.planner_id \in Planners
  BY DEF PayloadOK
<1> QED
  BY <1>1, <1>2, <1>5, <1>6, <1>7 DEF PayloadOK, n

(* A fresh controller has the empty chain.                                 *)
LEMMA NewPayload ==
  ASSUME NEW p, p.planner_id \in Planners,
         p.controller_state = InitialControllerState,
         p.intervention_counts = NoCounts,
         p.journal.last_sequence = 0, p.journal.tail_hash = GENESIS_HASH,
         p.chain = <<>>
  PROVE  PayloadOK(p)
<1>1. InitialControllerState \in ControllerState
  BY DEF InitialControllerState, ControllerState, ControlMode, LongAgo
<1>2. NoCounts \in [Dispositions -> Nat] /\ Total(NoCounts) = 0
  BY DEF NoCounts, Dispositions, Total
<1>3. Continues(p)
  BY EmptySequence DEF Continues, Linked, InitialControllerState
<1>4. \A i \in 1..Len(p.chain) : p.chain[i].intent.planner_id = p.planner_id
  BY EmptySequence
<1> QED
  BY <1>1, <1>2, <1>3, <1>4, EmptySequence DEF PayloadOK, InitialControllerState

(* The new entry stands at the end of the entries and of the chain alike.  *)
LEMMA AppendBoth ==
  ASSUME NEW s, NEW c, NEW e, IsSequence(s), IsSequence(c),
         Len(s) <= Len(c),
         \A i \in 1..Len(s) : s[i] = c[Len(c) - Len(s) + i]
  PROVE  /\ Len(Append(s, e)) <= Len(Append(c, e))
         /\ \A i \in 1..Len(Append(s, e)) :
              Append(s, e)[i] =
                Append(c, e)[Len(Append(c, e)) - Len(Append(s, e)) + i]
<1> DEFINE m == Len(s)
           n == Len(c)
           t == Append(s, e)
           d == Append(c, e)
<1>1. /\ m \in Nat /\ Len(t) = m + 1
      /\ \A i \in 1..m : t[i] = s[i]
      /\ t[m + 1] = e
  BY AppendFacts
<1>2. /\ n \in Nat /\ Len(d) = n + 1
      /\ \A i \in 1..n : d[i] = c[i]
      /\ d[n + 1] = e
  BY AppendFacts
<1>3. m <= n /\ \A i \in 1..m : s[i] = c[n - m + i]
  OBVIOUS
<1> HIDE DEF m, n, t, d
<1>4. Len(t) <= Len(d)
  BY <1>1, <1>2, <1>3
<1>5. ASSUME NEW i \in 1..Len(t) PROVE t[i] = d[Len(d) - Len(t) + i]
  <2>1. Len(d) - Len(t) + i = n - m + i
    BY <1>1, <1>2
  <2>2. CASE i \in 1..m
    <3>1. n - m + i \in 1..n
      BY <2>2, <1>1, <1>2, <1>3
    <3> QED
      BY <2>1, <2>2, <3>1, <1>1, <1>2, <1>3
  <2>3. CASE i = m + 1
    <3>1. n - m + i = n + 1
      BY <2>3, <1>1, <1>2
    <3> QED
      BY <2>1, <2>3, <3>1, <1>1, <1>2
  <2> QED
    BY <2>2, <2>3, <1>1
<1> QED
  BY <1>4, <1>5 DEF t, d

LEMMA InitHolds == Init => IInv
<1> SUFFICES ASSUME Init PROVE IInv
  OBVIOUS
<1>1. PayloadOK(checkpoint_payload)
  BY NewPayload DEF Init, checkpoint_payload, NewJournal
<1>2. TypeOK
  <2>1. state \in ControllerState /\ counts \in [Dispositions -> Nat]
    BY <1>1 DEF PayloadOK, checkpoint_payload
  <2>2. file.status = "absent"
    BY DEF Init, Absent
  <2> QED
    BY <2>1, <2>2 DEF Init, TypeOK
<1>3. IsSequence(journal.entries) /\ EntriesEndTheChain
  BY EmptySequence DEF Init, NewJournal, EntriesEndTheChain
<1> QED
  BY <1>1, <1>2, <1>3 DEF Init, IInv, Absent, decode_checkpoint

LEMMA DecideStep ==
  ASSUME IInv, NEW sample \in Samples, NEW proposal \in Proposals,
         decide(sample, proposal)
  PROVE  IInv'
<1> DEFINE a == authorize(proposal, sample, state, now_s)
           o == _classify_intervention(proposal, a, state)
           n == state.last_sequence + 1
           e == JournalEntry(Intent(a, n))
<1>1. /\ PayloadOK(checkpoint_payload)
      /\ state \in ControllerState
      /\ state.standby_on => state.duty_on
      /\ counts \in [Dispositions -> Nat]
      /\ journal.last_sequence = state.last_sequence
      /\ state.last_sequence = Len(chain)
      /\ IsSequence(chain) /\ IsSequence(journal.entries)
      /\ now_s \in Nat
  BY DEF IInv, TypeOK, PayloadOK, Continues, checkpoint_payload
<1>2. a \in Adjudication /\ (a.standby_on => a.duty_on)
  BY <1>1, AuthorizeSafe, SampleAssumption
<1>3. o \in Dispositions
  BY ClassifyType
<1>4. /\ counts' = [counts EXCEPT ![o] = @ + 1]
      /\ journal' = [last_sequence |-> n, tail_hash |-> e.entry_hash,
                     entries |-> Append(journal.entries, e)]
      /\ chain' = Append(chain, e)
      /\ state' = _apply_intent(state, a, n, now_s)
      /\ now_s' = now_s + 1
      /\ UNCHANGED <<up, saving, planner_id, temporary, file>>
  BY <1>1 DEF decide, append, disk, Intent
<1>5. /\ e.sequence = n /\ e.previous_hash = journal.tail_hash
      /\ e.entry_hash = Hash(e.previous_hash, e.intent)
      /\ e.intent.planner_id = planner_id
  BY DEF JournalEntry, Intent
<1> HIDE DEF a, o, e
<1>6. /\ state' \in ControllerState
      /\ state'.standby_on => state'.duty_on
      /\ state'.last_sequence = n
  BY <1>1, <1>2, <1>4 DEF _apply_intent, ControllerState, Adjudication
<1>7. counts' \in [Dispositions -> Nat] /\ Total(counts') = Total(counts) + 1
  BY <1>1, <1>3, <1>4, TotalStep
<1>8. PayloadOK(checkpoint_payload)'
  <2> DEFINE p == checkpoint_payload
             q == [planner_id |-> planner_id', controller_state |-> state',
                   journal |-> [last_sequence |-> journal'.last_sequence,
                                tail_hash |-> journal'.tail_hash],
                   intervention_counts |-> counts', chain |-> chain']
  <2>1. /\ q.planner_id = p.planner_id /\ p.planner_id = planner_id
        /\ q.chain = Append(p.chain, e) /\ p.chain = chain
        /\ p.journal.tail_hash = journal.tail_hash
        /\ q.journal.last_sequence = e.sequence
        /\ q.journal.tail_hash = e.entry_hash
        /\ q.controller_state = state' /\ q.intervention_counts = counts'
        /\ p.intervention_counts = counts
    BY <1>4, <1>5 DEF checkpoint_payload
  <2>2. PayloadOK(p)
    BY <1>1
  <2> HIDE DEF p, q
  <2>3. PayloadOK(q)
    BY <2>1, <2>2, <1>1, <1>5, <1>6, <1>7, ExtendPayload
  <2> QED
    BY <2>3 DEF q, checkpoint_payload
<1>9. IsSequence(journal.entries)' /\ EntriesEndTheChain'
  <2>1. IsSequence(Append(journal.entries, e))
    BY <1>1, AppendFacts
  <2>2. journal'.entries = Append(journal.entries, e)
    BY <1>4
  <2>3. /\ Len(journal.entries) <= Len(chain)
        /\ \A i \in 1..Len(journal.entries) :
             journal.entries[i] = chain[Len(chain) - Len(journal.entries) + i]
    BY DEF IInv, EntriesEndTheChain
  <2> DEFINE s == Append(journal.entries, e)
             c == Append(chain, e)
  <2>4. /\ Len(s) <= Len(c)
        /\ \A i \in 1..Len(s) : s[i] = c[Len(c) - Len(s) + i]
    BY <1>1, <2>3, AppendBoth
  <2>5. chain' = c /\ journal'.entries = s
    BY <1>4, <2>2
  <2> HIDE DEF s, c
  <2>6. EntriesEndTheChain'
    BY <2>4, <2>5 DEF EntriesEndTheChain
  <2> QED
    BY <2>1, <2>2, <2>6
<1>10. TypeOK'
  BY <1>1, <1>4, <1>6, <1>7 DEF IInv, TypeOK
<1> QED
  BY <1>4, <1>8, <1>9, <1>10 DEF IInv, decode_checkpoint

LEMMA RestoreStep ==
  ASSUME IInv, NEW p \in Planners, restore(p)
  PROVE  IInv'
<1>1. /\ decode_checkpoint(file) /\ PayloadOK(file.payload)
      /\ planner_id' = file.payload.planner_id
      /\ state' = file.payload.controller_state
      /\ journal'.last_sequence = file.payload.journal.last_sequence
      /\ journal'.tail_hash = file.payload.journal.tail_hash
      /\ journal'.entries = <<>>
      /\ counts' = file.payload.intervention_counts
      /\ chain' = file.payload.chain
      /\ up' = TRUE /\ UNCHANGED <<now_s, saving, temporary, file>>
  BY DEF IInv, restore, disk
<1>2. PayloadOK(checkpoint_payload)'
  BY <1>1 DEF PayloadOK, Continues, checkpoint_payload
<1>3. TypeOK'
  BY <1>1, <1>2 DEF IInv, TypeOK, PayloadOK
<1>4. IsSequence(chain')
  BY <1>1 DEF PayloadOK
<1>5. Len(chain') \in Nat
  BY <1>4, AppendFacts
<1>6. IsSequence(journal.entries)' /\ EntriesEndTheChain'
  BY <1>1, <1>5, EmptySequence DEF EntriesEndTheChain
<1> QED
  BY <1>1, <1>2, <1>3, <1>6 DEF IInv, decode_checkpoint

LEMMA StartStep ==
  ASSUME IInv, NEW p \in Planners, start(p)
  PROVE  IInv'
<1>1. /\ planner_id' = p /\ state' = InitialControllerState
      /\ journal' = NewJournal /\ counts' = NoCounts /\ chain' = <<>>
      /\ up' = TRUE /\ UNCHANGED <<now_s, saving, temporary, file>>
  BY DEF start, disk
<1>2. PayloadOK(checkpoint_payload)'
  BY <1>1, NewPayload DEF checkpoint_payload, NewJournal
<1>3. TypeOK'
  <2>1. state' \in ControllerState /\ counts' \in [Dispositions -> Nat]
    BY <1>2 DEF PayloadOK, checkpoint_payload
  <2> QED
    BY <1>1, <2>1 DEF IInv, TypeOK
<1>4. IsSequence(journal.entries)' /\ EntriesEndTheChain'
  BY <1>1, EmptySequence DEF NewJournal, EntriesEndTheChain
<1> QED
  BY <1>1, <1>2, <1>3, <1>4 DEF IInv, decode_checkpoint

(* The steps that leave the controller's memory alone.                     *)
LEMMA MemoryUnchanged ==
  ASSUME IInv, UNCHANGED memory
  PROVE  /\ PayloadOK(checkpoint_payload)'
         /\ IsSequence(journal.entries)' /\ EntriesEndTheChain'
  BY DEF IInv, memory, checkpoint_payload, EntriesEndTheChain

LEMMA NextStep == IInv /\ [Next]_vars => IInv'
<1> SUFFICES ASSUME IInv, [Next]_vars PROVE IInv'
  OBVIOUS
<1>1. CASE UNCHANGED vars
  BY <1>1, MemoryUnchanged DEF vars, memory, disk, IInv, TypeOK, decode_checkpoint
<1>2. ASSUME NEW sample \in Samples, NEW proposal \in Proposals,
             decide(sample, proposal)
      PROVE  IInv'
  BY <1>2, DecideStep
<1>3. CASE elapse
  BY <1>3, MemoryUnchanged DEF elapse, memory, disk, IInv, TypeOK, decode_checkpoint
<1>4. CASE write_temporary
  BY <1>4, MemoryUnchanged
  DEF write_temporary, memory, IInv, TypeOK, decode_checkpoint, Envelope
<1>5. CASE replace
  BY <1>5, MemoryUnchanged
  DEF replace, memory, IInv, TypeOK, decode_checkpoint
<1>6. CASE crash_while_writing
  BY <1>6, MemoryUnchanged
  DEF crash_while_writing, memory, IInv, TypeOK, decode_checkpoint
<1>7. CASE crash
  BY <1>7, MemoryUnchanged DEF crash, memory, disk, IInv, TypeOK, decode_checkpoint
<1> QED
  BY <1>1, <1>2, <1>3, <1>4, <1>5, <1>6, <1>7, RestoreStep, StartStep DEF Next

(* The inductive invariant holds of every behaviour of the controller.     *)
THEOREM Invariance == Spec => []IInv
  BY InitHolds, NextStep, PTL DEF Spec

(* Type correctness of the controller process, under crashes and restarts. *)
THEOREM TypeCorrect == Spec => []TypeOK
<1>1. IInv => TypeOK
  BY DEF IInv
<1> QED
  BY <1>1, Invariance, PTL

(* No planner, telemetry, crash or restart makes the kernel leave standby  *)
(* authorized without duty, in memory or in a checkpoint.                  *)
THEOREM StandbySafe == Spec => []StandbyRequiresDuty
<1>1. IInv => StandbyRequiresDuty
  BY DEF IInv, PayloadOK, StandbyRequiresDuty, checkpoint_payload
<1> QED
  BY <1>1, Invariance, PTL

(* The hash chain, its numbering, the journal and the state agree across   *)
(* any number of restarts, whatever the digest function.                   *)
THEOREM JournalSafe ==
  Spec => []JournalContinuity
<1>1. IInv => JournalContinuity
  BY DEF IInv, PayloadOK, JournalContinuity, OnePlannerPerChain, checkpoint_payload
<1> QED
  BY <1>1, Invariance, PTL

(* A crash at any point leaves a checkpoint that restores, or none.        *)
THEOREM CheckpointSafe == Spec => []CheckpointRestorable
<1>1. IInv => CheckpointRestorable
  BY DEF IInv, PayloadOK, CheckpointRestorable, decode_checkpoint
<1> QED
  BY <1>1, Invariance, PTL

(* The counters account for every decision, also across restarts.          *)
THEOREM CountsSafe == Spec => []EveryDecisionCounted
<1>1. IInv => EveryDecisionCounted
  BY DEF IInv, PayloadOK, EveryDecisionCounted, checkpoint_payload
<1> QED
  BY <1>1, Invariance, PTL
============================================================================
