---------------------------- MODULE WaterControl ----------------------------
(***************************************************************************)
(* Controller, IntentJournal and the checkpoint file of the remote-water   *)
(* study.  The environment calls decide with any telemetry sample and any  *)
(* planner proposal, saves checkpoints, kills the process at any point and *)
(* restores it.  SHA-256 is the constant operator Hash, so what is proved  *)
(* holds for every digest function.                                        *)
(***************************************************************************)
EXTENDS WaterSafety, Sequences

CONSTANTS
  Samples,          \* the telemetry samples that may arrive
  Proposals,        \* the proposals a planner may make
  Planners,         \* planner identities
  Hash(_, _),       \* digest of [previous_hash, intent]
  GENESIS_HASH,
  MaxTime           \* bound on the clock (no bound in the code)

ASSUME SampleAssumption ==
  /\ Samples \subseteq TelemetrySample
  /\ Proposals \subseteq PlannerProposal
  /\ MaxTime \in Nat

VARIABLES
  now_s,            \* time of the next decision
  up,               \* a controller process exists
  planner_id,       \* its planner
  state,            \* Controller.state
  journal,          \* Controller.journal: last_sequence, tail_hash, entries
  counts,           \* Controller.intervention_counts
  saving,           \* write_checkpoint is between its two steps
  temporary, file,  \* <path>.tmp and <path> on disk
  chain             \* history: every entry of the running journal's chain

disk == <<temporary, file>>
memory == <<planner_id, state, journal, counts, chain>>
vars == <<now_s, up, saving, memory, disk>>

\* What a checkpoint path holds: nothing, part of an envelope, an envelope.
Absent == [status |-> "absent"]
Torn == [status |-> "torn"]
Envelope(payload) == [status |-> "whole", payload |-> payload]

NoCounts == [d \in Dispositions |-> 0]

NewJournal == [last_sequence |-> 0, tail_hash |-> GENESIS_HASH, entries |-> <<>>]

Init ==
  /\ now_s = 0
  /\ up = TRUE
  /\ saving = FALSE
  /\ planner_id \in Planners
  /\ state = InitialControllerState
  /\ journal = NewJournal
  /\ counts = NoCounts
  /\ temporary = Absent
  /\ file = Absent
  /\ chain = <<>>

-----------------------------------------------------------------------------
(* AuthorizedIntent, without the texts.                                    *)
Intent(adjudication, sequence) ==
  [sequence |-> sequence, issued_at_s |-> now_s,
   duty_on |-> adjudication.duty_on, standby_on |-> adjudication.standby_on,
   mode |-> adjudication.mode, planner_id |-> planner_id]

\* Defect: every entry names the genesis hash as its predecessor.
EntryWithoutLink(intent) ==
  [sequence |-> intent.sequence, previous_hash |-> GENESIS_HASH,
   intent |-> intent, entry_hash |-> Hash(GENESIS_HASH, intent)]

JournalEntry(intent) ==
  [sequence |-> intent.sequence, previous_hash |-> journal.tail_hash,
   intent |-> intent, entry_hash |-> Hash(journal.tail_hash, intent)]

(* IntentJournal.append, once the sequence check has passed.               *)
append(intent) ==
  LET entry == JournalEntry(intent)
  IN /\ journal' = [last_sequence |-> intent.sequence,
                    tail_hash |-> entry.entry_hash,
                    entries |-> Append(journal.entries, entry)]
     /\ chain' = Append(chain, entry)

(* Controller.decide, one call per time unit.  The intervention is counted *)
(* before append may refuse the sequence by raising.                       *)
decide(sample, proposal) ==
  LET adjudication == authorize(proposal, sample, state, now_s)
      outcome == _classify_intervention(proposal, adjudication, state)
      sequence == state.last_sequence + 1
  IN /\ up /\ ~saving
     /\ now_s < MaxTime
     /\ counts' = [counts EXCEPT ![outcome] = @ + 1]
     /\ IF sequence = journal.last_sequence + 1
        THEN /\ append(Intent(adjudication, sequence))
             /\ state' = _apply_intent(state, adjudication, sequence, now_s)
        ELSE UNCHANGED <<journal, chain, state>>
     /\ now_s' = now_s + 1
     /\ UNCHANGED <<up, saving, planner_id, disk>>

(* Time passes while no process runs.                                      *)
elapse ==
  /\ ~up
  /\ now_s < MaxTime
  /\ now_s' = now_s + 1
  /\ UNCHANGED <<up, saving, memory, disk>>

-----------------------------------------------------------------------------
(* Controller.checkpoint_payload; the chain rides along as history, so     *)
(* that the journal of a restored process can be compared with it.         *)
checkpoint_payload ==
  [planner_id |-> planner_id, controller_state |-> state,
   journal |-> [last_sequence |-> journal.last_sequence,
                tail_hash |-> journal.tail_hash],
   intervention_counts |-> counts, chain |-> chain]

(* write_checkpoint, first half: the encoded envelope is written to the    *)
(* temporary path.                                                         *)
write_temporary ==
  /\ up /\ ~saving
  /\ saving' = TRUE
  /\ temporary' = Envelope(checkpoint_payload)
  /\ UNCHANGED <<now_s, up, memory, file>>

(* write_checkpoint, second half: os.replace.                              *)
replace ==
  /\ up /\ saving
  /\ saving' = FALSE
  /\ file' = temporary
  /\ temporary' = Absent
  /\ UNCHANGED <<now_s, up, memory>>

\* Defect: write_checkpoint writes the checkpoint path itself.
crash_while_writing_in_place ==
  /\ up /\ ~saving
  /\ up' = FALSE
  /\ file' = Torn
  /\ UNCHANGED <<now_s, saving, memory, temporary>>

(* The process dies inside write_bytes and leaves part of an envelope.     *)
crash_while_writing ==
  /\ up /\ ~saving
  /\ up' = FALSE
  /\ temporary' = Torn
  /\ UNCHANGED <<now_s, saving, memory, file>>

(* The process dies anywhere else.                                         *)
crash ==
  /\ up
  /\ up' = FALSE
  /\ saving' = FALSE
  /\ UNCHANGED <<now_s, memory, disk>>

(* decode_checkpoint refuses anything but a whole envelope.                *)
decode_checkpoint(content) == content.status = "whole"

\* Defect: the counters of the checkpoint are not restored.
restore_new_counts(p) ==
  /\ ~up
  /\ decode_checkpoint(file)
  /\ file.payload.planner_id = p
  /\ up' = TRUE
  /\ planner_id' = p
  /\ state' = file.payload.controller_state
  /\ journal' = [last_sequence |-> file.payload.journal.last_sequence,
                 tail_hash |-> file.payload.journal.tail_hash, entries |-> <<>>]
  /\ counts' = NoCounts
  /\ chain' = file.payload.chain
  /\ UNCHANGED <<now_s, saving, disk>>

(* read_checkpoint and Controller.restore with planner p: identity and     *)
(* sequence are checked, the journal keeps its tail but not its entries.   *)
restore(p) ==
  /\ ~up
  /\ decode_checkpoint(file)
  /\ file.payload.planner_id = p
  /\ file.payload.journal.last_sequence = file.payload.controller_state.last_sequence
  /\ up' = TRUE
  /\ planner_id' = p
  /\ state' = file.payload.controller_state
  /\ journal' = [last_sequence |-> file.payload.journal.last_sequence,
                 tail_hash |-> file.payload.journal.tail_hash, entries |-> <<>>]
  /\ counts' = file.payload.intervention_counts
  /\ chain' = file.payload.chain
  /\ UNCHANGED <<now_s, saving, disk>>

(* Controller(planner) where there is no checkpoint to restore.            *)
start(p) ==
  /\ ~up
  /\ file.status = "absent"
  /\ up' = TRUE
  /\ planner_id' = p
  /\ state' = InitialControllerState
  /\ journal' = NewJournal
  /\ counts' = NoCounts
  /\ chain' = <<>>
  /\ UNCHANGED <<now_s, saving, disk>>

Next ==
  \/ \E sample \in Samples, proposal \in Proposals : decide(sample, proposal)
  \/ elapse
  \/ write_temporary
  \/ replace
  \/ crash_while_writing
  \/ crash
  \/ \E p \in Planners : restore(p)
  \/ \E p \in Planners : start(p)

Spec == Init /\ [][Next]_vars

-----------------------------------------------------------------------------
(* Type invariant of the controller process.                               *)
TypeOK ==
  /\ now_s \in Nat /\ up \in BOOLEAN /\ saving \in BOOLEAN
  /\ saving => up
  /\ planner_id \in Planners
  /\ state \in ControllerState
  /\ counts \in [Dispositions -> Nat]
  /\ file.status \in {"absent", "torn", "whole"}

Total(c) == c["accepted"] + c["modified"] + c["held"] + c["rejected"]

(* Entries that bind their predecessor's hash from hash h on, each with    *)
(* the digest of its own content: what IntentJournal.verify tests.         *)
Linked(entries, h) ==
  \A i \in 1..Len(entries) :
    /\ entries[i].entry_hash = Hash(entries[i].previous_hash, entries[i].intent)
    /\ entries[i].previous_hash = IF i = 1 THEN h ELSE entries[i - 1].entry_hash

(* What makes the payload of a checkpoint, or of the running controller,   *)
(* continue one chain of entries.                                          *)
Continues(p) ==
  /\ p.journal.last_sequence = Len(p.chain)
  /\ p.controller_state.last_sequence = Len(p.chain)
  /\ \A i \in 1..Len(p.chain) : p.chain[i].sequence = i
  /\ Linked(p.chain, GENESIS_HASH)
  /\ p.journal.tail_hash =
       IF Len(p.chain) = 0 THEN GENESIS_HASH ELSE p.chain[Len(p.chain)].entry_hash

(* "Standby cannot be authorized without duty": whatever the planner asks, *)
(* in whatever mode, before and after a restart, and in the checkpoint a   *)
(* restart would load (safety.py, controller.py, checkpoint.py).           *)
StandbyRequiresDuty ==
  /\ state.standby_on => state.duty_on
  /\ decode_checkpoint(file) =>
       (file.payload.controller_state.standby_on
          => file.payload.controller_state.duty_on)

(* The entries in memory are the last ones of the chain.                   *)
EntriesEndTheChain ==
  /\ Len(journal.entries) <= Len(chain)
  /\ \A i \in 1..Len(journal.entries) :
       journal.entries[i] = chain[Len(chain) - Len(journal.entries) + i]

(* "Checkpoint payloads ... bind the planner identity": no chain holds     *)
(* intents of two planners (Controller.restore).                           *)
OnePlannerPerChain ==
  \A i \in 1..Len(chain) : chain[i].intent.planner_id = planner_id

(* "Checkpoint restoration must preserve controller sequence and journal   *)
(* continuity": the entries written by all processes of a chain are        *)
(* numbered 1, 2, 3, ..., each binds the hash of the one before it from    *)
(* the genesis hash on, and the running journal and state are at its end   *)
(* (Controller.decide, IntentJournal.append, Controller.restore).          *)
(* IntentJournal.verify sees only the entries since the last restart; they *)
(* are the end of the chain, so it succeeds in every process.              *)
JournalContinuity ==
  Continues(checkpoint_payload) /\ EntriesEndTheChain /\ OnePlannerPerChain

(* A crash anywhere, also inside write_checkpoint, leaves a checkpoint     *)
(* path that read_checkpoint and Controller.restore accept, if it had one: *)
(* "an incomplete checkpoint never replaces a valid one".                  *)
CheckpointRestorable ==
  file.status = "absent" \/ (decode_checkpoint(file) /\ Continues(file.payload))

(* Every decision of a chain is counted under exactly one disposition,     *)
(* also the ones made before a restart (Controller.intervention_counts).   *)
EveryDecisionCounted == Total(counts) = state.last_sequence

-----------------------------------------------------------------------------
(* The inductive invariant: what is true of the running controller is true *)
(* of everything a restart could load.                                     *)
IsSequence(s) == s \in Seq({s[i] : i \in DOMAIN s})

PayloadOK(p) ==
  /\ p.planner_id \in Planners
  /\ p.controller_state \in ControllerState
  /\ p.controller_state.standby_on => p.controller_state.duty_on
  /\ p.intervention_counts \in [Dispositions -> Nat]
  /\ Total(p.intervention_counts) = p.controller_state.last_sequence
  /\ IsSequence(p.chain)
  /\ \A i \in 1..Len(p.chain) : p.chain[i].intent.planner_id = p.planner_id
  /\ Continues(p)

IInv ==
  /\ TypeOK
  /\ PayloadOK(checkpoint_payload)
  /\ IsSequence(journal.entries)
  /\ EntriesEndTheChain
  /\ saving => decode_checkpoint(temporary) /\ PayloadOK(temporary.payload)
  /\ file.status \in {"absent", "whole"}
  /\ decode_checkpoint(file) => PayloadOK(file.payload)
============================================================================
