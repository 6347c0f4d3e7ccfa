----------------------------- MODULE WaterTwin -----------------------------
(***************************************************************************)
(* The digital twin: run_scenario drives the controller against the plant. *)
(* A scenario's windows and profile are the environment's choice at every  *)
(* step.  The tank is measured in percent of its capacity, flows in        *)
(* percent per step.  The journal is WaterControl's subject: here it is    *)
(* the sequence number only.                                               *)
(***************************************************************************)
EXTENDS WaterSafety

CONSTANTS
  duty_flow, standby_flow,  \* inflow of a pump in one step
  Demands,                  \* demand of one step
  InitialLevels,
  Steps                     \* length of a scenario

ASSUME PlantAssumption ==
  /\ duty_flow \in Nat /\ standby_flow \in Nat /\ Steps \in Nat
  /\ Demands \subseteq Nat
  /\ InitialLevels \subseteq 0..FullPct

(* The margins the emergency levels are set for: one step of both pumps    *)
(* fits above high-high, one step of demand is left above low-low.  The    *)
(* shipped configuration has 10 % against 0.42 % per 60 s step.            *)
ASSUME MarginAssumption ==
  /\ high_high_pct + duty_flow + standby_flow <= FullPct + 1
  /\ \A demand \in Demands : demand <= low_low_pct + 1

VARIABLES
  now_s,              \* loop variable, one unit per step
  planner,            \* the planner the scenario runs with
  state,              \* Controller.state
  plant,              \* PlantState
  last_good_level,    \* what a stale window repeats
  last_good_at_s,
  restart_performed,
  sample,             \* the last telemetry sample
  proposal,           \* the last planner proposal
  duty_since,         \* history: when the duty command really last changed
  supplied            \* history: trusted telemetry, power and a demand the
                      \* pumps can meet at every step so far

vars == <<now_s, planner, state, plant, last_good_level, last_good_at_s,
          restart_performed, sample, proposal, duty_since, supplied>>

PlantState ==
  [level_pct : 0..FullPct, duty_running : BOOLEAN, standby_running : BOOLEAN,
   unmet_demand : BOOLEAN, overflow : BOOLEAN]

-----------------------------------------------------------------------------
(* The planners.  bisect_right counts the bands at or below a value; the   *)
(* demand bands 2.5 and 4.5 are integers here.                             *)
Bit(b) == IF b THEN 1 ELSE 0

level_index(level) ==
  Bit(level >= 15) + Bit(level >= 35) + Bit(level >= 50)
    + Bit(level >= 65) + Bit(level >= 75) + Bit(level >= 90)
demand_index(demand) == Bit(demand >= 3) + Bit(demand >= 5)
quality_index(quality) ==
  IF quality = "GOOD" THEN 0 ELSE IF quality = "STALE" THEN 1 ELSE 2

\* _decision of the generated planner
_decision(level, demand, duty, standby, power, quality) ==
  LET high == demand = 2
      pair(d, s) == [duty_on |-> d, standby_on |-> s]
  IN IF power = 0 THEN pair(FALSE, FALSE)
     ELSE IF quality # 0 THEN pair(duty = 1, standby = 1)
     ELSE IF level = 0 THEN pair(TRUE, TRUE)
     ELSE IF level \in {1, 2} THEN pair(TRUE, standby = 1 /\ high)
     ELSE IF level = 3 THEN pair(duty = 1, standby = 1 /\ high)
     ELSE IF level = 4 THEN pair(duty = 1 /\ high, standby = 1 /\ high)
     ELSE pair(FALSE, FALSE)

(* The table is laid out by six nested loops, the last one innermost.      *)
DECISION_TABLE ==
  [i \in 0..(7 * 3 * 2 * 2 * 2 * 3 - 1) |->
     _decision(i \div 72, (i \div 24) % 3, (i \div 12) % 2, (i \div 6) % 2,
               (i \div 3) % 2, i % 3)]

\* Defect: the strides of duty and standby are exchanged.
generated_index_swapped(s, c) ==
  ((((level_index(s.tank_level_pct) * 3 + demand_index(s.demand_lps)) * 2
      + Bit(c.standby_on)) * 2 + Bit(c.duty_on)) * 2
      + Bit(s.power_available)) * 3 + quality_index(s.quality)

generated_index(s, c) ==
  ((((level_index(s.tank_level_pct) * 3 + demand_index(s.demand_lps)) * 2
      + Bit(c.duty_on)) * 2 + Bit(c.standby_on)) * 2
      + Bit(s.power_available)) * 3 + quality_index(s.quality)

generated_propose(s, c) == DECISION_TABLE[generated_index(s, c)]

baseline_propose(s, c) ==
  IF ~s.power_available \/ s.tank_level_pct > 55
  THEN [duty_on |-> FALSE, standby_on |-> FALSE]
  ELSE IF s.tank_level_pct < 30
  THEN [duty_on |-> TRUE, standby_on |-> s.demand_lps >= 5]
  ELSE IF s.tank_level_pct < 45
  THEN [duty_on |-> TRUE, standby_on |-> FALSE]
  ELSE [duty_on |-> c.duty_on, standby_on |-> c.standby_on]

\* The kernel is there for any planner: "any" proposes whatever it likes.
Planners == {"baseline", "generated", "any"}

Proposals(p, s, c) ==
  CASE p = "baseline" -> {baseline_propose(s, c)}
    [] p = "generated" -> {generated_propose(s, c)}
    [] p = "any" -> PlannerProposal

-----------------------------------------------------------------------------
Init ==
  /\ now_s = 0
  /\ planner \in Planners
  /\ state = InitialControllerState
  /\ plant \in [level_pct : InitialLevels, duty_running : {FALSE},
                standby_running : {FALSE}, unmet_demand : {FALSE},
                overflow : {FALSE}]
  /\ last_good_level = plant.level_pct
  /\ last_good_at_s = 0
  /\ restart_performed = FALSE
  /\ sample = [observed_at_s |-> 0, received_at_s |-> 0, finite |-> TRUE,
               tank_level_pct |-> plant.level_pct, demand_lps |-> 0,
               power_available |-> TRUE, quality |-> "GOOD"]
  /\ proposal = [duty_on |-> FALSE, standby_on |-> FALSE]
  /\ duty_since = LongAgo
  /\ supplied = TRUE

(* The telemetry of one step: a stale window repeats the last good level   *)
(* and its time, a conflict window reads 12 points high.                   *)
Telemetry(quality, power, demand) ==
  [observed_at_s |-> IF quality = "STALE" THEN last_good_at_s ELSE now_s,
   received_at_s |-> now_s,
   finite |-> TRUE,
   tank_level_pct |->
     CASE quality = "STALE" -> last_good_level
       [] quality = "CONFLICT" ->
            IF plant.level_pct + 12 < FullPct THEN plant.level_pct + 12 ELSE FullPct
       [] quality = "GOOD" -> plant.level_pct,
   demand_lps |-> demand, power_available |-> power, quality |-> quality]

(* Plant.step: pumps run when commanded and powered; the tank takes the    *)
(* inflow first, then the demand, and spills what does not fit.            *)
Plant_step(c, demand, power) ==
  LET duty == c.duty_on /\ power
      standby == c.standby_on /\ power
      available == plant.level_pct + duty_flow * Bit(duty)
                                   + standby_flow * Bit(standby)
      next == IF available > demand THEN available - demand ELSE 0
  IN [level_pct |-> IF next > FullPct THEN FullPct ELSE next,
      duty_running |-> duty, standby_running |-> standby,
      unmet_demand |-> plant.unmet_demand \/ demand > available,
      overflow |-> plant.overflow \/ next > FullPct]

(* One iteration of run_scenario's loop.  The observed demand may differ   *)
(* from the real one (observed_demand_scale).                              *)
step(quality, power, demand, observed) ==
  LET s == Telemetry(quality, power, observed)
  IN /\ now_s < Steps
     /\ sample' = s
     /\ proposal' \in Proposals(planner, s, state)
     /\ LET adjudication == authorize(proposal', s, state, now_s)
            c == _apply_intent(state, adjudication, state.last_sequence + 1, now_s)
        IN /\ state' = c
           /\ plant' = Plant_step(c, demand, power)
           /\ duty_since' = IF c.duty_on # state.duty_on THEN now_s ELSE duty_since
     /\ last_good_level' = IF quality = "GOOD" THEN plant.level_pct ELSE last_good_level
     /\ last_good_at_s' = IF quality = "GOOD" THEN now_s ELSE last_good_at_s
     /\ supplied' = (supplied /\ Trusted(s) /\ power
                       /\ demand <= duty_flow + standby_flow)
     /\ now_s' = now_s + 1
     /\ UNCHANGED <<planner, restart_performed>>

\* Defect: the time of the last duty change does not survive the round trip.
from_dict_without_time(payload) ==
  [payload EXCEPT !.duty_last_changed_s = LongAgo]

\* ControllerState.from_dict after as_dict
from_dict(payload) ==
  [duty_on |-> payload.duty_on, standby_on |-> payload.standby_on,
   duty_last_changed_s |-> payload.duty_last_changed_s,
   standby_last_changed_s |-> payload.standby_last_changed_s,
   last_sequence |-> payload.last_sequence, last_mode |-> payload.last_mode]

(* The checkpoint and restart of a scenario with restart_at_s, at the end  *)
(* of a step, once: plant and controller are rebuilt from the payload, the *)
(* loop's own variables are kept.                                          *)
restart ==
  /\ ~restart_performed
  /\ now_s > 0
  /\ restart_performed' = TRUE
  /\ state' = from_dict(state)
  /\ UNCHANGED <<now_s, planner, plant, last_good_level, last_good_at_s,
                 sample, proposal, duty_since, supplied>>

Next ==
  \/ \E quality \in TelemetryQuality, power \in BOOLEAN,
        demand, observed \in Demands : step(quality, power, demand, observed)
  \/ restart

Spec == Init /\ [][Next]_vars

-----------------------------------------------------------------------------
(* Type invariant of the twin.                                             *)
TypeOK ==
  /\ now_s \in 0..Steps /\ planner \in Planners
  /\ state \in ControllerState /\ plant \in PlantState
  /\ last_good_level \in 0..FullPct /\ last_good_at_s \in Nat
  /\ restart_performed \in BOOLEAN
  /\ sample \in TelemetrySample /\ proposal \in PlannerProposal
  /\ duty_since \in Int /\ supplied \in BOOLEAN

(* Whatever the planner proposes, the tank spills only in a step whose     *)
(* command was held on untrusted telemetry: the high-high stop leaves room *)
(* for one step of both pumps (SafetyKernel.authorize, Plant.step).        *)
OverflowOnlyWhenBlind ==
  [][plant'.overflow /\ ~plant.overflow => ~Trusted(sample')]_vars

(* Whatever the planner proposes, with power, trusted telemetry and a      *)
(* demand within the pumps' capacity throughout, no demand goes unmet: the *)
(* low-low response comes before the tank is empty.                        *)
SupplyHeld == supplied => ~plant.unmet_demand

(* In NORMAL mode the duty command changes only when it really has stood   *)
(* for the minimum time, emergencies, holds and a restart in between       *)
(* included (SafetyKernel._apply_dwell, Controller._apply_intent).         *)
DutyDwellHonoured ==
  [][state'.duty_on # state.duty_on /\ state'.last_mode = "NORMAL" =>
       now_s - duty_since >= (IF state.duty_on THEN min_on_s ELSE min_off_s)]_vars

(* The two shipped planners never ask for standby without duty, so the     *)
(* kernel never has to correct their lead-lag order (planner.py, the       *)
(* generated table and its index).                                         *)
PlannersKeepLeadLag ==
  planner # "any" => (proposal.standby_on => proposal.duty_on)

(* "Loss of power produces an all-off intent", as the contract profile     *)
(* says.                                                                   *)
PowerLossAllOff ==
  ~sample.power_available => ~state.duty_on /\ ~state.standby_on
============================================================================
