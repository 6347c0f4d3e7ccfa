---------------------------- MODULE WaterSafety ----------------------------
(***************************************************************************)
(* The pure part of the remote-water controller: the data model, the       *)
(* readable safety kernel (SafetyKernel.authorize) and the functions       *)
(* Controller.decide is built from.  Times, levels and flows are integers  *)
(* in one unit each; the wording of reasons is left out.                   *)
(***************************************************************************)
EXTENDS Integers

CONSTANTS
  low_low_pct,          \* emergency refill threshold
  high_high_pct,        \* emergency stop threshold
  min_on_s, min_off_s,  \* minimum dwell times of a pump
  telemetry_max_age_s   \* freshness limit

ASSUME ConfigAssumption ==
  /\ low_low_pct \in Nat /\ high_high_pct \in Nat
  /\ low_low_pct < high_high_pct
  /\ min_on_s \in Nat /\ min_off_s \in Nat /\ telemetry_max_age_s \in Nat

FullPct == 100
LongAgo == -10000

ControlMode == {"NORMAL", "DEGRADED", "HOLD", "EMERGENCY"}
TelemetryQuality == {"GOOD", "STALE", "CONFLICT"}

\* `finite' says that level and demand are both finite floats.
TelemetrySample ==
  [observed_at_s : Int, received_at_s : Int, finite : BOOLEAN,
   tank_level_pct : Int, demand_lps : Int, power_available : BOOLEAN,
   quality : TelemetryQuality]

PlannerProposal == [duty_on : BOOLEAN, standby_on : BOOLEAN]

Adjudication == [duty_on : BOOLEAN, standby_on : BOOLEAN, mode : ControlMode]

ControllerState ==
  [duty_on : BOOLEAN, standby_on : BOOLEAN,
   duty_last_changed_s : Int, standby_last_changed_s : Int,
   last_sequence : Nat, last_mode : ControlMode]

InitialControllerState ==
  [duty_on |-> FALSE, standby_on |-> FALSE,
   duty_last_changed_s |-> LongAgo, standby_last_changed_s |-> LongAgo,
   last_sequence |-> 0, last_mode |-> "NORMAL"]

-----------------------------------------------------------------------------
(* TelemetrySample.age_s: a clock that runs backwards makes a sample new.  *)
age_s(sample) ==
  IF sample.received_at_s - sample.observed_at_s > 0
  THEN sample.received_at_s - sample.observed_at_s
  ELSE 0

Invalid(sample) ==
  \/ ~sample.finite
  \/ sample.tank_level_pct < 0 \/ sample.tank_level_pct > FullPct
  \/ sample.demand_lps < 0

\* Telemetry on which the kernel lets a command change.
Trusted(sample) ==
  /\ ~Invalid(sample)
  /\ sample.quality = "GOOD"
  /\ age_s(sample) <= telemetry_max_age_s

_hold(state, mode) ==
  [duty_on |-> state.duty_on, standby_on |-> state.standby_on, mode |-> mode]

_apply_dwell(requested, current, last_changed_s, now_s) ==
  IF /\ requested # current
     /\ now_s - last_changed_s < (IF current THEN min_on_s ELSE min_off_s)
  THEN current
  ELSE requested

\* Defect: a standby whose duty pump was held off stays.
NormalWithoutRemoval(proposal, state, now_s) ==
  [duty_on |-> _apply_dwell(proposal.duty_on \/ proposal.standby_on,
                            state.duty_on, state.duty_last_changed_s, now_s),
   standby_on |-> _apply_dwell(proposal.standby_on, state.standby_on,
                               state.standby_last_changed_s, now_s),
   mode |-> "NORMAL"]

(* The branch of authorize for trusted telemetry between the emergency     *)
(* levels: a standby request pulls the duty pump in, each pump's dwell is  *)
(* applied on its own, and a standby left without duty is removed.         *)
Normal(proposal, state, now_s) ==
  LET duty_on == _apply_dwell(proposal.duty_on \/ proposal.standby_on,
                              state.duty_on, state.duty_last_changed_s, now_s)
      standby_on == _apply_dwell(proposal.standby_on, state.standby_on,
                                 state.standby_last_changed_s, now_s)
  IN [duty_on |-> duty_on, standby_on |-> standby_on /\ duty_on,
      mode |-> "NORMAL"]

Emergency(on) == [duty_on |-> on, standby_on |-> on, mode |-> "EMERGENCY"]

(* SafetyKernel.authorize: its early returns, in their order; `stop' and   *)
(* `refill' are the two emergency levels.                                  *)
Adjudicate(proposal, sample, state, now_s, stop, refill) ==
  IF Invalid(sample) THEN _hold(state, "HOLD")
  ELSE IF ~Trusted(sample) THEN _hold(state, "DEGRADED")
  ELSE IF ~sample.power_available \/ stop THEN Emergency(FALSE)
  ELSE IF refill THEN Emergency(TRUE)
  ELSE Normal(proposal, state, now_s)

\* Defect: no high-high response.
authorize_no_stop(proposal, sample, state, now_s) ==
  Adjudicate(proposal, sample, state, now_s, FALSE,
             sample.tank_level_pct <= low_low_pct)

\* Defect: no low-low response.
authorize_no_refill(proposal, sample, state, now_s) ==
  Adjudicate(proposal, sample, state, now_s,
             sample.tank_level_pct >= high_high_pct, FALSE)

authorize(proposal, sample, state, now_s) ==
  Adjudicate(proposal, sample, state, now_s,
             sample.tank_level_pct >= high_high_pct,
             sample.tank_level_pct <= low_low_pct)

-----------------------------------------------------------------------------
Dispositions == {"accepted", "modified", "held", "rejected"}

\* Controller._classify_intervention
_classify_intervention(proposal, adjudication, state) ==
  LET same(x, y) == x.duty_on = y.duty_on /\ x.standby_on = y.standby_on
      any(x) == x.duty_on \/ x.standby_on
  IN IF same(proposal, adjudication) THEN "accepted"
     ELSE IF adjudication.mode \in {"DEGRADED", "HOLD"} THEN "held"
     ELSE IF any(proposal) /\ ~any(adjudication) THEN "rejected"
     ELSE IF same(adjudication, state) THEN "held"
     ELSE "modified"

(* Controller._apply_intent: the command, the times of change, the         *)
(* sequence and the mode.                                                  *)
_apply_intent(state, adjudication, sequence, now_s) ==
  [duty_on |-> adjudication.duty_on,
   standby_on |-> adjudication.standby_on,
   duty_last_changed_s |->
     IF adjudication.duty_on # state.duty_on
     THEN now_s ELSE state.duty_last_changed_s,
   standby_last_changed_s |->
     IF adjudication.standby_on # state.standby_on
     THEN now_s ELSE state.standby_last_changed_s,
   last_sequence |-> sequence,
   last_mode |-> adjudication.mode]
============================================================================
