-------------------------- MODULE WaterTwinProofs --------------------------
(***************************************************************************)
(* Proofs about the digital twin, for every configuration with the margins *)
(* of MarginAssumption, every planner and every scenario.                  *)
(***************************************************************************)
EXTENDS WaterTwin, TLAPS

-----------------------------------------------------------------------------
(* The safety kernel.                                                      *)

(* The three forms of an adjudication.                                     *)
LEMMA AuthorizeForms ==
  ASSUME NEW prop, NEW smp, NEW c, NEW t
  PROVE  \/ \E mode \in {"HOLD", "DEGRADED"} :
              authorize(prop, smp, c, t) = _hold(c, mode)
         \/ \E on \in BOOLEAN : authorize(prop, smp, c, t) = Emergency(on)
         \/ authorize(prop, smp, c, t) = Normal(prop, c, t)
  BY DEF authorize, Adjudicate

LEMMA NormalForm ==
  ASSUME NEW prop \in PlannerProposal, NEW c \in ControllerState, NEW t
  PROVE  /\ Normal(prop, c, t) \in Adjudication
         /\ Normal(prop, c, t).standby_on => Normal(prop, c, t).duty_on
<1> DEFINE d == _apply_dwell(prop.duty_on \/ prop.standby_on,
                              c.duty_on, c.duty_last_changed_s, t)
           s == _apply_dwell(prop.standby_on, c.standby_on,
                             c.standby_last_changed_s, t)
<1>1. d \in BOOLEAN /\ s \in BOOLEAN
  BY DEF _apply_dwell, PlannerProposal, ControllerState
<1>2. Normal(prop, c, t) =
        [duty_on |-> d, standby_on |-> s /\ d, mode |-> "NORMAL"]
  BY DEF Normal
<1> HIDE DEF d, s
<1> QED
  BY <1>1, <1>2 DEF Adjudication, ControlMode

(* SafetyKernel.authorize returns a well-formed adjudication and never     *)
(* authorizes standby alone, provided the state it may hold does not.      *)
LEMMA AuthorizeSafe ==
  ASSUME NEW prop \in PlannerProposal, NEW smp,
         NEW c \in ControllerState, NEW t,
         c.standby_on => c.duty_on
  PROVE  /\ authorize(prop, smp, c, t) \in Adjudication
         /\ authorize(prop, smp, c, t).standby_on
              => authorize(prop, smp, c, t).duty_on
<1>1. ASSUME NEW mode \in {"HOLD", "DEGRADED"}
      PROVE  /\ _hold(c, mode) \in Adjudication
             /\ _hold(c, mode).standby_on => _hold(c, mode).duty_on
  BY DEF _hold, Adjudication, ControllerState, ControlMode
<1>2. ASSUME NEW on \in BOOLEAN
      PROVE  /\ Emergency(on) \in Adjudication
             /\ Emergency(on).standby_on => Emergency(on).duty_on
  BY DEF Emergency, Adjudication, ControlMode
<1> QED
  BY <1>1, <1>2, NormalForm, AuthorizeForms

(* Controller._apply_intent keeps the controller state well formed.        *)
LEMMA ApplyType ==
  ASSUME NEW c \in ControllerState, NEW a \in Adjudication, NEW t \in Int,
         NEW n \in Nat
  PROVE  _apply_intent(c, a, n, t) \in ControllerState
  BY DEF _apply_intent, ControllerState, Adjudication

(* A NORMAL adjudication changes the duty command only after its dwell,    *)
(* measured by the controller's own record of the last change.             *)
LEMMA NormalDutyDwell ==
  ASSUME NEW prop \in PlannerProposal, NEW smp, NEW c \in ControllerState,
         NEW t \in Int,
         authorize(prop, smp, c, t).mode = "NORMAL",
         authorize(prop, smp, c, t).duty_on # c.duty_on
  PROVE  t - c.duty_last_changed_s >= (IF c.duty_on THEN min_on_s ELSE min_off_s)
<1>1. authorize(prop, smp, c, t) = Normal(prop, c, t)
  BY AuthorizeForms DEF _hold, Emergency
<1>2. _apply_dwell(prop.duty_on \/ prop.standby_on, c.duty_on,
                   c.duty_last_changed_s, t) # c.duty_on
  BY <1>1 DEF Normal
<1> QED
  BY <1>2, ConfigAssumption DEF _apply_dwell, ControllerState

-----------------------------------------------------------------------------

USE DEF FullPct

LEMMA BitRange == ASSUME NEW b PROVE Bit(b) \in {0, 1}
  BY DEF Bit

(* The index that GeneratedTablePlanner.propose computes is in the table.  *)
LEMMA IndexInRange ==
  ASSUME NEW s \in TelemetrySample, NEW c
  PROVE  generated_index(s, c) \in 0..503
<1>1. level_index(s.tank_level_pct) \in 0..6
  BY BitRange DEF level_index
<1>2. demand_index(s.demand_lps) \in 0..2
  BY BitRange DEF demand_index
<1>3. quality_index(s.quality) \in 0..2
  BY DEF quality_index
<1>4. /\ Bit(c.duty_on) \in 0..1 /\ Bit(c.standby_on) \in 0..1
      /\ Bit(s.power_available) \in 0..1
  BY BitRange
<1> QED
  BY <1>1, <1>2, <1>3, <1>4 DEF generated_index

(* Every planner proposes a pair of Booleans.                              *)
LEMMA ProposalType ==
  ASSUME NEW p \in Planners, NEW s \in TelemetrySample, NEW c \in ControllerState
  PROVE  Proposals(p, s, c) \subseteq PlannerProposal
<1>1. baseline_propose(s, c) \in PlannerProposal
  BY DEF baseline_propose, PlannerProposal, ControllerState
<1>2. generated_propose(s, c) \in PlannerProposal
  <2>1. \A i \in 0..503 : DECISION_TABLE[i] \in PlannerProposal
    BY DEF DECISION_TABLE, _decision, PlannerProposal
  <2> QED
    BY <2>1, IndexInRange DEF generated_propose
<1> QED
  BY <1>1, <1>2 DEF Proposals, Planners

(* GeneratedTablePlanner.propose: the entry of the flattened table at the  *)
(* computed index is the one generated for the bands of this sample.       *)
LEMMA TableLookup ==
  ASSUME NEW s \in TelemetrySample, NEW c \in ControllerState
  PROVE  generated_propose(s, c) =
           _decision(level_index(s.tank_level_pct), demand_index(s.demand_lps),
                     Bit(c.duty_on), Bit(c.standby_on), Bit(s.power_available),
                     quality_index(s.quality))
<1> DEFINE L == level_index(s.tank_level_pct)
           D == demand_index(s.demand_lps)
           u == Bit(c.duty_on)
           v == Bit(c.standby_on)
           p == Bit(s.power_available)
           q == quality_index(s.quality)
           i == generated_index(s, c)
<1>1. L \in 0..6 /\ D \in 0..2 /\ q \in 0..2
  BY BitRange DEF level_index, demand_index, quality_index
<1>2. u \in 0..1 /\ v \in 0..1 /\ p \in 0..1
  BY BitRange
<1>3. i = ((((L * 3 + D) * 2 + u) * 2 + v) * 2 + p) * 3 + q
  BY DEF generated_index
<1>4. i \in 0..503
  BY IndexInRange
<1> HIDE DEF L, D, u, v, p, q, i
<1>5. /\ i \div 72 = L /\ (i \div 24) % 3 = D
      /\ (i \div 12) % 2 = u /\ (i \div 6) % 2 = v
      /\ (i \div 3) % 2 = p /\ i % 3 = q
  <2>1. i \div 72 = L
    BY <1>1, <1>2, <1>3
  <2>2. (i \div 24) % 3 = D
    <3>1. i \div 24 = L * 3 + D
      BY <1>1, <1>2, <1>3
    <3> QED
      BY <1>1, <3>1
  <2>3. (i \div 12) % 2 = u
    <3>1. i \div 12 = (L * 3 + D) * 2 + u
      BY <1>1, <1>2, <1>3
    <3> QED
      BY <1>1, <1>2, <3>1
  <2>4. (i \div 6) % 2 = v
    <3>1. i \div 6 = ((L * 3 + D) * 2 + u) * 2 + v
      BY <1>1, <1>2, <1>3
    <3> QED
      BY <1>1, <1>2, <3>1
  <2>5. (i \div 3) % 2 = p
    <3>1. i \div 3 = (((L * 3 + D) * 2 + u) * 2 + v) * 2 + p
      BY <1>1, <1>2, <1>3
    <3> QED
      BY <1>1, <1>2, <3>1
  <2>6. i % 3 = q
    BY <1>1, <1>2, <1>3
  <2> QED
    BY <2>1, <2>2, <2>3, <2>4, <2>5, <2>6
<1>6. generated_propose(s, c) = DECISION_TABLE[i]
  BY DEF generated_propose, i
<1>7. DECISION_TABLE[i] = _decision(i \div 72, (i \div 24) % 3, (i \div 12) % 2, (i \div 6) % 2,
                                   (i \div 3) % 2, i % 3)
  BY <1>4 DEF DECISION_TABLE
<1>8. generated_propose(s, c) = _decision(L, D, u, v, p, q)
  BY <1>5, <1>6, <1>7
<1> QED
  BY <1>8 DEF L, D, u, v, p, q

(* The policy behind the table, without bands, strides or index: off when  *)
(* there is no power; the command kept on telemetry that is not good; else *)
(* duty below 50 %, kept up to 65 % (75 % under high demand), and standby  *)
(* below 15 %, kept up to 75 % under high demand.                          *)
TablePolicy(s, c) ==
  LET level == s.tank_level_pct
      high == s.demand_lps >= 5
  IN [duty_on |->
        /\ s.power_available
        /\ IF s.quality # "GOOD" THEN c.duty_on
           ELSE level < 50 \/ (c.duty_on /\ level < 65) \/ (c.duty_on /\ high /\ level < 75),
      standby_on |->
        /\ s.power_available
        /\ IF s.quality # "GOOD" THEN c.standby_on
           ELSE level < 15 \/ (c.standby_on /\ high /\ level < 75)]

(* GeneratedTablePlanner.propose, with its bisection of two band lists and *)
(* its lookup in a table flattened over six dimensions, is this policy,    *)
(* for every sample and every controller state.                            *)
THEOREM TableTheorem ==
  ASSUME NEW s \in TelemetrySample, NEW c \in ControllerState
  PROVE  generated_propose(s, c) = TablePolicy(s, c)
<1> DEFINE level == s.tank_level_pct
<1>1. /\ level \in Int /\ s.demand_lps \in Int
      /\ s.power_available \in BOOLEAN /\ c.duty_on \in BOOLEAN /\ c.standby_on \in BOOLEAN
  BY DEF TelemetrySample, ControllerState
<1>2. /\ level_index(level) = 0 <=> level < 15
      /\ level_index(level) \in {1, 2} <=> level >= 15 /\ level < 50
      /\ level_index(level) = 3 <=> level >= 50 /\ level < 65
      /\ level_index(level) = 4 <=> level >= 65 /\ level < 75
  BY <1>1 DEF level_index, Bit
<1>3. demand_index(s.demand_lps) = 2 <=> s.demand_lps >= 5
  BY <1>1 DEF demand_index, Bit
<1>4. quality_index(s.quality) = 0 <=> s.quality = "GOOD"
  BY DEF quality_index
<1>5. /\ Bit(c.duty_on) = 1 <=> c.duty_on
      /\ Bit(c.standby_on) = 1 <=> c.standby_on
      /\ Bit(s.power_available) = 0 <=> ~s.power_available
  BY DEF Bit
<1>6. ASSUME NEW L, NEW D, NEW u, NEW v, NEW p, NEW q,
             L = level_index(level), D = demand_index(s.demand_lps), u = Bit(c.duty_on),
             v = Bit(c.standby_on), p = Bit(s.power_available), q = quality_index(s.quality)
      PROVE  _decision(L, D, u, v, p, q) = TablePolicy(s, c)
  <2> DEFINE R == _decision(L, D, u, v, p, q)
             pair(d, t) == [duty_on |-> d, standby_on |-> t]
             high == s.demand_lps >= 5
             good == s.quality = "GOOD"
             l15 == level < 15
             l50 == level < 50
             l65 == level < 65
             l75 == level < 75
             d == /\ s.power_available
                  /\ IF ~good THEN c.duty_on
                     ELSE l50 \/ (c.duty_on /\ l65) \/ (c.duty_on /\ high /\ l75)
             t == /\ s.power_available
                  /\ IF ~good THEN c.standby_on ELSE l15 \/ (c.standby_on /\ high /\ l75)
  <2>1. /\ L = 0 <=> l15
        /\ L \in {1, 2} <=> ~l15 /\ l50
        /\ L = 3 <=> ~l50 /\ l65
        /\ L = 4 <=> ~l65 /\ l75
        /\ (l15 => l50) /\ (l50 => l65) /\ (l65 => l75)
    BY <1>1, <1>2, <1>6
  <2>2. D = 2 <=> high
    BY <1>3, <1>6
  <2>3. q = 0 <=> good
    BY <1>4, <1>6
  <2>4. (u = 1 <=> c.duty_on) /\ (v = 1 <=> c.standby_on) /\ (p = 0 <=> ~s.power_available)
    BY <1>5, <1>6
  <2>5. TablePolicy(s, c) = pair(d, t)
    BY DEF TablePolicy
  <2>6. l15 \in BOOLEAN /\ l50 \in BOOLEAN /\ l65 \in BOOLEAN /\ l75 \in BOOLEAN
        /\ high \in BOOLEAN /\ good \in BOOLEAN
    BY <1>1
  <2> HIDE DEF high, good, l15, l50, l65, l75
  <2>7. CASE p = 0
    <3>1. R = pair(FALSE, FALSE)
      BY <2>7, Zenon DEF _decision
    <3>2. d = FALSE /\ t = FALSE
      BY <2>4, <2>7
    <3> QED
      BY <2>5, <3>1, <3>2, Zenon
  <2>8. CASE p # 0 /\ q # 0
    <3>1. R = pair(u = 1, v = 1)
      BY <2>8, Zenon DEF _decision
    <3>2. d = (u = 1) /\ t = (v = 1)
      BY <1>1, <2>3, <2>4, <2>8
    <3> QED
      BY <2>5, <3>1, <3>2, Zenon
  <2>9. CASE p # 0 /\ q = 0 /\ L = 0
    <3>1. R = pair(TRUE, TRUE)
      BY <2>9, Zenon DEF _decision
    <3>2. d = TRUE /\ t = TRUE
      BY <1>1, <2>1, <2>3, <2>4, <2>9
    <3> QED
      BY <2>5, <3>1, <3>2, Zenon
  <2>10. CASE p # 0 /\ q = 0 /\ L \in {1, 2}
    <3>1. R = pair(TRUE, v = 1 /\ D = 2)
      BY <2>10 DEF _decision
    <3>2. d = TRUE /\ t = (v = 1 /\ D = 2)
      BY <1>1, <2>1, <2>2, <2>3, <2>4, <2>6, <2>10
    <3> QED
      BY <2>5, <3>1, <3>2, Zenon
  <2>11. CASE p # 0 /\ q = 0 /\ L = 3
    <3>1. R = pair(u = 1, v = 1 /\ D = 2)
      BY <2>11 DEF _decision
    <3>2. d = (u = 1) /\ t = (v = 1 /\ D = 2)
      BY <1>1, <2>1, <2>2, <2>3, <2>4, <2>6, <2>11
    <3> QED
      BY <2>5, <3>1, <3>2, Zenon
  <2>12. CASE p # 0 /\ q = 0 /\ L = 4
    <3>1. R = pair(u = 1 /\ D = 2, v = 1 /\ D = 2)
      BY <2>12 DEF _decision
    <3>2. d = (u = 1 /\ D = 2) /\ t = (v = 1 /\ D = 2)
      BY <1>1, <2>1, <2>2, <2>3, <2>4, <2>6, <2>12
    <3> QED
      BY <2>5, <3>1, <3>2, Zenon
  <2>13. CASE p # 0 /\ q = 0 /\ L \notin {0, 1, 2, 3, 4}
    <3>1. R = pair(FALSE, FALSE)
      BY <2>13 DEF _decision
    <3>2. d = FALSE /\ t = FALSE
      BY <1>1, <2>1, <2>2, <2>3, <2>4, <2>6, <2>13
    <3> QED
      BY <2>5, <3>1, <3>2, Zenon
  <2> QED
    BY <2>7, <2>8, <2>9, <2>10, <2>11, <2>12, <2>13
<1> QED
  BY <1>6, TableLookup

(* The shipped planners keep duty before standby, given a state that does. *)
LEMMA ProposalLeadLag ==
  ASSUME NEW s \in TelemetrySample, NEW c \in ControllerState, c.standby_on => c.duty_on
  PROVE  /\ baseline_propose(s, c).standby_on => baseline_propose(s, c).duty_on
         /\ generated_propose(s, c).standby_on => generated_propose(s, c).duty_on
<1>1. baseline_propose(s, c).standby_on => baseline_propose(s, c).duty_on
  BY DEF baseline_propose
<1>2. Bit(c.standby_on) = 1 => Bit(c.duty_on) = 1
  BY DEF Bit
<1>3. generated_propose(s, c).standby_on => generated_propose(s, c).duty_on
  <2>1. ASSUME NEW L, NEW D, NEW u, NEW v, NEW p, NEW q, v = 1 => u = 1
        PROVE  _decision(L, D, u, v, p, q).standby_on => _decision(L, D, u, v, p, q).duty_on
    BY <2>1 DEF _decision
  <2> QED
    BY <1>2, <2>1, TableLookup
<1> QED
  BY <1>1, <1>3

LEMMA TelemetryType ==
  ASSUME TypeOK, NEW quality \in TelemetryQuality, NEW power \in BOOLEAN,
         NEW demand \in Nat
  PROVE  Telemetry(quality, power, demand) \in TelemetrySample
  BY DEF TypeOK, Telemetry, TelemetrySample, TelemetryQuality, PlantState

(* Trusted telemetry of the twin shows the tank as it is.                  *)
LEMMA TrustedTelemetry ==
  ASSUME TypeOK, NEW quality \in TelemetryQuality, NEW power, NEW demand,
         NEW s, s = Telemetry(quality, power, demand), Trusted(s)
  PROVE  /\ s.tank_level_pct = plant.level_pct
         /\ s.power_available = power
         /\ plant.level_pct \in 0..100
<1>1. s.quality = quality /\ s.power_available = power
  BY DEF Telemetry
<1>2. quality = "GOOD"
  BY <1>1 DEF Trusted
<1>3. s.tank_level_pct = plant.level_pct
  BY <1>2 DEF Telemetry
<1> QED
  BY <1>1, <1>3 DEF TypeOK, PlantState

(* On trusted, powered telemetry the kernel stops both pumps at high-high  *)
(* and runs both at low-low.                                               *)
LEMMA EmergencyLevels ==
  ASSUME NEW p, NEW s, NEW c, NEW t, Trusted(s), s.power_available
  PROVE  /\ s.tank_level_pct >= high_high_pct =>
              authorize(p, s, c, t) = Emergency(FALSE)
         /\ ~(s.tank_level_pct >= high_high_pct)
              /\ s.tank_level_pct <= low_low_pct =>
              authorize(p, s, c, t) = Emergency(TRUE)
  BY DEF authorize, Adjudicate, Trusted

(* The inductive invariant: types, supply, duty before standby, and the    *)
(* kernel's own record of the last duty change agreeing with what really   *)
(* happened.                                                               *)
TInv ==
  /\ TypeOK
  /\ SupplyHeld
  /\ state.standby_on => state.duty_on
  /\ PlannersKeepLeadLag
  /\ duty_since = state.duty_last_changed_s

LEMMA PlantStepType ==
  ASSUME TypeOK, NEW c \in ControllerState, NEW demand \in Nat,
         NEW power \in BOOLEAN
  PROVE  Plant_step(c, demand, power) \in PlantState
<1> DEFINE duty == c.duty_on /\ power
           standby == c.standby_on /\ power
           available == plant.level_pct + duty_flow * Bit(duty)
                                        + standby_flow * Bit(standby)
           next == IF available > demand THEN available - demand ELSE 0
<1>1. /\ duty_flow * Bit(duty) \in Nat
      /\ standby_flow * Bit(standby) \in Nat
  BY PlantAssumption DEF Bit
<1>2. plant.level_pct \in 0..100
  BY DEF TypeOK, PlantState
<1>3. available \in Nat
  BY <1>1, <1>2
<1>4. next \in Nat
  BY <1>3
<1>5. Plant_step(c, demand, power) =
        [level_pct |-> IF next > 100 THEN 100 ELSE next,
         duty_running |-> duty, standby_running |-> standby,
         unmet_demand |-> plant.unmet_demand \/ demand > available,
         overflow |-> plant.overflow \/ next > 100]
  BY DEF Plant_step
<1>6. /\ duty \in BOOLEAN /\ standby \in BOOLEAN
      /\ (plant.unmet_demand \/ demand > available) \in BOOLEAN
      /\ (plant.overflow \/ next > 100) \in BOOLEAN
  OBVIOUS
<1>7. (IF next > 100 THEN 100 ELSE next) \in 0..100
  BY <1>4
<1> HIDE DEF duty, standby, available, next
<1> QED
  BY <1>5, <1>6, <1>7 DEF PlantState

(* What one iteration of run_scenario does, with its intermediate values.  *)
LEMMA StepFacts ==
  ASSUME TInv, NEW quality \in TelemetryQuality, NEW power \in BOOLEAN,
         NEW demand \in Demands, NEW observed \in Demands,
         step(quality, power, demand, observed)
  PROVE  LET a == authorize(proposal', sample', state, now_s)
         IN /\ sample' \in TelemetrySample /\ proposal' \in PlannerProposal
            /\ sample' = Telemetry(quality, power, observed)
            /\ a \in Adjudication /\ (a.standby_on => a.duty_on)
            /\ state' = _apply_intent(state, a, state.last_sequence + 1, now_s)
            /\ state' \in ControllerState
            /\ state'.duty_on = a.duty_on /\ state'.standby_on = a.standby_on
            /\ state'.last_mode = a.mode
            /\ plant' = Plant_step(state', demand, power)
            /\ demand \in Nat
<1> DEFINE a == authorize(proposal', sample', state, now_s)
<1>1. /\ state \in ControllerState /\ planner \in Planners /\ now_s \in Nat
      /\ demand \in Nat /\ observed \in Nat
  BY PlantAssumption DEF TInv, TypeOK
<1>2. /\ sample' = Telemetry(quality, power, observed)
      /\ proposal' \in Proposals(planner, sample', state)
      /\ state' = _apply_intent(state, a, state.last_sequence + 1, now_s)
      /\ plant' = Plant_step(state', demand, power)
  BY DEF step
<1>3. sample' \in TelemetrySample
  BY <1>1, <1>2, TelemetryType DEF TInv
<1>4. proposal' \in PlannerProposal
  BY <1>1, <1>2, <1>3, ProposalType
<1>5. a \in Adjudication /\ (a.standby_on => a.duty_on)
  BY <1>1, <1>4, AuthorizeSafe DEF TInv
<1>6. state.last_sequence + 1 \in Nat
  BY <1>1 DEF ControllerState
<1> HIDE DEF a
<1>7. state' \in ControllerState
  BY <1>1, <1>2, <1>5, <1>6, ApplyType
<1>8. /\ state'.duty_on = a.duty_on /\ state'.standby_on = a.standby_on
      /\ state'.last_mode = a.mode
  BY <1>2 DEF _apply_intent
<1> QED
  BY <1>1, <1>2, <1>3, <1>4, <1>5, <1>7, <1>8 DEF a

(* No demand goes unmet in a step the pumps can supply: below low-low both *)
(* run, above it the tank holds one step of demand.                        *)
LEMMA SupplyStep ==
  ASSUME TInv, NEW quality \in TelemetryQuality, NEW power \in BOOLEAN,
         NEW demand \in Demands, NEW observed \in Demands,
         step(quality, power, demand, observed)
  PROVE  SupplyHeld'
<1> DEFINE a == authorize(proposal', sample', state, now_s)
           available == plant.level_pct + duty_flow * Bit(state'.duty_on /\ power)
                                        + standby_flow * Bit(state'.standby_on /\ power)
<1> SUFFICES ASSUME supplied' PROVE ~plant'.unmet_demand
  BY DEF SupplyHeld
<1>1. /\ supplied /\ Trusted(sample') /\ power
      /\ demand <= duty_flow + standby_flow
  BY DEF step
<1>2. ~plant.unmet_demand
  BY <1>1 DEF TInv, SupplyHeld
<1>3. /\ sample'.tank_level_pct = plant.level_pct
      /\ sample'.power_available = power
      /\ plant.level_pct \in 0..100
  <2>1. TypeOK /\ sample' = Telemetry(quality, power, observed) /\ Trusted(sample')
    BY <1>1, StepFacts DEF TInv
  <2> QED
    BY <2>1, TrustedTelemetry
<1>4. demand \in Nat /\ state'.duty_on = a.duty_on /\ state'.standby_on = a.standby_on
  BY StepFacts
<1>5. plant'.unmet_demand = (plant.unmet_demand \/ demand > available)
  BY StepFacts DEF Plant_step
<1>6. /\ duty_flow * Bit(state'.duty_on /\ power) \in Nat
      /\ standby_flow * Bit(state'.standby_on /\ power) \in Nat
  BY PlantAssumption DEF Bit
<1>7. CASE plant.level_pct <= low_low_pct
  <2>0. /\ ~(sample'.tank_level_pct >= high_high_pct)
        /\ sample'.tank_level_pct <= low_low_pct
        /\ sample'.power_available
    BY <1>1, <1>3, <1>7, ConfigAssumption
  <2>1. a = Emergency(TRUE)
    BY <1>1, <2>0, EmergencyLevels
  <2>2. state'.duty_on /\ state'.standby_on
    BY <2>1, <1>4 DEF Emergency
  <2>3. available = plant.level_pct + duty_flow + standby_flow
    BY <2>2, <1>1, <1>3, PlantAssumption DEF Bit
  <2> HIDE DEF available
  <2>4. ~(demand > available)
    BY <2>3, <1>1, <1>3, <1>4, PlantAssumption
  <2> QED
    BY <2>4, <1>2, <1>5
<1>8. CASE ~(plant.level_pct <= low_low_pct)
  <2>1. demand <= low_low_pct + 1
    BY MarginAssumption
  <2>2. available >= plant.level_pct
    BY <1>3, <1>6
  <2> HIDE DEF available
  <2>3. plant.level_pct >= low_low_pct + 1
    BY <1>3, <1>8, ConfigAssumption
  <2>4. available \in Nat
    BY <1>3, <1>6 DEF available
  <2>5. ~(demand > available)
    BY <2>1, <2>2, <2>3, <2>4, <1>3, <1>4, ConfigAssumption
  <2> QED
    BY <2>5, <1>2, <1>5
<1> QED
  BY <1>7, <1>8

(* The tank does not spill in a step decided on trusted telemetry.         *)
LEMMA NoSpill ==
  ASSUME TInv, NEW quality \in TelemetryQuality, NEW power \in BOOLEAN,
         NEW demand \in Demands, NEW observed \in Demands,
         step(quality, power, demand, observed), Trusted(sample')
  PROVE  plant'.overflow => plant.overflow
<1> DEFINE a == authorize(proposal', sample', state, now_s)
           duty == duty_flow * Bit(state'.duty_on /\ power)
           standby == standby_flow * Bit(state'.standby_on /\ power)
           available == plant.level_pct + duty + standby
           next == IF available > demand THEN available - demand ELSE 0
<1>1. /\ sample'.tank_level_pct = plant.level_pct
      /\ sample'.power_available = power
      /\ plant.level_pct \in 0..100
  BY StepFacts, TrustedTelemetry DEF TInv
<1>2. demand \in Nat /\ state'.duty_on = a.duty_on /\ state'.standby_on = a.standby_on
  BY StepFacts
<1>3. plant'.overflow = (plant.overflow \/ next > 100)
  BY StepFacts DEF Plant_step
<1>4. /\ duty \in 0..duty_flow /\ standby \in 0..standby_flow
  BY PlantAssumption DEF Bit
<1>5. CASE plant.level_pct >= high_high_pct \/ ~power
  <2>1. ~(state'.duty_on /\ power) /\ ~(state'.standby_on /\ power)
    <3>1. CASE ~power
      BY <3>1
    <3>2. CASE power
      <4>1. a = Emergency(FALSE)
        BY <1>1, <1>5, <3>2, EmergencyLevels
      <4> QED
        BY <4>1, <1>2 DEF Emergency
    <3> QED
      BY <3>1, <3>2
  <2>2. duty = 0 /\ standby = 0
    BY <2>1, PlantAssumption DEF Bit
  <2> HIDE DEF duty, standby
  <2>3. ~(next > 100)
    BY <2>2, <1>1, <1>2
  <2> QED
    BY <2>3, <1>3
<1>6. CASE plant.level_pct < high_high_pct
  <2> HIDE DEF duty, standby
  <2>1. available <= 100
    BY <1>1, <1>4, <1>6, MarginAssumption, ConfigAssumption, PlantAssumption
  <2>2. available \in Nat
    BY <1>1, <1>4, PlantAssumption
  <2>3. ~(next > 100)
    BY <2>1, <2>2, <1>2
  <2> QED
    BY <2>3, <1>3
<1> QED
  BY <1>1, <1>5, <1>6, ConfigAssumption

LEMMA TwinInit == Init => TInv
<1> SUFFICES ASSUME Init PROVE TInv
  OBVIOUS
<1>1. plant \in PlantState /\ ~plant.unmet_demand /\ plant.level_pct \in 0..100
  BY PlantAssumption DEF Init, PlantState
<1>2. state \in ControllerState
  BY DEF Init, InitialControllerState, ControllerState, ControlMode, LongAgo
<1>3. sample \in TelemetrySample
  BY <1>1 DEF Init, TelemetrySample, TelemetryQuality
<1>4. proposal \in PlannerProposal /\ duty_since \in Int
  BY DEF Init, PlannerProposal, LongAgo
<1>5. /\ now_s \in 0..Steps /\ planner \in Planners
      /\ last_good_level \in 0..100 /\ last_good_at_s \in Nat
  BY <1>1, PlantAssumption DEF Init
<1>7. restart_performed \in BOOLEAN /\ supplied \in BOOLEAN
  BY DEF Init
<1>6. /\ ~state.standby_on /\ PlannersKeepLeadLag
      /\ duty_since = state.duty_last_changed_s
  BY DEF Init, InitialControllerState, PlannersKeepLeadLag
<1> QED
  BY <1>1, <1>2, <1>3, <1>4, <1>5, <1>6, <1>7 DEF TInv, TypeOK, SupplyHeld

LEMMA TwinStep == TInv /\ [Next]_vars => TInv'
<1> SUFFICES ASSUME TInv, [Next]_vars PROVE TInv'
  OBVIOUS
<1>1. CASE UNCHANGED vars
  BY <1>1 DEF vars, TInv, TypeOK, SupplyHeld, PlannersKeepLeadLag
<1>2. ASSUME NEW quality \in TelemetryQuality, NEW power \in BOOLEAN,
             NEW demand \in Demands, NEW observed \in Demands,
             step(quality, power, demand, observed)
      PROVE  TInv'
  <2>1. SupplyHeld'
    BY <1>2, SupplyStep
  <2>2. /\ state' \in ControllerState /\ (state'.standby_on => state'.duty_on)
        /\ sample' \in TelemetrySample /\ proposal' \in PlannerProposal
    BY <1>2, StepFacts
  <2>3. plant' \in PlantState
    BY <1>2, <2>2, StepFacts, PlantStepType DEF TInv
  <2>4. /\ now_s' \in 0..Steps /\ planner' \in Planners
        /\ last_good_level' \in 0..100 /\ last_good_at_s' \in Nat
        /\ restart_performed' \in BOOLEAN /\ supplied' \in BOOLEAN
        /\ duty_since' \in Int
    BY <1>2, PlantAssumption DEF step, TInv, TypeOK, PlantState
  <2>5. duty_since' = state'.duty_last_changed_s
    BY <1>2, StepFacts DEF step, TInv, _apply_intent
  <2>6. PlannersKeepLeadLag'
    <3>1. /\ sample' \in TelemetrySample /\ state \in ControllerState
          /\ (state.standby_on => state.duty_on) /\ planner \in Planners
      BY <2>2 DEF TInv, TypeOK
    <3>2. planner' = planner /\ proposal' \in Proposals(planner, sample', state)
      BY <1>2 DEF step
    <3>3. planner # "any" =>
            proposal' \in {baseline_propose(sample', state), generated_propose(sample', state)}
      BY <3>1, <3>2 DEF Proposals, Planners
    <3> QED
      BY <3>1, <3>2, <3>3, ProposalLeadLag DEF PlannersKeepLeadLag
  <2> QED
    BY <2>1, <2>2, <2>3, <2>4, <2>5, <2>6 DEF TInv, TypeOK
<1>3. CASE restart
  <2>1. state' = state
    BY <1>3 DEF restart, from_dict, TInv, TypeOK, ControllerState
  <2> QED
    BY <1>3, <2>1 DEF restart, TInv, TypeOK, SupplyHeld, PlannersKeepLeadLag
<1> QED
  BY <1>1, <1>2, <1>3 DEF Next

(* The twin's inductive invariant.                                         *)
THEOREM TwinInvariance == Spec => []TInv
  BY TwinInit, TwinStep, PTL DEF Spec

(* No demand goes unmet while power, telemetry and the pumps' capacity     *)
(* last, whatever the planner proposes and however long the scenario.      *)
THEOREM SupplyTheorem == Spec => []SupplyHeld
<1>1. TInv => SupplyHeld
  BY DEF TInv
<1> QED
  BY <1>1, TwinInvariance, PTL

(* The shipped planners never ask for standby without duty: the lead-lag   *)
(* correction of the kernel is there for other planners only.              *)
THEOREM LeadLagTheorem == Spec => []PlannersKeepLeadLag
<1>1. TInv => PlannersKeepLeadLag
  BY DEF TInv
<1> QED
  BY <1>1, TwinInvariance, PTL

(* The tank spills only in a step decided on untrusted telemetry.          *)
THEOREM OverflowTheorem == Spec => OverflowOnlyWhenBlind
<1>1. ASSUME TInv, [Next]_vars
      PROVE  [plant'.overflow /\ ~plant.overflow => ~Trusted(sample')]_vars
  <2> SUFFICES ASSUME Next, plant'.overflow, ~plant.overflow
               PROVE  ~Trusted(sample')
    BY <1>1
  <2>1. CASE restart
    BY <2>1 DEF restart
  <2>2. ASSUME NEW quality \in TelemetryQuality, NEW power \in BOOLEAN,
               NEW demand \in Demands, NEW observed \in Demands,
               step(quality, power, demand, observed)
        PROVE  ~Trusted(sample')
    BY <1>1, <2>2, NoSpill
  <2> QED
    BY <2>1, <2>2 DEF Next
<1> QED
  BY <1>1, TwinInvariance, PTL DEF Spec, OverflowOnlyWhenBlind

(* The duty pump's minimum times hold of what really happened, across      *)
(* emergencies, holds and a restart.                                       *)
THEOREM DutyDwellTheorem == Spec => DutyDwellHonoured
<1> DEFINE P == state'.duty_on # state.duty_on /\ state'.last_mode = "NORMAL" =>
                  now_s - duty_since >= (IF state.duty_on THEN min_on_s ELSE min_off_s)
<1>1. ASSUME TInv, [Next]_vars PROVE [P]_vars
  <2> SUFFICES ASSUME Next, state'.duty_on # state.duty_on,
                      state'.last_mode = "NORMAL"
               PROVE  now_s - duty_since >=
                        (IF state.duty_on THEN min_on_s ELSE min_off_s)
    BY <1>1
  <2>1. CASE restart
    BY <2>1 DEF restart, from_dict
  <2>2. ASSUME NEW quality \in TelemetryQuality, NEW power \in BOOLEAN,
               NEW demand \in Demands, NEW observed \in Demands,
               step(quality, power, demand, observed)
        PROVE  now_s - duty_since >=
                 (IF state.duty_on THEN min_on_s ELSE min_off_s)
    <3>1. /\ state \in ControllerState /\ now_s \in Int
          /\ duty_since = state.duty_last_changed_s
      BY <1>1 DEF TInv, TypeOK
    <3>2. /\ proposal' \in PlannerProposal
          /\ authorize(proposal', sample', state, now_s).mode = "NORMAL"
          /\ authorize(proposal', sample', state, now_s).duty_on # state.duty_on
      BY <1>1, <2>2, StepFacts
    <3> QED
      BY <3>1, <3>2, NormalDutyDwell
  <2> QED
    BY <2>1, <2>2 DEF Next
<1> QED
  BY <1>1, TwinInvariance, PTL DEF Spec, DutyDwellHonoured
============================================================================
