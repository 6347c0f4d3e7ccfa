-------------------------- MODULE MCWaterControl --------------------------
(* Instance of WaterControl for TLC.                                       *)
EXTENDS WaterControl

\* One sample per way authorize can treat it; the levels are its boundaries.
Sample(age, level, power, quality) ==
  [observed_at_s |-> 0, received_at_s |-> age, finite |-> TRUE,
   tank_level_pct |-> level, demand_lps |-> 3, power_available |-> power,
   quality |-> quality]

MCSamples ==
  { Sample(0, low_low_pct, TRUE, "GOOD"),
    Sample(0, low_low_pct + 1, TRUE, "GOOD"),
    Sample(telemetry_max_age_s, high_high_pct, TRUE, "GOOD"),
    Sample(telemetry_max_age_s + 1, high_high_pct, TRUE, "GOOD"),
    Sample(0, low_low_pct, FALSE, "GOOD"),
    Sample(0, low_low_pct, FALSE, "STALE"),
    Sample(0, FullPct + 1, TRUE, "CONFLICT") }

MCProposals == PlannerProposal

\* A digest without collisions.
MCGenesis == <<>>
MCHash(previous_hash, intent) == <<previous_hash, intent>>
============================================================================
