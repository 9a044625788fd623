---------------------------- MODULE AlertEngineMC ----------------------------
(* Two partitions with three records, the two thermal rules.               *)
EXTENDS AlertEngine

CONSTANTS p1, p2, r1, d1

Rule(id, metric, t, on) ==
  [id |-> id, metric |-> metric, op |-> ">", threshold |-> t, enabled |-> on]

Event(metric, v, device, ok) ==
  [metric |-> metric, value |-> v, device |-> device, rack |-> r1,
   facility |-> "f1", valid |-> ok]

\* p1: a rack over the warning threshold twice, the first time also over that
\* of the rule an operator may add; p2: an event that fails validation.
MCLog ==
  p1 :> <<Event("rack_temp_c", 41, None, TRUE),
          Event("rack_temp_c", 36, None, TRUE)>>
  @@ p2 :> <<Event("rack_temp_c", 46, d1, FALSE)>>

MCDefaultRules ==
  <<Rule("THERMAL_WARNING", "rack_temp_c", 35, TRUE),
    Rule("THERMAL_CRITICAL", "rack_temp_c", 45, TRUE)>>

\* An operator's rule edits: one switches a default off, one is new.
MCRuleEdits ==
  {Rule("THERMAL_WARNING", "rack_temp_c", 35, FALSE),
   Rule("RACK_HOT", "rack_temp_c", 40, TRUE)}
==============================================================================
