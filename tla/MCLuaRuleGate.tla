---------------------------- MODULE MCLuaRuleGate ----------------------------
(* Three workers, two Lua rule evaluations each.                             *)
EXTENDS LuaRuleGate, TLC

CONSTANTS w1, w2, w3, nobody

MCWorkers == {w1, w2, w3}

MCMaxCalls == 2

====
