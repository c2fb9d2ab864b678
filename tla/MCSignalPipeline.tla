-------------------------- MODULE MCSignalPipeline -------------------------
(* SignalPipeline for TLC: a tick is the longer cooldown, the interval two. *)
EXTENDS SignalPipeline

MCCooldown == [t \in Tiers |-> IF t = "low" THEN 1 ELSE 0]
=============================================================================
