------------------------------ MODULE MCIceJobs ------------------------------
(* ICE with the rare events bounded by scenarios. *)
EXTENDS IceJobs, TLC

Scenario(events_) == [k \in Rare |-> IF k \in DOMAIN events_ THEN events_[k] ELSE 0]

MCScenarios ==
    { Scenario([scratch |-> 1, resched |-> 1]),
      Scenario([crash |-> 1, black |-> 1]),
      Scenario([noproxy |-> 1, resched |-> 1]),
      Scenario([noproxy |-> 1, lost |-> 1]),
      Scenario([restart |-> 1, resched |-> 1]),
      Scenario([overlap |-> 1, resched |-> 1]),
      Scenario([cancel |-> 1, refused |-> 1, expired |-> 1, purged |-> 1]) }

=============================================================================
