---------------------------- MODULE MCLogMonitor ----------------------------
EXTENDS LogMonitor

Scenario(cancels, incidents, expiries, crashes) ==
  [k \in Rare |-> CASE k = "cancel" -> cancels
                    [] k = "incident" -> incidents
                    [] k = "expiry" -> expiries
                    [] k = "crash" -> crashes]

MCScenarios == {Scenario(1, 1, 1, 0), Scenario(0, 2, 1, 0), Scenario(0, 1, 1, 1), Scenario(1, 0, 0, 1)}
=============================================================================
