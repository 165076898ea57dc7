---------------------------- MODULE MCSettingsPage ----------------------------
(***************************************************************************)
(* Instances of SettingsPage for TLC.                                      *)
(***************************************************************************)
EXTENDS SettingsPage

CONSTANTS f1, f2, good

KeyValues == [k \in Keys |->
    CASE k = "certificate" -> {f1, f2, Missing}
      [] k = "storeUuid" -> {good, Missing}
      [] k = "testMode" -> {On, Off}]

Of(c, u, t) ==
    [k \in Keys |-> CASE k = "certificate" -> c [] k = "storeUuid" -> u [] k = "testMode" -> t]

\* Both certificates are for tests, the second also for production.
Accepting == {Of(f1, good, On), Of(f2, good, On), Of(f2, good, Off)}
\* A new shop, and one with credentials for tests.
AtFirst == {Of(Missing, Missing, Off), Of(f1, good, On)}
\* Only `validated`; no certificate; test mode on, or, for a channel, as for all.
Requests ==
    {[k \in {} |-> Missing], [k \in {"certificate"} |-> Missing]}
        \cup {[k \in {"testMode"} |-> v] : v \in {On, Inherit}}
=============================================================================
