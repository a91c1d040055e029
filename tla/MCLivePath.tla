----------------------------- MODULE MCLivePath ------------------------------
(* Small instances of LivePath: two UEs, scenarios of a few seconds.       *)
EXTENDS LiveProperties

CONSTANTS u1, u2

S(t, a, b, dark) == [t |-> t, pl |-> (u1 :> a @@ u2 :> b), outage |-> dark]
Script == [duration |-> 4,
           flows |-> <<Flow("media", 3, -1, 2), Flow("emergency", 2, 1, NoStop),
                       Flow("telemetry", 4, 2, 9), Flow("science_bulk", 1, 4, NoStop)>>]

LiveTraces == {<<S(100, 10, 20, {}), S(104, 30, 20, {u1}), S(108, 40, 50, {u2})>>,
               <<S(0, 10, 20, {u1, u2}), S(8, 30, 20, {})>>}
LiveBrokers == {[speedup |-> 1, loop |-> FALSE, delay |-> 0, uplink |-> TRUE],
                [speedup |-> 2, loop |-> TRUE, delay |-> 1, uplink |-> FALSE]}
LiveScenarios == {Script, smoke_scenario(2), trace_scenario(6), reference_scenario(3)}
FlatTraces == {<<S(0, 10, 20, {})>>}
FlatBrokers == {[speedup |-> 1, loop |-> FALSE, delay |-> 0, uplink |-> TRUE]}
ShortScenarios == {[duration |-> 1, flows |-> <<Flow("emergency", 1, 0, NoStop)>>]}
LiveMarks == {<<4, 3>>, <<6, 1>>}
=============================================================================
