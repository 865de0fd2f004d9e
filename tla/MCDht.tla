------------------------------- MODULE MCDht -------------------------------
(* Instances of Dht: temperatures on both sides of zero, one of them above    *)
(* minus one degree.                                                          *)
EXTENDS Dht

MCMeasurements == {[humidity |-> 5, temperature |-> -3], [humidity |-> 63, temperature |-> -12],
                   [humidity |-> 24, temperature |-> 31]}

=============================================================================
