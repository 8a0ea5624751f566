----------------------- MODULE MCVehicleMessageGateway -----------------------
(* Two message ids at most, hashed to two sweepers. *)
EXTENDS VehicleMessageGateway

CONSTANTS m1, m2

MCShardOf == [m \in MsgIds |-> IF m = m1 THEN 1 ELSE 2]
MCWorkers == {1, 2}
=============================================================================
