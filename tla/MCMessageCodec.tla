--------------------------- MODULE MCMessageCodec ---------------------------
EXTENDS MessageCodec

V == <<"V2012", 0>>

(* The constructors, an identification response among them, the default    *)
(* message, whose header states the wrong length, and one message that is  *)
(* too large for a header.                                                 *)
MCMessages == {
    default_message,
    alive_check_response(V, 3585),
    routing_activation_request(V, 3585, <<"Default", 0>>, <<1, 2, 3, 4>>),
    routing_activation_response(V, 3585, 1, <<"RoutingSuccessfullyActivated", 0>>,
                                <<0, 0, 0, 0>>, <<>>),
    diagnostic_message(V, 3585, 1, <<62, 0>>),
    diagnostic_message_ack(V, 1, 3585, <<"Reserved", 1>>, <<62>>),
    vehicle_identification_response(V,
        [kind |-> "VehicleIdentificationResponse", vin |-> [i \in 1..17 |-> 48],
         logical_address |-> 1, entity_id |-> six(7), group_id |-> <<>>,
         further_action |-> <<"NoFurtherActionRequired", 0>>,
         vin_gid_sync_status |-> <<"Synchronized", 0>>]),
    [header |-> HeaderNew(V, <<"DiagnosticMessage", 0>>, 0),
     payload |-> [kind |-> "DiagnosticMessage", source_address |-> 3585,
                  target_address |-> 1, user_data |-> [i \in 1..40 |-> 0]]]}

AliveCheckRequestFrame == <<2, 253, 0, 7, 0, 0, 0, 0>>

MCForeignFrames == {
    [bytes |-> AliveCheckRequestFrame,
     owed |-> [verdict |-> "Deliver", message |-> alive_check_request(V)]],
    [bytes |-> <<2, 253, 64, 3, 0, 0, 0, 0>>, owed |-> [verdict |-> "Skip"]],
    [bytes |-> <<2, 253, 240, 0, 0, 0, 0, 3, 2, 253, 0>>,
     owed |-> [verdict |-> "Skip"]],
    [bytes |-> <<2, 253, 0, 8, 0, 0, 0, 1, 14>>,
     owed |-> [verdict |-> "Incomplete"]],
    [bytes |-> <<2, 252, 0, 7, 0, 0, 0, 0>>,
     owed |-> [verdict |-> "VersionInverseIncorrect"]]}

=============================================================================
