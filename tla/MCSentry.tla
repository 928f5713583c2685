------------------------------ MODULE MCSentry ------------------------------
(***************************************************************************)
(* Instances of Sentry.                                                    *)
(***************************************************************************)
EXTENDS Sentry

(* One rule of every kind of step, in two groups, the second of which      *)
(* starts two steps together; and a rule that listens to a sensor.         *)
ActLooks   == [hall |-> Primary, gate |-> None]
ActListens == [hall |-> {}, gate |-> {"pir"}]
ActShoots  == [hall |-> {Primary}, gate |-> {"yardcam"}]
ActGroups  == [hall |-> << <<"series">>, <<"speak", "record">> >>,
               gate |-> << <<"photo">>, <<"act">> >>]

(* A rule watching this node's camera, one watching the yard's, and a      *)
(* sensor rule that takes pictures with both.                              *)
FaultLooks   == [hall |-> Primary, yard |-> "yardcam", gate |-> None]
FaultListens == [hall |-> {}, yard |-> {}, gate |-> {"pir"}]
FaultShoots  == [hall |-> {}, yard |-> {}, gate |-> {Primary, "yardcam"}]
FaultGroups  == [hall |-> << <<"act">> >>, yard |-> << <<"act">> >>, gate |-> << <<"photo">> >>]

=============================================================================
