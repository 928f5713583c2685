----------------------------- MODULE MCTriggers -----------------------------
(***************************************************************************)
(* The instance of Triggers that TLC explores: the bounds of each kind of  *)
(* rule.  A camera rule needs seven ticks to go off twice (two samples,    *)
(* two of absence, two more); the kinds that judge each event by itself    *)
(* need only as many as the cooldown.                                      *)
(***************************************************************************)
EXTENDS Triggers

Ticks == [k \in Kinds |-> CASE k = "vision" -> 7 [] k = "sequence" -> 5
                             [] k = "threshold" -> 4 [] k = "none" -> 1 [] k = "sound" -> 3
                             [] OTHER -> 2]

Stretch == [k \in Kinds |-> CASE k = "vision" -> 5 [] k = "sequence" -> 5 [] OTHER -> 4]

=============================================================================
