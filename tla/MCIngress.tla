------------------------------ MODULE MCIngress ------------------------------
(***************************************************************************)
(* Instances of Ingress: what one door sensor sends over one connection of *)
(* one boot and one of the next.                                           *)
(***************************************************************************)
EXTENDS Ingress

Says(n, b, s, c) ==
  [id |-> n, boot |-> b, seq |-> s, conn |-> c, occurred |-> 0,
   synced |-> TRUE, initial |-> FALSE, replayed |-> FALSE, retained |-> FALSE]

(* A reading from a clock that lost its time, a baseline, a reading that   *)
(* is of the future at first, the one after it, which uses an identifier   *)
(* again, and one of the next boot.                                        *)
Readings == {[Says(1, 1, 0, 1) EXCEPT !.synced = FALSE],
             [Says(2, 1, 1, 1) EXCEPT !.initial = TRUE],
             [Says(3, 1, 2, 1) EXCEPT !.occurred = 1],
             Says(1, 1, 3, 1), Says(4, 2, 0, 2)}

==============================================================================
