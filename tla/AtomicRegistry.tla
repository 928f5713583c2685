--------------------------- MODULE AtomicRegistry ---------------------------
(***************************************************************************)
(* What the registry promises the rest of the program                      *)
(* (src/sentry_mode/satellites/identity.py, NodeRegistry), without files,  *)
(* copies or processes: a ruling changes one satellite at once and nothing *)
(* else, an epoch is counted up on its own, and what is handed out is      *)
(* above everything handed out before.                                     *)
(***************************************************************************)
EXTENDS Naturals, Sequences

CONSTANTS Nodes, Certs, NoCert

VARIABLES nodes,     \* what is known of each satellite
          hub_epoch, \* the last epoch counted
          issued     \* the epochs handed out

vars == <<nodes, hub_epoch, issued>>

Stranger == [status |-> "unknown", cert |-> NoCert]

Init == nodes = [n \in Nodes |-> Stranger] /\ hub_epoch = 0 /\ issued = << >>

(* The life of a satellite: approved only with a certificate, its own or   *)
(* the one given, and never from nothing.                                  *)
Life(before) ==
  IF before.status = "unknown"
  THEN [status : {"pending"}, cert : Certs \cup {NoCert}]
  ELSE {Stranger, [before EXCEPT !.status = "revoked"]}
         \cup [status : {"approved"}, cert : Certs]

Rule ==
  /\ \E n \in Nodes : \E after \in Life(nodes[n]) : nodes' = [nodes EXCEPT ![n] = after]
  /\ UNCHANGED <<hub_epoch, issued>>

(* A stamp that could not be written may leave a gap. *)
Stamp == hub_epoch' \in Nat /\ hub_epoch' > hub_epoch /\ UNCHANGED <<nodes, issued>>

HandOut ==
  /\ \A i \in 1..Len(issued) : issued[i] < hub_epoch
  /\ issued' = Append(issued, hub_epoch)
  /\ UNCHANGED <<nodes, hub_epoch>>

Next == Rule \/ Stamp \/ HandOut

Spec == Init /\ [][Next]_vars
==============================================================================
