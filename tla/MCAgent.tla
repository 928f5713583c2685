------------------------------- MODULE MCAgent -------------------------------
(***************************************************************************)
(* Instances of Agent and RemoteConfig: what one hub sends, and what the   *)
(* agent promises about its events.  The two halves of the agent share the *)
(* link and nothing else, so a behaviour follows the events or the         *)
(* configuration, each with a bound of its own on the connections dialled. *)
(***************************************************************************)
EXTENDS RemoteConfig, TLC

CONSTANTS hall, porch, clash, usb   \* lists of sources

Command(n, act, g, e, dur, sq) ==
  [id |-> n, action |-> act, grant |-> g, epoch |-> e, duration |-> dur,
   sequence |-> sq]

(* One command of each kind. *)
OneOfEach == {Command(1, "grant", 1, 1, 1, 0), Command(2, "renew", 1, 1, 1, 1),
              Command(3, "revoke", 1, 1, 0, 0), Command(4, "stop", 1, 1, 0, 0)}

Reads(id, kind, device, part, lines) ==
  [id |-> id, kind |-> kind, enabled |-> TRUE, options |-> "good", device |-> device,
   part |-> part, lines |-> lines]

(* The list installed, one that can be applied, one the node refuses (the  *)
(* contact is on a line of the I2C bus) and one the hub refuses.           *)
ContentsOf ==
  (hall  :> <<Reads("door", "gpio", "chip", "line", {27})>>) @@
  (porch :> <<Reads("pir", "gpio", "chip", "line", {17}),
              Reads("probe", "onewire", "28-01", "probe", {4})>>) @@
  (clash :> <<Reads("contact", "gpio", "chip", "line", {2}),
              Reads("air", "bme280", "i2c-1", "humidity", {2, 3})>>) @@
  (usb   :> <<Reads("eye", "uvc", "video0", "frame", {})>>)

(* Connections dialled, by what a behaviour follows. *)
Dials == [events |-> 1, configuration |-> 2]

Events(A) == follows = "events" /\ A /\ conn' <= MaxDials[follows] /\ UNCHANGED remoteVars

MCInit == Init /\ RemoteInit
MCNext == Events(Next) \/ (follows = "configuration" /\ RemoteNext)

MCSpec == /\ MCInit /\ [][MCNext]_allVars
          /\ WF_allVars(Events(NetworkThread)) /\ SF_allVars(Events(Published))
          /\ RemoteFairness

InFlight == Len(hand) + (IF delivery = None THEN 0 ELSE 1)
            + Cardinality({t \in Threads : making[t] # None})

Total(f) == LET total[S \in SUBSET Sources] ==
                  IF S = {} THEN 0
                  ELSE LET s == CHOOSE s \in S : TRUE IN f[s] + total[S \ {s}]
            IN  total[Sources]

Numbers == Total(nextSeq)

(* Every number the agent ever gave out belongs to an event that is still  *)
(* being recorded, waiting, being sent, sent, refused, or counted in       *)
(* Drops: however put, take, requeue and a failing transport interleave,   *)
(* an event is never lost without a counter saying so.                     *)
EveryEventAccountedFor ==
  Numbers = Len(spool.items) + InFlight + published + refused
            + DropsTotal(spool.drops)

(* _send asks for the grant again for every event of the batch, so a       *)
(* revocation or an expiry lets at most the event already being sent out.  *)
AtMostOneAfterTheGrant == stale <= 1

(* While the link and the grant last, whatever is in the spool gets out of *)
(* it: nothing the network thread does with a batch leaves an event stuck. *)
Healthy == connected /\ Valid(grant, now) /\ ~stopping

SpoolDrains == Healthy ~> (~Healthy \/ (spool.items = << >> /\ hand = << >>))

==============================================================================
