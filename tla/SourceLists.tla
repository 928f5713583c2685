----------------------------- MODULE SourceLists -----------------------------
(***************************************************************************)
(* What a list of sources may hold, on the node that is to read them       *)
(* (parse_sources, check_options and check_conflicts of                    *)
(* satellite/src/sentry_satellite/config.py, build of drivers.py) and on   *)
(* the hub that sends it (check_configuration of platforms.py).            *)
(*                                                                         *)
(* A source has a name, a kind and options.  Of the options the model      *)
(* keeps how they fare against the kind's schema and what they claim: the  *)
(* device (a bus and an address, a probe, a sound card, a Bluetooth        *)
(* device, a chip), the part of it that is read, and the BCM lines (those  *)
(* of the bus it is on, of I2S for a microphone that uses it).             *)
(***************************************************************************)
EXTENDS Naturals, Sequences

Kinds == {"gpio", "onewire", "bme280", "adc", "csi", "uvc", "microphone", "ble", "board",
          "dummy"}

(* What check_options finds: "mixed" passes it and is refused with the     *)
(* conflicts (two names for one Bluetooth device, an odd picture size).    *)
Options == {"good", "missing", "unknown", "wrong type", "out of range", "mixed"}

Source == [id : STRING, kind : Kinds, enabled : BOOLEAN, options : Options, device : STRING,
           part : STRING, lines : SUBSET Nat]

(* KINDS_BY_PROFILE, and the kinds this agent has drivers for.             *)
Anywhere  == {"gpio", "onewire", "bme280", "adc", "board", "dummy"}
Allowed   == [camera   |-> Anywhere \cup {"csi", "uvc", "microphone"},
              presence |-> Anywhere \cup {"ble"},
              audio    |-> Anywhere \cup {"microphone"}]
Supported == Kinds \ {"uvc"}

EnabledIn(list) == {list[i] : i \in {j \in DOMAIN list : list[j].enabled}}

(* A kind without a schema keeps its options as they were written.         *)
CheckOptions(source) == source.kind = "uvc" \/ source.options \in {"good", "mixed"}

(* The readings a node takes of itself, unless the list says otherwise.    *)
BoardReading(measure) ==
  [id |-> measure, kind |-> "board", enabled |-> TRUE, options |-> "good", device |-> "board",
   part |-> measure, lines |-> {}]

TheBoardItself(list) ==
  SelectSeq(<<BoardReading("temperature"), BoardReading("cpu")>>,
            LAMBDA b : \A i \in DOMAIN list :
              /\ list[i].id # b.id
              /\ list[i].kind = "board" => list[i].part # b.part)

OnI2C == {"bme280", "adc"}

(* Two sources that claim one pin, probe, channel, measurement, sound card *)
(* or Bluetooth device, or the camera port.                                *)
Clash(a, b) ==
  \/ a.kind \in OnI2C /\ b.kind \in OnI2C /\ a.device = b.device
     /\ (a.kind # b.kind \/ a.part = b.part)
  \/ a.kind = "csi" /\ b.kind = "csi"
  \/ a.kind = b.kind /\ a.kind \in {"onewire", "microphone", "ble"} /\ a.device = b.device
  \/ a.kind = "gpio" /\ b.kind = "gpio" /\ a.device = b.device /\ a.lines = b.lines

(* Only a gpio source is held against the lines of the buses: two buses on *)
(* one line are not noticed.                                               *)
Reserved(list) ==
  UNION {s.lines : s \in {t \in EnabledIn(list) : t.kind \in OnI2C \cup {"onewire", "microphone"}}}

CheckConflicts(list) ==
  /\ \A s \in EnabledIn(list) : s.kind \in {"ble", "csi"} => s.options # "mixed"
  /\ \A s, t \in EnabledIn(list) : s.id # t.id => ~Clash(s, t)
  /\ \A s \in EnabledIn(list) : s.kind = "gpio" => s.lines \cap Reserved(list) = {}

ParseSources(list, profile) ==
  /\ \A i, j \in DOMAIN list : i # j => list[i].id # list[j].id
  /\ \A i \in DOMAIN list : list[i].kind \in Allowed[profile] \cap Supported
                            /\ CheckOptions(list[i])
  /\ CheckConflicts(list \o TheBoardItself(list))

(* One driver for every enabled source.                                    *)
DriversOf(list) == {s.id : s \in EnabledIn(list \o TheBoardItself(list))}

(* The hub's own look at a list for a node that runs the agent.            *)
CheckConfiguration(list, maxSources) ==
  /\ Len(list) <= maxSources
  /\ \A i \in DOMAIN list : list[i].kind \in Supported
=============================================================================
