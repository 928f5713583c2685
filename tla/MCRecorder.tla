----------------------------- MODULE MCRecorder -----------------------------
(***************************************************************************)
(* The instance of Recorder that is checked.  A behaviour has one kind of  *)
(* microphone: the hub's own, or a satellite's that is recorded on the hub *)
(* or heard in a browser.                                                  *)
(***************************************************************************)
EXTENDS Recorder

(* Captures saved: two together where files are what matters, one where    *)
(* its sound is.                                                           *)
SavesOf == [own |-> 2, recorded |-> 1, heard |-> 0]

(* Blocks read, enough to overflow the queue and leave a gap to be filled. *)
BlocksOf == [own |-> 0, recorded |-> 2, heard |-> 3]
=============================================================================
