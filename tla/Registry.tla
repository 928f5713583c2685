------------------------------ MODULE Registry ------------------------------
(***************************************************************************)
(* The hub's list of satellites and the epoch counter beside it            *)
(* (src/sentry_mode/satellites/identity.py, NodeRegistry), one file that   *)
(* the hub and every run of scripts/satellite_admin.py load, change in     *)
(* memory and write back whole.                                            *)
(*                                                                         *)
(* Each process holds its own copy and its own lock, so the steps of two   *)
(* processes interleave: load, refresh and change, write the new file      *)
(* under its temporary name, move it into place, remove what is left of    *)
(* the temporary name.  The name is the same for every process.  Any of    *)
(* them can be killed between two steps, and a write can fail.             *)
(***************************************************************************)
EXTENDS Integers, Sequences

CONSTANTS Nodes,      \* satellites
          Certs,      \* certificates, by fingerprint
          NoCert, Nothing,
          Admins,     \* runs of satellite_admin.py
          Overlap,    \* may a run overlap an operation of another process?
          MaxRevision \* bound on the changes made

Procs == Admins \cup {"hub"}

Statuses == {"unknown", "pending", "approved", "revoked"}

NodeRecord == [status : Statuses, cert : Certs \cup {NoCert}]

NodeDocument == [revision : Nat, hub_epoch : Nat, nodes : [Nodes -> NodeRecord]]

Absent == [status |-> "unknown", cert |-> NoCert]

EmptyDocument == [revision |-> 0, hub_epoch |-> 0, nodes |-> [n \in Nodes |-> Absent]]

Operation == [kind : {"next_epoch", "register", "approve", "revoke", "forget",
                      "describe"},
              node : Nodes, cert : Certs \cup {NoCert}]

ASSUME RegistryConstants ==
  /\ "hub" \notin Admins
  /\ NoCert \notin Certs
  /\ Overlap \in BOOLEAN
  /\ Nothing \notin NodeDocument \cup Operation
  /\ MaxRevision \in Nat

VARIABLES
  file,    \* the registry on disk
  stamp,   \* its mtime and size; no file yet is stamp 0
  temp,    \* the file under the temporary name, or Nothing
  mem,     \* _document, per process
  readAt,  \* _read_at, per process
  pc,      \* down, ready, writing, written, moved
  todo,    \* the operation a process is in
  issued,  \* history: the epochs next_epoch returned
  ruled    \* history: the status the last ruling moved into place gave a node

registryVars == <<file, stamp, temp, mem, readAt, pc, todo, issued, ruled>>

RegistryTypeOK ==
  /\ file \in NodeDocument
  /\ stamp \in Nat
  /\ temp \in NodeDocument \cup {Nothing}
  /\ mem \in [Procs -> NodeDocument]
  /\ readAt \in [Procs -> Nat]
  /\ pc \in [Procs -> {"down", "ready", "writing", "written", "moved"}]
  /\ todo \in [Procs -> Operation \cup {Nothing}]
  /\ issued \in Seq(Nat)
  /\ ruled \in [Nodes -> Statuses]

RegistryInit ==
  /\ file = EmptyDocument /\ stamp = 0 /\ temp = Nothing
  /\ mem = [p \in Procs |-> EmptyDocument]
  /\ readAt = [p \in Procs |-> 0]
  /\ pc = [p \in Procs |-> "down"]
  /\ todo = [p \in Procs |-> Nothing]
  /\ issued = << >>
  /\ ruled = [n \in Nodes |-> "unknown"]

(* Whether a process is on its way from a change to the disk. *)
Busy(p) == pc[p] \in {"writing", "written", "moved"}

MayRun(p) == Overlap \/ \A q \in Procs \ {p} : ~Busy(q)

(* Mutant of Fresh: what was read at startup is trusted. *)
FreshFromMemory(p) == mem[p]

(* refresh: the copy in memory, or the file if it has moved since. *)
Fresh(p) == IF readAt[p] = stamp THEN mem[p] ELSE file

(* The conditions under which an operation raises instead of changing. *)
Allowed(op, doc) ==
  LET record == doc.nodes[op.node] IN
  CASE op.kind = "next_epoch" -> TRUE
    [] op.kind = "register"   -> record.status = "unknown"
    [] op.kind = "approve"    -> /\ record.status # "unknown"
                                 /\ op.cert # NoCert \/ record.cert # NoCert
    [] OTHER                  -> record.status # "unknown"

Ruling(op, record) ==
  CASE op.kind = "register" -> [status |-> "pending", cert |-> op.cert]
    [] op.kind = "approve"  -> [status |-> "approved",
                                cert |-> IF op.cert # NoCert THEN op.cert ELSE record.cert]
    [] op.kind = "revoke"   -> [record EXCEPT !.status = "revoked"]
    [] op.kind = "forget"   -> Absent
    [] OTHER                -> record

Changed(op, doc) ==
  [revision  |-> doc.revision + 1,
   hub_epoch |-> IF op.kind = "next_epoch" THEN doc.hub_epoch + 1 ELSE doc.hub_epoch,
   nodes     |-> [doc.nodes EXCEPT ![op.node] = Ruling(op, @)]]

(* Mutant of Load: the persisted counter is not read back. *)
LoadWithoutEpoch(p) ==
  /\ pc[p] = "down"
  /\ pc' = [pc EXCEPT ![p] = "ready"]
  /\ mem' = [mem EXCEPT ![p] = [file EXCEPT !.hub_epoch = 0]]
  /\ readAt' = [readAt EXCEPT ![p] = stamp]
  /\ UNCHANGED <<file, stamp, temp, todo, issued, ruled>>

(* A process starts and loads: NodeRegistry.__init__. *)
Load(p) ==
  /\ pc[p] = "down"
  /\ pc' = [pc EXCEPT ![p] = "ready"]
  /\ mem' = [mem EXCEPT ![p] = file]
  /\ readAt' = [readAt EXCEPT ![p] = stamp]
  /\ UNCHANGED <<file, stamp, temp, todo, issued, ruled>>

(* refresh, check and change.  The hub only stamps connections; the        *)
(* rulings come from the shell (nothing in the program calls the service's *)
(* own approve and revoke; HubSessions has them).                          *)
Begin(p, op) ==
  /\ pc[p] = "ready" /\ MayRun(p)
  /\ p = "hub" <=> op.kind = "next_epoch"
  /\ Fresh(p).revision < MaxRevision
  /\ Allowed(op, Fresh(p))
  /\ mem' = [mem EXCEPT ![p] = Changed(op, Fresh(p))]
  /\ readAt' = [readAt EXCEPT ![p] = stamp]
  /\ todo' = [todo EXCEPT ![p] = op]
  /\ pc' = [pc EXCEPT ![p] = "writing"]
  /\ UNCHANGED <<file, stamp, temp, issued, ruled>>

(* authenticate, and every operation that raises: only the refresh stays. *)
Refresh(p) ==
  /\ pc[p] = "ready" /\ MayRun(p)
  /\ mem' = [mem EXCEPT ![p] = Fresh(p)]
  /\ readAt' = [readAt EXCEPT ![p] = stamp]
  /\ UNCHANGED <<file, stamp, temp, pc, todo, issued, ruled>>

(* Whether authenticate believes a message from n, sent with certificate c. *)
Authenticated(n, c) ==
  LET record == Fresh("hub").nodes[n]
  IN  record.status = "approved" /\ record.cert # NoCert /\ record.cert = c

WriteTemporary(p) ==
  /\ pc[p] = "writing"
  /\ temp' = mem[p]
  /\ pc' = [pc EXCEPT ![p] = "written"]
  /\ UNCHANGED <<file, stamp, mem, readAt, todo, issued, ruled>>

(* A run of the tool ends with its one operation; the hub goes on. *)
Afterwards(p) == IF p = "hub" THEN "ready" ELSE "down"

(* The write fails, or the temporary file has been moved away by another   *)
(* process: the operation raises and memory keeps the change.              *)
PersistFails(p) ==
  /\ pc[p] = "writing" \/ (pc[p] = "written" /\ temp = Nothing)
  /\ temp' = Nothing
  /\ pc' = [pc EXCEPT ![p] = Afterwards(p)]
  /\ UNCHANGED <<file, stamp, mem, readAt, todo, issued, ruled>>

MoveIntoPlace(p) ==
  /\ pc[p] = "written" /\ temp # Nothing
  /\ file' = temp /\ stamp' = stamp + 1 /\ temp' = Nothing
  /\ pc' = [pc EXCEPT ![p] = "moved"]
  /\ ruled' = IF todo[p].kind \in {"next_epoch", "describe"} THEN ruled
              ELSE [ruled EXCEPT ![todo[p].node] = mem[p].nodes[todo[p].node].status]
  /\ UNCHANGED <<mem, readAt, todo, issued>>

(* unlink(missing_ok=True), and the operation returns. *)
Finish(p) ==
  /\ pc[p] = "moved"
  /\ temp' = Nothing
  /\ pc' = [pc EXCEPT ![p] = Afterwards(p)]
  /\ issued' = IF todo[p].kind = "next_epoch" THEN Append(issued, mem[p].hub_epoch)
               ELSE issued
  /\ UNCHANGED <<file, stamp, mem, readAt, todo, ruled>>

(* Any process is killed.  What it left under the temporary name stays.    *)
Die(p) ==
  /\ pc[p] # "down"
  /\ pc' = [pc EXCEPT ![p] = "down"]
  /\ UNCHANGED <<file, stamp, temp, mem, readAt, todo, issued, ruled>>

RegistryNext ==
  \E p \in Procs :
    \/ Load(p) \/ Refresh(p)
    \/ \E op \in Operation : Begin(p, op)
    \/ WriteTemporary(p) \/ PersistFails(p) \/ MoveIntoPlace(p) \/ Finish(p)
    \/ Die(p)

RegistrySpec == RegistryInit /\ [][RegistryNext]_registryVars

------------------------------------------------------------------------------
(* Every connection gets an epoch that was never handed out before, across *)
(* restarts and a kill between any two steps: what next_epoch returns only *)
(* goes up.                                                                *)
EpochsNeverRepeat ==
  \A i, j \in 1..Len(issued) : i < j => issued[i] < issued[j]

(* A registration, an approval, a revocation or a forgotten node is never  *)
(* undone by another process writing back an older copy of the file.       *)
NoRulingIsLost == \A n \in Nodes : file.nodes[n].status = ruled[n]

(* authenticate believes a node only on what the file says at that moment, *)
(* whatever the hub had read before.                                       *)
BelievedOnlyIfApproved ==
  \A n \in Nodes, c \in Certs :
    pc["hub"] = "ready" /\ Authenticated(n, c)
      => file.nodes[n].status = "approved" /\ file.nodes[n].cert = c

(* While processes take turns, the file is an AtomicRegistry: no kill, no  *)
(* failed write, no copy in memory and no leftover under the temporary     *)
(* name ever shows in it.                                                  *)
Atomic == INSTANCE AtomicRegistry WITH nodes <- file.nodes, hub_epoch <- file.hub_epoch
RegistryIsAtomic == Atomic!Spec
==============================================================================
