---------------------------- MODULE DiskCustody -----------------------------
(***************************************************************************)
(* What Epoch promises about the private disks of its runs, whoever acts   *)
(* on its behalf: one run at a time is given a disk, its VMM is launched   *)
(* on it at most once, the disk is discarded only when no VMM uses it, and *)
(* a run is announced as cleaned up, for good, only after that.            *)
(*                                                                         *)
(* Locks, records, crashes and recoveries are not part of the promise.     *)
(* RunOwnership implements it.                                             *)
(***************************************************************************)
EXTENDS Naturals

CONSTANT Runs

VARIABLES
  vmm,   \* the VMM of each run: "none", "live" or "dead"
  disk,  \* the runs whose disk exists
  gone   \* the runs announced as cleaned up

custody == <<vmm, disk, gone>>

Init ==
  /\ vmm = [r \in Runs |-> "none"]
  /\ disk = {} /\ gone = {}

\* Nobody but r has a disk or a VMM.
Alone(r) == disk \subseteq {r} /\ \A s \in Runs \ {r} : vmm[s] # "live"

Provide(r) ==
  /\ vmm[r] = "none" /\ r \notin gone /\ Alone(r)
  /\ disk' = disk \cup {r}
  /\ UNCHANGED <<vmm, gone>>

Launch(r) ==
  /\ vmm[r] = "none" /\ r \in disk /\ Alone(r)
  /\ vmm' = [vmm EXCEPT ![r] = "live"]
  /\ UNCHANGED <<disk, gone>>

Exit(r) ==
  /\ vmm[r] = "live"
  /\ vmm' = [vmm EXCEPT ![r] = "dead"]
  /\ UNCHANGED <<disk, gone>>

Discard(r) ==
  /\ vmm[r] # "live"
  /\ disk' = disk \ {r}
  /\ UNCHANGED <<vmm, gone>>

Announce(r) ==
  /\ vmm[r] # "live" /\ r \notin disk
  /\ gone' = gone \cup {r}
  /\ UNCHANGED <<vmm, disk>>

\* A reboot ends every VMM and may clear the directory of the disks.
HostReboots ==
  /\ vmm' = [r \in Runs |-> IF vmm[r] = "live" THEN "dead" ELSE vmm[r]]
  /\ disk' \in {disk, {}}
  /\ UNCHANGED gone

Next ==
  \/ HostReboots
  \/ \E r \in Runs : Provide(r) \/ Launch(r) \/ Exit(r) \/ Discard(r) \/ Announce(r)

Spec == Init /\ [][Next]_custody
=============================================================================
