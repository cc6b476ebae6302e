----------------------------- MODULE AtomicDisk -----------------------------
(***************************************************************************)
(* What a BTT namespace promises the layer above it: an array of blocks in *)
(* which a block write is atomic.  A request is issued, takes effect at    *)
(* one instant or not at all, and is then acknowledged.  A power failure   *)
(* forgets the request in progress; if the request had not yet taken       *)
(* effect the old block survives, if it had the new block does.            *)
(*                                                                         *)
(* Another operating system may use the same namespace while this driver   *)
(* is not running; it writes blocks, trims them or declares them lost.     *)
(***************************************************************************)
CONSTANTS
  Disk,     \* the set of block addresses
  Values,   \* block contents
  Zero,     \* the content of a block that was never written
  Lost      \* the mark of a block whose content was declared unreadable

VARIABLES
  exists,   \* is there a namespace
  store,    \* the content of every block
  pend,     \* the write in progress, or NoWrite
  out       \* the answer given by the last step, "none" if it gave none

diskVars == <<exists, store, pend, out>>

NoWrite == [st |-> "idle", l |-> CHOOSE l \in Disk : TRUE, v |-> Zero]

DiskInit ==
  /\ exists = FALSE
  /\ store = [l \in Disk |-> Zero]
  /\ pend = NoWrite
  /\ out = "none"

\* A new namespace reads as zeros, whatever the media held before.
DiskCreate ==
  /\ ~exists
  /\ exists' = TRUE
  /\ store' = [l \in Disk |-> Zero]
  /\ out' \in {"none", "ok"}
  /\ UNCHANGED pend

DiskDelete ==
  /\ exists
  /\ exists' = FALSE
  /\ store' = [l \in Disk |-> Zero]
  /\ pend' = NoWrite
  /\ out' = "none"

DiskRead ==
  /\ exists
  /\ pend = NoWrite
  /\ \E l \in Disk : out' \in {store[l], "err"} \ {Lost}
  /\ UNCHANGED <<exists, store, pend>>

DiskIssue ==
  /\ exists
  /\ pend = NoWrite
  /\ \E l \in Disk, v \in Values : pend' = [st |-> "issued", l |-> l, v |-> v]
  /\ out' = "none"
  /\ UNCHANGED <<exists, store>>

\* The instant at which the write takes effect.
DiskCommit ==
  /\ exists
  /\ pend.st = "issued"
  /\ pend' = [pend EXCEPT !.st = "done"]
  /\ store' = [store EXCEPT ![pend.l] = pend.v]
  /\ out' = "none"
  /\ UNCHANGED exists

DiskAck ==
  /\ pend.st = "done"
  /\ pend' = NoWrite
  /\ out' = "ok"
  /\ UNCHANGED <<exists, store>>

\* A write may be refused, but then it has not touched the store.
DiskReject ==
  /\ exists
  /\ pend.st # "done"
  /\ pend' = NoWrite
  /\ out' = "err"
  /\ UNCHANGED <<exists, store>>

\* Power failure, driver stop or start: the request in progress is forgotten.
DiskForget ==
  /\ pend' = NoWrite
  /\ out' = "none"
  /\ UNCHANGED <<exists, store>>

\* Another operating system uses the namespace.
DiskForeign ==
  /\ exists
  /\ pend = NoWrite
  /\ \E l \in Disk, v \in Values \cup {Lost} : store' = [store EXCEPT ![l] = v]
  /\ out' = "none"
  /\ UNCHANGED <<exists, pend>>

DiskNext ==
  \/ DiskCreate \/ DiskDelete \/ DiskRead \/ DiskIssue \/ DiskCommit
  \/ DiskAck \/ DiskReject \/ DiskForget \/ DiskForeign

DiskSpec == DiskInit /\ [][DiskNext]_diskVars
=============================================================================
