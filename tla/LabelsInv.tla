----------------------------- MODULE LabelsInv ------------------------------
(***************************************************************************)
(* The inductive invariants behind the properties of NsLabels.             *)
(***************************************************************************)
EXTENDS NsLabels

-----------------------------------------------------------------------------
(* Types, for every value of the constants.                                *)

Creating == {"insert", "init", "verify", "inserting", "modify", "modslot", "modifying"}
Undoing == {"rollback", "undoing"}
Removing == {"remove", "removing"}

\* What todo holds, and how far DeleteNamespace can count.
TodoOK ==
  /\ pc \in Undoing \cup Removing => todo \subseteq Dimms
  /\ pc \in {"undoing", "removing"} => cur \in todo
  /\ pc \in {"modslot", "modifying"} => todo \subseteq Slots /\ todo # {}
  /\ pc \in Removing => removed + Cardinality(todo) <= NDimms

\* The namespace being worked on, and what its fate says meanwhile.
RoleOK ==
  /\ pc \in {"off", "idle"} <=> uuid = NoUuid
  /\ pc \in Creating => fate[uuid] = "creating"
  /\ pc \in Undoing => fate[uuid] \in {"creating", "left"}
  /\ pc \in Removing => fate[uuid] = "deleting"

TypeInv == LabelTypeOK /\ TodoOK /\ RoleOK

-----------------------------------------------------------------------------
(* A label storage area that is written by one command is always blank or  *)
(* well formed.                                                            *)

Updating(u, s) == [CreateNamespaceLabels(u) EXCEPT !.meta.slot = s]
Cleared(u, s) == Seal(u, [flags |-> "clear", slot |-> s], TRUE)

\* Both index blocks are valid and differ in their sequence numbers, a slot
\* is free, free slots are zero, and a used slot has the only label of its
\* namespace.
Formed(l) ==
  /\ l \in Lsa
  /\ IndexValid(l.idx[0]) /\ IndexValid(l.idx[1])
  /\ l.idx[0].seq # l.idx[1].seq
  /\ Free(l) # {}
  /\ \A s \in Free(l) : l.lab[s] = ZeroLabel
  /\ \A s \in Used(l) : \E u \in Uuids : l.lab[s] = Updating(u, s) \/ l.lab[s] = Cleared(u, s)
  /\ \A s, t \in Used(l) : l.lab[s].uuid = l.lab[t].uuid => s = t

\* The label of u is there and its Updating flag is cleared.
Clear(l, u) == \E s \in Slots : Labelled(l, u) = {s} /\ l.lab[s] = Cleared(u, s)

Media == \A d \in Dimms : lsa[d] = ZeroLsa \/ Formed(lsa[d])

\* What is in memory was made from what is still on the media.
Buffer ==
  /\ pc = "init" => lsa[cur] = ZeroLsa /\ img = InitialLsa
  /\ pc = "inserting" => /\ Formed(lsa[cur]) /\ HasRoom(lsa[cur])
                         /\ img = Inserted(lsa[cur], uuid)
  /\ pc = "modslot" => \E s \in Slots : /\ todo = {s} /\ Formed(lsa[cur])
                                         /\ Labelled(lsa[cur], uuid) = {s}
  /\ pc = "modifying" => \E s \in Slots : /\ todo = {s} /\ Formed(lsa[cur])
                                           /\ Labelled(lsa[cur], uuid) = {s}
                                           /\ img = Modified(lsa[cur], s)
  /\ pc \in {"undoing", "removing"} => Formed(lsa[cur]) /\ img = Removed(lsa[cur], uuid)

\* A namespace has no label before it is created, and a complete set of them
\* from the time its creation is reported.
Standing ==
  \A u \in Uuids :
    /\ fate[u] = "unborn" => \A d \in Dimms : Labelled(lsa[d], u) = {}
    /\ fate[u] = "created" => \A d \in Dimms : Clear(lsa[d], u)

\* The labels are inserted DIMM after DIMM, and modified DIMM after DIMM.
Progress ==
  /\ pc \in {"insert", "init", "verify", "inserting"} =>
       \A d \in Dimms : Labelled(lsa[d], uuid) = {} <=> d >= cur
  /\ pc \in {"modify", "modslot", "modifying"} =>
       \A d \in Dimms : /\ Labelled(lsa[d], uuid) # {}
                        /\ d < cur => Clear(lsa[d], uuid)

LargeInv == Media /\ Buffer /\ Standing /\ Progress /\ pos = FirstCommand

-----------------------------------------------------------------------------
(* When no command fails after it was carried out.                         *)

\* A label of u on every DIMM, good and with the same flags.
Healthy(u) ==
  \E f \in {"updating", "clear"} : \A d \in Dimms :
    \E s \in Labelled(lsa[d], u) : Sealed(lsa[d].lab[s]) /\ lsa[d].lab[s].meta.flags = f

\* The clean-up has been at every DIMM that is not in todo.
RolledBack ==
  pc \in Undoing /\ fate[uuid] = "creating" =>
    \A d \in Dimms \ todo : Labelled(lsa[d], uuid) = {}

UndoneGone ==
  \A u \in Uuids : fate[u] = "undone" => \A d \in Dimms : Labelled(lsa[d], u) = {}

\* A namespace is not listed as healthy before its creation is complete.
NotListed == pc \in Creating \cup Undoing => ns[uuid].st # "ok"

\* The list says of a namespace that it is healthy only while it is, unless
\* its labels are just being removed.
ListedHealthy ==
  \A u \in Uuids :
    ns[u].st = "ok" => Healthy(u) \/ (u = uuid /\ pc \in Removing /\ removed > 0)

KnownInv == RolledBack /\ UndoneGone /\ NotListed /\ ListedHealthy

-----------------------------------------------------------------------------
(* As long as no command has failed and the power has not.                 *)

NoLabel(u) == \A d \in Dimms : Labelled(lsa[d], u) = {}

\* Only a namespace that was created or is being worked on has labels.
Accounted ==
  /\ \A u \in Uuids : fate[u] = "created" \/ u = uuid \/ NoLabel(u)
  /\ pc = "off" => \A u \in Uuids : NoLabel(u)

\* What is listed is whole.
ListedWhole ==
  \A u \in Uuids : ns[u] # Absent =>
    ns[u].ranges = Dimms /\ (fate[u] = "created" \/ (u = uuid /\ pc \in Removing))

\* Labels are left on the DIMMs in todo, and every removal is counted.
Removal ==
  /\ pc \in Undoing => fate[uuid] = "creating"
  /\ pc \in Undoing \cup Removing =>
       \A d \in Dimms : Labelled(lsa[d], uuid) = {} <=> d \notin todo
  /\ pc \in Removing => ns[uuid] # Absent /\ removed + Cardinality(todo) = NDimms

QuietInv == Accounted /\ ListedWhole /\ Removal

Quiet == faults = 0 /\ crashes = 0

CalmInv == faults \in Nat /\ crashes \in Nat /\ (Quiet => QuietInv)

\* The invariant behind the theorems: in every state a run of CreateNamespace,
\* DeleteNamespace and enumeration can reach with large payloads and no lost
\* answer, the media are in order, the copy being written is up to date, and
\* the list and the fates say what the labels do.
LabelInvariant == TypeInv /\ LargeInv /\ KnownInv /\ CalmInv
=============================================================================
