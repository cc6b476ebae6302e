------------------------------ MODULE NsLabels ------------------------------
(***************************************************************************)
(* Namespace labels.  Every DIMM of an interleave set has a label storage  *)
(* area (LSA): two index blocks, of which the one with the newer sequence  *)
(* number is current, and an array of label slots, of which the current    *)
(* index says which are free.  An AppDirect namespace is one label on each *)
(* DIMM of the set.  CreateNamespace inserts the labels with the Updating  *)
(* flag set, DIMM after DIMM, and then clears the flag, DIMM after DIMM;   *)
(* DeleteNamespace removes them; InitializeNamespaces assembles namespaces *)
(* from the labels it finds.                                               *)
(*                                                                         *)
(* An LSA is written by one large payload command, or, when the mailbox    *)
(* offers no large payload, by a series of 64 byte commands.  The power    *)
(* may fail between any two commands and a command may fail.               *)
(*                                                                         *)
(* Label version 1.2, the UEFI build, one interleave set.                  *)
(***************************************************************************)
EXTENDS Integers, FiniteSets, FiniteSetsExt

CONSTANTS
  NDimms,        \* number of DIMMs in the interleave set
  NLabels,       \* number of label slots of an LSA
  Uuids,         \* namespace GUIDs
  NoUuid,        \* the GUID field of a zeroed label
  LargePayload,  \* can an LSA be written by one command
  FaultKinds,    \* which commands fail: "read", "label", "write", "lost"
  MaxFaults,     \* how many of them do (bound)
  MaxCrashes     \* how often the power fails (bound)

Dimms == 1..NDimms
Slots == 0..(NLabels - 1)

ASSUME LabelConstants ==
  /\ NDimms \in Nat \ {0} /\ NLabels \in Nat \ {0}
  /\ LargePayload \in BOOLEAN
  /\ FaultKinds \subseteq {"read", "label", "write", "lost"}
  /\ MaxFaults \in Nat /\ MaxCrashes \in Nat
  /\ NoUuid \notin Uuids

VARIABLES
  lsa,      \* the label storage areas on the media
  status,   \* LsaStatus of every DIMM
  ns,       \* the namespaces the driver has listed
  pc,       \* what the driver is doing
  uuid,     \* the namespace being created or deleted
  cur,      \* the DIMM being worked on
  todo,     \* slots still to be modified, or DIMMs still to remove from
  removed,  \* RangesRemoved of DeleteNamespace
  img,      \* the LSA being written
  pos,      \* the next command of that write
  fate,     \* what was reported for each namespace
  faults, crashes

labelVars == <<lsa, status, ns, pc, uuid, cur, todo, removed, img, pos, fate, faults, crashes>>

-----------------------------------------------------------------------------
(* Label storage areas.  A checksum is represented by what it was computed *)
(* over, so that it matches exactly when nothing covered by it changed.    *)

ZeroIndex == [seq |-> 0, free |-> {}, sum |-> <<0, {}>>]
Index(seq, free) == [seq |-> seq, free |-> free, sum |-> <<seq, free>>]

\* meta stands for the flags, the slot number and the rest of the second 64 bytes.
Seal(u, meta, type) == [uuid |-> u, meta |-> meta, type |-> type, sum |-> <<u, meta, type>>]
ZeroLabel == Seal(NoUuid, [flags |-> "zero", slot |-> 0], FALSE)

Sealed(l) == l.sum = <<l.uuid, l.meta, l.type>>

ZeroLsa == [idx |-> [b \in 0..1 |-> ZeroIndex], lab |-> [s \in Slots |-> ZeroLabel]]

\* RawDataToLabelIndexArea takes an LSA whose first index block is zero for
\* an empty one.
Blank(l) == l.idx[0].seq = 0

IndexValid(i) == i.seq \in 1..3 /\ i.sum = <<i.seq, i.free>>

\* One valid index block is enough.
ValidateLsaData(l) == ~Blank(l) /\ \E b \in 0..1 : IndexValid(l.idx[b])

\* GetLsaIndexes looks at the sequence numbers only.
Current(l) ==
  LET first == l.idx[0].seq
      second == l.idx[1].seq
      seq == IF first + second = 4 THEN Min({first, second}) ELSE Max({first, second})
  IN  IF seq = second THEN 1 ELSE 0

Free(l) == l.idx[Current(l)].free
Used(l) == Slots \ Free(l)

\* With small payloads only the labels in used slots are read.
Loaded(l) ==
  IF LargePayload THEN l
  ELSE [l EXCEPT !.lab = [s \in Slots |-> IF s \in Used(l) THEN l.lab[s] ELSE ZeroLabel]]

\* A label that cannot be read is left zeroed in memory, and the failure is
\* forgotten.
LoadedBadly(l) ==
  IF LargePayload THEN {}
  ELSE {[Loaded(l) EXCEPT !.lab[s] = ZeroLabel] : s \in Used(l)}

\* Mutants: the sequence number does not wrap; the current block is overwritten.
UpdateWithoutWrap(l, free) ==
  [l EXCEPT !.idx[1 - Current(l)] = Index(l.idx[Current(l)].seq + 1, free)]
UpdateInPlace(l, free) ==
  [l EXCEPT !.idx[Current(l)] = Index((l.idx[Current(l)].seq % 3) + 1, free)]

\* The free map is copied to the index block that is not current, changed
\* there, and UpdateLsaIndex gives that block the next sequence number.
UpdateLsaIndex(l, free) ==
  [l EXCEPT !.idx[1 - Current(l)] = Index((l.idx[Current(l)].seq % 3) + 1, free)]

InitialLsa ==
  [ZeroLsa EXCEPT !.idx = [b \in 0..1 |-> Index(b + 1, Slots)]]

\* The checksum of the label is computed before its slot is known.
CreateNamespaceLabels(u) ==
  Seal(u, [flags |-> "updating", slot |-> 0], TRUE)

\* Mutant: the free slot is taken from the index block that is not current.
InsertedByOldMap(l, u) ==
  LET s == Min(l.idx[1 - Current(l)].free)
  IN  UpdateLsaIndex([l EXCEPT !.lab[s] = [CreateNamespaceLabels(u) EXCEPT !.meta.slot = s]],
                     Free(l) \ {s})

Inserted(l, u) ==
  LET s == Min(Free(l))
  IN  UpdateLsaIndex([l EXCEPT !.lab[s] = [CreateNamespaceLabels(u) EXCEPT !.meta.slot = s]],
                     Free(l) \ {s})

\* Mutant: the old copy of the label is kept.
ModifiedCopy(l, old) ==
  LET new == Min(Free(l))
  IN  UpdateLsaIndex(
        [l EXCEPT !.lab[new] = Seal(l.lab[old].uuid, [flags |-> "clear", slot |-> new],
                                    l.lab[old].type)],
        Free(l) \ {new})

\* ModifyLabelAtSlot moves the label to the first free slot; a label that was
\* read as zeros keeps its RawSize 0.
Modified(l, old) ==
  LET new == Min(Free(l))
      flags == IF l.lab[old].meta.flags = "zero" THEN "zero" ELSE "clear"
  IN  UpdateLsaIndex(
        [l EXCEPT !.lab[new] = Seal(l.lab[old].uuid, [flags |-> flags, slot |-> new], l.lab[old].type),
                  !.lab[old] = ZeroLabel],
        (Free(l) \ {new}) \cup {old})

Labelled(l, u) == {s \in Slots : l.lab[s].uuid = u}

\* Mutant: the free map is not copied from the current index block first.
RemovedFromOldMap(l, u) ==
  UpdateLsaIndex(
    [l EXCEPT !.lab = [s \in Slots |-> IF s \in Labelled(l, u) THEN ZeroLabel ELSE l.lab[s]]],
    l.idx[1 - Current(l)].free \cup Labelled(l, u))

Removed(l, u) ==
  UpdateLsaIndex(
    [l EXCEPT !.lab = [s \in Slots |-> IF s \in Labelled(l, u) THEN ZeroLabel ELSE l.lab[s]]],
    Free(l) \cup Labelled(l, u))

-----------------------------------------------------------------------------
(* The commands that write an LSA.                                         *)

Command(k, at) == [k |-> k, at |-> at]
Done == Command("done", 0)

FirstCommand == IF LargePayload THEN Command("all", 0) ELSE Command("head", 0)

\* Mutant: the slots to write are those of the index block that is not current.
WriteByOldMap(l, c) ==
  LET used == Slots \ l.idx[1 - Current(l)].free
      left == {s \in used : c.k = "sum" => s > c.at}
  IN  CASE c.k = "all"              -> Done
        [] c.k = "head"             -> Command("body", c.at)
        [] c.k = "body" /\ c.at = 0 -> Command("head", 1)
        [] c.k = "uuid"             -> Command("meta", c.at)
        [] c.k = "meta"             -> Command("type", c.at)
        [] c.k = "type"             -> Command("sum", c.at)
        [] OTHER -> IF left = {} THEN Done ELSE Command("uuid", Min(left))

\* What follows command c of the write of l: both index blocks are written
\* first, then every label in a used slot, 64 bytes at a time.
WriteLabelStorageArea(l, c) ==
  LET left == {s \in Used(l) : c.k = "sum" => s > c.at}
  IN  CASE c.k = "all"              -> Done
        [] c.k = "head"             -> Command("body", c.at)
        [] c.k = "body" /\ c.at = 0 -> Command("head", 1)
        [] c.k = "uuid"             -> Command("meta", c.at)
        [] c.k = "meta"             -> Command("type", c.at)
        [] c.k = "type"             -> Command("sum", c.at)
        [] OTHER -> IF left = {} THEN Done ELSE Command("uuid", Min(left))

\* The media m after command c of the write of l.
FwCmdSetPlatformConfigData(m, l, c) ==
  CASE c.k = "all"  -> l
    [] c.k = "head" -> [m EXCEPT !.idx[c.at].seq = l.idx[c.at].seq]
    [] c.k = "body" -> [m EXCEPT !.idx[c.at].free = l.idx[c.at].free,
                                 !.idx[c.at].sum = l.idx[c.at].sum]
    [] OTHER        -> [m EXCEPT !.lab[c.at][c.k] = l.lab[c.at][c.k]]

-----------------------------------------------------------------------------
(* Enumeration.                                                            *)

Absent == [st |-> "absent", ranges |-> {}]

\* A label whose second 64 bytes are zero has RawSize 0; one without a type
\* is taken for a block namespace label and fails that check.
ValidateNamespaceLabel(l) == l.meta.flags # "zero" /\ l.type

\* The slots in which GetAppDirectLabelByUUID finds u on a DIMM.
LabelSlots(m, u) == {s \in Used(m) : m.lab[s].uuid = u /\ m.lab[s].type}

\* Its answer is an error for an LSA that is not valid and for two labels.
LookupFails(m, u) ==
  ~Blank(m) /\ (~ValidateLsaData(m) \/ Cardinality(LabelSlots(m, u)) > 1)

\* Mutant: labels that differ in their flags are put together.
RangesOfAnyFlags(l) ==
  {d \in Dimms :
     /\ ValidateLsaData(lsa[d])
     /\ \E s \in LabelSlots(lsa[d], l.uuid) :
          LET l2 == lsa[d].lab[s]
          IN  ValidateNamespaceLabel(l2) /\ Sealed(l2)}

\* The DIMMs that contribute a range to the namespace of label l.
RangesOf(l) ==
  {d \in Dimms :
     /\ ValidateLsaData(lsa[d])
     /\ \E s \in LabelSlots(lsa[d], l.uuid) :
          LET l2 == lsa[d].lab[s]
          IN  l2.meta.flags = l.meta.flags /\ ValidateNamespaceLabel(l2) /\ Sealed(l2)}

Assemble(l) ==
  [st |-> IF RangesOf(l) = Dimms THEN "ok" ELSE "critical", ranges |-> RangesOf(l)]

\* The slots of DIMM d from which a namespace not yet listed is assembled.
NewSlots(d, list) ==
  {s \in Used(lsa[d]) :
     LET l == lsa[d].lab[s]
     IN  /\ l.uuid \in Uuids
         /\ list[l.uuid] = Absent
         /\ ValidateNamespaceLabel(l)
         /\ \A t \in Used(lsa[d]) : t < s =>
              ~(lsa[d].lab[t].uuid = l.uuid /\ ValidateNamespaceLabel(lsa[d].lab[t]))}

Unassembled(d, list) ==
  {s \in NewSlots(d, list) : \E e \in Dimms : LookupFails(lsa[e], lsa[d].lab[s].uuid)}

\* The first label that cannot be looked up ends the scan of the DIMM.
RetrieveNamespacesFromLsa(d, list) ==
  LET done == {s \in NewSlots(d, list) : \A t \in Unassembled(d, list) : s < t}
  IN  [u \in Uuids |->
         IF \E s \in done : lsa[d].lab[s].uuid = u
         THEN Assemble(lsa[d].lab[CHOOSE s \in done : lsa[d].lab[s].uuid = u])
         ELSE list[u]]

\* A status of not_init is only ever replaced when the LSA turns out corrupted.
NotInit(d, old) == Blank(lsa[d]) \/ (ValidateLsaData(lsa[d]) /\ old = "not_init")

\* DIMM after DIMM; list and old are what was listed and the status before.
\* The first DIMM whose scan reaches a label of a namespace lists it.  What it
\* lists changes no other namespace and no failure of a later DIMM: a label
\* that cannot be looked up is not listed by any DIMM.
InitializeNamespaces(list, old) ==
  LET scanned == {d \in Dimms : ~NotInit(d, old[d]) /\ ValidateLsaData(lsa[d])}
      lists(u) == {d \in scanned : RetrieveNamespacesFromLsa(d, list)[u] # list[u]}
  IN  [list |-> [u \in Uuids |->
         IF lists(u) = {} THEN list[u] ELSE RetrieveNamespacesFromLsa(Min(lists(u)), list)[u]],
       status |-> [d \in Dimms |->
         IF NotInit(d, old[d]) THEN "not_init"
         ELSE IF ~ValidateLsaData(lsa[d]) \/ Unassembled(d, list) # {}
         THEN "could_not_read_namespaces" ELSE "ok"]]

-----------------------------------------------------------------------------
LabelInit ==
  /\ lsa = [d \in Dimms |-> ZeroLsa]
  /\ status = [d \in Dimms |-> "ok"]
  /\ ns = [u \in Uuids |-> Absent]
  /\ pc = "off" /\ uuid = NoUuid /\ cur = 1 /\ todo = {} /\ removed = 0
  /\ img = ZeroLsa /\ pos = FirstCommand
  /\ fate = [u \in Uuids |-> "unborn"]
  /\ faults = 0 /\ crashes = 0

NoFault == UNCHANGED faults
Fault(kind) == kind \in FaultKinds /\ faults < MaxFaults /\ faults' = faults + 1

\* ReadLabelStorageArea of the current DIMM delivers l.
ReadLabelStorageArea(l) ==
  /\ ValidateLsaData(lsa[cur])
  /\ \/ l = Loaded(lsa[cur]) /\ NoFault
     \/ l \in LoadedBadly(lsa[cur]) /\ Fault("label")

\* It fails.
ReadFails ==
  \/ ~ValidateLsaData(lsa[cur]) /\ NoFault
  \/ Fault("read")

StartWrite(l, next) == img' = l /\ pos' = FirstCommand /\ pc' = next
NoWrite == UNCHANGED <<img, pos>>

Idle == pc' = "idle" /\ uuid' = NoUuid /\ cur' = 1 /\ todo' = {} /\ removed' = 0

\* The driver is loaded, or another request makes it list namespaces again,
\* with (clean) or without forgetting the ones it has.
Enumerate(clean) ==
  LET new == InitializeNamespaces(IF clean THEN [u \in Uuids |-> Absent] ELSE ns, status)
  IN  ns' = new.list /\ status' = new.status

DriverStart ==
  /\ pc = "off"
  /\ Enumerate(TRUE) /\ Idle
  /\ UNCHANGED <<lsa, img, pos, fate, faults, crashes>>

ReenumerateNamespacesAndISs(clean) ==
  /\ pc = "idle"
  /\ Enumerate(clean)
  /\ UNCHANGED <<lsa, pc, uuid, cur, todo, removed, img, pos, fate, faults, crashes>>

PowerFail ==
  /\ pc # "off" /\ crashes < MaxCrashes
  /\ crashes' = crashes + 1
  /\ pc' = "off" /\ uuid' = NoUuid /\ cur' = 1 /\ todo' = {} /\ removed' = 0
  /\ ns' = [u \in Uuids |-> Absent] /\ status' = [d \in Dimms |-> "ok"]
  /\ img' = ZeroLsa /\ pos' = FirstCommand
  /\ UNCHANGED <<lsa, fate, faults>>

-----------------------------------------------------------------------------
(* CreateNamespace.                                                        *)

\* The label version is read from every DIMM first; GUIDs are never reused.
CreateNamespace(u) ==
  /\ pc = "idle"
  /\ fate[u] = "unborn"
  /\ \A d \in Dimms : status[d] = "not_init" \/ Blank(lsa[d]) \/ ValidateLsaData(lsa[d])
  /\ pc' = "insert" /\ uuid' = u /\ cur' = 1
  /\ fate' = [fate EXCEPT ![u] = "creating"]
  /\ UNCHANGED <<lsa, status, ns, todo, removed, img, pos, faults, crashes>>

\* Mutant: the clean-up stops one DIMM too early.
InsertFailsShort ==
  /\ todo' = 1..(cur - 2)
  /\ pc' = "rollback"

\* InsertNamespaceLabels of DIMM cur has failed: the labels inserted so far
\* are removed, the one of DIMM cur is not.
InsertFails ==
  /\ todo' = 1..(cur - 1)
  /\ pc' = "rollback"

CouldNotInit == status' = [status EXCEPT ![cur] = "could_not_init"] /\ InsertFails

\* An LSA that was found empty is initialised first, unless it is not empty
\* any more.
InitializeLabelStorageArea ==
  /\ pc = "insert" /\ status[cur] = "not_init"
  /\ \/ /\ IF Blank(lsa[cur]) THEN StartWrite(InitialLsa, "init") /\ UNCHANGED <<status, todo>>
           ELSE IF ValidateLsaData(lsa[cur]) THEN pc' = "verify" /\ NoWrite /\ UNCHANGED <<status, todo>>
           ELSE CouldNotInit /\ NoWrite
        /\ NoFault
     \/ Fault("read") /\ CouldNotInit /\ NoWrite
  /\ UNCHANGED <<lsa, ns, uuid, cur, removed, fate, crashes>>

InitReturns(ok) ==
  /\ pc = "init"
  /\ IF ok THEN pc' = "verify" /\ UNCHANGED <<status, todo>>
     ELSE CouldNotInit
  /\ UNCHANGED <<ns, uuid, cur, removed, fate>>

\* It is then read back.
VerifyInit ==
  /\ pc = "verify"
  /\ \/ /\ \E l \in {Loaded(lsa[cur])} : ReadLabelStorageArea(l)
        /\ status' = [status EXCEPT ![cur] = "ok"]
        /\ pc' = "insert" /\ UNCHANGED todo
     \/ /\ ReadFails
        /\ status' = [status EXCEPT ![cur] = "corrupted_after_init"]
        /\ InsertFails
  /\ UNCHANGED <<lsa, ns, uuid, cur, removed, img, pos, fate, crashes>>

\* Mutant: the spare slot is not counted.
HasAnyRoom(l) == Cardinality(Free(l)) >= 1

\* After the insertion at least one free slot must remain.
HasRoom(l) == Cardinality(Free(l)) >= 2

InsertNamespaceLabels ==
  /\ pc = "insert" /\ status[cur] # "not_init"
  /\ \/ \E l \in {Loaded(lsa[cur])} \cup LoadedBadly(lsa[cur]) :
          /\ ReadLabelStorageArea(l)
          /\ IF HasRoom(l) THEN StartWrite(Inserted(l, uuid), "inserting") /\ UNCHANGED todo
             ELSE InsertFails /\ NoWrite
     \/ ReadFails /\ InsertFails /\ NoWrite
  /\ UNCHANGED <<lsa, status, ns, uuid, cur, removed, fate, crashes>>

InsertReturns(ok) ==
  /\ pc = "inserting"
  /\ IF ~ok THEN InsertFails /\ UNCHANGED cur
     ELSE /\ IF cur < NDimms THEN pc' = "insert" /\ cur' = cur + 1
             ELSE pc' = "modify" /\ cur' = 1
          /\ UNCHANGED todo
  /\ UNCHANGED <<status, ns, uuid, removed, fate>>

\* ModifyNamespaceLabels collects the slots of the namespace, used or not; it
\* answers success when there is no free slot to move them to.
ModifyNext ==
  IF cur < NDimms
  THEN /\ pc' = "modify" /\ cur' = cur + 1
       /\ todo' = {} /\ UNCHANGED <<ns, uuid, removed, fate>>
  ELSE /\ ns' = [ns EXCEPT ![uuid] = [st |-> "ok", ranges |-> Dimms]]
       /\ fate' = [fate EXCEPT ![uuid] = "created"]
       /\ Idle

\* NVM_ERR_NAMESPACE_CONFIGURATION_BROKEN: nothing is undone.
ModifyFails ==
  /\ fate' = [fate EXCEPT ![uuid] = "broken"]
  /\ Idle /\ UNCHANGED ns

ModifyNamespaceLabels ==
  /\ pc = "modify"
  /\ \/ \E l \in {Loaded(lsa[cur])} \cup LoadedBadly(lsa[cur]) :
          /\ ReadLabelStorageArea(l)
          /\ IF Free(l) = {} \/ Labelled(l, uuid) = {} THEN ModifyNext
             ELSE /\ todo' = Labelled(l, uuid)
                  /\ pc' = "modslot"
                  /\ UNCHANGED <<ns, uuid, cur, removed, fate>>
     \/ ReadFails /\ ModifyFails
  /\ UNCHANGED <<lsa, status, img, pos, crashes>>

\* The slots are modified one by one, reading the LSA again for each.
SlotDone ==
  IF todo = {Min(todo)} THEN ModifyNext
  ELSE /\ todo' = todo \ {Min(todo)}
       /\ pc' = "modslot"
       /\ UNCHANGED <<ns, uuid, cur, removed, fate>>

ModifyLabelAtSlot ==
  /\ pc = "modslot"
  /\ \/ \E l \in {Loaded(lsa[cur])} \cup LoadedBadly(lsa[cur]) :
          /\ ReadLabelStorageArea(l)
          /\ IF Free(l) = {} THEN SlotDone /\ NoWrite
             ELSE /\ StartWrite(Modified(l, Min(todo)), "modifying")
                  /\ UNCHANGED <<ns, uuid, cur, todo, removed, fate>>
     \/ ReadFails /\ ModifyFails /\ NoWrite
  /\ UNCHANGED <<lsa, status, crashes>>

ModifyReturns(ok) ==
  /\ pc = "modifying"
  /\ IF ok THEN SlotDone ELSE ModifyFails
  /\ UNCHANGED status

-----------------------------------------------------------------------------
(* RemoveNamespaceLabels, called by the clean-up of CreateNamespace, which *)
(* ignores its result, and by DeleteNamespace, which counts the successes. *)

RollbackEnds ==
  /\ pc = "rollback" /\ todo = {}
  /\ fate' = [fate EXCEPT ![uuid] = IF @ = "left" THEN @ ELSE "undone"]
  /\ Idle
  /\ UNCHANGED <<lsa, status, ns, img, pos, faults, crashes>>

\* Mutant: the loop over the ranges stops one too early.
DeleteSkipsLast(u) ==
  /\ pc = "idle"
  /\ ns[u] # Absent
  /\ pc' = "remove" /\ uuid' = u /\ todo' = ns[u].ranges \ {NDimms} /\ removed' = 0
  /\ fate' = [fate EXCEPT ![u] = "deleting"]
  /\ UNCHANGED <<lsa, status, ns, cur, img, pos, faults, crashes>>

DeleteNamespace(u) ==
  /\ pc = "idle"
  /\ ns[u] # Absent
  /\ pc' = "remove" /\ uuid' = u /\ todo' = ns[u].ranges /\ removed' = 0
  /\ fate' = [fate EXCEPT ![u] = "deleting"]
  /\ UNCHANGED <<lsa, status, ns, cur, img, pos, faults, crashes>>

\* fate remembers that a removal of the clean-up failed.
RemoveReturned(ok) ==
  /\ todo' = todo \ {cur}
  /\ removed' = IF ok /\ pc \in {"remove", "removing"} THEN removed + 1 ELSE removed
  /\ pc' = IF pc \in {"rollback", "undoing"} THEN "rollback" ELSE "remove"
  /\ fate' = IF pc' = "rollback" /\ ~ok THEN [fate EXCEPT ![uuid] = "left"] ELSE fate

RemoveNamespaceLabels ==
  /\ pc \in {"rollback", "remove"} /\ todo # {}
  /\ cur = Min(todo)
  /\ \/ \E l \in {Loaded(lsa[cur])} \cup LoadedBadly(lsa[cur]) :
          /\ ReadLabelStorageArea(l)
          /\ StartWrite(Removed(l, uuid), IF pc = "rollback" THEN "undoing" ELSE "removing")
          /\ UNCHANGED <<todo, removed, fate>>
     \/ ReadFails /\ RemoveReturned(FALSE) /\ NoWrite
  /\ UNCHANGED <<lsa, status, ns, uuid, cur, crashes>>

\* The loop goes on to the next DIMM.
NextDimm ==
  /\ pc \in {"rollback", "remove"} /\ todo # {}
  /\ cur # Min(todo)
  /\ cur' = Min(todo)
  /\ UNCHANGED <<lsa, status, ns, pc, uuid, todo, removed, img, pos, fate, faults, crashes>>

RemoveReturns(ok) ==
  /\ pc \in {"undoing", "removing"}
  /\ RemoveReturned(ok)
  /\ UNCHANGED <<status, ns, uuid, cur>>

\* No label removed: an error, and the namespace stays listed.  Some removed:
\* the namespaces are listed again, which frees the namespace structure, and
\* the code goes on to unlink the freed structure from lists; what the list
\* has lost then is not defined.  Success is reported all the same.
DeleteEnds ==
  /\ pc = "remove" /\ todo = {}
  /\ \/ /\ removed = 0
        /\ UNCHANGED <<status, ns, fate>>
     \/ /\ removed \in 1..(Cardinality(ns[uuid].ranges) - 1)
        /\ LET new == InitializeNamespaces([u \in Uuids |-> Absent], status)
           IN  /\ status' = new.status
               /\ \E lost \in SUBSET Uuids :
                    ns' = [u \in Uuids |-> IF u \in lost THEN Absent ELSE new.list[u]]
        /\ fate' = [fate EXCEPT ![uuid] = "deleted"]
     \/ /\ removed > 0 /\ removed = Cardinality(ns[uuid].ranges)
        /\ ns' = [ns EXCEPT ![uuid] = Absent]
        /\ fate' = [fate EXCEPT ![uuid] = "deleted"]
        /\ UNCHANGED status
  /\ Idle
  /\ UNCHANGED <<lsa, img, pos, faults, crashes>>

-----------------------------------------------------------------------------
Writing == {"init", "inserting", "modifying", "undoing", "removing"}

WriteReturns(ok) ==
  InitReturns(ok) \/ InsertReturns(ok) \/ ModifyReturns(ok) \/ RemoveReturns(ok)

Put == lsa' = [lsa EXCEPT ![cur] =
                 FwCmdSetPlatformConfigData(lsa[cur], img, pos)]

\* One command of the write succeeds.
WriteCommand ==
  /\ pc \in Writing
  /\ Put
  /\ IF WriteLabelStorageArea(img, pos) # Done
     THEN /\ pos' = WriteLabelStorageArea(img, pos)
          /\ UNCHANGED <<status, ns, pc, uuid, cur, todo, removed, img, fate>>
     ELSE /\ WriteReturns(TRUE)
          /\ img' = ZeroLsa /\ pos' = FirstCommand
  /\ UNCHANGED <<faults, crashes>>

\* It is refused, or it is carried out and its answer is lost.
WriteCommandFails ==
  /\ pc \in Writing
  /\ \/ Fault("write") /\ UNCHANGED lsa
     \/ Fault("lost") /\ Put
  /\ WriteReturns(FALSE)
  /\ img' = ZeroLsa /\ pos' = FirstCommand
  /\ UNCHANGED crashes

LabelNext ==
  \/ DriverStart \/ PowerFail
  \/ \E clean \in BOOLEAN : ReenumerateNamespacesAndISs(clean)
  \/ \E u \in Uuids : CreateNamespace(u) \/ DeleteNamespace(u)
  \/ InitializeLabelStorageArea \/ VerifyInit \/ InsertNamespaceLabels
  \/ ModifyNamespaceLabels \/ ModifyLabelAtSlot
  \/ RollbackEnds \/ RemoveNamespaceLabels \/ NextDimm \/ DeleteEnds
  \/ WriteCommand \/ WriteCommandFails

LabelSpec == LabelInit /\ [][LabelNext]_labelVars
-----------------------------------------------------------------------------
(* Properties.                                                             *)

IndexBlock == [seq : 0..3, free : SUBSET Slots, sum : (0..3) \X SUBSET Slots]
Meta == [flags : {"zero", "updating", "clear"}, slot : Slots]
GuidField == Uuids \cup {NoUuid}
Label == [uuid : GuidField, meta : Meta, type : BOOLEAN, sum : GuidField \X Meta \X BOOLEAN]
Lsa == [idx : [0..1 -> IndexBlock], lab : [Slots -> Label]]

Chunk == [k : {"all", "head", "body"}, at : 0..1]
           \cup [k : {"uuid", "meta", "type", "sum"}, at : Slots]

LsaStatus == {"ok", "not_init", "could_not_init", "corrupted_after_init",
              "could_not_read_namespaces"}
Namespace == [st : {"absent", "ok", "critical"}, ranges : SUBSET Dimms]
Fate == {"unborn", "creating", "created", "undone", "left", "broken", "deleting", "deleted"}

\* Every variable has its type.
LabelTypeOK ==
  /\ lsa \in [Dimms -> Lsa]
  /\ status \in [Dimms -> LsaStatus]
  /\ ns \in [Uuids -> Namespace]
  /\ pc \in {"off", "idle", "insert", "verify", "modify", "modslot", "rollback", "remove"}
            \cup Writing
  /\ uuid \in GuidField /\ cur \in Dimms /\ img \in Lsa /\ pos \in Chunk
  /\ todo \subseteq Slots \cup Dimms /\ removed \in 0..NDimms
  /\ fate \in [Uuids -> Fate]

\* The used slots of a DIMM that hold a label of u.
Holds(d, u) == IF Blank(lsa[d]) THEN {} ELSE Labelled(lsa[d], u) \cap Used(lsa[d])

\* When CreateNamespace has reported success, and until DeleteNamespace is
\* called, every DIMM has exactly one label of the namespace, with the
\* Updating flag cleared and a matching checksum, whatever other namespaces
\* are created, deleted or interrupted by a power failure meanwhile.
CreatedComplete ==
  \A u \in Uuids : fate[u] = "created" /\ pc \notin Writing =>
    \A d \in Dimms : \E s \in Slots :
      /\ Holds(d, u) = {s}
      /\ lsa[d].lab[s] = Seal(u, [flags |-> "clear", slot |-> s], TRUE)

\* Between commands no DIMM has two labels of a namespace in used slots;
\* otherwise GetAppDirectLabelByUUID fails and with it the enumeration.
UniqueLabel ==
  pc \notin Writing => \A d \in Dimms, u \in Uuids : Cardinality(Holds(d, u)) <= 1

\* An initialised LSA has a free slot, which ModifyNamespaceLabels needs.
FreeSlotRemains ==
  \A d \in Dimms : ValidateLsaData(lsa[d]) => Free(lsa[d]) # {}

\* A namespace that the driver lists as healthy and is not deleting has a
\* good label on every DIMM, all with the same flags.
HealthyComplete ==
  \A u \in Uuids : ns[u].st = "ok" /\ u # uuid /\ pc \notin Writing =>
    \E f \in {"updating", "clear"} : \A d \in Dimms :
      \E s \in Holds(d, u) : Sealed(lsa[d].lab[s]) /\ lsa[d].lab[s].meta.flags = f

\* A CreateNamespace that fails while it inserts labels leaves none behind,
\* when every removal of its clean-up succeeds.
UndoneClean ==
  \A u \in Uuids : fate[u] = "undone" => \A d \in Dimms : Holds(d, u) = {}

\* When DeleteNamespace has reported success no DIMM has a label of the
\* namespace in a used slot.
DeletedGone ==
  \A u \in Uuids : fate[u] = "deleted" /\ pc \notin Writing =>
    \A d \in Dimms : Holds(d, u) = {}

\* A valid index block is never overwritten while it is current: an LSA is
\* updated by writing the other block.
OldIndexKept ==
  [][\A d \in Dimms : ValidateLsaData(lsa[d]) /\ IndexValid(lsa[d].idx[Current(lsa[d])]) =>
       lsa'[d].idx[Current(lsa[d])] = lsa[d].idx[Current(lsa[d])]]_labelVars

\* A label of a namespace that is not being worked on is never changed or
\* lost: a step on behalf of one namespace leaves the others alone.
OthersKept ==
  [][\A d \in Dimms, u \in Uuids :
       u # uuid /\ fate[u] = "created" =>
         \A s \in Holds(d, u) : s \in Holds(d, u)' /\ lsa'[d].lab[s] = lsa[d].lab[s]]_labelVars
=============================================================================
