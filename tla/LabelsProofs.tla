---------------------------- MODULE LabelsProofs ----------------------------
(***************************************************************************)
(* Namespace labels: proofs for any number of DIMMs, slots and namespaces. *)
(***************************************************************************)
EXTENDS LabelsInv, FiniteSetTheorems, WellFoundedInduction, TLAPS

-----------------------------------------------------------------------------
(* Sets of slots and of DIMMs                                              *)

\* The first free slot, the first DIMM left: a set of natural numbers that is
\* not empty has a smallest element.
LEMMA MinIn ==
  ASSUME NEW S \in SUBSET Nat, S # {}
  PROVE  Min(S) \in S
<1>1. PICK n \in S : \A m \in S : ~(<<m, n>> \in OpToRel(<, Nat))
  BY Zenon, NatLessThanWellFounded, WFMin
<1>2. \A m \in S : n <= m
  <2>1. ASSUME NEW m \in S PROVE n <= m
    <3>1. n \in Nat /\ m \in Nat
      BY Zenon
    <3>2. ~(m < n)
      BY Zenon, <1>1, <3>1 DEF OpToRel
    <3>3. QED
      BY <3>1, <3>2
  <2>2. QED
    BY Zenon, <2>1
<1>3. QED
  BY Zenon, <1>2 DEF Min

LEMMA Ranges ==
  /\ NDimms \in Nat \ {0} /\ Dimms \in SUBSET Nat /\ IsFiniteSet(Dimms) /\ Cardinality(Dimms) = NDimms
  /\ NLabels \in Nat \ {0} /\ Slots \in SUBSET Nat /\ IsFiniteSet(Slots) /\ 0 \in Slots /\ 1 \in Dimms
<1>1. NDimms \in Nat \ {0} /\ NLabels \in Nat \ {0}
  BY LabelConstants
<1>2. IsFiniteSet(1..NDimms) /\ Cardinality(1..NDimms) = NDimms
  BY <1>1, FS_Interval
<1>3. IsFiniteSet(0..(NLabels - 1))
  BY <1>1, FS_Interval
<1>4. QED
  BY <1>1, <1>2, <1>3 DEF Dimms, Slots

-----------------------------------------------------------------------------
(* Types of the operators on label storage areas                           *)

LEMMA CurrentBlock ==
  ASSUME NEW l
  PROVE  Current(l) \in 0..1 /\ 1 - Current(l) \in 0..1 /\ 1 - Current(l) # Current(l)
BY DEF Current

LEMMA LsaParts ==
  ASSUME NEW l \in Lsa
  PROVE  /\ l.idx \in [0..1 -> IndexBlock] /\ l.lab \in [Slots -> Label]
         /\ Free(l) \subseteq Slots /\ Used(l) \subseteq Slots
<1>1. l.idx \in [0..1 -> IndexBlock] /\ l.lab \in [Slots -> Label]
  BY DEF Lsa
<1>2. l.idx[Current(l)] \in IndexBlock
  BY Zenon, <1>1, CurrentBlock
<1>3. Free(l) \subseteq Slots
  BY <1>2 DEF IndexBlock, Free
<1>4. QED
  BY Zenon, <1>1, <1>3 DEF Used

LEMMA IndexType ==
  ASSUME NEW seq \in 0..3, NEW free \in SUBSET Slots
  PROVE  Index(seq, free) \in IndexBlock
BY DEF Index, IndexBlock

LEMMA ZeroTypes ==
  /\ ZeroLabel \in Label /\ ZeroIndex \in IndexBlock /\ ZeroLsa \in Lsa
  /\ InitialLsa \in Lsa
<1>1. [flags |-> "zero", slot |-> 0] \in Meta /\ NoUuid \in GuidField
  BY Ranges DEF Meta, GuidField
<1>2. ZeroLabel \in Label
  BY Zenon, <1>1 DEF ZeroLabel, Seal, Label
<1>3. ZeroIndex \in IndexBlock
  BY DEF ZeroIndex, IndexBlock
<1>4. ZeroLsa \in Lsa
  BY <1>2, <1>3 DEF ZeroLsa, Lsa
<1>5. [b \in 0..1 |-> Index(b + 1, Slots)] \in [0..1 -> IndexBlock]
  BY IndexType
<1>6. InitialLsa \in Lsa
  BY <1>4, <1>5 DEF InitialLsa, Lsa
<1>7. QED
  BY Zenon, <1>2, <1>3, <1>4, <1>6

LEMMA UpdateType ==
  ASSUME NEW l \in Lsa, NEW free \in SUBSET Slots
  PROVE  UpdateLsaIndex(l, free) \in Lsa
<1>1. l.idx[Current(l)].seq \in 0..3
  <2>1. l.idx[Current(l)] \in IndexBlock
    BY Zenon, LsaParts, CurrentBlock
  <2>2. QED
    BY <2>1 DEF IndexBlock
<1>2. PICK seq \in 0..3 : seq = (l.idx[Current(l)].seq % 3) + 1
  BY <1>1
<1>3. PICK i \in IndexBlock : i = Index((l.idx[Current(l)].seq % 3) + 1, free)
  BY Zenon, <1>2, IndexType
<1>4. UpdateLsaIndex(l, free) = [l EXCEPT !.idx[1 - Current(l)] = i]
  BY Zenon, <1>3 DEF UpdateLsaIndex
<1>5. QED
  BY <1>4, CurrentBlock DEF Lsa

LEMMA SealType ==
  ASSUME NEW u \in GuidField, NEW meta \in Meta, NEW type \in BOOLEAN
  PROVE  Seal(u, meta, type) \in Label
BY DEF Seal, Label

LEMMA SetLabelType ==
  ASSUME NEW l \in Lsa, NEW s \in Slots, NEW x \in Label
  PROVE  [l EXCEPT !.lab[s] = x] \in Lsa
BY DEF Lsa

\* The label that InsertNamespaceLabels writes, and that label once
\* ModifyLabelAtSlot has cleared its Updating flag.
LEMMA LabelValues ==
  ASSUME NEW u, NEW s
  PROVE  /\ Updating(u, s) = [uuid |-> u, meta |-> [flags |-> "updating", slot |-> s], type |-> TRUE,
                              sum |-> <<u, [flags |-> "updating", slot |-> 0], TRUE>>]
         /\ Cleared(u, s) = [uuid |-> u, meta |-> [flags |-> "clear", slot |-> s], type |-> TRUE,
                             sum |-> <<u, [flags |-> "clear", slot |-> s], TRUE>>]
<1>1. \A b, k : [[uuid |-> u, meta |-> [flags |-> "updating", slot |-> 0], type |-> b, sum |-> k]
                  EXCEPT !.meta.slot = s] =
                [uuid |-> u, meta |-> [flags |-> "updating", slot |-> s], type |-> b, sum |-> k]
  OBVIOUS
<1>2. QED
  BY Zenon, <1>1 DEF Updating, Cleared, CreateNamespaceLabels, Seal

LEMMA LabelTypes ==
  ASSUME NEW u \in GuidField, NEW s \in Slots
  PROVE  Updating(u, s) \in Label /\ Cleared(u, s) \in Label
<1>1. /\ [flags |-> "updating", slot |-> s] \in Meta /\ [flags |-> "clear", slot |-> s] \in Meta
      /\ [flags |-> "updating", slot |-> 0] \in Meta
  BY Ranges DEF Meta
<1>2. /\ <<u, [flags |-> "updating", slot |-> 0], TRUE>> \in GuidField \X Meta \X BOOLEAN
      /\ <<u, [flags |-> "clear", slot |-> s], TRUE>> \in GuidField \X Meta \X BOOLEAN
  BY Zenon, <1>1
<1>3. [uuid |-> u, meta |-> [flags |-> "updating", slot |-> s], type |-> TRUE,
       sum |-> <<u, [flags |-> "updating", slot |-> 0], TRUE>>] \in Label
  BY <1>1, <1>2 DEF Label
<1>4. [uuid |-> u, meta |-> [flags |-> "clear", slot |-> s], type |-> TRUE,
       sum |-> <<u, [flags |-> "clear", slot |-> s], TRUE>>] \in Label
  BY <1>1, <1>2 DEF Label
<1>5. QED
  BY Zenon, <1>3, <1>4, LabelValues

LEMMA InsertedType ==
  ASSUME NEW l \in Lsa, NEW u \in GuidField, Free(l) # {}
  PROVE  Inserted(l, u) \in Lsa
<1>1. PICK s \in Slots : s = Min(Free(l)) /\ s \in Free(l)
  BY Zenon, LsaParts, MinIn, Ranges
<1>2. PICK m \in Lsa : m = [l EXCEPT !.lab[s] = Updating(u, s)]
  BY Zenon, LabelTypes, SetLabelType
<1>3. Inserted(l, u) = UpdateLsaIndex(m, Free(l) \ {s})
  BY Zenon, <1>1, <1>2 DEF Inserted, Updating
<1>4. QED
  BY Zenon, <1>3, LsaParts, UpdateType

LEMMA ModifiedType ==
  ASSUME NEW l \in Lsa, NEW old \in Slots, Free(l) # {}
  PROVE  Modified(l, old) \in Lsa
<1>1. PICK new \in Slots : new = Min(Free(l)) /\ new \in Free(l)
  BY Zenon, LsaParts, MinIn, Ranges
<1>2. PICK flags \in {"zero", "clear"} :
        flags = IF l.lab[old].meta.flags = "zero" THEN "zero" ELSE "clear"
  BY Zenon
<1>3. PICK meta \in Meta : meta = [flags |-> flags, slot |-> new]
  BY Zenon DEF Meta
<1>4. l.lab[old].uuid \in GuidField /\ l.lab[old].type \in BOOLEAN
  BY LsaParts DEF Label
<1>5. PICK m \in Lsa : m = [l EXCEPT !.lab[new] = Seal(l.lab[old].uuid, meta, l.lab[old].type)]
  BY Zenon, <1>4, SealType, SetLabelType
<1>6. PICK k \in Lsa : k = [m EXCEPT !.lab[old] = ZeroLabel]
  BY Zenon, ZeroTypes, SetLabelType
<1>7. Modified(l, old) = UpdateLsaIndex(k, (Free(l) \ {new}) \cup {old})
  BY Zenon, <1>1, <1>2, <1>3, <1>5, <1>6 DEF Modified
<1>8. (Free(l) \ {new}) \cup {old} \in SUBSET Slots
  BY Zenon, LsaParts
<1>9. QED
  BY Zenon, <1>7, <1>8, UpdateType

LEMMA RemovedType ==
  ASSUME NEW l \in Lsa, NEW u
  PROVE  Removed(l, u) \in Lsa
<1>1. PICK lab \in [Slots -> Label] :
        lab = [s \in Slots |-> IF s \in Labelled(l, u) THEN ZeroLabel ELSE l.lab[s]]
  BY Zenon, LsaParts, ZeroTypes
<1>2. PICK m \in Lsa : m = [l EXCEPT !.lab = lab]
  BY Zenon DEF Lsa
<1>3. Removed(l, u) = UpdateLsaIndex(m, Free(l) \cup Labelled(l, u))
  BY Zenon, <1>1, <1>2 DEF Removed
<1>4. Free(l) \cup Labelled(l, u) \in SUBSET Slots
  BY Zenon, LsaParts DEF Labelled
<1>5. QED
  BY Zenon, <1>3, <1>4, UpdateType

LEMMA LoadedType ==
  ASSUME NEW m \in Lsa, NEW l \in {Loaded(m)} \cup LoadedBadly(m)
  PROVE  l \in Lsa
<1>1. PICK lab \in [Slots -> Label] :
        lab = [s \in Slots |-> IF s \in Used(m) THEN m.lab[s] ELSE ZeroLabel]
  BY Zenon, LsaParts, ZeroTypes
<1>2. [m EXCEPT !.lab = lab] \in Lsa
  BY DEF Lsa
<1>3. Loaded(m) \in Lsa
  BY Zenon, <1>1, <1>2 DEF Loaded
<1>4. ASSUME l \in LoadedBadly(m) PROVE l \in Lsa
  <2>1. PICK s \in Slots : l = [Loaded(m) EXCEPT !.lab[s] = ZeroLabel]
    BY Zenon, <1>4, LsaParts DEF LoadedBadly
  <2>2. QED
    BY Zenon, <1>3, <2>1, ZeroTypes, SetLabelType
<1>5. QED
  BY Zenon, <1>3, <1>4

\* The media after any one command of a write.
LEMMA CommandType ==
  ASSUME NEW m \in Lsa, NEW l \in Lsa, NEW c \in Chunk
  PROVE  FwCmdSetPlatformConfigData(m, l, c) \in Lsa
<1>1. CASE c.k = "all"
  BY Zenon, <1>1 DEF FwCmdSetPlatformConfigData
<1>2. CASE c.k = "head"
  <2>1. c.at \in 0..1
    BY <1>2 DEF Chunk
  <2>2. PICK q \in 0..3 : q = l.idx[c.at].seq
    BY <2>1, LsaParts DEF IndexBlock
  <2>3. PICK i \in IndexBlock : i = [m.idx[c.at] EXCEPT !.seq = q]
    <3>1. m.idx[c.at] \in IndexBlock
      BY Zenon, <2>1, LsaParts
    <3>2. [m.idx[c.at] EXCEPT !.seq = q] \in IndexBlock
      BY <3>1 DEF IndexBlock
    <3>3. QED
      BY Zenon, <3>2
  <2>4. FwCmdSetPlatformConfigData(m, l, c) = [m EXCEPT !.idx[c.at].seq = q]
    BY Zenon, <1>2, <2>2 DEF FwCmdSetPlatformConfigData
  <2>5. [m EXCEPT !.idx[c.at].seq = q] = [m EXCEPT !.idx[c.at] = i]
    BY SMTT(30), <2>1, <2>3 DEF Lsa
  <2>6. QED
    BY <2>1, <2>4, <2>5 DEF Lsa
<1>3. CASE c.k = "body"
  <2>1. c.at \in 0..1
    BY <1>3 DEF Chunk
  <2>2. l.idx[c.at] \in IndexBlock /\ m.idx[c.at] \in IndexBlock
    BY Zenon, <2>1, LsaParts
  <2>3. PICK i \in IndexBlock : i = [m.idx[c.at] EXCEPT !.free = l.idx[c.at].free,
                                                       !.sum = l.idx[c.at].sum]
    BY Zenon, <2>2 DEF IndexBlock
  <2>4. FwCmdSetPlatformConfigData(m, l, c) =
          [m EXCEPT !.idx[c.at].free = l.idx[c.at].free, !.idx[c.at].sum = l.idx[c.at].sum]
    BY Zenon, <1>3 DEF FwCmdSetPlatformConfigData
  <2>5. [m EXCEPT !.idx[c.at].free = l.idx[c.at].free, !.idx[c.at].sum = l.idx[c.at].sum] =
          [m EXCEPT !.idx[c.at] = i]
    BY Zenon, <2>1, <2>3 DEF Lsa
  <2>6. QED
    BY <2>1, <2>4, <2>5 DEF Lsa
<1>4. CASE c.k \in {"uuid", "meta", "type", "sum"}
  <2>1. c.at \in Slots
    BY <1>4 DEF Chunk
  <2>2. l.lab[c.at] \in Label /\ m.lab[c.at] \in Label
    BY Zenon, <2>1, LsaParts
  <2>3. [m.lab[c.at] EXCEPT ![c.k] = l.lab[c.at][c.k]] \in Label
    <3>1. CASE c.k = "uuid"
      BY <3>1, <2>2 DEF Label
    <3>2. CASE c.k = "meta"
      BY <3>2, <2>2 DEF Label
    <3>3. CASE c.k = "type"
      BY <3>3, <2>2 DEF Label
    <3>4. CASE c.k = "sum"
      BY <3>4, <2>2 DEF Label
    <3>5. QED
      BY Zenon, <1>4, <3>1, <3>2, <3>3, <3>4
  <2>4. PICK x \in Label : x = [m.lab[c.at] EXCEPT ![c.k] = l.lab[c.at][c.k]]
    BY Zenon, <2>3
  <2>5. FwCmdSetPlatformConfigData(m, l, c) = [m EXCEPT !.lab[c.at][c.k] = l.lab[c.at][c.k]]
    BY <1>4 DEF FwCmdSetPlatformConfigData
  <2>6. [m EXCEPT !.lab[c.at][c.k] = l.lab[c.at][c.k]] = [m EXCEPT !.lab[c.at] = x]
    BY <2>1, <2>4 DEF Lsa
  <2>7. [m EXCEPT !.lab[c.at] = x] \in Lsa
    BY Zenon, <2>1, SetLabelType
  <2>8. QED
    BY Zenon, <2>5, <2>6, <2>7
<1>5. QED
  BY <1>1, <1>2, <1>3, <1>4 DEF Chunk

\* What follows a command is a command, until the write is done.
LEMMA NextCommandType ==
  ASSUME NEW l \in Lsa, NEW c \in Chunk, WriteLabelStorageArea(l, c) # Done
  PROVE  WriteLabelStorageArea(l, c) \in Chunk
<1> DEFINE left == {s \in Used(l) : c.k = "sum" => s > c.at}
<1>1. left # {} => Min(left) \in Slots
  <2>1. left \in SUBSET Slots
    BY Zenon, LsaParts
  <2> HIDE DEF left
  <2>2. QED
    BY Zenon, <2>1, MinIn, Ranges
<1>2. ASSUME NEW k \in {"head", "body"}, NEW b \in 0..1 PROVE Command(k, b) \in Chunk
  BY DEF Command, Chunk
<1>3. ASSUME NEW k \in {"uuid", "meta", "type", "sum"}, NEW s \in Slots PROVE Command(k, s) \in Chunk
  BY DEF Command, Chunk
<1>4. CASE c.k \in {"all", "head"} \/ (c.k = "body" /\ c.at = 0)
  <2>1. c.at \in 0..1
    BY <1>4 DEF Chunk
  <2>2. QED
    BY <1>2, <1>4, <2>1 DEF WriteLabelStorageArea
<1>5. CASE c.k \in {"uuid", "meta", "type"}
  <2>1. c.at \in Slots
    BY <1>5 DEF Chunk
  <2>2. QED
    BY <1>3, <1>5, <2>1 DEF WriteLabelStorageArea
<1>6. CASE c.k = "sum" \/ (c.k = "body" /\ c.at # 0)
  <2>1. WriteLabelStorageArea(l, c) = IF left = {} THEN Done ELSE Command("uuid", Min(left))
    BY <1>6 DEF WriteLabelStorageArea
  <2> HIDE DEF left
  <2>2. QED
    BY Zenon, <1>1, <1>3, <2>1
<1>7. QED
  BY <1>4, <1>5, <1>6 DEF Chunk

-----------------------------------------------------------------------------
(* Types of the enumeration                                                *)

LEMMA AssembleType ==
  ASSUME NEW l
  PROVE  Assemble(l) \in Namespace
<1>1. RangesOf(l) \in SUBSET Dimms
  BY Zenon DEF RangesOf
<1>2. QED
  BY <1>1 DEF Assemble, Namespace

LEMMA RetrieveType ==
  ASSUME NEW list \in [Uuids -> Namespace], NEW d, NEW u \in Uuids
  PROVE  RetrieveNamespacesFromLsa(d, list)[u] \in Namespace
BY Zenon, AssembleType DEF RetrieveNamespacesFromLsa

LEMMA EnumerationType ==
  ASSUME NEW list \in [Uuids -> Namespace], NEW old
  PROVE  /\ InitializeNamespaces(list, old).list \in [Uuids -> Namespace]
         /\ InitializeNamespaces(list, old).status \in [Dimms -> LsaStatus]
<1> DEFINE scanned == {d \in Dimms : ~NotInit(d, old[d]) /\ ValidateLsaData(lsa[d])}
           lists(u) == {d \in scanned : RetrieveNamespacesFromLsa(d, list)[u] # list[u]}
           first == [u \in Uuids |->
             IF lists(u) = {} THEN list[u] ELSE RetrieveNamespacesFromLsa(Min(lists(u)), list)[u]]
           state == [d \in Dimms |->
             IF NotInit(d, old[d]) THEN "not_init"
             ELSE IF ~ValidateLsaData(lsa[d]) \/ Unassembled(d, list) # {}
             THEN "could_not_read_namespaces" ELSE "ok"]
<1>1. first \in [Uuids -> Namespace]
  <2> HIDE DEF lists
  <2>1. QED
    BY Zenon, RetrieveType
<1>2. state \in [Dimms -> LsaStatus]
  BY Zenon DEF LsaStatus
<1>3. InitializeNamespaces(list, old) = [list |-> first, status |-> state]
  BY Zenon DEF InitializeNamespaces
<1>4. QED
  <2> HIDE DEF first, state
  <2>1. QED
    BY <1>1, <1>2, <1>3

LEMMA NothingListed ==
  /\ Absent \in Namespace
  /\ [u \in Uuids |-> Absent] \in [Uuids -> Namespace]
BY DEF Absent, Namespace

-----------------------------------------------------------------------------
(* Every variable has its type, whatever fails                             *)

LEMMA TypeInit == LabelInit => TypeInv
<1> SUFFICES ASSUME LabelInit PROVE TypeInv
  OBVIOUS
<1>1. /\ lsa \in [Dimms -> Lsa] /\ img \in Lsa /\ ns \in [Uuids -> Namespace]
  BY Zenon, ZeroTypes, NothingListed DEF LabelInit
<1>2. FirstCommand \in Chunk
  BY DEF FirstCommand, Command, Chunk
<1>3. /\ status \in [Dimms -> LsaStatus] /\ fate \in [Uuids -> Fate] /\ pos \in Chunk
      /\ uuid \in GuidField
  BY Zenon, <1>2 DEF LabelInit, LsaStatus, Fate, GuidField
<1>4. cur \in Dimms /\ todo \subseteq Slots \cup Dimms /\ removed \in 0..NDimms /\ pc = "off"
  BY Ranges DEF LabelInit
<1>5. LabelTypeOK
  BY Zenon, <1>1, <1>3, <1>4 DEF LabelTypeOK
<1>6. TodoOK /\ RoleOK
  BY <1>4 DEF TodoOK, RoleOK, LabelInit, Creating, Undoing, Removing
<1>7. QED
  BY Zenon, <1>5, <1>6 DEF TypeInv

LEMMA RoomType ==
  ASSUME NEW l, HasRoom(l)
  PROVE  Free(l) # {}
BY FS_EmptySet DEF HasRoom

\* All that a handler leaves behind but the LSAs, their status and the buffer.
DriverOK ==
  /\ ns \in [Uuids -> Namespace]
  /\ pc \in {"off", "idle", "insert", "verify", "modify", "modslot", "rollback", "remove"}
            \cup Writing
  /\ uuid \in GuidField /\ cur \in Dimms
  /\ todo \subseteq Slots \cup Dimms /\ removed \in 0..NDimms
  /\ fate \in [Uuids -> Fate]
  /\ TodoOK /\ RoleOK

LEMMA DriverStep ==
  ASSUME DriverOK', lsa' \in [Dimms -> Lsa], status' \in [Dimms -> LsaStatus], img' \in Lsa, pos' \in Chunk
  PROVE  TypeInv'
BY Zenon DEF DriverOK, TypeInv, LabelTypeOK

LEMMA ModifyPhase ==
  ASSUME TypeInv, pc \in {"modify", "modslot", "modifying"}
  PROVE  uuid \in Uuids /\ uuid # NoUuid /\ fate[uuid] = "creating"
BY LabelConstants DEF TypeInv, LabelTypeOK, GuidField, RoleOK, Creating

\* One step per handler; the calls they share come first.
LEMMA TypeStep ==
  ASSUME TypeInv, [LabelNext]_labelVars
  PROVE  TypeInv'
\* The end of every operation.
<1>IdleTypes.
  ASSUME pc' \in {"off", "idle"}, uuid' = NoUuid, cur' = 1, todo' = {}, removed' = 0
  PROVE  /\ uuid' \in GuidField /\ cur' \in Dimms /\ todo' \subseteq Slots \cup Dimms
         /\ removed' \in 0..NDimms
         /\ TodoOK' /\ RoleOK'
  <2> USE <1>IdleTypes
  <2>1. cur' \in Dimms /\ removed' \in 0..NDimms
    BY Ranges
  <2>2. TodoOK' /\ RoleOK'
    BY DEF TodoOK, RoleOK, Creating, Undoing, Removing
  <2>3. QED
    BY Zenon, <2>1, <2>2 DEF GuidField
<1>EnumerateType.
  ASSUME NEW clean, Enumerate(clean)
  PROVE  ns' \in [Uuids -> Namespace] /\ status' \in [Dimms -> LsaStatus]
  <2> USE <1>EnumerateType
  <2> DEFINE list == IF clean THEN [u \in Uuids |-> Absent] ELSE ns
  <2>1. list \in [Uuids -> Namespace]
    BY Zenon, NothingListed DEF TypeInv, LabelTypeOK
  <2>2. ns' = InitializeNamespaces(list, status).list /\ status' = InitializeNamespaces(list, status).status
    BY Zenon DEF Enumerate
  <2> HIDE DEF list
  <2>3. QED
    BY Zenon, <2>1, <2>2, EnumerationType
<1>DriverStartType.
  ASSUME DriverStart
  PROVE  TypeInv'
  <2> USE <1>DriverStartType
  <2>1. ns' \in [Uuids -> Namespace] /\ status' \in [Dimms -> LsaStatus]
    BY Zenon, <1>EnumerateType DEF DriverStart
  <2>2. pc' = "idle" /\ uuid' = NoUuid /\ cur' = 1 /\ todo' = {} /\ removed' = 0
    BY Zenon DEF DriverStart, Idle
  <2>3. lsa' = lsa /\ img' = img /\ pos' = pos /\ fate' = fate
    BY Zenon DEF DriverStart
  <2>4. QED
    BY Zenon, <2>1, <2>2, <2>3, <1>IdleTypes DEF TypeInv, LabelTypeOK
<1>ReenumerateType.
  ASSUME NEW clean, ReenumerateNamespacesAndISs(clean)
  PROVE  TypeInv'
  <2> USE <1>ReenumerateType
  <2>1. ns' \in [Uuids -> Namespace] /\ status' \in [Dimms -> LsaStatus]
    BY Zenon, <1>EnumerateType DEF ReenumerateNamespacesAndISs
  <2>2. /\ lsa' = lsa /\ img' = img /\ pos' = pos /\ fate' = fate /\ pc' = pc /\ uuid' = uuid
        /\ cur' = cur /\ todo' = todo /\ removed' = removed
    BY Zenon DEF ReenumerateNamespacesAndISs
  <2>3. QED
    BY Zenon, <2>1, <2>2 DEF TypeInv, LabelTypeOK, TodoOK, RoleOK
<1>PowerFailType.
  ASSUME PowerFail
  PROVE  TypeInv'
  <2> USE <1>PowerFailType
  <2>1. /\ ns' \in [Uuids -> Namespace] /\ status' \in [Dimms -> LsaStatus] /\ lsa' = lsa
        /\ fate' = fate /\ img' \in Lsa
    BY Zenon, NothingListed, ZeroTypes DEF PowerFail, LsaStatus
  <2>2. pc' = "off" /\ uuid' = NoUuid /\ cur' = 1 /\ todo' = {} /\ removed' = 0 /\ pos' \in Chunk
    BY DEF PowerFail, FirstCommand, Command, Chunk
  <2>3. QED
    BY Zenon, <2>1, <2>2, <1>IdleTypes DEF TypeInv, LabelTypeOK
\* An update of the fate of the namespace being worked on.
<1>FateType.
  ASSUME NEW u, NEW f \in Fate, fate' = [fate EXCEPT ![u] = f]
  PROVE  fate' \in [Uuids -> Fate] /\ (u \in Uuids => fate'[u] = f)
  BY Zenon, <1>FateType DEF TypeInv, LabelTypeOK
<1>CreateType.
  ASSUME NEW u \in Uuids, CreateNamespace(u)
  PROVE  TypeInv'
  <2> USE <1>CreateType
  <2>1. /\ fate' = [fate EXCEPT ![u] = "creating"] /\ "creating" \in Fate
    BY Zenon DEF CreateNamespace, Fate
  <2>2. /\ pc' = "insert" /\ uuid' = u /\ cur' = 1 /\ lsa' = lsa /\ status' = status /\ ns' = ns
        /\ todo' = todo /\ removed' = removed /\ img' = img /\ pos' = pos
    BY Zenon DEF CreateNamespace
  <2>3. fate' \in [Uuids -> Fate] /\ fate'[u] = "creating"
    BY Zenon, <2>1, <1>FateType
  <2>4. cur' \in Dimms /\ u \in GuidField /\ u # NoUuid
    BY Zenon, <2>2, Ranges, LabelConstants DEF GuidField
  <2>5. TodoOK' /\ RoleOK'
    BY <2>2, <2>3, <2>4 DEF TodoOK, RoleOK, Creating, Undoing, Removing
  <2>6. QED
    BY Zenon, <2>2, <2>3, <2>4, <2>5 DEF TypeInv, LabelTypeOK
<1>DeleteType.
  ASSUME NEW u \in Uuids, DeleteNamespace(u)
  PROVE  TypeInv'
  <2> USE <1>DeleteType
  <2>1. /\ fate' = [fate EXCEPT ![u] = "deleting"] /\ "deleting" \in Fate
    BY Zenon DEF DeleteNamespace, Fate
  <2>2. /\ pc' = "remove" /\ uuid' = u /\ cur' = cur /\ lsa' = lsa /\ status' = status /\ ns' = ns
        /\ todo' = ns[u].ranges /\ removed' = 0 /\ img' = img /\ pos' = pos
    BY Zenon DEF DeleteNamespace
  <2>3. fate' \in [Uuids -> Fate] /\ fate'[u] = "deleting"
    BY Zenon, <2>1, <1>FateType
  <2>4. ns[u].ranges \in SUBSET Dimms
    <3>1. ns[u] \in Namespace
      BY Zenon DEF TypeInv, LabelTypeOK
    <3>2. QED
      BY <3>1 DEF Namespace
  <2>5. Cardinality(todo') \in Nat /\ Cardinality(todo') <= NDimms
    BY <2>2, <2>4, Ranges, FS_Subset, FS_CardinalityType
  <2>6. u \in GuidField /\ u # NoUuid /\ removed' \in 0..NDimms
    BY SMTT(30), <2>2, Ranges, LabelConstants DEF GuidField
  <2>7. TodoOK' /\ RoleOK'
    BY SMTT(30), <2>2, <2>3, <2>4, <2>5, <2>6 DEF TodoOK, RoleOK, Creating, Undoing, Removing
  <2>8. QED
    BY Zenon, <2>2, <2>3, <2>4, <2>6, <2>7 DEF TypeInv, LabelTypeOK
\* The clean-up that follows a failed insertion.
<1>InsertFailsType.
  ASSUME pc \in {"insert", "init", "verify", "inserting"}, InsertFails,
         uuid' = uuid, fate' = fate
  PROVE  /\ pc' = "rollback" /\ todo' \subseteq Dimms
         /\ TodoOK' /\ RoleOK'
  <2> USE <1>InsertFailsType
  <2>1. pc' = "rollback" /\ todo' = 1..(cur - 1)
    BY Zenon DEF InsertFails
  <2>2. cur \in 1..NDimms /\ NDimms \in Nat
    BY Ranges DEF TypeInv, LabelTypeOK, Dimms
  <2>3. todo' \subseteq Dimms
    BY <2>1, <2>2 DEF Dimms
  <2>4. uuid # NoUuid /\ fate[uuid] = "creating"
    BY DEF TypeInv, RoleOK, Creating
  <2>5. TodoOK' /\ RoleOK'
    BY <2>1, <2>3, <2>4 DEF TodoOK, RoleOK, Creating, Undoing, Removing
  <2>6. QED
    BY Zenon, <2>1, <2>3, <2>5
\* A step of the insertion or of the first part of the modification.
<1>GoesOn.
  ASSUME pc \in {"insert", "init", "verify", "inserting"}, uuid' = uuid, fate' = fate,
         pc' \in {"insert", "init", "verify", "inserting", "modify"}
  PROVE  TodoOK' /\ RoleOK'
  <2> USE <1>GoesOn
  <2>1. uuid # NoUuid /\ fate[uuid] = "creating"
    BY DEF TypeInv, RoleOK, Creating
  <2>2. QED
    BY <2>1 DEF TodoOK, RoleOK, Creating, Undoing, Removing
<1>StatusType.
  ASSUME NEW x \in LsaStatus, status' = [status EXCEPT ![cur] = x]
  PROVE  status' \in [Dimms -> LsaStatus]
  BY Zenon, <1>StatusType DEF TypeInv, LabelTypeOK
<1>InitializeType.
  ASSUME InitializeLabelStorageArea
  PROVE  TypeInv'
  <2> USE <1>InitializeType
  <2>1. /\ pc = "insert" /\ lsa' = lsa /\ ns' = ns /\ uuid' = uuid /\ cur' = cur /\ removed' = removed
        /\ fate' = fate
    BY Zenon DEF InitializeLabelStorageArea
  <2>2. \/ StartWrite(InitialLsa, "init") /\ status' = status /\ todo' = todo
        \/ pc' = "verify" /\ NoWrite /\ status' = status /\ todo' = todo
        \/ CouldNotInit /\ NoWrite
    BY Zenon DEF InitializeLabelStorageArea
  <2>3. ASSUME StartWrite(InitialLsa, "init"), status' = status, todo' = todo PROVE TypeInv'
    <3>1. pc' = "init" /\ img' \in Lsa /\ pos' \in Chunk
      BY <2>3, ZeroTypes DEF StartWrite, FirstCommand, Command, Chunk
    <3>2. QED
      BY Zenon, <2>1, <2>3, <3>1, <1>GoesOn DEF TypeInv, LabelTypeOK, Writing
  <2>4. ASSUME pc' = "verify", NoWrite, status' = status, todo' = todo PROVE TypeInv'
    BY Zenon, <2>1, <2>4, <1>GoesOn DEF TypeInv, LabelTypeOK, NoWrite
  <2>5. ASSUME CouldNotInit, NoWrite PROVE TypeInv'
    <3>1. status' \in [Dimms -> LsaStatus]
      BY Zenon, <2>5, <1>StatusType DEF CouldNotInit, LsaStatus
    <3>2. /\ pc' = "rollback" /\ todo' \subseteq Dimms /\ TodoOK' /\ RoleOK'
      BY Zenon, <2>1, <2>5, <1>InsertFailsType DEF CouldNotInit
    <3>3. QED
      BY Zenon, <2>1, <2>5, <3>1, <3>2 DEF TypeInv, LabelTypeOK, NoWrite
  <2>6. QED
    BY Zenon, <2>2, <2>3, <2>4, <2>5
<1>VerifyType.
  ASSUME VerifyInit
  PROVE  TypeInv'
  <2> USE <1>VerifyType
  <2>1. /\ pc = "verify" /\ lsa' = lsa /\ ns' = ns /\ uuid' = uuid /\ cur' = cur /\ removed' = removed
        /\ fate' = fate /\ img' = img /\ pos' = pos
    BY Zenon DEF VerifyInit
  <2>2. \/ status' = [status EXCEPT ![cur] = "ok"] /\ pc' = "insert" /\ todo' = todo
        \/ status' = [status EXCEPT ![cur] = "corrupted_after_init"] /\ InsertFails
    BY Zenon DEF VerifyInit
  <2>3. status' \in [Dimms -> LsaStatus]
    BY Zenon, <2>2, <1>StatusType DEF LsaStatus
  <2>4. ASSUME pc' = "insert", todo' = todo PROVE TypeInv'
    BY Zenon, <2>1, <2>3, <2>4, <1>GoesOn DEF TypeInv, LabelTypeOK
  <2>5. ASSUME InsertFails PROVE TypeInv'
    <3>1. /\ pc' = "rollback" /\ todo' \subseteq Dimms /\ TodoOK' /\ RoleOK'
      BY Zenon, <2>1, <2>5, <1>InsertFailsType
    <3>2. QED
      BY Zenon, <2>1, <2>3, <3>1 DEF TypeInv, LabelTypeOK
  <2>6. QED
    BY Zenon, <2>2, <2>4, <2>5
\* What ReadLabelStorageArea delivers.
<1>ReadType.
  ASSUME NEW l \in {Loaded(lsa[cur])} \cup LoadedBadly(lsa[cur])
  PROVE  l \in Lsa
  BY Zenon, <1>ReadType, LoadedType DEF TypeInv, LabelTypeOK
<1>StartType.
  ASSUME NEW l \in Lsa, NEW next, StartWrite(l, next)
  PROVE  img' \in Lsa /\ pos' \in Chunk /\ pc' = next
  BY <1>StartType DEF StartWrite, FirstCommand, Command, Chunk
<1>InsertType.
  ASSUME InsertNamespaceLabels
  PROVE  TypeInv'
  <2> USE <1>InsertType
  <2>1. /\ pc = "insert" /\ lsa' = lsa /\ status' = status /\ ns' = ns /\ uuid' = uuid /\ cur' = cur
        /\ removed' = removed /\ fate' = fate
    BY Zenon DEF InsertNamespaceLabels
  <2>2. \/ \E l \in {Loaded(lsa[cur])} \cup LoadedBadly(lsa[cur]) :
             HasRoom(l) /\ StartWrite(Inserted(l, uuid), "inserting") /\ todo' = todo
        \/ InsertFails /\ NoWrite
    BY Zenon DEF InsertNamespaceLabels
  <2>3. ASSUME NEW l \in {Loaded(lsa[cur])} \cup LoadedBadly(lsa[cur]),
               HasRoom(l), StartWrite(Inserted(l, uuid), "inserting"), todo' = todo
        PROVE  TypeInv'
    <3>1. Inserted(l, uuid) \in Lsa
      BY Zenon, <2>3, <1>ReadType, RoomType, InsertedType DEF TypeInv, LabelTypeOK
    <3>2. pc' = "inserting" /\ img' \in Lsa /\ pos' \in Chunk
      BY Zenon, <2>3, <3>1, <1>StartType
    <3>3. QED
      BY Zenon, <2>1, <2>3, <3>2, <1>GoesOn DEF TypeInv, LabelTypeOK, Writing
  <2>4. ASSUME InsertFails, NoWrite PROVE TypeInv'
    <3>1. /\ pc' = "rollback" /\ todo' \subseteq Dimms /\ TodoOK' /\ RoleOK'
      BY Zenon, <2>1, <2>4, <1>InsertFailsType
    <3>2. QED
      BY Zenon, <2>1, <2>4, <3>1 DEF TypeInv, LabelTypeOK, NoWrite
  <2>5. QED
    BY Zenon, <2>2, <2>3, <2>4
<1>ModifyNextType.
  ASSUME pc \in {"modify", "modslot", "modifying"}, ModifyNext
  PROVE  DriverOK'
  <2> USE <1>ModifyNextType
  <2>1. uuid \in Uuids /\ uuid # NoUuid /\ fate[uuid] = "creating"
    BY Zenon, ModifyPhase
  <2>2. CASE cur < NDimms
    <3>1. /\ pc' = "modify" /\ cur' = cur + 1 /\ todo' = {} /\ ns' = ns /\ uuid' = uuid
          /\ removed' = removed /\ fate' = fate
      BY Zenon, <2>2 DEF ModifyNext
    <3>2. cur' \in Dimms
      BY <2>2, <3>1, Ranges DEF TypeInv, LabelTypeOK, Dimms
    <3>3. TodoOK' /\ RoleOK'
      BY <2>1, <3>1 DEF TodoOK, RoleOK, Creating, Undoing, Removing
    <3>4. QED
      BY Zenon, <3>1, <3>2, <3>3 DEF DriverOK, TypeInv, LabelTypeOK
  <2>3. CASE ~(cur < NDimms)
    <3>1. /\ ns' = [ns EXCEPT ![uuid] = [st |-> "ok", ranges |-> Dimms]]
          /\ fate' = [fate EXCEPT ![uuid] = "created"]
          /\ Idle
      BY Zenon, <2>3 DEF ModifyNext
    <3>2. ns' \in [Uuids -> Namespace]
      <4>1. PICK r \in Namespace : r = [st |-> "ok", ranges |-> Dimms]
        BY Zenon DEF Namespace
      <4>2. ns' = [ns EXCEPT ![uuid] = r]
        BY Zenon, <3>1, <4>1
      <4>3. QED
        BY Zenon, <4>2 DEF TypeInv, LabelTypeOK
    <3>3. fate' \in [Uuids -> Fate]
      BY Zenon, <3>1, <1>FateType DEF Fate
    <3>4. QED
      BY Zenon, <3>1, <3>2, <3>3, <1>IdleTypes DEF DriverOK, Idle
  <2>4. QED
    BY Zenon, <2>2, <2>3
<1>ModifyFailsType.
  ASSUME ModifyFails
  PROVE  DriverOK'
  <2> USE <1>ModifyFailsType
  <2>1. fate' = [fate EXCEPT ![uuid] = "broken"] /\ Idle /\ ns' = ns
    BY Zenon DEF ModifyFails
  <2>2. fate' \in [Uuids -> Fate]
    BY Zenon, <2>1, <1>FateType DEF Fate
  <2>3. QED
    BY Zenon, <2>1, <2>2, <1>IdleTypes DEF DriverOK, Idle, TypeInv, LabelTypeOK
\* The slots of the namespace that are still to be modified.
<1>ModifySlotType.
  ASSUME pc \in {"modify", "modslot", "modifying"}, pc' \in {"modslot", "modifying"},
         ns' = ns, uuid' = uuid, cur' = cur, removed' = removed, fate' = fate,
         todo' \subseteq Slots, todo' # {}
  PROVE  DriverOK'
  <2> USE <1>ModifySlotType
  <2>1. uuid \in Uuids /\ uuid # NoUuid /\ fate[uuid] = "creating"
    BY Zenon, ModifyPhase
  <2>2. TodoOK' /\ RoleOK'
    BY <2>1 DEF TodoOK, RoleOK, Creating, Undoing, Removing
  <2>3. QED
    BY Zenon, <2>2 DEF DriverOK, TypeInv, LabelTypeOK, Writing
<1>ModifyLabelsType.
  ASSUME ModifyNamespaceLabels
  PROVE  TypeInv'
  <2> USE <1>ModifyLabelsType
  <2>1. pc = "modify" /\ lsa' = lsa /\ status' = status /\ img' = img /\ pos' = pos
    BY Zenon DEF ModifyNamespaceLabels
  <2>2. \/ ModifyNext \/ ModifyFails
        \/ \E l \in {Loaded(lsa[cur])} \cup LoadedBadly(lsa[cur]) :
             /\ Labelled(l, uuid) # {} /\ todo' = Labelled(l, uuid) /\ pc' = "modslot"
             /\ ns' = ns /\ uuid' = uuid /\ cur' = cur /\ removed' = removed /\ fate' = fate
    BY Zenon DEF ModifyNamespaceLabels
  <2>3. ASSUME NEW l, Labelled(l, uuid) # {}, todo' = Labelled(l, uuid), pc' = "modslot",
               ns' = ns, uuid' = uuid, cur' = cur, removed' = removed, fate' = fate
        PROVE  DriverOK'
    <3>1. todo' \subseteq Slots
      BY Zenon, <2>3 DEF Labelled
    <3>2. QED
      BY Zenon, <2>1, <2>3, <3>1, <1>ModifySlotType
  <2>4. DriverOK'
    BY Zenon, <2>1, <2>2, <2>3, <1>ModifyNextType, <1>ModifyFailsType
  <2>5. QED
    BY Zenon, <2>1, <2>4, DriverStep DEF TypeInv, LabelTypeOK
<1>SlotDoneType.
  ASSUME pc \in {"modslot", "modifying"}, SlotDone
  PROVE  DriverOK'
  <2> USE <1>SlotDoneType
  <2>1. CASE todo = {Min(todo)}
    BY Zenon, <2>1, <1>ModifyNextType DEF SlotDone
  <2>2. CASE todo # {Min(todo)}
    <3>1. /\ todo' = todo \ {Min(todo)} /\ pc' = "modslot" /\ ns' = ns /\ uuid' = uuid /\ cur' = cur
          /\ removed' = removed /\ fate' = fate
      BY Zenon, <2>2 DEF SlotDone
    <3>2. todo \subseteq Slots /\ todo # {}
      BY Zenon DEF TypeInv, TodoOK
    <3>3. todo' # {}
      BY Zenon, <2>2, <3>1, <3>2
    <3>4. QED
      BY Zenon, <3>1, <3>2, <3>3, <1>ModifySlotType
  <2>3. QED
    BY Zenon, <2>1, <2>2
<1>ModifySlotWriteType.
  ASSUME ModifyLabelAtSlot
  PROVE  TypeInv'
  <2> USE <1>ModifySlotWriteType
  <2>1. pc = "modslot" /\ lsa' = lsa /\ status' = status
    BY Zenon DEF ModifyLabelAtSlot
  <2>2. \/ SlotDone /\ NoWrite
        \/ ModifyFails /\ NoWrite
        \/ \E l \in {Loaded(lsa[cur])} \cup LoadedBadly(lsa[cur]) :
             /\ Free(l) # {} /\ StartWrite(Modified(l, Min(todo)), "modifying")
             /\ ns' = ns /\ uuid' = uuid /\ cur' = cur /\ todo' = todo /\ removed' = removed /\ fate' = fate
    BY Zenon DEF ModifyLabelAtSlot
  <2>3. todo \subseteq Slots /\ todo # {} /\ Min(todo) \in Slots
    BY Zenon, <2>1, MinIn, Ranges DEF TypeInv, TodoOK
  <2>4. ASSUME NEW l \in {Loaded(lsa[cur])} \cup LoadedBadly(lsa[cur]), Free(l) # {},
               StartWrite(Modified(l, Min(todo)), "modifying"),
               ns' = ns, uuid' = uuid, cur' = cur, todo' = todo, removed' = removed, fate' = fate
        PROVE  TypeInv'
    <3>1. Modified(l, Min(todo)) \in Lsa
      BY Zenon, <2>3, <2>4, <1>ReadType, ModifiedType
    <3>2. pc' = "modifying" /\ img' \in Lsa /\ pos' \in Chunk
      BY Zenon, <2>4, <3>1, <1>StartType
    <3>3. DriverOK'
      BY Zenon, <2>1, <2>3, <2>4, <3>2, <1>ModifySlotType
    <3>4. QED
      BY Zenon, <2>1, <3>2, <3>3, DriverStep DEF TypeInv, LabelTypeOK
  <2>5. ASSUME NoWrite, SlotDone \/ ModifyFails PROVE TypeInv'
    <3>1. DriverOK'
      BY Zenon, <2>1, <2>5, <1>SlotDoneType, <1>ModifyFailsType
    <3>2. QED
      BY Zenon, <2>1, <2>5, <3>1, DriverStep DEF TypeInv, LabelTypeOK, NoWrite
  <2>6. QED
    BY Zenon, <2>2, <2>4, <2>5
<1>RollbackEndsType.
  ASSUME RollbackEnds
  PROVE  TypeInv'
  <2> USE <1>RollbackEndsType
  <2>1. /\ lsa' = lsa /\ status' = status /\ ns' = ns /\ img' = img /\ pos' = pos /\ Idle
        /\ fate' = [fate EXCEPT ![uuid] = IF @ = "left" THEN @ ELSE "undone"]
    BY Zenon DEF RollbackEnds
  <2>2. fate' = [fate EXCEPT ![uuid] = IF fate[uuid] = "left" THEN fate[uuid] ELSE "undone"]
    BY Zenon, <2>1
  <2>3. fate' \in [Uuids -> Fate]
    BY Zenon, <2>2, <1>FateType DEF Fate
  <2>4. DriverOK'
    BY Zenon, <2>1, <2>3, <1>IdleTypes DEF DriverOK, Idle, TypeInv, LabelTypeOK
  <2>5. QED
    BY Zenon, <2>1, <2>4, DriverStep DEF TypeInv, LabelTypeOK
\* RemoveNamespaceLabels of one DIMM has returned.
<1>RemoveReturnedType.
  ASSUME pc \in Undoing \cup Removing, cur \in todo, NEW ok \in BOOLEAN, RemoveReturned(ok),
         ns' = ns, uuid' = uuid, cur' = cur
  PROVE  DriverOK'
  <2> USE <1>RemoveReturnedType
  <2>1. /\ todo' = todo \ {cur}
        /\ removed' = IF ok /\ pc \in {"remove", "removing"} THEN removed + 1 ELSE removed
        /\ pc' = IF pc \in {"rollback", "undoing"} THEN "rollback" ELSE "remove"
        /\ fate' = IF pc' = "rollback" /\ ~ok THEN [fate EXCEPT ![uuid] = "left"] ELSE fate
    BY Zenon DEF RemoveReturned
  <2>2. todo \subseteq Dimms /\ uuid \in Uuids /\ uuid # NoUuid
    BY LabelConstants DEF TypeInv, LabelTypeOK, TodoOK, RoleOK, GuidField, Undoing, Removing
  <2>3. CASE pc \in Undoing
    <3>1. pc' = "rollback" /\ removed' = removed
      BY <2>1, <2>3 DEF Undoing
    <3>2. fate' \in [Uuids -> Fate] /\ fate'[uuid] \in {"creating", "left"}
      <4>1. fate[uuid] \in {"creating", "left"} /\ fate \in [Uuids -> Fate]
        BY Zenon, <2>3 DEF TypeInv, RoleOK, LabelTypeOK
      <4>2. CASE fate' = [fate EXCEPT ![uuid] = "left"]
        BY Zenon, <2>2, <4>2, <1>FateType DEF Fate
      <4>3. QED
        BY Zenon, <2>1, <4>1, <4>2
    <3>3. TodoOK' /\ RoleOK'
      BY <2>1, <2>2, <3>1, <3>2 DEF TodoOK, RoleOK, Creating, Undoing, Removing
    <3>4. QED
      BY ZenonT(60), <2>1, <2>2, <3>1, <3>2, <3>3 DEF DriverOK, TypeInv, LabelTypeOK
  <2>4. CASE pc \in Removing
    <3>1. pc' = "remove" /\ removed' \in {removed, removed + 1} /\ fate' = fate
      BY <2>1, <2>4 DEF Removing
    <3>2. removed + Cardinality(todo) <= NDimms /\ removed \in Nat /\ fate[uuid] = "deleting"
      BY <2>4 DEF TypeInv, TodoOK, RoleOK, LabelTypeOK
    <3>3. /\ IsFiniteSet(todo) /\ Cardinality(todo) \in Nat
          /\ Cardinality(todo') = Cardinality(todo) - 1 /\ Cardinality(todo') \in Nat
      BY Zenon, <2>1, <2>2, Ranges, FS_Subset, FS_RemoveElement, FS_CardinalityType
    <3>4. removed' + Cardinality(todo') <= NDimms /\ removed' \in 0..NDimms
      BY <3>1, <3>2, <3>3, Ranges
    <3>5. TodoOK' /\ RoleOK'
      BY <2>1, <2>2, <3>1, <3>2, <3>4 DEF TodoOK, RoleOK, Creating, Undoing, Removing
    <3>6. QED
      BY Zenon, <2>1, <2>2, <3>1, <3>4, <3>5 DEF DriverOK, TypeInv, LabelTypeOK
  <2>5. QED
    BY Zenon, <2>3, <2>4
<1>RemoveType.
  ASSUME RemoveNamespaceLabels
  PROVE  TypeInv'
  <2> USE <1>RemoveType
  <2>1. /\ pc \in {"rollback", "remove"} /\ todo # {} /\ cur = Min(todo)
        /\ lsa' = lsa /\ status' = status /\ ns' = ns /\ uuid' = uuid /\ cur' = cur
    BY Zenon DEF RemoveNamespaceLabels
  <2>2. \/ RemoveReturned(FALSE) /\ NoWrite
        \/ \E l \in {Loaded(lsa[cur])} \cup LoadedBadly(lsa[cur]) :
             /\ StartWrite(Removed(l, uuid), IF pc = "rollback" THEN "undoing" ELSE "removing")
             /\ todo' = todo /\ removed' = removed /\ fate' = fate
    BY Zenon DEF RemoveNamespaceLabels
  <2>3. pc \in Undoing \cup Removing /\ todo \subseteq Dimms /\ cur \in todo
    <3>1. pc \in Undoing \cup Removing
      BY Zenon, <2>1 DEF Undoing, Removing
    <3>2. todo \in SUBSET Dimms
      BY Zenon, <3>1 DEF TypeInv, TodoOK
    <3>3. QED
      BY Zenon, <2>1, <3>1, <3>2, MinIn, Ranges
  <2>4. ASSUME RemoveReturned(FALSE), NoWrite PROVE TypeInv'
    <3>1. DriverOK'
      BY Zenon, <2>1, <2>3, <2>4, <1>RemoveReturnedType
    <3>2. QED
      BY Zenon, <2>1, <2>4, <3>1, DriverStep DEF TypeInv, LabelTypeOK, NoWrite
  <2>5. ASSUME NEW l \in {Loaded(lsa[cur])} \cup LoadedBadly(lsa[cur]),
               StartWrite(Removed(l, uuid), IF pc = "rollback" THEN "undoing" ELSE "removing"),
               todo' = todo, removed' = removed, fate' = fate
        PROVE  TypeInv'
    <3>1. Removed(l, uuid) \in Lsa
      BY Zenon, <1>ReadType, RemovedType
    <3>2. pc' = (IF pc = "rollback" THEN "undoing" ELSE "removing") /\ img' \in Lsa /\ pos' \in Chunk
      BY Zenon, <2>5, <3>1, <1>StartType
    <3>3. TodoOK' /\ RoleOK'
      BY SMTT(30), <2>1, <2>3, <2>5, <3>2 DEF TypeInv, TodoOK, RoleOK, Creating, Undoing, Removing
    <3>4. QED
      BY Zenon, <2>1, <2>5, <3>2, <3>3 DEF TypeInv, LabelTypeOK, Writing
  <2>6. QED
    BY Zenon, <2>2, <2>4, <2>5
<1>NextDimmType.
  ASSUME NextDimm
  PROVE  TypeInv'
  <2> USE <1>NextDimmType
  <2>1. /\ pc \in {"rollback", "remove"} /\ todo # {} /\ cur' = Min(todo)
        /\ lsa' = lsa /\ status' = status /\ ns' = ns /\ pc' = pc /\ uuid' = uuid /\ todo' = todo
        /\ removed' = removed /\ img' = img /\ pos' = pos /\ fate' = fate
    BY Zenon DEF NextDimm
  <2>2. todo \in SUBSET Dimms
    BY Zenon, <2>1 DEF TypeInv, TodoOK, Undoing, Removing
  <2>3. cur' \in Dimms
    BY Zenon, <2>1, <2>2, MinIn, Ranges
  <2>4. TodoOK' /\ RoleOK'
    BY <2>1 DEF TypeInv, TodoOK, RoleOK, Creating, Undoing, Removing
  <2>5. QED
    BY ZenonT(60), <2>1, <2>3, <2>4 DEF TypeInv, LabelTypeOK
<1>DeleteEndsType.
  ASSUME DeleteEnds
  PROVE  TypeInv'
  <2> USE <1>DeleteEndsType
  <2>1. /\ lsa' = lsa /\ img' = img /\ pos' = pos /\ Idle
    BY Zenon DEF DeleteEnds
  <2> DEFINE new == InitializeNamespaces([u \in Uuids |-> Absent], status)
  <2>2. \/ status' = status /\ ns' = ns /\ fate' = fate
        \/ /\ status' = new.status
           /\ \E lost \in SUBSET Uuids :
                ns' = [u \in Uuids |-> IF u \in lost THEN Absent ELSE new.list[u]]
           /\ fate' = [fate EXCEPT ![uuid] = "deleted"]
        \/ /\ ns' = [ns EXCEPT ![uuid] = Absent] /\ fate' = [fate EXCEPT ![uuid] = "deleted"]
           /\ status' = status
    BY Zenon DEF DeleteEnds
  <2>3. new.list \in [Uuids -> Namespace] /\ new.status \in [Dimms -> LsaStatus]
    BY Zenon, NothingListed, EnumerationType
  <2> HIDE DEF new
  <2>4. fate' \in [Uuids -> Fate]
    BY Zenon, <2>2, <1>FateType DEF Fate, TypeInv, LabelTypeOK
  <2>5. status' \in [Dimms -> LsaStatus]
    BY Zenon, <2>2, <2>3 DEF TypeInv, LabelTypeOK
  <2>6. ns' \in [Uuids -> Namespace]
    <3>1. CASE ns' = [ns EXCEPT ![uuid] = Absent]
      BY Zenon, <3>1, NothingListed DEF TypeInv, LabelTypeOK
    <3>2. ASSUME NEW lost, ns' = [u \in Uuids |-> IF u \in lost THEN Absent ELSE new.list[u]]
          PROVE  ns' \in [Uuids -> Namespace]
      BY Zenon, <2>3, <3>2, NothingListed
    <3>3. QED
      BY Zenon, <2>2, <3>1, <3>2 DEF TypeInv, LabelTypeOK
  <2>7. DriverOK'
    BY Zenon, <2>1, <2>4, <2>6, <1>IdleTypes DEF DriverOK, Idle
  <2>8. QED
    BY Zenon, <2>1, <2>5, <2>7, DriverStep DEF TypeInv, LabelTypeOK
<1>WriteReturnsType.
  ASSUME NEW ok \in BOOLEAN, WriteReturns(ok)
  PROVE  DriverOK' /\ status' \in [Dimms -> LsaStatus]
  <2> USE <1>WriteReturnsType
  <2>1. ASSUME InitReturns(ok) PROVE DriverOK' /\ status' \in [Dimms -> LsaStatus]
    <3>1. /\ pc = "init" /\ ns' = ns /\ uuid' = uuid /\ cur' = cur /\ removed' = removed /\ fate' = fate
          /\ \/ pc' = "verify" /\ status' = status /\ todo' = todo
             \/ CouldNotInit
      BY Zenon, <2>1 DEF InitReturns
    <3>2. CASE pc' = "verify" /\ status' = status /\ todo' = todo
      BY Zenon, <3>1, <3>2, <1>GoesOn DEF DriverOK, TypeInv, LabelTypeOK
    <3>3. CASE CouldNotInit
      <4>1. status' \in [Dimms -> LsaStatus]
        BY Zenon, <3>3, <1>StatusType DEF CouldNotInit, LsaStatus
      <4>2. /\ pc' = "rollback" /\ todo' \subseteq Dimms /\ TodoOK' /\ RoleOK'
        BY Zenon, <3>1, <3>3, <1>InsertFailsType DEF CouldNotInit
      <4>3. QED
        BY Zenon, <3>1, <4>1, <4>2 DEF DriverOK, TypeInv, LabelTypeOK
    <3>4. QED
      BY Zenon, <3>1, <3>2, <3>3
  <2>2. ASSUME InsertReturns(ok) PROVE DriverOK' /\ status' \in [Dimms -> LsaStatus]
    <3>1. /\ pc = "inserting" /\ ns' = ns /\ uuid' = uuid /\ removed' = removed /\ fate' = fate
          /\ status' = status
          /\ \/ InsertFails /\ cur' = cur
             \/ cur < NDimms /\ pc' = "insert" /\ cur' = cur + 1 /\ todo' = todo
             \/ pc' = "modify" /\ cur' = 1 /\ todo' = todo
      BY Zenon, <2>2 DEF InsertReturns
    <3>2. CASE InsertFails /\ cur' = cur
      <4>1. /\ pc' = "rollback" /\ todo' \subseteq Dimms /\ TodoOK' /\ RoleOK'
        BY Zenon, <3>1, <3>2, <1>InsertFailsType
      <4>2. QED
        BY Zenon, <3>1, <3>2, <4>1 DEF DriverOK, TypeInv, LabelTypeOK
    <3>3. CASE cur' \in Dimms /\ pc' \in {"insert", "modify"} /\ todo' = todo
      BY Zenon, <3>1, <3>3, <1>GoesOn DEF DriverOK, TypeInv, LabelTypeOK
    <3>4. cur < NDimms => cur + 1 \in Dimms
      BY Ranges DEF TypeInv, LabelTypeOK, Dimms
    <3>5. QED
      BY Zenon, <3>1, <3>2, <3>3, <3>4, Ranges
  <2>3. ASSUME ModifyReturns(ok) PROVE DriverOK' /\ status' \in [Dimms -> LsaStatus]
    <3>1. pc = "modifying" /\ (SlotDone \/ ModifyFails) /\ status' = status
      BY Zenon, <2>3 DEF ModifyReturns
    <3>2. DriverOK'
      BY Zenon, <3>1, <1>SlotDoneType, <1>ModifyFailsType
    <3>3. QED
      BY Zenon, <3>1, <3>2 DEF TypeInv, LabelTypeOK
  <2>4. ASSUME RemoveReturns(ok) PROVE DriverOK' /\ status' \in [Dimms -> LsaStatus]
    <3>1. /\ pc \in {"undoing", "removing"} /\ RemoveReturned(ok) /\ status' = status /\ ns' = ns
          /\ uuid' = uuid /\ cur' = cur
      BY Zenon, <2>4 DEF RemoveReturns
    <3>2. pc \in Undoing \cup Removing /\ cur \in todo
      BY Zenon, <3>1 DEF TypeInv, TodoOK, Undoing, Removing
    <3>3. QED
      BY Zenon, <3>1, <3>2, <1>RemoveReturnedType DEF TypeInv, LabelTypeOK
  <2>5. QED
    BY Zenon, <2>1, <2>2, <2>3, <2>4 DEF WriteReturns
<1>PutType.
  ASSUME Put
  PROVE  lsa' \in [Dimms -> Lsa]
  <2> USE <1>PutType
  <2>1. PICK l \in Lsa : l = FwCmdSetPlatformConfigData(lsa[cur], img, pos)
    BY Zenon, CommandType DEF TypeInv, LabelTypeOK
  <2>2. lsa' = [lsa EXCEPT ![cur] = l]
    BY Zenon, <2>1 DEF Put
  <2>3. QED
    BY Zenon, <2>2 DEF TypeInv, LabelTypeOK
<1>NoBufferType.
  ASSUME img' = ZeroLsa, pos' = FirstCommand
  PROVE  img' \in Lsa /\ pos' \in Chunk
  BY <1>NoBufferType, ZeroTypes DEF FirstCommand, Command, Chunk
<1>WriteCommandType.
  ASSUME WriteCommand
  PROVE  TypeInv'
  <2> USE <1>WriteCommandType
  <2>1. lsa' \in [Dimms -> Lsa]
    BY Zenon, <1>PutType DEF WriteCommand
  <2>2. CASE WriteLabelStorageArea(img, pos) # Done
    <3>1. /\ pos' = WriteLabelStorageArea(img, pos) /\ status' = status /\ ns' = ns /\ pc' = pc
          /\ uuid' = uuid /\ cur' = cur /\ todo' = todo /\ removed' = removed /\ img' = img /\ fate' = fate
      BY Zenon, <2>2 DEF WriteCommand
    <3>2. pos' \in Chunk
      BY Zenon, <2>2, <3>1, NextCommandType DEF TypeInv, LabelTypeOK
    <3>3. QED
      BY Zenon, <2>1, <3>1, <3>2 DEF TypeInv, LabelTypeOK, TodoOK, RoleOK
  <2>3. CASE WriteLabelStorageArea(img, pos) = Done
    <3>1. WriteReturns(TRUE) /\ img' = ZeroLsa /\ pos' = FirstCommand
      BY Zenon, <2>3 DEF WriteCommand
    <3>2. QED
      BY Zenon, <2>1, <3>1, <1>WriteReturnsType, <1>NoBufferType, DriverStep
  <2>4. QED
    BY Zenon, <2>2, <2>3
<1>WriteFailsType.
  ASSUME WriteCommandFails
  PROVE  TypeInv'
  <2> USE <1>WriteFailsType
  <2>1. /\ lsa' = lsa \/ Put
        /\ WriteReturns(FALSE) /\ img' = ZeroLsa /\ pos' = FirstCommand
    BY Zenon DEF WriteCommandFails
  <2>2. lsa' \in [Dimms -> Lsa]
    BY Zenon, <2>1, <1>PutType DEF TypeInv, LabelTypeOK
  <2>3. QED
    BY Zenon, <2>1, <2>2, <1>WriteReturnsType, <1>NoBufferType, DriverStep
<1> SUFFICES ASSUME TypeInv, [LabelNext]_labelVars PROVE TypeInv'
  OBVIOUS
<1>1. CASE UNCHANGED labelVars
  BY ZenonT(60), <1>1 DEF labelVars, TypeInv, LabelTypeOK, TodoOK, RoleOK
<1>2. CASE LabelNext
  BY ZenonT(60), <1>2, <1>DriverStartType, <1>PowerFailType, <1>ReenumerateType, <1>CreateType, <1>DeleteType,
     <1>InitializeType, <1>VerifyType, <1>InsertType, <1>ModifyLabelsType, <1>ModifySlotWriteType,
     <1>RollbackEndsType, <1>RemoveType, <1>NextDimmType, <1>DeleteEndsType, <1>WriteCommandType, <1>WriteFailsType
     DEF LabelNext
<1>3. QED
  BY Zenon, <1>1, <1>2

\* The types of the driver's and the media's state, in both payload modes and
\* with every kind of fault.  It says that RangesRemoved of DeleteNamespace
\* never exceeds the number of DIMMs, that only slots are modified and only
\* DIMMs of the set are visited by the clean-up, and that sequence numbers of
\* index blocks stay below 4.
THEOREM LabelTyping == LabelSpec => []LabelTypeOK
<1>1. TypeInv => LabelTypeOK
  BY DEF TypeInv
<1>2. QED
  BY <1>1, TypeInit, TypeStep, PTL DEF LabelSpec

-----------------------------------------------------------------------------
(* The two index blocks                                                    *)

LEMMA PairExtremes ==
  ASSUME NEW a \in Int, NEW b \in Int
  PROVE  /\ Min({a, b}) = IF a <= b THEN a ELSE b
         /\ Max({a, b}) = IF a <= b THEN b ELSE a
<1>1. \E x \in {a, b} : \A y \in {a, b} : x <= y
  <2>1. a <= b \/ b <= a
    OBVIOUS
  <2>2. QED
    BY <2>1
<1>2. \E x \in {a, b} : \A y \in {a, b} : x >= y
  <2>1. a >= b \/ b >= a
    OBVIOUS
  <2>2. QED
    BY <2>1
<1>3. Min({a, b}) \in {a, b} /\ \A y \in {a, b} : Min({a, b}) <= y
  BY Zenon, <1>1 DEF Min
<1>4. Max({a, b}) \in {a, b} /\ \A y \in {a, b} : Max({a, b}) >= y
  BY Zenon, <1>2 DEF Max
<1>5. Min({a, b}) <= a /\ Min({a, b}) <= b /\ Max({a, b}) >= a /\ Max({a, b}) >= b
  BY Zenon, <1>3, <1>4
<1>6. PICK x, y : x = Min({a, b}) /\ y = Max({a, b})
  BY Zenon
<1>7. x \in {a, b} /\ x <= a /\ x <= b /\ y \in {a, b} /\ y >= a /\ y >= b
  BY Zenon, <1>3, <1>4, <1>5, <1>6
<1>8. x = (IF a <= b THEN a ELSE b) /\ y = (IF a <= b THEN b ELSE a)
  BY <1>7
<1>9. QED
  BY Zenon, <1>6, <1>8

\* The second block is current when its number follows that of the first.
LEMMA CurrentValue ==
  ASSUME NEW l, l.idx[0].seq \in 1..3, l.idx[1].seq \in 1..3, l.idx[0].seq # l.idx[1].seq
  PROVE  Current(l) = IF l.idx[1].seq = (l.idx[0].seq % 3) + 1 THEN 1 ELSE 0
<1>1. PICK a \in 1..3, b \in 1..3 : a = l.idx[0].seq /\ b = l.idx[1].seq
  BY Zenon
<1>2. PICK x : x = IF a + b = 4 THEN Min({a, b}) ELSE Max({a, b})
  BY Zenon
<1>3. Current(l) = IF x = b THEN 1 ELSE 0
  BY Zenon, <1>1, <1>2 DEF Current
<1>4. x = IF a + b = 4 THEN (IF a <= b THEN a ELSE b) ELSE (IF a <= b THEN b ELSE a)
  <2>1. a \in Int /\ b \in Int
    OBVIOUS
  <2>2. QED
    BY Zenon, <1>2, <2>1, PairExtremes
<1>5. a # b
  BY Zenon, <1>1
<1>6. x = b <=> b = (a % 3) + 1
  BY <1>4, <1>5
<1>7. QED
  BY Zenon, <1>1, <1>3, <1>6

\* Both blocks valid, and one newer than the other.
Ordered(l) ==
  /\ l \in Lsa
  /\ IndexValid(l.idx[0]) /\ IndexValid(l.idx[1])
  /\ l.idx[0].seq # l.idx[1].seq

\* An update writes the block that is not current, and makes it current.
LEMMA UpdateOrder ==
  ASSUME NEW l, Ordered(l), NEW m \in Lsa, m.idx = l.idx, NEW free \in SUBSET Slots,
         NEW r, r = UpdateLsaIndex(m, free)
  PROVE  /\ Ordered(r) /\ r.lab = m.lab /\ Free(r) = free
         /\ r.idx[Current(l)] = l.idx[Current(l)]
<1>1. /\ l.idx[0].seq \in 1..3 /\ l.idx[1].seq \in 1..3 /\ l.idx[0].seq # l.idx[1].seq
      /\ l \in Lsa
  BY Zenon DEF Ordered, IndexValid
<1>2. Current(m) = Current(l)
  BY Zenon DEF Current
<1>3. PICK c \in 0..1 : c = Current(l) /\ 1 - c \in 0..1 /\ 1 - c # c
  BY Zenon, CurrentBlock
<1>4. PICK q \in 1..3 : q = l.idx[c].seq
  BY <1>1
<1>5. (q % 3) + 1 \in 1..3 /\ (q % 3) + 1 # q
  OBVIOUS
<1>6. PICK i \in IndexBlock : i = Index((q % 3) + 1, free)
  BY <1>5, IndexType
<1>7. r \in Lsa
  BY Zenon, UpdateType
<1>8. r = [m EXCEPT !.idx[1 - c] = i]
  BY Zenon, <1>2, <1>3, <1>4, <1>6 DEF UpdateLsaIndex
<1>9. /\ r.lab = m.lab /\ r.idx[1 - c] = i /\ r.idx[c] = l.idx[c]
  BY <1>3, <1>7, <1>8 DEF Lsa
<1>10. i.seq = (q % 3) + 1 /\ i.free = free /\ IndexValid(i)
  BY <1>5, <1>6 DEF Index, IndexValid
<1>11. Ordered(r)
  <2>1. IndexValid(r.idx[c]) /\ IndexValid(r.idx[1 - c])
    <3>1. IndexValid(l.idx[c])
      BY <1>3 DEF Ordered
    <3>2. QED
      BY Zenon, <1>9, <1>10, <3>1
  <2>2. r.idx[c].seq # r.idx[1 - c].seq
    BY Zenon, <1>4, <1>5, <1>9, <1>10
  <2>3. CASE c = 0
    <3>1. 1 - c = 1
      BY <2>3
    <3>2. QED
      BY ZenonT(60), <1>7, <2>1, <2>2, <2>3, <3>1 DEF Ordered
  <2>4. CASE c = 1
    <3>1. 1 - c = 0
      BY <2>4
    <3>2. QED
      BY Zenon, <1>7, <2>1, <2>2, <2>4, <3>1 DEF Ordered
  <2>5. QED
    BY <2>3, <2>4
<1>12. Current(r) = 1 - c
  <2>1. /\ r.idx[0].seq \in 1..3 /\ r.idx[1].seq \in 1..3 /\ r.idx[0].seq # r.idx[1].seq
    BY Zenon, <1>11 DEF Ordered, IndexValid
  <2>2. Current(r) = IF r.idx[1].seq = (r.idx[0].seq % 3) + 1 THEN 1 ELSE 0
    BY Zenon, <2>1, CurrentValue
  <2>3. CASE c = 0
    <3>1. r.idx[1] = i /\ r.idx[0].seq = q
      BY <1>4, <1>9, <2>3
    <3>2. QED
      BY SMTT(30), <1>10, <2>2, <2>3, <3>1
  <2>4. CASE c = 1
    <3>1. r.idx[0] = i /\ r.idx[1].seq = q
      BY <1>4, <1>9, <2>4
    <3>2. q # (((q % 3) + 1) % 3) + 1
      OBVIOUS
    <3>3. QED
      BY SMTT(30), <1>10, <2>2, <2>4, <3>1, <3>2
  <2>5. QED
    BY <2>3, <2>4
<1>13. Free(r) = free
  BY Zenon, <1>9, <1>10, <1>12 DEF Free
<1>14. QED
  BY Zenon, <1>3, <1>9, <1>11, <1>13

-----------------------------------------------------------------------------
(* Well formed label storage areas                                         *)

LEMMA FormedRule ==
  ASSUME NEW l
  PROVE  Formed(l) <=>
           /\ Ordered(l)
           /\ Free(l) # {}
           /\ \A s \in Free(l) : l.lab[s] = ZeroLabel
           /\ \A s \in Used(l) : \E u \in Uuids :
                l.lab[s] = Updating(u, s) \/ l.lab[s] = Cleared(u, s)
           /\ \A s, t \in Used(l) : l.lab[s].uuid = l.lab[t].uuid => s = t
BY Zenon DEF Formed, Ordered

MetaOf(flags, slot) == [flags |-> flags, slot |-> slot]

LEMMA LabelFields ==
  ASSUME NEW u, NEW s
  PROVE  /\ Updating(u, s).uuid = u /\ Updating(u, s).meta = MetaOf("updating", s)
         /\ Updating(u, s).type = TRUE /\ Updating(u, s).sum = <<u, MetaOf("updating", 0), TRUE>>
         /\ Cleared(u, s).uuid = u /\ Cleared(u, s).meta = MetaOf("clear", s)
         /\ Cleared(u, s).type = TRUE /\ Cleared(u, s).sum = <<u, MetaOf("clear", s), TRUE>>
<1>1. PICK b, m, n, k, h :
        /\ b = TRUE /\ m = MetaOf("updating", s) /\ n = MetaOf("clear", s)
        /\ k = <<u, MetaOf("updating", 0), TRUE>> /\ h = <<u, MetaOf("clear", s), TRUE>>
  BY Zenon
<1>2. /\ Updating(u, s) = [uuid |-> u, meta |-> m, type |-> b, sum |-> k]
      /\ Cleared(u, s) = [uuid |-> u, meta |-> n, type |-> b, sum |-> h]
  BY Zenon, <1>1, LabelValues DEF MetaOf
<1>3. /\ Updating(u, s).uuid = u /\ Updating(u, s).meta = m /\ Updating(u, s).type = b
      /\ Updating(u, s).sum = k
      /\ Cleared(u, s).uuid = u /\ Cleared(u, s).meta = n /\ Cleared(u, s).type = b
      /\ Cleared(u, s).sum = h
  BY <1>2
<1>4. QED
  BY Zenon, <1>1, <1>3

LEMMA LabelUuids ==
  /\ ZeroLabel.uuid = NoUuid
  /\ \A u, s : Updating(u, s).uuid = u /\ Cleared(u, s).uuid = u
<1>1. ZeroLabel.uuid = NoUuid
  BY DEF ZeroLabel, Seal
<1>2. ASSUME NEW u, NEW s PROVE Updating(u, s).uuid = u /\ Cleared(u, s).uuid = u
  BY Zenon, LabelFields
<1>3. QED
  BY Zenon, <1>1, <1>2

LEMMA LabelFlags ==
  /\ \A u, s : Updating(u, s).type = TRUE /\ Cleared(u, s).type = TRUE
  /\ \A u, s : Updating(u, s).meta.flags = "updating" /\ Cleared(u, s).meta.flags = "clear"
<1>1. ASSUME NEW u, NEW s
      PROVE  Updating(u, s).meta.flags = "updating" /\ Cleared(u, s).meta.flags = "clear"
  <2>1. Updating(u, s).meta = MetaOf("updating", s) /\ Cleared(u, s).meta = MetaOf("clear", s)
    BY ZenonT(60), LabelFields
  <2>2. QED
    BY <2>1 DEF MetaOf
<1>2. ASSUME NEW u, NEW s PROVE Updating(u, s).type = TRUE /\ Cleared(u, s).type = TRUE
  BY Zenon, LabelFields
<1>3. QED
  BY Zenon, <1>1, <1>2

LEMMA ClearedSealed ==
  ASSUME NEW u, NEW s
  PROVE  Sealed(Cleared(u, s))
<1>1. \A m, b : Sealed(Seal(u, m, b))
  BY DEF Seal, Sealed
<1>2. QED
  BY Zenon, <1>1 DEF Cleared

\* A label is in a used slot, and it is the only one of its namespace.
LEMMA FormedLabels ==
  ASSUME NEW l, Formed(l), NEW u \in Uuids
  PROVE  /\ Labelled(l, u) \subseteq Used(l)
         /\ \A s, t \in Labelled(l, u) : s = t
         /\ Labelled(l, u) = {} \/ \E s \in Slots : Labelled(l, u) = {s}
         /\ \A s \in Labelled(l, u) : l.lab[s] = Updating(u, s) \/ l.lab[s] = Cleared(u, s)
<1>1. /\ \A s \in Free(l) : l.lab[s] = ZeroLabel
      /\ \A s \in Used(l) : \E v \in Uuids : l.lab[s] = Updating(v, s) \/ l.lab[s] = Cleared(v, s)
      /\ \A s, t \in Used(l) : l.lab[s].uuid = l.lab[t].uuid => s = t
  BY Zenon DEF Formed
<1>2. u # NoUuid
  BY Zenon, LabelConstants
<1>3. ASSUME NEW s \in Labelled(l, u) PROVE s \in Used(l) /\ s \in Slots /\ l.lab[s].uuid = u
  <2>1. s \in Slots /\ l.lab[s].uuid = u
    BY Zenon DEF Labelled
  <2>2. s \notin Free(l)
    BY Zenon, <1>1, <1>2, <2>1, LabelUuids
  <2>3. QED
    BY Zenon, <2>1, <2>2 DEF Used
<1>4. \A s, t \in Labelled(l, u) : s = t
  BY Zenon, <1>1, <1>3
<1>5. Labelled(l, u) = {} \/ \E s \in Slots : Labelled(l, u) = {s}
  BY Zenon, <1>3, <1>4
<1>6. ASSUME NEW s \in Labelled(l, u)
      PROVE  l.lab[s] = Updating(u, s) \/ l.lab[s] = Cleared(u, s)
  <2>1. PICK v \in Uuids : l.lab[s] = Updating(v, s) \/ l.lab[s] = Cleared(v, s)
    BY Zenon, <1>1, <1>3
  <2>2. l.lab[s].uuid = v
    <3>1. CASE l.lab[s] = Updating(v, s)
      BY Zenon, <3>1, LabelUuids
    <3>2. CASE l.lab[s] = Cleared(v, s)
      BY Zenon, <3>2, LabelUuids
    <3>3. QED
      BY Zenon, <2>1, <3>1, <3>2
  <2>3. QED
    BY Zenon, <1>3, <2>1, <2>2
<1>7. QED
  BY Zenon, <1>3, <1>4, <1>5, <1>6

LEMMA FormedReads ==
  ASSUME NEW l, Formed(l)
  PROVE  ~Blank(l) /\ ValidateLsaData(l)
<1>1. IndexValid(l.idx[0])
  BY Zenon DEF Formed
<1>2. l.idx[0].seq # 0
  BY <1>1 DEF IndexValid
<1>3. QED
  BY <1>1, <1>2 DEF Blank, ValidateLsaData

LEMMA ZeroReads ==
  /\ Blank(ZeroLsa) /\ ~ValidateLsaData(ZeroLsa)
  /\ \A u \in Uuids : Labelled(ZeroLsa, u) = {}
<1>1. Blank(ZeroLsa)
  BY DEF Blank, ZeroLsa, ZeroIndex
<1>2. \A s \in Slots : ZeroLsa.lab[s] = ZeroLabel
  BY DEF ZeroLsa
<1>3. ASSUME NEW u \in Uuids PROVE Labelled(ZeroLsa, u) = {}
  BY Zenon, <1>2, LabelUuids, LabelConstants DEF Labelled
<1>4. QED
  BY Zenon, <1>1, <1>3 DEF ValidateLsaData

LEMMA InitialFormed ==
  Formed(InitialLsa) /\ \A u \in Uuids : Labelled(InitialLsa, u) = {}
<1>1. /\ InitialLsa.idx = [b \in 0..1 |-> Index(b + 1, Slots)]
      /\ InitialLsa.lab = [s \in Slots |-> ZeroLabel]
  BY DEF InitialLsa, ZeroLsa
<1>2. InitialLsa.idx[0] = Index(1, Slots) /\ InitialLsa.idx[1] = Index(2, Slots)
  BY <1>1
<1>3. /\ IndexValid(Index(1, Slots)) /\ IndexValid(Index(2, Slots))
      /\ Index(1, Slots).seq = 1 /\ Index(2, Slots).seq = 2
      /\ Index(1, Slots).free = Slots /\ Index(2, Slots).free = Slots
  BY DEF Index, IndexValid
<1>4. Ordered(InitialLsa)
  BY <1>2, <1>3, ZeroTypes DEF Ordered
<1>5. Free(InitialLsa) = Slots
  <2>1. Current(InitialLsa) = 0 \/ Current(InitialLsa) = 1
    BY CurrentBlock
  <2>2. QED
    BY Zenon, <1>2, <1>3, <2>1 DEF Free
<1>6. Slots # {} /\ Used(InitialLsa) = {}
  BY Zenon, <1>5, Ranges DEF Used
<1>7. \A s \in Slots : InitialLsa.lab[s] = ZeroLabel
  BY Zenon, <1>1
<1>8. Formed(InitialLsa)
  BY Zenon, <1>4, <1>5, <1>6, <1>7, FormedRule
<1>9. ASSUME NEW u \in Uuids PROVE Labelled(InitialLsa, u) = {}
  BY Zenon, <1>7, LabelUuids, LabelConstants DEF Labelled
<1>10. QED
  BY Zenon, <1>8, <1>9

\* What an update on behalf of u leaves alone: the labels of the others and
\* the index block that was current.
Keeps(l, m, u) ==
  /\ \A v \in Uuids \ {u} : Labelled(m, v) = Labelled(l, v)
  /\ \A v \in Uuids \ {u} : \A s \in Labelled(l, v) : m.lab[s] = l.lab[s]
  /\ m.idx[Current(l)] = l.idx[Current(l)]

\* The label of u, if any, moves from the slots of old to the slots of new.
LEMMA Relabelled ==
  ASSUME NEW l, Formed(l), NEW u \in Uuids, NEW r \in Lsa, NEW old \in SUBSET Slots,
         NEW new \in SUBSET Slots,
         \A s \in old : l.lab[s].uuid \notin Uuids \ {u},
         \A s \in new : l.lab[s].uuid \notin Uuids \ {u},
         \A s \in old : r.lab[s].uuid \notin Uuids \ {u},
         \A s \in new : r.lab[s].uuid \notin Uuids \ {u},
         \A s \in Slots \ (old \cup new) : r.lab[s] = l.lab[s],
         r.idx[Current(l)] = l.idx[Current(l)]
  PROVE  Keeps(l, r, u)
<1>1. ASSUME NEW v \in Uuids \ {u}, NEW s \in Slots
      PROVE  /\ l.lab[s].uuid = v <=> r.lab[s].uuid = v
             /\ l.lab[s].uuid = v => r.lab[s] = l.lab[s]
  BY Zenon
<1>2. QED
  BY Zenon, <1>1 DEF Keeps, Labelled

LEMMA InsertedFormed ==
  ASSUME NEW l, Formed(l), HasRoom(l), NEW u \in Uuids, Labelled(l, u) = {}
  PROVE  LET r == Inserted(l, u)
         IN  Formed(r) /\ Keeps(l, r, u) /\ Labelled(r, u) # {}
<1>1. /\ l \in Lsa /\ Ordered(l) /\ Free(l) \subseteq Slots /\ u # NoUuid
      /\ \A t \in Free(l) : l.lab[t] = ZeroLabel
      /\ \A t \in Used(l) : \E v \in Uuids : l.lab[t] = Updating(v, t) \/ l.lab[t] = Cleared(v, t)
      /\ \A t, k \in Used(l) : l.lab[t].uuid = l.lab[k].uuid => t = k
  BY Zenon, FormedRule, LsaParts, LabelConstants DEF Ordered
<1>2. PICK s \in Free(l) : s = Min(Free(l))
  BY Zenon, <1>1, RoomType, MinIn, Ranges
<1>3. PICK x \in Label : x = Updating(u, s)
  BY Zenon, <1>1, LabelTypes DEF GuidField
<1>4. PICK m \in Lsa : m = [l EXCEPT !.lab[s] = x]
  BY Zenon, <1>1, SetLabelType
<1>5. m.idx = l.idx /\ m.lab[s] = x /\ \A t \in Slots : t # s => m.lab[t] = l.lab[t]
  BY <1>1, <1>4 DEF Lsa
<1>6. PICK r : r = UpdateLsaIndex(m, Free(l) \ {s})
  BY Zenon
<1>7. r = Inserted(l, u)
  BY Zenon, <1>2, <1>3, <1>4, <1>6 DEF Inserted, Updating
<1>8. /\ Ordered(r) /\ r.lab = m.lab /\ Free(r) = Free(l) \ {s}
      /\ r.idx[Current(l)] = l.idx[Current(l)] /\ r \in Lsa
  <2>1. PICK free \in SUBSET Slots : free = Free(l) \ {s}
    BY Zenon, <1>1
  <2>2. Ordered(l) /\ m.idx = l.idx /\ r = UpdateLsaIndex(m, free)
    BY Zenon, <1>1, <1>5, <1>6, <2>1
  <2>3. /\ Ordered(r) /\ r.lab = m.lab /\ Free(r) = free
        /\ r.idx[Current(l)] = l.idx[Current(l)]
    BY <2>2, UpdateOrder
  <2>4. QED
    BY Zenon, <2>1, <2>3 DEF Ordered
<1>9. r.lab[s] = x /\ \A t \in Slots : t # s => r.lab[t] = l.lab[t]
  BY Zenon, <1>5, <1>8
<1>10. x.uuid = u /\ l.lab[s].uuid = NoUuid
  BY Zenon, <1>1, <1>3, LabelUuids
<1>11. Used(r) = Used(l) \cup {s} /\ s \notin Used(l)
  BY ZenonT(60), <1>1, <1>8 DEF Used
<1>12. Free(r) # {}
  <2>1. IsFiniteSet(Free(l)) /\ Cardinality(Free(l)) \in Nat
    BY <1>1, Ranges, FS_Subset, FS_CardinalityType
  <2>2. Cardinality(Free(l) \ {s}) = Cardinality(Free(l)) - 1
    BY Zenon, <1>2, <2>1, FS_RemoveElement
  <2>3. Cardinality(Free(l) \ {s}) # 0
    BY <2>1, <2>2 DEF HasRoom
  <2>4. QED
    BY Zenon, <1>8, <2>3, FS_EmptySet
<1>13. \A t \in Free(r) : r.lab[t] = ZeroLabel
  BY Zenon, <1>1, <1>8, <1>9
<1>14. \A t \in Used(r) : \E v \in Uuids : r.lab[t] = Updating(v, t) \/ r.lab[t] = Cleared(v, t)
  <2>1. \A t \in Used(l) : t \in Slots /\ r.lab[t] = l.lab[t]
    BY Zenon, <1>9, <1>11 DEF Used
  <2>2. QED
    BY Zenon, <1>1, <1>3, <1>9, <1>11, <2>1
<1>15. \A t, k \in Used(r) : r.lab[t].uuid = r.lab[k].uuid => t = k
  <2>1. \A t \in Used(l) : t \in Slots /\ r.lab[t] = l.lab[t] /\ l.lab[t].uuid # u
    BY Zenon, <1>9, <1>11 DEF Used, Labelled
  <2>2. \A t, k \in Used(l) : r.lab[t].uuid = r.lab[k].uuid => t = k
    BY Zenon, <1>1, <2>1
  <2>3. \A t \in Used(l) : r.lab[t].uuid # r.lab[s].uuid
    BY Zenon, <1>9, <1>10, <2>1
  <2>4. QED
    BY Zenon, <1>11, <2>2, <2>3
<1>16. Formed(r)
  BY Zenon, <1>8, <1>12, <1>13, <1>14, <1>15, FormedRule
<1>17. Labelled(r, u) # {}
  BY Zenon, <1>1, <1>9, <1>10 DEF Labelled
<1>18. Keeps(l, r, u)
  <2>1. {s} \in SUBSET Slots
    BY Zenon, <1>1
  <2>2. /\ \A t \in {s} : l.lab[t].uuid \notin Uuids \ {u}
        /\ \A t \in {s} : r.lab[t].uuid \notin Uuids \ {u}
        /\ \A t \in Slots \ ({s} \cup {s}) : r.lab[t] = l.lab[t]
    BY Zenon, <1>9, <1>10, LabelConstants
  <2>3. QED
    BY Zenon, <1>8, <2>1, <2>2, Relabelled
<1>19. QED
  BY Zenon, <1>7, <1>16, <1>17, <1>18

LEMMA ModifiedFormed ==
  ASSUME NEW l, Formed(l), NEW u \in Uuids, NEW old \in Slots, Labelled(l, u) = {old}
  PROVE  LET r == Modified(l, old)
         IN  Formed(r) /\ Keeps(l, r, u) /\ Clear(r, u)
<1>1. /\ l \in Lsa /\ Ordered(l) /\ Free(l) \subseteq Slots /\ u # NoUuid /\ Free(l) # {}
      /\ \A t \in Free(l) : l.lab[t] = ZeroLabel
      /\ \A t \in Used(l) : \E v \in Uuids : l.lab[t] = Updating(v, t) \/ l.lab[t] = Cleared(v, t)
      /\ \A t, k \in Used(l) : l.lab[t].uuid = l.lab[k].uuid => t = k
  BY Zenon, FormedRule, LsaParts, LabelConstants DEF Ordered
<1>2. /\ old \in Used(l) /\ old \notin Free(l) /\ l.lab[old].uuid = u
      /\ l.lab[old] = Updating(u, old) \/ l.lab[old] = Cleared(u, old)
  <2>1. old \in Labelled(l, u)
    BY Zenon
  <2>2. old \in Used(l) /\ (l.lab[old] = Updating(u, old) \/ l.lab[old] = Cleared(u, old))
    BY Zenon, <2>1, FormedLabels
  <2>3. QED
    BY Zenon, <2>1, <2>2 DEF Labelled, Used
<1>3. PICK new \in Free(l) : new = Min(Free(l))
  BY Zenon, <1>1, MinIn, Ranges
<1>4. new \in Slots /\ new # old
  BY Zenon, <1>1, <1>2
<1>5. l.lab[old].type = TRUE /\ l.lab[old].meta.flags # "zero"
  <2>1. CASE l.lab[old] = Updating(u, old)
    BY Zenon, <2>1, LabelFlags
  <2>2. CASE l.lab[old] = Cleared(u, old)
    BY Zenon, <2>2, LabelFlags
  <2>3. QED
    BY Zenon, <1>2, <2>1, <2>2
<1>6. PICK x \in Label : x = Cleared(u, new)
  BY Zenon, <1>4, LabelTypes DEF GuidField
<1>7. PICK k \in Lsa : k = [l EXCEPT !.lab[new] = x]
  BY Zenon, <1>1, <1>4, SetLabelType
<1>8. PICK m \in Lsa : m = [k EXCEPT !.lab[old] = ZeroLabel]
  BY Zenon, ZeroTypes, SetLabelType
<1>9. /\ m.idx = l.idx /\ m.lab[new] = x /\ m.lab[old] = ZeroLabel
      /\ \A t \in Slots : t # new /\ t # old => m.lab[t] = l.lab[t]
  BY <1>1, <1>4, <1>7, <1>8 DEF Lsa
<1>10. PICK free \in SUBSET Slots : free = (Free(l) \ {new}) \cup {old}
  BY Zenon, <1>1
<1>11. PICK r : r = UpdateLsaIndex(m, free)
  BY Zenon
<1>12. r = Modified(l, old)
  <2>1. x = Seal(l.lab[old].uuid, [flags |-> "clear", slot |-> new], l.lab[old].type)
    BY Zenon, <1>2, <1>5, <1>6 DEF Cleared
  <2>2. m = [l EXCEPT !.lab[new] = x, !.lab[old] = ZeroLabel]
    BY Zenon, <1>7, <1>8
  <2>3. QED
    BY Zenon, <1>3, <1>5, <1>10, <1>11, <2>1, <2>2 DEF Modified
<1>13. /\ Ordered(r) /\ r.lab = m.lab /\ Free(r) = free
       /\ r.idx[Current(l)] = l.idx[Current(l)]
  <2>1. Ordered(l) /\ m.idx = l.idx
    BY Zenon, <1>1, <1>9
  <2>2. QED
    BY <1>11, <2>1, UpdateOrder
<1>14. /\ r.lab[new] = x /\ r.lab[old] = ZeroLabel
       /\ \A t \in Slots : t # new /\ t # old => r.lab[t] = l.lab[t]
  BY Zenon, <1>9, <1>13
<1>15. x.uuid = u /\ l.lab[new].uuid = NoUuid /\ ZeroLabel.uuid = NoUuid
  BY Zenon, <1>1, <1>6, LabelUuids
<1>16. Used(r) = (Used(l) \ {old}) \cup {new}
  BY Zenon, <1>1, <1>2, <1>4, <1>10, <1>13 DEF Used
<1>17. \A t \in Used(l) \ {old} : t \in Slots /\ r.lab[t] = l.lab[t] /\ l.lab[t].uuid # u
  <2>1. \A t \in Used(l) : t \in Slots /\ t # new
    BY Zenon DEF Used
  <2>2. \A t \in Slots : l.lab[t].uuid = u => t = old
    BY Zenon DEF Labelled
  <2>3. QED
    BY Zenon, <1>14, <2>1, <2>2
<1>18. Formed(r)
  <2>1. Free(r) # {} /\ \A t \in Free(r) : r.lab[t] = ZeroLabel
    BY Zenon, <1>1, <1>10, <1>13, <1>14
  <2>2. \A t \in Used(r) : \E v \in Uuids : r.lab[t] = Updating(v, t) \/ r.lab[t] = Cleared(v, t)
    BY ZenonT(60), <1>1, <1>6, <1>14, <1>16, <1>17
  <2>3. \A t, j \in Used(r) : r.lab[t].uuid = r.lab[j].uuid => t = j
    <3>1. \A t \in Used(l) \ {old} : r.lab[t].uuid # u
      BY Zenon, <1>17
    <3>2. \A t, j \in Used(l) \ {old} : r.lab[t].uuid = r.lab[j].uuid => t = j
      BY Zenon, <1>1, <1>17
    <3>3. r.lab[new].uuid = u
      BY Zenon, <1>14, <1>15
    <3>4. QED
      BY Zenon, <1>16, <3>1, <3>2, <3>3
  <2>4. QED
    BY Zenon, <1>13, <2>1, <2>2, <2>3, FormedRule
<1>19. Clear(r, u)
  <2>1. \A t \in Slots : r.lab[t].uuid = u <=> t = new
    <3>1. \A t \in Slots : l.lab[t].uuid = u => t = old
      BY Zenon DEF Labelled
    <3>2. QED
      BY Zenon, <1>1, <1>14, <1>15, <3>1
  <2>2. Labelled(r, u) = {new}
    BY Zenon, <1>4, <2>1 DEF Labelled
  <2>3. QED
    BY Zenon, <1>4, <1>6, <1>14, <2>2 DEF Clear
<1>20. Keeps(l, r, u)
  <2>1. {old} \in SUBSET Slots /\ {new} \in SUBSET Slots /\ r \in Lsa
    BY Zenon, <1>4, <1>13 DEF Ordered
  <2>2. /\ \A t \in {old} : l.lab[t].uuid \notin Uuids \ {u}
        /\ \A t \in {new} : l.lab[t].uuid \notin Uuids \ {u}
        /\ \A t \in {old} : r.lab[t].uuid \notin Uuids \ {u}
        /\ \A t \in {new} : r.lab[t].uuid \notin Uuids \ {u}
        /\ \A t \in Slots \ ({old} \cup {new}) : r.lab[t] = l.lab[t]
    BY Zenon, <1>2, <1>14, <1>15, LabelConstants
  <2>3. QED
    BY Zenon, <1>13, <2>1, <2>2, Relabelled
<1>21. QED
  BY Zenon, <1>12, <1>18, <1>19, <1>20

LEMMA RemovedFormed ==
  ASSUME NEW l, Formed(l), NEW u \in Uuids
  PROVE  LET r == Removed(l, u)
         IN  Formed(r) /\ Keeps(l, r, u) /\ Labelled(r, u) = {}
<1>1. /\ l \in Lsa /\ Ordered(l) /\ Free(l) \subseteq Slots /\ u # NoUuid /\ Free(l) # {}
      /\ \A t \in Free(l) : l.lab[t] = ZeroLabel
      /\ \A t \in Used(l) : \E v \in Uuids : l.lab[t] = Updating(v, t) \/ l.lab[t] = Cleared(v, t)
      /\ \A t, k \in Used(l) : l.lab[t].uuid = l.lab[k].uuid => t = k
  BY Zenon, FormedRule, LsaParts, LabelConstants DEF Ordered
<1>2. PICK old \in SUBSET Slots : old = Labelled(l, u)
  BY Zenon DEF Labelled
<1>3. \A t \in Slots : t \in old <=> l.lab[t].uuid = u
  BY Zenon, <1>2 DEF Labelled
<1>4. PICK lab \in [Slots -> Label] :
        lab = [s \in Slots |-> IF s \in old THEN ZeroLabel ELSE l.lab[s]]
  BY Zenon, <1>1, LsaParts, ZeroTypes
<1>5. PICK m \in Lsa : m = [l EXCEPT !.lab = lab]
  BY Zenon, <1>1 DEF Lsa
<1>6. /\ m.idx = l.idx /\ m.lab = lab
  BY <1>1, <1>5 DEF Lsa
<1>7. PICK free \in SUBSET Slots : free = Free(l) \cup old
  BY Zenon, <1>1
<1>8. PICK r : r = UpdateLsaIndex(m, free)
  BY Zenon
<1>9. r = Removed(l, u)
  BY Zenon, <1>2, <1>4, <1>5, <1>7, <1>8 DEF Removed
<1>10. /\ Ordered(r) /\ r.lab = m.lab /\ Free(r) = free
       /\ r.idx[Current(l)] = l.idx[Current(l)]
  <2>1. Ordered(l) /\ m.idx = l.idx
    BY Zenon, <1>1, <1>6
  <2>2. QED
    BY <1>8, <2>1, UpdateOrder
<1>11. /\ \A t \in old : r.lab[t] = ZeroLabel
       /\ \A t \in Slots \ old : r.lab[t] = l.lab[t]
  BY Zenon, <1>4, <1>6, <1>10
<1>12. Used(r) = Used(l) \ old
  BY Zenon, <1>7, <1>10 DEF Used
<1>13. \A t \in Used(r) : t \in Used(l) /\ r.lab[t] = l.lab[t]
  BY Zenon, <1>11, <1>12 DEF Used
<1>14. Formed(r)
  <2>1. Free(r) # {} /\ \A t \in Free(r) : r.lab[t] = ZeroLabel
    BY Zenon, <1>1, <1>7, <1>10, <1>11
  <2>2. \A t \in Used(r) : \E v \in Uuids : r.lab[t] = Updating(v, t) \/ r.lab[t] = Cleared(v, t)
    BY Zenon, <1>1, <1>13
  <2>3. \A t, j \in Used(r) : r.lab[t].uuid = r.lab[j].uuid => t = j
    BY Zenon, <1>1, <1>13
  <2>4. QED
    BY Zenon, <1>10, <2>1, <2>2, <2>3, FormedRule
<1>15. Labelled(r, u) = {}
  <2>1. \A t \in Slots : r.lab[t].uuid # u
    BY ZenonT(60), <1>1, <1>3, <1>11, LabelUuids
  <2>2. QED
    BY Zenon, <2>1 DEF Labelled
<1>16. Keeps(l, r, u)
  <2>1. r \in Lsa
    BY Zenon, <1>10 DEF Ordered
  <2>2. /\ \A t \in old : l.lab[t].uuid \notin Uuids \ {u}
        /\ \A t \in old : r.lab[t].uuid \notin Uuids \ {u}
        /\ \A t \in Slots \ (old \cup old) : r.lab[t] = l.lab[t]
    BY Zenon, <1>3, <1>11, LabelUuids, LabelConstants
  <2>3. QED
    BY Zenon, <1>10, <2>1, <2>2, Relabelled
<1>17. QED
  BY Zenon, <1>9, <1>14, <1>15, <1>16

-----------------------------------------------------------------------------
(* Large payloads: what a write does                                       *)

LEMMA LargeRead ==
  ASSUME LargePayload, NEW m, NEW l \in {Loaded(m)} \cup LoadedBadly(m)
  PROVE  l = m
BY Zenon DEF Loaded, LoadedBadly

LEMMA LargeCommand ==
  ASSUME LargePayload, NEW m, NEW l
  PROVE  /\ WriteLabelStorageArea(l, FirstCommand) = Done
         /\ FwCmdSetPlatformConfigData(m, l, FirstCommand) = l
<1>1. FirstCommand.k = "all"
  BY DEF FirstCommand, Command
<1>2. QED
  BY <1>1 DEF WriteLabelStorageArea, FwCmdSetPlatformConfigData

LEMMA MediaRead ==
  ASSUME Media, NEW d \in Dimms
  PROVE  /\ ValidateLsaData(lsa[d]) <=> Formed(lsa[d])
         /\ Blank(lsa[d]) <=> lsa[d] = ZeroLsa
         /\ lsa[d] = ZeroLsa \/ Formed(lsa[d])
BY Zenon, FormedReads, ZeroReads DEF Media

\* What no step may touch: the labels of other namespaces than the one being
\* worked on, and the current index block.
OnlyOwn ==
  \A d \in Dimms, v \in Uuids \ {uuid} :
    /\ Labelled(lsa'[d], v) = Labelled(lsa[d], v)
    /\ \A s \in Labelled(lsa[d], v) : lsa'[d].lab[s] = lsa[d].lab[s]

CurrentKept ==
  \A d \in Dimms : Formed(lsa[d]) => lsa'[d].idx[Current(lsa[d])] = lsa[d].idx[Current(lsa[d])]

\* What the buffer holds, when it is written.
LEMMA BufferFacts ==
  ASSUME TypeInv, LargeInv, pc \in Writing
  PROVE  /\ Formed(img) /\ uuid \in Uuids /\ cur \in Dimms
         /\ \A v \in Uuids \ {uuid} : Labelled(img, v) = Labelled(lsa[cur], v)
         /\ \A v \in Uuids \ {uuid} : \A s \in Labelled(lsa[cur], v) : img.lab[s] = lsa[cur].lab[s]
         /\ Formed(lsa[cur]) => img.idx[Current(lsa[cur])] = lsa[cur].idx[Current(lsa[cur])]
         /\ pc = "inserting" => Labelled(img, uuid) # {}
         /\ pc = "modifying" => Clear(img, uuid)
         /\ pc \in {"init", "undoing", "removing"} => Labelled(img, uuid) = {}
<1>1. uuid \in Uuids /\ cur \in Dimms
  BY DEF TypeInv, LabelTypeOK, RoleOK, GuidField, Writing
<1>2. CASE pc = "init"
  <2>1. lsa[cur] = ZeroLsa /\ img = InitialLsa
    BY Zenon, <1>2 DEF LargeInv, Buffer
  <2>2. ~Formed(lsa[cur])
    BY Zenon, <2>1, FormedReads, ZeroReads
  <2>3. QED
    BY Zenon, <1>1, <1>2, <2>1, <2>2, InitialFormed, ZeroReads
<1>3. CASE pc = "inserting"
  <2>1. Formed(lsa[cur]) /\ HasRoom(lsa[cur]) /\ img = Inserted(lsa[cur], uuid)
    BY Zenon, <1>3 DEF LargeInv, Buffer
  <2>2. Labelled(lsa[cur], uuid) = {}
    <3>1. cur >= cur
      BY <1>1, Ranges
    <3>2. QED
      BY Zenon, <1>1, <1>3, <3>1 DEF LargeInv, Progress
  <2>3. Formed(img) /\ Keeps(lsa[cur], img, uuid) /\ Labelled(img, uuid) # {}
    BY Zenon, <1>1, <2>1, <2>2, InsertedFormed
  <2>4. QED
    BY Zenon, <1>1, <1>3, <2>3 DEF Keeps
<1>4. CASE pc = "modifying"
  <2>1. PICK s \in Slots : /\ Formed(lsa[cur]) /\ Labelled(lsa[cur], uuid) = {s}
                           /\ img = Modified(lsa[cur], s)
    BY Zenon, <1>4 DEF LargeInv, Buffer
  <2>2. Formed(img) /\ Keeps(lsa[cur], img, uuid) /\ Clear(img, uuid)
    BY Zenon, <1>1, <2>1, ModifiedFormed
  <2>3. QED
    BY Zenon, <1>1, <1>4, <2>2 DEF Keeps
<1>5. CASE pc \in {"undoing", "removing"}
  <2>1. Formed(lsa[cur]) /\ img = Removed(lsa[cur], uuid)
    BY Zenon, <1>5 DEF LargeInv, Buffer
  <2>2. Formed(img) /\ Keeps(lsa[cur], img, uuid) /\ Labelled(img, uuid) = {}
    BY Zenon, <1>1, <2>1, RemovedFormed
  <2>3. QED
    BY Zenon, <1>1, <1>5, <2>2 DEF Keeps
<1>6. QED
  BY Zenon, <1>2, <1>3, <1>4, <1>5 DEF Writing

LEMMA PutFacts ==
  ASSUME LargePayload, TypeInv, LargeInv, pc \in Writing, Put
  PROVE  /\ lsa'[cur] = img /\ \A d \in Dimms \ {cur} : lsa'[d] = lsa[d]
         /\ Media' /\ OnlyOwn /\ CurrentKept
<1>1. lsa' = [lsa EXCEPT ![cur] = img] /\ cur \in Dimms /\ lsa \in [Dimms -> Lsa]
  BY Zenon, LargeCommand DEF Put, LargeInv, TypeInv, LabelTypeOK
<1>2. lsa'[cur] = img /\ \A d \in Dimms \ {cur} : lsa'[d] = lsa[d]
  BY Zenon, <1>1
<1>3. /\ Formed(img)
      /\ \A v \in Uuids \ {uuid} : Labelled(img, v) = Labelled(lsa[cur], v)
      /\ \A v \in Uuids \ {uuid} : \A s \in Labelled(lsa[cur], v) : img.lab[s] = lsa[cur].lab[s]
      /\ Formed(lsa[cur]) => img.idx[Current(lsa[cur])] = lsa[cur].idx[Current(lsa[cur])]
  BY Zenon, BufferFacts
<1>4. Media'
  <2>1. ASSUME NEW d \in Dimms PROVE lsa'[d] = ZeroLsa \/ Formed(lsa'[d])
    BY Zenon, <1>2, <1>3 DEF LargeInv, Media
  <2>2. QED
    BY Zenon, <2>1 DEF Media
<1>5. OnlyOwn
  <2>1. ASSUME NEW d \in Dimms, NEW v \in Uuids \ {uuid}
        PROVE  /\ Labelled(lsa'[d], v) = Labelled(lsa[d], v)
               /\ \A s \in Labelled(lsa[d], v) : lsa'[d].lab[s] = lsa[d].lab[s]
    BY Zenon, <1>2, <1>3
  <2>2. QED
    BY Zenon, <2>1 DEF OnlyOwn
<1>6. CurrentKept
  <2>1. ASSUME NEW d \in Dimms, Formed(lsa[d])
        PROVE  lsa'[d].idx[Current(lsa[d])] = lsa[d].idx[Current(lsa[d])]
    BY Zenon, <1>2, <1>3, <2>1
  <2>2. QED
    BY Zenon, <2>1 DEF CurrentKept
<1>7. QED
  BY Zenon, <1>2, <1>4, <1>5, <1>6

LEMMA SameMedia ==
  ASSUME LargeInv, lsa' = lsa
  PROVE  Media' /\ OnlyOwn /\ CurrentKept
<1>1. Media'
  BY Zenon DEF LargeInv, Media
<1>2. QED
  BY Zenon, <1>1 DEF OnlyOwn, CurrentKept

\* No step changes the media otherwise.
LEMMA MediaStep ==
  ASSUME LargePayload, TypeInv, LargeInv, [LabelNext]_labelVars
  PROVE  Media' /\ OnlyOwn /\ CurrentKept
<1>1. lsa' = lsa \/ (pc \in Writing /\ Put)
  BY Zenon DEF LabelNext, labelVars, DriverStart, PowerFail, ReenumerateNamespacesAndISs,
     CreateNamespace, DeleteNamespace, InitializeLabelStorageArea, VerifyInit, InsertNamespaceLabels,
     ModifyNamespaceLabels, ModifyLabelAtSlot, RollbackEnds, RemoveNamespaceLabels, NextDimm,
     DeleteEnds, WriteCommand, WriteCommandFails
<1>2. QED
  BY Zenon, <1>1, SameMedia, PutFacts

\* Where ModifyNamespaceLabels works there is a label to modify, and a free
\* slot to move it to.
LEMMA ModifyPlace ==
  ASSUME TypeInv, LargeInv, pc \in {"modify", "modslot", "modifying"}
  PROVE  /\ Formed(lsa[cur]) /\ Free(lsa[cur]) # {} /\ cur \in Dimms /\ uuid \in Uuids
         /\ \E s \in Slots : Labelled(lsa[cur], uuid) = {s}
<1>1. uuid \in Uuids /\ cur \in Dimms
  BY Zenon, ModifyPhase DEF TypeInv, LabelTypeOK
<1>2. Labelled(lsa[cur], uuid) # {}
  BY Zenon, <1>1 DEF LargeInv, Progress
<1>3. Formed(lsa[cur])
  BY Zenon, <1>1, <1>2, ZeroReads DEF LargeInv, Media
<1>4. QED
  BY Zenon, <1>1, <1>2, <1>3, FormedLabels DEF Formed

LEMMA Busy ==
  ASSUME TypeInv
  PROVE  /\ uuid \in Uuids => fate[uuid] \in {"creating", "left", "deleting"}
         /\ pc \in Creating \cup Undoing \cup Removing => uuid \in Uuids
<1>1. uuid \in Uuids => pc \notin {"off", "idle"}
  BY Zenon, LabelConstants DEF TypeInv, RoleOK
<1>2. pc \in {"off", "idle"} \cup Creating \cup Undoing \cup Removing
  BY Zenon DEF TypeInv, LabelTypeOK, Creating, Undoing, Removing, Writing
<1>3. uuid \in Uuids => fate[uuid] \in {"creating", "left", "deleting"}
  BY Zenon, <1>1, <1>2 DEF TypeInv, RoleOK
<1>4. pc \in Creating \cup Undoing \cup Removing => pc \notin {"off", "idle"}
  BY DEF Creating, Undoing, Removing
<1>5. QED
  BY Zenon, <1>3, <1>4 DEF TypeInv, LabelTypeOK, RoleOK, GuidField

-----------------------------------------------------------------------------
(* Large payloads: the media are in order, whatever fails                  *)

LEMMA LargeInit == LabelInit => LargeInv
<1> SUFFICES ASSUME LabelInit PROVE LargeInv
  OBVIOUS
<1>1. \A d \in Dimms : lsa[d] = ZeroLsa
  BY Zenon DEF LabelInit
<1>2. Media
  BY Zenon, <1>1 DEF Media
<1>3. Buffer /\ Progress /\ pos = FirstCommand
  BY DEF LabelInit, Buffer, Progress
<1>4. Standing
  BY Zenon, <1>1, ZeroReads DEF Standing, LabelInit
<1>5. QED
  BY Zenon, <1>2, <1>3, <1>4 DEF LargeInv

\* What is left to show of a step once the media are known to be in order.
Stays == Buffer' /\ Standing' /\ Progress'

\* Labels of other namespaces first, then one step per handler.
LEMMA LargeStep ==
  ASSUME LargePayload, TypeInv, LargeInv, [LabelNext]_labelVars
  PROVE  LargeInv'
\* A label that is not touched keeps its flag.
<1>ClearKept.
  ASSUME OnlyOwn, NEW d \in Dimms, NEW v \in Uuids \ {uuid}
  PROVE  /\ Clear(lsa[d], v) => Clear(lsa'[d], v)
         /\ Labelled(lsa'[d], v) = Labelled(lsa[d], v)
  BY Zenon, <1>ClearKept DEF OnlyOwn, Clear
<1>StandingStep.
  ASSUME OnlyOwn,
         \A v \in Uuids : \/ fate'[v] = fate[v] /\ v # uuid
                          \/ fate'[v] \notin {"unborn", "created"}
                          \/ fate'[v] # "unborn" /\ \A d \in Dimms : Clear(lsa'[d], v)
  PROVE  Standing'
  <2> USE <1>StandingStep
  <2>1. ASSUME NEW v \in Uuids, fate'[v] = fate[v], v # uuid
        PROVE  /\ fate'[v] = "unborn" => \A d \in Dimms : Labelled(lsa'[d], v) = {}
               /\ fate'[v] = "created" => \A d \in Dimms : Clear(lsa'[d], v)
    BY Zenon, <2>1, <1>ClearKept DEF LargeInv, Standing
  <2>2. QED
    BY Zenon, <2>1 DEF Standing
\* The fate of the namespace being worked on changes, and no other.
<1>FateStep.
  ASSUME OnlyOwn,
         \A v \in Uuids : \/ fate'[v] = fate[v]
                          \/ fate'[v] \notin {"unborn", "created"}
                          \/ fate'[v] # "unborn" /\ \A d \in Dimms : Clear(lsa'[d], v)
  PROVE  Standing'
  <2> USE <1>FateStep
  <2>1. ASSUME NEW v \in Uuids, fate'[v] = fate[v], v = uuid PROVE fate'[v] \notin {"unborn", "created"}
    BY Zenon, <2>1, Busy
  <2>2. QED
    BY Zenon, <2>1, <1>StandingStep
<1>FateChange.
  ASSUME OnlyOwn, NEW u, NEW f \in Fate \ {"unborn", "created"},
         fate' = [fate EXCEPT ![u] = f]
  PROVE  Standing'
  <2> USE <1>FateChange
  <2>1. \A v \in Uuids : fate'[v] = fate[v] \/ fate'[v] = f
    BY Zenon DEF TypeInv, LabelTypeOK
  <2>2. QED
    BY Zenon, <2>1, <1>FateStep
<1>Resting.
  ASSUME pc' \in {"off", "idle", "rollback", "remove"}
  PROVE  Buffer' /\ Progress'
  BY <1>Resting DEF Buffer, Progress
<1>PosStep.
  ASSUME [LabelNext]_labelVars
  PROVE  pos' = FirstCommand
  <2> USE <1>PosStep
  <2>1. pos = FirstCommand /\ WriteLabelStorageArea(img, pos) = Done
    BY Zenon, LargeCommand DEF LargeInv
  <2>2. \/ pos' = pos \/ pos' = FirstCommand
    BY ZenonT(60), <2>1 DEF LabelNext, labelVars, DriverStart, PowerFail, ReenumerateNamespacesAndISs,
       CreateNamespace, DeleteNamespace, InitializeLabelStorageArea, VerifyInit, InsertNamespaceLabels,
       ModifyNamespaceLabels, ModifyLabelAtSlot, RollbackEnds, RemoveNamespaceLabels, NextDimm,
       DeleteEnds, WriteCommand, WriteCommandFails, StartWrite, NoWrite
  <2>3. QED
    BY Zenon, <2>1, <2>2
<1>RestingStays.
  ASSUME OnlyOwn, fate' = fate, pc' \in {"off", "idle", "rollback", "remove"}
  PROVE  Stays
  BY Zenon, <1>RestingStays, <1>Resting, <1>FateStep DEF Stays
<1>FatefulStays.
  ASSUME OnlyOwn, NEW u, NEW f \in Fate \ {"unborn", "created"},
         fate' = [fate EXCEPT ![u] = f], pc' \in {"off", "idle", "rollback", "remove"}
  PROVE  Stays
  BY Zenon, <1>FatefulStays, <1>Resting, <1>FateChange DEF Stays
<1>CreateStays.
  ASSUME OnlyOwn, NEW u \in Uuids, CreateNamespace(u)
  PROVE  Stays
  <2> USE <1>CreateStays
  <2>1. /\ pc' = "insert" /\ uuid' = u /\ cur' = 1 /\ fate' = [fate EXCEPT ![u] = "creating"]
        /\ lsa' = lsa /\ fate[u] = "unborn"
    BY Zenon DEF CreateNamespace
  <2>2. Standing'
    BY Zenon, <2>1, <1>FateChange DEF Fate
  <2>3. \A d \in Dimms : Labelled(lsa[d], u) = {} /\ d >= 1
    <3>1. \A d \in Dimms : Labelled(lsa[d], u) = {}
      BY Zenon, <2>1 DEF LargeInv, Standing
    <3>2. \A d \in Dimms : d >= 1
      BY DEF Dimms
    <3>3. QED
      BY Zenon, <3>1, <3>2
  <2>4. Buffer' /\ Progress'
    BY <2>1, <2>3 DEF Buffer, Progress
  <2>5. QED
    BY Zenon, <2>2, <2>4 DEF Stays
\* A step of the insertion that writes nothing.
<1>InsertStays.
  ASSUME OnlyOwn, pc \in {"insert", "verify"}, lsa' = lsa,
         fate' = fate, uuid' = uuid, cur' = cur, pc' \in {"insert", "verify"}
  PROVE  Stays
  <2> USE <1>InsertStays
  <2>1. Standing'
    BY Zenon, <1>FateStep
  <2>2. \A d \in Dimms : Labelled(lsa[d], uuid) = {} <=> d >= cur
    BY Zenon DEF LargeInv, Progress
  <2>3. Buffer' /\ Progress'
    BY <2>2 DEF Buffer, Progress
  <2>4. QED
    BY Zenon, <2>1, <2>3 DEF Stays
<1>InitializeStays.
  ASSUME OnlyOwn, InitializeLabelStorageArea
  PROVE  Stays
  <2> USE <1>InitializeStays
  <2>1. /\ pc = "insert" /\ lsa' = lsa /\ uuid' = uuid /\ cur' = cur /\ fate' = fate /\ cur \in Dimms
    BY Zenon DEF InitializeLabelStorageArea, TypeInv, LabelTypeOK
  <2>2. \/ Blank(lsa[cur]) /\ StartWrite(InitialLsa, "init")
        \/ pc' = "verify"
        \/ CouldNotInit
    BY Zenon DEF InitializeLabelStorageArea
  <2>3. ASSUME Blank(lsa[cur]), StartWrite(InitialLsa, "init") PROVE Stays
    <3>1. lsa[cur] = ZeroLsa
      BY Zenon, <2>1, <2>3, MediaRead DEF LargeInv
    <3>2. pc' = "init" /\ img' = InitialLsa
      BY Zenon, <2>3 DEF StartWrite
    <3>3. \A d \in Dimms : Labelled(lsa[d], uuid) = {} <=> d >= cur
      BY Zenon, <2>1 DEF LargeInv, Progress
    <3>4. Buffer' /\ Progress'
      BY <2>1, <3>1, <3>2, <3>3 DEF Buffer, Progress
    <3>5. Standing'
      BY Zenon, <2>1, <1>FateStep
    <3>6. QED
      BY Zenon, <3>4, <3>5 DEF Stays
  <2>4. ASSUME pc' = "verify" PROVE Stays
    BY Zenon, <2>1, <2>4, <1>InsertStays
  <2>5. ASSUME CouldNotInit PROVE Stays
    BY Zenon, <2>1, <2>5, <1>RestingStays DEF CouldNotInit, InsertFails
  <2>6. QED
    BY Zenon, <2>2, <2>3, <2>4, <2>5
<1>VerifyStays.
  ASSUME OnlyOwn, VerifyInit
  PROVE  Stays
  <2> USE <1>VerifyStays
  <2>1. /\ pc = "verify" /\ lsa' = lsa /\ uuid' = uuid /\ cur' = cur /\ fate' = fate
        /\ pc' = "insert" \/ pc' = "rollback"
    BY Zenon DEF VerifyInit, InsertFails
  <2>2. QED
    BY Zenon, <2>1, <1>InsertStays, <1>RestingStays
<1>InsertingStays.
  ASSUME OnlyOwn, InsertNamespaceLabels
  PROVE  Stays
  <2> USE <1>InsertingStays
  <2>1. /\ pc = "insert" /\ lsa' = lsa /\ uuid' = uuid /\ cur' = cur /\ fate' = fate /\ cur \in Dimms
    BY Zenon DEF InsertNamespaceLabels, TypeInv, LabelTypeOK
  <2>2. \/ /\ ValidateLsaData(lsa[cur]) /\ HasRoom(lsa[cur])
           /\ StartWrite(Inserted(lsa[cur], uuid), "inserting")
        \/ pc' = "rollback"
    BY Zenon, LargeRead DEF InsertNamespaceLabels, ReadLabelStorageArea, InsertFails
  <2>3. ASSUME ValidateLsaData(lsa[cur]), HasRoom(lsa[cur]),
               StartWrite(Inserted(lsa[cur], uuid), "inserting")
        PROVE  Stays
    <3>1. Formed(lsa[cur])
      BY Zenon, <2>1, <2>3, MediaRead DEF LargeInv
    <3>2. pc' = "inserting" /\ img' = Inserted(lsa[cur], uuid)
      BY Zenon, <2>3 DEF StartWrite
    <3>3. \A d \in Dimms : Labelled(lsa[d], uuid) = {} <=> d >= cur
      BY Zenon, <2>1 DEF LargeInv, Progress
    <3>4. Buffer' /\ Progress'
      <4>1. Progress'
        BY <2>1, <3>2, <3>3 DEF Progress
      <4>2. Formed(lsa'[cur']) /\ HasRoom(lsa'[cur'])
        BY Zenon, <2>1, <2>3, <3>1
      <4>3. img' = Inserted(lsa'[cur'], uuid')
        BY Zenon, <2>1, <3>2
      <4>4. QED
        BY <3>2, <4>1, <4>2, <4>3 DEF Buffer
    <3>5. Standing'
      BY Zenon, <2>1, <1>FateStep
    <3>6. QED
      BY Zenon, <3>4, <3>5 DEF Stays
  <2>4. QED
    BY Zenon, <2>1, <2>2, <2>3, <1>RestingStays
<1>ModifyFailsStays.
  ASSUME OnlyOwn, ModifyFails
  PROVE  Stays
  BY Zenon, <1>ModifyFailsStays, <1>FatefulStays DEF ModifyFails, Idle, Fate
<1>ModifyLabelsStays.
  ASSUME OnlyOwn, ModifyNamespaceLabels
  PROVE  Stays
  <2> USE <1>ModifyLabelsStays
  <2>1. pc = "modify" /\ lsa' = lsa
    BY Zenon DEF ModifyNamespaceLabels
  <2>2. PICK s \in Slots : Labelled(lsa[cur], uuid) = {s} /\ Formed(lsa[cur]) /\ Free(lsa[cur]) # {}
    BY Zenon, <2>1, ModifyPlace
  <2>3. \/ ModifyFails
        \/ /\ todo' = Labelled(lsa[cur], uuid) /\ pc' = "modslot" /\ uuid' = uuid /\ cur' = cur
           /\ fate' = fate
    BY Zenon, <2>2, LargeRead DEF ModifyNamespaceLabels
  <2>4. ASSUME todo' = Labelled(lsa[cur], uuid), pc' = "modslot", uuid' = uuid, cur' = cur, fate' = fate
        PROVE  Stays
    <3>1. Standing'
      BY Zenon, <2>4, <1>FateStep
    <3>2. \A d \in Dimms : /\ Labelled(lsa[d], uuid) # {}
                           /\ d < cur => Clear(lsa[d], uuid)
      BY Zenon, <2>1 DEF LargeInv, Progress
    <3>3. Progress'
      BY <2>1, <2>4, <3>2 DEF Progress
    <3>4. todo' = {s} /\ Formed(lsa'[cur']) /\ Labelled(lsa'[cur'], uuid') = {s}
      BY Zenon, <2>1, <2>2, <2>4
    <3>5. Buffer'
      BY <2>4, <3>4 DEF Buffer
    <3>6. QED
      BY Zenon, <3>1, <3>3, <3>5 DEF Stays
  <2>5. QED
    BY Zenon, <2>3, <2>4, <1>ModifyFailsStays
<1>ModifySlotStays.
  ASSUME OnlyOwn, ModifyLabelAtSlot
  PROVE  Stays
  <2> USE <1>ModifySlotStays
  <2>1. pc = "modslot" /\ lsa' = lsa
    BY Zenon DEF ModifyLabelAtSlot
  <2>2. PICK s \in Slots : todo = {s} /\ Labelled(lsa[cur], uuid) = {s} /\ Formed(lsa[cur])
    BY Zenon, <2>1 DEF LargeInv, Buffer
  <2>3. Min(todo) = s
    <3>1. {s} \in SUBSET Nat /\ {s} # {}
      BY Zenon, Ranges
    <3>2. QED
      BY Zenon, <2>2, <3>1, MinIn
  <2>4. \/ ModifyFails
        \/ /\ StartWrite(Modified(lsa[cur], s), "modifying") /\ uuid' = uuid /\ cur' = cur
           /\ todo' = todo /\ fate' = fate
    BY Zenon, <2>1, <2>3, ModifyPlace, LargeRead DEF ModifyLabelAtSlot
  <2>5. ASSUME StartWrite(Modified(lsa[cur], s), "modifying"), uuid' = uuid, cur' = cur,
               todo' = todo, fate' = fate
        PROVE  Stays
    <3>1. Standing'
      BY Zenon, <2>5, <1>FateStep
    <3>2. \A d \in Dimms : /\ Labelled(lsa[d], uuid) # {}
                           /\ d < cur => Clear(lsa[d], uuid)
      BY Zenon, <2>1 DEF LargeInv, Progress
    <3>3. pc' = "modifying" /\ img' = Modified(lsa'[cur'], s)
      BY Zenon, <2>1, <2>5 DEF StartWrite
    <3>4. Progress'
      BY <2>1, <2>5, <3>2, <3>3 DEF Progress
    <3>5. todo' = {s} /\ Formed(lsa'[cur']) /\ Labelled(lsa'[cur'], uuid') = {s}
      BY Zenon, <2>1, <2>2, <2>5
    <3>6. Buffer'
      BY <3>3, <3>5 DEF Buffer
    <3>7. QED
      BY Zenon, <3>1, <3>4, <3>6 DEF Stays
  <2>6. QED
    BY Zenon, <2>4, <2>5, <1>ModifyFailsStays
<1>RemoveReturnedStays.
  ASSUME OnlyOwn, NEW ok, RemoveReturned(ok)
  PROVE  Stays
  <2> USE <1>RemoveReturnedStays
  <2>1. pc' \in {"rollback", "remove"}
    BY Zenon DEF RemoveReturned
  <2>2. fate' = fate \/ fate' = [fate EXCEPT ![uuid] = "left"]
    BY Zenon DEF RemoveReturned
  <2>3. QED
    BY Zenon, <2>1, <2>2, <1>RestingStays, <1>FatefulStays DEF Fate
<1>RemoveStays.
  ASSUME OnlyOwn, RemoveNamespaceLabels
  PROVE  Stays
  <2> USE <1>RemoveStays
  <2>1. /\ pc \in {"rollback", "remove"} /\ lsa' = lsa /\ uuid' = uuid /\ cur' = cur /\ cur \in Dimms
    BY Zenon DEF RemoveNamespaceLabels, TypeInv, LabelTypeOK
  <2>2. \/ \E ok \in BOOLEAN : RemoveReturned(ok)
        \/ /\ ValidateLsaData(lsa[cur])
           /\ StartWrite(Removed(lsa[cur], uuid), IF pc = "rollback" THEN "undoing" ELSE "removing")
           /\ fate' = fate
    BY Zenon, LargeRead DEF RemoveNamespaceLabels, ReadLabelStorageArea
  <2>3. ASSUME ValidateLsaData(lsa[cur]), fate' = fate,
               StartWrite(Removed(lsa[cur], uuid), IF pc = "rollback" THEN "undoing" ELSE "removing")
        PROVE  Stays
    <3>1. Standing'
      BY Zenon, <2>3, <1>FateStep
    <3>2. Formed(lsa'[cur'])
      BY Zenon, <2>1, <2>3, MediaRead DEF LargeInv
    <3>3. pc' \in {"undoing", "removing"} /\ img' = Removed(lsa'[cur'], uuid')
      BY Zenon, <2>1, <2>3 DEF StartWrite
    <3>4. Buffer' /\ Progress'
      BY <3>2, <3>3 DEF Buffer, Progress
    <3>5. QED
      BY Zenon, <3>1, <3>4 DEF Stays
  <2>4. QED
    BY Zenon, <2>2, <2>3, <1>RemoveReturnedStays
<1>RollbackEndsStays.
  ASSUME OnlyOwn, RollbackEnds
  PROVE  Stays
  <2> USE <1>RollbackEndsStays
  <2>1. /\ pc' = "idle"
        /\ fate' = [fate EXCEPT ![uuid] = IF fate[uuid] = "left" THEN "left" ELSE "undone"]
    BY Zenon DEF RollbackEnds, Idle
  <2>2. CASE fate[uuid] = "left"
    BY Zenon, <2>1, <2>2, <1>FatefulStays DEF Fate
  <2>3. CASE fate[uuid] # "left"
    BY Zenon, <2>1, <2>3, <1>FatefulStays DEF Fate
  <2>4. QED
    BY Zenon, <2>2, <2>3
<1>DeleteEndsStays.
  ASSUME OnlyOwn, DeleteEnds
  PROVE  Stays
  <2> USE <1>DeleteEndsStays
  <2>1. pc' = "idle" /\ (fate' = fate \/ fate' = [fate EXCEPT ![uuid] = "deleted"])
    BY Zenon DEF DeleteEnds, Idle
  <2>2. QED
    BY Zenon, <2>1, <1>RestingStays, <1>FatefulStays DEF Fate
<1>InitReturnsStays.
  ASSUME OnlyOwn, NEW ok \in BOOLEAN, InitReturns(ok), ok => Put
  PROVE  Stays
  <2> USE <1>InitReturnsStays
  <2>1. pc = "init" /\ uuid' = uuid /\ cur' = cur /\ fate' = fate /\ cur \in Dimms
    BY Zenon DEF InitReturns, TypeInv, LabelTypeOK
  <2>2. CASE ok
    <3>1. pc' = "verify"
      BY Zenon, <2>2 DEF InitReturns
    <3>2. /\ lsa'[cur] = img /\ \A d \in Dimms \ {cur} : lsa'[d] = lsa[d]
          /\ Labelled(img, uuid) = {}
      BY Zenon, <2>1, <2>2, PutFacts, BufferFacts DEF Writing
    <3>3. \A d \in Dimms : Labelled(lsa[d], uuid) = {} <=> d >= cur
      BY Zenon, <2>1 DEF LargeInv, Progress
    <3>4. cur >= cur
      BY <2>1, Ranges
    <3>5. \A d \in Dimms : Labelled(lsa'[d], uuid) = {} <=> d >= cur
      BY Zenon, <3>2, <3>3, <3>4
    <3>6. Buffer' /\ Progress'
      BY <2>1, <3>1, <3>5 DEF Buffer, Progress
    <3>7. QED
      BY Zenon, <2>1, <3>6, <1>FateStep DEF Stays
  <2>3. CASE ~ok
    BY ZenonT(60), <2>1, <2>3, <1>RestingStays DEF InitReturns, CouldNotInit, InsertFails
  <2>4. QED
    BY Zenon, <2>2, <2>3
<1>InsertReturnsStays.
  ASSUME OnlyOwn, NEW ok \in BOOLEAN, InsertReturns(ok), ok => Put
  PROVE  Stays
  <2> USE <1>InsertReturnsStays
  <2>1. pc = "inserting" /\ uuid' = uuid /\ fate' = fate /\ cur \in Dimms
    BY Zenon DEF InsertReturns, TypeInv, LabelTypeOK
  <2>2. CASE ok
    <3>1. /\ lsa'[cur] = img /\ \A d \in Dimms \ {cur} : lsa'[d] = lsa[d]
          /\ Labelled(img, uuid) # {}
      BY Zenon, <2>1, <2>2, PutFacts, BufferFacts DEF Writing
    <3>2. \A d \in Dimms : Labelled(lsa[d], uuid) = {} <=> d >= cur
      BY Zenon, <2>1 DEF LargeInv, Progress
    <3>3. \A d \in Dimms : Labelled(lsa'[d], uuid) = {} <=> d >= cur /\ d # cur
      BY Zenon, <3>1, <3>2
    <3>4. CASE cur < NDimms
      <4>1. pc' = "insert" /\ cur' = cur + 1
        BY Zenon, <2>2, <3>4 DEF InsertReturns
      <4>2. \A d \in Dimms : d >= cur /\ d # cur <=> d >= cur + 1
        BY <2>1, Ranges DEF Dimms
      <4>3. \A d \in Dimms : Labelled(lsa'[d], uuid) = {} <=> d >= cur'
        BY Zenon, <3>3, <4>1, <4>2
      <4>4. Buffer' /\ Progress'
        BY SMTT(30), <2>1, <4>1, <4>3 DEF Buffer, Progress
      <4>5. QED
        BY Zenon, <2>1, <4>4, <1>FateStep DEF Stays
    <3>5. CASE ~(cur < NDimms)
      <4>1. pc' = "modify" /\ cur' = 1
        BY Zenon, <2>2, <3>5 DEF InsertReturns
      <4>2. \A d \in Dimms : ~(d >= cur /\ d # cur) /\ ~(d < 1)
        BY <2>1, <3>5, Ranges DEF Dimms
      <4>3. \A d \in Dimms : Labelled(lsa'[d], uuid) # {} /\ ~(d < cur')
        BY Zenon, <3>3, <4>1, <4>2
      <4>4. Buffer' /\ Progress'
        BY SMTT(30), <2>1, <4>1, <4>3 DEF Buffer, Progress
      <4>5. QED
        BY Zenon, <2>1, <4>4, <1>FateStep DEF Stays
    <3>6. QED
      BY Zenon, <3>4, <3>5
  <2>3. CASE ~ok
    BY Zenon, <2>1, <2>3, <1>RestingStays DEF InsertReturns, InsertFails
  <2>4. QED
    BY Zenon, <2>2, <2>3
<1>ModifyReturnsStays.
  ASSUME OnlyOwn, NEW ok \in BOOLEAN, ModifyReturns(ok), ok => Put
  PROVE  Stays
  <2> USE <1>ModifyReturnsStays
  <2>1. pc = "modifying" /\ cur \in Dimms /\ uuid \in Uuids
    BY Zenon, ModifyPhase DEF ModifyReturns, TypeInv, LabelTypeOK
  <2>2. CASE ok
    <3>1. ModifyNext
      <4>1. PICK s \in Slots : todo = {s}
        BY Zenon, <2>1 DEF LargeInv, Buffer
      <4>2. {s} \in SUBSET Nat /\ {s} # {}
        BY Zenon, Ranges
      <4>3. Min(todo) = s
        BY Zenon, <4>1, <4>2, MinIn
      <4>4. QED
        BY Zenon, <2>2, <4>1, <4>3 DEF ModifyReturns, SlotDone
    <3>2. /\ lsa'[cur] = img /\ \A d \in Dimms \ {cur} : lsa'[d] = lsa[d]
          /\ Clear(img, uuid)
      BY Zenon, <2>1, <2>2, PutFacts, BufferFacts DEF Writing
    <3>3. \A d \in Dimms : Labelled(lsa[d], uuid) # {} /\ (d < cur => Clear(lsa[d], uuid))
      BY Zenon, <2>1 DEF LargeInv, Progress
    <3>4. Labelled(img, uuid) # {}
      BY Zenon, <3>2 DEF Clear
    <3>5. /\ \A d \in Dimms : Labelled(lsa'[d], uuid) # {}
          /\ \A d \in Dimms : d < cur \/ d = cur => Clear(lsa'[d], uuid)
      BY Zenon, <3>2, <3>3, <3>4
    <3>6. CASE cur < NDimms
      <4>1. pc' = "modify" /\ cur' = cur + 1 /\ uuid' = uuid /\ fate' = fate
        BY Zenon, <3>1, <3>6 DEF ModifyNext
      <4>2. \A d \in Dimms : d < cur + 1 => d < cur \/ d = cur
        BY <2>1, Ranges DEF Dimms
      <4>3. \A d \in Dimms : Labelled(lsa'[d], uuid) # {} /\ (d < cur' => Clear(lsa'[d], uuid))
        BY Zenon, <3>5, <4>1, <4>2
      <4>4. Buffer' /\ Progress'
        BY <4>1, <4>3 DEF Buffer, Progress
      <4>5. QED
        BY Zenon, <4>1, <4>4, <1>FateStep DEF Stays
    <3>7. CASE ~(cur < NDimms)
      <4>1. pc' = "idle" /\ fate' = [fate EXCEPT ![uuid] = "created"]
        BY Zenon, <3>1, <3>7 DEF ModifyNext, Idle
      <4>2. \A d \in Dimms : d < cur \/ d = cur
        BY <2>1, <3>7, Ranges DEF Dimms
      <4>3. \A v \in Uuids : fate'[v] = fate[v] \/ (v = uuid /\ fate'[v] = "created")
        BY Zenon, <4>1 DEF TypeInv, LabelTypeOK
      <4>4. \A d \in Dimms : Clear(lsa'[d], uuid)
        BY Zenon, <3>5, <4>2
      <4>5. Standing'
        BY Zenon, <4>3, <4>4, <1>FateStep
      <4>6. QED
        BY Zenon, <4>1, <4>5, <1>Resting DEF Stays
    <3>8. QED
      BY Zenon, <3>6, <3>7
  <2>3. CASE ~ok
    BY Zenon, <2>3, <1>ModifyFailsStays DEF ModifyReturns
  <2>4. QED
    BY Zenon, <2>2, <2>3
<1>WriteStays.
  ASSUME OnlyOwn, NEW ok \in BOOLEAN, WriteReturns(ok), ok => Put
  PROVE  Stays
  BY Zenon, <1>WriteStays, <1>InitReturnsStays, <1>InsertReturnsStays, <1>ModifyReturnsStays, <1>RemoveReturnedStays
     DEF WriteReturns, RemoveReturns
<1>1. Media' /\ OnlyOwn /\ pos' = FirstCommand
  BY Zenon, MediaStep, <1>PosStep
<1>2. ASSUME DriverStart \/ PowerFail \/ NextDimm \/ \E clean \in BOOLEAN : ReenumerateNamespacesAndISs(clean)
      PROVE  Stays
  <2>1. fate' = fate /\ pc' \in {"off", "idle", "rollback", "remove"}
    BY Zenon, <1>2 DEF DriverStart, PowerFail, NextDimm, ReenumerateNamespacesAndISs, Idle
  <2>2. QED
    BY Zenon, <1>1, <2>1, <1>RestingStays
<1>3. ASSUME NEW u \in Uuids, DeleteNamespace(u) PROVE Stays
  BY Zenon, <1>1, <1>3, <1>FatefulStays DEF DeleteNamespace, Fate
<1>4. ASSUME WriteCommand \/ WriteCommandFails PROVE Stays
  <2>1. WriteLabelStorageArea(img, pos) = Done
    BY Zenon, LargeCommand DEF LargeInv
  <2>2. \/ Put /\ WriteReturns(TRUE)
        \/ WriteReturns(FALSE)
    BY Zenon, <1>4, <2>1 DEF WriteCommand, WriteCommandFails
  <2>3. QED
    BY Zenon, <1>1, <2>2, <1>WriteStays
<1>5. CASE LabelNext
  <2>1. Stays
    BY ZenonT(60), <1>1, <1>2, <1>3, <1>4, <1>5, <1>CreateStays, <1>InitializeStays, <1>VerifyStays, <1>InsertingStays,
       <1>ModifyLabelsStays, <1>ModifySlotStays, <1>RollbackEndsStays, <1>RemoveStays, <1>DeleteEndsStays
       DEF LabelNext
  <2>2. QED
    BY Zenon, <1>1, <2>1 DEF Stays, LargeInv
<1>6. CASE UNCHANGED labelVars
  BY Zenon, <1>6 DEF labelVars, LargeInv, Media, Buffer, Standing, Progress
<1>7. QED
  BY Zenon, <1>5, <1>6

LEMMA LargeInvariant ==
  ASSUME LargePayload
  PROVE  LabelSpec => [](TypeInv /\ LargeInv)
<1>1. LabelInit => TypeInv /\ LargeInv
  BY Zenon, TypeInit, LargeInit
<1>2. TypeInv /\ LargeInv /\ [LabelNext]_labelVars => (TypeInv /\ LargeInv)'
  BY Zenon, TypeStep, LargeStep
<1>3. QED
  BY <1>1, <1>2, PTL DEF LabelSpec

\* On media in order every label is in a used slot.
LEMMA HeldLabels ==
  ASSUME Media, NEW d \in Dimms, NEW u \in Uuids
  PROVE  Holds(d, u) = Labelled(lsa[d], u)
<1>1. CASE lsa[d] = ZeroLsa
  BY Zenon, <1>1, ZeroReads DEF Holds
<1>2. CASE Formed(lsa[d])
  BY Zenon, <1>2, FormedReads, FormedLabels DEF Holds
<1>3. QED
  BY Zenon, <1>1, <1>2 DEF Media

LEMMA HeldLabelsNext ==
  ASSUME Media', NEW d \in Dimms, NEW u \in Uuids
  PROVE  Holds(d, u)' = Labelled(lsa'[d], u)
<1>1. CASE lsa'[d] = ZeroLsa
  BY Zenon, <1>1, ZeroReads DEF Holds
<1>2. CASE Formed(lsa'[d])
  BY Zenon, <1>2, FormedReads, FormedLabels DEF Holds
<1>3. QED
  BY Zenon, <1>1, <1>2 DEF Media

\* What the invariant says of the properties.
LEMMA LargeFacts ==
  ASSUME TypeInv, LargeInv
  PROVE  CreatedComplete /\ UniqueLabel /\ FreeSlotRemains
<1>1. Media /\ Standing
  BY Zenon DEF LargeInv
<1>2. CreatedComplete
  <2>1. \A u \in Uuids, d \in Dimms : fate[u] = "created" =>
          \E s \in Slots : Holds(d, u) = {s} /\ lsa[d].lab[s] = Cleared(u, s)
    BY Zenon, <1>1, HeldLabels DEF Standing, Clear
  <2>2. QED
    BY Zenon, <2>1 DEF CreatedComplete, Cleared
<1>3. UniqueLabel
  <2>1. SUFFICES ASSUME NEW d \in Dimms, NEW u \in Uuids
                 PROVE  Cardinality(Holds(d, u)) <= 1
    BY Zenon DEF UniqueLabel
  <2>2. Holds(d, u) = {} \/ \E s \in Slots : Holds(d, u) = {s}
    <3>1. Labelled(lsa[d], u) = {} \/ \E s \in Slots : Labelled(lsa[d], u) = {s}
      <4>1. CASE lsa[d] = ZeroLsa
        BY Zenon, <4>1, ZeroReads
      <4>2. CASE Formed(lsa[d])
        BY Zenon, <4>2, FormedLabels
      <4>3. QED
        BY Zenon, <1>1, <4>1, <4>2 DEF Media
    <3>2. Holds(d, u) = Labelled(lsa[d], u)
      BY Zenon, <1>1, HeldLabels
    <3>3. QED
      BY Zenon, <3>1, <3>2
  <2>3. CASE Holds(d, u) = {}
    <3>1. Cardinality(Holds(d, u)) = 0
      BY Zenon, <2>3, FS_EmptySet
    <3>2. QED
      BY <3>1
  <2>4. ASSUME NEW s \in Slots, Holds(d, u) = {s}
        PROVE  Cardinality(Holds(d, u)) <= 1
    <3>1. Cardinality(Holds(d, u)) = 1
      BY Zenon, <2>4, FS_Singleton
    <3>2. QED
      BY <3>1
  <2>5. QED
    BY Zenon, <2>2, <2>3, <2>4
<1>4. FreeSlotRemains
  BY Zenon, <1>1, MediaRead DEF FreeSlotRemains, Formed
<1>5. QED
  BY Zenon, <1>2, <1>3, <1>4

\* An LSA that is written by one command has, when CreateNamespace has
\* reported success, exactly one label of the namespace, good and with the
\* Updating flag cleared, on every DIMM, whatever commands fail and whenever
\* the power does.
THEOREM CreatedStays ==
  ASSUME LargePayload
  PROVE  LabelSpec => []CreatedComplete
BY LargeInvariant, LargeFacts, PTL

\* ... and never two labels of a namespace on a DIMM, so that
\* GetAppDirectLabelByUUID does not fail on what the driver wrote.
THEOREM OneLabel ==
  ASSUME LargePayload
  PROVE  LabelSpec => []UniqueLabel
BY LargeInvariant, LargeFacts, PTL

\* ... and always a free slot for ModifyNamespaceLabels to move a label to.
THEOREM SpareSlot ==
  ASSUME LargePayload
  PROVE  LabelSpec => []FreeSlotRemains
BY LargeInvariant, LargeFacts, PTL

LEMMA StepKeepsIndex ==
  ASSUME Media, CurrentKept, NEW d \in Dimms, ValidateLsaData(lsa[d])
  PROVE  lsa'[d].idx[Current(lsa[d])] = lsa[d].idx[Current(lsa[d])]
BY Zenon, MediaRead DEF CurrentKept

\* No step, a failing one or a power failure included, overwrites a valid
\* index block while it is current.
THEOREM CurrentIndexKept ==
  ASSUME LargePayload
  PROVE  LabelSpec => OldIndexKept
<1>1. TypeInv /\ LargeInv /\ [LabelNext]_labelVars =>
        [\A d \in Dimms : ValidateLsaData(lsa[d]) /\ IndexValid(lsa[d].idx[Current(lsa[d])]) =>
           lsa'[d].idx[Current(lsa[d])] = lsa[d].idx[Current(lsa[d])]]_labelVars
  BY Zenon, MediaStep, StepKeepsIndex DEF LargeInv
<1>2. QED
  BY <1>1, LargeInvariant, PTL DEF LabelSpec, OldIndexKept

LEMMA StepKeepsOthers ==
  ASSUME Media, Media', OnlyOwn, NEW d \in Dimms, NEW u \in Uuids, u # uuid,
         NEW s \in Holds(d, u)
  PROVE  s \in Holds(d, u)' /\ lsa'[d].lab[s] = lsa[d].lab[s]
BY ZenonT(60), HeldLabels, HeldLabelsNext DEF OnlyOwn

\* A step on behalf of one namespace changes no label of another.
THEOREM OtherLabelsKept ==
  ASSUME LargePayload
  PROVE  LabelSpec => OthersKept
<1>1. TypeInv /\ LargeInv /\ [LabelNext]_labelVars =>
        [\A d \in Dimms, u \in Uuids :
           u # uuid /\ fate[u] = "created" =>
             \A s \in Holds(d, u) : s \in Holds(d, u)' /\ lsa'[d].lab[s] = lsa[d].lab[s]]_labelVars
  BY Zenon, MediaStep, StepKeepsOthers DEF LargeInv
<1>2. QED
  BY <1>1, LargeInvariant, PTL DEF LabelSpec, OthersKept

-----------------------------------------------------------------------------
(* Large payloads, no answer lost: the list and the clean-up are right     *)

LEMMA KnownInit == LabelInit => KnownInv
<1> SUFFICES ASSUME LabelInit PROVE KnownInv
  OBVIOUS
<1>1. pc \notin Creating \cup Undoing
  BY DEF LabelInit, Creating, Undoing
<1>2. Absent.st # "ok" /\ "unborn" # "undone"
  BY DEF Absent
<1>3. \A u \in Uuids : ns[u] = Absent /\ fate[u] = "unborn"
  BY Zenon DEF LabelInit
<1>4. QED
  BY Zenon, <1>1, <1>2, <1>3 DEF KnownInv, RolledBack, UndoneGone, NotListed, ListedHealthy

\* What keeps a namespace healthy first, then one step per handler.
LEMMA KnownStep ==
  ASSUME LargePayload, "lost" \notin FaultKinds, TypeInv, LargeInv, KnownInv,
         [LabelNext]_labelVars
  PROVE  KnownInv'
<1>HealthyKept.
  ASSUME OnlyOwn, NEW u \in Uuids, u # uuid, Healthy(u)
  PROVE  Healthy(u)'
  <2> USE <1>HealthyKept
  <2>1. PICK f \in {"updating", "clear"} : \A d \in Dimms :
          \E s \in Labelled(lsa[d], u) : Sealed(lsa[d].lab[s]) /\ lsa[d].lab[s].meta.flags = f
    BY Zenon DEF Healthy
  <2>2. ASSUME NEW d \in Dimms
        PROVE  \E s \in Labelled(lsa'[d], u) : Sealed(lsa'[d].lab[s]) /\ lsa'[d].lab[s].meta.flags = f
    <3>1. PICK s \in Labelled(lsa[d], u) : Sealed(lsa[d].lab[s]) /\ lsa[d].lab[s].meta.flags = f
      BY Zenon, <2>1
    <3>2. s \in Labelled(lsa'[d], u) /\ lsa'[d].lab[s] = lsa[d].lab[s]
      BY Zenon DEF OnlyOwn
    <3>3. QED
      BY Zenon, <3>1, <3>2
  <2>3. QED
    BY Zenon, <2>2 DEF Healthy
<1>HealthySame.
  ASSUME lsa' = lsa, NEW u, Healthy(u)
  PROVE  Healthy(u)'
  BY Zenon, <1>HealthySame DEF Healthy
<1>ClearHealthy.
  ASSUME NEW u \in Uuids, \A d \in Dimms : Clear(lsa'[d], u)
  PROVE  Healthy(u)'
  <2> USE <1>ClearHealthy
  <2>1. ASSUME NEW d \in Dimms
        PROVE  \E s \in Labelled(lsa'[d], u) : Sealed(lsa'[d].lab[s]) /\ lsa'[d].lab[s].meta.flags = "clear"
    <3>1. PICK s \in Slots : Labelled(lsa'[d], u) = {s} /\ lsa'[d].lab[s] = Cleared(u, s)
      BY Zenon DEF Clear
    <3>2. Sealed(Cleared(u, s)) /\ Cleared(u, s).meta.flags = "clear"
      BY Zenon, ClearedSealed, LabelFlags
    <3>3. QED
      BY Zenon, <3>1, <3>2
  <2>2. QED
    BY Zenon, <2>1 DEF Healthy
<1>HealthyLabelled.
  ASSUME NEW u, Healthy(u), NEW d \in Dimms
  PROVE  Labelled(lsa[d], u) # {}
  BY Zenon, <1>HealthyLabelled DEF Healthy
<1>UndoneKept.
  ASSUME OnlyOwn, \A u \in Uuids : fate'[u] = "undone" => fate[u] = "undone"
  PROVE  UndoneGone'
  BY Zenon, <1>UndoneKept, Busy DEF KnownInv, UndoneGone, OnlyOwn
<1>FateKept.
  ASSUME OnlyOwn, NEW u, NEW f, f # "undone",
         fate' = [fate EXCEPT ![u] = f]
  PROVE  UndoneGone'
  <2> USE <1>FateKept
  <2>1. \A v \in Uuids : fate'[v] = "undone" => fate[v] = "undone"
    BY Zenon DEF TypeInv, LabelTypeOK
  <2>2. QED
    BY Zenon, <2>1, <1>UndoneKept
<1>ListKept.
  ASSUME OnlyOwn, ns' = ns,
         \/ lsa' = lsa
         \/ pc \in Creating \cup Undoing
         \/ uuid' = uuid /\ pc' \in Removing /\ removed' > 0,
         pc \in Removing /\ removed > 0 => uuid' = uuid /\ pc' \in Removing /\ removed' > 0
  PROVE  ListedHealthy'
  <2> USE <1>ListKept
  <2>1. ASSUME NEW u \in Uuids, ns[u].st = "ok", ~(u = uuid' /\ pc' \in Removing /\ removed' > 0)
        PROVE  Healthy(u)'
    <3>1. Healthy(u)
      BY Zenon, <2>1 DEF KnownInv, ListedHealthy
    <3>2. CASE u # uuid
      BY Zenon, <3>1, <3>2, <1>HealthyKept
    <3>3. CASE u = uuid
      <4>1. lsa' = lsa
        BY Zenon, <2>1, <3>3 DEF KnownInv, NotListed
      <4>2. QED
        BY Zenon, <3>1, <4>1, <1>HealthySame
    <3>4. QED
      BY Zenon, <3>2, <3>3
  <2>2. QED
    BY Zenon, <2>1 DEF ListedHealthy
\* InitializeNamespaces lists as healthy only what it finds healthy.
<1>Enumerated.
  ASSUME LabelTypeOK, NEW list, NEW old, NEW u \in Uuids,
         InitializeNamespaces(list, old).list[u].st = "ok"
  PROVE  list[u].st = "ok" \/ Healthy(u)
  <2> USE <1>Enumerated
  <2> DEFINE found(d) == RetrieveNamespacesFromLsa(d, list)[u]
  <2>1. ASSUME NEW d \in Dimms, found(d).st = "ok", list[u].st # "ok"
        PROVE  Healthy(u)
    <3>1. PICK done \in SUBSET NewSlots(d, list) :
            found(d) = IF \E s \in done : lsa[d].lab[s].uuid = u
                       THEN Assemble(lsa[d].lab[CHOOSE s \in done : lsa[d].lab[s].uuid = u])
                       ELSE list[u]
      BY Zenon DEF RetrieveNamespacesFromLsa
    <3>2. PICK s \in done : lsa[d].lab[s].uuid = u /\ found(d) = Assemble(lsa[d].lab[s])
      <4>1. \E s \in done : lsa[d].lab[s].uuid = u
        BY Zenon, <2>1, <3>1
      <4>2. PICK t : t = CHOOSE s \in done : lsa[d].lab[s].uuid = u
        OBVIOUS
      <4>3. t \in done /\ lsa[d].lab[t].uuid = u
        BY Zenon, <4>1, <4>2
      <4>4. QED
        BY Zenon, <3>1, <4>1, <4>2, <4>3
    <3>3. s \in Slots /\ ValidateNamespaceLabel(lsa[d].lab[s])
      BY Zenon, <3>1, <3>2 DEF NewSlots, Used
    <3>4. PICK l : l = lsa[d].lab[s]
      OBVIOUS
    <3>5. RangesOf(l) = Dimms
      <4>1. Assemble(l).st = IF RangesOf(l) = Dimms THEN "ok" ELSE "critical"
        BY DEF Assemble
      <4>2. QED
        BY Zenon, <2>1, <3>2, <3>4, <4>1
    <3>6. l.meta.flags \in {"updating", "clear"}
      <4>1. lsa[d].lab[s] \in Label
        BY ZenonT(60), <3>3, LsaParts DEF LabelTypeOK
      <4>2. l.meta.flags \in {"zero", "updating", "clear"}
        BY <3>4, <4>1 DEF Label, Meta
      <4>3. QED
        BY Zenon, <3>3, <3>4, <4>2 DEF ValidateNamespaceLabel
    <3>7. ASSUME NEW e \in Dimms
          PROVE  \E t \in Labelled(lsa[e], u) : Sealed(lsa[e].lab[t]) /\ lsa[e].lab[t].meta.flags = l.meta.flags
      <4>1. l.uuid = u
        BY Zenon, <3>2, <3>4
      <4>2. PICK t \in LabelSlots(lsa[e], u) :
              lsa[e].lab[t].meta.flags = l.meta.flags /\ Sealed(lsa[e].lab[t])
        BY Zenon, <3>5, <4>1 DEF RangesOf
      <4>3. t \in Labelled(lsa[e], u)
        BY Zenon, <4>2 DEF LabelSlots, Labelled, Used
      <4>4. QED
        BY Zenon, <4>2, <4>3
    <3>8. QED
      BY Zenon, <3>6, <3>7 DEF Healthy
  <2>2. PICK lists \in SUBSET Dimms :
          InitializeNamespaces(list, old).list[u] = IF lists = {} THEN list[u] ELSE found(Min(lists))
    BY Zenon DEF InitializeNamespaces
  <2>3. lists # {} => Min(lists) \in Dimms
    BY Zenon, Ranges, MinIn
  <2>4. QED
    BY Zenon, <2>1, <2>2, <2>3
<1>IdleKnown.
  ASSUME pc' \in {"off", "idle"}
  PROVE  RolledBack' /\ NotListed'
  <2> USE <1>IdleKnown
  <2>1. pc' \notin Creating \cup Undoing
    BY DEF Creating, Undoing
  <2>2. QED
    BY Zenon, <2>1 DEF RolledBack, NotListed
<1>StartKnown.
  ASSUME OnlyOwn,
         DriverStart \/ PowerFail \/ \E clean \in BOOLEAN : ReenumerateNamespacesAndISs(clean)
  PROVE  KnownInv'
  <2> USE <1>StartKnown
  <2>1. pc' \in {"off", "idle"} /\ fate' = fate /\ lsa' = lsa
    BY Zenon DEF DriverStart, PowerFail, ReenumerateNamespacesAndISs, Idle
  <2>2. ASSUME NEW u \in Uuids, ns'[u].st = "ok"
        PROVE  Healthy(u)
    <3>1. ~PowerFail
      <4>1. Absent.st # "ok"
        BY DEF Absent
      <4>2. QED
        BY Zenon, <2>2, <4>1 DEF PowerFail
    <3>2. pc \in {"off", "idle"} /\ \E clean \in BOOLEAN : Enumerate(clean)
      BY Zenon, <3>1 DEF DriverStart, ReenumerateNamespacesAndISs
    <3>3. PICK clean \in BOOLEAN : Enumerate(clean)
      BY Zenon, <3>2
    <3>4. PICK list : /\ list = IF clean THEN [v \in Uuids |-> Absent] ELSE ns
                      /\ ns' = InitializeNamespaces(list, status).list
      BY Zenon, <3>3 DEF Enumerate
    <3>5. list[u].st = "ok" \/ Healthy(u)
      BY Zenon, <2>2, <3>4, <1>Enumerated DEF TypeInv
    <3>6. CASE clean
      <4>1. list[u] = Absent
        BY Zenon, <3>4, <3>6
      <4>2. Absent.st # "ok"
        BY DEF Absent
      <4>3. QED
        BY Zenon, <3>5, <4>1, <4>2
    <3>7. CASE ~clean
      <4>1. list = ns
        BY Zenon, <3>4, <3>7
      <4>2. pc \notin Removing
        BY <3>2 DEF Removing
      <4>3. QED
        BY Zenon, <3>5, <4>1, <4>2 DEF KnownInv, ListedHealthy
    <3>8. QED
      BY Zenon, <3>6, <3>7
  <2>3. ListedHealthy'
    BY Zenon, <2>1, <2>2, <1>HealthySame DEF ListedHealthy
  <2>4. QED
    BY Zenon, <2>1, <2>3, <1>IdleKnown, <1>UndoneKept DEF KnownInv
<1>CreateKnown.
  ASSUME OnlyOwn, NEW u \in Uuids, CreateNamespace(u)
  PROVE  KnownInv'
  <2> USE <1>CreateKnown
  <2>1. /\ pc = "idle" /\ fate[u] = "unborn" /\ pc' = "insert" /\ uuid' = u
        /\ fate' = [fate EXCEPT ![u] = "creating"] /\ lsa' = lsa /\ ns' = ns
    BY Zenon DEF CreateNamespace
  <2>2. pc \notin Removing /\ pc' \notin Undoing
    BY <2>1 DEF Removing, Undoing
  <2>3. ns[u].st # "ok"
    <3>1. 1 \in Dimms /\ Labelled(lsa[1], u) = {}
      BY Zenon, <2>1, Ranges DEF LargeInv, Standing
    <3>2. ~Healthy(u)
      BY Zenon, <3>1, <1>HealthyLabelled
    <3>3. QED
      BY Zenon, <2>2, <3>2 DEF KnownInv, ListedHealthy
  <2>4. ListedHealthy'
    BY Zenon, <2>1, <2>2, <1>ListKept
  <2>5. UndoneGone'
    BY Zenon, <2>1, <1>FateKept
  <2>6. RolledBack' /\ NotListed'
    BY Zenon, <2>1, <2>2, <2>3 DEF RolledBack, NotListed
  <2>7. QED
    BY Zenon, <2>4, <2>5, <2>6 DEF KnownInv
<1>DeleteKnown.
  ASSUME OnlyOwn, NEW u \in Uuids, DeleteNamespace(u)
  PROVE  KnownInv'
  <2> USE <1>DeleteKnown
  <2>1. /\ pc = "idle" /\ pc' = "remove"
        /\ fate' = [fate EXCEPT ![u] = "deleting"] /\ lsa' = lsa /\ ns' = ns
    BY Zenon DEF DeleteNamespace
  <2>2. pc \notin Removing /\ pc' \notin Creating \cup Undoing
    BY <2>1 DEF Removing, Undoing, Creating
  <2>3. ListedHealthy'
    BY Zenon, <2>1, <2>2, <1>ListKept
  <2>4. UndoneGone'
    BY Zenon, <2>1, <1>FateKept
  <2>5. QED
    BY Zenon, <2>2, <2>3, <2>4 DEF KnownInv, RolledBack, NotListed
\* When an insertion fails the DIMMs from cur on have no label.
<1>InsertingKnown.
  ASSUME OnlyOwn, pc \in {"insert", "init", "verify", "inserting"},
         uuid' = uuid, ns' = ns, fate' = fate,
         pc' \in Creating \/ (InsertFails /\ lsa' = lsa)
  PROVE  KnownInv'
  <2> USE <1>InsertingKnown
  <2>1. pc \in Creating /\ pc \notin Removing
    BY DEF Creating, Removing
  <2>2. UndoneGone' /\ ListedHealthy'
    BY Zenon, <2>1, <1>UndoneKept, <1>ListKept
  <2>3. NotListed'
    BY Zenon, <2>1 DEF KnownInv, NotListed
  <2>4. CASE pc' \in Creating
    <3>1. pc' \notin Undoing
      BY <2>4 DEF Creating, Undoing
    <3>2. QED
      BY Zenon, <2>2, <2>3, <3>1 DEF KnownInv, RolledBack
  <2>5. CASE InsertFails /\ lsa' = lsa
    <3>1. \A d \in Dimms \ todo' : d >= cur
      <4>1. todo' = 1..(cur - 1) /\ cur \in Dimms
        BY Zenon, <2>5 DEF InsertFails, TypeInv, LabelTypeOK
      <4>2. QED
        BY <4>1, Ranges DEF Dimms
    <3>2. \A d \in Dimms : d >= cur => Labelled(lsa[d], uuid) = {}
      BY Zenon DEF LargeInv, Progress
    <3>3. RolledBack'
      BY Zenon, <2>5, <3>1, <3>2 DEF RolledBack
    <3>4. QED
      BY Zenon, <2>2, <2>3, <3>3 DEF KnownInv
  <2>6. QED
    BY Zenon, <2>4, <2>5
<1>ModifyingKnown.
  ASSUME OnlyOwn, Standing', pc \in {"modify", "modslot", "modifying"},
         \/ ModifyNext \/ ModifyFails
         \/ pc' \in {"modify", "modslot", "modifying"} /\ ns' = ns /\ uuid' = uuid /\ fate' = fate
  PROVE  KnownInv'
  <2> USE <1>ModifyingKnown
  <2>1. pc \in Creating /\ pc \notin Removing
    BY DEF Creating, Removing
  <2>2. ASSUME pc' \in {"modify", "modslot", "modifying"}, ns' = ns, uuid' = uuid, fate' = fate
        PROVE  KnownInv'
    <3>1. pc' \notin Undoing
      BY <2>2 DEF Undoing
    <3>2. UndoneGone' /\ ListedHealthy'
      BY Zenon, <2>1, <2>2, <1>UndoneKept, <1>ListKept
    <3>3. NotListed' /\ RolledBack'
      BY Zenon, <2>1, <2>2, <3>1 DEF KnownInv, NotListed, RolledBack
    <3>4. QED
      BY Zenon, <3>2, <3>3 DEF KnownInv
  <2>3. ASSUME ModifyFails PROVE KnownInv'
    <3>1. pc' = "idle" /\ ns' = ns /\ fate' = [fate EXCEPT ![uuid] = "broken"]
      BY Zenon, <2>3 DEF ModifyFails, Idle
    <3>2. UndoneGone' /\ ListedHealthy'
      BY Zenon, <2>1, <3>1, <1>FateKept, <1>ListKept
    <3>3. QED
      BY Zenon, <3>1, <3>2, <1>IdleKnown DEF KnownInv
  <2>4. ASSUME ModifyNext, ~(cur < NDimms) PROVE KnownInv'
    <3>1. PICK ok : ok = [st |-> "ok", ranges |-> Dimms]
      BY Zenon
    <3>2. /\ pc' = "idle" /\ ns' = [ns EXCEPT ![uuid] = ok]
          /\ fate' = [fate EXCEPT ![uuid] = "created"]
      BY Zenon, <2>4, <3>1 DEF ModifyNext, Idle
    <3>3. uuid \in Uuids
      BY Zenon, <2>1, Busy
    <3>4. fate'[uuid] = "created"
      BY Zenon, <3>2, <3>3 DEF TypeInv, LabelTypeOK
    <3>5. ASSUME NEW v \in Uuids, ns'[v].st = "ok" PROVE Healthy(v)'
      <4>1. CASE v = uuid
        <5>1. \A d \in Dimms : Clear(lsa'[d], v)
          BY Zenon, <3>4, <4>1 DEF Standing
        <5>2. QED
          BY Zenon, <5>1, <1>ClearHealthy
      <4>2. CASE v # uuid
        <5>1. ns'[v] = ns[v]
          BY Zenon, <3>2, <4>2 DEF TypeInv, LabelTypeOK
        <5>2. Healthy(v)
          BY Zenon, <3>5, <4>2, <5>1 DEF KnownInv, ListedHealthy
        <5>3. QED
          BY Zenon, <4>2, <5>2, <1>HealthyKept
      <4>3. QED
        BY Zenon, <4>1, <4>2
    <3>6. ListedHealthy'
      BY Zenon, <3>5 DEF ListedHealthy
    <3>7. UndoneGone'
      BY Zenon, <3>2, <1>FateKept
    <3>8. QED
      BY Zenon, <3>2, <3>6, <3>7, <1>IdleKnown DEF KnownInv
  <2>5. ASSUME ModifyNext, cur < NDimms PROVE KnownInv'
    BY Zenon, <2>2, <2>5 DEF ModifyNext
  <2>6. QED
    BY Zenon, <2>2, <2>3, <2>4, <2>5
<1>UndoingKnown.
  ASSUME OnlyOwn, NEW ok \in BOOLEAN,
         pc \in Undoing, RemoveReturned(ok), uuid' = uuid, ns' = ns,
         ok => pc \in Writing /\ Put, ~ok => lsa' = lsa
  PROVE  KnownInv'
  <2> USE <1>UndoingKnown
  <2>1. pc \notin Removing /\ pc \in {"rollback", "undoing"}
    BY DEF Undoing, Removing
  <2>2. /\ pc' = "rollback" /\ todo' = todo \ {cur}
        /\ fate' = IF ~ok THEN [fate EXCEPT ![uuid] = "left"] ELSE fate
    BY Zenon, <2>1 DEF RemoveReturned
  <2>3. ListedHealthy' /\ NotListed'
    <3>1. ListedHealthy'
      BY Zenon, <2>1, <1>ListKept
    <3>2. QED
      BY Zenon, <3>1 DEF KnownInv, NotListed
  <2>4. CASE ok
    <3>1. UndoneGone'
      BY Zenon, <2>2, <2>4, <1>UndoneKept
    <3>2. pc = "undoing"
      BY <2>1, <2>4 DEF Writing
    <3>3. /\ lsa'[cur] = img /\ \A d \in Dimms \ {cur} : lsa'[d] = lsa[d]
          /\ Labelled(img, uuid) = {}
      BY Zenon, <2>4, <3>2, PutFacts, BufferFacts
    <3>4. ASSUME fate[uuid] = "creating", NEW d \in Dimms, d \notin todo \/ d = cur
          PROVE  Labelled(lsa'[d], uuid) = {}
      BY Zenon, <3>3, <3>4 DEF KnownInv, RolledBack
    <3>5. RolledBack'
      BY Zenon, <2>2, <2>4, <3>4 DEF RolledBack
    <3>6. QED
      BY Zenon, <2>3, <3>1, <3>5 DEF KnownInv
  <2>5. CASE ~ok
    <3>1. fate' = [fate EXCEPT ![uuid] = "left"] /\ uuid \in Uuids
      BY Zenon, <2>2, <2>5, Busy
    <3>2. UndoneGone'
      BY Zenon, <3>1, <1>FateKept
    <3>3. fate'[uuid] = "left"
      BY Zenon, <3>1 DEF TypeInv, LabelTypeOK
    <3>4. RolledBack'
      BY Zenon, <3>3 DEF RolledBack
    <3>5. QED
      BY Zenon, <2>3, <3>2, <3>4 DEF KnownInv
  <2>6. QED
    BY Zenon, <2>4, <2>5
<1>RemovingKnown.
  ASSUME OnlyOwn, NEW ok \in BOOLEAN,
         pc \in Removing, RemoveReturned(ok), uuid' = uuid, ns' = ns, ~ok => lsa' = lsa
  PROVE  KnownInv'
  <2> USE <1>RemovingKnown
  <2>1. pc \notin {"rollback", "undoing"} /\ pc \in {"remove", "removing"}
    BY DEF Removing
  <2>2. pc' = "remove" /\ removed' = IF ok THEN removed + 1 ELSE removed
    BY Zenon, <2>1 DEF RemoveReturned
  <2>3. pc' \in Removing /\ pc' \notin Creating \cup Undoing /\ pc' # "rollback"
    BY <2>2 DEF Removing, Creating, Undoing
  <2>4. fate' = fate
    BY Zenon, <2>3 DEF RemoveReturned
  <2>5. (ok \/ removed > 0) => removed' > 0
    <3>1. removed \in Nat
      BY Ranges DEF TypeInv, LabelTypeOK
    <3>2. removed + 1 > 0
      BY <3>1
    <3>3. QED
      BY Zenon, <2>2, <3>2
  <2>6. ListedHealthy'
    BY Zenon, <2>3, <2>5, <1>ListKept
  <2>7. UndoneGone'
    BY Zenon, <2>4, <1>UndoneKept
  <2>8. QED
    BY Zenon, <2>3, <2>6, <2>7 DEF KnownInv, RolledBack, NotListed
<1>RollbackEndsKnown.
  ASSUME OnlyOwn, RollbackEnds
  PROVE  KnownInv'
  <2> USE <1>RollbackEndsKnown
  <2>1. /\ pc = "rollback" /\ todo = {} /\ pc' = "idle" /\ lsa' = lsa /\ ns' = ns
        /\ fate' = [fate EXCEPT ![uuid] = IF fate[uuid] = "left" THEN "left" ELSE "undone"]
    BY Zenon DEF RollbackEnds, Idle
  <2>2. pc \in Undoing /\ pc \notin Removing
    BY <2>1 DEF Undoing, Removing
  <2>3. ASSUME NEW u \in Uuids, fate'[u] = "undone", NEW d \in Dimms
        PROVE  Labelled(lsa[d], u) = {}
    <3>1. CASE u = uuid
      <4>1. fate'[uuid] = IF fate[uuid] = "left" THEN "left" ELSE "undone"
        BY Zenon, <2>1, <3>1 DEF TypeInv, LabelTypeOK
      <4>2. "left" # "undone"
        OBVIOUS
      <4>3. fate[uuid] # "left"
        BY Zenon, <2>3, <3>1, <4>1, <4>2
      <4>4. fate[uuid] = "creating"
        BY Zenon, <2>2, <4>3 DEF TypeInv, RoleOK
      <4>5. QED
        BY Zenon, <2>1, <2>2, <3>1, <4>4 DEF KnownInv, RolledBack
    <3>2. CASE u # uuid
      <4>1. fate[u] = "undone"
        BY Zenon, <2>1, <2>3, <3>2 DEF TypeInv, LabelTypeOK
      <4>2. QED
        BY Zenon, <4>1 DEF KnownInv, UndoneGone
    <3>3. QED
      BY Zenon, <3>1, <3>2
  <2>4. UndoneGone'
    BY Zenon, <2>1, <2>3 DEF UndoneGone
  <2>5. ListedHealthy'
    BY Zenon, <2>1, <2>2, <1>ListKept
  <2>6. QED
    BY Zenon, <2>1, <2>4, <2>5, <1>IdleKnown DEF KnownInv
<1>DeleteEndsKnown.
  ASSUME OnlyOwn, DeleteEnds
  PROVE  KnownInv'
  <2> USE <1>DeleteEndsKnown
  <2>1. pc = "remove" /\ pc' = "idle" /\ lsa' = lsa
    BY Zenon DEF DeleteEnds, Idle
  <2>2. UndoneGone'
    BY Zenon, <1>UndoneKept, <1>FateKept DEF DeleteEnds
  <2>3. Absent.st # "ok"
    BY DEF Absent
  <2>4. \A u \in Uuids : ns[u].st = "ok" /\ (u # uuid \/ removed = 0) => Healthy(u)
    <3>1. removed = 0 => ~(removed > 0)
      OBVIOUS
    <3>2. QED
      BY Zenon, <3>1 DEF KnownInv, ListedHealthy
  <2>5. ASSUME NEW u \in Uuids, ns'[u].st = "ok"
        PROVE  Healthy(u)
    <3>1. ASSUME removed = 0, ns' = ns
          PROVE  Healthy(u)
      BY Zenon, <2>4, <2>5, <3>1
    <3>2. PICK list : list = [v \in Uuids |-> Absent]
      BY Zenon
    <3>3. ASSUME NEW lost,
                 ns' = [v \in Uuids |-> IF v \in lost THEN Absent
                                        ELSE InitializeNamespaces(list, status).list[v]]
          PROVE  Healthy(u)
      <4>1. InitializeNamespaces(list, status).list[u].st = "ok"
        BY Zenon, <2>3, <2>5, <3>3
      <4>2. list[u].st # "ok"
        BY Zenon, <2>3, <3>2
      <4>3. QED
        BY Zenon, <4>1, <4>2, <1>Enumerated DEF TypeInv
    <3>4. ASSUME ns' = [ns EXCEPT ![uuid] = Absent]
          PROVE  Healthy(u)
      <4>1. CASE u = uuid
        <5>1. ns'[u] = Absent
          BY Zenon, <3>4, <4>1 DEF TypeInv, LabelTypeOK
        <5>2. QED
          BY Zenon, <2>3, <2>5, <5>1
      <4>2. CASE u # uuid
        <5>1. ns'[u] = ns[u]
          BY Zenon, <3>4, <4>2 DEF TypeInv, LabelTypeOK
        <5>2. QED
          BY Zenon, <2>4, <2>5, <4>2, <5>1
      <4>3. QED
        BY Zenon, <4>1, <4>2
    <3>5. \/ removed = 0 /\ ns' = ns
          \/ \E lost : ns' = [v \in Uuids |-> IF v \in lost THEN Absent
                                             ELSE InitializeNamespaces(list, status).list[v]]
          \/ ns' = [ns EXCEPT ![uuid] = Absent]
      BY ZenonT(60), <3>2 DEF DeleteEnds
    <3>6. CASE \E lost : ns' = [v \in Uuids |-> IF v \in lost THEN Absent
                                               ELSE InitializeNamespaces(list, status).list[v]]
      <4>1. PICK lost : ns' = [v \in Uuids |-> IF v \in lost THEN Absent
                                               ELSE InitializeNamespaces(list, status).list[v]]
        BY Zenon, <3>6
      <4>2. QED
        BY Zenon, <3>3, <4>1
    <3>7. QED
      BY Zenon, <3>1, <3>4, <3>5, <3>6
  <2>6. ListedHealthy'
    BY Zenon, <2>1, <2>5, <1>HealthySame DEF ListedHealthy
  <2>7. QED
    BY Zenon, <2>1, <2>2, <2>6, <1>IdleKnown DEF KnownInv
<1>RemoveKnown.
  ASSUME OnlyOwn, RemoveNamespaceLabels
  PROVE  KnownInv'
  <2> USE <1>RemoveKnown
  <2>1. pc \in {"rollback", "remove"} /\ uuid' = uuid /\ ns' = ns /\ lsa' = lsa
    BY Zenon DEF RemoveNamespaceLabels
  <2>2. pc \in Undoing \/ pc \in Removing
    BY <2>1 DEF Undoing, Removing
  <2>3. CASE RemoveReturned(FALSE)
    BY Zenon, <2>1, <2>2, <2>3, <1>UndoingKnown, <1>RemovingKnown
  <2>4. CASE /\ pc' = IF pc = "rollback" THEN "undoing" ELSE "removing"
             /\ UNCHANGED <<todo, removed, fate>>
    <3>1. /\ pc' \in Undoing <=> pc \in Undoing
          /\ pc' \in Removing <=> pc \in Removing
          /\ pc' \notin Creating /\ pc \notin Creating
      BY <2>1, <2>4 DEF Undoing, Removing, Creating
    <3>2. todo' = todo /\ removed' = removed /\ fate' = fate
      BY Zenon, <2>4
    <3>3. ListedHealthy' /\ UndoneGone'
      BY Zenon, <2>1, <3>1, <3>2, <1>ListKept, <1>UndoneKept
    <3>4. RolledBack' /\ NotListed'
      BY Zenon, <2>1, <3>1, <3>2 DEF KnownInv, RolledBack, NotListed
    <3>5. QED
      BY Zenon, <3>3, <3>4 DEF KnownInv
  <2>5. QED
    BY Zenon, <2>3, <2>4 DEF RemoveNamespaceLabels, StartWrite
<1>WriteKnown.
  ASSUME OnlyOwn, Standing', NEW ok \in BOOLEAN,
         pc \in Writing, WriteReturns(ok), ok => Put, ~ok => lsa' = lsa
  PROVE  KnownInv'
  <2> USE <1>WriteKnown
  <2>1. CASE InitReturns(ok)
    <3>1. /\ pc = "init" /\ uuid' = uuid /\ ns' = ns /\ fate' = fate
          /\ pc' = "verify" \/ (InsertFails /\ lsa' = lsa)
      BY Zenon, <2>1 DEF InitReturns, CouldNotInit
    <3>2. "verify" \in Creating
      BY DEF Creating
    <3>3. QED
      BY Zenon, <3>1, <3>2, <1>InsertingKnown
  <2>2. CASE InsertReturns(ok)
    <3>1. /\ pc = "inserting" /\ uuid' = uuid /\ ns' = ns /\ fate' = fate
          /\ pc' = "insert" \/ pc' = "modify" \/ (InsertFails /\ lsa' = lsa)
      BY Zenon, <2>2 DEF InsertReturns
    <3>2. "insert" \in Creating /\ "modify" \in Creating
      BY DEF Creating
    <3>3. QED
      BY Zenon, <3>1, <3>2, <1>InsertingKnown
  <2>3. CASE ModifyReturns(ok)
    <3>1. /\ pc = "modifying"
          /\ \/ ModifyNext \/ ModifyFails
             \/ pc' = "modslot" /\ ns' = ns /\ uuid' = uuid /\ fate' = fate
      BY Zenon, <2>3 DEF ModifyReturns, SlotDone
    <3>2. QED
      BY Zenon, <3>1, <1>ModifyingKnown
  <2>4. CASE RemoveReturns(ok)
    <3>1. /\ pc \in {"undoing", "removing"} /\ RemoveReturned(ok) /\ uuid' = uuid /\ ns' = ns
      BY Zenon, <2>4 DEF RemoveReturns
    <3>2. pc \in Undoing \/ pc \in Removing
      BY <3>1 DEF Undoing, Removing
    <3>3. QED
      BY Zenon, <3>1, <3>2, <1>UndoingKnown, <1>RemovingKnown
  <2>5. QED
    BY Zenon, <2>1, <2>2, <2>3, <2>4 DEF WriteReturns
<1>PrepareKnown.
  ASSUME OnlyOwn, Standing',
         \/ InitializeLabelStorageArea \/ VerifyInit \/ InsertNamespaceLabels
         \/ ModifyNamespaceLabels \/ ModifyLabelAtSlot
  PROVE  KnownInv'
  <2> USE <1>PrepareKnown
  <2>1. {"init", "verify", "insert", "inserting"} \subseteq Creating
    BY DEF Creating
  <2>2. CASE InitializeLabelStorageArea
    <3>1. /\ pc = "insert" /\ uuid' = uuid /\ ns' = ns /\ fate' = fate
          /\ pc' = "init" \/ pc' = "verify" \/ (InsertFails /\ lsa' = lsa)
      BY Zenon, <2>2 DEF InitializeLabelStorageArea, CouldNotInit, StartWrite
    <3>2. QED
      BY Zenon, <2>1, <3>1, <1>InsertingKnown
  <2>3. CASE VerifyInit
    <3>1. /\ pc = "verify" /\ uuid' = uuid /\ ns' = ns /\ fate' = fate
          /\ pc' = "insert" \/ (InsertFails /\ lsa' = lsa)
      BY Zenon, <2>3 DEF VerifyInit
    <3>2. QED
      BY Zenon, <2>1, <3>1, <1>InsertingKnown
  <2>4. CASE InsertNamespaceLabels
    <3>1. /\ pc = "insert" /\ uuid' = uuid /\ ns' = ns /\ fate' = fate
          /\ pc' = "inserting" \/ (InsertFails /\ lsa' = lsa)
      BY Zenon, <2>4 DEF InsertNamespaceLabels, StartWrite
    <3>2. QED
      BY Zenon, <2>1, <3>1, <1>InsertingKnown
  <2>5. CASE ModifyNamespaceLabels
    <3>1. /\ pc = "modify"
          /\ \/ ModifyNext \/ ModifyFails
             \/ pc' = "modslot" /\ ns' = ns /\ uuid' = uuid /\ fate' = fate
      BY Zenon, <2>5 DEF ModifyNamespaceLabels
    <3>2. QED
      BY Zenon, <3>1, <1>ModifyingKnown
  <2>6. CASE ModifyLabelAtSlot
    <3>1. /\ pc = "modslot"
          /\ \/ ModifyNext \/ ModifyFails
             \/ pc' \in {"modslot", "modifying"} /\ ns' = ns /\ uuid' = uuid /\ fate' = fate
      BY Zenon, <2>6 DEF ModifyLabelAtSlot, SlotDone, StartWrite
    <3>2. QED
      BY Zenon, <3>1, <1>ModifyingKnown
  <2>7. QED
    BY Zenon, <2>2, <2>3, <2>4, <2>5, <2>6
<1>1. OnlyOwn /\ Standing'
  BY Zenon, MediaStep, LargeStep DEF LargeInv
<1>2. CASE WriteCommand \/ WriteCommandFails
  <2>1. WriteLabelStorageArea(img, pos) = Done
    BY Zenon, LargeCommand DEF LargeInv
  <2>2. /\ pc \in Writing
        /\ \/ Put /\ WriteReturns(TRUE)
           \/ lsa' = lsa /\ WriteReturns(FALSE)
    BY Zenon, <1>2, <2>1 DEF WriteCommand, WriteCommandFails, Fault
  <2>3. QED
    BY Zenon, <1>1, <2>2, <1>WriteKnown
<1>3. CASE NextDimm
  BY ZenonT(60), <1>3 DEF NextDimm, KnownInv, RolledBack, UndoneGone, NotListed, ListedHealthy, Healthy
<1>4. CASE UNCHANGED labelVars
  BY Zenon, <1>4 DEF labelVars, KnownInv, RolledBack, UndoneGone, NotListed, ListedHealthy, Healthy
<1>5. QED
  BY ZenonT(60), <1>1, <1>2, <1>3, <1>4, <1>StartKnown, <1>CreateKnown, <1>DeleteKnown, <1>PrepareKnown,
     <1>RollbackEndsKnown, <1>RemoveKnown, <1>DeleteEndsKnown DEF LabelNext

LEMMA KnownInvariant ==
  ASSUME LargePayload, "lost" \notin FaultKinds
  PROVE  LabelSpec => [](LargeInv /\ KnownInv)
<1>1. LabelInit => KnownInv
  BY Zenon, KnownInit
<1>2. TypeInv /\ LargeInv /\ KnownInv /\ [LabelNext]_labelVars => KnownInv'
  BY Zenon, KnownStep
<1>3. QED
  BY <1>1, <1>2, LargeInvariant, PTL DEF LabelSpec

LEMMA KnownFacts ==
  ASSUME LargeInv, KnownInv
  PROVE  HealthyComplete /\ UndoneClean
<1>1. Media
  BY Zenon DEF LargeInv
<1>2. HealthyComplete
  <2>1. SUFFICES ASSUME NEW u \in Uuids, Healthy(u)
                 PROVE  \E f \in {"updating", "clear"} : \A d \in Dimms :
                          \E s \in Holds(d, u) : Sealed(lsa[d].lab[s]) /\ lsa[d].lab[s].meta.flags = f
    BY Zenon DEF KnownInv, ListedHealthy, HealthyComplete
  <2>2. \A d \in Dimms : Holds(d, u) = Labelled(lsa[d], u)
    BY Zenon, <1>1, HeldLabels
  <2>3. QED
    BY Zenon, <2>1, <2>2 DEF Healthy
<1>3. UndoneClean
  BY Zenon, <1>1, HeldLabels DEF KnownInv, UndoneGone, UndoneClean
<1>4. QED
  BY Zenon, <1>2, <1>3

\* When no command fails after it was carried out, InitializeNamespaces and
\* CreateNamespace list a namespace as healthy only while every DIMM has a
\* good label of it, all with the same flags.
THEOREM ListIsTrue ==
  ASSUME LargePayload, "lost" \notin FaultKinds
  PROVE  LabelSpec => []HealthyComplete
BY KnownInvariant, KnownFacts, PTL

\* ... and a CreateNamespace that was undone has left no label behind.
THEOREM UndoneLeavesNothing ==
  ASSUME LargePayload, "lost" \notin FaultKinds
  PROVE  LabelSpec => []UndoneClean
BY KnownInvariant, KnownFacts, PTL

-----------------------------------------------------------------------------
(* Large payloads, nothing has failed: a deletion is complete              *)

LEMMA CalmInit == LabelInit => CalmInv
<1> SUFFICES ASSUME LabelInit PROVE CalmInv
  OBVIOUS
<1>1. pc = "off" /\ faults = 0 /\ crashes = 0
  BY Zenon DEF LabelInit
<1>2. \A u \in Uuids : ns[u] = Absent /\ NoLabel(u)
  BY Zenon, ZeroReads DEF LabelInit, NoLabel
<1>3. pc \notin Undoing \cup Removing
  BY <1>1 DEF Undoing, Removing
<1>4. QuietInv
  BY Zenon, <1>2, <1>3 DEF QuietInv, Accounted, ListedWhole, Removal
<1>5. faults \in Nat /\ crashes \in Nat
  BY <1>1
<1>6. QED
  BY Zenon, <1>4, <1>5 DEF CalmInv

\* What enumeration lists first, then one step per handler.
LEMMA CalmStep ==
  ASSUME LargePayload, TypeInv, LargeInv, CalmInv, [LabelNext]_labelVars
  PROVE  CalmInv'
<1>NoLabelKept.
  ASSUME OnlyOwn, NEW u \in Uuids, u # uuid, NoLabel(u)
  PROVE  NoLabel(u)'
  BY Zenon, <1>NoLabelKept DEF OnlyOwn, NoLabel
<1>NoLabelSame.
  ASSUME lsa' = lsa, NEW u, NoLabel(u)
  PROVE  NoLabel(u)'
  BY Zenon, <1>NoLabelSame DEF NoLabel
\* Media with a label are well formed.
<1>LabelledFormed.
  ASSUME Media, NEW d \in Dimms, NEW u \in Uuids, Labelled(lsa[d], u) # {}
  PROVE  Formed(lsa[d])
  BY Zenon, <1>LabelledFormed, ZeroReads DEF Media
\* What InitializeNamespaces says of a namespace is what was listed before or
\* what it assembles from a label.
<1>EnumeratedFrom.
  ASSUME LabelTypeOK, NEW list, NEW old, NEW u \in Uuids
  PROVE  \/ InitializeNamespaces(list, old).list[u] = list[u]
         \/ \E d \in Dimms : \E s \in Labelled(lsa[d], u) :
              InitializeNamespaces(list, old).list[u] = Assemble(lsa[d].lab[s])
  <2> USE <1>EnumeratedFrom
  <2> DEFINE found(d) == RetrieveNamespacesFromLsa(d, list)[u]
  <2>1. ASSUME NEW d \in Dimms
        PROVE  found(d) = list[u] \/ \E s \in Labelled(lsa[d], u) : found(d) = Assemble(lsa[d].lab[s])
    <3>1. PICK done \in SUBSET NewSlots(d, list) :
            found(d) = IF \E s \in done : lsa[d].lab[s].uuid = u
                       THEN Assemble(lsa[d].lab[CHOOSE s \in done : lsa[d].lab[s].uuid = u])
                       ELSE list[u]
      BY Zenon DEF RetrieveNamespacesFromLsa
    <3>2. CASE \E s \in done : lsa[d].lab[s].uuid = u
      <4>1. PICK t : t = CHOOSE s \in done : lsa[d].lab[s].uuid = u
        OBVIOUS
      <4>2. t \in done /\ lsa[d].lab[t].uuid = u
        BY Zenon, <3>2, <4>1
      <4>3. t \in Labelled(lsa[d], u)
        BY Zenon, <3>1, <4>2 DEF NewSlots, Used, Labelled
      <4>4. QED
        BY Zenon, <3>1, <3>2, <4>1, <4>3
    <3>3. CASE ~\E s \in done : lsa[d].lab[s].uuid = u
      BY Zenon, <3>1, <3>3
    <3>4. QED
      BY Zenon, <3>2, <3>3
  <2>2. PICK lists \in SUBSET Dimms :
          InitializeNamespaces(list, old).list[u] = IF lists = {} THEN list[u] ELSE found(Min(lists))
    BY Zenon DEF InitializeNamespaces
  <2>3. lists # {} => Min(lists) \in Dimms
    BY Zenon, Ranges, MinIn
  <2>4. QED
    BY Zenon, <2>1, <2>2, <2>3
\* A complete set of labels is assembled to a whole namespace.
<1>AssembledWhole.
  ASSUME NEW u \in Uuids, \A d \in Dimms : Clear(lsa[d], u),
         NEW d \in Dimms, NEW s \in Labelled(lsa[d], u)
  PROVE  Assemble(lsa[d].lab[s]).ranges = Dimms
  <2> USE <1>AssembledWhole
  <2>1. PICK l : l = lsa[d].lab[s]
    OBVIOUS
  <2>2. l = Cleared(u, s)
    BY Zenon, <2>1 DEF Clear
  <2>3. l.uuid = u /\ l.meta.flags = "clear"
    BY Zenon, <2>2, LabelUuids, LabelFlags
  <2>4. ASSUME NEW e \in Dimms
        PROVE  e \in RangesOf(l)
    <3>1. PICK t \in Slots : Labelled(lsa[e], u) = {t} /\ lsa[e].lab[t] = Cleared(u, t)
      BY Zenon DEF Clear
    <3>2. Formed(lsa[e])
      BY Zenon, <3>1, <1>LabelledFormed DEF LargeInv
    <3>3. ValidateLsaData(lsa[e]) /\ t \in Used(lsa[e])
      BY Zenon, <3>1, <3>2, FormedReads, FormedLabels
    <3>4. PICK m : m = lsa[e].lab[t]
      OBVIOUS
    <3>5. m.uuid = u /\ m.type /\ m.meta.flags = "clear" /\ Sealed(m)
      <4>1. m = Cleared(u, t)
        BY Zenon, <3>1, <3>4
      <4>2. m.uuid = u /\ m.type = TRUE /\ m.meta.flags = "clear" /\ Sealed(m)
        BY Zenon, <4>1, LabelUuids, LabelFlags, ClearedSealed
      <4>3. m.type = TRUE => m.type
        OBVIOUS
      <4>4. QED
        BY Zenon, <4>2, <4>3
    <3>6. "clear" # "zero"
      OBVIOUS
    <3>7. t \in LabelSlots(lsa[e], l.uuid) /\ ValidateNamespaceLabel(m)
      BY Zenon, <2>3, <3>3, <3>4, <3>5, <3>6 DEF LabelSlots, ValidateNamespaceLabel
    <3>8. QED
      BY Zenon, <2>3, <3>3, <3>4, <3>5, <3>7 DEF RangesOf
  <2>5. RangesOf(l) = Dimms
    BY Zenon, <2>4 DEF RangesOf
  <2>6. Assemble(l).ranges = RangesOf(l)
    BY DEF Assemble
  <2>7. QED
    BY Zenon, <2>1, <2>5, <2>6
<1>StartQuiet.
  ASSUME QuietInv, OnlyOwn,
         DriverStart \/ \E clean \in BOOLEAN : ReenumerateNamespacesAndISs(clean)
  PROVE  QuietInv'
  <2> USE <1>StartQuiet
  <2>1. /\ pc \in {"off", "idle"} /\ pc' = "idle" /\ uuid' = NoUuid /\ fate' = fate /\ lsa' = lsa
        /\ \E clean \in BOOLEAN : Enumerate(clean)
    BY Zenon DEF DriverStart, ReenumerateNamespacesAndISs, Idle, TypeInv, RoleOK
  <2>2. uuid = NoUuid /\ uuid \notin Uuids
    BY Zenon, <2>1, LabelConstants DEF TypeInv, RoleOK
  <2>3. ASSUME NEW u \in Uuids, ns'[u] # Absent
        PROVE  ns'[u].ranges = Dimms /\ fate[u] = "created"
    <3>1. PICK clean \in BOOLEAN : Enumerate(clean)
      BY Zenon, <2>1
    <3>2. PICK list : /\ list = IF clean THEN [v \in Uuids |-> Absent] ELSE ns
                      /\ ns' = InitializeNamespaces(list, status).list
      BY Zenon, <3>1 DEF Enumerate
    <3>3. CASE ns'[u] = list[u]
      <4>1. list = ns
        BY Zenon, <2>3, <3>2, <3>3
      <4>2. QED
        BY Zenon, <2>2, <2>3, <3>3, <4>1 DEF QuietInv, ListedWhole
    <3>4. ASSUME NEW d \in Dimms, NEW s \in Labelled(lsa[d], u), ns'[u] = Assemble(lsa[d].lab[s])
          PROVE  ns'[u].ranges = Dimms /\ fate[u] = "created"
      <4>1. fate[u] = "created"
        BY Zenon, <2>2, <3>4 DEF QuietInv, Accounted, NoLabel
      <4>2. \A e \in Dimms : Clear(lsa[e], u)
        BY Zenon, <4>1 DEF LargeInv, Standing
      <4>3. QED
        BY Zenon, <3>4, <4>1, <4>2, <1>AssembledWhole
    <3>5. QED
      BY ZenonT(60), <3>2, <3>3, <3>4, <1>EnumeratedFrom DEF TypeInv
  <2>4. ListedWhole'
    BY Zenon, <2>1, <2>3 DEF ListedWhole
  <2>5. Accounted'
    <3>1. pc' # "off"
      BY <2>1
    <3>2. QED
      BY Zenon, <2>1, <2>2, <3>1, <1>NoLabelSame DEF QuietInv, Accounted
  <2>6. Removal'
    BY <2>1 DEF Removal, Undoing, Removing
  <2>7. QED
    BY Zenon, <2>4, <2>5, <2>6 DEF QuietInv
\* A step that changes neither the list nor what was reported.
<1>SameListQuiet.
  ASSUME QuietInv, OnlyOwn, ns' = ns, fate' = fate, uuid' = uuid,
         pc \in Removing => pc' \in Removing, pc' # "off"
  PROVE  Accounted' /\ ListedWhole'
  <2> USE <1>SameListQuiet
  <2>1. Accounted'
    BY Zenon, <1>NoLabelKept DEF QuietInv, Accounted
  <2>2. ListedWhole'
    BY Zenon DEF QuietInv, ListedWhole
  <2>3. QED
    BY Zenon, <2>1, <2>2
<1>CreateQuiet.
  ASSUME QuietInv, OnlyOwn, NEW u \in Uuids, CreateNamespace(u)
  PROVE  QuietInv'
  <2> USE <1>CreateQuiet
  <2>1. /\ pc = "idle" /\ fate[u] = "unborn" /\ pc' = "insert" /\ uuid' = u
        /\ fate' = [fate EXCEPT ![u] = "creating"] /\ lsa' = lsa /\ ns' = ns
    BY Zenon DEF CreateNamespace
  <2>2. pc' # "off" /\ pc \notin Removing /\ pc' \notin Undoing \cup Removing /\ "unborn" # "created"
    BY <2>1 DEF Undoing, Removing
  <2>3. \A v \in Uuids \ {u} : fate'[v] = fate[v]
    BY Zenon, <2>1 DEF TypeInv, LabelTypeOK
  <2>4. uuid \notin Uuids
    BY Zenon, <2>1, LabelConstants DEF TypeInv, RoleOK
  <2>5. Accounted'
    BY Zenon, <2>1, <2>2, <2>3, <2>4, <1>NoLabelSame DEF QuietInv, Accounted
  <2>6. ListedWhole'
    BY Zenon, <2>1, <2>2, <2>3 DEF QuietInv, ListedWhole
  <2>7. Removal'
    BY Zenon, <2>2 DEF Removal
  <2>8. QED
    BY Zenon, <2>5, <2>6, <2>7 DEF QuietInv
<1>DeleteQuiet.
  ASSUME QuietInv, OnlyOwn, NEW u \in Uuids, DeleteNamespace(u)
  PROVE  QuietInv'
  <2> USE <1>DeleteQuiet
  <2>1. /\ pc = "idle" /\ ns[u] # Absent /\ pc' = "remove" /\ uuid' = u
        /\ todo' = ns[u].ranges /\ removed' = 0
        /\ fate' = [fate EXCEPT ![u] = "deleting"] /\ lsa' = lsa /\ ns' = ns
    BY Zenon DEF DeleteNamespace
  <2>2. pc' # "off" /\ pc \notin Removing /\ pc' \notin Undoing /\ pc' \in Removing
    BY <2>1 DEF Undoing, Removing
  <2>3. \A v \in Uuids \ {u} : fate'[v] = fate[v]
    BY Zenon, <2>1 DEF TypeInv, LabelTypeOK
  <2>4. uuid \notin Uuids
    BY Zenon, <2>1, LabelConstants DEF TypeInv, RoleOK
  <2>5. todo' = Dimms /\ fate[u] = "created"
    BY Zenon, <2>1, <2>2 DEF QuietInv, ListedWhole
  <2>6. Accounted'
    BY Zenon, <2>1, <2>2, <2>3, <2>4, <1>NoLabelSame DEF QuietInv, Accounted
  <2>7. ListedWhole'
    BY Zenon, <2>1, <2>2, <2>3 DEF QuietInv, ListedWhole
  <2>8. Removal'
    <3>1. \A d \in Dimms : Labelled(lsa[d], u) # {}
      BY Zenon, <2>5 DEF LargeInv, Standing, Clear
    <3>2. 0 + Cardinality(Dimms) = NDimms
      BY Ranges
    <3>3. QED
      BY Zenon, <2>1, <2>2, <2>5, <3>1, <3>2 DEF Removal
  <2>9. QED
    BY Zenon, <2>6, <2>7, <2>8 DEF QuietInv
<1>InsertingQuiet.
  ASSUME QuietInv, OnlyOwn, pc \in {"insert", "init", "verify", "inserting"},
         uuid' = uuid, ns' = ns, fate' = fate,
         pc' \in Creating \/ (InsertFails /\ lsa' = lsa)
  PROVE  QuietInv'
  <2> USE <1>InsertingQuiet
  <2>1. pc \in Creating /\ pc \notin Removing
    BY DEF Creating, Removing
  <2>2. pc' # "off" /\ pc' \notin Removing
    BY DEF Creating, Removing, InsertFails
  <2>3. Accounted' /\ ListedWhole'
    BY Zenon, <2>1, <2>2, <1>SameListQuiet
  <2>4. CASE pc' \in Creating
    <3>1. pc' \notin Undoing
      BY <2>4 DEF Creating, Undoing
    <3>2. QED
      BY Zenon, <2>2, <2>3, <3>1 DEF QuietInv, Removal
  <2>5. CASE InsertFails /\ lsa' = lsa
    <3>1. \A d \in Dimms : d \notin todo' <=> d >= cur
      <4>1. todo' = 1..(cur - 1) /\ cur \in Dimms
        BY Zenon, <2>5 DEF InsertFails, TypeInv, LabelTypeOK
      <4>2. QED
        BY <4>1, Ranges DEF Dimms
    <3>2. \A d \in Dimms : Labelled(lsa[d], uuid) = {} <=> d >= cur
      BY Zenon DEF LargeInv, Progress
    <3>3. fate[uuid] = "creating"
      BY Zenon, <2>1 DEF TypeInv, RoleOK
    <3>4. Removal'
      BY Zenon, <2>2, <2>5, <3>1, <3>2, <3>3 DEF Removal
    <3>5. QED
      BY Zenon, <2>3, <3>4 DEF QuietInv
  <2>6. QED
    BY Zenon, <2>4, <2>5
<1>ModifyingQuiet.
  ASSUME QuietInv, OnlyOwn, pc \in {"modify", "modslot", "modifying"},
         \/ ModifyNext
         \/ pc' \in {"modify", "modslot", "modifying"} /\ ns' = ns /\ uuid' = uuid /\ fate' = fate
  PROVE  QuietInv'
  <2> USE <1>ModifyingQuiet
  <2>1. pc \in Creating /\ pc \notin Removing
    BY DEF Creating, Removing
  <2>2. ASSUME pc' \in {"modify", "modslot", "modifying"}, ns' = ns, uuid' = uuid, fate' = fate
        PROVE  QuietInv'
    <3>1. pc' # "off" /\ pc' \notin Undoing \cup Removing
      BY <2>2 DEF Undoing, Removing
    <3>2. QED
      BY Zenon, <2>1, <2>2, <3>1, <1>SameListQuiet DEF QuietInv, Removal
  <2>3. ASSUME ModifyNext, ~(cur < NDimms) PROVE QuietInv'
    <3>1. PICK ok : ok = [st |-> "ok", ranges |-> Dimms]
      BY Zenon
    <3>2. ok.ranges = Dimms
      BY <3>1
    <3>3. /\ pc' = "idle" /\ ns' = [ns EXCEPT ![uuid] = ok]
          /\ fate' = [fate EXCEPT ![uuid] = "created"]
      BY Zenon, <2>3, <3>1 DEF ModifyNext, Idle
    <3>4. pc' # "off" /\ pc' \notin Undoing \cup Removing
      BY <3>3 DEF Undoing, Removing
    <3>5. \A v \in Uuids : /\ v = uuid => fate'[v] = "created" /\ ns'[v] = ok
                           /\ v # uuid => fate'[v] = fate[v] /\ ns'[v] = ns[v]
      BY Zenon, <3>3 DEF TypeInv, LabelTypeOK
    <3>6. Accounted'
      BY Zenon, <3>4, <3>5, <1>NoLabelKept DEF QuietInv, Accounted
    <3>7. ListedWhole'
      BY Zenon, <3>2, <3>5 DEF QuietInv, ListedWhole
    <3>8. QED
      BY Zenon, <3>4, <3>6, <3>7 DEF QuietInv, Removal
  <2>4. ASSUME ModifyNext, cur < NDimms PROVE QuietInv'
    BY Zenon, <2>2, <2>4 DEF ModifyNext
  <2>5. QED
    BY Zenon, <2>2, <2>3, <2>4
\* A removal takes the labels of DIMM cur.
<1>RemovingQuiet.
  ASSUME QuietInv, OnlyOwn, pc \in {"undoing", "removing"},
         RemoveReturned(TRUE), uuid' = uuid, ns' = ns, Put
  PROVE  QuietInv'
  <2> USE <1>RemovingQuiet
  <2>1. /\ pc' = IF pc = "undoing" THEN "rollback" ELSE "remove"
        /\ todo' = todo \ {cur} /\ fate' = fate
        /\ pc = "removing" => removed' = removed + 1
    BY DEF RemoveReturned
  <2>2. /\ pc' # "off" /\ pc' \notin Creating
        /\ pc \in Undoing \cup Removing
        /\ pc' \in Undoing <=> pc \in Undoing
        /\ pc' \in Removing <=> pc \in Removing
        /\ pc \in Removing <=> pc = "removing"
    BY <2>1 DEF Undoing, Removing, Creating
  <2>3. Accounted' /\ ListedWhole'
    BY Zenon, <2>1, <2>2, <1>SameListQuiet
  <2>4. /\ lsa'[cur] = img /\ \A d \in Dimms \ {cur} : lsa'[d] = lsa[d]
        /\ Labelled(img, uuid) = {}
    BY Zenon, PutFacts, BufferFacts DEF Writing
  <2>5. \A d \in Dimms : Labelled(lsa'[d], uuid) = {} <=> d \notin todo'
    BY Zenon, <2>1, <2>2, <2>4 DEF QuietInv, Removal
  <2>6. ASSUME pc = "removing"
        PROVE  removed' + Cardinality(todo') = NDimms
    <3>1. cur \in todo /\ todo \subseteq Dimms /\ removed \in Nat
      <4>1. cur \in todo /\ todo \subseteq Dimms
        BY Zenon, <2>6, <2>2 DEF TypeInv, TodoOK
      <4>2. removed \in Nat
        BY Ranges DEF TypeInv, LabelTypeOK
      <4>3. QED
        BY Zenon, <4>1, <4>2
    <3>2. IsFiniteSet(todo)
      BY Zenon, <3>1, Ranges, FS_Subset
    <3>3. Cardinality(todo') = Cardinality(todo) - 1 /\ Cardinality(todo) \in Nat
      BY Zenon, <2>1, <3>1, <3>2, FS_RemoveElement, FS_CardinalityType
    <3>4. removed + Cardinality(todo) = NDimms
      BY Zenon, <2>2, <2>6 DEF QuietInv, Removal
    <3>5. QED
      BY SMTT(30), <2>1, <2>6, <3>1, <3>3, <3>4
  <2>7. Removal'
    BY Zenon, <2>1, <2>2, <2>5, <2>6 DEF QuietInv, Removal
  <2>8. QED
    BY Zenon, <2>3, <2>7 DEF QuietInv
<1>RemoveQuiet.
  ASSUME QuietInv, OnlyOwn, RemoveNamespaceLabels, faults' = faults,
         faults \in Nat
  PROVE  QuietInv'
  <2> USE <1>RemoveQuiet
  <2>1. /\ pc \in {"rollback", "remove"} /\ todo # {} /\ cur = Min(todo)
        /\ uuid' = uuid /\ ns' = ns /\ lsa' = lsa
    BY Zenon DEF RemoveNamespaceLabels
  <2>2. pc \in Undoing \cup Removing
    BY <2>1 DEF Undoing, Removing
  <2>3. ~ReadFails
    <3>1. todo \in SUBSET Dimms
      BY Zenon, <2>2 DEF TypeInv, TodoOK
    <3>2. cur \in todo
      BY Zenon, <2>1, <3>1, Ranges, MinIn
    <3>3. uuid \in Uuids /\ cur \in Dimms
      BY Zenon, <2>2, <3>1, <3>2, Busy
    <3>4. Labelled(lsa[cur], uuid) # {}
      BY Zenon, <2>2, <3>2, <3>3 DEF QuietInv, Removal
    <3>5. ValidateLsaData(lsa[cur])
      BY Zenon, <3>3, <3>4, <1>LabelledFormed, FormedReads DEF LargeInv
    <3>6. faults' # faults + 1
      OBVIOUS
    <3>7. QED
      BY Zenon, <3>5, <3>6 DEF ReadFails, Fault
  <2>4. /\ pc' = IF pc = "rollback" THEN "undoing" ELSE "removing"
        /\ todo' = todo /\ removed' = removed /\ fate' = fate
    BY Zenon, <2>3 DEF RemoveNamespaceLabels, StartWrite
  <2>5. /\ pc' # "off"
        /\ pc' \in Undoing <=> pc \in Undoing
        /\ pc' \in Removing <=> pc \in Removing
    BY <2>1, <2>4 DEF Undoing, Removing
  <2>6. Accounted' /\ ListedWhole'
    BY Zenon, <2>1, <2>4, <2>5, <1>SameListQuiet
  <2>7. Removal'
    BY Zenon, <2>1, <2>4, <2>5 DEF QuietInv, Removal
  <2>8. QED
    BY Zenon, <2>6, <2>7 DEF QuietInv
<1>RollbackEndsQuiet.
  ASSUME QuietInv, OnlyOwn, RollbackEnds
  PROVE  QuietInv'
  <2> USE <1>RollbackEndsQuiet
  <2>1. /\ pc = "rollback" /\ todo = {} /\ pc' = "idle" /\ lsa' = lsa /\ ns' = ns
        /\ \E f : fate' = [fate EXCEPT ![uuid] = f]
    BY Zenon DEF RollbackEnds, Idle
  <2>2. /\ pc \in Undoing /\ pc \notin Removing /\ pc' # "off" /\ pc' \notin Undoing \cup Removing
        /\ "creating" # "created"
    BY <2>1 DEF Undoing, Removing
  <2>3. \A v \in Uuids : v # uuid => fate'[v] = fate[v]
    BY Zenon, <2>1 DEF TypeInv, LabelTypeOK
  <2>4. fate[uuid] = "creating" /\ NoLabel(uuid)
    BY Zenon, <2>1, <2>2 DEF QuietInv, Removal, NoLabel
  <2>5. \A v \in Uuids : v = uuid => NoLabel(v)'
    BY Zenon, <2>1, <2>4 DEF NoLabel
  <2>6. Accounted'
    BY Zenon, <2>2, <2>3, <2>5, <1>NoLabelKept DEF QuietInv, Accounted
  <2>7. ListedWhole'
    BY Zenon, <2>1, <2>2, <2>3, <2>4 DEF QuietInv, ListedWhole
  <2>8. QED
    BY Zenon, <2>2, <2>6, <2>7 DEF QuietInv, Removal
<1>DeleteEndsQuiet.
  ASSUME QuietInv, OnlyOwn, DeleteEnds
  PROVE  QuietInv'
  <2> USE <1>DeleteEndsQuiet
  <2>1. pc = "remove" /\ todo = {} /\ pc' = "idle" /\ lsa' = lsa
    BY Zenon DEF DeleteEnds, Idle
  <2>2. pc \in Removing /\ pc' # "off" /\ pc' \notin Undoing \cup Removing
    BY <2>1 DEF Undoing, Removing
  <2>3. uuid \in Uuids /\ ns[uuid].ranges = Dimms /\ removed + Cardinality(todo) = NDimms
    BY Zenon, <2>2, Busy DEF QuietInv, Removal, ListedWhole
  <2>4. removed = NDimms /\ Cardinality(ns[uuid].ranges) = NDimms /\ NDimms \in Nat \ {0}
    <3>1. Cardinality(todo) = 0 /\ Cardinality(ns[uuid].ranges) = NDimms
      BY Zenon, <2>1, <2>3, FS_EmptySet, Ranges
    <3>2. removed \in Nat
      BY Ranges DEF TypeInv, LabelTypeOK
    <3>3. QED
      BY SMTT(30), <2>3, <3>1, <3>2, Ranges
  <2>5. removed # 0 /\ removed \notin 1..(Cardinality(ns[uuid].ranges) - 1)
    BY <2>4
  <2>6. ns' = [ns EXCEPT ![uuid] = Absent] /\ fate' = [fate EXCEPT ![uuid] = "deleted"]
    BY Zenon, <2>5 DEF DeleteEnds
  <2>7. \A v \in Uuids : /\ v = uuid => ns'[v] = Absent
                         /\ v # uuid => fate'[v] = fate[v] /\ ns'[v] = ns[v]
    BY Zenon, <2>6 DEF TypeInv, LabelTypeOK
  <2>8. \A v \in Uuids : v = uuid => NoLabel(v)'
    BY Zenon, <2>1, <2>2 DEF QuietInv, Removal, NoLabel
  <2>9. Accounted'
    BY Zenon, <2>2, <2>7, <2>8, <1>NoLabelKept DEF QuietInv, Accounted
  <2>10. ListedWhole'
    BY Zenon, <2>7 DEF QuietInv, ListedWhole
  <2>11. QED
    BY ZenonT(60), <2>2, <2>9, <2>10 DEF QuietInv, Removal
<1>WriteQuiet.
  ASSUME QuietInv, OnlyOwn, Put, WriteReturns(TRUE)
  PROVE  QuietInv'
  <2> USE <1>WriteQuiet
  <2>1. {"verify", "insert", "modify"} \subseteq Creating
    BY DEF Creating
  <2>2. CASE InitReturns(TRUE)
    <3>1. pc = "init" /\ uuid' = uuid /\ ns' = ns /\ fate' = fate /\ pc' = "verify"
      BY Zenon, <2>2 DEF InitReturns
    <3>2. QED
      BY Zenon, <2>1, <3>1, <1>InsertingQuiet
  <2>3. CASE InsertReturns(TRUE)
    <3>1. /\ pc = "inserting" /\ uuid' = uuid /\ ns' = ns /\ fate' = fate
          /\ pc' = "insert" \/ pc' = "modify"
      BY Zenon, <2>3 DEF InsertReturns
    <3>2. QED
      BY Zenon, <2>1, <3>1, <1>InsertingQuiet
  <2>4. CASE ModifyReturns(TRUE)
    <3>1. /\ pc = "modifying"
          /\ \/ ModifyNext
             \/ pc' = "modslot" /\ ns' = ns /\ uuid' = uuid /\ fate' = fate
      BY Zenon, <2>4 DEF ModifyReturns, SlotDone
    <3>2. QED
      BY Zenon, <3>1, <1>ModifyingQuiet
  <2>5. CASE RemoveReturns(TRUE)
    BY Zenon, <2>5, <1>RemovingQuiet DEF RemoveReturns
  <2>6. QED
    BY Zenon, <2>2, <2>3, <2>4, <2>5 DEF WriteReturns
<1>PrepareQuiet.
  ASSUME QuietInv, OnlyOwn, faults' = faults, faults \in Nat,
         \/ InitializeLabelStorageArea \/ VerifyInit \/ InsertNamespaceLabels
         \/ ModifyNamespaceLabels \/ ModifyLabelAtSlot
  PROVE  QuietInv'
  <2> USE <1>PrepareQuiet
  <2>1. {"init", "verify", "insert", "inserting"} \subseteq Creating
    BY DEF Creating
  <2>2. CASE InitializeLabelStorageArea
    <3>1. /\ pc = "insert" /\ uuid' = uuid /\ ns' = ns /\ fate' = fate
          /\ pc' = "init" \/ pc' = "verify" \/ (InsertFails /\ lsa' = lsa)
      BY Zenon, <2>2 DEF InitializeLabelStorageArea, CouldNotInit, StartWrite
    <3>2. QED
      BY Zenon, <2>1, <3>1, <1>InsertingQuiet
  <2>3. CASE VerifyInit
    <3>1. /\ pc = "verify" /\ uuid' = uuid /\ ns' = ns /\ fate' = fate
          /\ pc' = "insert" \/ (InsertFails /\ lsa' = lsa)
      BY Zenon, <2>3 DEF VerifyInit
    <3>2. QED
      BY Zenon, <2>1, <3>1, <1>InsertingQuiet
  <2>4. CASE InsertNamespaceLabels
    <3>1. /\ pc = "insert" /\ uuid' = uuid /\ ns' = ns /\ fate' = fate
          /\ pc' = "inserting" \/ (InsertFails /\ lsa' = lsa)
      BY Zenon, <2>4 DEF InsertNamespaceLabels, StartWrite
    <3>2. QED
      BY Zenon, <2>1, <3>1, <1>InsertingQuiet
  <2>5. pc \in {"modify", "modslot"} => ~ReadFails
    <3>1. pc \in {"modify", "modslot"} => ValidateLsaData(lsa[cur])
      BY Zenon, ModifyPlace, FormedReads
    <3>2. faults' # faults + 1
      OBVIOUS
    <3>3. QED
      BY Zenon, <3>1, <3>2 DEF ReadFails, Fault
  <2>6. CASE ModifyNamespaceLabels
    <3>1. /\ pc = "modify"
          /\ \/ ModifyNext
             \/ pc' = "modslot" /\ ns' = ns /\ uuid' = uuid /\ fate' = fate
      BY Zenon, <2>5, <2>6 DEF ModifyNamespaceLabels
    <3>2. QED
      BY Zenon, <3>1, <1>ModifyingQuiet
  <2>7. CASE ModifyLabelAtSlot
    <3>1. /\ pc = "modslot"
          /\ \/ ModifyNext
             \/ pc' \in {"modslot", "modifying"} /\ ns' = ns /\ uuid' = uuid /\ fate' = fate
      BY Zenon, <2>5, <2>7 DEF ModifyLabelAtSlot, SlotDone, StartWrite
    <3>2. QED
      BY Zenon, <3>1, <1>ModifyingQuiet
  <2>8. QED
    BY ZenonT(60), <2>2, <2>3, <2>4, <2>6, <2>7
<1>Counts.
  ASSUME [LabelNext]_labelVars
  PROVE  /\ faults' = faults \/ faults' = faults + 1
         /\ crashes' = crashes \/ crashes' = crashes + 1
         /\ PowerFail => crashes' = crashes + 1
         /\ WriteCommandFails => faults' = faults + 1
  <2> USE <1>Counts
  <2>1. crashes' = crashes \/ crashes' = crashes + 1
    BY Zenon DEF labelVars, LabelNext, DriverStart, PowerFail, ReenumerateNamespacesAndISs,
       CreateNamespace, DeleteNamespace, InitializeLabelStorageArea, VerifyInit,
       InsertNamespaceLabels, ModifyNamespaceLabels, ModifyLabelAtSlot, RollbackEnds,
       RemoveNamespaceLabels, NextDimm, DeleteEnds, WriteCommand, WriteCommandFails
  <2>2. faults' = faults \/ faults' = faults + 1
    BY Zenon DEF labelVars, LabelNext, DriverStart, PowerFail, ReenumerateNamespacesAndISs,
       CreateNamespace, DeleteNamespace, InitializeLabelStorageArea, VerifyInit,
       InsertNamespaceLabels, ModifyNamespaceLabels, ModifyLabelAtSlot, RollbackEnds,
       RemoveNamespaceLabels, NextDimm, DeleteEnds, WriteCommand, WriteCommandFails,
       ReadLabelStorageArea, ReadFails, NoFault, Fault
  <2>3. QED
    BY Zenon, <2>1, <2>2 DEF PowerFail, WriteCommandFails, Fault
<1>1. faults \in Nat /\ crashes \in Nat
  BY Zenon DEF CalmInv
<1>2. faults' \in Nat /\ crashes' \in Nat
  BY <1>1, <1>Counts
<1>3. ASSUME faults' = 0, crashes' = 0
      PROVE  QuietInv'
  <2>1. faults = 0 /\ crashes = 0 /\ faults' = faults /\ ~PowerFail /\ ~WriteCommandFails
    BY <1>1, <1>3, <1>Counts
  <2>2. QuietInv /\ OnlyOwn
    BY Zenon, <2>1, MediaStep DEF CalmInv, Quiet
  <2>3. CASE WriteCommand
    <3>1. WriteLabelStorageArea(img, pos) = Done
      BY Zenon, LargeCommand DEF LargeInv
    <3>2. Put /\ WriteReturns(TRUE)
      BY Zenon, <2>3, <3>1 DEF WriteCommand
    <3>3. QED
      BY Zenon, <2>2, <3>2, <1>WriteQuiet
  <2>4. CASE NextDimm
    BY ZenonT(60), <2>2, <2>4 DEF NextDimm, QuietInv, Accounted, ListedWhole, Removal, NoLabel
  <2>5. CASE UNCHANGED labelVars
    BY Zenon, <2>2, <2>5 DEF labelVars, QuietInv, Accounted, ListedWhole, Removal, NoLabel
  <2>6. QED
    BY ZenonT(60), <1>1, <2>1, <2>2, <2>3, <2>4, <2>5, <1>StartQuiet, <1>CreateQuiet, <1>DeleteQuiet,
       <1>PrepareQuiet, <1>RollbackEndsQuiet, <1>RemoveQuiet, <1>DeleteEndsQuiet DEF LabelNext
<1>4. QED
  BY Zenon, <1>2, <1>3 DEF CalmInv, Quiet

LEMMA CalmInvariant ==
  ASSUME LargePayload
  PROVE  LabelSpec => [](TypeInv /\ LargeInv /\ CalmInv)
<1>1. LabelInit => CalmInv
  BY Zenon, CalmInit
<1>2. TypeInv /\ LargeInv /\ CalmInv /\ [LabelNext]_labelVars => CalmInv'
  BY Zenon, CalmStep
<1>3. QED
  BY <1>1, <1>2, LargeInvariant, PTL DEF LabelSpec

LEMMA QuietFacts ==
  ASSUME TypeInv, LargeInv, CalmInv, Quiet
  PROVE  DeletedGone
<1>1. ASSUME NEW u \in Uuids, fate[u] = "deleted", NEW d \in Dimms
      PROVE  Holds(d, u) = {}
  <2>1. fate[u] # "created" /\ fate[u] \notin {"creating", "left", "deleting"}
    BY <1>1
  <2>2. u # uuid
    BY Zenon, <2>1, Busy
  <2>3. Labelled(lsa[d], u) = {}
    BY Zenon, <2>1, <2>2 DEF CalmInv, QuietInv, Accounted, NoLabel
  <2>4. QED
    BY Zenon, <2>3, HeldLabels DEF LargeInv
<1>2. QED
  BY Zenon, <1>1 DEF DeletedGone

\* As long as no command has failed and the power has not, a namespace whose
\* deletion was reported has no label left.
THEOREM DeletedLeavesNothing ==
  ASSUME LargePayload
  PROVE  LabelSpec => [](Quiet => DeletedGone)
BY CalmInvariant, QuietFacts, PTL

\* All of the invariants together, as the model checker sees them.
THEOREM LabelInvariance ==
  ASSUME LargePayload, "lost" \notin FaultKinds
  PROVE  LabelSpec => []LabelInvariant
<1>1. TypeInv /\ LargeInv /\ KnownInv /\ CalmInv => LabelInvariant
  BY DEF LabelInvariant
<1>2. QED
  BY <1>1, KnownInvariant, CalmInvariant, PTL
=============================================================================
