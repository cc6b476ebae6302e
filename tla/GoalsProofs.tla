---------------------------- MODULE GoalsProofs -----------------------------
(***************************************************************************)
(* Goal provisioning: proofs for any number of DIMMs and sockets.          *)
(***************************************************************************)
EXTENDS Goals, FiniteSetTheorems, WellFoundedInduction, TLAPS

-----------------------------------------------------------------------------
(* Finite sets of indexes                                                  *)

\* A finite set of natural numbers that is not empty has a largest element: that
\* with the fewest numbers above it.
LEMMA LargestExists ==
  ASSUME NEW S \in SUBSET Nat, IsFiniteSet(S), S # {}
  PROVE  Largest(S) \in S /\ \A m \in S : m <= Largest(S)
<1> DEFINE above(n) == {m \in S : n < m}
           counts == {Cardinality(above(n)) : n \in S}
<1>1. \A n \in S : IsFiniteSet(above(n)) /\ Cardinality(above(n)) \in Nat
  BY FS_Subset, FS_CardinalityType
<1>2. counts \subseteq Nat /\ counts # {}
  BY Zenon, <1>1
<1>3. PICK c \in counts : \A b \in counts : ~(<<b, c>> \in OpToRel(<, Nat))
  <2> HIDE DEF counts
  <2>1. QED
    BY <1>2, NatLessThanWellFounded, WFMin
<1>4. \A b \in counts : ~(b < c)
  BY Zenon, <1>2, <1>3 DEF OpToRel
<1>5. PICK n \in S : c = Cardinality(above(n))
  OBVIOUS
<1>6. ASSUME NEW m \in S, ~(m <= n) PROVE FALSE
  <2>1. above(m) \subseteq above(n) /\ m \in above(n) /\ m \notin above(m)
    <3>1. m \in Nat /\ n \in Nat /\ n < m
      BY <1>6
    <3>2. m \in above(n) /\ m \notin above(m)
      BY <3>1
    <3>3. ASSUME NEW k \in above(m) PROVE k \in above(n)
      BY <3>1, <3>3
    <3>4. QED
      BY Zenon, <3>2, <3>3
  <2>2. Cardinality(above(m)) <= Cardinality(above(n)) /\ Cardinality(above(m)) # Cardinality(above(n))
    <3> HIDE DEF above
    <3>1. QED
      BY <1>1, <2>1, FS_Subset
  <2>3. Cardinality(above(m)) < c
    <3> HIDE DEF above
    <3>1. QED
      BY <1>1, <1>5, <2>2
  <2>4. QED
    BY <1>4, <2>3
<1>7. \E k \in S : \A m \in S : m <= k
  BY <1>6
<1>8. QED
  BY Zenon, <1>7 DEF Largest

LEMMA ImageFinite ==
  ASSUME NEW S, IsFiniteSet(S), NEW f
  PROVE  IsFiniteSet({f[x] : x \in S})
<1> DEFINE T == {f[x] : x \in S}
           g == [x \in S |-> f[x]]
<1>1. g \in Surjection(S, T)
  BY Zenon DEF Surjection
<1>2. QED
  BY Zenon, <1>1, FS_Surjection

LEMMA DimmSets == \A D \in SUBSET Dimms : IsFiniteSet(D) /\ Cardinality(D) \in Nat
<1>1. IsFiniteSet(Dimms)
  BY FS_Interval, GoalConstants DEF Dimms
<1>2. QED
  BY <1>1, FS_Subset, FS_CardinalityType

-----------------------------------------------------------------------------
(* Types                                                                   *)

MediaTypes ==
  /\ pcd \in [Dimms -> Tables]
  /\ lsa \in [Dimms -> {"old", "zero", "init"}]
  /\ region \in [Dimms -> RegionGoals \cup {NoGoal}]

InternalTypes ==
  /\ goals \in [Dimms -> SUBSET RegionGoals]
  /\ config \in [Dimms -> BOOLEAN] /\ synced \in [Dimms -> BOOLEAN]

RequestTypes ==
  /\ op \in [type : {"none", "create", "delete"}, dimms : SUBSET Supported]
  /\ todo \subseteq Supported
  /\ last \in [type : {"none", "create", "delete"}, dimms : SUBSET Supported,
               out : {"none", "ok", "err"},
               stage : {"none", "invalid", "undone", "spoiled", "labels", "done"}]
  /\ want \in [Dimms -> RegionGoals \cup {NoGoal}]
  /\ spoiled \subseteq Dimms

StepTypes ==
  /\ pc \in {"idle", "load", "clear", "send", "undo", "labels"}
  /\ left \subseteq Dimms
  /\ cin \in [goal : RegionGoals \cup {NoGoal}, seq : Nat]
  /\ chunk \in {"head", "zeros", "part", "rest"}
  /\ clean \in BOOLEAN

BoundTypes == faults \in 0..MaxFaults /\ crashes \in 0..MaxCrashes

Types == MediaTypes /\ InternalTypes /\ RequestTypes /\ StepTypes /\ BoundTypes

LEMMA PendingGoal ==
  ASSUME MediaTypes, NEW d \in Dimms, Pending(d)
  PROVE  pcd[d].goal \in RegionGoals
  BY Zenon DEF MediaTypes, Tables, Pending

LEMMA RegionGoalFields == \A g \in RegionGoals : g.is \in Nat /\ g.members \in SUBSET Dimms
  BY DEF RegionGoals

LEMMA RetrievedTypes ==
  ASSUME MediaTypes
  PROVE  \A d : RetrieveRegionGoal(d) \subseteq RegionGoals
  BY Zenon, PendingGoal, GoalConstants DEF RetrieveRegionGoal, RetrievedGoals

LEMMA RegionIndexTypes ==
  ASSUME MediaTypes
  PROVE  RegionIndexes \subseteq Nat /\ IsFiniteSet(RegionIndexes)
<1> DEFINE X == {d \in Dimms : region[d] # NoGoal}
           f == [d \in Dimms |-> region[d].is]
<1>1. RegionIndexes = {f[d] : d \in X}
  BY Zenon DEF RegionIndexes
<1>2. IsFiniteSet(X)
  BY Zenon, DimmSets
<1>3. \A d \in X : region[d].is \in Nat
  BY Zenon, RegionGoalFields DEF MediaTypes
<1>4. RegionIndexes \subseteq Nat
  BY Zenon, <1>3 DEF RegionIndexes
<1>5. IsFiniteSet({f[d] : d \in X})
  <2> HIDE DEF X, f
  <2>1. QED
    BY Zenon, <1>2, ImageFinite
<1>6. QED
  BY Zenon, <1>1, <1>4, <1>5

LEMMA GoalIndexTypes ==
  ASSUME MediaTypes
  PROVE  GoalIndexes \subseteq Nat /\ IsFiniteSet(GoalIndexes)
<1> DEFINE X == {d \in Supported : Pending(d)}
           f == [d \in Dimms |-> pcd[d].goal.is]
<1>1. IsFiniteSet(X) /\ X \subseteq Dimms
  BY Zenon, DimmSets, GoalConstants
<1>2. IsFiniteSet({f[d] : d \in X})
  BY Zenon, <1>1, ImageFinite
<1>3. RetrievedGoals \subseteq {pcd[d].goal : d \in X}
  BY Zenon DEF RetrievedGoals
<1>4. GoalIndexes \subseteq {g.is : g \in RetrievedGoals}
  BY Zenon DEF GoalIndexes, RetrieveRegionGoal
<1>5. ASSUME NEW i \in GoalIndexes PROVE i \in Nat /\ i \in {f[d] : d \in X}
  <2>1. PICK g \in RetrievedGoals : i = g.is
    BY Zenon, <1>4
  <2>2. PICK d \in X : g = pcd[d].goal
    BY Zenon, <1>3
  <2>3. d \in Dimms /\ g \in RegionGoals
    BY Zenon, <1>1, <2>2, PendingGoal
  <2>4. f[d] = i /\ i \in Nat
    BY Zenon, <2>1, <2>2, <2>3, RegionGoalFields
  <2>5. QED
    BY Zenon, <2>4
<1>6. QED
  BY Zenon, <1>2, <1>5, FS_Subset

LEMMA LargestIndexType == ASSUME MediaTypes PROVE LargestIndex \in Nat
<1>1. CASE GoalIndexes # {}
  BY Zenon, <1>1, GoalIndexTypes, LargestExists DEF LargestIndex
<1>2. CASE GoalIndexes = {}
  <2>1. /\ RegionIndexes \cup {0} \subseteq Nat /\ RegionIndexes \cup {0} # {}
        /\ IsFiniteSet(RegionIndexes \cup {0})
    BY RegionIndexTypes, FS_AddElement
  <2>2. QED
    BY Zenon, <1>2, <2>1, LargestExists DEF LargestIndex
<1>3. QED
  BY Zenon, <1>1, <1>2

\* The sets of a creation are well formed.
LEMMA MapRegionsGoalType ==
  ASSUME MediaTypes, NEW D \in SUBSET Supported, NEW d \in D, NEW kind
  PROVE  MapRegionsGoal(d, D, kind) \in RegionGoals
<1> DEFINE sockets == {SocketOf[e] : e \in {e \in D : SocketOf[e] <= SocketOf[d]}}
           before == {e \in D : \/ SocketOf[e] < SocketOf[d]
                                \/ SocketOf[e] = SocketOf[d] /\ e <= d}
<1>1. D \subseteq Dimms
  BY Zenon, GoalConstants
<1>2. Cardinality(before) \in Nat
  BY Zenon, <1>1, DimmSets
<1>3. Cardinality(sockets) \in Nat
  <2>1. IsFiniteSet({e \in D : SocketOf[e] <= SocketOf[d]})
    BY Zenon, <1>1, DimmSets
  <2>2. IsFiniteSet(sockets)
    BY Zenon, <2>1, ImageFinite
  <2>3. QED
    BY Zenon, <2>2, FS_CardinalityType
<1>4. {e \in D : SocketOf[e] = SocketOf[d]} \in SUBSET Dimms /\ {d} \in SUBSET Dimms
  BY Zenon, <1>1
<1>5. LargestIndex + Cardinality(sockets) \in Nat /\ LargestIndex + Cardinality(before) \in Nat
  <2> HIDE DEF sockets, before
  <2>1. QED
    BY <1>2, <1>3, LargestIndexType
<1>6. \A n \in Nat, M \in SUBSET Dimms : [is |-> n, members |-> M] \in RegionGoals
  BY DEF RegionGoals
<1>7. QED
  BY Zenon, <1>4, <1>5, <1>6 DEF MapRegionsGoal

\* What a command may leave on a DIMM.
LEMMA WrittenTypes ==
  ASSUME Types, NEW d \in Dimms, NEW t \in FwCmdSetPlatformConfigData(d)
  PROVE  t \in Tables
<1>1. pcd[d] \in Tables
  BY Zenon DEF Types, MediaTypes
<1>2. cin.goal \in RegionGoals \cup {NoGoal} /\ cin.seq \in Nat /\ (cin # NoCin) \in BOOLEAN
  BY DEF Types, StepTypes
<1>3. Header(d) \in Tables
  BY Zenon, <1>1, <1>2 DEF Tables, Header
<1>4. \A u \in Tables : Damaged(u) \in Tables
  BY Zenon DEF Tables, Damaged
<1>5. \A u \in Tables : Complete(u) \in Tables
  BY Zenon, <1>2 DEF Tables, Complete
<1>6. t \in {Complete(Header(d)), Header(d), Damaged(Header(d)), Damaged(pcd[d]), Complete(pcd[d])}
  BY Zenon DEF FwCmdSetPlatformConfigData, Types, StepTypes
<1>7. QED
  BY Zenon, <1>1, <1>3, <1>4, <1>5, <1>6

LEMMA PcdTypes ==
  ASSUME Types, NEW d \in Dimms,
         UNCHANGED pcd \/ \E t \in FwCmdSetPlatformConfigData(d) : pcd' = [pcd EXCEPT ![d] = t]
  PROVE  pcd' \in [Dimms -> Tables]
  BY Zenon, WrittenTypes DEF Types, MediaTypes

LEMMA ConstantRecords == NoCin \in [goal : RegionGoals \cup {NoGoal}, seq : Nat]
  BY DEF NoCin

LEMMA NoOpType == NoOp \in [type : {"none", "create", "delete"}, dimms : SUBSET Supported]
  BY DEF NoOp

LEMMA NoLastType ==
  NoLast \in [type : {"none", "create", "delete"}, dimms : SUBSET Supported, out : {"none", "ok", "err"},
              stage : {"none", "invalid", "undone", "spoiled", "labels", "done"}]
  BY DEF NoLast

LEMMA ClearedTypes == ASSUME ClearInternalGoalConfigsInfo PROVE InternalTypes'
  BY Zenon DEF ClearInternalGoalConfigsInfo, InternalTypes

LEMMA ReturnTypes ==
  ASSUME Types, NEW type \in {"none", "create", "delete"}, NEW D \in SUBSET Supported,
         NEW out \in {"none", "ok", "err"},
         NEW stage \in {"none", "invalid", "undone", "spoiled", "labels", "done"},
         Return(type, D, out, stage), UNCHANGED want
  PROVE  InternalTypes' /\ RequestTypes' /\ StepTypes'
<1>1. InternalTypes'
  BY Zenon, ClearedTypes DEF Return
<1>2. last' \in [type : {"none", "create", "delete"}, dimms : SUBSET Supported, out : {"none", "ok", "err"},
                 stage : {"none", "invalid", "undone", "spoiled", "labels", "done"}]
  BY DEF Return
<1>3. RequestTypes'
  BY Zenon, <1>2, NoOpType, GoalConstants DEF Return, Types, RequestTypes
<1>4. StepTypes'
  BY Zenon, ConstantRecords DEF Return, StepTypes
<1>5. QED
  BY Zenon, <1>1, <1>3, <1>4

LEMMA SendTypes ==
  ASSUME Types, NEW d \in Dimms, SendConfigInputToDimm(d), UNCHANGED <<pc, clean>>
  PROVE  StepTypes' /\ pcd' \in [Dimms -> Tables]
<1>1. StepTypes'
  BY Zenon, ConstantRecords DEF SendConfigInputToDimm, NextChunk, Types, StepTypes
<1>2. QED
  BY Zenon, <1>1, PcdTypes DEF SendConfigInputToDimm

LEMMA FaultTypes ==
  ASSUME BoundTypes, CommandFails \/ UNCHANGED faults, UNCHANGED crashes
  PROVE  BoundTypes'
  BY GoalConstants DEF BoundTypes, CommandFails

LEMMA StartTypes ==
  ASSUME Types, NEW type \in {"create", "delete"}, NEW D \in SUBSET Supported, Start(type, D),
         InternalTypes', todo' \subseteq Supported, want' \in [Dimms -> RegionGoals \cup {NoGoal}]
  PROVE  Types'
<1>1. op' \in [type : {"none", "create", "delete"}, dimms : SUBSET Supported]
  BY DEF Start
<1>2. MediaTypes' /\ BoundTypes'
  BY Zenon DEF Start, media, Types, MediaTypes, BoundTypes
<1>3. RequestTypes' /\ StepTypes'
  <2>1. RequestTypes'
    BY Zenon, <1>1, NoLastType DEF Start, Types, RequestTypes
  <2>2. StepTypes'
    BY Zenon, GoalConstants DEF Start, Types, StepTypes
  <2>3. QED
    BY Zenon, <2>1, <2>2
<1>4. QED
  BY Zenon, <1>2, <1>3 DEF Types

LEMMA CreateTypes ==
  ASSUME Types, NEW D \in Requests, NEW kind, CreateGoalConfig(D, kind), todo' \subseteq Supported
  PROVE  Types'
<1>1. D \in SUBSET Supported /\ D \subseteq Dimms
  BY Zenon, GoalConstants DEF Requests
<1>2. \A d \in D : MapRegionsGoal(d, D, kind) \in RegionGoals
  BY Zenon, <1>1, MapRegionsGoalType DEF Types
<1>3. want' \in [Dimms -> RegionGoals \cup {NoGoal}]
  BY Zenon, <1>2 DEF CreateGoalConfig
<1>4. goals' \in [Dimms -> SUBSET RegionGoals]
  <2>1. \A d \in D : want'[d] \in RegionGoals
    BY Zenon, <1>1, <1>2 DEF CreateGoalConfig
  <2>2. \A d \in Dimms : RetrieveRegionGoal(d) \subseteq RegionGoals
    BY Zenon, RetrievedTypes DEF Types
  <2>3. QED
    BY Zenon, <2>1, <2>2 DEF CreateGoalConfig
<1>5. InternalTypes'
  BY Zenon, <1>4 DEF CreateGoalConfig, InternalTypes
<1>6. QED
  BY Zenon, <1>1, <1>3, <1>5, StartTypes DEF CreateGoalConfig

LEMMA DeleteTypes ==
  ASSUME Types, NEW D \in Requests, DeleteGoalConfig(D)
  PROVE  Types'
<1>1. D \in SUBSET Supported
  BY Zenon DEF Requests
<1>2. \A d \in Dimms : RetrieveRegionGoal(d) \subseteq RegionGoals
  BY Zenon, RetrievedTypes DEF Types
<1>3. InternalTypes'
  <2>1. goals' \in [Dimms -> SUBSET RegionGoals]
    BY Zenon, <1>2 DEF DeleteGoalConfig
  <2>2. config' \in [Dimms -> BOOLEAN]
    BY Zenon DEF DeleteGoalConfig
  <2>3. synced' \in [Dimms -> BOOLEAN]
    <3>1. \A d \in Dimms : (~RetrievedConfig(d)) \in BOOLEAN /\ RetrievedSynced(d) \in BOOLEAN
      BY DEF RetrievedSynced
    <3>2. \A d \in Dimms : (IF d \in D THEN ~RetrievedConfig(d) ELSE RetrievedSynced(d)) \in BOOLEAN
      BY Zenon, <3>1
    <3>3. QED
      BY Zenon, <3>2 DEF DeleteGoalConfig
  <2>4. QED
    BY Zenon, <2>1, <2>2, <2>3 DEF InternalTypes
<1>4. want' \in [Dimms -> RegionGoals \cup {NoGoal}] /\ todo' \subseteq Supported
  BY Zenon DEF DeleteGoalConfig, Types, RequestTypes
<1>5. QED
  BY Zenon, <1>1, <1>3, <1>4, StartTypes DEF DeleteGoalConfig

\* The label storage areas.
LEMMA LabelTypes ==
  ASSUME Types, NEW d \in Dimms, ZeroLabelStorageArea(d) \/ InitializeLabelStorageArea(d)
  PROVE  Types'
<1>1. MediaTypes'
  BY Zenon DEF ZeroLabelStorageArea, InitializeLabelStorageArea, Types, MediaTypes
<1>2. InternalTypes' /\ RequestTypes' /\ BoundTypes'
  BY Zenon DEF ZeroLabelStorageArea, InitializeLabelStorageArea, Types, InternalTypes, RequestTypes,
     BoundTypes, internal, progress
<1>3. StepTypes'
  BY Zenon DEF ZeroLabelStorageArea, InitializeLabelStorageArea, Types, StepTypes, progress
<1>4. QED
  BY Zenon, <1>1, <1>2, <1>3 DEF Types

\* The steps of ApplyGoalConfigsToDimms.
LEMMA ApplyTypes ==
  ASSUME Types, NEW d \in Dimms,
         \/ ClearStep(d) \/ SendStep(d) \/ UndoStep(d) \/ UndoFails(d) \/ GeneratePcdConfInput(d)
         \/ ApplyFails(d) /\ Keep
  PROVE  Types'
<1>1. Keep /\ (CommandFails \/ UNCHANGED faults)
  BY Zenon DEF ClearStep, SendStep, UndoStep, UndoFails, GeneratePcdConfInput, ApplyFails
<1>2. InternalTypes' /\ RequestTypes' /\ BoundTypes'
  BY Zenon, <1>1, FaultTypes DEF Keep, Types, InternalTypes, RequestTypes, internal
<1>3. StepTypes' /\ pcd' \in [Dimms -> Tables]
  <2>1. CASE ClearStep(d) \/ SendStep(d) \/ UndoStep(d)
    BY Zenon, <2>1, SendTypes DEF ClearStep, SendStep, UndoStep
  <2>2. CASE UndoFails(d)
    BY Zenon, <2>2, PcdTypes DEF UndoFails, SendFails, Types, StepTypes
  <2>3. CASE GeneratePcdConfInput(d)
    <3>1. GetNewSequenceNumber(d) \in Nat
      BY DEF GetNewSequenceNumber, Types, MediaTypes, Tables
    <3>2. goals[d] \subseteq RegionGoals
      BY Zenon DEF Types, InternalTypes
    <3>3. PICK g \in goals[d] : cin' = [goal |-> g, seq |-> GetNewSequenceNumber(d)]
      BY Zenon, <2>3 DEF GeneratePcdConfInput
    <3>4. cin' \in [goal : RegionGoals \cup {NoGoal}, seq : Nat]
      BY <3>1, <3>2, <3>3
    <3>5. QED
      BY Zenon, <2>3, <3>4 DEF GeneratePcdConfInput, Types, StepTypes, MediaTypes
  <2>4. CASE ApplyFails(d) /\ Keep
    <3>1. pcd' \in [Dimms -> Tables]
      BY Zenon, <2>4, PcdTypes DEF ApplyFails, SendFails
    <3>2. CASE UNCHANGED clean /\ pc' = "undo"
      BY Zenon, <2>4, <3>1, <3>2, ConstantRecords DEF ApplyFails, Return, Types, StepTypes
    <3>3. CASE Return(op.type, op.dimms, "err", "invalid")
      BY Zenon, <3>1, <3>3, ConstantRecords DEF Return, StepTypes
    <3>4. QED
      BY Zenon, <2>4, <3>2, <3>3 DEF ApplyFails
  <2>5. QED
    BY Zenon, <2>1, <2>2, <2>3, <2>4
<1>4. MediaTypes'
  BY Zenon, <1>1, <1>3 DEF Keep, Types, MediaTypes
<1>5. QED
  BY Zenon, <1>2, <1>3, <1>4 DEF Types

\* The ends of its passes.
LEMMA DoneTypes ==
  ASSUME Types, ClearDone \/ SendDone
  PROVE  Types'
<1>1. op.type \in {"none", "create", "delete"} /\ op.dimms \in SUBSET Supported
  BY DEF Types, RequestTypes
<1>2. CASE ClearDone
  <2>1. MediaTypes' /\ BoundTypes'
    BY Zenon, <1>2 DEF ClearDone, Keep, Types, MediaTypes, BoundTypes
  <2>2. InternalTypes'
    BY Zenon, <1>2 DEF ClearDone, Keep, Types, InternalTypes, internal
  <2>3. RequestTypes'
    BY Zenon, <1>2 DEF ClearDone, Keep, Types, RequestTypes
  <2>4. StepTypes'
    BY Zenon, <1>2 DEF ClearDone, Types, StepTypes
  <2>5. QED
    BY Zenon, <2>1, <2>2, <2>3, <2>4 DEF Types
<1>3. CASE SendDone
  <2>1. MediaTypes' /\ BoundTypes'
    BY Zenon, <1>3 DEF SendDone, media, Types, MediaTypes, BoundTypes
  <2>2. CASE op.type = "create"
    <3>1. InternalTypes' /\ RequestTypes'
      BY Zenon, <1>3, <2>2 DEF SendDone, Types, InternalTypes, RequestTypes
    <3>2. StepTypes'
      BY Zenon, <1>1, <1>3, <2>2, GoalConstants DEF SendDone, Types, StepTypes
    <3>3. QED
      BY Zenon, <2>1, <3>1, <3>2 DEF Types
  <2>3. CASE op.type # "create"
    BY Zenon, <1>1, <1>3, <2>1, <2>3, ReturnTypes DEF SendDone, Types
  <2>4. QED
    BY Zenon, <2>2, <2>3
<1>4. QED
  BY Zenon, <1>2, <1>3

\* The ends of an operation.
LEMMA EndTypes ==
  ASSUME Types,
         \/ UndoDone \/ LabelsDone \/ \E d \in Dimms : LabelsFail(d)
         \/ \E d \in Dimms : ApplyFails(d) /\ Return(op.type, op.dimms, "err", "invalid") /\ UNCHANGED <<lsa, region, want, crashes>>
  PROVE  Types'
<1>1. op.type \in {"none", "create", "delete"} /\ op.dimms \in SUBSET Supported
  BY DEF Types, RequestTypes
<1>2. MediaTypes'
  <2>1. CASE UndoDone \/ LabelsDone
    BY Zenon, <2>1 DEF UndoDone, LabelsDone, media, Types, MediaTypes
  <2>2. CASE \E d \in Dimms : LabelsFail(d)
    BY Zenon, <2>2 DEF LabelsFail, Types, MediaTypes
  <2>3. ASSUME NEW d \in Dimms, ApplyFails(d), UNCHANGED <<lsa, region>> PROVE MediaTypes'
    BY Zenon, <2>3, PcdTypes DEF ApplyFails, SendFails, Types, MediaTypes
  <2>4. QED
    BY Zenon, <2>1, <2>2, <2>3
<1>3. BoundTypes'
  BY Zenon, FaultTypes DEF UndoDone, LabelsDone, LabelsFail, ApplyFails, Types
<1>4. InternalTypes' /\ RequestTypes' /\ StepTypes'
  <2>1. CASE UndoDone
    BY Zenon, <1>1, <2>1, ReturnTypes DEF UndoDone
  <2>2. CASE LabelsDone
    BY Zenon, <1>1, <2>2, ReturnTypes DEF LabelsDone
  <2>3. CASE \E d \in Dimms : LabelsFail(d)
    BY Zenon, <1>1, <2>3, ReturnTypes DEF LabelsFail
  <2>4. CASE Return(op.type, op.dimms, "err", "invalid") /\ UNCHANGED want
    BY Zenon, <1>1, <2>4, ReturnTypes
  <2>5. QED
    BY Zenon, <2>1, <2>2, <2>3, <2>4
<1>5. QED
  BY Zenon, <1>2, <1>3, <1>4 DEF Types

LEMMA RefusedTypes ==
  ASSUME Types, Refused \/ \E D \in Requests : LoadGoalConfig(D)
  PROVE  Types'
<1>1. MediaTypes' /\ BoundTypes'
  BY Zenon DEF Refused, LoadGoalConfig, media, Types, MediaTypes, BoundTypes
<1>2. InternalTypes'
  BY Zenon, ClearedTypes DEF Refused, LoadGoalConfig, internal, Types, InternalTypes
<1>3. want' \in [Dimms -> RegionGoals \cup {NoGoal}] /\ todo' \subseteq Supported /\ last' = NoLast
  BY Zenon DEF Refused, LoadGoalConfig, Requests
<1>4. RequestTypes'
  BY ZenonT(60), <1>3, NoLastType DEF Refused, LoadGoalConfig, Types, RequestTypes
<1>5. StepTypes'
  BY Zenon DEF Refused, LoadGoalConfig, Types, StepTypes
<1>6. QED
  BY Zenon, <1>1, <1>2, <1>4, <1>5 DEF Types

LEMMA RebootTypes == ASSUME Types, Reboot PROVE Types'
<1>1. PICK accepted \in SUBSET CompleteSets : region' = [d \in Dimms |-> ConfiguredBy(accepted, d)]
  BY Zenon DEF Reboot
<1>2. accepted \subseteq RegionGoals
  <2>1. CompleteSets \subseteq {pcd[d].goal : d \in {d \in Supported : Pending(d)}}
    BY Zenon DEF CompleteSets
  <2>2. \A d \in Supported : Pending(d) => pcd[d].goal \in RegionGoals
    BY Zenon, PendingGoal, GoalConstants DEF Types
  <2>3. QED
    BY Zenon, <2>1, <2>2
<1>3. \A d \in Dimms : ConfiguredBy(accepted, d) \in RegionGoals \cup {NoGoal}
  <2>1. \A d : (\E g \in accepted : d \in g.members) => (CHOOSE g \in accepted : d \in g.members) \in accepted
    BY Zenon
  <2>2. QED
    BY Zenon, <1>2, <2>1 DEF ConfiguredBy, Types, MediaTypes
<1>4. region' \in [Dimms -> RegionGoals \cup {NoGoal}]
  BY Zenon, <1>1, <1>3
<1>5. pcd' \in [Dimms -> Tables]
  <2>1. \A t \in Tables : [t EXCEPT !.cout = t.seq] \in Tables
    BY DEF Tables
  <2>2. \A d \in Dimms : pcd[d] \in Tables
    BY Zenon DEF Types, MediaTypes
  <2>3. QED
    BY Zenon, <2>1, <2>2 DEF Reboot
<1>6. lsa' \in [Dimms -> {"old", "zero", "init"}]
  <2>1. lsa' \in [Dimms -> {"old", "zero"}]
    BY Zenon DEF Reboot
  <2>2. QED
    BY <2>1
<1>7. InternalTypes'
  BY Zenon, ClearedTypes DEF Reboot
<1>8. RequestTypes' /\ StepTypes'
  BY ZenonT(60), NoOpType, NoLastType, ConstantRecords DEF Reboot, RequestTypes, StepTypes
<1>9. BoundTypes'
  BY GoalConstants DEF Reboot, Types, BoundTypes
<1>10. QED
  BY Zenon, <1>4, <1>5, <1>6, <1>7, <1>8, <1>9 DEF Types, MediaTypes

LEMMA TypesInit == GoalInit => Types
<1>1. SUFFICES ASSUME GoalInit PROVE Types
  OBVIOUS
<1>2. pcd \in [Dimms -> Tables]
  <2>1. Blank("ok") \in Tables /\ Blank("bad") \in Tables
    BY DEF Blank, Tables
  <2>2. \A d \in Dimms : [is |-> 1, members |-> {d}] \in RegionGoals
    BY DEF RegionGoals
  <2>3. \A g \in RegionGoals : Filled(g) \in Tables
    BY DEF Filled, Tables
  <2>4. QED
    BY Zenon, <1>1, <2>1, <2>2, <2>3 DEF GoalInit
<1>3. MediaTypes /\ InternalTypes
  BY Zenon, <1>1, <1>2 DEF GoalInit, MediaTypes, InternalTypes
<1>4. RequestTypes /\ StepTypes
  BY Zenon, <1>1, NoOpType, NoLastType, ConstantRecords DEF GoalInit, RequestTypes, StepTypes
<1>5. BoundTypes
  BY <1>1, GoalConstants DEF GoalInit, BoundTypes
<1>6. QED
  BY Zenon, <1>3, <1>4, <1>5 DEF Types

LEMMA TypesNext == ASSUME Types, [GoalNext]_goalVars PROVE Types'
<1>1. CASE UNCHANGED goalVars
  <2>1. MediaTypes' /\ InternalTypes'
    BY Zenon, <1>1 DEF goalVars, Types, MediaTypes, InternalTypes
  <2>2. RequestTypes'
    BY Zenon, <1>1 DEF goalVars, Types, RequestTypes
  <2>3. StepTypes' /\ BoundTypes'
    BY Zenon, <1>1 DEF goalVars, Types, StepTypes, BoundTypes
  <2>4. QED
    BY Zenon, <2>1, <2>2, <2>3 DEF Types
<1>2. CASE Request
  <2>1. ASSUME NEW D \in Requests, NEW kind, Create(D, kind) PROVE Types'
    BY Zenon, <2>1, CreateTypes DEF Create, Types, RequestTypes
  <2>2. QED
    BY Zenon, <1>2, <2>1, DeleteTypes, RefusedTypes DEF Request
<1>3. CASE Step
  <2>1. ASSUME NEW D \in Requests, NEW kind, LoadSocket(D, kind) PROVE Types'
    BY Zenon, <2>1, CreateTypes DEF LoadSocket, Types, RequestTypes
  <2>2. ASSUME NEW d \in Dimms, ApplyFails(d) PROVE Types'
    BY Zenon, <2>2, ApplyTypes, EndTypes DEF ApplyFails
  <2>3. QED
    BY Zenon, <1>3, <2>1, <2>2, LabelTypes, ApplyTypes, DoneTypes, EndTypes DEF Step
<1>4. QED
  BY Zenon, <1>1, <1>2, <1>3, RebootTypes DEF GoalNext

\* Every variable keeps its type; in particular MapRegionsGoal always finds a largest
\* index to count on from, and no operation leaves the supported DIMMs.
THEOREM GoalTypes == GoalSpec => []GoalTypeOK
<1>1. Types => GoalTypeOK
  BY Zenon DEF Types, MediaTypes, InternalTypes, RequestTypes, StepTypes, BoundTypes, GoalTypeOK
<1>2. QED
  BY <1>1, TypesInit, TypesNext, PTL DEF GoalSpec

-----------------------------------------------------------------------------
(* The inductive invariant                                                 *)

Applying == {"clear", "send", "undo"}

\* Only DIMMs that are out of sync are written, and of the supported ones these
\* are DIMMs of the request.
Targeted ==
  pc \in Applying =>
    /\ left \subseteq {d \in Dimms : ~synced[d]}
    /\ \A d \in Supported : ~synced[d] => d \in op.dimms

Created(d) == Pending(d) /\ pcd[d].goal = want[d]

\* What the computation of the goals leaves to ApplyGoalConfigsToDimms.
Computed ==
  pc \in Applying =>
    /\ op.type \in {"create", "delete"}
    /\ op.type = "delete" => \A d \in Dimms : ~synced[d] => ~config[d]
    /\ op.type = "create" => \A d \in op.dimms : config[d] /\ ~synced[d] /\ goals[d] = {want[d]}
    /\ \A d \in op.dimms : synced[d] => ~Pending(d)

\* A CIN is being removed from the first DIMM that is left.
Removing ==
  pc \in {"clear", "undo"} =>
    /\ cin = NoCin /\ chunk \in {"head", "zeros"}
    /\ left = {} => chunk = "head"
    /\ \A d \in Dimms : First(d) /\ chunk = "zeros" => ~pcd[d].cin
    /\ clean \/ pc = "clear" => \A d \in op.dimms \ left : ~Pending(d)

\* A CIN is being sent to it.
Sending ==
  pc = "send" =>
    /\ cin = NoCin => chunk = "head"
    /\ cin # NoCin => /\ chunk \in {"head", "part", "rest"}
                      /\ cin.goal # NoGoal /\ cin.seq > 0
                      /\ \A d \in op.dimms : First(d) => cin.goal \in goals[d]
    /\ \A d \in Dimms : First(d) /\ chunk # "head" =>
         pcd[d].hdr = "ok" /\ pcd[d].cin /\ pcd[d].cout = 0
    /\ op.type = "delete" => left = {} /\ \A d \in op.dimms : ~Pending(d)
    /\ op.type = "create" => \A d \in op.dimms \ left : Created(d)

Labelling ==
  pc = "labels" => \A d \in op.dimms : Created(d) /\ (d \notin left => lsa[d] = "init")

Returned ==
  /\ pc \in {"idle", "load"} => cin = NoCin /\ chunk = "head"
  /\ pc \notin {"idle", "load"} => last = NoLast
  /\ CreateComplete /\ NoneLeft

GoalInv == Targeted /\ Computed /\ Removing /\ Sending /\ Labelling /\ Returned

-----------------------------------------------------------------------------
(* What a command writes                                                   *)

LEMMA FirstUnique == ASSUME NEW d \in Dimms, NEW e \in Dimms, First(d), First(e) PROVE d = e
<1>1. d <= e /\ e <= d
  BY Zenon DEF First
<1>2. QED
  BY <1>1, GoalConstants DEF Dimms

LEMMA WrittenCases ==
  ASSUME Types, NEW d \in Dimms, NEW t \in FwCmdSetPlatformConfigData(d)
  PROVE  \/ d \in LargePayload /\ t = Complete(Header(d))
         \/ d \notin LargePayload /\ chunk = "head" /\ t \in {Header(d), Damaged(Header(d))} /\ cin = NoCin
         \/ d \notin LargePayload /\ chunk = "head" /\ t = Header(d) /\ cin # NoCin
         \/ d \notin LargePayload /\ chunk \in {"zeros", "part"} /\ t = Damaged(pcd[d])
         \/ d \notin LargePayload /\ chunk = "rest" /\ t = Complete(pcd[d])
  BY Zenon DEF FwCmdSetPlatformConfigData, Types, StepTypes

LEMMA HeaderFields ==
  ASSUME Types, NEW d \in Dimms
  PROVE  /\ Header(d) \in Tables /\ pcd[d] \in Tables
         /\ Header(d).hdr = "ok" /\ (Header(d).cin <=> cin # NoCin) /\ Header(d).cout = 0
<1>1. pcd[d] \in Tables
  BY Zenon DEF Types, MediaTypes
<1>2. QED
  BY Zenon, <1>1 DEF Header, Tables

LEMMA TableFields ==
  ASSUME Types, NEW d \in Dimms
  PROVE  \A t \in {pcd[d], Header(d)} :
           /\ Damaged(t).hdr = t.hdr /\ Damaged(t).cin = t.cin /\ Damaged(t).cout = t.cout
           /\ Complete(t).hdr = t.hdr /\ Complete(t).cin = t.cin /\ Complete(t).cout = t.cout
           /\ Complete(t).goal = cin.goal /\ Complete(t).seq = cin.seq
<1>1. pcd[d] \in Tables /\ Header(d) \in Tables
  BY Zenon, HeaderFields
<1>2. QED
  BY <1>1 DEF Damaged, Complete, Tables

\* Without a new CIN every command removes the reference to the old one.
LEMMA WritesNoCin ==
  ASSUME Types, NEW d \in Dimms, NEW t \in FwCmdSetPlatformConfigData(d), cin = NoCin,
         chunk \in {"head", "zeros"}, chunk = "zeros" => ~pcd[d].cin
  PROVE  ~t.cin
  BY WrittenCases, HeaderFields, TableFields

\* With one, the header refers to it from the first command on.
LEMMA WritesHeader ==
  ASSUME Types, NEW d \in Dimms, NEW t \in FwCmdSetPlatformConfigData(d), cin # NoCin,
         chunk # "head" => pcd[d].hdr = "ok" /\ pcd[d].cin /\ pcd[d].cout = 0
  PROVE  t.hdr = "ok" /\ t.cin /\ t.cout = 0
  BY WrittenCases, HeaderFields, TableFields

\* The last command completes it.
LEMMA WritesCin ==
  ASSUME Types, NEW d \in Dimms, NEW t \in FwCmdSetPlatformConfigData(d), cin # NoCin,
         chunk \in {"head", "part", "rest"}, LastChunk(d)
  PROVE  t.goal = cin.goal /\ t.seq = cin.seq
  BY WrittenCases, HeaderFields, TableFields DEF LastChunk

\* A write concerns one DIMM.
LEMMA OneWritten ==
  ASSUME Types, NEW d \in Dimms,
         \/ UNCHANGED pcd
         \/ \E t \in FwCmdSetPlatformConfigData(d) : pcd' = [pcd EXCEPT ![d] = t]
  PROVE  \A e \in Dimms : e # d => pcd'[e] = pcd[e] /\ (Pending(e)' <=> Pending(e))
<1>1. \A e \in Dimms : e # d => pcd'[e] = pcd[e]
  BY Zenon DEF Types, MediaTypes
<1>2. QED
  BY Zenon, <1>1 DEF Pending

\* Who is written, and what has been computed for them, does not change on the way.
LEMMA TargetsKept ==
  ASSUME Types, Targeted, Computed, NEW d \in Dimms, d \in left, pc \in Applying, pc' \in Applying,
         left' \subseteq left \/ left' = {e \in Dimms : ~synced[e]}, Keep,
         \/ UNCHANGED pcd
         \/ \E t \in FwCmdSetPlatformConfigData(d) : pcd' = [pcd EXCEPT ![d] = t]
  PROVE  Targeted' /\ Computed'
<1>1. UNCHANGED <<goals, config, synced, op, want>> /\ ~synced[d] /\ op.dimms \subseteq Dimms
  <2>1. op.dimms \subseteq Supported
    BY DEF Types, RequestTypes
  <2>2. QED
    BY Zenon, <2>1, GoalConstants DEF Keep, internal, Targeted
<1>2. Targeted'
  BY Zenon, <1>1 DEF Targeted
<1>3. \A e \in op.dimms : synced[e] => ~Pending(e)'
  BY Zenon, <1>1, OneWritten DEF Computed
<1>4. QED
  BY Zenon, <1>1, <1>2, <1>3 DEF Computed

LEMMA NothingLast == ASSUME last' = NoLast PROVE CreateComplete' /\ NoneLeft'
<1>1. last'.type = "none" /\ last'.stage = "none"
  BY DEF NoLast
<1>2. QED
  BY Zenon, <1>1 DEF CreateComplete, NoneLeft

-----------------------------------------------------------------------------
(* The steps of ApplyGoalConfigsToDimms preserve the invariant             *)

\* Removing a CIN, in the first pass or in the rollback.
LEMMA RemoveStepInv ==
  ASSUME Types, GoalInv, NEW d \in Dimms, ClearStep(d) \/ UndoStep(d)
  PROVE  GoalInv'
<1>1. /\ pc \in {"clear", "undo"} /\ SendConfigInputToDimm(d) /\ UNCHANGED <<pc, clean>> /\ Keep
      /\ First(d) /\ d \in left
  BY Zenon DEF ClearStep, UndoStep, SendConfigInputToDimm, First
<1>2. cin = NoCin /\ chunk \in {"head", "zeros"} /\ (chunk = "zeros" => ~pcd[d].cin)
  BY Zenon, <1>1 DEF GoalInv, Removing
<1>3. PICK t \in FwCmdSetPlatformConfigData(d) : pcd' = [pcd EXCEPT ![d] = t]
  BY Zenon, <1>1 DEF SendConfigInputToDimm
<1>4. ~pcd'[d].cin /\ ~Pending(d)'
  <2>1. ~t.cin /\ pcd'[d] = t
    BY Zenon, <1>2, <1>3, WritesNoCin DEF Types, MediaTypes
  <2>2. QED
    BY Zenon, <2>1 DEF Pending
<1>5. /\ cin' = NoCin
      /\ \/ LastChunk(d) /\ left' = left \ {d} /\ chunk' = "head"
         \/ left' = left /\ chunk' = "zeros"
  BY Zenon, <1>1, <1>2 DEF SendConfigInputToDimm, NextChunk
<1>6. Targeted' /\ Computed'
  <2>1. pc \in Applying /\ pc' \in Applying /\ left' \subseteq left
    BY Zenon, <1>1, <1>5 DEF Applying
  <2>2. QED
    BY Zenon, <1>1, <1>3, <2>1, TargetsKept DEF GoalInv
<1>7. op.dimms \subseteq Dimms /\ UNCHANGED op
  <2>1. op.dimms \subseteq Supported
    BY DEF Types, RequestTypes
  <2>2. QED
    BY Zenon, <1>1, <2>1, GoalConstants DEF Keep
<1>8. Removing'
  <2>1. \A e \in Dimms : First(e)' /\ chunk' = "zeros" => e = d
    BY Zenon, <1>1, <1>5, FirstUnique DEF First
  <2>2. left' = {} => chunk' = "head"
    BY Zenon, <1>1, <1>5
  <2>3. ASSUME clean \/ pc = "clear" PROVE \A e \in op.dimms \ left' : ~Pending(e)'
    BY Zenon, <1>1, <1>3, <1>4, <1>5, <1>7, <2>3, OneWritten DEF GoalInv, Removing
  <2>4. QED
    BY Zenon, <1>1, <1>4, <1>5, <1>7, <2>1, <2>2, <2>3 DEF Removing
<1>9. Returned'
  BY Zenon, <1>1, NothingLast DEF GoalInv, Returned, Keep
<1>10. QED
  BY Zenon, <1>1, <1>6, <1>8, <1>9 DEF GoalInv, Sending, Labelling

\* Sending a CIN.
LEMMA SendStepInv ==
  ASSUME Types, GoalInv, NEW d \in Dimms, SendStep(d)
  PROVE  GoalInv'
<1>1. /\ pc = "send" /\ cin # NoCin /\ SendConfigInputToDimm(d) /\ UNCHANGED <<pc, clean>> /\ Keep
      /\ First(d) /\ d \in left
  BY Zenon DEF SendStep, SendConfigInputToDimm, First
<1>2. /\ chunk \in {"head", "part", "rest"} /\ cin.goal # NoGoal /\ cin.seq > 0
      /\ d \in op.dimms => cin.goal \in goals[d]
      /\ chunk # "head" => pcd[d].hdr = "ok" /\ pcd[d].cin /\ pcd[d].cout = 0
      /\ op.type = "create"
  BY Zenon, <1>1 DEF GoalInv, Sending, Computed, Applying
<1>3. PICK t \in FwCmdSetPlatformConfigData(d) : pcd' = [pcd EXCEPT ![d] = t]
  BY Zenon, <1>1 DEF SendConfigInputToDimm
<1>4. pcd'[d] = t
  BY Zenon, <1>3 DEF Types, MediaTypes
<1>5. pcd'[d].hdr = "ok" /\ pcd'[d].cin /\ pcd'[d].cout = 0
  BY Zenon, <1>1, <1>2, <1>4, WritesHeader
<1>6. LastChunk(d) => Pending(d)' /\ pcd'[d].goal = cin.goal
  <2>1. LastChunk(d) => pcd'[d].goal = cin.goal /\ pcd'[d].seq = cin.seq
    BY Zenon, <1>1, <1>2, <1>4, WritesCin
  <2>2. cin.seq # 0
    BY <1>2
  <2>3. QED
    BY Zenon, <1>2, <1>5, <2>1, <2>2 DEF Pending
<1>7. \/ LastChunk(d) /\ left' = left \ {d} /\ chunk' = "head" /\ cin' = NoCin
      \/ left' = left /\ chunk' \in {"part", "rest"} /\ cin' = cin
  BY Zenon, <1>1 DEF SendConfigInputToDimm, NextChunk
<1>8. Targeted' /\ Computed'
  <2>1. pc \in Applying /\ pc' \in Applying /\ left' \subseteq left
    BY Zenon, <1>1, <1>7 DEF Applying
  <2>2. QED
    BY Zenon, <1>1, <1>3, <2>1, TargetsKept DEF GoalInv
<1>9. op.dimms \subseteq Dimms /\ UNCHANGED <<op, goals, want>>
  <2>1. op.dimms \subseteq Supported
    BY DEF Types, RequestTypes
  <2>2. QED
    BY Zenon, <1>1, <2>1, GoalConstants DEF Keep, internal
<1>10. Sending'
  <2>1. \A e \in Dimms : First(e)' /\ chunk' # "head" => e = d
    BY Zenon, <1>1, <1>7, FirstUnique DEF First
  <2>2. ASSUME NEW e \in op.dimms \ left' PROVE Created(e)'
    <3>1. CASE e = d
      <4>1. LastChunk(d) /\ cin.goal \in goals[d] /\ goals[d] = {want[d]}
        BY Zenon, <1>1, <1>2, <1>7, <2>2, <3>1 DEF GoalInv, Computed, Applying
      <4>2. QED
        BY Zenon, <1>6, <1>9, <3>1, <4>1 DEF Created
    <3>2. CASE e # d
      <4>1. Created(e)
        BY Zenon, <1>1, <1>2, <1>7, <2>2, <3>2 DEF GoalInv, Sending
      <4>2. QED
        BY Zenon, <1>3, <1>9, <3>2, <4>1, OneWritten DEF Created
    <3>3. QED
      BY Zenon, <3>1, <3>2
  <2>3. cin' # NoCin => /\ chunk' \in {"part", "rest"} /\ cin' = cin /\ left' = left
    BY Zenon, <1>7
  <2>4. cin' = NoCin => chunk' = "head"
    BY Zenon, <1>1, <1>7
  <2>5. \A e \in op'.dimms : First(e)' /\ cin' # NoCin => cin'.goal \in goals'[e]
    BY Zenon, <1>1, <1>9, <2>3 DEF GoalInv, Sending, First
  <2>6. \A e \in Dimms : First(e)' /\ chunk' # "head" => pcd'[e].hdr = "ok" /\ pcd'[e].cin /\ pcd'[e].cout = 0
    BY Zenon, <1>5, <2>1
  <2>7. QED
    BY Zenon, <1>2, <1>9, <2>2, <2>3, <2>4, <2>5, <2>6 DEF Sending
<1>11. Returned'
  BY Zenon, <1>1, NothingLast DEF GoalInv, Returned, Keep
<1>12. QED
  BY Zenon, <1>1, <1>8, <1>10, <1>11 DEF GoalInv, Removing, Labelling

\* Computing it.
LEMMA GenerateInv ==
  ASSUME Types, GoalInv, NEW d \in Dimms, GeneratePcdConfInput(d)
  PROVE  GoalInv'
<1>1. /\ pc = "send" /\ cin = NoCin /\ First(d) /\ d \in left
      /\ UNCHANGED <<pcd, pc, left, chunk, clean>> /\ Keep
  BY Zenon DEF GeneratePcdConfInput, First
<1>2. PICK g \in goals[d] : cin' = [goal |-> g, seq |-> GetNewSequenceNumber(d)]
  BY Zenon DEF GeneratePcdConfInput
<1>3. chunk = "head" /\ g \in RegionGoals /\ g # NoGoal
  BY Zenon, <1>1, GoalConstants DEF GoalInv, Sending, Types, InternalTypes
<1>4. cin'.goal = g /\ cin'.seq > 0
  <2>1. pcd[d].cout \in Nat
    BY DEF Types, MediaTypes, Tables
  <2>2. QED
    BY SMTT(30), <1>2, <2>1 DEF GetNewSequenceNumber
<1>5. UNCHANGED <<goals, config, synced, op, want>> /\ op.dimms \subseteq Dimms
  <2>1. op.dimms \subseteq Supported
    BY DEF Types, RequestTypes
  <2>2. QED
    BY Zenon, <1>1, <2>1, GoalConstants DEF Keep, internal
<1>6. \A e \in Dimms : First(e)' => First(e) /\ e = d
  BY Zenon, <1>1, FirstUnique DEF First
<1>7. \A e \in Dimms : Pending(e)' <=> Pending(e)
  BY Zenon, <1>1 DEF Pending
<1>8. Targeted' /\ Computed'
  BY Zenon, <1>1, <1>5, <1>7 DEF GoalInv, Targeted, Computed
<1>9. Sending'
  BY Zenon, <1>1, <1>2, <1>3, <1>4, <1>5, <1>6, <1>7 DEF GoalInv, Sending, Created
<1>10. Returned'
  BY Zenon, <1>1, NothingLast DEF GoalInv, Returned, Keep
<1>11. QED
  BY Zenon, <1>1, <1>8, <1>9, <1>10 DEF GoalInv, Removing, Labelling

\* The two loops of ApplyGoalConfigsToDimms follow one another.
LEMMA ClearDoneInv == ASSUME Types, GoalInv, ClearDone PROVE GoalInv'
<1>1. /\ pc = "clear" /\ left = {} /\ pc' = "send" /\ left' = {d \in Dimms : ~synced[d] /\ config[d]}
      /\ UNCHANGED <<pcd, cin, chunk, clean>> /\ Keep
  BY Zenon DEF ClearDone
<1>2. UNCHANGED <<goals, config, synced, op, want>> /\ op.dimms \subseteq Dimms
  <2>1. op.dimms \subseteq Supported
    BY DEF Types, RequestTypes
  <2>2. QED
    BY Zenon, <1>1, <2>1, GoalConstants DEF Keep, internal
<1>3. cin = NoCin /\ chunk = "head" /\ \A d \in op.dimms : ~Pending(d)
  BY Zenon, <1>1 DEF GoalInv, Removing
<1>4. \A d \in Dimms : Pending(d)' <=> Pending(d)
  BY Zenon, <1>1 DEF Pending
<1>5. Targeted' /\ Computed'
  BY Zenon, <1>1, <1>2, <1>4 DEF GoalInv, Targeted, Computed, Applying
<1>6. op.type = "delete" => left' = {}
  BY Zenon, <1>1 DEF GoalInv, Computed, Applying
<1>7. op.type = "create" => op.dimms \subseteq left'
  BY Zenon, <1>1, <1>2 DEF GoalInv, Computed, Applying
<1>8. Sending'
  BY Zenon, <1>1, <1>2, <1>3, <1>4, <1>6, <1>7 DEF Sending
<1>9. Returned'
  BY Zenon, <1>1, NothingLast DEF GoalInv, Returned, Keep
<1>10. QED
  BY Zenon, <1>1, <1>5, <1>8, <1>9 DEF GoalInv, Removing, Labelling

\* An operation that has returned is only judged by what it reports.
LEMMA Ended ==
  ASSUME pc' \in {"idle", "load"}, cin' = NoCin, chunk' = "head", CreateComplete', NoneLeft'
  PROVE  GoalInv'
  BY Zenon DEF GoalInv, Targeted, Computed, Applying, Removing, Sending, Labelling, Returned

LEMMA ReturnFields ==
  ASSUME NEW type, NEW D, NEW out, NEW stage, Return(type, D, out, stage)
  PROVE  /\ pc' \in {"idle", "load"} /\ cin' = NoCin /\ chunk' = "head"
         /\ last'.type = type /\ last'.dimms = D /\ last'.out = out /\ last'.stage = stage
<1>1. last' = [type |-> type, dimms |-> D, out |-> out, stage |-> stage]
  BY Zenon DEF Return
<1>2. last'.type = type /\ last'.dimms = D /\ last'.out = out /\ last'.stage = stage
  BY <1>1
<1>3. QED
  BY Zenon, <1>2 DEF Return

\* The error paths.
LEMMA ApplyFailsInv ==
  ASSUME Types, GoalInv, NEW d \in Dimms, ApplyFails(d)
  PROVE  GoalInv'
<1>1. /\ pc \in Applying /\ d \in left
      /\ \/ UNCHANGED pcd
         \/ \E t \in FwCmdSetPlatformConfigData(d) : pcd' = [pcd EXCEPT ![d] = t]
  BY Zenon DEF ApplyFails, SendFails, First, Applying
<1>2. CASE /\ pc' = "undo" /\ left' = {e \in Dimms : ~synced[e]}
           /\ cin' = NoCin /\ chunk' = "head" /\ Keep
  <2>1. Targeted' /\ Computed'
    <3>1. pc' \in Applying
      BY Zenon, <1>2 DEF Applying
    <3>2. QED
      BY Zenon, <1>1, <1>2, <3>1, TargetsKept DEF GoalInv
  <2>2. synced' = synced /\ op' = op /\ op.dimms \subseteq Dimms
    <3>1. op.dimms \subseteq Supported
      BY DEF Types, RequestTypes
    <3>2. QED
      BY Zenon, <1>2, <3>1, GoalConstants DEF Keep, internal
  <2>3. \A e \in op.dimms : synced[e] => ~Pending(e)'
    BY Zenon, <1>2, <2>1, <2>2 DEF Computed, Applying
  <2>4. Removing'
    BY Zenon, <1>2, <2>2, <2>3 DEF Removing
  <2>5. Returned'
    <3>1. last' = NoLast
      BY Zenon, <1>1, <1>2 DEF GoalInv, Returned, Keep, Applying
    <3>2. QED
      BY Zenon, <1>2, <3>1, NothingLast DEF Returned
  <2>6. QED
    BY Zenon, <1>2, <2>1, <2>4, <2>5 DEF GoalInv, Sending, Labelling
<1>3. CASE Return(op.type, op.dimms, "err", "invalid")
  <2>1. last'.out = "err" /\ last'.stage = "invalid"
    BY Zenon, <1>3, ReturnFields
  <2>2. CreateComplete' /\ NoneLeft'
    BY Zenon, <2>1 DEF CreateComplete, NoneLeft
  <2>3. QED
    BY Zenon, <1>3, <2>2, ReturnFields, Ended
<1>4. QED
  BY Zenon, <1>2, <1>3 DEF ApplyFails

LEMMA UndoFailsInv ==
  ASSUME Types, GoalInv, NEW d \in Dimms, UndoFails(d)
  PROVE  GoalInv'
<1>1. /\ pc = "undo" /\ pc' = "undo" /\ d \in left /\ left' = left \ {d} /\ chunk' = "head"
      /\ clean' = FALSE /\ cin' = cin /\ Keep
      /\ \/ UNCHANGED pcd
         \/ \E t \in FwCmdSetPlatformConfigData(d) : pcd' = [pcd EXCEPT ![d] = t]
  BY Zenon DEF UndoFails, SendFails, First
<1>2. Targeted' /\ Computed'
  <2>1. pc \in Applying /\ pc' \in Applying /\ left' \subseteq left
    BY Zenon, <1>1 DEF Applying
  <2>2. QED
    BY Zenon, <1>1, <2>1, TargetsKept DEF GoalInv
<1>3. Removing'
  BY Zenon, <1>1 DEF GoalInv, Removing
<1>4. Returned'
  BY Zenon, <1>1, NothingLast DEF GoalInv, Returned, Keep
<1>5. QED
  BY Zenon, <1>1, <1>2, <1>3, <1>4 DEF GoalInv, Sending, Labelling

LEMMA UndoDoneInv == ASSUME Types, GoalInv, UndoDone PROVE GoalInv'
<1> DEFINE stage == IF clean THEN "undone" ELSE "spoiled"
<1>1. pc = "undo" /\ left = {} /\ Return(op.type, op.dimms, "err", stage) /\ pcd' = pcd
  BY Zenon DEF UndoDone, media
<1>2. last'.out = "err" /\ last'.dimms = op.dimms /\ last'.stage = stage
  <2> HIDE DEF stage
  <2>1. QED
    BY Zenon, <1>1, ReturnFields
<1>3. stage # "done" /\ (stage = "undone" => clean)
  OBVIOUS
<1>4. clean => \A d \in op.dimms : ~Pending(d)'
  BY Zenon, <1>1 DEF GoalInv, Removing, Pending
<1>5. CreateComplete' /\ NoneLeft'
  <2> HIDE DEF stage
  <2>1. QED
    BY Zenon, <1>2, <1>3, <1>4 DEF CreateComplete, NoneLeft
<1>6. QED
  <2> HIDE DEF stage
  <2>1. QED
    BY Zenon, <1>1, <1>5, ReturnFields, Ended

\* Everything was sent.
LEMMA SendDoneInv == ASSUME Types, GoalInv, SendDone PROVE GoalInv'
<1>1. pc = "send" /\ left = {} /\ pcd' = pcd /\ want' = want /\ op.type \in {"create", "delete"}
  BY Zenon DEF SendDone, media, GoalInv, Computed, Applying
<1>2. CASE op.type = "create"
  <2>1. pc' = "labels" /\ left' = op.dimms /\ UNCHANGED <<op, last>>
    BY Zenon, <1>2 DEF SendDone
  <2>2. \A d \in op.dimms : Created(d)'
    BY Zenon, <1>1, <1>2 DEF GoalInv, Sending, Created, Pending
  <2>3. Labelling'
    BY Zenon, <2>1, <2>2 DEF Labelling
  <2>4. Returned'
    BY Zenon, <1>1, <2>1, NothingLast DEF GoalInv, Returned
  <2>5. QED
    BY Zenon, <2>1, <2>3, <2>4 DEF GoalInv, Targeted, Computed, Applying, Removing, Sending
<1>3. CASE op.type = "delete"
  <2>1. Return("delete", op.dimms, "ok", "done")
    BY Zenon, <1>3 DEF SendDone
  <2>2. last'.type = "delete" /\ last'.dimms = op.dimms
    BY Zenon, <2>1, ReturnFields
  <2>3. \A d \in op.dimms : ~Pending(d)'
    BY Zenon, <1>1, <1>3 DEF GoalInv, Sending, Pending
  <2>4. CreateComplete' /\ NoneLeft'
    BY Zenon, <2>2, <2>3 DEF CreateComplete, NoneLeft
  <2>5. QED
    BY Zenon, <2>1, <2>4, ReturnFields, Ended
<1>4. QED
  BY Zenon, <1>1, <1>2, <1>3

\* The label storage areas.
LEMMA LabelStepInv ==
  ASSUME Types, GoalInv, NEW d \in Dimms,
         ZeroLabelStorageArea(d) \/ InitializeLabelStorageArea(d)
  PROVE  GoalInv'
<1>1. /\ pc = "labels" /\ d \in left /\ UNCHANGED <<pcd, pc, op, want, last>>
      /\ \/ lsa' = [lsa EXCEPT ![d] = "zero"] /\ left' = left
         \/ lsa' = [lsa EXCEPT ![d] = "init"] /\ left' = left \ {d}
  BY Zenon DEF ZeroLabelStorageArea, InitializeLabelStorageArea, First, progress
<1>2. op.dimms \subseteq Dimms
  <2>1. op.dimms \subseteq Supported
    BY DEF Types, RequestTypes
  <2>2. QED
    BY Zenon, <2>1, GoalConstants
<1>3. ASSUME NEW e \in op.dimms \ left' PROVE lsa'[e] = "init"
  <2>1. CASE e = d
    BY Zenon, <1>1, <1>2, <1>3, <2>1 DEF Types, MediaTypes
  <2>2. CASE e # d
    BY Zenon, <1>1, <1>2, <1>3, <2>2 DEF Types, MediaTypes, GoalInv, Labelling
  <2>3. QED
    BY Zenon, <2>1, <2>2
<1>4. \A e \in op.dimms : Created(e)'
  BY Zenon, <1>1 DEF GoalInv, Labelling, Created, Pending
<1>5. Labelling'
  BY Zenon, <1>1, <1>3, <1>4 DEF Labelling
<1>6. Returned'
  BY Zenon, <1>1, NothingLast DEF GoalInv, Returned
<1>7. QED
  BY Zenon, <1>1, <1>5, <1>6 DEF GoalInv, Targeted, Computed, Applying, Removing, Sending

LEMMA LabelEndInv ==
  ASSUME Types, GoalInv, LabelsDone \/ \E d \in Dimms : LabelsFail(d)
  PROVE  GoalInv'
<1>1. CASE LabelsDone
  <2>1. /\ pc = "labels" /\ left = {} /\ Return("create", op.dimms, "ok", "done")
        /\ UNCHANGED <<pcd, lsa, want>>
    BY Zenon, <1>1 DEF LabelsDone, media
  <2>2. last'.type = "create" /\ last'.dimms = op.dimms /\ last'.stage = "done"
    BY <2>1, ReturnFields
  <2>3. \A d \in op.dimms : Pending(d)' /\ pcd'[d].goal = want'[d] /\ lsa'[d] = "init"
    BY Zenon, <2>1 DEF GoalInv, Labelling, Created, Pending
  <2>4. CreateComplete' /\ NoneLeft'
    BY Zenon, <2>2, <2>3 DEF CreateComplete, NoneLeft
  <2>5. QED
    BY Zenon, <2>1, <2>4, ReturnFields, Ended
<1>2. CASE \E d \in Dimms : LabelsFail(d)
  <2>1. Return(op.type, op.dimms, "err", "labels")
    BY Zenon, <1>2 DEF LabelsFail
  <2>2. last'.out = "err" /\ last'.stage = "labels"
    BY Zenon, <2>1, ReturnFields
  <2>3. CreateComplete' /\ NoneLeft'
    BY Zenon, <2>2 DEF CreateComplete, NoneLeft
  <2>4. QED
    BY Zenon, <2>1, <2>3, ReturnFields, Ended
<1>3. QED
  BY Zenon, <1>1, <1>2

\* A request that begins to write.
LEMMA CreateGoalConfigInv ==
  ASSUME Types, GoalInv, NEW D \in SUBSET Supported, NEW kind, pc \in {"idle", "load"},
         CreateGoalConfig(D, kind)
  PROVE  GoalInv'
<1>1. /\ pc' = "clear" /\ op' = [type |-> "create", dimms |-> D]
      /\ left' = {d \in Supported : ~synced'[d]} /\ last' = NoLast
      /\ UNCHANGED <<cin, chunk, clean>> /\ cin = NoCin /\ chunk = "head"
  BY Zenon DEF CreateGoalConfig, Start, GoalInv, Returned
<1>2. op'.type = "create" /\ op'.dimms = D /\ D \subseteq Dimms /\ Supported \subseteq Dimms
  BY SMTT(30), <1>1, GoalConstants
<1>3. /\ \A d \in D : config'[d] /\ ~synced'[d] /\ goals'[d] = {want'[d]}
      /\ \A d \in Supported : ~synced'[d] => d \in D
  BY Zenon, <1>2 DEF CreateGoalConfig, RetrievedSynced
<1>4. Targeted' /\ Computed'
  BY Zenon, <1>1, <1>2, <1>3 DEF Targeted, Computed
<1>5. Removing'
  BY Zenon, <1>1, <1>2, <1>3 DEF Removing
<1>6. Returned'
  BY Zenon, <1>1, NothingLast DEF Returned
<1>7. QED
  BY Zenon, <1>1, <1>4, <1>5, <1>6 DEF GoalInv, Sending, Labelling

LEMMA DeleteGoalConfigInv ==
  ASSUME Types, GoalInv, NEW D \in SUBSET Supported, DeleteGoalConfig(D)
  PROVE  GoalInv'
<1>1. /\ pc' = "clear" /\ op' = [type |-> "delete", dimms |-> D]
      /\ left' = {d \in Supported : ~synced'[d]} /\ last' = NoLast /\ pcd' = pcd
      /\ UNCHANGED <<cin, chunk, clean>> /\ cin = NoCin /\ chunk = "head"
  BY Zenon DEF DeleteGoalConfig, Start, GoalInv, Returned, media
<1>2. op'.type = "delete" /\ op'.dimms = D /\ D \subseteq Dimms /\ Supported \subseteq Dimms
  BY <1>1, GoalConstants
<1>3. /\ \A d \in Dimms : config'[d] <=> d \notin D /\ RetrievedConfig(d)
      /\ \A d \in D : synced'[d] <=> ~RetrievedConfig(d)
      /\ \A d \in Dimms \ D : synced'[d] <=> d \in Supported
  BY Zenon, <1>2 DEF DeleteGoalConfig, RetrievedSynced
<1>4. \A d \in Dimms : ~synced'[d] => ~config'[d]
  BY Zenon, <1>3 DEF RetrievedConfig
<1>5. \A d \in D : synced'[d] => ~Pending(d)'
  BY Zenon, <1>1, <1>3 DEF RetrievedConfig, Pending
<1>6. \A d \in Supported : ~synced'[d] => d \in D
  BY Zenon, <1>2, <1>3
<1>7. Targeted' /\ Computed'
  BY Zenon, <1>1, <1>2, <1>4, <1>5, <1>6 DEF Targeted, Computed
<1>8. Removing'
  BY Zenon, <1>1, <1>2, <1>5 DEF Removing
<1>9. Returned'
  BY Zenon, <1>1, NothingLast DEF Returned
<1>10. QED
  BY Zenon, <1>1, <1>7, <1>8, <1>9 DEF GoalInv, Sending, Labelling

\* The steps that touch no goal.
LEMMA QuietInv ==
  ASSUME GoalInv, Refused \/ Reboot \/ \E D \in Requests : LoadGoalConfig(D)
  PROVE  GoalInv'
<1>1. pc' \in {"idle", "load"} /\ last' = NoLast
  BY Zenon DEF Refused, Reboot, LoadGoalConfig
<1>2. cin' = NoCin /\ chunk' = "head"
  BY Zenon DEF Refused, Reboot, LoadGoalConfig, GoalInv, Returned
<1>3. QED
  BY Zenon, <1>1, <1>2, NothingLast, Ended

LEMMA GoalInvInit == GoalInit => GoalInv
<1> SUFFICES ASSUME GoalInit PROVE GoalInv
  OBVIOUS
<1>1. pc = "idle" /\ cin = NoCin /\ chunk = "head" /\ last = NoLast
  BY Zenon DEF GoalInit
<1>2. last.type = "none" /\ last.stage = "none"
  BY <1>1 DEF NoLast
<1>3. QED
  BY Zenon, <1>1, <1>2 DEF GoalInv, Targeted, Computed, Applying, Removing, Sending, Labelling,
                          Returned, CreateComplete, NoneLeft

LEMMA GoalInvNext == ASSUME Types, GoalInv, [GoalNext]_goalVars PROVE GoalInv'
<1>1. CASE UNCHANGED goalVars
  <2>1. UNCHANGED <<pcd, lsa, goals, config, synced, pc, op, left, cin, chunk, clean, last, want>>
    BY Zenon, <1>1 DEF goalVars
  <2>2. Targeted' /\ Computed' /\ Labelling'
    BY Zenon, <2>1 DEF GoalInv, Targeted, Computed, Labelling, Created, Pending
  <2>3. Removing' /\ Sending'
    BY Zenon, <2>1 DEF GoalInv, Removing, Sending, First, Created, Pending
  <2>4. Returned'
    BY Zenon, <2>1 DEF GoalInv, Returned, CreateComplete, NoneLeft, Pending
  <2>5. QED
    BY Zenon, <2>2, <2>3, <2>4 DEF GoalInv
<1>2. ASSUME NEW D \in Requests, NEW kind, Create(D, kind) \/ LoadSocket(D, kind) PROVE GoalInv'
  <2>1. D \in SUBSET Supported
    BY Zenon DEF Requests
  <2>2. pc \in {"idle", "load"} /\ CreateGoalConfig(D, kind)
    BY Zenon, <1>2 DEF Create, LoadSocket
  <2>3. QED
    BY <2>1, <2>2, CreateGoalConfigInv
<1>3. ASSUME NEW D \in Requests, DeleteGoalConfig(D) PROVE GoalInv'
  BY Zenon, <1>3, DeleteGoalConfigInv DEF Requests
<1>4. CASE Request
  BY Zenon, <1>2, <1>3, <1>4, QuietInv DEF Request
<1>5. CASE Step
  BY Zenon, <1>2, <1>5, RemoveStepInv, SendStepInv, GenerateInv, ClearDoneInv, ApplyFailsInv,
     UndoFailsInv, UndoDoneInv, SendDoneInv, LabelStepInv, LabelEndInv DEF Step
<1>6. QED
  BY Zenon, <1>1, <1>4, <1>5, QuietInv DEF GoalNext

-----------------------------------------------------------------------------
(* The theorems                                                            *)

\* A creation that reports success has put the computed goal on every DIMM of the
\* request, as one that the BIOS will take for a new one, and has initialised the
\* label storage areas: for any number of DIMMs, commands that fail and power
\* failures (CreateGoalConfig, ApplyGoalConfigsToDimms).
THEOREM CreationsComplete == GoalSpec => []CreateComplete
<1>1. GoalInv => CreateComplete
  BY Zenon DEF GoalInv, Returned
<1>2. QED
  BY <1>1, TypesInit, TypesNext, GoalInvInit, GoalInvNext, PTL DEF GoalSpec

\* A deletion that reports success, and a rollback of ApplyGoalConfigsToDimms that
\* met no error, leave no goal on any DIMM of the request.
THEOREM NothingLeftBehind == GoalSpec => []NoneLeft
<1>1. GoalInv => NoneLeft
  BY Zenon DEF GoalInv, Returned
<1>2. QED
  BY <1>1, TypesInit, TypesNext, GoalInvInit, GoalInvNext, PTL DEF GoalSpec

\* A write goes to a DIMM that is out of sync.
LEMMA WritesTargeted ==
  ASSUME Types, GoalInv, NEW d \in Dimms,
         ClearStep(d) \/ SendStep(d) \/ UndoStep(d) \/ ApplyFails(d) \/ UndoFails(d)
  PROVE  \A e \in Supported \ op.dimms : pcd'[e] = pcd[e]
<1>1. /\ pc \in Applying /\ d \in left
      /\ \/ UNCHANGED pcd
         \/ \E t \in FwCmdSetPlatformConfigData(d) : pcd' = [pcd EXCEPT ![d] = t]
  BY Zenon DEF ClearStep, SendStep, UndoStep, ApplyFails, UndoFails, SendConfigInputToDimm,
               SendFails, First, Applying
<1>2. d \in Supported => d \in op.dimms
  BY Zenon, <1>1 DEF GoalInv, Targeted
<1>3. QED
  BY Zenon, <1>1, <1>2, OneWritten, GoalConstants

\* No step of an operation changes the PCD of a supported DIMM outside of the
\* request, not even when ApplyGoalConfigsToDimms rolls back after an error.
THEOREM OthersKept == GoalSpec => UntargetedKept
<1> DEFINE Kept == \A d \in Supported \ op.dimms : pcd'[d] = pcd[d]
           Allowed == (pc' = "idle" /\ last' = NoLast) \/ Kept
<1>1. ASSUME Types, GoalInv, [GoalNext]_goalVars PROVE [Allowed]_goalVars
  <2>1. CASE pcd' = pcd
    BY Zenon, <2>1
  <2>2. CASE Request
    <3>1. pcd' = pcd
      BY Zenon, <2>2 DEF Request, Create, LoadGoalConfig, CreateGoalConfig, DeleteGoalConfig, Start,
                         Refused, media
    <3>2. QED
      BY Zenon, <3>1
  <2>3. CASE Step
    <3>1. \/ pcd' = pcd
          \/ \E d \in Dimms :
               ClearStep(d) \/ SendStep(d) \/ UndoStep(d) \/ ApplyFails(d) \/ UndoFails(d)
      BY Zenon, <2>3 DEF Step, LoadSocket, CreateGoalConfig, Start, media, GeneratePcdConfInput,
         ZeroLabelStorageArea, InitializeLabelStorageArea, LabelsFail, ClearDone, SendDone,
         UndoDone, LabelsDone
    <3>2. QED
      BY Zenon, <1>1, <3>1, WritesTargeted
  <2>4. CASE Reboot
    BY Zenon, <2>4 DEF Reboot
  <2>5. CASE UNCHANGED goalVars
    BY Zenon, <2>5 DEF goalVars
  <2>6. QED
    BY Zenon, <1>1, <2>1, <2>2, <2>3, <2>4, <2>5 DEF GoalNext
<1>2. QED
  BY <1>1, TypesInit, TypesNext, GoalInvInit, GoalInvNext, PTL DEF GoalSpec, UntargetedKept

-----------------------------------------------------------------------------
(* Whole goals: the second invariant                                       *)

\* A CIN is always about the DIMM it is on, also one that is no longer named.
OwnGoals == \A d \in Dimms : pcd[d].goal # NoGoal => d \in pcd[d].goal.members

\* Between requests there is no DIMM of a request; only DIMMs of the request are
\* sent a goal; and without a failure there is no rollback.
Context ==
  /\ pc \in {"idle", "load"} => op = NoOp
  /\ pc = "labels" => op.type = "create"
  /\ pc \in Applying => \A d \in Dimms : ~synced[d] /\ config[d] => d \in op.dimms
  /\ pc = "send" => left \subseteq op.dimms
  /\ faults = 0 => spoiled = {} /\ pc # "undo"

AboveRegions(i) == faults = 0 => \A j \in RegionIndexes : j < i

\* The computed sets are whole, and their indexes above all those in use.
Planned ==
  op.type = "create" =>
    \A d \in op.dimms :
      /\ want[d] \in RegionGoals /\ d \in want[d].members
      /\ \A e \in want[d].members : e \in op.dimms /\ SocketOf[e] = SocketOf[d] /\ want[e] = want[d]
      /\ \A e \in op.dimms : want[e].is = want[d].is => want[e] = want[d]
      /\ \A e \in Supported \ op.dimms : Pending(e) => pcd[e].goal.is < want[d].is
      /\ AboveRegions(want[d].is)

\* The DIMMs that no request is about.
Idlers == Supported \ (spoiled \cup op.dimms)

\* Their pending sets are whole, are on one socket, share no index and concern no
\* DIMM of the request.
Settled ==
  \A d \in Idlers : Pending(d) =>
    /\ \A e \in pcd[d].goal.members :
         /\ e \in Supported \ op.dimms /\ SocketOf[e] = SocketOf[d]
         /\ Pending(e) /\ pcd[e].goal = pcd[d].goal
    /\ \A e \in Idlers : Pending(e) /\ pcd[e].goal.is = pcd[d].goal.is => pcd[e].goal = pcd[d].goal
    /\ AboveRegions(pcd[d].goal.is)

SetInv == OwnGoals /\ Context /\ Planned /\ Settled

-----------------------------------------------------------------------------
(* The indexes of new sets                                                 *)

\* The index of a pending goal counts for the largest one: RetrieveGoalConfigs
\* looks at the first DIMM that uses it.
LEMMA PendingIndex ==
  ASSUME Types, OwnGoals, NEW d \in Supported, Pending(d)
  PROVE  pcd[d].goal.is \in GoalIndexes
<1> DEFINE i == pcd[d].goal.is
           S == {e \in Supported : Pending(e) /\ pcd[e].goal.is = i}
<1>1. S \subseteq Nat /\ d \in S
  <2>1. Supported \subseteq Nat
    BY GoalConstants DEF Dimms
  <2>2. QED
    BY Zenon, <2>1
<1>2. PICK f \in S : \A e \in S : ~(<<e, f>> \in OpToRel(<, Nat))
  <2> HIDE DEF S
  <2>1. QED
    BY <1>1, NatLessThanWellFounded, WFMin
<1>3. \A e \in S : ~(e < f)
  BY Zenon, <1>1, <1>2 DEF OpToRel
<1>4. pcd[f].goal \in RetrievedGoals
  BY Zenon, <1>3 DEF RetrievedGoals
<1>5. f \in Supported /\ f \in pcd[f].goal.members /\ pcd[f].goal.is = i
  BY Zenon, GoalConstants DEF OwnGoals, Pending
<1>6. QED
  <2>1. pcd[f].goal \in RetrieveRegionGoal(f)
    BY Zenon, <1>4, <1>5 DEF RetrieveRegionGoal
  <2>2. pcd[f].goal \in UNION {RetrieveRegionGoal(e) : e \in Supported}
    BY Zenon, <1>5, <2>1
  <2>3. QED
    BY Zenon, <1>5, <2>2 DEF GoalIndexes

LEMMA LargestOfGoals ==
  ASSUME Types, GoalIndexes # {}
  PROVE  /\ \A i \in GoalIndexes : i <= LargestIndex
         /\ \E f \in Supported : Pending(f) /\ pcd[f].goal.is = LargestIndex
<1>1. LargestIndex \in GoalIndexes /\ \A i \in GoalIndexes : i <= LargestIndex
  BY Zenon, GoalIndexTypes, LargestExists DEF LargestIndex, Types
<1>2. PICK g \in UNION {RetrieveRegionGoal(e) : e \in Supported} : LargestIndex = g.is
  BY Zenon, <1>1 DEF GoalIndexes
<1>3. PICK e \in Supported : g \in RetrieveRegionGoal(e)
  BY Zenon
<1>4. g \in RetrievedGoals
  BY Zenon, <1>3 DEF RetrieveRegionGoal
<1>5. PICK f \in Supported : Pending(f) /\ g = pcd[f].goal
  BY Zenon, <1>4 DEF RetrievedGoals
<1>6. QED
  BY Zenon, <1>1, <1>2, <1>5

LEMMA LargestOfRegions ==
  ASSUME Types, GoalIndexes = {}
  PROVE  \A i \in RegionIndexes : i <= LargestIndex
<1>1. /\ RegionIndexes \cup {0} \subseteq Nat /\ RegionIndexes \cup {0} # {}
      /\ IsFiniteSet(RegionIndexes \cup {0})
  BY RegionIndexTypes, FS_AddElement DEF Types
<1>2. QED
  BY Zenon, <1>1, LargestExists DEF LargestIndex

\* The number of a DIMM's set in a creation: how many sockets, or DIMMs, there are
\* up to its own.
Upto(d, D) == {SocketOf[e] : e \in {e \in D : SocketOf[e] <= SocketOf[d]}}
Until(d, D) == {e \in D : SocketOf[e] < SocketOf[d] \/ (SocketOf[e] = SocketOf[d] /\ e <= d)}

LEMMA RankFinite ==
  ASSUME NEW D \in SUBSET Supported, NEW d \in D
  PROVE  /\ IsFiniteSet(Upto(d, D)) /\ IsFiniteSet(Until(d, D))
         /\ Cardinality(Upto(d, D)) \in Nat /\ Cardinality(Until(d, D)) \in Nat
         /\ SocketOf[d] \in Upto(d, D) /\ d \in Until(d, D)
<1>1. D \subseteq Dimms /\ d \in Nat /\ SocketOf[d] \in Nat
  BY GoalConstants DEF Dimms
<1>2. IsFiniteSet(Until(d, D))
  BY Zenon, <1>1, DimmSets DEF Until
<1>3. IsFiniteSet(Upto(d, D))
  <2>1. IsFiniteSet({e \in D : SocketOf[e] <= SocketOf[d]})
    BY Zenon, <1>1, DimmSets
  <2>2. QED
    BY Zenon, <2>1, ImageFinite DEF Upto
<1>4. d <= d /\ SocketOf[d] <= SocketOf[d]
  BY <1>1
<1>5. SocketOf[d] \in Upto(d, D) /\ d \in Until(d, D)
  BY Zenon, <1>4 DEF Upto, Until
<1>6. QED
  BY Zenon, <1>2, <1>3, <1>5, FS_CardinalityType

LEMMA CardinalityStrict ==
  ASSUME NEW S, NEW T, IsFiniteSet(S), T \subseteq S, NEW x \in S, x \notin T
  PROVE  Cardinality(T) # Cardinality(S)
<1>1. T # S
  BY Zenon
<1>2. QED
  BY <1>1, FS_Subset

\* Different sockets, and different DIMMs, have different numbers.
LEMMA RanksDiffer ==
  ASSUME NEW D \in SUBSET Supported, NEW d \in D, NEW e \in D
  PROVE  /\ Cardinality(Upto(d, D)) = Cardinality(Upto(e, D)) => SocketOf[d] = SocketOf[e]
         /\ Cardinality(Until(d, D)) = Cardinality(Until(e, D)) => d = e
<1>1. D \subseteq Dimms /\ \A x \in D : x \in Nat /\ SocketOf[x] \in Nat
  BY GoalConstants DEF Dimms
<1>2. ASSUME NEW x \in D, NEW y \in D, SocketOf[x] < SocketOf[y]
      PROVE  Cardinality(Upto(x, D)) # Cardinality(Upto(y, D))
  <2>1. Upto(x, D) \subseteq Upto(y, D) /\ SocketOf[y] \notin Upto(x, D)
    BY <1>1, <1>2 DEF Upto
  <2>2. QED
    BY Zenon, <2>1, RankFinite, CardinalityStrict
<1>3. ASSUME NEW x \in D, NEW y \in D,
             SocketOf[x] < SocketOf[y] \/ (SocketOf[x] = SocketOf[y] /\ x < y)
      PROVE  Cardinality(Until(x, D)) # Cardinality(Until(y, D))
  <2>1. Until(x, D) \subseteq Until(y, D) /\ y \notin Until(x, D)
    BY <1>1, <1>3 DEF Until
  <2>2. QED
    BY Zenon, <2>1, RankFinite, CardinalityStrict
<1>4. SocketOf[d] = SocketOf[e] \/ SocketOf[d] < SocketOf[e] \/ SocketOf[e] < SocketOf[d]
  BY <1>1
<1>5. d = e \/ d < e \/ e < d
  BY <1>1
<1>6. QED
  BY Zenon, <1>2, <1>3, <1>4, <1>5

\* The sets of a creation are whole and have new and different indexes.
LEMMA MapRegionsGoalSets ==
  ASSUME Types, NEW D \in SUBSET Supported, NEW d \in D, NEW kind
  PROVE  /\ MapRegionsGoal(d, D, kind).is > LargestIndex
         /\ d \in MapRegionsGoal(d, D, kind).members
         /\ \A e \in MapRegionsGoal(d, D, kind).members :
              /\ e \in D /\ SocketOf[e] = SocketOf[d]
              /\ MapRegionsGoal(e, D, kind) = MapRegionsGoal(d, D, kind)
         /\ \A e \in D : MapRegionsGoal(e, D, kind).is = MapRegionsGoal(d, D, kind).is =>
                         MapRegionsGoal(e, D, kind) = MapRegionsGoal(d, D, kind)
<1>1. LargestIndex \in Nat
  BY Zenon, LargestIndexType DEF Types
<1>2. \A x \in D : Cardinality(Upto(x, D)) \in Nat \ {0} /\ Cardinality(Until(x, D)) \in Nat \ {0}
  BY RankFinite, FS_EmptySet
<1>3. CASE kind = "AD"
  <2> DEFINE set(x) == [is |-> LargestIndex + Cardinality(Upto(x, D)),
                        members |-> {y \in D : SocketOf[y] = SocketOf[x]}]
  <2>1. \A x \in D : MapRegionsGoal(x, D, kind) = set(x)
    BY Zenon, <1>3 DEF MapRegionsGoal, Upto
  <2>2. \A x \in D : SocketOf[x] = SocketOf[d] => set(x) = set(d)
    BY Zenon DEF Upto
  <2>3. \A x \in D : /\ set(x).is = LargestIndex + Cardinality(Upto(x, D))
                     /\ set(x).members = {y \in D : SocketOf[y] = SocketOf[x]}
    OBVIOUS
  <2>4. \A x \in D : set(x).is = set(d).is => SocketOf[x] = SocketOf[d]
    <3>1. \A x \in D : set(x).is = set(d).is => Cardinality(Upto(x, D)) = Cardinality(Upto(d, D))
      <4> HIDE DEF set
      <4>1. QED
        BY SMTT(30), <1>1, <1>2, <2>3
    <3>2. QED
      BY Zenon, <3>1, RanksDiffer
  <2>5. set(d).is > LargestIndex
    <3> HIDE DEF set
    <3>1. QED
      BY <1>1, <1>2, <2>3
  <2>6. QED
    <3> HIDE DEF set
    <3>1. QED
      BY Zenon, <2>1, <2>2, <2>3, <2>4, <2>5
<1>4. CASE kind # "AD"
  <2> DEFINE set(x) == [is |-> LargestIndex + Cardinality(Until(x, D)), members |-> {x}]
  <2>1. \A x \in D : MapRegionsGoal(x, D, kind) = set(x)
    BY Zenon, <1>4 DEF MapRegionsGoal, Until
  <2>2. \A x \in D : set(x).is = LargestIndex + Cardinality(Until(x, D)) /\ set(x).members = {x}
    OBVIOUS
  <2>3. \A x \in D : set(x).is = set(d).is => x = d
    <3>1. \A x \in D : set(x).is = set(d).is => Cardinality(Until(x, D)) = Cardinality(Until(d, D))
      <4> HIDE DEF set
      <4>1. QED
        BY <1>1, <1>2, <2>2
    <3>2. QED
      BY ZenonT(60), <3>1, RanksDiffer
  <2>4. set(d).is > LargestIndex
    <3> HIDE DEF set
    <3>1. QED
      BY <1>1, <1>2, <2>2
  <2>5. QED
    <3> HIDE DEF set
    <3>1. QED
      BY Zenon, <2>1, <2>2, <2>3, <2>4
<1>5. QED
  BY Zenon, <1>3, <1>4

-----------------------------------------------------------------------------
(* The steps preserve the second invariant                                 *)

LEMMA RegionsKept == ASSUME region' = region PROVE RegionIndexes' = RegionIndexes
  BY Zenon DEF RegionIndexes

\* While a request goes on, only the PCD of its DIMMs changes.
LEMMA SetsKept ==
  ASSUME Types, SetInv, UNCHANGED <<region, op, want, spoiled>>, faults' = 0 => faults = 0,
         \A e \in Supported \ op.dimms : pcd'[e] = pcd[e]
  PROVE  Planned' /\ Settled'
<1>1. \A e \in Supported \ op.dimms : Pending(e)' <=> Pending(e)
  BY Zenon DEF Pending
<1>2. Planned'
  <2>1. \A i : AboveRegions(i) => AboveRegions(i)'
    BY Zenon, RegionsKept DEF AboveRegions
  <2>2. ASSUME NEW d \in op.dimms, NEW e \in Supported \ op.dimms,
               Pending(e) => pcd[e].goal.is < want[d].is
        PROVE  Pending(e)' => pcd'[e].goal.is < want[d].is
    BY Zenon, <1>1, <2>2
  <2>3. Planned
    BY Zenon DEF SetInv
  <2>4. SUFFICES ASSUME op.type = "create", NEW d \in op.dimms
        PROVE  /\ want[d] \in RegionGoals /\ d \in want[d].members
               /\ \A e \in want[d].members : e \in op.dimms /\ SocketOf[e] = SocketOf[d] /\ want[e] = want[d]
               /\ \A e \in op.dimms : want[e].is = want[d].is => want[e] = want[d]
               /\ \A e \in Supported \ op.dimms : Pending(e)' => pcd'[e].goal.is < want[d].is
               /\ AboveRegions(want[d].is)'
    BY ZenonT(60) DEF Planned
  <2>5. QED
    BY Zenon, <2>1, <2>2, <2>3, <2>4 DEF Planned
<1>3. Idlers' = Idlers /\ Idlers \subseteq Supported \ op.dimms
  BY Zenon DEF Idlers
<1>4. ASSUME NEW d \in Idlers, Pending(d)'
      PROVE  /\ pcd'[d] = pcd[d]
             /\ \A e \in pcd[d].goal.members :
                  /\ e \in Supported \ op.dimms /\ SocketOf[e] = SocketOf[d]
                  /\ Pending(e)' /\ pcd'[e].goal = pcd[d].goal
             /\ \A e \in Idlers : Pending(e)' /\ pcd'[e].goal.is = pcd[d].goal.is =>
                                  pcd'[e].goal = pcd[d].goal
             /\ AboveRegions(pcd[d].goal.is)
  <2>1. Pending(d) /\ pcd'[d] = pcd[d]
    BY Zenon, <1>1, <1>3, <1>4
  <2>2. \A e \in Idlers : pcd'[e] = pcd[e] /\ (Pending(e)' <=> Pending(e))
    BY Zenon, <1>1, <1>3
  <2>3. \A e \in pcd[d].goal.members :
          /\ e \in Supported \ op.dimms /\ SocketOf[e] = SocketOf[d]
          /\ Pending(e) /\ pcd[e].goal = pcd[d].goal
    BY Zenon, <2>1 DEF SetInv, Settled
  <2>4. \A e \in Idlers : Pending(e) /\ pcd[e].goal.is = pcd[d].goal.is => pcd[e].goal = pcd[d].goal
    BY Zenon, <2>1 DEF SetInv, Settled
  <2>5. AboveRegions(pcd[d].goal.is)
    BY Zenon, <2>1 DEF SetInv, Settled
  <2>6. \A e \in pcd[d].goal.members : Pending(e)' /\ pcd'[e].goal = pcd[d].goal
    <3> SUFFICES ASSUME NEW e \in pcd[d].goal.members PROVE Pending(e)' /\ pcd'[e].goal = pcd[d].goal
      BY Zenon
    <3>1. pcd'[e] = pcd[e] /\ Pending(e)' /\ pcd[e].goal = pcd[d].goal
      BY Zenon, <1>1, <2>3
    <3>2. QED
      BY Zenon, <3>1
  <2>7. \A e \in Idlers : Pending(e)' /\ pcd'[e].goal.is = pcd[d].goal.is => pcd'[e].goal = pcd[d].goal
    BY Zenon, <2>2, <2>4
  <2>8. QED
    BY Zenon, <2>1, <2>3, <2>5, <2>6, <2>7
<1>5. Settled'
  <2> SUFFICES ASSUME NEW d \in Idlers, Pending(d)'
               PROVE  /\ \A e \in pcd'[d].goal.members :
                           /\ e \in Supported \ op.dimms /\ SocketOf[e] = SocketOf[d]
                           /\ Pending(e)' /\ pcd'[e].goal = pcd'[d].goal
                      /\ \A e \in Idlers : Pending(e)' /\ pcd'[e].goal.is = pcd'[d].goal.is =>
                                           pcd'[e].goal = pcd'[d].goal
                      /\ AboveRegions(pcd[d].goal.is)'
    BY Zenon, <1>3 DEF Settled
  <2>1. pcd'[d] = pcd[d]
    BY Zenon, <1>4
  <2>2. AboveRegions(pcd[d].goal.is)'
    BY Zenon, <1>4, RegionsKept DEF AboveRegions
  <2>3. \A e \in pcd'[d].goal.members :
          /\ e \in Supported \ op.dimms /\ SocketOf[e] = SocketOf[d]
          /\ Pending(e)' /\ pcd'[e].goal = pcd'[d].goal
    BY <1>4, <2>1
  <2>4. \A e \in Idlers : Pending(e)' /\ pcd'[e].goal.is = pcd'[d].goal.is => pcd'[e].goal = pcd'[d].goal
    BY <1>4, <2>1
  <2>5. QED
    BY Zenon, <2>2, <2>3, <2>4
<1>6. QED
  BY Zenon, <1>2, <1>5

\* When a request has ended its DIMMs are given up, have no goal, or have the one
\* that was computed.
LEMMA SetsEnd ==
  ASSUME Types, SetInv, op' = NoOp, region' = region, faults' = 0 => faults = 0,
         op.dimms \subseteq Supported, \A e \in Supported \ op.dimms : pcd'[e] = pcd[e],
         spoiled \ op.dimms \subseteq spoiled',
         \/ op.dimms \subseteq spoiled'
         \/ \A d \in op.dimms : ~Pending(d)'
         \/ op.type = "create" /\ \A d \in op.dimms : Pending(d)' /\ pcd'[d].goal = want[d]
  PROVE  Planned' /\ Settled'
<1>1. \A e \in Supported \ op.dimms : Pending(e)' <=> Pending(e)
  BY Zenon DEF Pending
<1>2. op'.type = "none" /\ op'.dimms = {}
  BY DEF NoOp
<1>3. Planned'
  BY Zenon, <1>2 DEF Planned
<1> DEFINE New == {d \in op.dimms : Pending(d)' /\ d \notin spoiled'}
<1>4. \A d \in Idlers' : Pending(d)' => d \in New \/ (d \in Idlers /\ Pending(d) /\ pcd'[d] = pcd[d])
  BY Zenon, <1>1, <1>2 DEF Idlers
<1>5. New # {} => op.type = "create" /\ \A d \in op.dimms : Pending(d)' /\ pcd'[d].goal = want[d]
  BY ZenonT(60)
<1>6. ASSUME NEW d \in New
      PROVE  /\ \A e \in pcd'[d].goal.members :
                  /\ e \in Supported /\ SocketOf[e] = SocketOf[d]
                  /\ Pending(e)' /\ pcd'[e].goal = pcd'[d].goal
             /\ \A e \in New : pcd'[e].goal.is = pcd'[d].goal.is => pcd'[e].goal = pcd'[d].goal
             /\ \A e \in Idlers : Pending(e) => pcd[e].goal.is # pcd'[d].goal.is
             /\ AboveRegions(want[d].is) /\ pcd'[d].goal = want[d]
  <2>1. d \in op.dimms /\ op.type = "create" /\ \A e \in op.dimms : Pending(e)' /\ pcd'[e].goal = want[e]
    BY Zenon, <1>5
  <2>2. /\ want[d] \in RegionGoals
        /\ \A e \in want[d].members : e \in op.dimms /\ SocketOf[e] = SocketOf[d] /\ want[e] = want[d]
        /\ \A e \in op.dimms : want[e].is = want[d].is => want[e] = want[d]
        /\ \A e \in Supported \ op.dimms : Pending(e) => pcd[e].goal.is < want[d].is
        /\ AboveRegions(want[d].is)
    BY Zenon, <2>1 DEF SetInv, Planned
  <2>3. \A e \in Idlers : Pending(e) => pcd[e].goal.is < want[d].is /\ pcd[e].goal.is \in Nat
    BY ZenonT(60), <2>2, PendingGoal, RegionGoalFields, GoalConstants DEF Idlers, Types
  <2>4. \A e \in Idlers : Pending(e) => pcd[e].goal.is # want[d].is
    BY SMTT(30), <2>2, <2>3, RegionGoalFields
  <2>5. \A e \in want[d].members : /\ e \in Supported /\ SocketOf[e] = SocketOf[d]
                                  /\ Pending(e)' /\ pcd'[e].goal = want[d]
    BY SMTT(30), <2>1, <2>2
  <2>6. \A e \in New : pcd'[e].goal.is = want[d].is => pcd'[e].goal = want[d]
    BY SMTT(30), <2>1, <2>2
  <2>7. QED
    BY SMTT(30), <2>1, <2>2, <2>4, <2>5, <2>6
<1>7. ASSUME NEW d \in Idlers, Pending(d)
      PROVE  /\ pcd'[d] = pcd[d]
             /\ \A e \in pcd[d].goal.members :
                  /\ e \in Supported /\ SocketOf[e] = SocketOf[d]
                  /\ Pending(e)' /\ pcd'[e].goal = pcd[d].goal
             /\ \A e \in Idlers : Pending(e) /\ pcd[e].goal.is = pcd[d].goal.is => pcd[e].goal = pcd[d].goal
             /\ AboveRegions(pcd[d].goal.is)
  <2>1. d \in Supported \ op.dimms
    BY Zenon DEF Idlers
  <2>2. /\ \A e \in pcd[d].goal.members :
             /\ e \in Supported \ op.dimms /\ SocketOf[e] = SocketOf[d]
             /\ Pending(e) /\ pcd[e].goal = pcd[d].goal
        /\ \A e \in Idlers : Pending(e) /\ pcd[e].goal.is = pcd[d].goal.is => pcd[e].goal = pcd[d].goal
        /\ AboveRegions(pcd[d].goal.is)
    BY Zenon, <1>7 DEF SetInv, Settled
  <2>3. QED
    BY <1>1, <2>1, <2>2
<1>8. ASSUME NEW d \in Idlers', Pending(d)'
      PROVE  /\ \A e \in pcd'[d].goal.members :
                  /\ e \in Supported /\ SocketOf[e] = SocketOf[d]
                  /\ Pending(e)' /\ pcd'[e].goal = pcd'[d].goal
             /\ \A e \in Idlers' : Pending(e)' /\ pcd'[e].goal.is = pcd'[d].goal.is =>
                                   pcd'[e].goal = pcd'[d].goal
             /\ faults' = 0 => \A j \in RegionIndexes' : j < pcd'[d].goal.is
  <2> HIDE DEF New
  <2>1. CASE d \in New
    BY SMTT(30), <1>4, <1>6, <2>1, RegionsKept DEF AboveRegions
  <2>2. CASE d \in Idlers /\ Pending(d) /\ pcd'[d] = pcd[d]
    BY SMTT(30), <1>4, <1>6, <1>7, <2>2, RegionsKept DEF AboveRegions
  <2>3. QED
    BY ZenonT(60), <1>4, <1>8, <2>1, <2>2
<1>9. Settled'
  BY Zenon, <1>2, <1>8 DEF Settled, AboveRegions
<1>10. QED
  BY Zenon, <1>3, <1>9

\* A write leaves the old CIN, none, or the one that was sent.
LEMMA WrittenGoal ==
  ASSUME Types, NEW d \in Dimms, NEW t \in FwCmdSetPlatformConfigData(d)
  PROVE  t.goal \in {pcd[d].goal, NoGoal, cin.goal}
<1>1. pcd[d] \in Tables /\ Header(d) \in Tables
  BY Zenon, HeaderFields
<1>2. Header(d).goal = pcd[d].goal
  BY <1>1 DEF Header, Tables
<1>3. \A u \in {pcd[d], Header(d)} : Damaged(u).goal = NoGoal /\ Complete(u).goal = cin.goal
  BY <1>1 DEF Damaged, Complete, Tables
<1>4. QED
  BY <1>2, <1>3, WrittenCases

LEMMA OwnKept ==
  ASSUME Types, GoalInv, SetInv, NEW d \in Dimms, d \in left, pc \in Applying,
         \/ UNCHANGED pcd
         \/ /\ pc = "send" => cin # NoCin
            /\ First(d)
            /\ \E t \in FwCmdSetPlatformConfigData(d) : pcd' = [pcd EXCEPT ![d] = t]
  PROVE  OwnGoals'
<1>1. CASE UNCHANGED pcd
  BY Zenon, <1>1 DEF SetInv, OwnGoals
<1>2. CASE /\ pc = "send" => cin # NoCin
           /\ First(d)
           /\ \E t \in FwCmdSetPlatformConfigData(d) : pcd' = [pcd EXCEPT ![d] = t]
  <2>1. PICK t \in FwCmdSetPlatformConfigData(d) : pcd' = [pcd EXCEPT ![d] = t]
    BY Zenon, <1>2
  <2>2. pcd'[d] = t /\ \A e \in Dimms : e # d => pcd'[e] = pcd[e]
    BY Zenon, <2>1 DEF Types, MediaTypes
  <2>3. cin.goal # NoGoal => d \in cin.goal.members
    <3>1. CASE pc = "send"
      <4>1. d \in op.dimms /\ op.type = "create" /\ cin.goal \in goals[d] /\ goals[d] = {want[d]}
        BY Zenon, <1>2, <3>1 DEF SetInv, Context, GoalInv, Sending, Computed, Applying
      <4>2. QED
        BY Zenon, <4>1 DEF SetInv, Planned
    <3>2. CASE pc \in {"clear", "undo"}
      <4>1. cin = NoCin
        BY Zenon, <3>2 DEF GoalInv, Removing
      <4>2. QED
        BY <4>1 DEF NoCin
    <3>3. QED
      BY Zenon, <3>1, <3>2 DEF Applying
  <2>4. pcd'[d].goal # NoGoal => d \in pcd'[d].goal.members
    <3>1. pcd[d].goal # NoGoal => d \in pcd[d].goal.members
      BY Zenon DEF SetInv, OwnGoals
    <3>2. pcd'[d].goal \in {pcd[d].goal, NoGoal, cin.goal}
      BY Zenon, <2>2, WrittenGoal
    <3>3. QED
      BY <2>3, <3>1, <3>2
  <2>5. QED
    BY <2>2, <2>4 DEF SetInv, OwnGoals
<1>3. QED
  BY Zenon, <1>1, <1>2

LEMMA RequestDimms == ASSUME Types PROVE op.dimms \subseteq Supported
  BY DEF Types, RequestTypes

LEMMA FaultCount ==
  ASSUME Types, UNCHANGED faults \/ CommandFails
  PROVE  faults' = 0 => faults = 0 /\ faults' = faults
  BY DEF Types, BoundTypes, CommandFails

\* The writes of ApplyGoalConfigsToDimms.
LEMMA WriteSets ==
  ASSUME Types, GoalInv, SetInv, NEW d \in Dimms,
         ClearStep(d) \/ SendStep(d) \/ UndoStep(d) \/ UndoFails(d)
  PROVE  SetInv'
<1>1. /\ pc \in Applying /\ First(d) /\ d \in left /\ pc' = pc /\ left' \subseteq left
      /\ faults' = faults /\ Keep
      /\ \/ UNCHANGED pcd
         \/ /\ pc = "send" => cin # NoCin
            /\ \E t \in FwCmdSetPlatformConfigData(d) : pcd' = [pcd EXCEPT ![d] = t]
  BY Zenon DEF ClearStep, SendStep, UndoStep, UndoFails, SendConfigInputToDimm, SendFails, First, Applying
<1>2. OwnGoals'
  BY Zenon, <1>1, OwnKept
<1>3. \A e \in Supported \ op.dimms : pcd'[e] = pcd[e]
  BY Zenon, WritesTargeted
<1>4. Context'
  BY Zenon, <1>1 DEF SetInv, Context, Keep, internal, Applying
<1>5. Planned' /\ Settled'
  BY Zenon, <1>1, <1>3, SetsKept DEF Keep
<1>6. QED
  BY Zenon, <1>2, <1>4, <1>5 DEF SetInv

\* The steps between them.
LEMMA BetweenSets ==
  ASSUME Types, GoalInv, SetInv, ClearDone \/ \E d \in Dimms : GeneratePcdConfInput(d)
  PROVE  SetInv'
<1>1. pcd' = pcd /\ faults' = faults /\ Keep
  BY Zenon DEF ClearDone, GeneratePcdConfInput
<1>2. OwnGoals'
  BY Zenon, <1>1 DEF SetInv, OwnGoals
<1>3. Planned' /\ Settled'
  BY Zenon, <1>1, SetsKept DEF Keep
<1>4. UNCHANGED <<op, synced, config, spoiled>>
  BY Zenon, <1>1 DEF Keep, internal
<1>5. CASE ClearDone
  <2>1. pc = "clear" /\ pc' = "send" /\ left' = {d \in Dimms : ~synced[d] /\ config[d]}
    BY Zenon, <1>5 DEF ClearDone
  <2>2. Context'
    BY Zenon, <1>1, <1>4, <2>1 DEF SetInv, Context, Applying
  <2>3. QED
    BY Zenon, <1>2, <1>3, <2>2 DEF SetInv
<1>6. CASE \E d \in Dimms : GeneratePcdConfInput(d)
  <2>1. pc' = pc /\ left' = left
    BY Zenon, <1>6 DEF GeneratePcdConfInput
  <2>2. Context'
    BY Zenon, <1>1, <1>4, <2>1 DEF SetInv, Context
  <2>3. QED
    BY Zenon, <1>2, <1>3, <2>2 DEF SetInv
<1>7. QED
  BY Zenon, <1>5, <1>6

\* The ways to return.
LEMMA ReturnSets ==
  ASSUME Types, SetInv, NEW stage, NEW type, NEW out, Return(type, op.dimms, out, stage),
         OwnGoals', region' = region, faults' = 0 => faults = 0 /\ stage \notin {"invalid", "spoiled"},
         \A e \in Supported \ op.dimms : pcd'[e] = pcd[e],
         \/ stage \in {"invalid", "spoiled"}
         \/ \A d \in op.dimms : ~Pending(d)'
         \/ op.type = "create" /\ \A d \in op.dimms : Pending(d)' /\ pcd'[d].goal = want[d]
  PROVE  SetInv'
<1>1. /\ op' = NoOp /\ pc' \in {"idle", "load"}
      /\ stage \in {"invalid", "spoiled"} => spoiled' = spoiled \cup op.dimms
      /\ stage \notin {"invalid", "spoiled"} => spoiled' = spoiled \ op.dimms
  BY Zenon DEF Return
<1>2. spoiled \ op.dimms \subseteq spoiled' /\ (stage \in {"invalid", "spoiled"} => op.dimms \subseteq spoiled')
  BY Zenon, <1>1
<1>3. Planned' /\ Settled'
  BY ZenonT(60), <1>1, <1>2, RequestDimms, SetsEnd
<1>4. faults' = 0 => spoiled' = {}
  BY Zenon, <1>1 DEF SetInv, Context
<1>5. Context'
  BY Zenon, <1>1, <1>4 DEF Context, Applying
<1>6. QED
  BY Zenon, <1>3, <1>5 DEF SetInv

LEMMA ApplyFailsSets ==
  ASSUME Types, GoalInv, SetInv, NEW d \in Dimms, ApplyFails(d)
  PROVE  SetInv'
<1>1. /\ pc \in Applying /\ First(d) /\ d \in left /\ CommandFails
      /\ \/ UNCHANGED pcd
         \/ /\ pc = "send" => cin # NoCin
            /\ \E t \in FwCmdSetPlatformConfigData(d) : pcd' = [pcd EXCEPT ![d] = t]
  BY Zenon DEF ApplyFails, SendFails, First, Applying
<1>2. OwnGoals'
  BY Zenon, <1>1, OwnKept
<1>3. \A e \in Supported \ op.dimms : pcd'[e] = pcd[e]
  BY Zenon, WritesTargeted
<1>4. faults' # 0
  BY <1>1 DEF CommandFails, Types, BoundTypes
<1>5. CASE pc' = "undo" /\ Keep
  <2>1. Planned' /\ Settled'
    BY Zenon, <1>3, <1>4, <1>5, SetsKept DEF Keep
  <2>2. UNCHANGED <<op, synced, config>>
    BY Zenon, <1>5 DEF Keep, internal
  <2>3. Context'
    BY Zenon, <1>1, <1>4, <1>5, <2>2 DEF SetInv, Context, Applying
  <2>4. QED
    BY Zenon, <1>2, <2>1, <2>3 DEF SetInv
<1>6. CASE Return(op.type, op.dimms, "err", "invalid") /\ region' = region
  BY Zenon, <1>2, <1>3, <1>4, <1>6, ReturnSets
<1>7. QED
  BY Zenon, <1>5, <1>6 DEF ApplyFails

LEMMA UndoDoneSets == ASSUME Types, GoalInv, SetInv, UndoDone PROVE SetInv'
<1> DEFINE stage == IF clean THEN "undone" ELSE "spoiled"
<1>1. /\ pc = "undo" /\ left = {} /\ Return(op.type, op.dimms, "err", stage)
      /\ UNCHANGED <<pcd, region, faults>>
  BY Zenon DEF UndoDone, media
<1>2. (stage # "spoiled" => clean) /\ stage \in {"undone", "spoiled"}
  OBVIOUS
<1>3. clean => \A d \in op.dimms : ~Pending(d)'
  BY Zenon, <1>1 DEF GoalInv, Removing, Pending
<1>4. OwnGoals' /\ faults' # 0
  BY Zenon, <1>1 DEF SetInv, OwnGoals, Context
<1>5. stage \in {"invalid", "spoiled"} \/ \A d \in op.dimms : ~Pending(d)'
  <2> HIDE DEF stage
  <2>1. QED
    BY Zenon, <1>2, <1>3
<1>6. QED
  <2> HIDE DEF stage
  <2>1. QED
    BY Zenon, <1>1, <1>4, <1>5, ReturnSets

LEMMA SendDoneSets == ASSUME Types, GoalInv, SetInv, SendDone PROVE SetInv'
<1>1. pc = "send" /\ left = {} /\ UNCHANGED <<pcd, region, want, faults>> /\ op.type \in {"create", "delete"}
  BY Zenon DEF SendDone, media, GoalInv, Computed, Applying
<1>2. OwnGoals'
  BY Zenon, <1>1 DEF SetInv, OwnGoals
<1>3. CASE op.type = "create"
  <2>1. pc' = "labels" /\ UNCHANGED <<op, spoiled>>
    BY Zenon, <1>3 DEF SendDone
  <2>2. Planned' /\ Settled'
    BY Zenon, <1>1, <2>1, SetsKept
  <2>3. Context'
    BY Zenon, <1>1, <1>3, <2>1 DEF SetInv, Context, Applying
  <2>4. QED
    BY Zenon, <1>2, <2>2, <2>3 DEF SetInv
<1>4. CASE op.type = "delete"
  <2>1. Return("delete", op.dimms, "ok", "done")
    BY Zenon, <1>4 DEF SendDone
  <2>2. \A d \in op.dimms : ~Pending(d)'
    BY Zenon, <1>1, <1>4 DEF GoalInv, Sending, Pending
  <2>3. QED
    BY Zenon, <1>1, <1>2, <2>1, <2>2, ReturnSets
<1>5. QED
  BY Zenon, <1>1, <1>3, <1>4

LEMMA LabelSets ==
  ASSUME Types, GoalInv, SetInv, NEW d \in Dimms,
         ZeroLabelStorageArea(d) \/ InitializeLabelStorageArea(d)
  PROVE  SetInv'
<1>1. pc = "labels" /\ UNCHANGED <<pcd, region, op, want, spoiled, pc, faults>>
  BY Zenon DEF ZeroLabelStorageArea, InitializeLabelStorageArea, progress
<1>2. OwnGoals' /\ Context'
  BY Zenon, <1>1 DEF SetInv, OwnGoals, Context, Applying
<1>3. QED
  BY Zenon, <1>1, <1>2, SetsKept DEF SetInv

LEMMA LabelEndSets ==
  ASSUME Types, GoalInv, SetInv, LabelsDone \/ \E d \in Dimms : LabelsFail(d)
  PROVE  SetInv'
<1>1. /\ pc = "labels" /\ UNCHANGED <<pcd, region, want>> /\ (UNCHANGED faults \/ CommandFails)
      /\ \/ Return("create", op.dimms, "ok", "done")
         \/ Return(op.type, op.dimms, "err", "labels")
  BY Zenon DEF LabelsDone, LabelsFail, media
<1>2. OwnGoals' /\ op.type = "create"
  BY Zenon, <1>1 DEF SetInv, OwnGoals, Context
<1>3. \A d \in op.dimms : Pending(d)' /\ pcd'[d].goal = want[d]
  BY Zenon, <1>1 DEF GoalInv, Labelling, Created, Pending
<1>4. faults' = 0 => faults = 0
  BY Zenon, <1>1, FaultCount
<1>5. CASE Return("create", op.dimms, "ok", "done")
  BY Zenon, <1>1, <1>2, <1>3, <1>4, <1>5, ReturnSets
<1>6. CASE Return(op.type, op.dimms, "err", "labels")
  BY ZenonT(60), <1>1, <1>2, <1>3, <1>4, <1>6, ReturnSets
<1>7. QED
  BY Zenon, <1>1, <1>5, <1>6

\* A request begins: what is pending elsewhere does not concern its DIMMs.
LEMMA SettledStart ==
  ASSUME Types, SetInv, pc \in {"idle", "load"}, NEW D \in SUBSET Supported, op'.dimms = D,
         UNCHANGED <<pcd, region, spoiled, faults>>,
         \A d \in Supported \ D, e \in D :
            Pending(d) /\ Pending(e) /\ SocketOf[d] = SocketOf[e] => FALSE
  PROVE  Settled'
<1>1. op.dimms = {}
  <2>1. op = NoOp
    BY Zenon DEF SetInv, Context
  <2>2. QED
    BY <2>1 DEF NoOp
<1>2. \A d : Pending(d)' <=> Pending(d)
  BY Zenon DEF Pending
<1>3. \A d \in Idlers' : d \in Idlers /\ d \in Supported \ D
  BY Zenon, <1>1 DEF Idlers
<1>4. ASSUME NEW d \in Idlers', Pending(d)
      PROVE  /\ \A e \in pcd[d].goal.members :
                  /\ e \in Supported \ D /\ SocketOf[e] = SocketOf[d]
                  /\ Pending(e) /\ pcd[e].goal = pcd[d].goal
             /\ \A e \in Idlers' : Pending(e) /\ pcd[e].goal.is = pcd[d].goal.is => pcd[e].goal = pcd[d].goal
             /\ AboveRegions(pcd[d].goal.is)
  <2>1. /\ \A e \in pcd[d].goal.members :
             /\ e \in Supported /\ SocketOf[e] = SocketOf[d]
             /\ Pending(e) /\ pcd[e].goal = pcd[d].goal
        /\ \A e \in Idlers : Pending(e) /\ pcd[e].goal.is = pcd[d].goal.is => pcd[e].goal = pcd[d].goal
        /\ AboveRegions(pcd[d].goal.is)
    BY Zenon, <1>3, <1>4 DEF SetInv, Settled
  <2>2. \A e \in pcd[d].goal.members : e \notin D
    BY Zenon, <1>3, <1>4, <2>1
  <2>3. QED
    BY Zenon, <1>3, <2>1, <2>2
<1>5. QED
  BY ZenonT(60), <1>2, <1>4, RegionsKept DEF Settled, AboveRegions

LEMMA CreateSets ==
  ASSUME Types, GoalInv, SetInv, NEW D \in SUBSET Supported, NEW kind, pc \in {"idle", "load"},
         CreateGoalConfig(D, kind)
  PROVE  SetInv'
<1>1. /\ pc' = "clear" /\ op' = [type |-> "create", dimms |-> D]
      /\ UNCHANGED <<pcd, region, spoiled, faults>>
      /\ want' = [d \in Dimms |-> IF d \in D THEN MapRegionsGoal(d, D, kind) ELSE NoGoal]
  BY Zenon DEF CreateGoalConfig, Start, media
<1>2. op'.type = "create" /\ op'.dimms = D /\ D \subseteq Dimms
  BY <1>1, GoalConstants
<1>3. OwnGoals'
  BY Zenon, <1>1 DEF SetInv, OwnGoals
<1>4. op.dimms = {}
  <2>1. op = NoOp
    BY Zenon DEF SetInv, Context
  <2>2. QED
    BY <2>1 DEF NoOp
<1>5. Context'
  <2>1. \A d \in Dimms : ~synced'[d] /\ config'[d] => d \in D
    BY Zenon DEF CreateGoalConfig, RetrievedSynced, RetrievedConfig
  <2>2. QED
    BY Zenon, <1>1, <1>2, <2>1 DEF SetInv, Context
<1>6. Settled'
  <2>1. \A e \in D : ~Pending(e)
    BY Zenon DEF CreateGoalConfig, CreateAllowed, CheckForExistingGoalConfigPerSocket, On
  <2>2. QED
    BY Zenon, <1>1, <1>2, <2>1, SettledStart
<1>7. ASSUME NEW d \in D
      PROVE  /\ want'[d] \in RegionGoals /\ d \in want'[d].members /\ want'[d].is > LargestIndex
             /\ \A e \in want'[d].members : e \in D /\ SocketOf[e] = SocketOf[d] /\ want'[e] = want'[d]
             /\ \A e \in D : want'[e].is = want'[d].is => want'[e] = want'[d]
  <2>1. \A e \in D : want'[e] = MapRegionsGoal(e, D, kind)
    BY Zenon, <1>1, <1>2
  <2>2. MapRegionsGoal(d, D, kind) \in RegionGoals
    BY Zenon, MapRegionsGoalType DEF Types
  <2>3. QED
    BY <2>1, <2>2, MapRegionsGoalSets
<1>8. LargestIndex \in Nat /\ \A d \in D : want'[d].is \in Nat
  BY Zenon, <1>7, LargestIndexType, RegionGoalFields DEF Types
<1>9. ASSUME NEW d \in D, NEW e \in Supported, Pending(e) PROVE pcd[e].goal.is < want'[d].is
  <2>1. pcd[e].goal.is \in GoalIndexes
    BY Zenon, <1>9, PendingIndex DEF SetInv
  <2>2. pcd[e].goal.is \in Nat /\ pcd[e].goal.is <= LargestIndex
    BY Zenon, <2>1, LargestOfGoals, GoalIndexTypes DEF Types
  <2>3. QED
    BY <1>7, <1>8, <2>2
<1>10. ASSUME NEW d \in D, NEW j \in RegionIndexes, faults = 0 PROVE j < want'[d].is
  <2>1. j \in Nat
    BY Zenon, RegionIndexTypes DEF Types
  <2>2. CASE GoalIndexes = {}
    <3>1. j <= LargestIndex
      BY Zenon, <2>2, LargestOfRegions
    <3>2. QED
      BY SMTT(30), <1>7, <1>8, <2>1, <3>1
  <2>3. CASE GoalIndexes # {}
    <3>1. PICK f \in Supported : Pending(f) /\ pcd[f].goal.is = LargestIndex
      BY Zenon, <2>3, LargestOfGoals
    <3>2. f \in Idlers
      BY Zenon, <1>4, <1>10 DEF Idlers, SetInv, Context
    <3>3. j < pcd[f].goal.is
      BY Zenon, <1>10, <3>1, <3>2 DEF SetInv, Settled, AboveRegions
    <3>4. QED
      BY SMTT(30), <1>7, <1>8, <2>1, <3>1, <3>3
  <2>4. QED
    BY Zenon, <2>2, <2>3
<1>11. Planned'
  <2>1. \A d \in D : AboveRegions(want[d].is)'
    BY Zenon, <1>1, <1>10, RegionsKept DEF AboveRegions
  <2>2. \A e \in Supported : Pending(e)' => Pending(e)
    BY Zenon, <1>1 DEF Pending
  <2>3. \A d \in D : \A e \in Supported \ D : Pending(e)' => pcd'[e].goal.is < want'[d].is
    BY Zenon, <1>1, <1>9, <2>2
  <2>4. QED
    BY Zenon, <1>2, <1>7, <2>1, <2>3 DEF Planned
<1>12. QED
  BY Zenon, <1>3, <1>5, <1>6, <1>11 DEF SetInv

LEMMA DeleteSets ==
  ASSUME Types, GoalInv, SetInv, NEW D \in SUBSET Supported, DeleteGoalConfig(D)
  PROVE  SetInv'
<1>1. /\ pc = "idle" /\ pc' = "clear" /\ op' = [type |-> "delete", dimms |-> D]
      /\ UNCHANGED <<pcd, region, spoiled, faults>>
  BY Zenon DEF DeleteGoalConfig, Start, media
<1>2. op'.type = "delete" /\ op'.dimms = D /\ D \subseteq Dimms
  BY <1>1, GoalConstants
<1>3. OwnGoals' /\ Planned'
  BY Zenon, <1>1, <1>2 DEF SetInv, OwnGoals, Planned
<1>4. Context'
  <2>1. \A d \in Dimms : config'[d] => d \in Supported \ D
    BY Zenon DEF DeleteGoalConfig, RetrievedConfig
  <2>2. \A d \in Dimms \ D : synced'[d] <=> d \in Supported
    BY Zenon DEF DeleteGoalConfig, RetrievedSynced
  <2>3. QED
    BY Zenon, <1>1, <1>2, <2>1, <2>2 DEF SetInv, Context
<1>5. ASSUME NEW d \in Supported \ D, NEW e \in D, Pending(d), Pending(e), SocketOf[d] = SocketOf[e]
      PROVE  FALSE
  <2> DEFINE with == {x \in On(SocketOf[e]) : RetrievedConfig(x)}
  <2>1. SocketOf[e] \in Sockets
    BY Zenon, <1>2 DEF Sockets
  <2>2. D \cap with \in {{}, with}
    BY Zenon, <2>1 DEF DeleteGoalConfig, DeleteAllowed, VerifyDeletingSupportedRegionConfigs
  <2>3. d \in with /\ e \in with
    BY Zenon, <1>5 DEF On, RetrievedConfig
  <2>4. QED
    BY Zenon, <2>2, <2>3
<1>6. Settled'
  BY Zenon, <1>1, <1>2, <1>5, SettledStart
<1>7. QED
  BY Zenon, <1>3, <1>4, <1>6 DEF SetInv

\* After a boot nothing is pending on a supported DIMM.
LEMMA RebootSets == ASSUME Types, SetInv, Reboot PROVE SetInv'
<1>1. op' = NoOp /\ pc' = "idle" /\ spoiled' = {}
  BY Zenon DEF Reboot
<1>2. op'.type = "none"
  BY <1>1 DEF NoOp
<1>3. ASSUME NEW d \in Dimms
      PROVE  pcd'[d].goal = pcd[d].goal /\ (d \in Supported => ~Pending(d)')
  <2>1. pcd[d] \in Tables
    BY Zenon DEF Types, MediaTypes
  <2>2. pcd'[d] = IF d \in Supported /\ Pending(d) THEN [pcd[d] EXCEPT !.cout = pcd[d].seq] ELSE pcd[d]
    BY Zenon DEF Reboot
  <2>3. CASE d \in Supported /\ Pending(d)
    <3>1. pcd'[d] = [pcd[d] EXCEPT !.cout = pcd[d].seq]
      BY Zenon, <2>2, <2>3
    <3>2. pcd'[d].goal = pcd[d].goal /\ pcd'[d].cout = pcd'[d].seq
      BY <2>1, <3>1 DEF Tables
    <3>3. QED
      BY Zenon, <3>2 DEF Pending
  <2>4. CASE ~(d \in Supported /\ Pending(d))
    <3>1. pcd'[d] = pcd[d]
      BY Zenon, <2>2, <2>4
    <3>2. QED
      BY Zenon, <2>4, <3>1 DEF Pending
  <2>5. QED
    BY Zenon, <2>3, <2>4
<1>4. OwnGoals'
  BY <1>3 DEF SetInv, OwnGoals
<1>5. Settled'
  BY Zenon, <1>3, GoalConstants DEF Settled, Idlers
<1>6. Context' /\ Planned'
  BY Zenon, <1>1, <1>2 DEF Context, Planned, Applying
<1>7. QED
  BY Zenon, <1>4, <1>5, <1>6 DEF SetInv

LEMMA QuietSets ==
  ASSUME Types, SetInv, Refused \/ \E D \in Requests : LoadGoalConfig(D)
  PROVE  SetInv'
<1>1. /\ pc \in {"idle", "load"} /\ pc' \in {"idle", "load"}
      /\ UNCHANGED <<pcd, region, op, spoiled, faults>>
  BY Zenon DEF Refused, LoadGoalConfig, media
<1>2. op = NoOp
  BY Zenon, <1>1 DEF SetInv, Context
<1>3. op.type = "none" /\ op.dimms \subseteq spoiled /\ op.dimms \subseteq Supported
  BY <1>2 DEF NoOp
<1>4. Planned' /\ Settled'
  BY Zenon, <1>1, <1>2, <1>3, SetsEnd
<1>5. OwnGoals' /\ Context'
  BY Zenon, <1>1, <1>2 DEF SetInv, OwnGoals, Context, Applying
<1>6. QED
  BY Zenon, <1>4, <1>5 DEF SetInv

LEMMA SetInvInit == GoalInit => SetInv
<1> SUFFICES ASSUME GoalInit PROVE SetInv
  OBVIOUS
<1>1. pc = "idle" /\ op = NoOp /\ spoiled = {}
  BY Zenon DEF GoalInit
<1>2. op.type = "none"
  BY <1>1 DEF NoOp
<1>3. ASSUME NEW d \in Dimms
      PROVE  /\ pcd[d].goal # NoGoal => d \in pcd[d].goal.members
             /\ d \in Supported => ~Pending(d)
  <2>1. /\ d \in Supported => pcd[d] \in {Blank("ok"), Blank("bad")}
        /\ d \notin Supported => pcd[d] = Filled([is |-> 1, members |-> {d}])
    BY GoalConstants DEF GoalInit
  <2>2. CASE d \in Supported
    BY <2>1, <2>2 DEF Blank, Pending
  <2>3. CASE d \notin Supported
    <3>1. pcd[d].goal = [is |-> 1, members |-> {d}]
      BY <2>1, <2>3 DEF Filled
    <3>2. QED
      BY <2>3, <3>1
  <2>4. QED
    BY Zenon, <2>2, <2>3
<1>4. OwnGoals /\ Settled
  BY Zenon, <1>3, GoalConstants DEF OwnGoals, Settled, Idlers
<1>5. Context /\ Planned
  BY Zenon, <1>1, <1>2 DEF Context, Planned, Applying
<1>6. QED
  BY Zenon, <1>4, <1>5 DEF SetInv

LEMMA SetInvNext == ASSUME Types, GoalInv, SetInv, [GoalNext]_goalVars PROVE SetInv'
<1>1. CASE UNCHANGED goalVars
  <2>1. UNCHANGED <<pcd, region, config, synced, pc, op, left, want, spoiled, faults>>
    BY Zenon, <1>1 DEF goalVars
  <2>2. OwnGoals' /\ Context'
    BY Zenon, <2>1 DEF SetInv, OwnGoals, Context
  <2>3. QED
    BY Zenon, <2>1, <2>2, SetsKept DEF SetInv
<1>2. ASSUME NEW D \in Requests, NEW kind, Create(D, kind) \/ LoadSocket(D, kind) PROVE SetInv'
  <2>1. D \in SUBSET Supported
    BY Zenon DEF Requests
  <2>2. pc \in {"idle", "load"} /\ CreateGoalConfig(D, kind)
    BY Zenon, <1>2 DEF Create, LoadSocket
  <2>3. QED
    BY <2>1, <2>2, CreateSets
<1>3. ASSUME NEW D \in Requests, DeleteGoalConfig(D) PROVE SetInv'
  BY Zenon, <1>3, DeleteSets DEF Requests
<1>4. CASE Request
  BY Zenon, <1>2, <1>3, <1>4, QuietSets DEF Request
<1>5. CASE Step
  BY ZenonT(60), <1>2, <1>5, WriteSets, BetweenSets, ApplyFailsSets, UndoDoneSets, SendDoneSets,
     LabelSets, LabelEndSets DEF Step
<1>6. QED
  BY Zenon, <1>1, <1>4, <1>5, RebootSets DEF GoalNext

LEMMA SetInvariance == GoalSpec => [](Types /\ GoalInv /\ SetInv)
  BY TypesInit, TypesNext, GoalInvInit, GoalInvNext, SetInvInit, SetInvNext, PTL DEF GoalSpec

\* Between operations the goals are whole: CheckForExistingGoalConfigPerSocket and
\* VerifyDeletingSupportedRegionConfigs never let a request break a pending set, and
\* ApplyGoalConfigsToDimms leaves a new one on all members or, unless its rollback
\* fails or is skipped, on none.
THEOREM WholeGoals == GoalSpec => []GoalsWhole
<1>1. ASSUME Types, GoalInv, SetInv PROVE GoalsWhole
  <2> SUFFICES ASSUME pc = "idle", NEW d \in Supported \ spoiled, Pending(d)
               PROVE  /\ d \in pcd[d].goal.members
                      /\ \A e \in pcd[d].goal.members : Pending(e) /\ pcd[e].goal = pcd[d].goal
    BY Zenon DEF GoalsWhole
  <2>1. op = NoOp
    BY Zenon, <1>1 DEF SetInv, Context
  <2>2. op.dimms = {}
    BY <2>1 DEF NoOp
  <2>3. d \in Idlers /\ d \in Dimms /\ pcd[d].goal # NoGoal
    BY Zenon, <2>2, GoalConstants DEF Idlers, Pending
  <2>4. QED
    BY Zenon, <1>1, <2>3 DEF SetInv, Settled, OwnGoals
<1>2. QED
  BY <1>1, SetInvariance, PTL

\* The index MapRegionsGoal's caller computes is never in use: not by a pending set
\* and, as long as no command has failed, not by a configured region.
THEOREM UniqueIndexes == GoalSpec => []IndexUnique
<1>1. ASSUME Types, GoalInv, SetInv PROVE IndexUnique
  <2> SUFFICES ASSUME pc = "idle", NEW d \in Supported \ spoiled, Pending(d)
               PROVE  /\ \A e \in Supported \ spoiled :
                           Pending(e) /\ pcd[e].goal.is = pcd[d].goal.is => pcd[e].goal = pcd[d].goal
                      /\ faults = 0 => pcd[d].goal.is \notin RegionIndexes
    BY Zenon DEF IndexUnique
  <2>1. op = NoOp
    BY Zenon, <1>1 DEF SetInv, Context
  <2>2. op.dimms = {}
    BY <2>1 DEF NoOp
  <2>3. d \in Idlers /\ \A e \in Supported \ spoiled : e \in Idlers
    BY Zenon, <2>2 DEF Idlers
  <2>4. /\ \A e \in Idlers : Pending(e) /\ pcd[e].goal.is = pcd[d].goal.is => pcd[e].goal = pcd[d].goal
        /\ faults = 0 => \A j \in RegionIndexes : j < pcd[d].goal.is
    BY Zenon, <1>1, <2>3 DEF SetInv, Settled, AboveRegions
  <2>5. pcd[d].goal.is \in Nat
    BY ZenonT(60), <1>1, PendingGoal, RegionGoalFields, GoalConstants DEF Types
  <2>6. faults = 0 => pcd[d].goal.is \notin RegionIndexes
    BY <2>4, <2>5
  <2>7. QED
    BY Zenon, <2>3, <2>4, <2>6
<1>2. QED
  BY <1>1, SetInvariance, PTL
=============================================================================
