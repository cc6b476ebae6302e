------------------------------- MODULE Goals -------------------------------
(***************************************************************************)
(* Goal provisioning.  A request to configure memory is stored as a        *)
(* Configuration Input table (CIN) in the Platform Config Data (PCD) of    *)
(* every DIMM it concerns; at the next boot the BIOS acts on the tables    *)
(* and answers each with a Configuration Output table (COUT) that repeats  *)
(* its sequence number.  CreateGoalConfig, LoadGoalConfig and              *)
(* DeleteGoalConfig read the PCD of all DIMMs, compute the new goals, and  *)
(* leave it to ApplyGoalConfigsToDimms to write them: it removes the old   *)
(* CIN of every DIMM concerned, sends the new ones DIMM after DIMM, and    *)
(* after an error tries to remove them all again.  A creation then         *)
(* initialises the label storage areas.                                    *)
(*                                                                         *)
(* PCD is written by one large payload command, or else by 64 byte         *)
(* commands: the header first, the CIN in several pieces after it.  Any    *)
(* command may fail, with or without effect, and the power may fail        *)
(* between two commands.                                                   *)
(*                                                                         *)
(* The capacity arithmetic that decides the sizes in a goal is left out:   *)
(* a goal is an interleave set, its index and its members.  So are the     *)
(* refusals that touch no state (security state, access policy, existing   *)
(* namespaces, SKU limits).  UEFI build, PCD cache off.                    *)
(***************************************************************************)
EXTENDS Integers, FiniteSets

CONSTANTS
  NDimms,        \* number of manageable DIMMs, in the order of the DIMM list
  SocketOf,      \* SocketId of each
  Supported,     \* those in a supported configuration
  LargePayload,  \* those whose PCD one command writes
  NoGoal,        \* no goal, or a table that is damaged
  MaxIndex,      \* largest interleave set index (bound)
  MaxFaults,     \* number of commands that fail outside of a rollback (bound)
  MaxCrashes     \* number of power failures during an operation (bound)

Dimms == 1..NDimms
Sockets == {SocketOf[d] : d \in Dimms}
On(s) == {d \in Supported : SocketOf[d] = s}

RegionGoals == [is : Nat, members : SUBSET Dimms]

ASSUME GoalConstants ==
  /\ NDimms \in Nat
  /\ SocketOf \in [Dimms -> Nat]
  /\ Supported \subseteq Dimms /\ LargePayload \subseteq Dimms
  /\ NoGoal \notin RegionGoals
  /\ MaxIndex \in Nat /\ MaxFaults \in Nat /\ MaxCrashes \in Nat

VARIABLES
  pcd,      \* the Platform Config Data of each DIMM
  lsa,      \* the label storage area of each DIMM
  region,   \* the interleave set that the BIOS configured each DIMM for
  goals,    \* pRegionsGoal of each DIMM: the goal interleave sets it is in
  config,   \* RegionsGoalConfig of each DIMM
  synced,   \* PcdSynced of each DIMM
  pc,       \* what the driver is doing
  op,       \* the request it is doing it for
  todo,     \* DIMMs of a goal file whose sockets are still to be configured
  left,     \* DIMMs that the current loop has not reached yet
  cin,      \* the CIN being sent, NoCin to remove the one there is
  chunk,    \* the next command of a PCD write
  clean,    \* no command of the rollback has failed
  last,     \* the operation that has just returned
  want,     \* the goals computed by the last creation
  spoiled,  \* DIMMs of operations that failed and were not rolled back
  faults, crashes

media == <<pcd, lsa, region>>
internal == <<goals, config, synced>>
progress == <<pc, op, todo, left, cin, chunk>>
goalVars == <<pcd, lsa, region, goals, config, synced, pc, op, todo, left, cin, chunk,
              clean, last, want, spoiled, faults, crashes>>

-----------------------------------------------------------------------------
(* Platform Config Data: whether there is a valid header ("bad" is one that *)
(* is missing or corrupt), whether it names a CIN, the sequence number of  *)
(* the COUT it names (0 for none), and what the bytes of the CIN hold      *)
(* (NoGoal if they do not pass the checksum) with its sequence number.     *)
(* The bytes can outlive the reference to them.                            *)

Tables == [hdr : {"bad", "ok"}, cin : BOOLEAN, cout : Nat,
           goal : RegionGoals \cup {NoGoal}, seq : Nat]

Blank(h) == [hdr |-> h, cin |-> FALSE, cout |-> 0, goal |-> NoGoal, seq |-> 0]
Filled(g) == [hdr |-> "ok", cin |-> TRUE, cout |-> 0, goal |-> g, seq |-> 1]

NoCin == [goal |-> NoGoal, seq |-> 0]
NoOp == [type |-> "none", dimms |-> {}]
NoLast == [type |-> "none", dimms |-> {}, out |-> "none", stage |-> "none"]

\* A goal not yet acted on: a valid CIN without a COUT of the same number.
Pending(d) ==
  /\ pcd[d].hdr = "ok" /\ pcd[d].cin /\ pcd[d].goal # NoGoal
  /\ pcd[d].cout # pcd[d].seq

\* With RestoreCorrupt a header that is missing or corrupt is replaced in
\* memory, otherwise it ends the operation.
GetPlatformConfigDataOemPartition(d, restoreCorrupt) == ~restoreCorrupt => pcd[d].hdr = "ok"

-----------------------------------------------------------------------------
(* What RetrieveGoalConfigsFromPlatformConfigData makes of the PCD         *)

Readable(restoreCorrupt) ==
  \A d \in Supported : GetPlatformConfigDataOemPartition(d, restoreCorrupt)

\* A set whose index an earlier DIMM used already is not looked at again.
RetrievedGoals ==
  {pcd[d].goal : d \in {d \in Supported :
     /\ Pending(d)
     /\ ~ \E e \in Supported : e < d /\ Pending(e) /\ pcd[e].goal.is = pcd[d].goal.is}}

\* A set is given to all of its members, whether or not they have a CIN.
RetrieveRegionGoal(d) == {g \in RetrievedGoals : d \in g.members}

RetrievedConfig(d) == d \in Supported /\ Pending(d)

\* Mutant: a DIMM with a new goal is left out of sync.
RetrievedSyncedNoGoal(d) == d \in Supported /\ ~Pending(d)

\* DIMMs in an unsupported configuration are not read and stay out of sync.
RetrievedSynced(d) == d \in Supported

FindRelatedDimmsByRegionGoalConfigs(D) ==
  D \cup {e \in Supported : \E d \in D : \E g \in RetrieveRegionGoal(d) : e \in g.members}

FindRelatedDimmsByRegions(D) ==
  D \cup {e \in Dimms : \E d \in D : region[d] # NoGoal /\ e \in region[d].members}

-----------------------------------------------------------------------------
(* The goals of a creation: "AD" interleaves the DIMMs of a socket, "NI"   *)
(* makes a set of each                                                     *)

CheckForExistingGoalConfigPerSocket(D) ==
  \A d \in D : \A e \in On(SocketOf[d]) : ~Pending(e)

\* All DIMMs of a socket, all that are not configured yet, or some of them
\* not interleaved when so are the others.
VerifyCreatingSupportedRegionConfigs(D, kind) ==
  \A s \in Sockets :
    LET asked == D \cap On(s)
        unconfigured == {d \in On(s) : region[d] = NoGoal}
    IN  asked \notin {{}, unconfigured, On(s)} =>
          /\ kind = "AD" => Cardinality(asked) = 1
          /\ \A d \in On(s) \ D : region[d] # NoGoal /\ region[d].members = {d}

ValidateRegionsCorrelations(D) ==
  FindRelatedDimmsByRegions(D) = D /\ FindRelatedDimmsByRegionGoalConfigs(D) = D

Largest(S) == CHOOSE n \in S : \A m \in S : m <= n

RegionIndexes == {region[d].is : d \in {d \in Dimms : region[d] # NoGoal}}
GoalIndexes == {g.is : g \in UNION {RetrieveRegionGoal(d) : d \in Supported}}

\* Mutant: the goals of other sockets are forgotten.
LargestRegionIndex == Largest(RegionIndexes \cup {0})

\* The largest index of the goals or else, when there are none, of the
\* regions there are.
LargestIndex ==
  IF GoalIndexes # {} THEN Largest(GoalIndexes) ELSE Largest(RegionIndexes \cup {0})

\* The sets are numbered from there socket by socket, and on a socket DIMM
\* by DIMM.
MapRegionsGoal(d, D, kind) ==
  IF kind = "AD"
  THEN [is |-> LargestIndex +
                 Cardinality({SocketOf[e] : e \in {e \in D : SocketOf[e] <= SocketOf[d]}}),
        members |-> {e \in D : SocketOf[e] = SocketOf[d]}]
  ELSE [is |-> LargestIndex +
                 Cardinality({e \in D : \/ SocketOf[e] < SocketOf[d]
                                        \/ SocketOf[e] = SocketOf[d] /\ e <= d}),
        members |-> {d}]

-----------------------------------------------------------------------------
(* Starting and ending an operation                                        *)

\* ApplyGoalConfigsToDimms begins with the DIMMs that are not in sync.
Start(type, D) ==
  /\ pc' = "clear"
  /\ op' = [type |-> type, dimms |-> D]
  /\ left' = {d \in Supported : ~synced'[d]}
  /\ last' = NoLast
  /\ UNCHANGED <<media, cin, chunk, clean, spoiled, faults, crashes>>

ClearInternalGoalConfigsInfo ==
  /\ goals' = [d \in Dimms |-> {}]
  /\ config' = [d \in Dimms |-> FALSE]
  /\ synced' = [d \in Dimms |-> FALSE]

\* A goal file goes on with the next socket unless there was an error.
Return(type, D, out, stage) ==
  /\ ClearInternalGoalConfigsInfo
  /\ pc' = IF out = "ok" /\ todo # {} THEN "load" ELSE "idle"
  /\ todo' = IF out = "ok" THEN todo ELSE {}
  /\ op' = NoOp /\ left' = {} /\ cin' = NoCin /\ chunk' = "head" /\ clean' = TRUE
  /\ last' = [type |-> type, dimms |-> D, out |-> out, stage |-> stage]
  /\ spoiled' = IF stage \in {"invalid", "spoiled"} THEN spoiled \cup D ELSE spoiled \ D

-----------------------------------------------------------------------------
(* The requests                                                            *)

CreateAllowed(D, kind) ==
  /\ Readable(TRUE)
  /\ CheckForExistingGoalConfigPerSocket(D)
  /\ VerifyCreatingSupportedRegionConfigs(D, kind)
  /\ ValidateRegionsCorrelations(D)

\* CreateGoalConfig up to the call of ApplyGoalConfigsToDimms.
CreateGoalConfig(D, kind) ==
  /\ CreateAllowed(D, kind)
  /\ want' = [d \in Dimms |-> IF d \in D THEN MapRegionsGoal(d, D, kind) ELSE NoGoal]
  /\ goals' = [d \in Dimms |-> IF d \in D THEN {want'[d]} ELSE RetrieveRegionGoal(d)]
  /\ config' = [d \in Dimms |-> d \in D \/ RetrievedConfig(d)]
  /\ synced' = [d \in Dimms |-> d \notin D /\ RetrievedSynced(d)]
  /\ Start("create", D)

Create(D, kind) ==
  /\ pc = "idle"
  /\ LargestIndex + Cardinality(D) <= MaxIndex
  /\ CreateGoalConfig(D, kind)
  /\ UNCHANGED todo

\* A goal file configures one socket after the other.
LoadGoalConfig(D) ==
  /\ pc = "idle"
  /\ LargestIndex + Cardinality(D) <= MaxIndex
  /\ pc' = "load" /\ todo' = D /\ last' = NoLast
  /\ want' = [d \in Dimms |-> NoGoal]
  /\ UNCHANGED <<media, internal, op, left, cin, chunk, clean, spoiled, faults, crashes>>

LoadSocket(D, kind) ==
  /\ pc = "load"
  /\ D # {} /\ \E s \in Sockets : /\ D = {d \in todo : SocketOf[d] = s}
                                 /\ \A d \in todo : s <= SocketOf[d]
  /\ CreateGoalConfig(D, kind)
  /\ todo' = todo \ D

\* All DIMMs with a goal on a socket, or none.
VerifyDeletingSupportedRegionConfigs(D) ==
  \A s \in Sockets :
    LET with == {d \in On(s) : RetrievedConfig(d)}
    IN  D \cap with \in {{}, with}

\* Mutant: a part of the DIMMs with a goal can be deleted.
DeleteAllowedAnyPart(D) == Readable(FALSE)

DeleteAllowed(D) ==
  /\ Readable(FALSE)
  /\ VerifyDeletingSupportedRegionConfigs(D)
  /\ FindRelatedDimmsByRegionGoalConfigs(D) = D

\* DeleteGoalConfig up to the call of ApplyGoalConfigsToDimms.  A DIMM of the
\* request that has no goal counts as being in sync.
DeleteGoalConfig(D) ==
  /\ pc = "idle"
  /\ DeleteAllowed(D)
  /\ goals' = [d \in Dimms |-> IF d \in D THEN {} ELSE RetrieveRegionGoal(d)]
  /\ config' = [d \in Dimms |-> d \notin D /\ RetrievedConfig(d)]
  /\ synced' = [d \in Dimms |-> IF d \in D THEN ~RetrievedConfig(d) ELSE RetrievedSynced(d)]
  /\ want' = [d \in Dimms |-> NoGoal]
  /\ Start("delete", D)
  /\ UNCHANGED todo

\* Mutant: DIMMs in an unsupported configuration are not excluded.
RequestsAny == (SUBSET Dimms) \ {{}}

\* VerifyTargetDimms admits any supported DIMMs.
Requests == (SUBSET Supported) \ {{}}
CommandFails == faults < MaxFaults /\ faults' = faults + 1

\* The checks turned the request down, one of those left out here included,
\* or a read failed during them.
Refused ==
  /\ pc \in {"idle", "load"}
  /\ ClearInternalGoalConfigsInfo
  /\ pc' = "idle" /\ todo' = {} /\ last' = NoLast
  /\ want' = [d \in Dimms |-> NoGoal]
  /\ UNCHANGED <<media, op, left, cin, chunk, clean, spoiled, faults, crashes>>

-----------------------------------------------------------------------------
(* SendConfigInputToDimm: the PCD a command can leave.  The header goes    *)
(* first and no longer names the COUT.  Without a CIN only the zeros for   *)
(* the old COUT follow, over the place of the old CIN; the last piece of   *)
(* 64 bytes is filled up with whatever is there in memory and may damage   *)
(* the old CIN.                                                            *)

Header(d) == [pcd[d] EXCEPT !.hdr = "ok", !.cin = (cin # NoCin), !.cout = 0]
Damaged(t) == [t EXCEPT !.goal = NoGoal, !.seq = 0]
Complete(t) == [t EXCEPT !.goal = cin.goal, !.seq = cin.seq]

FwCmdSetPlatformConfigData(d) ==
  CASE d \in LargePayload -> {Complete(Header(d))}
    [] d \notin LargePayload /\ chunk = "head" ->
         IF cin = NoCin THEN {Header(d), Damaged(Header(d))} ELSE {Header(d)}
    [] d \notin LargePayload /\ chunk \in {"zeros", "part"} -> {Damaged(pcd[d])}
    [] d \notin LargePayload /\ chunk = "rest" -> {Complete(pcd[d])}

\* Mutant: the loop ends one command early.
LastChunkEarly(d) ==
  \/ d \in LargePayload
  \/ chunk \in {"zeros", "part"}
  \/ chunk = "head" /\ cin = NoCin /\ pcd[d].cout = 0

LastChunk(d) ==
  \/ d \in LargePayload
  \/ chunk \in {"zeros", "rest"}
  \/ chunk = "head" /\ cin = NoCin /\ pcd[d].cout = 0

NextChunk == IF chunk = "part" THEN "rest" ELSE IF cin = NoCin THEN "zeros" ELSE "part"

First(d) == d \in left /\ \A e \in left : d <= e

SendConfigInputToDimm(d) ==
  /\ First(d)
  /\ \E t \in FwCmdSetPlatformConfigData(d) : pcd' = [pcd EXCEPT ![d] = t]
  /\ IF LastChunk(d)
     THEN left' = left \ {d} /\ chunk' = "head" /\ cin' = NoCin
     ELSE chunk' = NextChunk /\ UNCHANGED <<left, cin>>

\* A read, or a write that may have reached the DIMM nevertheless, has failed.
SendFails(d) ==
  /\ First(d)
  /\ \/ UNCHANGED pcd
     \/ /\ pc = "send" => cin # NoCin
        /\ \E t \in FwCmdSetPlatformConfigData(d) : pcd' = [pcd EXCEPT ![d] = t]

-----------------------------------------------------------------------------
(* ApplyGoalConfigsToDimms                                                 *)

Keep == UNCHANGED <<lsa, region, internal, op, todo, last, want, spoiled, crashes>>

\* The old CIN of every DIMM concerned is removed.
ClearStep(d) ==
  /\ pc = "clear"
  /\ SendConfigInputToDimm(d)
  /\ UNCHANGED <<pc, clean, faults>> /\ Keep

ClearDone ==
  /\ pc = "clear" /\ left = {}
  /\ pc' = "send"
  /\ left' = {d \in Dimms : ~synced[d] /\ config[d]}
  /\ UNCHANGED <<pcd, cin, chunk, clean, faults>> /\ Keep

GetNewSequenceNumber(d) == IF pcd[d].cout = 0 THEN 1 ELSE pcd[d].cout + 1

GeneratePcdConfInput(d) ==
  /\ pc = "send" /\ cin = NoCin
  /\ First(d)
  /\ GetPlatformConfigDataOemPartition(d, FALSE)
  /\ \E g \in goals[d] : cin' = [goal |-> g, seq |-> GetNewSequenceNumber(d)]
  /\ UNCHANGED <<pcd, pc, left, chunk, clean, faults>> /\ Keep

SendStep(d) ==
  /\ pc = "send" /\ cin # NoCin
  /\ SendConfigInputToDimm(d)
  /\ UNCHANGED <<pc, clean, faults>> /\ Keep

\* Mutant: the DIMMs that had been written before the error are left alone.
ApplyFailsRest(d) ==
  /\ pc \in {"clear", "send"}
  /\ SendFails(d) /\ CommandFails
  /\ pc' = "undo" /\ cin' = NoCin /\ chunk' = "head"
  /\ UNCHANGED <<left, clean>> /\ Keep

\* After an error every DIMM that is not in sync has its CIN removed, unless
\* the error was EFI_INVALID_PARAMETER.
ApplyFails(d) ==
  /\ pc \in {"clear", "send"}
  /\ SendFails(d) /\ CommandFails
  /\ \/ /\ pc' = "undo"
        /\ left' = {e \in Dimms : ~synced[e]}
        /\ cin' = NoCin /\ chunk' = "head"
        /\ UNCHANGED clean /\ Keep
     \/ /\ Return(op.type, op.dimms, "err", "invalid")
        /\ UNCHANGED <<lsa, region, want, crashes>>

UndoStep(d) ==
  /\ pc = "undo"
  /\ SendConfigInputToDimm(d)
  /\ UNCHANGED <<pc, clean, faults>> /\ Keep

\* The outcome of the removal is not looked at.
UndoFails(d) ==
  /\ pc = "undo"
  /\ SendFails(d)
  /\ left' = left \ {d} /\ chunk' = "head" /\ clean' = FALSE
  /\ UNCHANGED <<pc, cin, faults>> /\ Keep

UndoDone ==
  /\ pc = "undo" /\ left = {}
  /\ Return(op.type, op.dimms, "err", IF clean THEN "undone" ELSE "spoiled")
  /\ UNCHANGED <<media, want, faults, crashes>>

\* Everything was sent.  A creation goes on with the labels.
SendDone ==
  /\ pc = "send" /\ left = {}
  /\ IF op.type = "create"
     THEN /\ synced' = [d \in Dimms |-> TRUE]
          /\ pc' = "labels" /\ left' = op.dimms
          /\ UNCHANGED <<goals, config, op, todo, cin, chunk, clean, last, spoiled>>
     ELSE Return("delete", op.dimms, "ok", "done")
  /\ UNCHANGED <<media, want, faults, crashes>>

-----------------------------------------------------------------------------
(* InitializeAllLabelStorageAreas.  An area is "old", "zero" or, when it   *)
(* was written for the goal, "init".                                       *)

ZeroLabelStorageArea(d) ==
  /\ pc = "labels" /\ First(d)
  /\ lsa[d] # "zero"
  /\ lsa' = [lsa EXCEPT ![d] = "zero"]
  /\ UNCHANGED <<pcd, region, internal, progress, clean, last, want, spoiled, faults, crashes>>

InitializeLabelStorageArea(d) ==
  /\ pc = "labels" /\ First(d)
  /\ lsa[d] = "zero"
  /\ lsa' = [lsa EXCEPT ![d] = "init"]
  /\ left' = left \ {d}
  /\ UNCHANGED <<pcd, region, internal, pc, op, todo, cin, chunk, clean, last, want, spoiled,
                 faults, crashes>>

\* Zeroing, writing or reading back failed; the goals stay on the DIMMs.
LabelsFail(d) ==
  /\ pc = "labels" /\ First(d)
  /\ CommandFails
  /\ \E a \in {"old", "zero", "init"} : lsa' = [lsa EXCEPT ![d] = a]
  /\ Return(op.type, op.dimms, "err", "labels")
  /\ UNCHANGED <<pcd, region, want, crashes>>

LabelsDone ==
  /\ pc = "labels" /\ left = {}
  /\ Return("create", op.dimms, "ok", "done")
  /\ UNCHANGED <<media, want, faults, crashes>>

-----------------------------------------------------------------------------
(* The BIOS (external) answers every goal of a supported DIMM and may      *)
(* configure the sets all of whose members ask for the same set.           *)

CompleteSets ==
  {g \in {pcd[d].goal : d \in {d \in Supported : Pending(d)}} :
     \A d \in g.members : Pending(d) /\ pcd[d].goal = g}

ConfiguredBy(accepted, d) ==
  IF \E g \in accepted : d \in g.members
  THEN CHOOSE g \in accepted : d \in g.members
  ELSE IF region[d] # NoGoal /\ \E g \in accepted : g.members \cap region[d].members # {}
  THEN NoGoal
  ELSE region[d]

\* The power is switched off, perhaps in the middle of an operation.
Reboot ==
  /\ crashes' = IF pc = "idle" THEN crashes ELSE crashes + 1
  /\ crashes' <= MaxCrashes
  /\ \E accepted \in SUBSET CompleteSets : region' = [d \in Dimms |-> ConfiguredBy(accepted, d)]
  /\ pcd' = [d \in Dimms |-> IF d \in Supported /\ Pending(d)
                             THEN [pcd[d] EXCEPT !.cout = pcd[d].seq] ELSE pcd[d]]
  /\ lsa' \in {a \in [Dimms -> {"old", "zero"}] :
                \A d \in Dimms : \/ lsa[d] = "zero" /\ pc = "labels" /\ First(d)
                                 \/ a[d] = IF lsa[d] = "zero" THEN "zero" ELSE "old"}
  /\ ClearInternalGoalConfigsInfo
  /\ pc' = "idle" /\ op' = NoOp /\ todo' = {} /\ left' = {} /\ cin' = NoCin /\ chunk' = "head"
  /\ clean' = TRUE /\ last' = NoLast /\ want' = [d \in Dimms |-> NoGoal] /\ spoiled' = {}
  /\ UNCHANGED faults

-----------------------------------------------------------------------------

\* A supported DIMM starts without a goal, with or without a valid header, and
\* an unsupported one with the goal it got when it was in another place.
GoalInit ==
  /\ \E valid \in SUBSET Supported :
       pcd = [d \in Dimms |-> IF d \in valid THEN Blank("ok")
                             ELSE IF d \in Supported THEN Blank("bad")
                             ELSE Filled([is |-> 1, members |-> {d}])]
  /\ lsa = [d \in Dimms |-> "old"]
  /\ region = [d \in Dimms |-> NoGoal]
  /\ goals = [d \in Dimms |-> {}]
  /\ config = [d \in Dimms |-> FALSE]
  /\ synced = [d \in Dimms |-> FALSE]
  /\ pc = "idle" /\ op = NoOp /\ todo = {} /\ left = {} /\ cin = NoCin /\ chunk = "head"
  /\ clean = TRUE /\ last = NoLast /\ want = [d \in Dimms |-> NoGoal] /\ spoiled = {}
  /\ faults = 0 /\ crashes = 0

Request ==
  \/ \E D \in Requests, kind \in {"AD", "NI"} : Create(D, kind)
  \/ \E D \in Requests : LoadGoalConfig(D) \/ DeleteGoalConfig(D)
  \/ Refused

Step ==
  \/ \E D \in Requests, kind \in {"AD", "NI"} : LoadSocket(D, kind)
  \/ \E d \in Dimms :
       \/ ClearStep(d) \/ GeneratePcdConfInput(d) \/ SendStep(d) \/ ApplyFails(d)
       \/ UndoStep(d) \/ UndoFails(d)
       \/ ZeroLabelStorageArea(d) \/ InitializeLabelStorageArea(d) \/ LabelsFail(d)
  \/ ClearDone \/ SendDone \/ UndoDone \/ LabelsDone

GoalNext == Request \/ Step \/ Reboot

GoalSpec == GoalInit /\ [][GoalNext]_goalVars

-----------------------------------------------------------------------------
(* Properties                                                              *)

\* Every variable keeps its type.
GoalTypeOK ==
  /\ pcd \in [Dimms -> Tables]
  /\ lsa \in [Dimms -> {"old", "zero", "init"}]
  /\ region \in [Dimms -> RegionGoals \cup {NoGoal}]
  /\ goals \in [Dimms -> SUBSET RegionGoals]
  /\ config \in [Dimms -> BOOLEAN] /\ synced \in [Dimms -> BOOLEAN]
  /\ pc \in {"idle", "load", "clear", "send", "undo", "labels"}
  /\ op \in [type : {"none", "create", "delete"}, dimms : SUBSET Supported]
  /\ todo \subseteq Supported /\ left \subseteq Dimms
  /\ cin \in [goal : RegionGoals \cup {NoGoal}, seq : Nat]
  /\ chunk \in {"head", "zeros", "part", "rest"}
  /\ clean \in BOOLEAN
  /\ last \in [type : {"none", "create", "delete"}, dimms : SUBSET Supported,
               out : {"none", "ok", "err"},
               stage : {"none", "invalid", "undone", "spoiled", "labels", "done"}]
  /\ want \in [Dimms -> RegionGoals \cup {NoGoal}]
  /\ spoiled \subseteq Dimms
  /\ faults \in 0..MaxFaults /\ crashes \in 0..MaxCrashes

\* A creation that reports success has put on every DIMM of the request the
\* goal it computed, which will be taken for a new one and not for one acted
\* on before, and an initialised label storage area.
CreateComplete ==
  last.type = "create" /\ last.out = "ok" =>
    \A d \in last.dimms : Pending(d) /\ pcd[d].goal = want[d] /\ lsa[d] = "init"

\* An operation that failed while it applied the goals, and whose rollback met
\* no error, leaves no goal on any DIMM of the request; a deletion that reports
\* success does not either.
NoneLeft ==
  last.stage = "undone" \/ (last.type = "delete" /\ last.out = "ok") =>
    \A d \in last.dimms : ~Pending(d)

\* Between operations the goals are whole: all members of a pending set ask for
\* this set, so that the BIOS never meets half a request.  Requests that failed
\* without a rollback are the exception.
GoalsWhole ==
  pc = "idle" =>
    \A d \in Supported \ spoiled : Pending(d) =>
      /\ d \in pcd[d].goal.members
      /\ \A e \in pcd[d].goal.members : Pending(e) /\ pcd[e].goal = pcd[d].goal

\* Between operations no two pending sets share an index and, as long as no
\* command has failed, none has the index of a configured region: the index is
\* to be "unique across all dimms in the system, not just dimms targeted for
\* goal creation".
IndexUnique ==
  pc = "idle" =>
    \A d \in Supported \ spoiled : Pending(d) =>
      /\ \A e \in Supported \ spoiled :
           Pending(e) /\ pcd[e].goal.is = pcd[d].goal.is => pcd[e].goal = pcd[d].goal
      /\ faults = 0 => pcd[d].goal.is \notin RegionIndexes

\* No step of an operation changes the PCD of a supported DIMM that is not among
\* the DIMMs of the request.  (Only a boot ends idle with no last operation.)
UntargetedKept ==
  [][\/ pc' = "idle" /\ last' = NoLast
     \/ \A d \in Supported \ op.dimms : pcd'[d] = pcd[d]]_goalVars
============================================================================
