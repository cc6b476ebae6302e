------------------------------ MODULE FwProofs ------------------------------
(***************************************************************************)
(* The load command: proofs for any number of DIMMs, packets and attempts. *)
(***************************************************************************)
EXTENDS FwUpdate, TLAPS

-----------------------------------------------------------------------------
(* Types                                                                   *)

Preparing == {"check", "verify", "prompt", "large", "ars", "poll", "packet", "longop"}
Waiting == {"stage", "stageop"}
Pcs == Preparing \cup Waiting \cup {"idle", "report"}

DimmTypes ==
  /\ longop \in [Dimms -> LongOps]
  /\ got \in [Dimms -> SUBSET Image] /\ staged \in [Dimms -> SUBSET Image]
  /\ \A d \in Dimms : version[d] \in Versions[d]

RequestTypes ==
  /\ recovery \in BOOLEAN /\ force \in BOOLEAN /\ targets \subseteq Dimms
  /\ took \subseteq Dimms /\ agreed \subseteq Dimms

BoundTypes == faults \in 0..MaxFaults /\ loads \in 0..MaxLoads /\ cycles \in 0..MaxCycles

SetTypes == left \subseteq targets /\ sent \subseteq targets /\ waiting \subseteq sent

StatusTypes ==
  /\ pc \in Pcs
  /\ asked \in BOOLEAN
  /\ nvm \in {"none", "busy", "already", "failed"}
  /\ codes \in [Dimms -> Statuses]
  /\ result \in {"none", "success", "already", "aborted"}

\* The loops have a round left when they are entered.
CounterTypes ==
  /\ tries \in 0..(MaxTries - 1) /\ polls \in 0..MaxPolls
  /\ packet \in 0..(Packets - 1) /\ checks \in 0..MaxChecks
  /\ pc = "poll" => polls < MaxPolls
  /\ pc \in Preparing => checks = 0
  /\ pc \in Waiting => checks < MaxChecks

Control == SetTypes /\ StatusTypes /\ CounterTypes

Types == DimmTypes /\ RequestTypes /\ BoundTypes /\ Control

\* The actions that change nothing on the DIMMs.
Quiet(d) ==
  \/ AlreadyStaged(d) \/ NotStaged(d) \/ Verify(d) \/ Refused(d) \/ BsrFails(d)
  \/ \E yes \in BOOLEAN : Prompt(d, yes)
  \/ LargeBusy(d) \/ LargeRefused(d) \/ GetARS(d) \/ GetARSFails(d) \/ PollOnArsDeviceBusy(d)
  \/ PacketRefused(d) \/ CheckForLongOpStatusInProgress(d)
  \/ StageDone(d) \/ StagePending(d) \/ GetLongOpStatus(d) \/ GetLongOpStatusFails(d)
  \/ Report(d)

\* Those of the command that send a piece of the image.
Sends(d) == SendLarge(d) \/ LargeFails(d) \/ SendPacket(d) \/ PacketFails(d)

LEMMA NextCases ==
  ASSUME FwNext
  PROVE  \/ \E d \in Dimms : Quiet(d)
         \/ \E d \in Dimms : Sends(d)
         \/ \E d \in Dimms : Stages(d) \/ StageFails(d) \/ ScrubEnds(d)
         \/ StageRound \/ PowerCycle \/ Rest
         \/ \E R \in Recoveries, f \in BOOLEAN, D \in SUBSET Dimms \ {{}} : Load(R, f, D)
  BY Zenon DEF FwNext, Command, Quiet, Sends

LEMMA QuietDimms == ASSUME NEW d, Quiet(d) PROVE UNCHANGED dimmVars
  BY Zenon DEF Quiet, AlreadyStaged, NotStaged, Verify, Refused, BsrFails, Prompt, LargeBusy,
     LargeRefused, GetARS, GetARSFails, PollOnArsDeviceBusy, PacketRefused,
     CheckForLongOpStatusInProgress, StageDone, StagePending, GetLongOpStatus,
     GetLongOpStatusFails, Report

\* What a DIMM may come to hold.
LEMMA SendsDimms ==
  ASSUME NEW d \in Dimms, Sends(d)
  PROVE  /\ UNCHANGED <<staged, version>> /\ First(d)
         /\ \/ UNCHANGED <<longop, got>>
            \/ /\ pc = "packet" /\ ~Busy(d) /\ longop' = longop
               /\ got' = [got EXCEPT ![d] = IF packet = 0 THEN {0} ELSE @ \cup {packet}]
            \/ /\ pc = "large" /\ longop' = [longop EXCEPT ![d] = Staging]
               /\ got' = [got EXCEPT ![d] = @ \cup Image]
            \/ /\ pc = "packet" /\ packet = Packets - 1
               /\ longop' = [longop EXCEPT ![d] = Staging]
               /\ got' = [got EXCEPT ![d] = @ \cup {packet}]
  BY Zenon DEF Sends, SendLarge, LargeFails, SendPacket, PacketFails, ReceiveLast, Receive, LastPacket,
     UploadStatus

-----------------------------------------------------------------------------
\* The fault counter moves by itself or not at all.
LEMMA QuietFrame ==
  ASSUME NEW d \in Dimms, Quiet(d) \/ Sends(d)
  PROVE  /\ UNCHANGED <<options, loads, cycles>>
         /\ Fault \/ UNCHANGED faults
         /\ took' \subseteq took \cup {d} /\ agreed' \subseteq agreed \cup {d}
<1>1. CASE Quiet(d)
  BY Zenon, <1>1 DEF Quiet, AlreadyStaged, NotStaged, Verify, Refused, BsrFails, Prompt, LargeBusy,
     LargeRefused, GetARS, GetARSFails, PollOnArsDeviceBusy, PacketRefused,
     CheckForLongOpStatusInProgress, StageDone, StagePending, GetLongOpStatus,
     GetLongOpStatusFails, Report, options, history, bounds
<1>2. CASE Sends(d)
  BY Zenon, <1>2 DEF Sends, SendLarge, LargeFails, SendPacket, PacketFails, ReceiveLast, Receive,
     options, history, bounds
<1>3. QED
  BY Zenon, <1>1, <1>2

LEMMA FaultTypes == ASSUME BoundTypes, Fault \/ UNCHANGED faults PROVE faults' \in 0..MaxFaults
  BY FwConstants DEF BoundTypes, Fault

\* The next DIMM, or the end of the loop.
LEMMA NextDimmControl ==
  ASSUME Control, NEW d, First(d), pc \in Preparing, NEW ok, ok \subseteq targets, NextDimm(d, ok),
         UNCHANGED <<targets, checks, result>>, codes' \in [Dimms -> Statuses]
  PROVE  Control'
<1>1. pc' \in {"verify", "check", "report", "stage"}
  BY Zenon DEF NextDimm, AfterDimm
<1>2. SetTypes'
  BY Zenon DEF Control, SetTypes, NextDimm
<1>3. StatusTypes'
  BY Zenon, <1>1 DEF Control, StatusTypes, NextDimm, Pcs, Preparing, Waiting
<1>4. CounterTypes'
  BY <1>1, FwConstants DEF Control, CounterTypes, NextDimm, Preparing, Waiting
<1>5. QED
  BY Zenon, <1>2, <1>3, <1>4 DEF Control

LEMMA ReturnedControl ==
  ASSUME Control, NEW d \in Dimms, First(d), pc \in Preparing, NEW g \in Statuses, Returned(d, g),
         UNCHANGED targets
  PROVE  Control'
<1>1. codes' \in [Dimms -> Statuses]
  BY Zenon DEF Control, StatusTypes, Returned, Statuses
<1>2. CASE g = "force" /\ ~recovery
  <2>1. SetTypes' /\ StatusTypes'
    BY Zenon, <1>1, <1>2 DEF Control, SetTypes, StatusTypes, Returned, upload, Pcs, Preparing
  <2>2. CounterTypes'
    BY <1>2 DEF Control, CounterTypes, Returned, upload, Preparing, Waiting
  <2>3. QED
    BY Zenon, <2>1, <2>2 DEF Control
<1>3. CASE ~(g = "force" /\ ~recovery)
  <2>1. PICK ok : ok \subseteq targets /\ NextDimm(d, ok)
    BY Zenon, <1>3 DEF Returned, Control, SetTypes, First
  <2>2. QED
    BY Zenon, <1>1, <2>1, NextDimmControl DEF Returned
<1>4. QED
  BY Zenon, <1>2, <1>3

LEMMA FailedControl ==
  ASSUME Control, pc \in Preparing, NEW s \in {"busy", "already", "failed"}, Failed(s),
         UNCHANGED targets
  PROVE  Control'
<1>1. SetTypes' /\ StatusTypes'
  BY Zenon DEF Control, SetTypes, StatusTypes, Failed, staging, outcome, Pcs, Preparing
<1>2. CounterTypes'
  BY DEF Control, CounterTypes, Failed, staging, Preparing, Waiting
<1>3. QED
  BY Zenon, <1>1, <1>2 DEF Control

LEMMA VersionStatus == ASSUME NEW d PROVE ValidateImageVersion(d) \in {"success", "invalid", "force"}
  BY Zenon DEF ValidateImageVersion

LEMMA QuietControl ==
  ASSUME Types, NEW d \in Dimms, Quiet(d)
  PROVE  Control'
<1> USE DEF Types
<1>1. CASE AlreadyStaged(d)
  <2>1. codes' \in [Dimms -> Statuses]
    BY Zenon, <1>1 DEF AlreadyStaged, Control, StatusTypes, Statuses
  <2>2. sent \subseteq targets /\ pc \in Preparing
    BY Zenon, <1>1 DEF AlreadyStaged, Control, SetTypes, Preparing
  <2>3. QED
    BY Zenon, <1>1, <2>1, <2>2, NextDimmControl DEF AlreadyStaged, options
<1>2. CASE NotStaged(d)
  <2>1. SetTypes' /\ StatusTypes'
    BY Zenon, <1>2 DEF Control, SetTypes, StatusTypes, NotStaged, options, upload, staging, outcome, Pcs,
       Preparing, Waiting
  <2>2. CounterTypes'
    BY <1>2, FwConstants DEF Control, CounterTypes, NotStaged, upload, staging, Preparing, Waiting
  <2>3. QED
    BY Zenon, <2>1, <2>2 DEF Control
<1>3. CASE Verify(d)
  <2>1. CASE ValidateImageVersion(d) = "success"
    <3>1. SetTypes' /\ StatusTypes'
      BY Zenon, <1>3, <2>1 DEF Control, SetTypes, StatusTypes, Verify, options, upload, staging, outcome,
         Pcs, Preparing
    <3>2. CounterTypes'
      BY <1>3, <2>1 DEF Control, CounterTypes, Verify, upload, staging, Preparing, Waiting
    <3>3. QED
      BY Zenon, <3>1, <3>2 DEF Control
  <2>2. CASE ValidateImageVersion(d) # "success"
    <3>1. ValidateImageVersion(d) \in Statuses
      BY Zenon, VersionStatus DEF Statuses
    <3>2. QED
      BY Zenon, <1>3, <2>2, <3>1, ReturnedControl DEF Verify, options, Preparing
  <2>3. QED
    BY Zenon, <2>1, <2>2
<1>4. CASE Refused(d) \/ BsrFails(d)
  BY Zenon, <1>4, ReturnedControl DEF Refused, BsrFails, options, Preparing, Statuses
<1>5. CASE \E yes \in BOOLEAN : Prompt(d, yes)
  <2>1. PICK yes \in BOOLEAN : Prompt(d, yes)
    BY Zenon, <1>5
  <2>2. CASE yes
    <3>1. SetTypes' /\ StatusTypes'
      BY Zenon, <2>1, <2>2 DEF Control, SetTypes, StatusTypes, Prompt, options, upload, Pcs, Preparing
    <3>2. CounterTypes'
      BY <2>1, <2>2 DEF Control, CounterTypes, Prompt, upload, Preparing, Waiting
    <3>3. QED
      BY Zenon, <3>1, <3>2 DEF Control
  <2>3. CASE ~yes
    <3>1. sent \subseteq targets /\ pc \in Preparing /\ codes' \in [Dimms -> Statuses]
      BY Zenon, <2>1 DEF Prompt, Control, SetTypes, StatusTypes, Preparing
    <3>2. QED
      BY Zenon, <2>1, <2>3, <3>1, NextDimmControl DEF Prompt, options
  <2>4. QED
    BY Zenon, <2>2, <2>3
<1>6. CASE LargeBusy(d)
  <2>1. CASE tries + 1 < MaxTries
    <3>1. SetTypes' /\ StatusTypes'
      BY Zenon, <1>6, <2>1 DEF Control, SetTypes, StatusTypes, LargeBusy, options, staging, outcome,
         Pcs, Preparing
    <3>2. CounterTypes'
      BY <1>6, <2>1, FwConstants DEF Control, CounterTypes, LargeBusy, staging, Preparing, Waiting
    <3>3. QED
      BY Zenon, <3>1, <3>2 DEF Control
  <2>2. CASE ~(tries + 1 < MaxTries)
    BY Zenon, <1>6, <2>2, FailedControl DEF LargeBusy, options, Preparing
  <2>3. QED
    BY Zenon, <2>1, <2>2
<1>7. CASE LargeRefused(d) \/ GetARSFails(d)
  BY Zenon, <1>7, FailedControl DEF LargeRefused, GetARSFails, options, Preparing
<1>8. CASE GetARS(d)
  <2>1. SetTypes' /\ StatusTypes'
    BY Zenon, <1>8 DEF Control, SetTypes, StatusTypes, GetARS, options, upload, staging, outcome, Pcs,
       Preparing, Waiting
  <2>2. CounterTypes'
    BY <1>8, FwConstants DEF Control, CounterTypes, GetARS, upload, staging, Preparing, Waiting
  <2>3. QED
    BY Zenon, <2>1, <2>2 DEF Control
<1>9. CASE PollOnArsDeviceBusy(d)
  <2>1. SetTypes' /\ StatusTypes'
    BY Zenon, <1>9 DEF Control, SetTypes, StatusTypes, PollOnArsDeviceBusy, options, upload, staging, outcome, Pcs,
       Preparing, Waiting
  <2>2. CounterTypes'
    BY <1>9, FwConstants DEF Control, CounterTypes, PollOnArsDeviceBusy, upload, staging, Preparing, Waiting
  <2>3. QED
    BY Zenon, <2>1, <2>2 DEF Control
<1>10. CASE PacketRefused(d)
  <2>1. UploadStatus(d) \in {"busy", "already"}
    BY Zenon, <1>10 DEF PacketRefused, UploadStatus
  <2>2. QED
    BY Zenon, <1>10, <2>1, FailedControl DEF PacketRefused, options, Preparing
<1>11. CASE CheckForLongOpStatusInProgress(d)
  <2>1. nvm \in Statuses
    BY Zenon DEF Control, StatusTypes, Statuses
  <2>2. QED
    BY Zenon, <1>11, <2>1, ReturnedControl DEF CheckForLongOpStatusInProgress, options, Preparing, Statuses
<1>12. CASE StageDone(d)
  <2>1. SetTypes' /\ StatusTypes'
    BY Zenon, <1>12 DEF Control, SetTypes, StatusTypes, StageDone, Statuses, options, upload, staging, outcome, Pcs,
       Preparing, Waiting
  <2>2. CounterTypes'
    BY <1>12, FwConstants DEF Control, CounterTypes, StageDone, Statuses, upload, staging, Preparing, Waiting
  <2>3. QED
    BY Zenon, <2>1, <2>2 DEF Control
<1>13. CASE StagePending(d)
  <2>1. SetTypes' /\ StatusTypes'
    BY Zenon, <1>13 DEF Control, SetTypes, StatusTypes, StagePending, options, upload, staging, outcome, Pcs,
       Preparing, Waiting
  <2>2. CounterTypes'
    BY <1>13, FwConstants DEF Control, CounterTypes, StagePending, upload, staging, Preparing, Waiting
  <2>3. QED
    BY Zenon, <2>1, <2>2 DEF Control
<1>14. CASE GetLongOpStatus(d)
  <2>1. SetTypes' /\ StatusTypes'
    BY Zenon, <1>14 DEF Control, SetTypes, StatusTypes, GetLongOpStatus, Statuses, options, upload, staging, outcome, Pcs,
       Preparing, Waiting
  <2>2. CounterTypes'
    BY <1>14, FwConstants DEF Control, CounterTypes, GetLongOpStatus, Statuses, upload, staging, Preparing, Waiting
  <2>3. QED
    BY Zenon, <2>1, <2>2 DEF Control
<1>15. CASE GetLongOpStatusFails(d)
  <2>1. SetTypes' /\ StatusTypes'
    BY Zenon, <1>15 DEF Control, SetTypes, StatusTypes, GetLongOpStatusFails, options, upload, staging, outcome, Pcs,
       Preparing, Waiting
  <2>2. CounterTypes'
    BY <1>15, FwConstants DEF Control, CounterTypes, GetLongOpStatusFails, upload, staging, Preparing, Waiting
  <2>3. QED
    BY Zenon, <2>1, <2>2 DEF Control
<1>16. CASE Report(d)
  <2>1. SetTypes' /\ StatusTypes'
    BY Zenon, <1>16 DEF Control, SetTypes, StatusTypes, Report, MatchCliReturnCode, options, upload, staging, outcome, Pcs,
       Preparing, Waiting
  <2>2. CounterTypes'
    BY <1>16, FwConstants DEF Control, CounterTypes, Report, MatchCliReturnCode, upload, staging, Preparing, Waiting
  <2>3. QED
    BY Zenon, <2>1, <2>2 DEF Control
<1>17. QED
  BY Zenon, <1>1, <1>2, <1>3, <1>4, <1>5, <1>6, <1>7, <1>8, <1>9, <1>10, <1>11, <1>12, <1>13, <1>14,
     <1>15, <1>16 DEF Quiet

LEMMA SendsControl ==
  ASSUME Types, NEW d \in Dimms, Sends(d)
  PROVE  Control'
<1> USE DEF Types
<1>1. CASE SendLarge(d)
  BY Zenon, <1>1, ReturnedControl DEF SendLarge, options, Preparing, Statuses
<1>2. CASE LargeFails(d) \/ PacketFails(d)
  BY Zenon, <1>2, FailedControl DEF LargeFails, PacketFails, options, Preparing
<1>3. CASE SendPacket(d)
  <2>1. CASE packet = LastPacket
    BY Zenon, <1>3, <2>1, ReturnedControl DEF SendPacket, options, Preparing, Statuses
  <2>2. CASE packet # LastPacket
    <3>1. SetTypes' /\ StatusTypes'
      BY Zenon, <1>3, <2>2 DEF Control, SetTypes, StatusTypes, SendPacket, options, staging, outcome
    <3>2. CounterTypes'
      BY <1>3, <2>2, FwConstants DEF Control, CounterTypes, SendPacket, LastPacket, staging
    <3>3. QED
      BY Zenon, <3>1, <3>2 DEF Control
  <2>3. QED
    BY Zenon, <2>1, <2>2
<1>4. QED
  BY Zenon, <1>1, <1>2, <1>3 DEF Sends

\* The last packet makes the image complete only if all others are there.
LEMMA SendsDimmTypes ==
  ASSUME Types, NEW d \in Dimms, Sends(d)
  PROVE  DimmTypes'
<1>1. Staging \in LongOps /\ packet \in Image /\ 0 \in Image
  BY FwConstants DEF Staging, LongOps, Image, Types, Control, CounterTypes
<1>2. longop' \in [Dimms -> LongOps] /\ UNCHANGED <<staged, version>>
  BY Zenon, <1>1, SendsDimms DEF Types, DimmTypes
<1>3. got[d] \subseteq Image
  BY Zenon DEF Types, DimmTypes
<1>4. PICK S \in SUBSET Image : got' = [got EXCEPT ![d] = S]
  <2>1. got = [got EXCEPT ![d] = got[d]]
    BY Zenon DEF Types, DimmTypes
  <2>2. /\ (IF packet = 0 THEN {0} ELSE got[d] \cup {packet}) \in SUBSET Image
        /\ got[d] \cup Image \in SUBSET Image /\ got[d] \cup {packet} \in SUBSET Image
        /\ got[d] \in SUBSET Image
    BY Zenon, <1>1, <1>3
  <2>3. QED
    BY Zenon, <2>1, <2>2, SendsDimms
<1>5. got' \in [Dimms -> SUBSET Image]
  BY Zenon, <1>4 DEF Types, DimmTypes
<1>6. QED
  BY Zenon, <1>2, <1>5 DEF Types, DimmTypes

LEMMA StagesTypes ==
  ASSUME Types, NEW d \in Dimms, Stages(d) \/ StageFails(d) \/ ScrubEnds(d)
  PROVE  Types'
<1>1. UNCHANGED <<version, pc, options, left, asked, upload, staging, outcome, history, bounds>>
  BY Zenon DEF Stages, StageFails, ScrubEnds
<1>2. RequestTypes' /\ BoundTypes' /\ Control'
  BY ZenonT(60), <1>1 DEF Types, RequestTypes, BoundTypes, Control, SetTypes, StatusTypes, CounterTypes, options,
     upload, staging, outcome, history, bounds
<1>3. longop' \in [Dimms -> LongOps]
  BY DEF Types, DimmTypes, LongOps, Stages, StageFails, ScrubEnds
<1>4. got' \in [Dimms -> SUBSET Image] /\ staged' \in [Dimms -> SUBSET Image]
  BY Zenon DEF Types, DimmTypes, Stages, StageFails, ScrubEnds
<1>5. QED
  BY Zenon, <1>1, <1>2, <1>3, <1>4 DEF Types, DimmTypes

LEMMA StageRoundTypes == ASSUME Types, StageRound PROVE Types'
<1> USE DEF Types
<1>1. DimmTypes' /\ RequestTypes' /\ BoundTypes'
  BY Zenon DEF StageRound, dimmVars, options, history, bounds, DimmTypes, RequestTypes, BoundTypes
<1>2. codes' \in [Dimms -> Statuses]
  BY Zenon DEF StageRound, Control, StatusTypes, Statuses
<1>3. SetTypes' /\ StatusTypes'
  BY Zenon, <1>2 DEF StageRound, Control, SetTypes, StatusTypes, options, upload, Pcs, Waiting
<1>4. CounterTypes'
  <2>1. /\ checks' = checks + 1 /\ UNCHANGED <<tries, polls, packet>>
        /\ (pc = "stage" /\ checks' < MaxChecks) \/ pc' \in {"idle", "report"}
        /\ pc' \in {"stage", "idle", "report"}
    BY DEF StageRound, upload
  <2>2. QED
    BY <2>1, FwConstants DEF StageRound, Control, CounterTypes, Preparing, Waiting
<1>5. QED
  BY Zenon, <1>1, <1>3, <1>4 DEF Control

LEMMA IdleTypes == Idle \in LongOps /\ Scrubbing \in LongOps
  BY DEF Idle, Scrubbing, LongOps

LEMMA PowerCycleTypes == ASSUME Types, PowerCycle PROVE Types'
<1> USE DEF Types
<1>1. DimmTypes'
  BY ZenonT(60), IdleTypes, FwConstants DEF PowerCycle, DimmTypes
<1>2. RequestTypes' /\ SetTypes' /\ StatusTypes'
  BY Zenon DEF PowerCycle, RequestTypes, Control, SetTypes, StatusTypes, Statuses, options, Pcs
<1>3. BoundTypes' /\ CounterTypes'
  BY FwConstants DEF PowerCycle, BoundTypes, Control, CounterTypes, Preparing, Waiting
<1>4. QED
  BY Zenon, <1>1, <1>2, <1>3 DEF Control

LEMMA LoadTypes ==
  ASSUME Types, NEW R \in Recoveries, NEW f \in BOOLEAN, NEW D \in SUBSET Dimms, Load(R, f, D)
  PROVE  Types'
<1> USE DEF Types
<1>1. DimmTypes'
  BY Zenon DEF Load, dimmVars, DimmTypes
<1>2. RequestTypes' /\ SetTypes' /\ StatusTypes'
  BY Zenon, FwConstants DEF Load, RequestTypes, Control, SetTypes, StatusTypes, Statuses, Pcs, Preparing
<1>3. BoundTypes' /\ CounterTypes'
  BY FwConstants DEF Load, BoundTypes, Control, CounterTypes, Preparing, Waiting
<1>4. QED
  BY Zenon, <1>1, <1>2, <1>3 DEF Control

LEMMA TypesInit == FwInit => Types
<1>1. SUFFICES ASSUME FwInit PROVE Types
  OBVIOUS
<1>2. DimmTypes
  BY Zenon, <1>1, IdleTypes DEF FwInit, DimmTypes
<1>3. RequestTypes /\ SetTypes /\ StatusTypes
  BY Zenon, <1>1 DEF FwInit, RequestTypes, SetTypes, StatusTypes, Statuses, Pcs
<1>4. BoundTypes /\ CounterTypes
  BY <1>1, FwConstants DEF FwInit, BoundTypes, CounterTypes, Preparing, Waiting
<1>5. QED
  BY Zenon, <1>2, <1>3, <1>4 DEF Types, Control

LEMMA TypesNext == ASSUME Types, [FwNext]_fwVars PROVE Types'
<1>1. CASE UNCHANGED fwVars
  BY ZenonT(60), <1>1 DEF fwVars, Types, DimmTypes, RequestTypes, BoundTypes, Control, SetTypes, StatusTypes,
     CounterTypes
<1>2. ASSUME NEW d \in Dimms, Quiet(d) \/ Sends(d) PROVE Types'
  <2>1. DimmTypes'
    BY Zenon, <1>2, QuietDimms, SendsDimmTypes DEF Types, DimmTypes, dimmVars
  <2>2. RequestTypes' /\ BoundTypes'
    BY Zenon, <1>2, QuietFrame, FaultTypes DEF Types, RequestTypes, BoundTypes, options
  <2>3. QED
    BY Zenon, <1>2, <2>1, <2>2, QuietControl, SendsControl DEF Types
<1>3. QED
  BY Zenon, <1>1, <1>2, NextCases, StagesTypes, StageRoundTypes, PowerCycleTypes, LoadTypes DEF Rest

\* The bounds of the loops of UpdateDimmFw, PollOnArsDeviceBusy and
\* BlockForFwStage hold whatever the DIMMs answer and when.
THEOREM TypeCorrect == FwSpec => []FwTypeOK
<1>1. Types => FwTypeOK
  BY Zenon DEF Types, DimmTypes, RequestTypes, BoundTypes, Control, SetTypes, StatusTypes, CounterTypes,
     FwTypeOK, Pcs, Preparing, Waiting, Statuses
<1>2. QED
  BY <1>1, TypesInit, TypesNext, PTL DEF FwSpec

-----------------------------------------------------------------------------
(* What the DIMMs hold                                                     *)

Uploading == {"large", "ars", "poll", "packet"}

\* The image may be loaded into DIMM d.
Fits(d) == version[d] # {} => d \in agreed /\ version[d] \cap Unfit = {}

\* A DIMM stages only what it has received completely, and only an image that fits.
Held ==
  \A d \in Dimms :
    /\ staged[d] \in {{}, Image}
    /\ longop[d] = Staging => got[d] = Image
    /\ staged[d] # {} \/ longop[d] = Staging => Fits(d)

\* The packets arrive in order, and nothing else is going on at the DIMM.
InOrder ==
  /\ pc \in {"check", "verify", "prompt"} => packet = 0
  /\ \A d \in Dimms : First(d) /\ pc = "packet" /\ packet > 0 =>
       ~Busy(d) /\ got[d] = 0..(packet - 1)

\* The user has agreed whenever the force option of UpdateFw is set.
Agreement ==
  /\ \A d \in Dimms : First(d) /\ pc \in Uploading => Fits(d)
  /\ \A d \in Dimms : First(d) /\ asked => d \in agreed
  /\ asked => pc \in Preparing
  /\ force /\ pc # "idle" => targets \subseteq agreed

Transfer == Held /\ InOrder /\ Agreement

\* How the command moves on: the answer to the prompt is valid for one DIMM, and
\* an upload begins with a successful comparison and the first packet.
Moves(d) ==
  /\ pc # "idle" /\ agreed \subseteq agreed'
  /\ asked' => left' = left /\ pc' \in Preparing /\ (asked \/ d \in agreed')
  /\ pc' \in Uploading => left' = left /\ (pc \in Uploading \/ ValidateImageVersion(d) = "success")
  /\ pc' \in {"check", "verify", "prompt", "packet"} =>
       \/ packet' = 0
       \/ pc = "packet" /\ pc' = "packet" /\ packet' = packet + 1 /\ left' = left

LEMMA ReturnedMoves ==
  ASSUME NEW d, NEW g, Returned(d, g), g = "force" => packet = 0
  PROVE  /\ asked' => left' = left /\ pc' = "prompt" /\ asked
         /\ pc' \notin Uploading
         /\ pc' \in {"check", "verify", "prompt", "packet"} => packet' = 0
  BY Zenon DEF Returned, NextDimm, AfterDimm, Uploading, upload

LEMMA FailedMoves ==
  ASSUME NEW s, Failed(s)
  PROVE  /\ asked' => left' = left /\ pc' = "longop" /\ asked
         /\ pc' \notin Uploading
         /\ pc' \in {"check", "verify", "prompt", "packet"} => packet' = 0
  BY Zenon DEF Failed, Uploading

LEMMA CommandMoves ==
  ASSUME Types, InOrder, Agreement, NEW d \in Dimms, Quiet(d) \/ Sends(d)
  PROVE  Moves(d) /\ First(d)
<1> USE DEF Moves, Preparing, history
<1>1. CASE AlreadyStaged(d)
  BY Zenon, <1>1 DEF AlreadyStaged, NextDimm, AfterDimm, Uploading
<1>2. CASE NotStaged(d)
  BY Zenon, <1>2 DEF NotStaged, Uploading, upload, InOrder
<1>3. CASE Verify(d)
  <2>1. packet = 0 /\ pc = "verify" /\ UNCHANGED history
    BY Zenon, <1>3 DEF Verify, InOrder
  <2>2. CASE ValidateImageVersion(d) = "success"
    BY Zenon, <1>3, <2>1, <2>2 DEF Verify, Uploading, upload
  <2>3. CASE ValidateImageVersion(d) # "success"
    BY Zenon, <1>3, <2>1, <2>3, ReturnedMoves DEF Verify
  <2>4. QED
    BY Zenon, <2>2, <2>3
<1>4. CASE Refused(d) \/ BsrFails(d)
  BY Zenon, <1>4, ReturnedMoves DEF Refused, BsrFails
<1>5. CASE \E yes \in BOOLEAN : Prompt(d, yes)
  BY Zenon, <1>5 DEF Prompt, NextDimm, AfterDimm, Uploading, upload, InOrder
<1>6. CASE LargeBusy(d)
  BY Zenon, <1>6, FailedMoves DEF LargeBusy, Uploading
<1>7. CASE LargeRefused(d) \/ GetARSFails(d) \/ PacketRefused(d)
  BY Zenon, <1>7, FailedMoves DEF LargeRefused, GetARSFails, PacketRefused
<1>8. CASE GetARS(d) \/ PollOnArsDeviceBusy(d)
  <2>1. pc \in {"ars", "poll"} /\ pc' \in {"large", "poll"} /\ UNCHANGED <<left, asked, took, agreed>> /\ First(d)
    BY Zenon, <1>8 DEF GetARS, PollOnArsDeviceBusy
  <2>2. QED
    BY Zenon, <2>1 DEF Uploading
<1>9. CASE CheckForLongOpStatusInProgress(d)
  <2>1. nvm # "force" /\ "progress" # "force"
    BY Zenon DEF Types, Control, StatusTypes
  <2>2. QED
    BY Zenon, <1>9, <2>1, ReturnedMoves DEF CheckForLongOpStatusInProgress
<1>10. CASE StageDone(d) \/ StagePending(d) \/ GetLongOpStatus(d) \/ GetLongOpStatusFails(d) \/ Report(d)
  <2>1. /\ pc \in {"stage", "stageop", "report"} /\ pc' \in {"stage", "stageop", "report", "idle"}
        /\ UNCHANGED <<asked, took, agreed>> /\ First(d)
    BY Zenon, <1>10 DEF StageDone, StagePending, GetLongOpStatus, GetLongOpStatusFails, Report
  <2>2. ~asked'
    BY Zenon, <2>1 DEF Agreement
  <2>3. QED
    BY Zenon, <2>1, <2>2 DEF Uploading
<1>11. CASE SendLarge(d)
  BY Zenon, <1>11, ReturnedMoves DEF SendLarge
<1>12. CASE LargeFails(d) \/ PacketFails(d)
  BY Zenon, <1>12, FailedMoves DEF LargeFails, PacketFails
<1>13. CASE SendPacket(d)
  BY Zenon, <1>13, ReturnedMoves DEF SendPacket, Uploading
<1>14. QED
  BY Zenon, <1>1, <1>2, <1>3, <1>4, <1>5, <1>6, <1>7, <1>8, <1>9, <1>10, <1>11, <1>12, <1>13 DEF Quiet, Sends

LEMMA OneMore ==
  /\ {0} = 0..0
  /\ \A n \in Nat : (0..(n - 1)) \cup {n} = 0..n
  OBVIOUS

\* ValidateImageVersion lets only images pass that fit.
LEMMA VersionFits ==
  ASSUME Types, Agreement, NEW d \in Dimms, First(d), pc # "idle", ValidateImageVersion(d) = "success"
  PROVE  Fits(d)
<1>1. version[d] \subseteq Comparisons /\ ("oie" \in version[d] => "security" \in version[d])
  BY Zenon, FwConstants DEF Types, DimmTypes
<1>2. /\ "product" \notin version[d] /\ "api" \notin version[d]
      /\ "revision" \in version[d] => Forced
      /\ ~({"security", "oie"} \subseteq version[d])
      /\ version[d] \cap {"security", "build"} # {} => Forced
  BY Zenon DEF ValidateImageVersion
<1>3. "oie" \notin version[d]
  BY Zenon, <1>1, <1>2
<1>4. version[d] \cap Unfit = {}
  BY Zenon, <1>2, <1>3 DEF Unfit
<1>5. ASSUME version[d] # {} PROVE Forced
  <2>1. PICK c \in version[d] : c \in {"revision", "security", "build"}
    BY Zenon, <1>1, <1>2, <1>3, <1>5 DEF Comparisons
  <2>2. QED
    BY Zenon, <1>2, <2>1
<1>6. Forced => d \in agreed
  BY Zenon DEF Forced, Agreement, First, Types, Control, SetTypes
<1>7. QED
  BY Zenon, <1>4, <1>5, <1>6 DEF Fits

LEMMA HeldKept ==
  ASSUME Held, UNCHANGED dimmVars, agreed \subseteq agreed'
  PROVE  Held'
  BY Zenon DEF Held, Fits, dimmVars

LEMMA AgreementKept ==
  ASSUME Types, Agreement, NEW d \in Dimms, First(d), Moves(d), UNCHANGED <<version, options>>
  PROVE  Agreement'
<1>1. ASSUME NEW e \in Dimms, First(e)', pc' \in Uploading PROVE Fits(e)'
  <2>1. First(e) /\ (pc \in Uploading \/ ValidateImageVersion(d) = "success")
    BY Zenon, <1>1 DEF Moves, First
  <2>2. e \in left /\ d \in left /\ e <= d /\ d <= e
    BY Zenon, <2>1 DEF First
  <2>3. e = d
    BY <2>2, FwConstants DEF Dimms
  <2>4. Fits(e)
    BY Zenon, <2>1, <2>3, VersionFits DEF Agreement, Moves
  <2>5. QED
    BY Zenon, <2>4 DEF Fits, Moves
<1>2. ASSUME NEW e \in Dimms, First(e)', asked' PROVE e \in agreed'
  <2>1. First(e) /\ (asked \/ d \in agreed')
    BY Zenon, <1>2 DEF Moves, First
  <2>2. e \in left /\ d \in left /\ e <= d /\ d <= e
    BY Zenon, <2>1 DEF First
  <2>3. e = d
    BY <2>2, FwConstants DEF Dimms
  <2>4. QED
    BY Zenon, <2>1, <2>3 DEF Agreement, Moves
<1>3. QED
  BY Zenon, <1>1, <1>2 DEF Agreement, Moves, options

LEMMA QuietTransfer == ASSUME Types, Transfer, NEW d \in Dimms, Quiet(d) PROVE Transfer'
<1>1. UNCHANGED dimmVars /\ UNCHANGED options /\ Moves(d) /\ First(d)
  BY Zenon, QuietDimms, QuietFrame, CommandMoves DEF Transfer
<1>2. Held' /\ Agreement'
  BY Zenon, <1>1, HeldKept, AgreementKept DEF Transfer, Moves, dimmVars
<1>3. pc' \in {"check", "verify", "prompt", "packet"} => packet' = 0
  <2>1. Quiet(d) => pc # "packet" \/ PacketRefused(d)
    BY Zenon DEF Quiet, AlreadyStaged, NotStaged, Verify, Refused, BsrFails, Prompt, LargeBusy, LargeRefused,
       GetARS, GetARSFails, PollOnArsDeviceBusy, CheckForLongOpStatusInProgress, StageDone, StagePending,
       GetLongOpStatus, GetLongOpStatusFails, Report
  <2>2. PacketRefused(d) => pc' = "longop"
    BY Zenon DEF PacketRefused, Failed
  <2>3. QED
    BY Zenon, <1>1, <2>1, <2>2 DEF Moves
<1>4. InOrder'
  BY <1>3 DEF InOrder
<1>5. QED
  BY Zenon, <1>2, <1>4 DEF Transfer

LEMMA SendsTransfer == ASSUME Types, Transfer, NEW d \in Dimms, Sends(d) PROVE Transfer'
<1>1. UNCHANGED <<staged, version>> /\ UNCHANGED options /\ Moves(d) /\ First(d)
  BY Zenon, SendsDimms, QuietFrame, CommandMoves DEF Transfer
<1>2. Agreement'
  BY Zenon, <1>1, AgreementKept DEF Transfer
<1>3. \A e \in Dimms : e # d => longop'[e] = longop[e] /\ got'[e] = got[e]
  BY Zenon, SendsDimms DEF Types, DimmTypes
<1>4. pc \in Uploading /\ Fits(d)
  <2>1. pc \in Uploading
    BY Zenon DEF Sends, SendLarge, LargeFails, SendPacket, PacketFails, Uploading
  <2>2. QED
    BY Zenon, <1>1, <2>1 DEF Transfer, Agreement
<1>5. longop'[d] = Staging => got'[d] = Image
  <2>1. CASE UNCHANGED <<longop, got>>
    BY Zenon, <2>1 DEF Transfer, Held
  <2>2. CASE longop' = longop /\ ~Busy(d)
    BY <2>2 DEF Busy, Staging
  <2>3. CASE got' = [got EXCEPT ![d] = @ \cup Image]
    BY Zenon, <2>3 DEF Types, DimmTypes
  <2>4. CASE pc = "packet" /\ packet = Packets - 1 /\ got' = [got EXCEPT ![d] = @ \cup {packet}]
    <3>1. packet > 0
      BY <2>4, FwConstants
    <3>2. got[d] = 0..(packet - 1)
      BY Zenon, <1>1, <2>4, <3>1 DEF Transfer, InOrder
    <3>3. got'[d] = got[d] \cup {packet}
      BY Zenon, <2>4 DEF Types, DimmTypes
    <3>4. QED
      <4>1. packet \in Nat
        BY FwConstants DEF Types, Control, CounterTypes
      <4>2. QED
        BY Zenon, <2>4, <3>2, <3>3, <4>1, OneMore DEF Image
  <2>5. QED
    BY Zenon, <2>1, <2>2, <2>3, <2>4, SendsDimms
<1>6. Held'
  <2>1. Fits(d)' /\ \A e \in Dimms : Fits(e) => Fits(e)'
    BY Zenon, <1>1, <1>4 DEF Fits, Moves
  <2>2. QED
    BY Zenon, <1>1, <1>3, <1>5, <2>1 DEF Transfer, Held
<1>7. InOrder'
  <2>1. CASE packet' = 0 \/ pc' \notin {"check", "verify", "prompt", "packet"}
    BY <2>1 DEF InOrder
  <2>2. CASE pc = "packet" /\ pc' = "packet" /\ packet' = packet + 1 /\ left' = left
    <3>1. /\ ~Busy(d) /\ longop' = longop /\ packet \in Nat
          /\ got'[d] = IF packet = 0 THEN {0} ELSE got[d] \cup {packet}
      <4>1. SendPacket(d) /\ packet # LastPacket
        BY Zenon, <2>2 DEF Sends, SendLarge, LargeFails, SendPacket, PacketFails, Failed, Returned, NextDimm,
           AfterDimm
      <4>2. packet \in Nat
        BY FwConstants DEF Types, Control, CounterTypes
      <4>3. QED
        BY Zenon, <4>1, <4>2 DEF SendPacket, Receive, UploadStatus, Types, DimmTypes
    <3>2. packet > 0 => got[d] = 0..(packet - 1)
      BY Zenon, <1>1, <2>2 DEF Transfer, InOrder
    <3>3. got'[d] = 0..(packet' - 1)
      <4>1. packet' - 1 = packet
        BY <2>2, <3>1
      <4>2. packet # 0 => packet > 0
        BY <3>1
      <4>3. QED
        BY Zenon, <3>1, <3>2, <4>1, <4>2, OneMore
    <3>4. ASSUME NEW e \in Dimms, First(e)' PROVE e = d
      <4>1. e \in left /\ d \in left /\ e <= d /\ d <= e
        BY Zenon, <1>1, <2>2, <3>4 DEF First
      <4>2. QED
        BY <4>1, FwConstants DEF Dimms
    <3>5. ~Busy(d)'
      BY Zenon, <3>1 DEF Busy
    <3>6. QED
      BY Zenon, <2>2, <3>3, <3>4, <3>5 DEF InOrder
  <2>3. QED
    BY Zenon, <1>1, <2>1, <2>2 DEF Moves
<1>8. QED
  BY Zenon, <1>2, <1>6, <1>7 DEF Transfer

LEMMA StagesTransfer ==
  ASSUME Types, Transfer, NEW d \in Dimms, Stages(d) \/ StageFails(d) \/ ScrubEnds(d)
  PROVE  Transfer'
<1>1. UNCHANGED <<version, pc, options, left, asked, agreed, packet>>
  BY Zenon DEF Stages, StageFails, ScrubEnds, upload, history
<1>2. /\ \A e \in Dimms : e # d => longop'[e] = longop[e] /\ got'[e] = got[e] /\ staged'[e] = staged[e]
      /\ Busy(d)
  <2>1. CASE Stages(d)
    BY <2>1 DEF Stages, Types, DimmTypes, Busy, Staging
  <2>2. CASE StageFails(d)
    BY <2>2 DEF StageFails, Types, DimmTypes, Busy, Staging
  <2>3. CASE ScrubEnds(d)
    BY <2>3 DEF ScrubEnds, Types, DimmTypes, Busy, Scrubbing
  <2>4. QED
    BY Zenon, <2>1, <2>2, <2>3
<1>3. Agreement'
  BY Zenon, <1>1 DEF Transfer, Agreement, Fits, First, options
<1>4. longop'[d] # Staging
  <2>1. longop'[d].status # "busy"
    BY DEF Stages, StageFails, ScrubEnds, Types, DimmTypes, LongOps
  <2>2. QED
    BY <2>1 DEF Staging
<1>5. staged'[d] \in {{}, Image} /\ (staged'[d] # {} => Fits(d))
  BY Zenon DEF Stages, StageFails, ScrubEnds, Types, DimmTypes, Transfer, Held
<1>6. Held'
  BY Zenon, <1>1, <1>2, <1>4, <1>5 DEF Transfer, Held, Fits
<1>7. ASSUME NEW e \in Dimms, First(e)', pc' = "packet", packet' > 0
      PROVE  ~Busy(e)' /\ got'[e] = 0..(packet' - 1)
  <2>1. First(e) /\ pc = "packet" /\ packet > 0
    BY Zenon, <1>1, <1>7 DEF First
  <2>2. ~Busy(e) /\ got[e] = 0..(packet - 1)
    BY Zenon, <2>1 DEF Transfer, InOrder
  <2>3. QED
    BY Zenon, <1>1, <1>2, <2>2 DEF Busy
<1>8. InOrder'
  BY Zenon, <1>1, <1>7 DEF Transfer, InOrder
<1>9. QED
  BY Zenon, <1>3, <1>6, <1>8 DEF Transfer

LEMMA StageRoundTransfer == ASSUME Types, Transfer, StageRound PROVE Transfer'
<1>1. /\ UNCHANGED dimmVars /\ UNCHANGED <<options, asked, agreed>>
      /\ pc = "stage" /\ pc' \in {"stage", "report", "idle"}
  BY Zenon DEF StageRound, history
<1>2. ~asked'
  BY Zenon, <1>1 DEF Transfer, Agreement, Preparing
<1>3. QED
  BY Zenon, <1>1, <1>2, HeldKept DEF Transfer, InOrder, Agreement, Uploading, options

LEMMA NotStaging == Idle # Staging /\ Scrubbing # Staging
  BY DEF Idle, Scrubbing, Staging

LEMMA PowerCycleTransfer == ASSUME Types, Transfer, PowerCycle PROVE Transfer'
<1>1. Held'
  BY Zenon, NotStaging DEF PowerCycle, Held
<1>2. QED
  BY Zenon, <1>1 DEF PowerCycle, Transfer, InOrder, Agreement, Uploading

LEMMA LoadTransfer ==
  ASSUME Types, Transfer, NEW R, NEW f \in BOOLEAN, NEW D, Load(R, f, D)
  PROVE  Transfer'
<1>1. Held'
  BY Zenon, HeldKept DEF Load, Transfer
<1>2. pc' \in {"verify", "check"} /\ packet' = 0 /\ ~asked' /\ (force' => targets' \subseteq agreed')
  BY Zenon DEF Load
<1>3. QED
  BY Zenon, <1>1, <1>2 DEF Transfer, InOrder, Agreement, Uploading

LEMMA TransferInit == FwInit => Transfer
<1>1. SUFFICES ASSUME FwInit PROVE Transfer
  OBVIOUS
<1>2. Held
  BY Zenon, <1>1, NotStaging DEF FwInit, Held, Fits
<1>3. QED
  BY Zenon, <1>1, <1>2 DEF FwInit, Transfer, InOrder, Agreement, Uploading

LEMMA TransferNext == ASSUME Types, Transfer, [FwNext]_fwVars PROVE Transfer'
<1>1. CASE UNCHANGED fwVars
  BY Zenon, <1>1 DEF fwVars, Transfer, Held, InOrder, Agreement, Fits, First, Busy
<1>2. QED
  BY Zenon, <1>1, NextCases, QuietTransfer, SendsTransfer, StagesTransfer, StageRoundTransfer,
     PowerCycleTransfer, LoadTransfer DEF Rest

\* No DIMM ever stages a part of an image, whatever packets, answers and
\* transfers were lost before.
THEOREM ImagesWhole == FwSpec => []StagedWhole
<1>1. Types /\ Transfer => StagedWhole
  BY Zenon DEF Transfer, Held, StagedWhole
<1>2. QED
  BY <1>1, TypesInit, TypesNext, TransferInit, TransferNext, PTL DEF FwSpec

\* Nor one that is older than its firmware without consent, or does not fit.
THEOREM DowngradesAgreed == FwSpec => []DowngradeAgreed
<1>1. Types /\ Transfer => DowngradeAgreed
  BY Zenon DEF Transfer, Held, Fits, DowngradeAgreed
<1>2. QED
  BY <1>1, TypesInit, TypesNext, TransferInit, TransferNext, PTL DEF FwSpec

-----------------------------------------------------------------------------
(* What the command reports                                                *)

Outcome ==
  ~recovery =>
    /\ \A d \in Dimms : codes[d] \in {"reset", "already"} => staged[d] # {}
    /\ \A d \in Dimms : First(d) /\ pc = "longop" /\ nvm = "already" => staged[d] # {}
    /\ \A d \in Dimms : First(d) /\ (asked \/ pc = "prompt") => codes[d] # "success"
    /\ pc \in Preparing => \A d \in targets \ left : codes[d] = "success" => d \in sent
    /\ pc \in Waiting => \A d \in targets : codes[d] = "success" => d \in waiting
    /\ pc = "report" => \A d \in targets :
         /\ codes[d] # "success"
         /\ d \notin left /\ result # "aborted" => codes[d] \in {"reset", "already"}
    /\ ResultTruthful

LEMMA FirstUnique == ASSUME NEW d \in Dimms, NEW e \in Dimms, First(d), First(e) PROVE d = e
<1>1. d <= e /\ e <= d
  BY Zenon DEF First
<1>2. QED
  BY <1>1, FwConstants DEF Dimms

\* The DIMM has been dealt with: if it counts as a success it will be waited for.
LEMMA NextDimmOutcome ==
  ASSUME Types, Outcome, ~recovery, NEW d \in Dimms, First(d), pc \in Preparing, NEW ok, NextDimm(d, ok),
         UNCHANGED <<staged, recovery, targets>>, sent \subseteq ok,
         \A e \in Dimms : e # d => codes'[e] = codes[e],
         codes'[d] = "success" => d \in ok, codes'[d] \in {"reset", "already"} => staged[d] # {}
  PROVE  Outcome'
<1>1. pc' \in {"check", "stage", "report"} /\ ~asked' /\ d \in left /\ left \subseteq targets /\ targets \subseteq Dimms
  BY Zenon DEF NextDimm, AfterDimm, First, Types, Control, SetTypes, RequestTypes
<1>2. \A e \in Dimms : codes'[e] \in {"reset", "already"} => staged'[e] # {}
  BY Zenon DEF Outcome
<1>3. \A e \in targets \ (left \ {d}) : codes'[e] = "success" => e \in ok
  BY Zenon, <1>1 DEF Outcome
<1>4. CASE pc' = "check"
  BY Zenon, <1>1, <1>2, <1>3, <1>4 DEF NextDimm, AfterDimm, Outcome, ResultTruthful, Waiting
<1>5. CASE pc' = "stage"
  BY Zenon, <1>1, <1>2, <1>3, <1>5 DEF NextDimm, AfterDimm, Outcome, ResultTruthful, Preparing
<1>6. CASE pc' = "report"
  BY Zenon, <1>1, <1>2, <1>3, <1>6 DEF NextDimm, AfterDimm, Outcome, ResultTruthful, Preparing, Waiting
<1>7. QED
  BY Zenon, <1>1, <1>4, <1>5, <1>6

LEMMA ReturnedOutcome ==
  ASSUME Types, Outcome, ~recovery, NEW d \in Dimms, First(d), pc \in Preparing \ {"prompt"},
         NEW g \in Statuses \ {"reset"}, g = "already" => staged[d] # {}, Returned(d, g),
         UNCHANGED <<staged, recovery, targets>>
  PROVE  Outcome'
<1>1. /\ \A e \in Dimms : e # d => codes'[e] = codes[e]
      /\ codes'[d] = "success" => g = "success"
      /\ codes'[d] \in {"reset", "already"} => staged[d] # {}
  <2>1. CASE asked
    BY Zenon, <2>1 DEF Returned, Outcome
  <2>2. CASE ~asked
    BY Zenon, <2>2 DEF Returned, Types, Control, StatusTypes
  <2>3. QED
    BY Zenon, <2>1, <2>2
<1>2. CASE g = "force"
  <2>1. pc' = "prompt" /\ UNCHANGED <<sent, left, waiting, asked, result>>
    BY Zenon, <1>2 DEF Returned
  <2>2. \A e \in Dimms : First(e)' => e = d
    BY Zenon, <2>1, FirstUnique DEF First
  <2>3. d \in left /\ targets \subseteq Dimms
    BY Zenon DEF First, Types, RequestTypes
  <2>4. QED
    BY Zenon, <1>1, <1>2, <2>1, <2>2, <2>3 DEF Outcome, ResultTruthful, Preparing, Waiting
<1>3. CASE g # "force"
  <2>1. PICK ok : NextDimm(d, ok) /\ sent \subseteq ok /\ (g = "success" => d \in ok)
    <3>1. NextDimm(d, IF g = "success" THEN sent \cup {d} ELSE sent)
      BY Zenon, <1>3 DEF Returned
    <3>2. QED
      BY <3>1
  <2>2. QED
    BY Zenon, <1>1, <2>1, NextDimmOutcome
<1>4. QED
  BY Zenon, <1>2, <1>3

\* The command goes on with the same DIMM.
LEMMA SameDimmOutcome ==
  ASSUME Types, Outcome, ~recovery, NEW d \in Dimms, First(d), pc \in Preparing,
         pc' \in Preparing \ {"prompt"}, pc' = "longop" /\ nvm' = "already" => staged[d] # {},
         asked' => asked \/ pc = "prompt",
         UNCHANGED <<staged, recovery, targets, left, codes, sent, result>>
  PROVE  Outcome'
<1>1. \A e \in Dimms : First(e)' => e = d
  BY Zenon, FirstUnique DEF First
<1>2. QED
  BY Zenon, <1>1 DEF Outcome, ResultTruthful, Preparing, Waiting

LEMMA FailedOutcome ==
  ASSUME Types, Outcome, ~recovery, NEW d \in Dimms, First(d), pc \in Preparing, NEW s, Failed(s),
         s = "already" => staged[d] # {}, UNCHANGED <<staged, recovery, targets>>
  PROVE  Outcome'
<1>1. /\ pc' = "longop" /\ nvm' = s
      /\ UNCHANGED <<left, asked, codes, sent, result>>
  BY Zenon DEF Failed, outcome
<1>2. QED
  BY Zenon, <1>1, SameDimmOutcome DEF Preparing

LEMMA QuietOutcome ==
  ASSUME Types, InOrder, Agreement, Outcome, ~recovery, NEW d \in Dimms, Quiet(d)
  PROVE  Outcome'
<1>1. UNCHANGED <<staged, recovery, targets>>
  BY Zenon, QuietDimms, QuietFrame DEF dimmVars, options
<1>2. CASE AlreadyStaged(d)
  <2>1. codes'[d] = "already" /\ \A e \in Dimms : e # d => codes'[e] = codes[e]
    BY Zenon, <1>2 DEF AlreadyStaged, Types, Control, StatusTypes
  <2>2. QED
    BY Zenon, <1>1, <1>2, <2>1, NextDimmOutcome DEF AlreadyStaged, Preparing
<1>3. CASE NotStaged(d)
  BY Zenon, <1>1, <1>3, SameDimmOutcome DEF NotStaged, Preparing, outcome
<1>4. CASE Verify(d)
  <2>1. CASE ValidateImageVersion(d) = "success"
    <3>1. /\ pc = "verify" /\ First(d) /\ pc' \in {"large", "packet"}
          /\ UNCHANGED <<left, asked, codes, sent, result>>
      BY Zenon, <1>4, <2>1 DEF Verify, outcome
    <3>2. QED
      BY Zenon, <1>1, <3>1, SameDimmOutcome DEF Preparing
  <2>2. CASE ValidateImageVersion(d) # "success"
    <3>1. ValidateImageVersion(d) \in Statuses \ {"reset", "already"}
      BY Zenon, VersionStatus DEF Statuses
    <3>2. QED
      BY Zenon, <1>1, <1>4, <2>2, <3>1, ReturnedOutcome DEF Verify, Preparing
  <2>3. QED
    BY Zenon, <2>1, <2>2
<1>5. CASE Refused(d) \/ BsrFails(d)
  <2>1. PICK g \in {"failed", "success"} : Returned(d, g)
    BY Zenon, <1>5 DEF Refused, BsrFails
  <2>2. pc = "verify" /\ First(d)
    BY Zenon, <1>5 DEF Refused, BsrFails
  <2>3. QED
    BY Zenon, <1>1, <2>1, <2>2, ReturnedOutcome DEF Preparing, Statuses
<1>6. CASE \E yes \in BOOLEAN : Prompt(d, yes)
  <2>1. PICK yes \in BOOLEAN : Prompt(d, yes)
    BY Zenon, <1>6
  <2>2. CASE yes
    BY Zenon, <1>1, <2>1, <2>2, SameDimmOutcome DEF Prompt, Preparing
  <2>3. CASE ~yes
    <3>1. codes[d] # "success" /\ UNCHANGED codes /\ (codes[d] \in {"reset", "already"} => staged[d] # {})
      BY Zenon, <2>1 DEF Prompt, Outcome
    <3>2. QED
      BY Zenon, <1>1, <2>1, <2>3, <3>1, NextDimmOutcome DEF Prompt, Preparing
  <2>4. QED
    BY Zenon, <2>2, <2>3
<1>7. CASE LargeBusy(d)
  <2>1. CASE tries + 1 < MaxTries
    <3>1. pc = "large" /\ First(d) /\ pc' = "ars" /\ UNCHANGED <<left, asked, codes, sent, result>>
      BY Zenon, <1>7, <2>1 DEF LargeBusy, outcome
    <3>2. QED
      BY Zenon, <1>1, <3>1, SameDimmOutcome DEF Preparing
  <2>2. CASE ~(tries + 1 < MaxTries)
    BY Zenon, <1>1, <1>7, <2>2, FailedOutcome DEF LargeBusy, Preparing
  <2>3. QED
    BY Zenon, <2>1, <2>2
<1>8. CASE LargeRefused(d) \/ GetARSFails(d) \/ PacketRefused(d)
  <2>1. Failed("failed") \/ Failed(UploadStatus(d))
    BY <1>8 DEF LargeRefused, GetARSFails, PacketRefused
  <2>2. UploadStatus(d) = "already" => staged[d] # {}
    BY Zenon DEF UploadStatus
  <2>3. pc \in Preparing /\ First(d)
    BY Zenon, <1>8 DEF LargeRefused, GetARSFails, PacketRefused, Preparing
  <2>4. QED
    BY Zenon, <1>1, <2>1, <2>2, <2>3, FailedOutcome
<1>9. CASE GetARS(d) \/ PollOnArsDeviceBusy(d)
  <2>1. /\ pc \in Preparing /\ First(d) /\ pc' \in {"large", "poll"}
        /\ UNCHANGED <<left, asked, codes, sent, result>>
    BY Zenon, <1>9 DEF GetARS, PollOnArsDeviceBusy, Preparing, outcome
  <2>2. QED
    BY Zenon, <1>1, <2>1, SameDimmOutcome DEF Preparing
<1>10. CASE CheckForLongOpStatusInProgress(d)
  <2>1. nvm \in Statuses \ {"reset"} /\ (pc = "longop" /\ First(d) /\ nvm = "already" => staged[d] # {})
    BY Zenon DEF Types, Control, StatusTypes, Statuses, Outcome
  <2>2. PICK g \in {"progress", nvm} : Returned(d, g)
    BY Zenon, <1>10 DEF CheckForLongOpStatusInProgress
  <2>3. pc = "longop" /\ First(d)
    BY Zenon, <1>10 DEF CheckForLongOpStatusInProgress
  <2>4. g \in Statuses \ {"reset"} /\ (g = "already" => staged[d] # {})
    BY Zenon, <2>1, <2>2, <2>3 DEF Statuses
  <2>5. QED
    BY Zenon, <1>1, <2>2, <2>3, <2>4, ReturnedOutcome DEF Preparing
<1>11. CASE StageDone(d) \/ StagePending(d) \/ GetLongOpStatus(d) \/ GetLongOpStatusFails(d)
  <2>1. /\ pc \in Waiting /\ pc' \in Waiting /\ UNCHANGED <<asked, result>>
        /\ \/ UNCHANGED <<codes, waiting>>
           \/ /\ codes' = [codes EXCEPT ![d] = "reset"] /\ staged[d] # {}
              /\ waiting' = waiting \ {d}
           \/ codes' = [codes EXCEPT ![d] = "longop"] /\ waiting' = waiting \ {d}
    BY Zenon, <1>11 DEF StageDone, StagePending, GetLongOpStatus, GetLongOpStatusFails, Waiting, staging, outcome
  <2>2. ~asked
    BY Zenon, <2>1 DEF Agreement, Preparing, Waiting
  <2>3. codes \in [Dimms -> Statuses] /\ targets \subseteq Dimms
    BY Zenon DEF Types, Control, StatusTypes, RequestTypes
  <2>4. \A e \in Dimms : codes'[e] \in {"reset", "already"} => staged'[e] # {}
    BY Zenon, <1>1, <2>1, <2>3 DEF Outcome
  <2>5. \A e \in targets : codes'[e] = "success" => e \in waiting'
    BY Zenon, <2>1, <2>3 DEF Outcome
  <2>6. QED
    BY Zenon, <1>1, <2>1, <2>2, <2>4, <2>5 DEF Outcome, ResultTruthful, Preparing, Waiting
<1>12. CASE Report(d)
  <2>1. /\ pc = "report" /\ First(d) /\ left' = left \ {d} /\ UNCHANGED <<codes, asked>>
        /\ pc' = IF left = {d} THEN "idle" ELSE "report"
    BY Zenon, <1>12 DEF Report
  <2>2. ~asked
    BY Zenon, <2>1 DEF Agreement, Preparing
  <2>3. d \in targets /\ targets \subseteq Dimms
    BY Zenon, <2>1 DEF First, Types, Control, SetTypes, RequestTypes
  <2>4. result' # "aborted" => result # "aborted" /\ codes[d] \in {"success", "reset", "already"}
    BY Zenon, <1>12 DEF Report, MatchCliReturnCode, KeepsResult
  <2>5. \A e \in targets \ left' : result' # "aborted" => codes[e] \in {"reset", "already"}
    BY Zenon, <2>1, <2>3, <2>4 DEF Outcome
  <2>6. pc' = "idle" => left' = {}
    BY Zenon, <2>1
  <2>7. ResultTruthful'
    BY Zenon, <1>1, <2>1, <2>3, <2>5, <2>6 DEF Outcome, ResultTruthful
  <2>8. QED
    BY Zenon, <1>1, <2>1, <2>2, <2>5, <2>7 DEF Outcome, Preparing, Waiting
<1>13. QED
  BY Zenon, <1>2, <1>3, <1>4, <1>5, <1>6, <1>7, <1>8, <1>9, <1>10, <1>11, <1>12 DEF Quiet

LEMMA SendsOutcome ==
  ASSUME Types, Outcome, ~recovery, NEW d \in Dimms, Sends(d)
  PROVE  Outcome'
<1>1. UNCHANGED <<staged, recovery, targets>>
  BY Zenon, SendsDimms, QuietFrame DEF options
<1>2. pc \in {"large", "packet"} /\ First(d)
  BY Zenon DEF Sends, SendLarge, LargeFails, SendPacket, PacketFails
<1>3. CASE Returned(d, "success")
  BY Zenon, <1>1, <1>2, <1>3, ReturnedOutcome DEF Preparing, Statuses
<1>4. CASE Failed("failed")
  BY Zenon, <1>1, <1>2, <1>4, FailedOutcome DEF Preparing
<1>5. CASE UNCHANGED <<pc, left, asked, outcome>>
  BY Zenon, <1>1, <1>2, <1>5, SameDimmOutcome DEF Preparing, outcome
<1>6. QED
  BY Zenon, <1>3, <1>4, <1>5 DEF Sends, SendLarge, LargeFails, SendPacket, PacketFails

LEMMA StagesOutcome ==
  ASSUME Types, Transfer, Outcome, ~recovery, NEW d \in Dimms, Stages(d) \/ StageFails(d) \/ ScrubEnds(d)
  PROVE  Outcome'
<1>1. UNCHANGED <<pc, recovery, targets, left, asked, nvm, codes, sent, waiting, result>>
  BY Zenon DEF Stages, StageFails, ScrubEnds, options, upload, staging, outcome
<1>2. Image # {}
  BY FwConstants DEF Image
<1>3. \A e \in Dimms : staged[e] # {} => staged'[e] # {}
  BY Zenon, <1>2 DEF Stages, StageFails, ScrubEnds, Transfer, Held, Types, DimmTypes
<1>4. targets \subseteq Dimms
  BY Zenon DEF Types, RequestTypes
<1>5. QED
  BY Zenon, <1>1, <1>3, <1>4 DEF Outcome, ResultTruthful, First

LEMMA StageRoundOutcome == ASSUME Types, Transfer, Outcome, ~recovery, StageRound PROVE Outcome'
<1>1. /\ UNCHANGED <<staged, recovery, targets, asked>>
      /\ pc = "stage" /\ left = {} /\ pc' \in {"stage", "report", "idle"}
  BY Zenon DEF StageRound, dimmVars, options
<1>2. ~asked
  BY Zenon, <1>1 DEF Transfer, Agreement, Preparing
<1>3. codes \in [Dimms -> Statuses] /\ targets \subseteq Dimms
  BY Zenon DEF Types, Control, StatusTypes, RequestTypes
<1>4. CASE UNCHANGED codes /\ waiting = {} /\ pc' = "report" /\ left' = targets
  BY Zenon, <1>1, <1>2, <1>3, <1>4 DEF Outcome, ResultTruthful, Preparing, Waiting
<1>5. CASE UNCHANGED <<pc, codes, waiting, result>>
  BY Zenon, <1>1, <1>2, <1>5 DEF Outcome, ResultTruthful, Preparing, Waiting
<1>6. CASE /\ codes' = [d \in Dimms |-> IF d \in waiting THEN "timeout" ELSE codes[d]]
           /\ pc' = "idle" /\ result' = "aborted"
  <2>1. \A e \in Dimms : codes'[e] \in {"reset", "already"} => staged'[e] # {}
    BY Zenon, <1>1, <1>6 DEF Outcome
  <2>2. QED
    BY Zenon, <1>1, <1>2, <1>6, <2>1 DEF Outcome, ResultTruthful, Preparing, Waiting
<1>7. QED
  BY Zenon, <1>4, <1>5, <1>6 DEF StageRound

LEMMA OutcomeInit == FwInit => Outcome
  BY Zenon DEF FwInit, Outcome, ResultTruthful, Preparing, Waiting

LEMMA OutcomeNext == ASSUME Types, Transfer, Outcome, [FwNext]_fwVars PROVE Outcome'
<1>1. CASE UNCHANGED fwVars
  BY Zenon, <1>1 DEF fwVars, Outcome, ResultTruthful, First
<1>2. ASSUME NEW R, NEW f, NEW D, Load(R, f, D) PROVE Outcome'
  BY Zenon, <1>2 DEF Load, Outcome, ResultTruthful, Preparing, Waiting
<1>3. CASE PowerCycle
  BY Zenon, <1>3 DEF PowerCycle, Outcome, ResultTruthful, Preparing, Waiting
<1>4. ASSUME NEW d \in Dimms, Quiet(d) \/ Sends(d) \/ Stages(d) \/ StageFails(d) \/ ScrubEnds(d) PROVE Outcome'
  <2>1. UNCHANGED recovery
    BY Zenon, <1>4, QuietFrame DEF Stages, StageFails, ScrubEnds, options
  <2>2. CASE recovery
    BY Zenon, <2>1, <2>2 DEF Outcome
  <2>3. CASE ~recovery
    BY Zenon, <1>4, <2>3, QuietOutcome, SendsOutcome, StagesOutcome DEF Transfer
  <2>4. QED
    BY Zenon, <2>2, <2>3
<1>5. CASE StageRound
  <2>1. CASE recovery
    BY Zenon, <1>5, <2>1 DEF StageRound, options, Outcome
  <2>2. QED
    BY Zenon, <1>5, <2>1, StageRoundOutcome
<1>6. QED
  BY Zenon, <1>1, <1>2, <1>3, <1>4, <1>5, NextCases DEF Rest

\* When Load returns, every DIMM reported as updated has a staged image.
THEOREM ReportsStaged == FwSpec => []ReportedStaged
<1>1. Types /\ Outcome => ReportedStaged
  BY Zenon DEF Types, RequestTypes, Outcome, ReportedStaged
<1>2. QED
  BY <1>1, TypesInit, TypesNext, TransferInit, TransferNext, OutcomeInit, OutcomeNext, PTL DEF FwSpec

\* When it returns success, or that the firmware was loaded already, all targets have one.
THEOREM ResultsTruthful == FwSpec => []ResultTruthful
<1>1. Types /\ Outcome => ResultTruthful
  BY Zenon DEF Outcome, ResultTruthful
<1>2. QED
  BY <1>1, TypesInit, TypesNext, TransferInit, TransferNext, OutcomeInit, OutcomeNext, PTL DEF FwSpec
=============================================================================
