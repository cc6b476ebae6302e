------------------------------ MODULE FwUpdate ------------------------------
(***************************************************************************)
(* The load command: it sends a firmware image to one DIMM after another   *)
(* and waits until the DIMMs report that they have staged it.              *)
(*                                                                         *)
(* UpdateFw compares the image with the firmware of the DIMM and uploads   *)
(* it, by one large payload command or packet by packet; the DIMM takes    *)
(* it, and stages it later in a long operation of its own.  A DIMM that is *)
(* in a long operation answers that it is busy.  If that operation is an   *)
(* address range scrub (ARS), the driver stops it and tries again.  The    *)
(* long operations run concurrently with the command, which only polls     *)
(* them, a bounded number of times.  A recovery goes packet by packet over *)
(* SMBus and does not wait.  Any command to a DIMM may fail, and the power *)
(* may be cycled at any time: the DIMMs then start the staged image.       *)
(*                                                                         *)
(* The image is a set of packets.  A version is the set of comparisons     *)
(* that the image fails against the firmware the DIMM runs.  -examine and  *)
(* the recovery through the SPI flash are left out.                        *)
(***************************************************************************)
EXTENDS Integers, FiniteSets

CONSTANTS
  NDimms,         \* number of DIMMs, in the order of the list
  LargePayload,   \* those whose upload is one command
  Packets,        \* PacketsCounter: packets of the image
  Versions,       \* the ways in which the image may compare with each DIMM
  Recoveries,     \* values of the -recover option that are considered
  MaxChecks,      \* MAX_CHECKS_FOR_SUCCESSFUL_STAGING
  MaxTries,       \* MAX_FW_UPDATE_RETRY_ON_DEV_BUSY
  MaxPolls,       \* RetryMax of PollOnArsDeviceBusy
  MaxFaults,      \* number of commands to a DIMM that fail (bound)
  MaxLoads,       \* number of load commands (bound)
  MaxCycles       \* number of power cycles (bound)

Dimms == 1..NDimms
Image == 0..(Packets - 1)
Comparisons == {"product", "revision", "security", "oie", "build", "api"}
Unfit == {"product", "oie", "api"}    \* those that -force does not overrule

ASSUME FwConstants ==
  /\ NDimms \in Nat /\ LargePayload \subseteq Dimms
  /\ Packets \in Nat /\ Packets >= 3    \* FW_UPDATE_SP_MINIMUM_PACKETS
  /\ Versions \in [Dimms -> SUBSET SUBSET Comparisons]
  /\ \A d \in Dimms : {} \in Versions[d]
  /\ \A d \in Dimms : \A v \in Versions[d] : "oie" \in v => "security" \in v
  /\ Recoveries \subseteq BOOLEAN
  /\ MaxChecks \in Nat \ {0} /\ MaxTries \in Nat \ {0} /\ MaxPolls \in Nat \ {0}
  /\ MaxFaults \in Nat /\ MaxLoads \in Nat /\ MaxCycles \in Nat

VARIABLES
  longop,    \* the last long operation of each DIMM and its status
  got,       \* the packets that each DIMM has received since the last INIT
  staged,    \* the image each DIMM has staged, empty if its version is undefined
  version,   \* the comparisons that the image fails for each DIMM
  pc,        \* what the command is doing
  recovery, force,   \* its options
  targets,   \* its DIMMs
  left,      \* those that the current loop has not reached yet
  asked,     \* the user has agreed to the downgrade of the current DIMM
  tries,     \* CurrentRetryCount
  polls,     \* RetryCount
  packet,    \* CurrentPacket
  nvm,       \* NvmStatus of UpdateFw
  codes,     \* NvmCodes
  sent,      \* DIMMs whose ReturnCodes is EFI_SUCCESS
  waiting,   \* DIMMs whose FwStageDone is FALSE
  checks,    \* CurrentStageCheck
  result,    \* ReturnCode of the command
  took,      \* DIMMs that accepted the image from this command
  agreed,    \* DIMMs that -force or an answer has allowed to downgrade
  faults, loads, cycles

dimmVars == <<longop, got, staged, version>>
options == <<recovery, force, targets>>
upload == <<tries, polls, packet, nvm>>
staging == <<waiting, checks>>
outcome == <<codes, sent, result>>
history == <<took, agreed>>
bounds == <<faults, loads, cycles>>
fwVars == <<longop, got, staged, version, pc, recovery, force, targets, left, asked, tries,
            polls, packet, nvm, codes, sent, waiting, checks, result, took, agreed,
            faults, loads, cycles>>

-----------------------------------------------------------------------------
(* The DIMM                                                                *)

LongOps == [op : {"none", "ars", "fw"}, status : {"ok", "busy", "failed"}]
Idle == [op |-> "none", status |-> "ok"]
Scrubbing == [op |-> "ars", status |-> "busy"]
Staging == [op |-> "fw", status |-> "busy"]

Busy(d) == longop[d].status = "busy"

\* Status of an upload command that reaches the DIMM.
UploadStatus(d) ==
  IF Busy(d) THEN "busy" ELSE IF staged[d] # {} THEN "already" ELSE "ok"

\* INIT starts a transfer, the last packet ends it.
Receive(d, n) ==
  /\ got' = [got EXCEPT ![d] = IF n = 0 THEN {0} ELSE @ \cup {n}]
  /\ UNCHANGED <<longop, took>>

ReceiveLast(d, S) ==
  /\ got' = [got EXCEPT ![d] = @ \cup S]
  /\ longop' = [longop EXCEPT ![d] = Staging]
  /\ took' = took \cup {d}

Stages(d) ==
  /\ longop[d] = Staging
  /\ longop' = [longop EXCEPT ![d].status = "ok"]
  /\ staged' = [staged EXCEPT ![d] = got[d]]
  /\ got' = [got EXCEPT ![d] = {}]
  /\ UNCHANGED <<version, pc, options, left, asked, upload, staging, outcome, history, bounds>>

StageFails(d) ==
  /\ longop[d] = Staging
  /\ longop' = [longop EXCEPT ![d].status = "failed"]
  /\ got' = [got EXCEPT ![d] = {}]
  /\ UNCHANGED <<staged, version, pc, options, left, asked, upload, staging, outcome,
                 history, bounds>>

ScrubEnds(d) ==
  /\ longop[d] = Scrubbing
  /\ longop' = [longop EXCEPT ![d].status = "ok"]
  /\ UNCHANGED <<got, staged, version, pc, options, left, asked, upload, staging, outcome,
                 history, bounds>>

-----------------------------------------------------------------------------
(* The driver: UpdateFw for one DIMM                                       *)

First(d) == d \in left /\ \A e \in left : d <= e

Fault == faults < MaxFaults /\ faults' = faults + 1

Forced == force \/ asked

\* Mutant: the build number is not compared.
ValidateImageVersionNoBuild(d) ==
  IF \/ "product" \in version[d]
     \/ "revision" \in version[d] /\ ~Forced
     \/ {"security", "oie"} \subseteq version[d]
  THEN "invalid"
  ELSE IF "security" \in version[d] /\ ~Forced THEN "force"
  ELSE IF "api" \in version[d] THEN "invalid" ELSE "success"

\* NvmStatus when all commands succeed.  "oie" is the BSR bit that has to
\* allow a lower security version.
ValidateImageVersion(d) ==
  IF \/ "product" \in version[d]
     \/ "revision" \in version[d] /\ ~Forced
     \/ {"security", "oie"} \subseteq version[d]
  THEN "invalid"
  ELSE IF version[d] \cap {"security", "build"} # {} /\ ~Forced THEN "force"
  ELSE IF "api" \in version[d] THEN "invalid" ELSE "success"

\* The BSR is read only for a lower security version.
ReadsBsr(d) ==
  /\ "product" \notin version[d] /\ "security" \in version[d]
  /\ "revision" \in version[d] => Forced

-----------------------------------------------------------------------------
(* Load, as UpdateFw returns GeneralStatus for DIMM d: a downgrade is      *)
(* offered once, otherwise it is the turn of the next DIMM.  NvmCodes is   *)
(* not assigned after the second call.                                     *)

AfterDimm(d, ok) ==
  IF left # {d} THEN IF recovery THEN "verify" ELSE "check"
  ELSE IF recovery \/ ok = {} THEN "report" ELSE "stage"

NextDimm(d, ok) ==
  /\ sent' = ok
  /\ pc' = AfterDimm(d, ok)
  /\ left' = IF left # {d} THEN left \ {d}
             ELSE IF pc' = "report" THEN targets ELSE ok
  /\ waiting' = IF pc' = "stage" THEN ok ELSE {}
  /\ asked' = FALSE
  /\ tries' = 0 /\ polls' = 0 /\ packet' = 0 /\ nvm' = "none"

Returned(d, general) ==
  /\ codes' = IF asked THEN codes
              ELSE [codes EXCEPT ![d] =
                      IF recovery /\ general = "success" THEN "reset" ELSE general]
  /\ IF general = "force" /\ ~recovery
       THEN pc' = "prompt" /\ UNCHANGED <<sent, left, waiting, asked, upload>>
       ELSE NextDimm(d, IF general = "success" THEN sent \cup {d} ELSE sent)
  /\ UNCHANGED <<checks, result>>

\* UpdateDimmFw or UpdateSmbusDimmFw has failed.
Failed(status) ==
  /\ pc' = "longop"
  /\ nvm' = status
  /\ UNCHANGED <<left, asked, tries, polls, packet, staging, outcome>>

-----------------------------------------------------------------------------
Load(R, f, D) ==
  /\ pc = "idle" /\ loads < MaxLoads
  /\ loads' = loads + 1
  /\ recovery' = R /\ force' = f /\ targets' = D
  /\ pc' = IF R THEN "verify" ELSE "check"
  /\ left' = D /\ asked' = FALSE
  /\ tries' = 0 /\ polls' = 0 /\ packet' = 0 /\ nvm' = "none"
  /\ codes' = [d \in Dimms |-> "success"] /\ sent' = {} /\ result' = "none"
  /\ waiting' = {} /\ checks' = 0
  /\ took' = {}
  /\ agreed' = IF f THEN agreed \cup D ELSE agreed
  /\ UNCHANGED <<dimmVars, faults, cycles>>

\* FwHasBeenStaged finds a staged version.
AlreadyStaged(d) ==
  /\ pc = "check" /\ First(d) /\ staged[d] # {}
  /\ codes' = [codes EXCEPT ![d] = "already"]
  /\ NextDimm(d, sent)
  /\ UNCHANGED <<dimmVars, options, checks, result, history, bounds>>

\* It finds none, or cannot tell.
NotStaged(d) ==
  /\ pc = "check" /\ First(d)
  /\ IF staged[d] # {} THEN Fault ELSE UNCHANGED faults
  /\ pc' = "verify"
  /\ UNCHANGED <<dimmVars, options, left, asked, upload, staging, outcome, history, loads,
                 cycles>>

Verify(d) ==
  /\ pc = "verify" /\ First(d)
  /\ IF ValidateImageVersion(d) = "success"
       THEN /\ pc' = IF d \in LargePayload /\ ~recovery THEN "large" ELSE "packet"
            /\ UNCHANGED <<left, asked, upload, staging, outcome>>
       ELSE Returned(d, ValidateImageVersion(d))
  /\ UNCHANGED <<dimmVars, options, history, bounds>>

\* The file, the DIMM or memory cannot be had.
Refused(d) ==
  /\ pc = "verify" /\ First(d) /\ Fault
  /\ Returned(d, "failed")
  /\ UNCHANGED <<dimmVars, options, history, loads, cycles>>

\* ValidateImageVersion gives up with NvmStatus still NVM_SUCCESS: UpdateFw
\* finds no DIMM to update and returns it.
BsrFails(d) ==
  /\ pc = "verify" /\ First(d) /\ ReadsBsr(d) /\ Fault
  /\ Returned(d, "success")
  /\ UNCHANGED <<dimmVars, options, history, loads, cycles>>

Prompt(d, yes) ==
  /\ pc = "prompt" /\ First(d)
  /\ IF yes
       THEN /\ asked' = TRUE /\ agreed' = agreed \cup {d} /\ pc' = "verify"
            /\ UNCHANGED <<left, sent, waiting, upload>>
       ELSE NextDimm(d, sent) /\ UNCHANGED agreed
  /\ UNCHANGED <<dimmVars, options, codes, checks, result, took, bounds>>

-----------------------------------------------------------------------------
(* UpdateDimmFw with a large payload.  A busy DIMM is tried again, after   *)
(* the scrub that keeps it busy has been stopped.                          *)

SendLarge(d) ==
  /\ pc = "large" /\ First(d) /\ UploadStatus(d) = "ok"
  /\ ReceiveLast(d, Image)
  /\ Returned(d, "success")
  /\ UNCHANGED <<staged, version, options, agreed, bounds>>

\* Mutant: the attempts are not counted.
LargeBusyUncounted(d) ==
  /\ pc = "large" /\ First(d) /\ UploadStatus(d) = "busy"
  /\ pc' = "ars"
  /\ UNCHANGED <<tries, left, asked, polls, packet, nvm, staging, outcome>>
  /\ UNCHANGED <<dimmVars, options, history, bounds>>

\* Mutant: one attempt too many.
LargeBusyOneMore(d) ==
  /\ pc = "large" /\ First(d) /\ UploadStatus(d) = "busy"
  /\ IF tries < MaxTries
       THEN /\ tries' = tries + 1 /\ pc' = "ars"
            /\ UNCHANGED <<left, asked, polls, packet, nvm, staging, outcome>>
       ELSE Failed("busy")
  /\ UNCHANGED <<dimmVars, options, history, bounds>>

LargeBusy(d) ==
  /\ pc = "large" /\ First(d) /\ UploadStatus(d) = "busy"
  /\ IF tries + 1 < MaxTries
       THEN /\ tries' = tries + 1 /\ pc' = "ars"
            /\ UNCHANGED <<left, asked, polls, packet, nvm, staging, outcome>>
       ELSE Failed("busy")
  /\ UNCHANGED <<dimmVars, options, history, bounds>>

LargeRefused(d) ==
  /\ pc = "large" /\ First(d) /\ UploadStatus(d) = "already"
  /\ Failed("already")
  /\ UNCHANGED <<dimmVars, options, history, bounds>>

\* The command is lost, or its answer.
LargeFails(d) ==
  /\ pc = "large" /\ First(d) /\ Fault
  /\ \/ UploadStatus(d) = "ok" /\ ReceiveLast(d, Image)
     \/ UNCHANGED <<longop, got, took>>
  /\ Failed("failed")
  /\ UNCHANGED <<staged, version, options, agreed, loads, cycles>>

\* FwCmdGetARS and, if the DIMM scrubs, the command of FwCmdDisableARS.  What
\* becomes of the latter is ignored.
GetARS(d) ==
  /\ pc = "ars" /\ First(d)
  /\ polls' = 0
  /\ \/ longop[d] # Scrubbing /\ pc' = "large" /\ UNCHANGED faults
     \/ longop[d] = Scrubbing /\ pc' = "poll" /\ UNCHANGED faults
     \/ longop[d] = Scrubbing /\ pc' = "large" /\ Fault
  /\ UNCHANGED <<dimmVars, options, left, asked, tries, packet, nvm, staging, outcome,
                 history, loads, cycles>>

GetARSFails(d) ==
  /\ pc = "ars" /\ First(d) /\ Fault
  /\ Failed("failed")
  /\ UNCHANGED <<dimmVars, options, history, loads, cycles>>

\* One round of PollOnArsDeviceBusy.
PollOnArsDeviceBusy(d) ==
  /\ pc = "poll" /\ First(d)
  /\ polls' = polls + 1
  /\ \/ /\ pc' = IF longop[d] = Scrubbing /\ polls + 1 < MaxPolls THEN "poll" ELSE "large"
        /\ UNCHANGED faults
     \/ pc' = "large" /\ Fault
  /\ UNCHANGED <<dimmVars, options, left, asked, tries, packet, nvm, staging, outcome,
                 history, loads, cycles>>

-----------------------------------------------------------------------------
(* UpdateDimmFw with small payloads, and UpdateSmbusDimmFw                 *)

\* Mutant: the transfer ends one packet early.
LastPacketEarly == Packets - 2

LastPacket == Packets - 1

SendPacket(d) ==
  /\ pc = "packet" /\ First(d) /\ UploadStatus(d) = "ok"
  /\ IF packet = LastPacket
       THEN ReceiveLast(d, {packet}) /\ Returned(d, "success")
       ELSE /\ Receive(d, packet)
            /\ packet' = packet + 1
            /\ UNCHANGED <<pc, left, asked, tries, polls, nvm, staging, outcome>>
  /\ UNCHANGED <<staged, version, options, agreed, bounds>>

PacketRefused(d) ==
  /\ pc = "packet" /\ First(d) /\ UploadStatus(d) # "ok"
  /\ Failed(IF recovery THEN "failed" ELSE UploadStatus(d))
  /\ UNCHANGED <<dimmVars, options, history, bounds>>

PacketFails(d) ==
  /\ pc = "packet" /\ First(d) /\ Fault
  /\ \/ UNCHANGED <<longop, got, took>>
     \/ /\ UploadStatus(d) = "ok"
        /\ IF packet = LastPacket THEN ReceiveLast(d, {packet}) ELSE Receive(d, packet)
  /\ Failed("failed")
  /\ UNCHANGED <<staged, version, options, agreed, loads, cycles>>

\* After a failure UpdateFw returns the long operation that is in progress,
\* if there is one and it can be read, and otherwise NvmStatus.
CheckForLongOpStatusInProgress(d) ==
  /\ pc = "longop" /\ First(d)
  /\ \/ Busy(d) /\ Returned(d, "progress") /\ UNCHANGED faults
     \/ ~Busy(d) /\ Returned(d, nvm) /\ UNCHANGED faults
     \/ Busy(d) /\ Returned(d, nvm) /\ Fault
  /\ UNCHANGED <<dimmVars, options, history, loads, cycles>>

-----------------------------------------------------------------------------
(* BlockForFwStage: each round asks every DIMM that has not finished for a *)
(* staged version and, if it has none, for its long operation.             *)

StageDone(d) ==
  /\ pc = "stage" /\ First(d) /\ staged[d] # {}
  /\ codes' = [codes EXCEPT ![d] = "reset"]
  /\ waiting' = waiting \ {d}
  /\ left' = left \ {d}
  /\ UNCHANGED <<dimmVars, pc, options, asked, upload, checks, sent, result, history, bounds>>

StagePending(d) ==
  /\ pc = "stage" /\ First(d)
  /\ IF staged[d] # {} THEN Fault ELSE UNCHANGED faults
  /\ pc' = "stageop"
  /\ UNCHANGED <<dimmVars, options, left, asked, upload, staging, outcome, history, loads,
                 cycles>>

StageFailed(d) == longop[d] = [op |-> "fw", status |-> "failed"]

\* Mutant: a long operation that is over counts as staged.
GetLongOpStatusOver(d) ==
  /\ pc = "stageop" /\ First(d)
  /\ pc' = "stage" /\ left' = left \ {d}
  /\ IF longop[d].op = "fw" /\ ~Busy(d)
       THEN /\ codes' = [codes EXCEPT ![d] = "reset"]
            /\ waiting' = waiting \ {d}
            /\ UNCHANGED sent
       ELSE UNCHANGED <<codes, sent, waiting>>
  /\ UNCHANGED <<dimmVars, options, asked, upload, checks, result, history, bounds>>

GetLongOpStatus(d) ==
  /\ pc = "stageop" /\ First(d)
  /\ pc' = "stage" /\ left' = left \ {d}
  /\ IF StageFailed(d)
       THEN /\ codes' = [codes EXCEPT ![d] = "longop"]
            /\ sent' = sent \ {d}
            /\ waiting' = waiting \ {d}
       ELSE UNCHANGED <<codes, sent, waiting>>
  /\ UNCHANGED <<dimmVars, options, asked, upload, checks, result, history, bounds>>

GetLongOpStatusFails(d) ==
  /\ pc = "stageop" /\ First(d) /\ Fault
  /\ pc' = "stage" /\ left' = left \ {d}
  /\ UNCHANGED <<dimmVars, options, asked, upload, staging, outcome, history, loads, cycles>>

StageRound ==
  /\ pc = "stage" /\ left = {}
  /\ checks' = checks + 1
  /\ \/ /\ waiting = {}
        /\ pc' = "report" /\ left' = targets
        /\ UNCHANGED <<codes, sent, waiting, result>>
     \/ /\ waiting # {} /\ checks + 1 < MaxChecks
        /\ left' = waiting
        /\ UNCHANGED <<pc, codes, sent, waiting, result>>
     \/ /\ waiting # {} /\ checks + 1 = MaxChecks
        /\ codes' = [d \in Dimms |-> IF d \in waiting THEN "timeout" ELSE codes[d]]
        /\ sent' = sent \ waiting
        /\ waiting' = {}
        /\ pc' = "idle" /\ result' = "aborted"
        /\ UNCHANGED left
  /\ UNCHANGED <<dimmVars, options, asked, upload, history, bounds>>

-----------------------------------------------------------------------------
(* The return code of the command                                          *)

MatchCliReturnCode(code) ==
  IF code \in {"success", "reset"} THEN "success"
  ELSE IF code = "already" THEN "already" ELSE "aborted"

\* Mutant: a DIMM that has its image already hides what failed before it.
KeepsResultNever(r) == r = "success"

\* An error is not replaced by EFI_ALREADY_STARTED.
KeepsResult(r) == r = "success" \/ (r = "already" /\ result = "aborted")

Report(d) ==
  /\ pc = "report" /\ First(d)
  /\ LET r == MatchCliReturnCode(codes[d])
         before == IF result = "none" THEN "success" ELSE result
     IN result' = IF KeepsResult(r) THEN before ELSE r
  /\ left' = left \ {d}
  /\ pc' = IF left = {d} THEN "idle" ELSE "report"
  /\ UNCHANGED <<dimmVars, options, asked, upload, staging, codes, sent, history, bounds>>

-----------------------------------------------------------------------------
\* The staged image runs, and the DIMMs may start to scrub.
PowerCycle ==
  /\ cycles < MaxCycles /\ cycles' = cycles + 1
  /\ version' = [d \in Dimms |-> IF staged[d] # {} THEN {} ELSE version[d]]
  /\ staged' = [d \in Dimms |-> {}] /\ got' = [d \in Dimms |-> {}]
  /\ \E o \in {Idle, Scrubbing} : longop' = [d \in Dimms |-> o]
  /\ pc' = "idle" /\ result' = "none" /\ codes' = [d \in Dimms |-> "success"]
  /\ left' = {} /\ asked' = FALSE
  /\ tries' = 0 /\ polls' = 0 /\ packet' = 0 /\ nvm' = "none"
  /\ sent' = {} /\ waiting' = {} /\ checks' = 0 /\ took' = {} /\ agreed' = {}
  /\ UNCHANGED <<options, faults, loads>>

FwInit ==
  /\ version \in [Dimms -> SUBSET Comparisons] /\ \A d \in Dimms : version[d] \in Versions[d]
  /\ staged \in [Dimms -> {{}, Image}]
  /\ \A d \in Dimms : staged[d] # {} => version[d] \cap Unfit = {}
  /\ \E o \in {Idle, Scrubbing} : longop = [d \in Dimms |-> o]
  /\ got = [d \in Dimms |-> {}]
  /\ pc = "idle" /\ recovery = FALSE /\ force = FALSE /\ targets = {} /\ left = {}
  /\ asked = FALSE /\ tries = 0 /\ polls = 0 /\ packet = 0 /\ nvm = "none"
  /\ codes = [d \in Dimms |-> "success"] /\ sent = {} /\ waiting = {} /\ checks = 0
  /\ result = "none" /\ took = {} /\ agreed = {d \in Dimms : staged[d] # {}}
  /\ faults = 0 /\ loads = 0 /\ cycles = 0

Command ==
  \/ StageRound
  \/ \E d \in Dimms :
       \/ AlreadyStaged(d) \/ NotStaged(d)
       \/ Verify(d) \/ Refused(d) \/ BsrFails(d) \/ \E yes \in BOOLEAN : Prompt(d, yes)
       \/ SendLarge(d) \/ LargeBusy(d) \/ LargeRefused(d) \/ LargeFails(d)
       \/ GetARS(d) \/ GetARSFails(d) \/ PollOnArsDeviceBusy(d)
       \/ SendPacket(d) \/ PacketRefused(d) \/ PacketFails(d)
       \/ CheckForLongOpStatusInProgress(d)
       \/ StageDone(d) \/ StagePending(d) \/ GetLongOpStatus(d) \/ GetLongOpStatusFails(d)
       \/ Report(d)

\* No command runs.
Rest == pc = "idle" /\ loads = MaxLoads /\ UNCHANGED fwVars

FwNext ==
  \/ \E R \in Recoveries, f \in BOOLEAN, D \in SUBSET Dimms \ {{}} : Load(R, f, D)
  \/ Command
  \/ \E d \in Dimms : Stages(d) \/ StageFails(d) \/ ScrubEnds(d)
  \/ PowerCycle
  \/ Rest

FwSpec == FwInit /\ [][FwNext]_fwVars /\ WF_fwVars(Command)

-----------------------------------------------------------------------------
Statuses == {"none", "success", "reset", "force", "invalid", "failed", "busy", "already",
             "progress", "longop", "timeout"}

\* Types of the variables of the load command and of the DIMMs, with the
\* bounds of its loops: the attempts of UpdateDimmFw, the polls of
\* PollOnArsDeviceBusy, the packets and the rounds of BlockForFwStage.
FwTypeOK ==
  /\ longop \in [Dimms -> LongOps]
  /\ got \in [Dimms -> SUBSET Image] /\ staged \in [Dimms -> SUBSET Image]
  /\ \A d \in Dimms : version[d] \in Versions[d]
  /\ pc \in {"idle", "check", "verify", "prompt", "large", "ars", "poll", "packet",
             "longop", "stage", "stageop", "report"}
  /\ recovery \in BOOLEAN /\ force \in BOOLEAN /\ asked \in BOOLEAN
  /\ targets \subseteq Dimms /\ left \subseteq targets
  /\ sent \subseteq targets /\ waiting \subseteq sent
  /\ tries \in 0..(MaxTries - 1) /\ polls \in 0..MaxPolls
  /\ packet \in 0..(Packets - 1) /\ checks \in 0..MaxChecks
  /\ nvm \in Statuses /\ codes \in [Dimms -> Statuses]
  /\ result \in {"none", "success", "already", "aborted"}
  /\ took \subseteq Dimms /\ agreed \subseteq Dimms
  /\ faults \in 0..MaxFaults /\ loads \in 0..MaxLoads /\ cycles \in 0..MaxCycles

\* A DIMM never stages a part of the image, whatever transfers were broken
\* off before (packet loop of UpdateDimmFw).
StagedWhole == \A d \in Dimms : staged[d] \in {{}, Image}

\* A DIMM holds an image that is older than its firmware only if -force or
\* the answer to the prompt allowed it, and never one that does not fit it
\* (ValidateImageVersion and the downgrade prompt of Load).
DowngradeAgreed ==
  \A d \in Dimms : version[d] # {} /\ (staged[d] # {} \/ longop[d] = Staging) =>
    d \in agreed /\ version[d] \cap Unfit = {}

\* When Load without -recover returns, a DIMM it reports as updated has a
\* staged image, however its long operation and the polls of
\* BlockForFwStage interleave.
ReportedStaged ==
  pc = "idle" /\ result # "none" /\ ~recovery =>
    \A d \in targets : codes[d] = "reset" => staged[d] # {}

\* Load without -recover returns success, or that the firmware was loaded
\* already, only if every target has a staged image: no failure is lost in
\* the merging of the return codes of the DIMMs.
ResultTruthful ==
  pc = "idle" /\ result \in {"success", "already"} /\ ~recovery =>
    \A d \in targets : staged[d] # {}

\* Every load command ends, also when the DIMMs stay busy for ever.
LoadEnds == pc # "idle" ~> pc = "idle"

\* "Update has completed successfully": UpdateFw returns EFI_SUCCESS, and a
\* recovery is reported as done, only for a DIMM that took the image.
RecoveredTook ==
  pc = "idle" /\ recovery => \A d \in targets : codes[d] = "reset" => d \in took
=============================================================================
