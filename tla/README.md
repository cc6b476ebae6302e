# ipmctl in TLA+

ipmctl manages Intel Optane persistent memory modules (DIMMs).  It is one code
base built twice: as a UEFI driver with a shell application, and as a library
and command for operating systems.  This directory specifies the parts whose
state must survive failures: the block translation table and the labels of
namespaces, the goals in the platform configuration data, and the firmware
update.

Paths below are relative to `src/DcpmPkg/` unless they start with `src/`.

## What is here

| module | models | checked by |
|---|---|---|
| `Btt` | `driver/Core/Btt.c`, the byte access below it, the steps of create, delete and enumeration that open and close it | `MCBtt*.cfg` |
| `AtomicDisk` | what a BTT namespace promises: an array of atomically written blocks (the abstract specification of `Btt`) | as `AtomicBlocks` |
| `BttInv` | the inductive invariant of `Btt` | `MCBttLanes.cfg` |
| `BttTypes` | proof of the type invariant of `Btt`, types of its operators | TLAPS |
| `BttArena` | lemmas about the state of one arena | TLAPS |
| `BttSteps` | one lemma per action: layout and opening; reads and writes; power failure and other systems | TLAPS |
| `BttProofs` | the safety theorems about `Btt` | TLAPS |
| `BttRefinement` | reading back a layout; `Btt` implements `AtomicDisk` | TLAPS |
| `NsLabels` | label storage areas of the DIMMs of an interleave set, `CreateNamespace`, `DeleteNamespace`, enumeration | `MCLabels*.cfg` |
| `LabelsInv` | the inductive invariants of `NsLabels` | `MCLabels.cfg` |
| `LabelsProofs` | lemmas and theorems about `NsLabels` | TLAPS |
| `Goals` | `CreateGoalConfig`, `LoadGoalConfig`, `DeleteGoalConfig`, `ApplyGoalConfigsToDimms` and the PCD commands below it | `MCGoals.cfg` |
| `GoalsProofs` | invariants, lemmas and theorems about `Goals` | TLAPS |
| `FwUpdate` | the load command, `UpdateFw` and the DIMMs it talks to | `MCFwUpdate.cfg`, `MCFwRecover.cfg` |
| `FwProofs` | invariants, lemmas and theorems about `FwUpdate` | TLAPS |
| `MCBtt`, `MCNsLabels`, `MCGoals`, `MCFwUpdate` | values of the constants for TLC | |

`PROJECT.json` lists the components, the runs, the source lines behind every
definition, the mutants that show each property can fail, the findings, the
hazards and the theorems.

    tlc -config MCBtt.cfg MCBtt
    tlapm GoalsProofs.tla        (and each other module with theorems)

## The parts and how they interact

The command line and the API call one protocol, implemented in
`driver/Protocol/Driver/NvmDimmConfig.c`, in a single thread.  Its operations
read and write the DIMMs through the commands of `driver/Core/Dimm.c`, each a
mailbox round trip that can fail; large payloads are one command, small ones a
series of 64-byte commands.  What runs concurrently is outside the driver: the
long operations of a DIMM (scrubbing, staging of firmware), the loss of power
between any two commands or stores, the BIOS at the next boot, and other
operating systems while the driver is down.

- **Block translation table** (`driver/Core/Btt.c`): atomic block writes on
  media that only persist single stores.  Below it `AppDirectIo`, above it block
  I/O, `CreateNamespace` and enumeration.  Hard: a crash between any two stores,
  interrupted recovery, stale media, refused accesses.  *`Btt`.*
- **Labels and namespaces** (`driver/Core/Namespace.c`, `common/LbaCommon.c`,
  `NvmDimmConfig.c`): a namespace is a label on each of several DIMMs.  Hard:
  failure or crash after some of them, sequence numbers, the last free slot.
  *`NsLabels`; `Btt!ns` is its list reduced to one namespace.*
- **Goals** (`driver/Core/Region.c`, `driver/Utils/PlatformConfigData.c`,
  `NvmDimmConfig.c`, `driver/Utils/DumpLoadRegions.c`): a request on each DIMM of
  an interleave set, which the BIOS acts on.  Hard: one DIMM of several fails,
  half-written tables, a reboot in between.  A creation ends with new label
  storage areas.  *`Goals`.*
- **Firmware update** (`NvmDimmConfig.c`, `driver/Core/Dimm.c`,
  `cli/LoadCommand.c`).  Hard: busy DIMMs, lost packets and answers, staging that
  ends between two questions, merged results.  *`FwUpdate`.*
- The other parts are under "Not modelled".

## The BTT (`Btt`)

An arena has `ExternalNLbas` addressable blocks and `NFree` spare ones.  The map
says which block holds an LBA.  A flog pair (one per lane) logs the update in
progress on its lane; of its two halves the one with the later of the cyclic
sequence numbers 1, 2, 3 is current.  This driver writes on lane 0 only.

| model | code |
|---|---|
| `info`, `backup`, `map`, `flog`, `data` | the structures of `BttLayout.h`; an info block is none, torn, valid or valid with the error flag |
| `flogMedia` | the flog lines that have left the processor cache |
| `rt`, `laidout`, `flags` | `pArena->pFlogs[0]`, `pBtt->Laidout`, `pArena->Flags` |
| `pc`, `ctx`, `cur`, `idx`, `req` | the place in the code, who called it, loop variables, the write request |
| `bad` | `gArsBadRecords`, read once when the driver starts |
| `ns` | whether the labels hold the namespace (`NsLabels` has the detail) |
| `out` | what the last operation returned |

`CreateNamespace`, `LayoutZeroMap` to `LayoutBackup` and `InsertNamespaceLabels`
are the creation with `BttWriteLayout`; `BttInit` and `BttReadFlogPair` the
opening with recovery; `BttRead` a read; `BttWrite`, `WriteData`,
`BttFlogUpdate1`, `BttFlogUpdate2`, `BttMapUnlock` the steps of a block write;
actions that end in `Fails` or `Refused` are the error returns.  The driver is
single-threaded, so steps interleave only with `PowerFail`, cache eviction and,
while it is down, another operating system (`Foreign*`, external).  A write
larger than a cache line is two steps, with `Torn` content between them.

Facts about the code that the model relies on:
- `bad` does not change while a namespace is open.  The flog line written at
  `lock` was read when the namespace was opened, so it cannot be refused there.
- While a namespace is being opened `Laidout` is clear, so the
  `BttSetArenaError` calls of `BttReadFlogs` do not write to the media.
- `BttArenaSetFlag` is reached only from the last error branch of `BttWrite`,
  which `LateStepsCannotFail` shows to be dead.
- The read tracking table has no entries (the number of lanes in use is 0), so
  its loop does nothing.

### Runs

| run | question | bounds |
|---|---|---|
| `btt_disk` | Is it an atomic disk with one owner per block, across any number of crashes and re-creations, when any one structure or block is refused? | 1 arena, 2 LBAs, 1 lane, 2 values, any set of at most one bad range |
| `btt_foreign` | ... when another system writes, trims, poisons or flags? | 1 LBA, 1 lane, 1 bad range, 2 foreign events |
| `btt_lanes` | Is every lane recovered, the right pair cached, and does the invariant of the proofs hold? | 2 LBAs, 2 lanes, 2 foreign writes or damages |
| `btt_live` | Does each operation end, and is a flog pair readable with volatile caches? | 1 LBA, 1 lane, 1 bad range, 1 damage |
| `btt_cache_loss` | (violation) see below | 2 LBAs, volatile caches |
| `btt_reformat` | (violation) see below | 2 arenas, 2 LBAs, 1 damage |

The number of crashes, writes and re-creations is not bounded: the state space
is finite because sequence numbers are cyclic.  Two LBAs and two lanes are the
least with which blocks can be confused between LBAs and between lanes; two
arenas the least with which arenas can.  `btt_lanes` and `btt_reformat` use a
state constraint (`FirstNamespace`): one namespace per behaviour, on unused
media.

Liveness is checked under `WF_vars(Progress)`: the processor goes on executing
an operation it has begun.  Nothing is assumed of requests or the environment,
and a power failure also ends an operation.

### Disagreements

- `btt_cache_loss`: `AppDirectIo` flushes `Nbytes / CACHE_LINE_SIZE` lines, none
  for the 8-byte flog writes, although the comment on `BttFlogUpdate` requires the
  first to be durable before the second.  With caches that are lost on a power
  failure, a map update can outlive its log entry and a mapped block becomes a
  spare one.
- `btt_reformat`: with one damaged info block the first write lays out the whole
  namespace again, with the info blocks of other arenas still valid; a crash on
  the way mixes two layouts.
- Without a run: the backup info block is never used when the layout is read.

## Proofs about the BTT

Proved by TLAPS for every number of arenas, LBAs and lanes and any sets of
values, bad ranges and foreign events:

- `TypeCorrect`: `Spec => []TypeOK`, without further assumptions.
- `LateSteps`: `Spec => []LateStepsCannotFail`, without further assumptions.
- `ReadBack`: `Spec => []ReadBackSucceeds`, without further assumptions.
- `Invariance`: `Spec => []InductiveInvariant`, and from it `Ownership`,
  `Readability`, `WholeBlocks`, `Recovery` and `CachedFlog`, assuming that dirty
  cache lines survive a power failure (`CachePersistent`) and that no namespace
  is laid out again in part (`NoPartialReformat`).  The runs `btt_cache_loss` and
  `btt_reformat` show that both assumptions are needed.
- `Refinement`: `Spec => AtomicBlocks`, assuming `CachePersistent` and that no info
  block is damaged (a namespace with a damaged info block reads as zeros until it is
  laid out again, which no atomic disk does).

The constants are assumed to satisfy `BttAssumptions` only.

Block ownership alone is not inductive.  Whether `BttWrite` may use its free
block depends on the cached flog pair agreeing with the media (`Caches`), which
differs between the two halves of a flog update (`CachedHalf`); whether the
media is consistent when a layout becomes valid depends on what the layout loop
has already written (`LayoutDone`, `LayoutAhead`); whether a redo is safe depends
on no two lanes logging the same LBA and on lanes already recovered staying so
(`Consistent`, the conjunction of `Owned`, `Readable`, `Separate`, `MappedWhole`
and `LoggedWhole`, and `Recovered`); and all of it on where the driver can be
(`Control`).  `IInv` is their conjunction.  The proof has one lemma per action;
those that change an arena rest on lemmas about a single arena (`SameArena`,
`FreshConsistent`, `RedoConsistent`, `LogConsistent`, `WriteConsistent`,
`MarkConsistent`).

`ReadBack` has an invariant of its own, `LayoutInvariant`: the arenas behind the
layout loop are as it left them and their flog lines are not refused (`Fresh`).  It
needs neither of the two assumptions.

The refinement maps the store of the disk to `Content`, the block an LBA reads once
all logged updates are redone, and the write in progress to `req`.  A block write
takes effect when `BttFlogUpdate2` makes its log entry current: there `Content`
changes (`LogContent`), and by `WriteInvariant` it changes to the value asked for.
`BttMapUnlock`, recovery and a redo by the next opening leave `Content` alone
(`RedoContent`); data goes to a block that no content comes from (`KeptBlocks`); a
new namespace reads as zeros because all its arenas are `Fresh`.  There is one lemma
per action (`IssueDisk`, `CommitDisk`, `AckDisk`, ...), put together in
`RefinementStep`.

Only model-checked: liveness, which needs fairness and is out of the prover's reach.

## Namespace labels (`NsLabels`)

An AppDirect namespace is one label on each DIMM of its interleave set.  A label
storage area (LSA) has two index blocks and `NLabels` slots; the index block with
the later cyclic sequence number is current and its bitmap says which slots are
free.  Every update reads the whole LSA, changes it in memory and writes it back:
first both index blocks, then the label of every slot in use.

| model | code |
|---|---|
| `lsa`, `img`, `pos` | the LSA of each DIMM on the media; the copy being written; the next mailbox command of that write |
| `status`, `ns` | `pDimm->LsaStatus`; the list of namespaces with health and the DIMMs in `Range` |
| `pc`, `uuid`, `cur`, `todo`, `removed` | the place in `CreateNamespace` or `DeleteNamespace`, the namespace, the DIMM, what is left of its loop, `RangesRemoved` |
| `fate` | history: what was reported to the caller about each namespace |
| `faults`, `crashes` | bounded counters of failed commands and power failures |

A checksum is the tuple of the fields it was computed over, so a label changed
after its checksum was computed no longer matches.  `WriteLabelStorageArea` says
which command of a write follows which: there is one (`all`) with the large payload
mailbox, otherwise one per 64-byte chunk, two for an index block and four for a
label.  `WriteCommand` executes one; `WriteCommandFails` is a command that fails with or without having
reached the media.  `CreateNamespace` continues with
`InitializeLabelStorageArea`, `VerifyInit`, `InsertNamespaceLabels`,
`ModifyNamespaceLabels`/`ModifyLabelAtSlot` per DIMM; `InsertFails` and
`RollbackEnds` are its clean-up.  `DeleteNamespace` continues with
`RemoveNamespaceLabels`, `NextDimm` and `DeleteEnds`.  `DriverStart`,
`ReenumerateNamespacesAndISs` and `InitializeNamespaces` assemble the list.  The
code goes through the DIMMs one by one and skips what it has listed;
`InitializeNamespaces` says the same without a loop: a namespace is listed by the
first DIMM whose scan reaches a label of it.
GUIDs are fresh for every creation, so a `fate` is about one creation.

| run | question | bounds |
|---|---|---|
| `labels_large` | Are labels complete, unique and undisturbed across crashes and failed commands, and does the invariant of the proofs hold? | 2 DIMMs, 3 slots, 3 GUIDs, 1 fault, 2 crashes |
| `labels_small` | The same with small payloads, and is a deleted namespace gone? | 2 DIMMs, 4 slots, 3 GUIDs, no fault, no crash |

Two DIMMs are the least with which a namespace can be on some of its DIMMs only.
Three slots hold two namespaces and the spare slot `ModifyLabelAtSlot` needs, so
the third creation meets a full LSA.  Three GUIDs are enough for sequence numbers
to wrap around.  Two crashes allow one in a creation and one in what follows it.
Two faults instead of one also pass (362836 states).  GUIDs are symmetric.  A
fault in `labels_large` is a failed read, or a failed write that did not reach the
media.  Small payloads are checked without faults and crashes, and a write that
fails after reaching the media not at all, because with them the properties fail,
as listed below.

### Disagreements

- `labels_partial` (violation run: 2 DIMMs, 4 slots, 1 failed write): after a
  removal that failed on one DIMM the error is overwritten by success.

Seen while modelling, without a run (some of them need the fault kinds `label` and
`lost`, or crashes with small payloads):

- `GetLsaIndexes` compares sequence numbers and ignores validity; after a power
  failure between the two commands that write an index block the torn block can
  be taken for the current one.
- `InsertNamespaceLabels` sets `Slot` after the checksum has been computed; the
  label has a wrong checksum until its flag is cleared.
- `DeleteNamespace` visits only the DIMMs in `Range`; enumeration leaves out a DIMM
  whose label has other flags, and its label stays.
- The clean-up of a failed insertion skips the DIMM on which it failed, where the
  label may have been written.
- With small payloads a failed read of one label is swallowed and the zeroed label
  is later written back.

Not modelled here: labels of version 1.1, failed reads during enumeration, the PCD
cache of the OS build, locked and missing DIMMs, other systems writing labels, the
alignment arithmetic of the LSA sizes, and coincidental checksum matches.

### Proofs about labels

`LabelsProofs` proves for all constants that satisfy `LabelConstants`, that is for
any number of DIMMs, slots, GUIDs, faults and power failures:

- `LabelTyping`: `LabelSpec => []LabelTypeOK`, with large and small payloads and every
  kind of fault.
- With large payloads and every kind of fault: `CreatedStays`, `OneLabel`, `SpareSlot`,
  `CurrentIndexKept` and `OtherLabelsKept`, for `CreatedComplete`, `UniqueLabel`,
  `FreeSlotRemains`, `OldIndexKept` and `OthersKept`.  The run leaves out the fault
  `lost`; the theorems do not.
- With large payloads, when no write fails after it was carried out
  (`"lost" \notin FaultKinds`): `ListIsTrue` and `UndoneLeavesNothing`, for
  `HealthyComplete` and `UndoneClean`.  The assumption is needed: the clean-up skips
  the DIMM on which the insertion failed.
- With large payloads: `DeletedLeavesNothing`, `LabelSpec => [](Quiet => DeletedGone)`,
  where `Quiet` says that no command and no power has failed so far.  The run
  `labels_partial` shows that after a failed command `DeletedGone` does not hold.

Four invariants carry them, each resting on `TypeInv` and the last two on `LargeInv`.
Their conjunction `LabelInvariant` is checked by `labels_large` and proved as
`LabelInvariance`.

- `TypeInv`: the types, what `todo` holds at each place (`TodoOK`) and what the fate of
  the namespace in work can be (`RoleOK`).  That `RangesRemoved` cannot exceed the
  number of DIMMs needs the DIMMs still to come to be counted with it.
- `LargeInv`: every LSA is zero or `Formed` (two valid index blocks with different
  sequence numbers, a free slot, zeros in free slots, one label per namespace in used
  ones); what is being written was made from what is still on the media (`Buffer`); a
  namespace has no label before its creation and a complete set after it (`Standing`);
  in between the DIMMs below `cur` have been dealt with (`Progress`).  None of the
  properties is inductive without `Buffer`, since a write is decided in one step and
  done in another; `UniqueLabel` and `CreatedComplete` need `Standing` for namespaces
  not yet created, whose labels would otherwise be found twice; `SpareSlot` needs the
  whole of `Formed`, because the label that `ModifyLabelAtSlot` moves frees its slot
  only if it was in a used one.
- `KnownInv`: the clean-up has been at every DIMM that is not in `todo` (`RolledBack`),
  a namespace is not listed as healthy before its creation is complete (`NotListed`),
  and what is listed as healthy is (`ListedHealthy`), except while it is being deleted.
- `CalmInv`: as long as nothing has failed, only created namespaces and the one in
  work have labels (`Accounted`), what is listed is on all DIMMs (`ListedWhole`), and a
  removal has labels left on exactly the DIMMs in `todo` (`Removal`).  Without it the
  DIMMs in `Range`, which `DeleteNamespace` visits, need not be all that have a label.

The operators have lemmas of their own: what inserting, modifying and removing do to a
formed LSA (`InsertedFormed`, `ModifiedFormed`, `RemovedFormed`), that updating an
index makes the other block current (`UpdateOrder`, where sequence numbers wrap), and
that a write changes no label of another namespace (`PutFacts`, `MediaStep`).  The
lemmas `TypeStep`, `LargeStep`, `KnownStep` and `CalmStep` have one step per handler.

Only model-checked: small payloads, beyond `LabelTyping`.  There a write is a series of
commands, and an invariant has to say what is on the media after each of them; the run
`labels_small` covers it without faults, the only case in which the properties hold.

## Goals (`Goals`)

A goal is stored as a Configuration Input table (CIN) on every DIMM of the
interleave set it asks for.  At the next boot the BIOS answers with a Configuration
Output table (COUT) that repeats the sequence number; a CIN without such an answer
is pending.

| model | code |
|---|---|
| `pcd` | header, CIN and COUT of each DIMM; bytes of a CIN can outlive the reference in the header |
| `lsa` | the label storage area: old, zeroed or initialised |
| `region` | the interleave sets the BIOS has configured |
| `goals`, `config`, `synced` | `pRegionsGoal`, `RegionsGoalConfig`, `PcdSynced` of each DIMM |
| `op`, `todo`, `pc`, `left` | the request, the sockets left of a goal file, the loop and the DIMMs it has not reached |
| `cin`, `chunk` | the table being sent and the next command of the write |
| `clean`, `last`, `want`, `spoiled` | history: whether the rollback met an error, what was returned, the goals computed, DIMMs of failed requests that were not rolled back |

`CreateGoalConfig`, `LoadGoalConfig` with `LoadSocket`, and `DeleteGoalConfig` read
the PCD of all DIMMs, check the request (`CreateAllowed`, `DeleteAllowed`), compute
goals (`MapRegionsGoal`) and continue as `ApplyGoalConfigsToDimms`: `ClearStep`
removes the old CINs, `GeneratePcdConfInput` and `SendStep` send the new ones,
`ApplyFails` starts the rollback (`UndoStep`, `UndoFails`, `UndoDone`), and a
creation ends with `ZeroLabelStorageArea` and `InitializeLabelStorageArea`.
`FwCmdSetPlatformConfigData` gives the tables a command can leave behind, with and
without large payload.  `Reboot` is the BIOS (external) and, in the middle of an
operation, a power failure.

The run `goals` has four DIMMs on two sockets, one of them in an unsupported
configuration, two with large and two with small payloads, one failing command
outside of rollbacks, any number inside, and one power failure in an operation;
687668 states.  Two sockets and two DIMMs on one of them are the least with which
requests can overlap or a set be split.  Interleave set indexes go up to 2; with 3
the properties hold as well (10048939 states, a quarter of an hour).

Seen while modelling:
- A failure reported as `EFI_INVALID_PARAMETER` is not rolled back: part of the
  DIMMs keep the new goal.  `spoiled` marks them, and `GoalsWhole` excepts them.
- The rollback also removes the CIN of DIMMs in an unsupported configuration.
- Torn between the header and the CIN, a small-payload write can expose an old CIN
  again.  `LargestIndex` looks at configured regions only when no goal is pending,
  so that after such a failure a new set can get the index of a region; hence the
  condition `faults = 0` in `IndexUnique`.
- `SendConfigInputToDimm` removes the COUT, so every new CIN has number 1.
- The last 64-byte chunk is copied from beyond the end of the buffer.
- When the labels cannot be initialised an error is returned, but the goals stay.
- `LoadGoalConfig` stops at the first failing socket; earlier sockets keep theirs.

### Proofs about goals

`GoalsProofs` proves for all constants that satisfy `GoalConstants` (any numbers of
DIMMs, sockets, faults and power failures): `GoalTypes`, `CreationsComplete`,
`NothingLeftBehind`, `OthersKept`, `WholeGoals` and `UniqueIndexes`, one for each
property of the run.

Two invariants carry them.  `GoalInv` follows one request: which DIMMs it may touch
(`Targeted`), that the goals in memory are the ones computed (`Computed`), what the
DIMMs passed by the removing, sending and labelling loops hold (`Removing`,
`Sending`, `Labelling`), and what was returned (`Returned`).  That the loops run
over exactly the DIMMs of the request is not local to any action: it follows from
`synced` and `config` as `RetrieveGoalConfigs...` and the request left them.
`SetInv` follows the sets: a DIMM has only goals that contain it (`OwnGoals`), the
computed sets are whole and numbered above all that are pending (`Planned`), and
sets no request is about are whole and share no index (`Settled`).  The numbering
rests on lemmas about cardinalities: the rank of a socket, or of a DIMM, grows
strictly (`RanksDiffer`).

## Firmware update (`FwUpdate`)

| model | code |
|---|---|
| `longop`, `got`, `staged`, `version` | the DIMM (external): its long operation, the packets received, the staged image, how the image compares with the running firmware |
| `recovery`, `force`, `targets`, `asked` | the options of the load command, the answer to its prompt |
| `tries`, `polls`, `packet`, `checks` | `CurrentRetryCount`, `RetryCount`, `CurrentPacket`, `CurrentStageCheck` |
| `nvm`, `codes`, `sent`, `waiting`, `result` | `NvmStatus`, `NvmCodes`, `ReturnCodes`, `FwStageDone`, `ReturnCode` |
| `took`, `agreed` | history: who accepted the image, who may be downgraded |

`Load` starts a command.  Per DIMM: `AlreadyStaged`/`NotStaged`, `Verify`,
`Prompt`, then the upload (`SendLarge` with `LargeBusy`, `GetARS` and
`PollOnArsDeviceBusy` when a scrub runs; or `SendPacket`), and after a failure
`CheckForLongOpStatusInProgress`.  `StageDone` to `StageRound` are the rounds of
`BlockForFwStage`, `Report` the merging of return codes.  `Stages`, `StageFails`
and `ScrubEnds` are the DIMMs, which run on their own.

The run `fwupdate` has two DIMMs, one with large and one with small payloads, an
image of three packets (the least the code accepts), two commands, one power cycle,
one lost command or answer, three attempts, two polls and two staging rounds;
411421 states.  The bounds of the code (80 rounds, for instance) are constants of
the model, and the proofs hold for all values.  `LoadEnds` is checked under
`WF_fwVars(Command)`: the command goes on executing.  No fairness is assumed of the
DIMMs, so it shows that a DIMM that stays busy for ever does not hold up the command.

`fw_recover` is a disagreement: when the BSR of a DIMM cannot be read,
`ValidateImageVersion` fails with `NvmStatus` still `NVM_SUCCESS`, and `UpdateFw`
returns success for a DIMM it has not touched; a recovery reports it as updated.

Seen while modelling: a retry with force that fails leaves `NvmCodes` at the code of
the first call; an image staged after the last round is reported as a failure; the
result of `FwCmdDisableARS` is ignored by its callers.

`FwProofs` proves for all constants that satisfy `FwConstants`: `TypeCorrect`,
`ImagesWhole`, `DowngradesAgreed`, `ReportsStaged` and `ResultsTruthful`.  The
assumption that a version that fails the `oie` comparison fails the security one too
reflects that the bit is read only then.  The invariants: `Transfer` says that what
a DIMM holds is what was sent (`Held`), in order up to the current packet
(`InOrder`), and only with the agreement the comparison asks for (`Agreement`);
`Outcome` relates the codes and results collected so far to the DIMMs.  Liveness is
model-checked only.

## Not modelled

- **Size arithmetic**: arena sizes in `BttWriteLayout`, the alignment of label
  storage areas, capacities and interleave sizes of goals.  It works on fixed 64-bit
  quantities that a small instance cannot stand for; the models take its results as
  constants or inputs.
- **Block I/O** (`NvmDimmBlockIo.c`) and **page frame number namespaces** (`Pfn.c`):
  range checks and loops over single-block operations, without state of their own.
  A transfer that fails in the middle leaves its first blocks written, which the
  protocol allows.
- **Security state** (`NvmSecurity.c`, `SetSecurityState`): the state is the DIMM's;
  the driver checks a table and sends one command per DIMM, stopping at the first
  error.  Its refusals are part of `Refused` in `Goals`.
- **Mailbox registers** and the pass-through of operating systems: the other side is
  hardware or another kernel.  The models contain commands that fail, with or
  without effect where the code meets that.
- **Driver binding, playback and record, command status, API**: no persistent state,
  one thread (the library declares itself not thread-safe).  Noted while reading:
  `nvm_uninit` unloads the driver but leaves `g_nvm_initialized` set, so that the next
  `nvm_init` returns success without starting it.
- **ACPI and SMBIOS parsing, diagnostics, command syntax and output, helpers,
  imported EDK2 packages**: parsing and formatting.
- In the modelled parts: memory allocation failures; label version 1.1; recovery of
  firmware over the SPI flash and the `-examine` option; `DeletePcd`; `BttCheck` and
  `BttArenaSetFlag`, which nothing reaches.

The modelled parts are a small share of the repository, most of which is imported
packages, command line, tables and formatting.
