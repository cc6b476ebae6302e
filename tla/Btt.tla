-------------------------------- MODULE Btt --------------------------------
(***************************************************************************)
(* The block translation table of a namespace: driver/Core/Btt.c, with the *)
(* byte access of driver/Core/Namespace.c under it and the steps of        *)
(* CreateNamespace, DeleteNamespace and of the namespace enumeration that  *)
(* open and close it.                                                      *)
(*                                                                         *)
(* The driver is single-threaded; what interleaves with it is the power    *)
(* failure, the eviction of dirty cache lines and, while the driver is not *)
(* running, another operating system.  Every persistent write is a step of *)
(* its own, a write of more than one cache line is two (the block is Torn  *)
(* between them).                                                          *)
(***************************************************************************)
EXTENDS Integers

CONSTANTS
  NArenas,          \* number of arenas (pBtt->NArenas)
  ExternalNLbas,    \* LBAs of an arena, the same for each
  NFree,            \* flog pairs, and spare blocks, of an arena
  EntriesPerLine,   \* map entries in one BTT_MAP_ENTRIES
  FlogsPerBlock,    \* flog pairs in BTT_ALIGNMENT bytes
  Values, Zero,     \* block contents and the content of a zeroed block
  Torn,             \* the content of a half-written block
  Lost,             \* stands for a block flagged unreadable
  CachePersistent,  \* do dirty cache lines survive a power failure
  BadSets,          \* the address sets the platform may report as bad
  ForeignKinds,     \* what happens to the media while the driver is down
  MaxForeign        \* bound on the number of such events

ASSUME BttAssumptions ==
  /\ NArenas \in Nat \ {0}
  /\ NFree \in Nat \ {0}
  /\ ExternalNLbas \in Nat
  /\ ExternalNLbas >= NFree        \* InternalNLbas >= 2 * NFree
  /\ EntriesPerLine \in Nat \ {0}
  /\ FlogsPerBlock \in Nat \ {0}
  /\ Zero \in Values
  /\ Torn \notin Values
  /\ Lost \notin Values \cup {"err"}
  /\ {"none", "ok", "err"} \cap Values = {}
  /\ CachePersistent \in BOOLEAN
  /\ MaxForeign \in Nat

Arenas == 0 .. NArenas - 1
Lbas == 0 .. ExternalNLbas - 1
Lanes == 0 .. NFree - 1
Blocks == 0 .. ExternalNLbas + NFree - 1
Slots == {0, 1}

\* A map entry: the two flag bits, and the block it names.
Entry == [flag : {"initial", "zero", "error", "normal"}, blk : Blocks]
FlogEntry == [lba : Lbas, old : Entry, new : Entry, seq : 0 .. 3]
FlogPair == [Slots -> FlogEntry]

InitialEntry == [flag |-> "initial", blk |-> 0]
ZeroFlog == [lba |-> 0, old |-> InitialEntry, new |-> InitialEntry, seq |-> 0]
ZeroPair == [s \in Slots |-> ZeroFlog]
NoRuntime == [pair |-> ZeroPair, next |-> 0]

VARIABLES
  \* the media
  info, backup,     \* primary and backup info block of every arena
  map,              \* map[a][p]: map entry of pre-map LBA p of arena a
  flog,             \* flog[a][i][s]: half s of flog pair i, as the CPU sees it
  flogMedia,        \* the same, in the persistence domain
  data,             \* data[a][b]: block b of arena a
  ns,               \* do the label storage areas hold the namespace
  foreign,          \* number of foreign events so far
  \* the driver
  pc,               \* what the driver is doing
  ctx,              \* on whose behalf the layout is read or written
  cur, idx,         \* loop variables: arena; map line or flog pair
  req,              \* the write request: arena, pre-map LBA, content
  laidout,          \* pBtt->Laidout
  flags,            \* pArena->Flags
  rt,               \* pArena->pFlogs[0]: cached flog pair and Next
  bad,              \* gArsBadRecords
  out               \* what the last operation returned

media == <<info, backup, map, flog, flogMedia, data, ns, foreign>>
driver == <<pc, ctx, cur, idx, req, laidout, flags, rt, bad, out>>
vars == <<info, backup, map, flog, flogMedia, data, ns, foreign,
          pc, ctx, cur, idx, req, laidout, flags, rt, bad, out>>

-----------------------------------------------------------------------------
(* Helpers of Btt.c                                                        *)

BttGetMapFromLba(p) == p \div EntriesPerLine

\* (mutant) the sequence number stops at its largest value
NSEQSaturates(s) == IF s < 3 THEN s + 1 ELSE 3

NSEQ(s) == IF s = 0 THEN 0 ELSE IF s = 3 THEN 1 ELSE s + 1

\* The addresses of the structures, as the ARS list distinguishes them.
InfoLoc(a) == <<"info", a>>
BackupLoc(a) == <<"backup", a>>
MapLoc(a, p) == <<"map", a, BttGetMapFromLba(p)>>
FlogLoc(a, i) == <<"flog", a, i>>
DataLoc(a, b) == <<"data", a, b>>

\* BttReadInfo: signature, parent UUID and checksum.
BttReadInfo(state) == state \in {"valid", "error"}

\* The flog half whose sequence number is the later one; -1 is a layout error.
CurrentFlogIndex(s0, s1) ==
  IF s0 = s1 THEN -1
  ELSE IF s0 = 0 THEN 1
  ELSE IF s1 = 0 THEN 0
  ELSE IF NSEQ(s0) = s1 THEN 1
  ELSE IF s0 = NSEQ(s1) THEN 0
  ELSE -1

Current(a, i) == CurrentFlogIndex(flog[a][i][0].seq, flog[a][i][1].seq)
CurrentFlog(a, i) == flog[a][i][IF Current(a, i) = 1 THEN 1 ELSE 0]

\* An entry in its initial state stands for the identity.
MapEntry(a, p) ==
  IF map[a][p].flag = "initial" THEN [flag |-> "normal", blk |-> p] ELSE map[a][p]

\* The current flog entry logs a map update that did not reach the map.
Incomplete(a, i) ==
  LET f == CurrentFlog(a, i)
  IN  /\ f.old # f.new
      /\ f.new # MapEntry(a, f.lba)
      /\ f.old = MapEntry(a, f.lba)

\* (mutant) the wrong half of the pair
FreeMapOfNext(a) == [flag |-> "normal", blk |-> rt[a].pair[rt[a].next].old.blk]

\* The block that the next write on behalf of arena a goes to.
FreeMap(a) == [flag |-> "normal", blk |-> rt[a].pair[1 - rt[a].next].old.blk]

-----------------------------------------------------------------------------
(* Returning to a caller                                                   *)

NoReq == [a |-> 0, p |-> 0, v |-> Zero]

\* The operation ends with answer r; pBtt stays as it is.
Return(r) ==
  /\ pc' = "idle"
  /\ ctx' = "init" /\ cur' = 0 /\ idx' = 0 /\ req' = NoReq
  /\ out' = r
  /\ UNCHANGED <<laidout, flags, rt, bad>>

\* BttRelease, a failed BttInit, or a loss of power: no pBtt any more.
Gone(p) ==
  /\ pc' = p
  /\ ctx' = "init" /\ cur' = 0 /\ idx' = 0 /\ req' = NoReq
  /\ out' = "none"
  /\ laidout' = FALSE
  /\ flags' = [a \in Arenas |-> "ok"]
  /\ rt' = [a \in Arenas |-> NoRuntime]
  /\ bad' = {}

\* Continue at p with the loop variables at arena a, index i.
Goto(p, a, i) ==
  /\ pc' = p /\ cur' = a /\ idx' = i
  /\ out' = "none"

-----------------------------------------------------------------------------
(* Byte access: AppDirectIo refuses a range that the ARS list reports      *)

FirstFlogs == {i \in Lanes : i < FlogsPerBlock}

\* The ranges that the step at pc reads or writes.
Touched ==
  CASE pc = "zeromap"  -> {<<"map", cur, idx>>}
    [] pc = "zeroflog" -> {FlogLoc(cur, i) : i \in FirstFlogs}
    [] pc = "layflog"  -> {FlogLoc(cur, idx)}
    [] pc = "info"     -> {InfoLoc(cur)}
    [] pc = "backup"   -> {BackupLoc(cur)}
    [] pc = "readflog" -> {FlogLoc(cur, idx)} \cup
                          (IF CurrentFlog(cur, idx).old # CurrentFlog(cur, idx).new
                           THEN {MapLoc(cur, CurrentFlog(cur, idx).lba)} ELSE {})
    [] pc = "data"     -> {DataLoc(req.a, FreeMap(req.a).blk)}
    [] pc = "lock"     -> {MapLoc(req.a, req.p), FlogLoc(req.a, 0)}
    [] pc = "flog2"    -> {FlogLoc(req.a, 0)}
    [] pc = "map"      -> {MapLoc(req.a, req.p)}
    [] OTHER           -> {}

\* (mutant) BttMapLock drops the status of its read
ArsListExceptLock == pc # "lock" /\ Touched \cap bad # {}

\* (mutant) BttWriteLayout drops the status of its writes to the flog
ArsListExceptFlog == pc \notin {"zeroflog", "layflog"} /\ Touched \cap bad # {}

IsAddressRangeInArsList == Touched \cap bad # {}

-----------------------------------------------------------------------------
(* CreateNamespace and BttWriteLayout                                      *)

\* CreateNamespace picks a new GUID, so that no info block on the media is
\* one of this namespace, and BttInit finds no layout; BttWriteLayout starts.
CreateNamespace(b) ==
  /\ pc = "off" /\ ns = "absent"
  /\ info' = [a \in Arenas |-> "none"]
  /\ backup' = [a \in Arenas |-> "none"]
  /\ IF InfoLoc(0) \in b
     THEN Gone("off")
     ELSE /\ Goto("zeromap", 0, 0)
          /\ ctx' = "create"
          /\ bad' = b
          /\ UNCHANGED <<req, laidout, flags, rt>>
  /\ UNCHANGED <<map, flog, flogMedia, data, ns, foreign>>

LayoutSteps == {"zeromap", "zeroflog", "layflog", "info", "backup"}

\* A failed write ends BttWriteLayout: CreateNamespace gives up, BttWrite
\* returns the error.
BttWriteLayoutFails ==
  /\ pc \in LayoutSteps
  /\ IsAddressRangeInArsList
  /\ IF ctx = "create" THEN Gone("off") ELSE Return("err")
  /\ UNCHANGED media

\* (mutant) the loop ends one line early
LastMapLineShort == BttGetMapFromLba(ExternalNLbas - 1) - 1

LastMapLine == BttGetMapFromLba(ExternalNLbas - 1)

\* The loop that zeroes the map ...
LayoutZeroMap ==
  /\ pc = "zeromap"
  /\ ~IsAddressRangeInArsList
  /\ map' = [map EXCEPT ![cur] = [p \in Lbas |->
               IF BttGetMapFromLba(p) = idx THEN InitialEntry ELSE map[cur][p]]]
  /\ IF idx < LastMapLine THEN Goto("zeromap", cur, idx + 1) ELSE Goto("zeroflog", cur, 0)
  /\ UNCHANGED <<info, backup, flog, flogMedia, data, ns, foreign>>
  /\ UNCHANGED <<ctx, req, laidout, flags, rt, bad>>

\* ... runs once more than the map has blocks, over the head of the flog.
LayoutZeroFlog ==
  /\ pc = "zeroflog"
  /\ ~IsAddressRangeInArsList
  /\ flog' = [flog EXCEPT ![cur] = [i \in Lanes |->
                IF i \in FirstFlogs THEN ZeroPair ELSE flog[cur][i]]]
  /\ flogMedia' = [flogMedia EXCEPT ![cur] = [i \in Lanes |->
                     IF i \in FirstFlogs THEN ZeroPair ELSE flogMedia[cur][i]]]
  /\ Goto("layflog", cur, 0)
  /\ UNCHANGED <<info, backup, map, data, ns, foreign>>
  /\ UNCHANGED <<ctx, req, laidout, flags, rt, bad>>

\* (mutant) the spare blocks start one too far
InitialPairShifted(i) ==
  LET spare == [flag |-> "initial", blk |-> ExternalNLbas + i + 1]
  IN  [s \in Slots |->
        IF s = 0 THEN [lba |-> 0, old |-> spare, new |-> spare, seq |-> 1] ELSE ZeroFlog]

\* One flog pair: the first half owns a spare block, the second is zero.
InitialPair(i) ==
  LET spare == [flag |-> "initial", blk |-> ExternalNLbas + i]
  IN  [s \in Slots |->
        IF s = 0 THEN [lba |-> 0, old |-> spare, new |-> spare, seq |-> 1] ELSE ZeroFlog]

LayoutFlog ==
  /\ pc = "layflog"
  /\ ~IsAddressRangeInArsList
  /\ flog' = [flog EXCEPT ![cur][idx] = InitialPair(idx)]
  /\ flogMedia' = [flogMedia EXCEPT ![cur][idx] = InitialPair(idx)]
  /\ IF idx + 1 < NFree THEN Goto("layflog", cur, idx + 1) ELSE Goto("info", cur, 0)
  /\ UNCHANGED <<info, backup, map, data, ns, foreign>>
  /\ UNCHANGED <<ctx, req, laidout, flags, rt, bad>>

\* The info block goes to the head and then to the tail of the arena.
LayoutInfo ==
  /\ pc \in {"info", "info2"}
  /\ ~IsAddressRangeInArsList
  /\ info' = [info EXCEPT ![cur] = IF pc = "info" THEN "torn" ELSE "valid"]
  /\ Goto(IF pc = "info" THEN "info2" ELSE "backup", cur, 0)
  /\ UNCHANGED <<backup, map, flog, flogMedia, data, ns, foreign>>
  /\ UNCHANGED <<ctx, req, laidout, flags, rt, bad>>

LayoutBackup ==
  /\ pc \in {"backup", "backup2"}
  /\ ~IsAddressRangeInArsList
  /\ backup' = [backup EXCEPT ![cur] = IF pc = "backup" THEN "torn" ELSE "valid"]
  /\ \/ pc = "backup" /\ Goto("backup2", cur, 0)
     \/ pc = "backup2" /\ cur + 1 < NArenas /\ Goto("zeromap", cur + 1, 0)
     \/ pc = "backup2" /\ cur + 1 = NArenas /\ Goto("readflog", 0, 0)
  /\ UNCHANGED <<info, map, flog, flogMedia, data, ns, foreign>>
  /\ UNCHANGED <<ctx, req, laidout, flags, rt, bad>>

\* The labels of the new namespace go to the label storage areas, after the
\* layout.
InsertNamespaceLabels ==
  /\ pc = "label"
  /\ ns' = "present"
  /\ Return("ok")
  /\ UNCHANGED <<info, backup, map, flog, flogMedia, data, foreign>>

InsertNamespaceLabelsFails ==
  /\ pc = "label"
  /\ Gone("off")
  /\ UNCHANGED media

-----------------------------------------------------------------------------
(* Opening: the enumeration of namespaces, BttInit and BttReadLayout       *)

\* CheckBttExistence looks at the info blocks of the first arena only.
CheckBttExistence(b) ==
  /\ InfoLoc(0) \notin b
  /\ \/ BttReadInfo(info[0])
     \/ BackupLoc(0) \notin b /\ BttReadInfo(backup[0])

LayoutFound == \A a \in Arenas : BttReadInfo(info[a])

\* BttReadLayout reads the arenas in order, up to the first invalid one.
ReadLayoutFails(b) ==
  \E a \in Arenas : InfoLoc(a) \in b /\ \A c \in 0 .. a - 1 : BttReadInfo(info[c])

BttInit(b) ==
  /\ pc = "off" /\ ns = "present"
  /\ CheckBttExistence(b)
  /\ ~ReadLayoutFails(b)
  /\ IF LayoutFound THEN Goto("readflog", 0, 0) ELSE Goto("idle", 0, 0)
  /\ bad' = b
  /\ UNCHANGED <<ctx, req, laidout, flags, rt>>
  /\ UNCHANGED media

BttInitFails(b) ==
  /\ pc = "off" /\ ns = "present"
  /\ ~CheckBttExistence(b) \/ ReadLayoutFails(b)
  /\ Gone("failed")
  /\ UNCHANGED media

\* Who asked for the arenas to be read goes on.
AfterOpen ==
  IF ctx = "init" THEN "idle" ELSE IF ctx = "create" THEN "label" ELSE "data"

\* (mutant) only the driver's own lane is recovered
RedoMapOfLane0 ==
  IF idx = 0 /\ Incomplete(cur, idx)
  THEN [map EXCEPT ![cur][CurrentFlog(cur, idx).lba] = CurrentFlog(cur, idx).new]
  ELSE map

\* The map update that the flog pair logs is redone if it did not complete.
RedoMap ==
  IF Incomplete(cur, idx)
  THEN [map EXCEPT ![cur][CurrentFlog(cur, idx).lba] = CurrentFlog(cur, idx).new]
  ELSE map

\* (mutant) every lane is cached in the same place
CacheEveryLane ==
  [rt EXCEPT ![cur] = [pair |-> flog[cur][idx], next |-> 1 - Current(cur, idx)]]

\* The driver writes on lane 0 only, so only its flog pair is used later.
CacheFlog ==
  IF idx = 0
  THEN [rt EXCEPT ![cur] = [pair |-> flog[cur][0], next |-> 1 - Current(cur, 0)]]
  ELSE rt

\* BttReadArenas: one flog pair of one arena per step.
BttReadFlogPair ==
  /\ pc = "readflog"
  /\ ~IsAddressRangeInArsList
  /\ Current(cur, idx) # -1
  /\ map' = RedoMap
  /\ rt' = CacheFlog
  /\ flags' = [flags EXCEPT ![cur] = IF info[cur] = "error" THEN "error" ELSE "ok"]
  /\ \/ idx + 1 < NFree /\ Goto("readflog", cur, idx + 1)
     \/ idx + 1 = NFree /\ cur + 1 < NArenas /\ Goto("readflog", cur + 1, 0)
     \/ idx + 1 = NFree /\ cur + 1 = NArenas /\ Goto(AfterOpen, 0, 0)
  /\ laidout' = (idx + 1 = NFree /\ cur + 1 = NArenas)
  /\ UNCHANGED <<info, backup, flog, flogMedia, data, ns, foreign>>
  /\ UNCHANGED <<ctx, req, bad>>

\* BttWriteLayout ignores the outcome when it reads back what it wrote;
\* ReadBackSucceeds states that there is nothing to ignore.
BttReadFlogPairFails ==
  /\ pc = "readflog" /\ ctx = "init"
  /\ IsAddressRangeInArsList \/ Current(cur, idx) = -1
  /\ Gone("failed")
  /\ UNCHANGED media

-----------------------------------------------------------------------------
(* Reading and writing a block                                             *)

\* (mutant) the error flag is ignored
ReadAnswerNoError(a, p) ==
  IF ~laidout                                    THEN Zero
  ELSE IF MapLoc(a, p) \in bad                   THEN "err"
  ELSE IF map[a][p].flag \in {"zero", "initial"} THEN Zero
  ELSE IF DataLoc(a, map[a][p].blk) \in bad      THEN "err"
  ELSE data[a][map[a][p].blk]

\* The answer of BttRead: without a layout every block is zero.
BttReadAnswer(a, p) ==
  IF ~laidout                                    THEN Zero
  ELSE IF MapLoc(a, p) \in bad                   THEN "err"
  ELSE IF map[a][p].flag = "error"               THEN "err"
  ELSE IF map[a][p].flag \in {"zero", "initial"} THEN Zero
  ELSE IF DataLoc(a, map[a][p].blk) \in bad      THEN "err"
  ELSE data[a][map[a][p].blk]

BttRead(a, p) ==
  /\ pc = "idle"
  /\ Return(BttReadAnswer(a, p))
  /\ UNCHANGED media

\* The first write to a namespace without a layout writes one.
BttWrite(a, p, v) ==
  /\ pc = "idle"
  /\ laidout => flags[a] = "ok"
  /\ req' = [a |-> a, p |-> p, v |-> v]
  /\ IF laidout THEN Goto("data", 0, 0) ELSE Goto("zeromap", 0, 0)
  /\ ctx' = "write"
  /\ UNCHANGED <<laidout, flags, rt, bad>>
  /\ UNCHANGED media

\* An arena in the error state is read-only.
BttWriteRefused(a) ==
  /\ pc = "idle"
  /\ laidout /\ flags[a] # "ok"
  /\ Return("err")
  /\ UNCHANGED media

\* (mutant) the error is dropped
BttWriteFailsSilently ==
  /\ pc \in {"data", "lock"}
  /\ IsAddressRangeInArsList
  /\ Return("ok")
  /\ UNCHANGED media

\* (mutant) no way out when the map line cannot be read
BttWriteFailsOnData ==
  /\ pc = "data"
  /\ IsAddressRangeInArsList
  /\ Return("err")
  /\ UNCHANGED media

\* The data, or the map line to be locked, cannot be accessed.
BttWriteFails ==
  /\ pc \in {"data", "lock"}
  /\ IsAddressRangeInArsList
  /\ Return("err")
  /\ UNCHANGED media

\* (mutant) the flog is updated before the whole block is written
WriteDataInPart ==
  /\ pc \in {"data", "data2"}
  /\ ~IsAddressRangeInArsList
  /\ data' = [data EXCEPT ![req.a][FreeMap(req.a).blk] = IF pc = "data" THEN Torn ELSE req.v]
  /\ Goto("lock", 0, 0)
  /\ UNCHANGED <<info, backup, map, flog, flogMedia, ns, foreign>>
  /\ UNCHANGED <<ctx, req, laidout, flags, rt, bad>>

\* The data goes to the spare block.
WriteData ==
  /\ pc \in {"data", "data2"}
  /\ ~IsAddressRangeInArsList
  /\ data' = [data EXCEPT ![req.a][FreeMap(req.a).blk] = IF pc = "data" THEN Torn ELSE req.v]
  /\ Goto(IF pc = "data" THEN "data2" ELSE "lock", 0, 0)
  /\ UNCHANGED <<info, backup, map, flog, flogMedia, ns, foreign>>
  /\ UNCHANGED <<ctx, req, laidout, flags, rt, bad>>

\* A flog write of 8 bytes flushes no cache line: AppDirectIo flushes
\* Nbytes / CACHE_LINE_SIZE of them.
PersistFlog == flogMedia' = IF CachePersistent THEN flog' ELSE flogMedia

\* BttMapLock reads the old map entry; BttFlogUpdate sets the cached flog and
\* writes Lba and OldMap of the flog half that is not current ...
BttFlogUpdate1 ==
  /\ pc = "lock"
  /\ ~IsAddressRangeInArsList
  /\ LET a == req.a
         n == rt[a].next
         f == [lba |-> req.p, old |-> MapEntry(a, req.p), new |-> FreeMap(a),
               seq |-> NSEQ(rt[a].pair[1 - n].seq)]
     IN  /\ rt' = [rt EXCEPT ![a].pair[n] = f]
         /\ flog' = [flog EXCEPT ![a][0][n] = [@ EXCEPT !.lba = f.lba, !.old = f.old]]
  /\ PersistFlog
  /\ Goto("flog2", 0, 0)
  /\ UNCHANGED <<info, backup, map, data, ns, foreign>>
  /\ UNCHANGED <<ctx, req, laidout, flags, bad>>

\* ... then NewMap and Seq, which make it the current one.
BttFlogUpdate2 ==
  /\ pc = "flog2"
  /\ ~IsAddressRangeInArsList
  /\ LET a == req.a
         n == rt[a].next
         f == rt[a].pair[n]
     IN  /\ flog' = [flog EXCEPT ![a][0][n] = [@ EXCEPT !.new = f.new, !.seq = f.seq]]
         /\ rt' = [rt EXCEPT ![a].next = 1 - n]
  /\ PersistFlog
  /\ Goto("map", 0, 0)
  /\ UNCHANGED <<info, backup, map, data, ns, foreign>>
  /\ UNCHANGED <<ctx, req, laidout, flags, bad>>

\* BttMapUnlock writes the map line.  LateStepsCannotFail states that its
\* error branch is dead.
BttMapUnlock ==
  /\ pc = "map"
  /\ ~IsAddressRangeInArsList
  /\ map' = [map EXCEPT ![req.a][req.p] = rt[req.a].pair[1 - rt[req.a].next].new]
  /\ Return("ok")
  /\ UNCHANGED <<info, backup, flog, flogMedia, data, ns, foreign>>

-----------------------------------------------------------------------------
(* Closing, deleting, losing power                                         *)

\* CleanNamespaces, when the driver stops or re-enumerates.
BttRelease ==
  /\ pc \in {"idle", "failed"}
  /\ Gone("off")
  /\ UNCHANGED media

DeleteNamespace ==
  /\ pc \in {"idle", "failed"}
  /\ ns' = "absent"
  /\ Gone("off")
  /\ UNCHANGED <<info, backup, map, flog, flogMedia, data, foreign>>

\* No label could be removed; the BTT has been released all the same.
DeleteNamespaceFails ==
  /\ pc = "idle"
  /\ Gone("failed")
  /\ UNCHANGED media

\* The cache writes a dirty line back whenever it likes.
EvictFlog(a, i) ==
  /\ flogMedia[a][i] # flog[a][i]
  /\ flogMedia' = [flogMedia EXCEPT ![a][i] = flog[a][i]]
  /\ UNCHANGED <<info, backup, map, flog, data, ns, foreign>>
  /\ UNCHANGED driver

PowerFail ==
  /\ Gone("off")
  /\ flog' = flogMedia
  /\ UNCHANGED <<info, backup, map, flogMedia, data, ns, foreign>>

-----------------------------------------------------------------------------
(* What else happens to the media while this driver is not running.  The   *)
(* operating system's own BTT driver uses every lane; it is external code, *)
(* modelled by the format this driver reads.                               *)

Foreign(kind) ==
  /\ pc = "off" /\ ns = "present" /\ LayoutFound
  /\ kind \in ForeignKinds
  /\ foreign < MaxForeign
  /\ foreign' = foreign + 1
  /\ UNCHANGED <<ns, driver>>

\* No lane has an update of pre-map LBA p in flight.
Settled(a, p) == \A i \in Lanes : Incomplete(a, i) => CurrentFlog(a, i).lba # p

\* A block write on lane i, cut short before the map update unless complete.
ForeignWrite(a, i, p, v, complete) ==
  /\ Foreign("write")
  /\ info[a] = "valid"
  /\ Current(a, i) # -1 /\ ~Incomplete(a, i) /\ Settled(a, p)
  /\ LET f == CurrentFlog(a, i)
         new == [flag |-> "normal", blk |-> f.old.blk]
         g == [lba |-> p, old |-> MapEntry(a, p), new |-> new, seq |-> NSEQ(f.seq)]
     IN  /\ data' = [data EXCEPT ![a][new.blk] = v]
         /\ flog' = [flog EXCEPT ![a][i][1 - Current(a, i)] = g]
         /\ flogMedia' = [flogMedia EXCEPT ![a][i] = [flog[a][i] EXCEPT ![1 - Current(a, i)] = g]]
         /\ map' = IF complete THEN [map EXCEPT ![a][p] = new] ELSE map
  /\ UNCHANGED <<info, backup>>

\* A block is trimmed or declared unreadable.
ForeignMark(a, p, flag) ==
  /\ Foreign(flag)
  /\ info[a] = "valid"
  /\ Settled(a, p)
  /\ map' = [map EXCEPT ![a][p] = [flag |-> flag, blk |-> MapEntry(a, p).blk]]
  /\ UNCHANGED <<info, backup, flog, flogMedia, data>>

\* An arena is put into the error state.
ForeignError(a) ==
  /\ Foreign("arena")
  /\ info' = [info EXCEPT ![a] = "error"]
  /\ backup' = [backup EXCEPT ![a] = "error"]
  /\ UNCHANGED <<map, flog, flogMedia, data>>

\* A primary info block is damaged.
ForeignDamage(a) ==
  /\ Foreign("damage")
  /\ info' = [info EXCEPT ![a] = "torn"]
  /\ UNCHANGED <<backup, map, flog, flogMedia, data>>

-----------------------------------------------------------------------------
Init ==
  /\ info = [a \in Arenas |-> "none"]
  /\ backup = [a \in Arenas |-> "none"]
  /\ map = [a \in Arenas |-> [p \in Lbas |-> InitialEntry]]
  /\ flog = [a \in Arenas |-> [i \in Lanes |-> ZeroPair]]
  /\ flogMedia = flog
  /\ data = [a \in Arenas |-> [b \in Blocks |-> Zero]]
  /\ ns = "absent" /\ foreign = 0
  /\ pc = "off" /\ ctx = "init" /\ cur = 0 /\ idx = 0 /\ req = NoReq
  /\ laidout = FALSE
  /\ flags = [a \in Arenas |-> "ok"]
  /\ rt = [a \in Arenas |-> NoRuntime]
  /\ bad = {}
  /\ out = "none"

\* Steps the driver takes by itself once it has started something.
Progress ==
  \/ BttWriteLayoutFails \/ LayoutZeroMap \/ LayoutZeroFlog \/ LayoutFlog
  \/ LayoutInfo \/ LayoutBackup
  \/ InsertNamespaceLabels \/ InsertNamespaceLabelsFails
  \/ BttReadFlogPair \/ BttReadFlogPairFails
  \/ BttWriteFails \/ WriteData \/ BttFlogUpdate1 \/ BttFlogUpdate2 \/ BttMapUnlock

Request ==
  \/ \E b \in BadSets : CreateNamespace(b) \/ BttInit(b) \/ BttInitFails(b)
  \/ \E a \in Arenas, p \in Lbas :
       BttRead(a, p) \/ \E v \in Values : BttWrite(a, p, v)
  \/ \E a \in Arenas : BttWriteRefused(a)
  \/ BttRelease \/ DeleteNamespace \/ DeleteNamespaceFails

Environment ==
  \/ PowerFail
  \/ \E a \in Arenas : ForeignError(a) \/ ForeignDamage(a)
  \/ \E a \in Arenas, i \in Lanes :
       \/ EvictFlog(a, i)
       \/ \E p \in Lbas, v \in Values, c \in BOOLEAN : ForeignWrite(a, i, p, v, c)
  \/ \E a \in Arenas, p \in Lbas, f \in {"zero", "error"} : ForeignMark(a, p, f)

Next == Progress \/ Request \/ Environment

Spec == Init /\ [][Next]_vars

\* The processor keeps executing an operation it has begun.
FairSpec == Spec /\ WF_vars(Progress)

-----------------------------------------------------------------------------
(* Properties                                                              *)

InfoStates == {"none", "torn", "valid", "error"}
Pcs == {"off", "failed", "idle", "zeromap", "zeroflog", "layflog", "info", "info2",
        "backup", "backup2", "readflog", "label", "data", "data2", "lock", "flog2", "map"}
Runtime == [pair : FlogPair, next : Slots]

MediaTypes ==
  /\ info \in [Arenas -> InfoStates] /\ backup \in [Arenas -> InfoStates]
  /\ map \in [Arenas -> [Lbas -> Entry]]
  /\ flog \in [Arenas -> [Lanes -> FlogPair]]
  /\ flogMedia \in [Arenas -> [Lanes -> FlogPair]]
  /\ data \in [Arenas -> [Blocks -> Values \cup {Torn}]]
  /\ ns \in {"absent", "present"}
  /\ foreign \in 0 .. MaxForeign

DriverTypes ==
  /\ pc \in Pcs
  /\ ctx \in {"init", "create", "write"}
  /\ cur \in Arenas
  /\ idx \in Nat
  /\ pc \in {"layflog", "readflog"} => idx \in Lanes
  /\ req \in [a : Arenas, p : Lbas, v : Values]
  /\ laidout \in BOOLEAN
  /\ flags \in [Arenas -> {"ok", "error"}]
  /\ rt \in [Arenas -> Runtime]
  /\ bad \in BadSets \cup {{}}
  /\ out \in Values \cup {Torn, "none", "ok", "err"}

\* Every variable stays in its domain: no step of Btt.c computes a block
\* number, sequence number or loop index outside the structure it indexes.
TypeOK == MediaTypes /\ DriverTypes

\* The block that lane i keeps in reserve: the one a logged but incomplete
\* update will move into the map, otherwise the one its last update freed.
Spare(a, i) ==
  IF Incomplete(a, i) THEN CurrentFlog(a, i).new.blk ELSE CurrentFlog(a, i).old.blk

Owned(a) ==
  /\ \A p, q \in Lbas : p # q => MapEntry(a, p).blk # MapEntry(a, q).blk
  /\ \A i, j \in Lanes : i # j => Spare(a, i) # Spare(a, j)
  /\ \A p \in Lbas, i \in Lanes : MapEntry(a, p).blk # Spare(a, i)

\* In a namespace with a layout every data block has one owner: it is mapped
\* by one LBA or it is the spare of one flog pair, so that BttWrite never
\* writes into a block some LBA still reads (Btt.c:1716-1742).
BlockOwnership == ns = "present" /\ LayoutFound => \A a \in Arenas : Owned(a)

\* After any crash each flog pair still has exactly one current half, in the
\* cache and in the persistence domain, so that BttReadFlogPair finds it
\* (the interesting cases of Btt.c:432-438).
FlogReadable ==
  ns = "present" /\ LayoutFound =>
    \A a \in Arenas, i \in Lanes :
      /\ Current(a, i) # -1
      /\ CurrentFlogIndex(flogMedia[a][i][0].seq, flogMedia[a][i][1].seq) # -1

\* No LBA ever maps, or is about to map, a block that was written only in
\* part: a block write is atomic.
NoTornBlock ==
  ns = "present" /\ LayoutFound =>
    \A a \in Arenas :
      /\ \A p \in Lbas : map[a][p].flag = "normal" => data[a][map[a][p].blk] # Torn
      /\ \A i \in Lanes : Incomplete(a, i) => data[a][CurrentFlog(a, i).new.blk] # Torn

\* An open namespace has no logged update left to redo, on any lane, except
\* the one its own BttWrite has just logged.
RecoveryComplete ==
  laidout => \A a \in Arenas, i \in Lanes :
               Incomplete(a, i) => pc = "map" /\ a = req.a /\ i = 0

\* The flog pair cached in pArena->pFlogs[0] is the one on the media whenever
\* BttWrite chooses its free block from it.
RuntimeCurrent ==
  laidout /\ pc \in {"idle", "data", "data2", "lock"} =>
    \A a \in Arenas :
      /\ rt[a].next = 1 - Current(a, 0)
      /\ rt[a].pair = flog[a][0]

\* Once BttWrite has touched the flog no later access of it can be refused:
\* the lines were read before, and the ARS list does not change.  The branch
\* of BttWrite that sets the arena error flag is dead (Btt.c:1775-1779).
LateStepsCannotFail == pc \in {"flog2", "map"} => ~IsAddressRangeInArsList

\* BttWriteLayout ignores the status of the BttReadArenas that follows it
\* (Btt.c:1072-1075); what has just been written can always be read back.
ReadBackSucceeds ==
  pc = "readflog" /\ ctx # "init" => ~IsAddressRangeInArsList /\ Current(cur, idx) # -1

\* What the comment on BttReadArenas says (Btt.c:118): the layout it is
\* called on is valid.
LayoutKnownValid == pc = "readflog" => \A a \in Arenas : Owned(a)

\* Every operation the driver begins comes to an end: the loops of
\* BttWriteLayout and BttReadArenas terminate and BttWrite returns.
Resting == pc \in {"off", "failed", "idle"}
OperationEnds == ~Resting ~> Resting

-----------------------------------------------------------------------------
(* The BTT implements an atomic disk                                       *)

\* What a map entry stands for.
Deref(a, e) ==
  CASE e.flag = "normal" -> data[a][e.blk]
    [] e.flag = "error"  -> Lost
    [] OTHER             -> Zero

\* The content of an LBA once the logged updates are redone.
Content(a, p) ==
  LET redo == {i \in Lanes : Incomplete(a, i) /\ CurrentFlog(a, i).lba = p}
  IN  IF redo # {} THEN Deref(a, CurrentFlog(a, CHOOSE i \in redo : TRUE).new)
      ELSE Deref(a, map[a][p])

\* The blocks of the disk; they read as zeros while there is no namespace.
DiskStore ==
  [x \in Arenas \X Lbas |->
    IF ns = "present" /\ LayoutFound THEN Content(x[1], x[2]) ELSE Zero]

\* The write in progress takes effect when its flog entry becomes current.
DiskPend ==
  IF ctx = "write"
  THEN [st |-> IF pc = "map" THEN "done" ELSE "issued", l |-> <<req.a, req.p>>, v |-> req.v]
  ELSE [st |-> "idle", l |-> CHOOSE l \in Arenas \X Lbas : TRUE, v |-> Zero]

Disk == INSTANCE AtomicDisk WITH
  Disk <- Arenas \X Lbas, exists <- (ns = "present"), store <- DiskStore, pend <- DiskPend

\* A BTT namespace is an atomic disk: a block write takes effect as a whole or
\* not at all, an acknowledged write survives every later crash, no step
\* changes a block other than the one being written, and a new namespace
\* reads as zeros.
AtomicBlocks == Disk!DiskSpec
=============================================================================
