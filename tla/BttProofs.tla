----------------------------- MODULE BttProofs ------------------------------
(***************************************************************************)
(* The inductive invariant IInv of Btt, and the safety properties it       *)
(* implies.                                                                *)
(***************************************************************************)
EXTENDS BttSteps

-----------------------------------------------------------------------------
(* The invariant                                                           *)

\* Blank media and an unloaded driver satisfy the invariant.
THEOREM InvInit == Init => IInv
<1>1. SUFFICES ASSUME Init PROVE IInv
  OBVIOUS
<1>2. TypeOK
  BY Zenon, <1>1, TypeInit
<1>3. \A a \in Arenas : ~BttReadInfo(info[a])
  BY Zenon, <1>1 DEF Init, BttReadInfo
<1>4. ~LayoutFound /\ AllConsistent
  BY Zenon, <1>3, ConstantTypes DEF LayoutFound, AllConsistent
<1>5. Control /\ LayoutAhead /\ LayoutDone /\ Recovered /\ Caches /\ WriteProgress
  BY Zenon, <1>1, <1>4 DEF Init, Control, LayoutAhead, LayoutDone, Recovered, Caches, WriteProgress,
     LayoutPcs, Unformed, Writing
<1>6. QED
  BY Zenon, <1>1, <1>2, <1>4, <1>5 DEF Init, IInv

\* The failures: nothing has been logged yet.
LEMMA FailureInv ==
  ASSUME IInv, TypeOK', NoPartialReformat,
         \/ BttWriteLayoutFails \/ InsertNamespaceLabelsFails \/ BttReadFlogPairFails
         \/ BttWriteFails \/ \E b \in BadSets : BttInitFails(b)
         \/ \E a \in Arenas : BttWriteRefused(a)
  PROVE  IInv'
<1>1. CASE BttWriteLayoutFails
  <2>1. CASE ctx = "create"
    BY Zenon, <1>1, <2>1, GoneInv DEF BttWriteLayoutFails, media
  <2>2. CASE ctx # "create"
    <3>1. pc \in LayoutPcs /\ ctx = "write" /\ ns = "present" /\ "damage" \in ForeignKinds
      BY Zenon, <1>1, <2>2 DEF BttWriteLayoutFails, LayoutSteps, IInv, Control, LayoutPcs
    <3>2. bad = {}
      BY Zenon, <3>1 DEF NoPartialReformat, IInv, TypeOK, DriverTypes
    <3>3. FALSE
      BY Zenon, <1>1, <3>2 DEF BttWriteLayoutFails, IsAddressRangeInArsList
    <3>4. QED
      BY Zenon, <3>3
  <2>3. QED
    BY Zenon, <2>1, <2>2
<1>2. CASE InsertNamespaceLabelsFails
  BY Zenon, <1>2, GoneInv DEF InsertNamespaceLabelsFails, media
<1>3. CASE BttReadFlogPairFails
  BY Zenon, <1>3, GoneInv DEF BttReadFlogPairFails, media, IInv, Control
<1>4. CASE BttWriteFails
  BY Zenon, <1>4, ReturnInv DEF BttWriteFails, IInv, Control, Writing
<1>5. ASSUME NEW b \in BadSets, BttInitFails(b) PROVE IInv'
  BY Zenon, <1>5, GoneInv DEF BttInitFails, media
<1>6. ASSUME NEW a \in Arenas, BttWriteRefused(a) PROVE IInv'
  BY Zenon, <1>6, ReturnInv DEF BttWriteRefused, IInv, Control
<1>7. QED
  BY Zenon, <1>1, <1>2, <1>3, <1>4, <1>5, <1>6

\* Requests that end at once, and the labels of a new namespace.
LEMMA SimpleInv ==
  ASSUME IInv, TypeOK',
         \/ \E a \in Arenas, p \in Lbas : BttRead(a, p)
         \/ InsertNamespaceLabels \/ BttRelease \/ DeleteNamespace \/ DeleteNamespaceFails
  PROVE  IInv'
<1>1. ASSUME NEW a \in Arenas, NEW p \in Lbas, BttRead(a, p) PROVE IInv'
  <2>1. pc = "idle" /\ ns = "present" /\ UNCHANGED media
    BY Zenon, <1>1 DEF BttRead, IInv, Control
  <2>2. PICK r : Return(r)
    BY Zenon, <1>1 DEF BttRead
  <2>3. QED
    BY Zenon, <2>1, <2>2, ReturnInv
<1>2. CASE InsertNamespaceLabels
  <2>1. /\ pc = "label" /\ pc' = "idle" /\ ctx' = "init" /\ ns' = "present" /\ laidout
        /\ LayoutFound /\ UNCHANGED <<info, map, flog, flogMedia, data, laidout, rt>>
    BY Zenon, <1>2 DEF InsertNamespaceLabels, Return, IInv, Control
  <2>2. AllConsistent'
    BY Zenon, <2>1, SameArena DEF IInv, AllConsistent
  <2>3. Control'
    BY Zenon, <2>1 DEF Control, LayoutFound, LayoutPcs, Writing
  <2>4. LayoutAhead' /\ LayoutDone' /\ WriteProgress'
    BY Zenon, <2>1 DEF LayoutAhead, LayoutDone, WriteProgress, Unformed, LayoutPcs
  <2>5. Recovered'
    BY Zenon, <2>1, SameArena DEF IInv, Recovered
  <2>6. Caches'
    <3>1. ASSUME NEW c \in Arenas PROVE Cached(c)'
      BY <2>1, SameArena, ConstantTypes DEF IInv, Caches, Cached
    <3>2. QED
      BY Zenon, <2>1, <3>1 DEF Caches
  <2>7. QED
    BY Zenon, <2>1, <2>2, <2>3, <2>4, <2>5, <2>6 DEF IInv
<1>3. CASE BttRelease
  BY Zenon, <1>3, GoneInv DEF BttRelease, media
<1>4. CASE DeleteNamespace
  BY Zenon, <1>4, GoneInv DEF DeleteNamespace
<1>5. CASE DeleteNamespaceFails
  BY Zenon, <1>5, GoneInv DEF DeleteNamespaceFails, media, IInv, Control
<1>6. QED
  BY Zenon, <1>1, <1>2, <1>3, <1>4, <1>5

\* Every step preserves the invariant when dirty cache lines survive a power
\* failure and no namespace is laid out again in part.
THEOREM InvStep ==
  ASSUME CachePersistent, NoPartialReformat, IInv, [Next]_vars
  PROVE  IInv'
<1>1. TypeOK'
  BY Zenon, TypeStep DEF IInv
<1>2. CASE UNCHANGED vars
  <2>1. AllConsistent'
    BY ZenonT(60), <1>2, SameArena DEF vars, IInv, AllConsistent
  <2>2. Control' /\ LayoutAhead' /\ LayoutDone'
    BY <1>2 DEF vars, IInv, Control, LayoutAhead, LayoutDone, LayoutFound
  <2>3. Recovered'
    BY Zenon, <1>2, SameArena DEF vars, IInv, Recovered
  <2>4. Caches'
    <3>1. ASSUME NEW c PROVE (Cached(c)' <=> Cached(c)) /\ (CachedHalf(c)' <=> CachedHalf(c))
      BY Zenon, <1>2 DEF vars, Cached, CachedHalf, Current, MapEntry, FreeMap
    <3>2. QED
      BY Zenon, <1>2, <3>1 DEF vars, IInv, Caches
  <2>5. WriteProgress'
    BY Zenon, <1>2 DEF vars, IInv, WriteProgress, FreeMap, Incomplete, CurrentFlog, Current, MapEntry
  <2>6. QED
    BY Zenon, <1>1, <1>2, <2>1, <2>2, <2>3, <2>4, <2>5 DEF vars, IInv
<1>3. CASE Progress
  BY Zenon, <1>1, <1>3, FailureInv, LayoutInv, SimpleInv, ReadFlogInv, WriteDataInv, FlogUpdate1Inv,
     FlogUpdate2Inv, MapUnlockInv DEF Progress
<1>4. CASE Request
  BY Zenon, <1>1, <1>4, CreateInv, BttInitInv, FailureInv, SimpleInv, BttWriteInv DEF Request
<1>5. CASE Environment
  BY Zenon, <1>1, <1>5, EnvironmentInv
<1>6. QED
  BY Zenon, <1>2, <1>3, <1>4, <1>5 DEF Next

\* The invariant holds in every reachable state, whatever the numbers of
\* arenas, LBAs and lanes, if caches are persistent and no namespace is laid
\* out again in part.
THEOREM Invariance == Spec => []InductiveInvariant
<1>1. Init => InductiveInvariant
  BY Zenon, InvInit DEF InductiveInvariant
<1>2. InductiveInvariant /\ [Next]_vars => InductiveInvariant'
  BY Zenon, InvStep DEF InductiveInvariant, NoPartialReformat
<1>3. QED
  BY <1>1, <1>2, PTL DEF Spec

\* Every data block has one owner, so that BttWrite never writes into a block
\* that some LBA still reads.
THEOREM Ownership ==
  ASSUME CachePersistent, NoPartialReformat
  PROVE  Spec => []BlockOwnership
<1>1. InductiveInvariant => BlockOwnership
  BY Zenon DEF InductiveInvariant, IInv, AllConsistent, Consistent, LayoutFound, BlockOwnership
<1>2. QED
  BY <1>1, Invariance, PTL

\* Whenever power fails, each flog pair has exactly one current half.
THEOREM Readability ==
  ASSUME CachePersistent, NoPartialReformat
  PROVE  Spec => []FlogReadable
<1>1. InductiveInvariant => FlogReadable
  BY Zenon DEF InductiveInvariant, IInv, AllConsistent, Consistent, Readable, LayoutFound,
     FlogReadable, Current
<1>2. QED
  BY <1>1, Invariance, PTL

\* No LBA ever maps, or is about to map, a block that was written in part.
THEOREM WholeBlocks ==
  ASSUME CachePersistent, NoPartialReformat
  PROVE  Spec => []NoTornBlock
<1>1. InductiveInvariant => NoTornBlock
  BY Zenon DEF InductiveInvariant, IInv, AllConsistent, Consistent, MappedWhole, LoggedWhole,
     LayoutFound, NoTornBlock
<1>2. QED
  BY <1>1, Invariance, PTL

\* An open namespace has no logged update left to redo but the driver's own.
THEOREM Recovery ==
  ASSUME CachePersistent, NoPartialReformat
  PROVE  Spec => []RecoveryComplete
<1>1. InductiveInvariant => RecoveryComplete
  BY Zenon DEF InductiveInvariant, IInv, Recovered, RecoveryComplete
<1>2. QED
  BY <1>1, Invariance, PTL

\* The cached flog pair is the one on the media when BttWrite relies on it.
THEOREM CachedFlog ==
  ASSUME CachePersistent, NoPartialReformat
  PROVE  Spec => []RuntimeCurrent
<1>1. InductiveInvariant => RuntimeCurrent
  BY Zenon DEF InductiveInvariant, IInv, Caches, Cached, RuntimeCurrent
<1>2. QED
  BY <1>1, Invariance, PTL

-----------------------------------------------------------------------------
(* The error branch of BttWrite after the flog update is dead              *)

\* What BttFlogUpdate2 and BttMapUnlock touch has been accessed before.
LateInv ==
  pc \in {"flog2", "map"} => MapLoc(req.a, req.p) \notin bad /\ FlogLoc(req.a, 0) \notin bad

\* No access is refused after the flog has been touched, with or without a
\* persistent cache and whatever the ARS list holds.
THEOREM LateSteps == Spec => []LateStepsCannotFail
<1>1. Init => LateInv
  BY Zenon DEF Init, LateInv
<1>2. LateInv /\ [Next]_vars => LateInv'
  <2>1. SUFFICES ASSUME LateInv, [Next]_vars, pc' \in {"flog2", "map"}
                 PROVE  MapLoc(req.a, req.p)' \notin bad' /\ FlogLoc(req.a, 0)' \notin bad'
    BY Zenon DEF LateInv
  <2>2. BttFlogUpdate1 \/ BttFlogUpdate2 \/ UNCHANGED driver
    <3>1. CASE Progress
      BY Zenon, <2>1, <3>1 DEF Progress, BttWriteLayoutFails, LayoutZeroMap, LayoutZeroFlog, LayoutFlog,
         LayoutInfo, LayoutBackup, InsertNamespaceLabels, InsertNamespaceLabelsFails,
         BttReadFlogPair, AfterOpen, BttReadFlogPairFails, BttWriteFails, WriteData, BttMapUnlock,
         Goto, Gone, Return
    <3>2. CASE Request
      BY Zenon, <2>1, <3>2 DEF Request, CreateNamespace, BttInit, BttInitFails, BttRead, BttWrite,
         BttWriteRefused, BttRelease, DeleteNamespace, DeleteNamespaceFails, Goto, Gone, Return
    <3>3. CASE Environment
      <4>1. \A kind : Foreign(kind) => UNCHANGED driver
        BY Zenon DEF Foreign
      <4>2. CASE PowerFail
        BY Zenon, <2>1, <4>2 DEF PowerFail, Gone
      <4>3. CASE \E a \in Arenas : ForeignError(a) \/ ForeignDamage(a)
        BY Zenon, <4>1, <4>3 DEF ForeignError, ForeignDamage
      <4>4. ASSUME NEW a \in Arenas, NEW i \in Lanes,
                   EvictFlog(a, i) \/ \E p \in Lbas, v \in Values, c \in BOOLEAN :
                                       ForeignWrite(a, i, p, v, c)
            PROVE  UNCHANGED driver
        BY Zenon, <4>1, <4>4 DEF EvictFlog, ForeignWrite
      <4>5. CASE \E a \in Arenas, p \in Lbas, f \in {"zero", "error"} : ForeignMark(a, p, f)
        BY Zenon, <4>1, <4>5 DEF ForeignMark
      <4>6. QED
        BY Zenon, <3>3, <4>2, <4>3, <4>4, <4>5 DEF Environment
    <3>4. CASE UNCHANGED vars
      BY Zenon, <3>4 DEF vars, driver
    <3>5. QED
      BY Zenon, <2>1, <3>1, <3>2, <3>3, <3>4 DEF Next
  <2>3. CASE BttFlogUpdate1
    <3>1. {MapLoc(req.a, req.p), FlogLoc(req.a, 0)} \cap bad = {}
      BY Zenon, <2>3 DEF BttFlogUpdate1, IsAddressRangeInArsList, Touched
    <3>2. QED
      BY Zenon, <2>3, <3>1 DEF BttFlogUpdate1, MapLoc, FlogLoc
  <2>4. CASE BttFlogUpdate2
    BY Zenon, <2>1, <2>4 DEF BttFlogUpdate2, LateInv, MapLoc, FlogLoc
  <2>5. CASE UNCHANGED driver
    BY Zenon, <2>1, <2>5 DEF driver, LateInv, MapLoc, FlogLoc
  <2>6. QED
    BY Zenon, <2>2, <2>3, <2>4, <2>5
<1>3. LateInv => LateStepsCannotFail
  <2>1. ASSUME LateInv, pc = "flog2" PROVE Touched \cap bad = {}
    <3>1. Touched = {FlogLoc(req.a, 0)}
      BY Zenon, <2>1 DEF Touched
    <3>2. QED
      BY Zenon, <2>1, <3>1 DEF LateInv
  <2>2. ASSUME LateInv, pc = "map" PROVE Touched \cap bad = {}
    <3>1. Touched = {MapLoc(req.a, req.p)}
      BY Zenon, <2>2 DEF Touched
    <3>2. QED
      BY Zenon, <2>2, <3>1 DEF LateInv
  <2>3. QED
    BY Zenon, <2>1, <2>2 DEF LateStepsCannotFail, IsAddressRangeInArsList
<1>4. QED
  BY <1>1, <1>2, <1>3, PTL DEF Spec
=============================================================================
