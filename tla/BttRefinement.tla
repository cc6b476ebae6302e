---------------------------- MODULE BttRefinement ---------------------------
(***************************************************************************)
(* What BttWriteLayout writes can be read back, and the block translation  *)
(* table implements AtomicDisk.                                            *)
(***************************************************************************)
EXTENDS BttProofs

-----------------------------------------------------------------------------
(* Reading back a layout                                                   *)

\* An arena that a step does not touch stays as BttWriteLayout left it.
LEMMA SameFresh ==
  ASSUME NEW a, map'[a] = map[a], flog'[a] = flog[a], bad' = bad
  PROVE  Fresh(a)' <=> Fresh(a)
  BY Zenon DEF Fresh, FlogLoc

\* The steps of BttWriteLayout.
LEMMA LayoutWrittenStep ==
  ASSUME TypeOK, LayoutInvariant,
         LayoutZeroMap \/ LayoutZeroFlog \/ LayoutFlog \/ LayoutInfo \/ LayoutBackup
  PROVE  LayoutInvariant'
<1>0. cur \in Arenas /\ idx \in Nat /\ LayoutDone /\ LayoutWritten
  BY Zenon DEF TypeOK, DriverTypes, LayoutInvariant
<1>1. LayoutDone'
  BY Zenon, <1>0, LayoutProgress
<1>2. /\ pc \in LayoutPcs /\ ctx' = ctx /\ bad' = bad
      /\ \A a \in Arenas : a # cur => map'[a] = map[a] /\ flog'[a] = flog[a]
  BY Zenon DEF LayoutZeroMap, LayoutZeroFlog, LayoutFlog, LayoutInfo, LayoutBackup, LayoutPcs,
     TypeOK, MediaTypes
<1>3. \A a \in Arenas : a < cur => Fresh(a)'
  <2>1. ASSUME NEW a \in Arenas, a < cur PROVE Fresh(a) /\ a # cur
    BY <1>0, <1>2, <2>1 DEF LayoutWritten, Arenas
  <2>2. QED
    BY Zenon, <1>2, <2>1, SameFresh
<1>4. CASE LayoutZeroMap \/ LayoutZeroFlog
  <2>1. /\ cur' = cur
        /\ pc' \in {"zeromap", "zeroflog"} \/ (pc' = "layflog" /\ idx' = 0)
    BY Zenon, <1>4 DEF LayoutZeroMap, LayoutZeroFlog, Goto
  <2>2. LayoutWritten'
    BY <1>3, <2>1 DEF LayoutWritten, Lanes
  <2>3. QED
    BY Zenon, <1>1, <2>2 DEF LayoutInvariant
<1>5. CASE LayoutFlog
  <2>1. /\ pc = "layflog" /\ cur' = cur /\ map' = map
        /\ \/ pc' = "layflog" /\ idx' = idx + 1
           \/ pc' = "info" /\ idx + 1 >= NFree
    BY <1>0, <1>5, BttAssumptions DEF LayoutFlog, Goto
  <2>2. \A i \in Lanes : i < idx + 1 => FlogLoc(cur, i) \notin bad
    <3>1. FlogLoc(cur, idx) \notin bad
      BY Zenon, <1>5 DEF LayoutFlog, IsAddressRangeInArsList, Touched
    <3>2. QED
      BY <1>0, <2>1, <3>1 DEF LayoutWritten, Lanes
  <2>3. pc' = "info" => Fresh(cur)'
    <3>1. ASSUME pc' = "info" PROVE \A i \in Lanes : FlogLoc(cur, i) \notin bad
      BY <1>0, <2>1, <2>2, <3>1, BttAssumptions DEF Lanes
    <3>2. QED
      BY Zenon, <1>1, <1>2, <2>1, <3>1 DEF LayoutDone, Fresh, FlogLoc
  <2>4. pc' = "layflog" => \A i \in Lanes : i < idx' => FlogLoc(cur, i)' \notin bad'
    BY Zenon, <1>2, <2>1, <2>2 DEF FlogLoc
  <2>5. LayoutWritten'
    BY Zenon, <1>3, <2>1, <2>3, <2>4 DEF LayoutWritten, Fresh, FlogLoc
  <2>6. QED
    BY Zenon, <1>1, <2>5 DEF LayoutInvariant
<1>6. CASE LayoutInfo \/ LayoutBackup
  <2>1. /\ pc \in {"info", "info2", "backup", "backup2"} /\ map' = map /\ flog' = flog
        /\ \/ pc' \in {"info2", "backup", "backup2"} /\ cur' = cur
           \/ pc' = "zeromap" /\ cur' = cur + 1
           \/ pc' = "readflog" /\ cur + 1 = NArenas
    BY Zenon, <1>6 DEF LayoutInfo, LayoutBackup, Goto
  <2>2. Fresh(cur) /\ map'[cur] = map[cur] /\ flog'[cur] = flog[cur] /\ bad' = bad
    BY Zenon, <1>0, <1>2, <2>1 DEF LayoutWritten
  <2>3. \A a \in Arenas : a <= cur => Fresh(a)'
    <3>1. ASSUME NEW a \in Arenas, a <= cur PROVE a < cur \/ a = cur
      BY <1>0, <3>1 DEF Arenas
    <3>2. ASSUME NEW a \in Arenas, a = cur PROVE Fresh(a)'
      BY Zenon, <2>2, <3>2, SameFresh
    <3>3. QED
      BY Zenon, <1>3, <3>1, <3>2
  <2>4. CASE cur' = cur /\ pc' \in {"info2", "backup", "backup2"}
    <3>1. Fresh(cur)'
      BY Zenon, <2>2, <2>4 DEF Fresh, FlogLoc
    <3>2. QED
      BY Zenon, <1>1, <1>3, <2>4, <3>1 DEF LayoutInvariant, LayoutWritten, Fresh, FlogLoc
  <2>5. CASE cur' = cur + 1 /\ pc' = "zeromap"
    <3>1. \A a \in Arenas : a < cur' => Fresh(a)'
      BY <1>0, <2>3, <2>5 DEF Arenas
    <3>2. QED
      BY Zenon, <1>1, <2>5, <3>1 DEF LayoutInvariant, LayoutWritten
  <2>6. CASE cur + 1 = NArenas /\ pc' = "readflog"
    <3>1. \A a \in Arenas : Fresh(a)'
      BY <1>0, <2>3, <2>6, BttAssumptions DEF Arenas
    <3>2. QED
      BY Zenon, <1>1, <2>6, <3>1 DEF LayoutInvariant, LayoutWritten, LayoutPcs
  <2>7. QED
    BY Zenon, <2>1, <2>4, <2>5, <2>6
<1>7. QED
  BY Zenon, <1>4, <1>5, <1>6

\* Reading back leaves a new layout as it is: there is nothing to redo.
LEMMA ReadBackStep ==
  ASSUME TypeOK, LayoutInvariant, BttReadFlogPair
  PROVE  LayoutInvariant'
<1>1. /\ pc = "readflog" /\ cur \in Arenas /\ idx \in Lanes
      /\ UNCHANGED <<flog, ctx, bad>> /\ map' = RedoMap
      /\ pc' = "readflog" \/ pc' = AfterOpen
  BY Zenon DEF BttReadFlogPair, Goto, TypeOK, DriverTypes
<1>2. /\ pc' \in {"readflog", "idle", "label", "data"}
      /\ pc' = "label" => ctx' # "init"
  BY Zenon, <1>1 DEF AfterOpen
<1>3. ASSUME ctx' # "init" PROVE \A a \in Arenas : Fresh(a)'
  <2>1. \A a \in Arenas : Fresh(a)
    BY Zenon, <1>1, <1>3 DEF LayoutInvariant, LayoutWritten
  <2>2. ~Incomplete(cur, idx)
    BY Zenon, <1>1, <2>1, FreshFlog DEF Fresh
  <2>3. map' = map
    BY Zenon, <1>1, <2>2 DEF RedoMap
  <2>4. QED
    BY Zenon, <1>1, <2>1, <2>3, SameFresh
<1>4. LayoutWritten' /\ LayoutDone'
  BY Zenon, <1>2, <1>3 DEF LayoutWritten, LayoutDone, LayoutPcs
<1>5. QED
  BY Zenon, <1>4 DEF LayoutInvariant

\* The other steps are outside of BttWriteLayout, or begin it.
LEMMA LayoutWrittenElsewhere ==
  ASSUME TypeOK, LayoutInvariant, [Next]_vars,
         ~(LayoutZeroMap \/ LayoutZeroFlog \/ LayoutFlog \/ LayoutInfo \/ LayoutBackup),
         ~BttReadFlogPair
  PROVE  LayoutInvariant'
<1> DEFINE Aside == /\ pc' \notin LayoutPcs
                    /\ pc' \in {"readflog", "label"} => ctx' = "init"
                    /\ pc' = "off" => ctx' = "init"
           Begins == pc' = "zeromap" /\ cur' = 0 /\ idx' = 0
           Same == UNCHANGED <<pc, ctx, cur, idx, map, flog, bad>>
<1>1. ASSUME Aside PROVE LayoutInvariant'
  BY Zenon, <1>1 DEF LayoutInvariant, LayoutWritten, LayoutDone, LayoutPcs
<1>2. ASSUME Begins PROVE LayoutInvariant'
  BY <1>2, MapLines DEF LayoutInvariant, LayoutWritten, LayoutDone, LayoutPcs, LastMapLine, Arenas
<1>3. ASSUME Same PROVE LayoutInvariant'
  <2>1. \A a : Fresh(a)' <=> Fresh(a)
    BY Zenon, <1>3, SameFresh
  <2>2. LayoutDone'
    BY Zenon, <1>3 DEF LayoutInvariant, LayoutDone
  <2>3. LayoutWritten'
    BY Zenon, <1>3, <2>1 DEF LayoutInvariant, LayoutWritten, FlogLoc
  <2>4. QED
    BY Zenon, <2>2, <2>3 DEF LayoutInvariant
<1>4. CASE Progress
  <2>1. Aside
    BY Zenon, <1>4 DEF Progress, BttWriteLayoutFails, InsertNamespaceLabels,
       InsertNamespaceLabelsFails, BttReadFlogPairFails, BttWriteFails, WriteData, BttFlogUpdate1,
       BttFlogUpdate2, BttMapUnlock, Goto, Gone, Return, LayoutPcs
  <2>2. QED
    BY Zenon, <1>1, <2>1
<1>5. CASE Request
  <2>1. ASSUME NEW b, CreateNamespace(b) PROVE Aside \/ Begins
    BY Zenon, <2>1 DEF CreateNamespace, Gone, Goto, LayoutPcs
  <2>2. ASSUME NEW b, BttInit(b) PROVE Aside
    BY Zenon, <2>2 DEF BttInit, Goto, LayoutPcs, LayoutInvariant, LayoutWritten
  <2>3. ASSUME NEW a, NEW p, NEW v, BttWrite(a, p, v) PROVE Aside \/ Begins
    BY Zenon, <2>3 DEF BttWrite, Goto, LayoutPcs
  <2>4. ASSUME \/ \E b \in BadSets : BttInitFails(b)
               \/ \E a \in Arenas, p \in Lbas : BttRead(a, p)
               \/ \E a \in Arenas : BttWriteRefused(a)
               \/ BttRelease \/ DeleteNamespace \/ DeleteNamespaceFails
        PROVE  Aside
    BY Zenon, <2>4 DEF BttInitFails, BttRead, BttWriteRefused, BttRelease, DeleteNamespace,
       DeleteNamespaceFails, Gone, Return, LayoutPcs
  <2>5. QED
    BY Zenon, <1>1, <1>2, <1>5, <2>1, <2>2, <2>3, <2>4 DEF Request
<1>6. CASE Environment
  <2>1. ASSUME NEW kind, Foreign(kind) PROVE Aside
    BY Zenon, <2>1 DEF Foreign, driver, LayoutPcs, LayoutInvariant, LayoutWritten
  <2>2. CASE PowerFail
    BY Zenon, <1>1, <2>2 DEF PowerFail, Gone, LayoutPcs
  <2>3. CASE \E a \in Arenas : ForeignError(a) \/ ForeignDamage(a)
    BY Zenon, <1>1, <2>1, <2>3 DEF ForeignError, ForeignDamage
  <2>4. ASSUME NEW a \in Arenas, NEW i \in Lanes,
               EvictFlog(a, i) \/ \E p \in Lbas, v \in Values, c \in BOOLEAN :
                                   ForeignWrite(a, i, p, v, c)
        PROVE  Same \/ Aside
    BY Zenon, <2>1, <2>4 DEF EvictFlog, driver, ForeignWrite
  <2>5. CASE \E a \in Arenas, p \in Lbas, f \in {"zero", "error"} : ForeignMark(a, p, f)
    BY Zenon, <1>1, <2>1, <2>5 DEF ForeignMark
  <2> HIDE DEF Same, Aside
  <2>6. QED
    BY Zenon, <1>1, <1>3, <1>6, <2>2, <2>3, <2>4, <2>5 DEF Environment
<1>7. CASE UNCHANGED vars
  BY Zenon, <1>3, <1>7 DEF vars
<1>8. QED
  BY Zenon, <1>4, <1>5, <1>6, <1>7 DEF Next

\* What a layout in progress has written stays written, with or without a
\* persistent cache, whatever happens to the media and whatever the ARS list
\* holds.
THEOREM LayoutKept == Spec => []LayoutInvariant
<1>1. Init => LayoutInvariant
  BY Zenon DEF Init, LayoutInvariant, LayoutWritten, LayoutDone, LayoutPcs
<1>2. TypeOK /\ LayoutInvariant /\ [Next]_vars => LayoutInvariant'
  BY Zenon, LayoutWrittenStep, ReadBackStep, LayoutWrittenElsewhere
<1>3. QED
  BY <1>1, <1>2, TypeCorrect, PTL DEF Spec

\* BttWriteLayout may ignore the status of the BttReadArenas that follows it:
\* no flog pair it has just written can be refused or be without a current
\* half.
THEOREM ReadBack == Spec => []ReadBackSucceeds
<1>1. TypeOK /\ LayoutInvariant => ReadBackSucceeds
  <2>1. SUFFICES ASSUME TypeOK, LayoutInvariant, pc = "readflog", ctx # "init"
                 PROVE  ~IsAddressRangeInArsList /\ Current(cur, idx) # -1
    BY Zenon DEF ReadBackSucceeds
  <2>2. /\ flog[cur][idx] = InitialPair(idx) /\ FlogLoc(cur, idx) \notin bad
    BY Zenon, <2>1 DEF LayoutInvariant, LayoutWritten, Fresh, TypeOK, DriverTypes
  <2>3. Current(cur, idx) = 0 /\ CurrentFlog(cur, idx).old = CurrentFlog(cur, idx).new
    BY Zenon, <2>2, FreshFlog
  <2>4. Touched = {FlogLoc(cur, idx)}
    BY Zenon, <2>1, <2>3 DEF Touched
  <2>5. Current(cur, idx) # -1
    BY <2>3
  <2>6. QED
    BY Zenon, <2>2, <2>4, <2>5 DEF IsAddressRangeInArsList
<1>2. QED
  BY <1>1, TypeCorrect, LayoutKept, PTL

-----------------------------------------------------------------------------
(* The content of a block                                                  *)

\* What Content stands for in an arena whose logged updates are of different
\* LBAs: the logged block if there is one, otherwise the mapped one.
ContentRule ==
  \A a \in Arenas, p \in Lbas : Separate(a) =>
    /\ \A i \in Lanes : Incomplete(a, i) /\ CurrentFlog(a, i).lba = p =>
         Content(a, p) = Deref(a, CurrentFlog(a, i).new)
    /\ Settled(a, p) => Content(a, p) = Deref(a, map[a][p])

\* ContentRule holds in every state.
LEMMA ContentHolds == ContentRule
<1>1. SUFFICES ASSUME NEW a \in Arenas, NEW p \in Lbas, Separate(a)
               PROVE  /\ \A i \in Lanes : Incomplete(a, i) /\ CurrentFlog(a, i).lba = p =>
                           Content(a, p) = Deref(a, CurrentFlog(a, i).new)
                      /\ Settled(a, p) => Content(a, p) = Deref(a, map[a][p])
  BY Zenon DEF ContentRule
<1> DEFINE redo == {i \in Lanes : Incomplete(a, i) /\ CurrentFlog(a, i).lba = p}
<1>2. Content(a, p) = IF redo # {} THEN Deref(a, CurrentFlog(a, CHOOSE i \in redo : TRUE).new)
                      ELSE Deref(a, map[a][p])
  BY DEF Content
<1>3. ASSUME NEW i \in Lanes, Incomplete(a, i), CurrentFlog(a, i).lba = p
      PROVE  Content(a, p) = Deref(a, CurrentFlog(a, i).new)
  <2>1. i \in redo
    BY Zenon, <1>3
  <2>2. \A j \in redo : j = i
    BY Zenon, <1>1, <1>3 DEF Separate
  <2>3. (CHOOSE j \in redo : TRUE) = i
    <3> HIDE DEF redo
    <3> QED BY Zenon, <2>1, <2>2
  <2>4. redo # {}
    BY Zenon, <2>1
  <2> HIDE DEF redo
  <2>5. QED
    BY Zenon, <1>2, <2>3, <2>4
<1>4. ASSUME Settled(a, p) PROVE Content(a, p) = Deref(a, map[a][p])
  <2>1. redo = {}
    BY Zenon, <1>4 DEF Settled
  <2> HIDE DEF redo
  <2>2. QED
    BY Zenon, <1>2, <2>1
<1>5. QED
  BY Zenon, <1>3, <1>4

\* ... and so in the next one.
LEMMA ContentHoldsNext == ContentRule'
  BY ContentHolds, PTL

\* A step keeps the content of LBA p if it keeps the map entry of p, the
\* logged update of p, and the blocks these name.
LEMMA SameContent ==
  ASSUME NEW a \in Arenas, NEW p \in Lbas, Separate(a), Separate(a)',
         \A i \in Lanes : Incomplete(a, i) /\ CurrentFlog(a, i).lba = p =>
           /\ Incomplete(a, i)'
           /\ CurrentFlog(a, i)' = CurrentFlog(a, i)
           /\ data'[a][CurrentFlog(a, i).new.blk] = data[a][CurrentFlog(a, i).new.blk],
         Settled(a, p) => Settled(a, p)',
         map'[a][p] = map[a][p],
         map[a][p].flag = "normal" => data'[a][map[a][p].blk] = data[a][map[a][p].blk]
  PROVE  Content(a, p)' = Content(a, p)
<1>1. CASE Settled(a, p)
  <2>1. Content(a, p)' = Deref(a, map[a][p])' /\ Content(a, p) = Deref(a, map[a][p])
    BY Zenon, <1>1, ContentHolds, ContentHoldsNext DEF ContentRule
  <2>2. Deref(a, map[a][p])' = Deref(a, map[a][p])
    BY Zenon DEF Deref
  <2>3. QED
    BY Zenon, <2>1, <2>2
<1>2. ASSUME NEW i \in Lanes, Incomplete(a, i), CurrentFlog(a, i).lba = p
      PROVE  Content(a, p)' = Content(a, p)
  <2>1. Incomplete(a, i)' /\ CurrentFlog(a, i)' = CurrentFlog(a, i)
    BY Zenon, <1>2
  <2>2. /\ Content(a, p)' = Deref(a, CurrentFlog(a, i).new)'
        /\ Content(a, p) = Deref(a, CurrentFlog(a, i).new)
    BY Zenon, <1>2, <2>1, ContentHolds, ContentHoldsNext DEF ContentRule
  <2>3. Deref(a, CurrentFlog(a, i).new)' = Deref(a, CurrentFlog(a, i).new)
    BY Zenon, <1>2, <2>1 DEF Deref
  <2>4. QED
    BY Zenon, <2>2, <2>3
<1>3. QED
  BY Zenon, <1>1, <1>2 DEF Settled

\* A step that leaves the map, the current flog halves and the data of an
\* arena alone.
LEMMA ArenaContent ==
  ASSUME NEW a \in Arenas, Separate(a), Separate(a)',
         map'[a] = map[a], data'[a] = data[a],
         \A i \in Lanes : CurrentFlog(a, i)' = CurrentFlog(a, i)
  PROVE  \A p \in Lbas : Content(a, p)' = Content(a, p)
<1>1. \A i \in Lanes : Incomplete(a, i)' <=> Incomplete(a, i)
  BY Zenon DEF Incomplete, MapEntry
<1>2. QED
  BY Zenon, <1>1, SameContent DEF Settled

\* Only the spare block of lane i is written: no map entry names it, nor does
\* a logged update of another lane.
LEMMA KeptBlocks ==
  ASSUME NEW a \in Arenas, NEW i \in Lanes, TypeOK, Consistent(a),
         \A c \in Blocks : c # Spare(a, i) => data'[a][c] = data[a][c]
  PROVE  /\ \A q \in Lbas : map[a][q].flag = "normal" =>
              data'[a][map[a][q].blk] = data[a][map[a][q].blk]
         /\ \A j \in Lanes : j # i /\ Incomplete(a, j) =>
              data'[a][CurrentFlog(a, j).new.blk] = data[a][CurrentFlog(a, j).new.blk]
<1>1. ASSUME NEW q \in Lbas, map[a][q].flag = "normal"
      PROVE  data'[a][map[a][q].blk] = data[a][map[a][q].blk]
  <2>1. map[a][q].blk \in Blocks
    BY DEF TypeOK, MediaTypes, Entry
  <2>2. map[a][q].blk # Spare(a, i)
    BY Zenon, <1>1 DEF Consistent, Owned, MapEntry
  <2>3. QED
    BY Zenon, <2>1, <2>2
<1>2. ASSUME NEW j \in Lanes, j # i, Incomplete(a, j)
      PROVE  data'[a][CurrentFlog(a, j).new.blk] = data[a][CurrentFlog(a, j).new.blk]
  <2>1. CurrentFlog(a, j).new.blk \in Blocks
    BY Zenon, OperatorTypes DEF FlogEntry, Entry
  <2>2. CurrentFlog(a, j).new.blk = Spare(a, j) /\ Spare(a, j) # Spare(a, i)
    BY Zenon, <1>2 DEF Consistent, Owned, Spare
  <2>3. QED
    BY Zenon, <2>1, <2>2
<1>3. QED
  BY Zenon, <1>1, <1>2

\* Redoing a logged update changes no content.
LEMMA RedoContent ==
  ASSUME NEW a \in Arenas, NEW i \in Lanes, TypeOK, Consistent(a), Redoes(a, i)
  PROVE  \A p \in Lbas : Content(a, p)' = Content(a, p)
<1>1. /\ Incomplete(a, i) /\ flog' = flog /\ data' = data
      /\ Separate(a) /\ Separate(a)' /\ ~Incomplete(a, i)'
      /\ \A j \in Lanes : j # i => (Incomplete(a, j)' <=> Incomplete(a, j))
  BY Zenon, RedoConsistent DEF Redoes, Consistent
<1>2. \A j \in Lanes : CurrentFlog(a, j)' = CurrentFlog(a, j)
  BY Zenon, <1>1 DEF Current, CurrentFlog
<1>3. PICK l \in Lbas, e \in Entry :
        /\ l = CurrentFlog(a, i).lba /\ e = CurrentFlog(a, i).new
        /\ map' = [map EXCEPT ![a][l] = e]
  BY Zenon, OperatorTypes DEF FlogEntry, Redoes
<1>4. map'[a][l] = e /\ \A q \in Lbas : q # l => map'[a][q] = map[a][q]
  BY Zenon, <1>3 DEF TypeOK, MediaTypes
<1>5. Content(a, l)' = Content(a, l)
  <2>1. Content(a, l) = Deref(a, CurrentFlog(a, i).new)
    BY Zenon, <1>1, <1>3, ContentHolds DEF ContentRule
  <2>2. Settled(a, l)'
    BY Zenon, <1>1, <1>2, <1>3 DEF Settled, Separate
  <2>3. Content(a, l)' = Deref(a, map[a][l])'
    BY Zenon, <1>1, <2>2, ContentHoldsNext DEF ContentRule
  <2>4. Deref(a, map[a][l])' = Deref(a, CurrentFlog(a, i).new)
    BY Zenon, <1>1, <1>3, <1>4 DEF Deref
  <2>5. QED
    BY Zenon, <2>1, <2>3, <2>4
<1>6. ASSUME NEW p \in Lbas, p # l PROVE Content(a, p)' = Content(a, p)
  <2>1. \A j \in Lanes : Incomplete(a, j) /\ CurrentFlog(a, j).lba = p => Incomplete(a, j)'
    BY Zenon, <1>1, <1>3, <1>6
  <2>2. Settled(a, p) => Settled(a, p)'
    BY Zenon, <1>1, <1>2 DEF Settled
  <2>3. QED
    BY Zenon, <1>1, <1>2, <1>4, <1>6, <2>1, <2>2, SameContent
<1>7. QED
  BY Zenon, <1>5, <1>6

\* Logging an update gives LBA p the content of the block it moves to, and
\* leaves the other LBAs alone.
LEMMA LogContent ==
  ASSUME NEW a \in Arenas, NEW i \in Lanes, NEW p \in Lbas, NEW b \in Blocks, TypeOK,
         Consistent(a), Logs(a, i, p, b), map'[a] = map[a]
  PROVE  /\ Content(a, p)' = data'[a][b]
         /\ \A q \in Lbas : q # p => Content(a, q)' = Content(a, q)
<1>1. /\ Separate(a) /\ Separate(a)' /\ Incomplete(a, i)' /\ ~Incomplete(a, i)
      /\ \A j \in Lanes : j # i => (Incomplete(a, j)' <=> Incomplete(a, j))
      /\ \A j \in Lanes : j # i => CurrentFlog(a, j)' = CurrentFlog(a, j)
  BY ZenonT(60), LogConsistent DEF Consistent, Logs
<1>2. /\ CurrentFlog(a, i)'.lba = p /\ CurrentFlog(a, i)'.new = [flag |-> "normal", blk |-> b]
  BY Zenon DEF Logs
<1>3. Content(a, p)' = data'[a][b]
  <2>1. Content(a, p)' = Deref(a, CurrentFlog(a, i).new)'
    BY Zenon, <1>1, <1>2, ContentHoldsNext DEF ContentRule
  <2>2. CurrentFlog(a, i)'.new.flag = "normal" /\ CurrentFlog(a, i)'.new.blk = b
    BY <1>2
  <2>3. QED
    BY Zenon, <2>1, <2>2 DEF Deref
<1>4. ASSUME NEW q \in Lbas, q # p PROVE Content(a, q)' = Content(a, q)
  <2>1. /\ map[a][q].flag = "normal" => data'[a][map[a][q].blk] = data[a][map[a][q].blk]
        /\ \A j \in Lanes : j # i /\ Incomplete(a, j) =>
             data'[a][CurrentFlog(a, j).new.blk] = data[a][CurrentFlog(a, j).new.blk]
    <3>1. \A c \in Blocks : c # Spare(a, i) => data'[a][c] = data[a][c]
      BY Zenon DEF Logs
    <3>2. QED
      BY Zenon, <3>1, KeptBlocks
  <2>2. \A j \in Lanes : Incomplete(a, j) /\ CurrentFlog(a, j).lba = q =>
          j # i /\ Incomplete(a, j)' /\ CurrentFlog(a, j)' = CurrentFlog(a, j)
    BY Zenon, <1>1
  <2>3. Settled(a, q) => Settled(a, q)'
    BY Zenon, <1>1, <1>2, <1>4 DEF Settled
  <2>4. QED
    BY Zenon, <1>1, <2>1, <2>2, <2>3, SameContent
<1>5. QED
  BY Zenon, <1>3, <1>4

\* The same when the map is updated as well.
LEMMA WriteContent ==
  ASSUME NEW a \in Arenas, NEW i \in Lanes, NEW p \in Lbas, NEW b \in Blocks, TypeOK,
         Consistent(a), Logs(a, i, p, b), NEW e \in Entry, e.flag = "normal", e.blk = b,
         map'[a][p] = e, \A q \in Lbas : q # p => map'[a][q] = map[a][q]
  PROVE  /\ Content(a, p)' = data'[a][b]
         /\ \A q \in Lbas : q # p => Content(a, q)' = Content(a, q)
<1>1. /\ Separate(a) /\ Separate(a)' /\ ~Incomplete(a, i)' /\ ~Incomplete(a, i)
      /\ \A j \in Lanes : j # i => (Incomplete(a, j)' <=> Incomplete(a, j))
      /\ \A j \in Lanes : j # i => CurrentFlog(a, j)' = CurrentFlog(a, j)
      /\ \A j \in Lanes : Incomplete(a, j) => CurrentFlog(a, j).lba # p
  BY ZenonT(60), WriteConsistent DEF Consistent, Logs
<1>2. Content(a, p)' = data'[a][b]
  <2>1. Settled(a, p)'
    BY Zenon, <1>1 DEF Settled
  <2>2. Content(a, p)' = Deref(a, map[a][p])'
    BY Zenon, <1>1, <2>1, ContentHoldsNext DEF ContentRule
  <2>3. QED
    BY Zenon, <2>2 DEF Deref
<1>3. ASSUME NEW q \in Lbas, q # p PROVE Content(a, q)' = Content(a, q)
  <2>1. /\ map[a][q].flag = "normal" => data'[a][map[a][q].blk] = data[a][map[a][q].blk]
        /\ \A j \in Lanes : j # i /\ Incomplete(a, j) =>
             data'[a][CurrentFlog(a, j).new.blk] = data[a][CurrentFlog(a, j).new.blk]
    <3>1. \A c \in Blocks : c # Spare(a, i) => data'[a][c] = data[a][c]
      BY Zenon DEF Logs
    <3>2. QED
      BY Zenon, <3>1, KeptBlocks
  <2>2. \A j \in Lanes : Incomplete(a, j) /\ CurrentFlog(a, j).lba = q =>
          j # i /\ Incomplete(a, j)' /\ CurrentFlog(a, j)' = CurrentFlog(a, j)
    BY Zenon, <1>1
  <2>3. Settled(a, q) => Settled(a, q)'
    BY Zenon, <1>1 DEF Settled
  <2>4. QED
    BY Zenon, <1>1, <1>3, <2>1, <2>2, <2>3, SameContent
<1>4. QED
  BY Zenon, <1>2, <1>3

\* A flag makes LBA p read as zeros or as lost, and leaves the others alone.
LEMMA MarkContent ==
  ASSUME NEW a \in Arenas, NEW p \in Lbas, NEW flag \in {"zero", "error"}, TypeOK,
         Consistent(a), Marks(a, p, flag)
  PROVE  /\ Content(a, p)' \in {Zero, Lost}
         /\ \A q \in Lbas : q # p => Content(a, q)' = Content(a, q)
<1>1. /\ Separate(a) /\ Separate(a)' /\ Settled(a, p) /\ flog' = flog /\ data' = data
      /\ \A j \in Lanes : Incomplete(a, j)' <=> Incomplete(a, j)
      /\ \A q \in Lbas : q # p => map'[a][q] = map[a][q]
  BY Zenon, MarkConsistent DEF Consistent, Marks, Settled
<1>2. \A j \in Lanes : CurrentFlog(a, j)' = CurrentFlog(a, j)
  BY Zenon, <1>1 DEF Current, CurrentFlog
<1>3. \A q \in Lbas : Settled(a, q)' <=> Settled(a, q)
  BY Zenon, <1>1, <1>2 DEF Settled
<1>4. Content(a, p)' \in {Zero, Lost}
  <2>1. Content(a, p)' = Deref(a, map[a][p])'
    BY Zenon, <1>1, <1>3, ContentHoldsNext DEF ContentRule
  <2>2. map'[a][p].flag \in {"zero", "error"}
    BY DEF Marks
  <2>3. QED
    BY Zenon, <2>1, <2>2 DEF Deref
<1>5. ASSUME NEW q \in Lbas, q # p PROVE Content(a, q)' = Content(a, q)
  BY Zenon, <1>1, <1>2, <1>3, <1>5, SameContent
<1>6. QED
  BY Zenon, <1>4, <1>5

-----------------------------------------------------------------------------
(* The refinement mapping                                                  *)

\* What the mapping relies on: the invariant, no damaged info block.
Mapped == IInv /\ "damage" \notin ForeignKinds

\* The blocks of the disk one by one.
LEMMA StoreRule ==
  /\ DiskStore = [x \in Arenas \X Lbas |-> DiskStore[x]]
  /\ \A a \in Arenas, p \in Lbas :
       DiskStore[<<a, p>>] = IF ns = "present" /\ LayoutFound THEN Content(a, p) ELSE Zero
  BY DEF DiskStore

LEMMA StoreRuleNext ==
  /\ DiskStore' = [x \in Arenas \X Lbas |-> DiskStore'[x]]
  /\ \A a \in Arenas, p \in Lbas :
       DiskStore'[<<a, p>>] = IF ns' = "present" /\ LayoutFound' THEN Content(a, p)' ELSE Zero
  BY DEF DiskStore

\* A namespace that is present has its layout.
LEMMA StorePresent ==
  ASSUME Mapped, ns = "present"
  PROVE  /\ LayoutFound
         /\ \A a \in Arenas : Consistent(a)
         /\ \A a \in Arenas, p \in Lbas : DiskStore[<<a, p>>] = Content(a, p)
  BY Zenon, StoreRule DEF Mapped, IInv, Control, AllConsistent, LayoutFound

LEMMA StorePresentNext ==
  ASSUME Mapped', ns' = "present"
  PROVE  /\ LayoutFound'
         /\ \A a \in Arenas : Consistent(a)'
         /\ \A a \in Arenas, p \in Lbas : DiskStore'[<<a, p>>] = Content(a, p)'
  BY Zenon, StoreRuleNext DEF Mapped, IInv, Control, AllConsistent, LayoutFound

\* Without a namespace the disk is all zeros.
LEMMA StoreAbsent ==
  /\ ns # "present" => DiskStore = [x \in Arenas \X Lbas |-> Zero]
  /\ ns' # "present" => DiskStore' = [x \in Arenas \X Lbas |-> Zero]
  BY DEF DiskStore

\* The disk stays as it is if every content does.
LEMMA StoreKept ==
  ASSUME Mapped, Mapped', ns' = ns,
         ns = "present" => \A a \in Arenas, p \in Lbas : Content(a, p)' = Content(a, p)
  PROVE  DiskStore' = DiskStore
<1>1. CASE ns # "present"
  BY Zenon, <1>1, StoreAbsent
<1>2. CASE ns = "present"
  <2>1. \A x \in Arenas \X Lbas : \E a \in Arenas, p \in Lbas : x = <<a, p>>
    BY SMT
  <2>2. \A a \in Arenas, p \in Lbas : DiskStore'[<<a, p>>] = DiskStore[<<a, p>>]
    BY Zenon, <1>2, StorePresent, StorePresentNext
  <2>3. \A x \in Arenas \X Lbas : DiskStore'[x] = DiskStore[x]
    BY ZenonT(60), <2>1, <2>2
  <2>4. QED
    BY <2>3, StoreRule, StoreRuleNext
<1>3. QED
  BY Zenon, <1>1, <1>2

LEMMA StoreSame ==
  ASSUME Mapped, Mapped', ns' = ns, map' = map, flog' = flog, data' = data
  PROVE  DiskStore' = DiskStore
<1>1. \A a \in Arenas, i \in Lanes : CurrentFlog(a, i)' = CurrentFlog(a, i)
  BY Zenon DEF CurrentFlog, Current
<1>2. ASSUME ns = "present", NEW a \in Arenas
      PROVE  \A p \in Lbas : Content(a, p)' = Content(a, p)
  <2>1. Separate(a) /\ Separate(a)'
    BY Zenon, <1>2, StorePresent, StorePresentNext DEF Consistent
  <2>2. QED
    BY Zenon, <1>1, <2>1, ArenaContent
<1>3. QED
  BY Zenon, <1>2, StoreKept

\* A function that differs from another in one place.
LEMMA OnePlace ==
  ASSUME NEW S, NEW f, NEW g, NEW k \in S, NEW v,
         f = [x \in S |-> f[x]], g = [x \in S |-> g[x]],
         g[k] = v, \A x \in S : x # k => g[x] = f[x]
  PROVE  g = [f EXCEPT ![k] = v]
  OBVIOUS

\* One block of the disk changes.
LEMMA StoreMoved ==
  ASSUME Mapped, Mapped', ns = "present", ns' = "present",
         NEW a \in Arenas, NEW p \in Lbas,
         \A q \in Lbas : q # p => Content(a, q)' = Content(a, q),
         \A c \in Arenas : c # a => \A q \in Lbas : Content(c, q)' = Content(c, q)
  PROVE  DiskStore' = [DiskStore EXCEPT ![<<a, p>>] = Content(a, p)']
<1>1. \A x \in Arenas \X Lbas : \E c \in Arenas, q \in Lbas : x = <<c, q>>
  BY SMT
<1>2. DiskStore'[<<a, p>>] = Content(a, p)'
  BY Zenon, StorePresentNext
<1>3. ASSUME NEW x \in Arenas \X Lbas, x # <<a, p>> PROVE DiskStore'[x] = DiskStore[x]
  <2>1. PICK c \in Arenas, q \in Lbas : x = <<c, q>>
    BY Zenon, <1>1
  <2>2. c # a \/ q # p
    BY Zenon, <1>3, <2>1
  <2>3. Content(c, q)' = Content(c, q)
    BY Zenon, <2>2
  <2>4. DiskStore[x] = Content(c, q)
    BY Zenon, <2>1, StorePresent
  <2>5. DiskStore'[x] = Content(c, q)'
    BY Zenon, <2>1, StorePresentNext
  <2>6. QED
    BY Zenon, <2>3, <2>4, <2>5
<1>4. <<a, p>> \in Arenas \X Lbas
  OBVIOUS
<1>5. QED
  BY Zenon, <1>2, <1>3, <1>4, StoreRule, StoreRuleNext, OnePlace

-----------------------------------------------------------------------------
(* The write in progress                                                   *)

\* Where out is "none", and where the spare block has been filled.
LEMMA WriteInvariantStep ==
  ASSUME IInv, IInv', WriteInvariant, CachePersistent, [Next]_vars
  PROVE  WriteInvariant'
<1>1. pc' = "off" \/ ctx' = "write" => out' = "none"
  <2>1. CASE Progress
    BY Zenon, <2>1 DEF Progress, BttWriteLayoutFails, LayoutZeroMap, LayoutZeroFlog, LayoutFlog,
       LayoutInfo, LayoutBackup, InsertNamespaceLabels, InsertNamespaceLabelsFails,
       BttReadFlogPair, BttReadFlogPairFails, BttWriteFails, WriteData, BttFlogUpdate1,
       BttFlogUpdate2, BttMapUnlock, Goto, Gone, Return
  <2>2. CASE Request
    BY Zenon, <2>2 DEF Request, CreateNamespace, BttInit, BttInitFails, BttRead, BttWrite,
       BttWriteRefused, BttRelease, DeleteNamespace, DeleteNamespaceFails, Goto, Gone, Return
  <2>3. CASE Environment
    <3>1. \A kind : Foreign(kind) => UNCHANGED driver
      BY Zenon DEF Foreign
    <3>2. PowerFail \/ UNCHANGED driver
      <4>1. CASE \E a \in Arenas : ForeignError(a) \/ ForeignDamage(a)
        BY Zenon, <3>1, <4>1 DEF ForeignError, ForeignDamage
      <4>2. ASSUME NEW a \in Arenas, NEW i \in Lanes,
                   EvictFlog(a, i) \/ \E p \in Lbas, v \in Values, c \in BOOLEAN :
                                       ForeignWrite(a, i, p, v, c)
            PROVE  UNCHANGED driver
        BY Zenon, <3>1, <4>2 DEF EvictFlog, ForeignWrite
      <4>3. CASE \E a \in Arenas, p \in Lbas, f \in {"zero", "error"} : ForeignMark(a, p, f)
        BY Zenon, <3>1, <4>3 DEF ForeignMark
      <4>4. QED
        BY Zenon, <2>3, <4>1, <4>2, <4>3 DEF Environment
    <3>3. QED
      BY Zenon, <3>2 DEF PowerFail, Gone, driver, WriteInvariant
  <2>4. CASE UNCHANGED vars
    BY Zenon, <2>4 DEF vars, WriteInvariant
  <2>5. QED
    BY Zenon, <2>1, <2>2, <2>3, <2>4 DEF Next
<1>2. ASSUME pc' \in {"lock", "flog2"}
      PROVE  data'[req'.a][FreeMap(req.a)'.blk] = req'.v
  <2>1. \/ WriteData /\ pc = "data2"
        \/ BttFlogUpdate1
        \/ UNCHANGED <<pc, req, rt, data>>
    <3>1. CASE Progress
      BY Zenon, <1>2, <3>1 DEF Progress, BttWriteLayoutFails, LayoutZeroMap, LayoutZeroFlog, LayoutFlog,
         LayoutInfo, LayoutBackup, InsertNamespaceLabels, InsertNamespaceLabelsFails,
         BttReadFlogPair, AfterOpen, BttReadFlogPairFails, BttWriteFails, WriteData,
         BttFlogUpdate2, BttMapUnlock, Goto, Gone, Return
    <3>2. CASE Request
      BY Zenon, <1>2, <3>2 DEF Request, CreateNamespace, BttInit, BttInitFails, BttRead, BttWrite,
         BttWriteRefused, BttRelease, DeleteNamespace, DeleteNamespaceFails, Goto, Gone, Return
    <3>3. CASE Environment
      <4>1. \A kind : ~Foreign(kind)
        BY Zenon, <1>2 DEF Foreign, driver
      <4>2. /\ ~PowerFail /\ \A a : ~ForeignError(a) /\ ~ForeignDamage(a)
            /\ \A a, p, f : ~ForeignMark(a, p, f)
        BY Zenon, <1>2, <4>1 DEF PowerFail, Gone, ForeignError, ForeignDamage, ForeignMark
      <4>3. ASSUME NEW a \in Arenas, NEW i \in Lanes,
                   EvictFlog(a, i) \/ \E p \in Lbas, v \in Values, c \in BOOLEAN :
                                       ForeignWrite(a, i, p, v, c)
            PROVE  UNCHANGED <<pc, req, rt, data>>
        BY Zenon, <4>1, <4>3 DEF EvictFlog, ForeignWrite, driver
      <4>4. QED
        BY Zenon, <3>3, <4>2, <4>3 DEF Environment
    <3>4. CASE UNCHANGED vars
      BY Zenon, <3>4 DEF vars
    <3>5. QED
      BY Zenon, <3>1, <3>2, <3>3, <3>4 DEF Next
  <2>2. CASE WriteData /\ pc = "data2"
    <3>1. PICK a \in Arenas, b \in Blocks : a = req.a /\ b = FreeMap(a).blk
      BY Zenon, OperatorTypes DEF IInv, TypeOK, DriverTypes, Entry
    <3>2. data'[a][b] = req.v
      BY Zenon, <2>2, <3>1 DEF WriteData, IInv, TypeOK, MediaTypes
    <3>3. req' = req /\ rt' = rt
      BY Zenon, <2>2 DEF WriteData
    <3>4. FreeMap(req.a)' = FreeMap(req.a)
      BY Zenon, <3>3 DEF FreeMap
    <3>5. QED
      BY Zenon, <3>1, <3>2, <3>3, <3>4
  <2>3. CASE BttFlogUpdate1
    <3>1. FreeMap(req.a)' = FreeMap(req.a)
      BY Zenon, <2>3, FlogUpdate1Inv DEF IInv
    <3>2. pc = "lock" /\ req' = req /\ data' = data
      BY Zenon, <2>3 DEF BttFlogUpdate1
    <3>3. QED
      BY Zenon, <3>1, <3>2 DEF WriteInvariant
  <2>4. CASE UNCHANGED <<pc, req, rt, data>>
    BY Zenon, <1>2, <2>4 DEF WriteInvariant, FreeMap
  <2>5. QED
    BY Zenon, <2>1, <2>2, <2>3, <2>4
<1>3. QED
  BY Zenon, <1>1, <1>2 DEF WriteInvariant

-----------------------------------------------------------------------------
(* Each step of the BTT is a step of the disk                              *)

DiskStep == [Disk!DiskNext]_Disk!diskVars

LEMMA Forgets ==
  ASSUME ns' = ns, DiskStore' = DiskStore, ctx' # "write", out' = "none"
  PROVE  DiskStep
<1>1. DiskPend' = Disk!NoWrite
  BY Zenon DEF DiskPend, Disk!NoWrite
<1>2. Disk!DiskForget
  BY Zenon, <1>1 DEF Disk!DiskForget
<1>3. QED
  BY Zenon, <1>2 DEF DiskStep, Disk!DiskNext

LEMMA Stutters ==
  ASSUME ns' = ns, DiskStore' = DiskStore, out' = out, UNCHANGED <<ctx, req>>,
         pc' = "map" <=> pc = "map"
  PROVE  DiskStep
<1>1. DiskPend' = DiskPend
  BY Zenon DEF DiskPend
<1>2. UNCHANGED Disk!diskVars
  BY Zenon, <1>1 DEF Disk!diskVars
<1>3. QED
  BY Zenon, <1>2 DEF DiskStep

\* A write that ends with an error before its flog entry is current.
LEMMA Rejects ==
  ASSUME ns = "present", ns' = ns, DiskStore' = DiskStore, pc # "map", ctx' # "write", out' = "err"
  PROVE  DiskStep
<1>1. DiskPend' = Disk!NoWrite
  BY Zenon DEF DiskPend, Disk!NoWrite
<1>2. DiskPend.st # "done"
  BY DEF DiskPend
<1>3. Disk!DiskReject
  BY Zenon, <1>1, <1>2 DEF Disk!DiskReject
<1>4. QED
  BY Zenon, <1>3 DEF DiskStep, Disk!DiskNext

\* BttWriteLayout and the opening of what it wrote: there is no namespace yet.
LEMMA LayoutDisk ==
  ASSUME Mapped, Mapped',
         \/ \E b \in BadSets : CreateNamespace(b)
         \/ LayoutZeroMap \/ LayoutZeroFlog \/ LayoutFlog \/ LayoutInfo \/ LayoutBackup
         \/ BttWriteLayoutFails \/ InsertNamespaceLabelsFails
         \/ BttReadFlogPair /\ ctx = "create"
  PROVE  DiskStep
<1>1. ASSUME NEW b \in BadSets, CreateNamespace(b)
      PROVE  ns = "absent" /\ ns' = ns /\ ctx' # "write" /\ out' = "none"
  BY Zenon, <1>1 DEF CreateNamespace, Gone, Goto
<1>2. pc \in LayoutPcs => ctx = "create" /\ ns = "absent"
  BY Zenon DEF Mapped, IInv, Control
<1>3. CASE LayoutZeroMap \/ LayoutZeroFlog \/ LayoutFlog \/ LayoutInfo \/ LayoutBackup
  <2>1. ns' = ns /\ ctx' = ctx /\ out' = "none" /\ pc \in LayoutPcs
    BY Zenon, <1>3 DEF LayoutZeroMap, LayoutZeroFlog, LayoutFlog, LayoutInfo, LayoutBackup, Goto,
       LayoutPcs
  <2>2. ns = "absent" /\ ns' = ns /\ ctx' # "write" /\ out' = "none"
    BY Zenon, <1>2, <2>1
  <2>3. QED
    BY Zenon, <2>2, StoreAbsent, Forgets
<1>4. CASE BttWriteLayoutFails
  <2>1. ns = "absent" /\ ns' = ns /\ ctx' # "write" /\ out' = "none"
    BY ZenonT(60), <1>2, <1>4 DEF BttWriteLayoutFails, LayoutSteps, LayoutPcs, Gone, media
  <2>2. QED
    BY Zenon, <2>1, StoreAbsent, Forgets
<1>5. CASE InsertNamespaceLabelsFails
  <2>1. ns = "absent" /\ ns' = ns /\ ctx' # "write" /\ out' = "none"
    BY ZenonT(60), <1>5 DEF InsertNamespaceLabelsFails, Gone, media, Mapped, IInv, Control
  <2>2. QED
    BY Zenon, <2>1, StoreAbsent, Forgets
<1>6. CASE BttReadFlogPair /\ ctx = "create"
  <2>1. ns = "absent" /\ ns' = ns /\ ctx' # "write" /\ out' = "none"
    BY Zenon, <1>6 DEF BttReadFlogPair, Goto, Mapped, IInv, Control
  <2>2. QED
    BY Zenon, <2>1, StoreAbsent, Forgets
<1>7. QED
  BY Zenon, <1>1, <1>3, <1>4, <1>5, <1>6, StoreAbsent, Forgets

\* The labels of a new namespace make a disk of zeros.
LEMMA CreateDisk ==
  ASSUME Mapped, Mapped', LayoutInvariant, InsertNamespaceLabels
  PROVE  DiskStep
<1>1. /\ pc = "label" /\ ctx = "create" /\ ns = "absent" /\ ns' = "present" /\ ctx' = "init"
      /\ out' = "ok" /\ UNCHANGED <<map, flog>>
  BY Zenon DEF InsertNamespaceLabels, Return, Mapped, IInv, Control
<1>2. \A a \in Arenas : Fresh(a)
  BY Zenon, <1>1 DEF LayoutInvariant, LayoutWritten
<1>3. ASSUME NEW a \in Arenas, NEW p \in Lbas PROVE Content(a, p)' = Zero
  <2>1. \A i \in Lanes : ~Incomplete(a, i)
    BY Zenon, <1>2, FreshFlog DEF Fresh
  <2>2. \A i \in Lanes : ~Incomplete(a, i)'
    BY ZenonT(60), <1>1, <2>1 DEF Incomplete, CurrentFlog, Current, MapEntry
  <2>3. Settled(a, p)' /\ Separate(a)'
    BY Zenon, <2>2 DEF Settled, Separate
  <2>4. Content(a, p)' = Deref(a, map[a][p])'
    BY Zenon, <2>3, ContentHoldsNext DEF ContentRule
  <2>5. map'[a][p].flag = "initial"
    BY SMTT(30), <1>1, <1>2 DEF Fresh, InitialEntry
  <2>6. QED
    BY Zenon, <2>4, <2>5 DEF Deref
<1>4. DiskStore' = [x \in Arenas \X Lbas |-> Zero]
  <2>1. \A x \in Arenas \X Lbas : \E a \in Arenas, p \in Lbas : x = <<a, p>>
    BY SMT
  <2>2. \A a \in Arenas, p \in Lbas : DiskStore'[<<a, p>>] = Zero
    BY Zenon, <1>1, <1>3, StorePresentNext
  <2>3. ASSUME NEW x \in Arenas \X Lbas PROVE DiskStore'[x] = Zero
    <3>1. PICK a \in Arenas, p \in Lbas : x = <<a, p>>
      BY Zenon, <2>1
    <3>2. QED
      BY Zenon, <2>2, <3>1
  <2>4. QED
    BY <2>3, StoreRuleNext
<1>5. DiskPend' = DiskPend
  BY Zenon, <1>1 DEF DiskPend
<1>6. Disk!DiskCreate
  <2>1. ~(ns = "present") /\ (ns' = "present") = TRUE /\ out' \in {"none", "ok"}
    BY SMTT(30), <1>1
  <2>2. QED
    BY Zenon, <1>4, <1>5, <2>1 DEF Disk!DiskCreate
<1>7. QED
  BY Zenon, <1>6 DEF DiskStep, Disk!DiskNext

\* Redoing a logged update does not change the disk.
LEMMA RedoStore ==
  ASSUME Mapped, Mapped', ns' = ns, ns = "present", NEW a \in Arenas, NEW i \in Lanes, Redoes(a, i)
  PROVE  DiskStore' = DiskStore
<1>1. TypeOK /\ Consistent(a)
  BY Zenon, StorePresent DEF Mapped, IInv
<1>2. ASSUME NEW c \in Arenas, c # a PROVE \A p \in Lbas : Content(c, p)' = Content(c, p)
  <2>1. map'[c] = map[c] /\ flog' = flog /\ data' = data
    BY Zenon, <1>1, <1>2 DEF Redoes, TypeOK, MediaTypes
  <2>2. Separate(c) /\ Separate(c)' /\ data'[c] = data[c]
    BY Zenon, <2>1, StorePresent, StorePresentNext DEF Consistent
  <2>3. \A j \in Lanes : CurrentFlog(c, j)' = CurrentFlog(c, j)
    BY Zenon, <2>1 DEF CurrentFlog, Current
  <2>4. QED
    BY Zenon, <2>1, <2>2, <2>3, ArenaContent
<1>3. \A p \in Lbas : Content(a, p)' = Content(a, p)
  BY Zenon, <1>1, RedoContent
<1>4. QED
  BY Zenon, <1>2, <1>3, StoreKept

\* Opening a namespace, with what another operating system left to redo.
LEMMA OpenDisk ==
  ASSUME Mapped, Mapped', WriteInvariant, BttReadFlogPair, ctx # "create"
  PROVE  DiskStep
<1>1. /\ pc = "readflog" /\ cur \in Arenas /\ idx \in Lanes /\ map' = RedoMap
      /\ UNCHANGED <<flog, data, ns, ctx, req>> /\ out' = "none"
      /\ pc' # "map"
  BY Zenon DEF BttReadFlogPair, Goto, AfterOpen, Mapped, IInv, TypeOK, DriverTypes
<1>2. ns = "present" /\ ctx \in {"init", "write"}
  BY Zenon, <1>1 DEF Mapped, IInv, Control, TypeOK, DriverTypes
<1>3. DiskStore' = DiskStore
  <2>1. CASE Incomplete(cur, idx)
    <3>1. Redoes(cur, idx)
      BY Zenon, <1>1, <2>1 DEF RedoMap, Redoes
    <3>2. QED
      BY Zenon, <1>1, <1>2, <3>1, RedoStore
  <2>2. CASE ~Incomplete(cur, idx)
    BY Zenon, <1>1, <2>2, StoreSame DEF RedoMap
  <2>3. QED
    BY Zenon, <2>1, <2>2
<1>4. CASE ctx = "init"
  BY Zenon, <1>1, <1>3, <1>4, Forgets
<1>5. CASE ctx = "write"
  <2>1. out = "none"
    BY Zenon, <1>5 DEF WriteInvariant
  <2>2. QED
    BY Zenon, <1>1, <1>3, <2>1, Stutters
<1>6. QED
  BY Zenon, <1>2, <1>4, <1>5

\* Starting, stopping, failing to open and losing power.
LEMMA ForgetDisk ==
  ASSUME Mapped, Mapped',
         \/ \E b \in BadSets : BttInit(b) \/ BttInitFails(b)
         \/ BttReadFlogPairFails \/ BttRelease \/ DeleteNamespaceFails \/ PowerFail
  PROVE  DiskStep
<1>1. /\ UNCHANGED <<map, flog, data, ns>>
      /\ ctx' # "write" /\ out' = "none"
  <2>1. ASSUME NEW b \in BadSets, BttInit(b) \/ BttInitFails(b)
        PROVE  UNCHANGED <<map, flog, data, ns>> /\ ctx' # "write" /\ out' = "none"
    BY Zenon, <2>1 DEF BttInit, BttInitFails, media, Goto, Gone, Mapped, IInv, Control
  <2>2. ASSUME BttReadFlogPairFails \/ BttRelease \/ DeleteNamespaceFails \/ PowerFail
        PROVE  UNCHANGED <<map, flog, data, ns>> /\ ctx' # "write" /\ out' = "none"
    BY Zenon, <2>2 DEF BttReadFlogPairFails, BttRelease, DeleteNamespaceFails, PowerFail, media, Gone,
       Mapped, IInv
  <2>3. QED
    BY Zenon, <2>1, <2>2
<1>2. DiskStore' = DiskStore
  BY Zenon, <1>1, StoreSame
<1>3. QED
  BY Zenon, <1>1, <1>2, Forgets

LEMMA DeleteDisk ==
  ASSUME Mapped, DeleteNamespace
  PROVE  DiskStep
<1>1. ns = "present" /\ ns' = "absent" /\ ctx' = "init" /\ out' = "none"
  BY Zenon DEF DeleteNamespace, Gone, Mapped, IInv, Control
<1>2. DiskPend' = Disk!NoWrite
  BY Zenon, <1>1 DEF DiskPend, Disk!NoWrite
<1>3. DiskStore' = [x \in Arenas \X Lbas |-> Zero]
  BY Zenon, <1>1, StoreAbsent
<1>4. (ns = "present") /\ (ns' = "present") = FALSE
  BY <1>1
<1>5. Disk!DiskDelete
  BY Zenon, <1>1, <1>2, <1>3, <1>4 DEF Disk!DiskDelete
<1>6. QED
  BY Zenon, <1>5 DEF DiskStep, Disk!DiskNext

\* BttRead answers with the content of the block or with an error.
LEMMA ReadDisk ==
  ASSUME Mapped, Mapped', NEW a \in Arenas, NEW p \in Lbas, BttRead(a, p)
  PROVE  DiskStep
<1>1. /\ pc = "idle" /\ ctx = "init" /\ ctx' = "init" /\ ns = "present" /\ out' = BttReadAnswer(a, p)
      /\ UNCHANGED <<map, flog, data, ns>>
  BY Zenon DEF BttRead, Return, media, Mapped, IInv, Control
<1>2. DiskStore' = DiskStore
  BY ZenonT(60), <1>1, StoreSame
<1>3. laidout /\ Consistent(a) /\ \A i \in Lanes : ~Incomplete(a, i)
  BY ZenonT(60), <1>1, StorePresent DEF Mapped, IInv, Control, Recovered
<1>4. Content(a, p) = Deref(a, map[a][p])
  BY Zenon, <1>3, ContentHolds DEF ContentRule, Settled, Consistent
<1>5. BttReadAnswer(a, p) \in {Content(a, p), "err"} \ {Lost}
  <2>1. "err" # Lost /\ Zero # Lost
    BY SMTT(30), BttAssumptions
  <2>2. map[a][p].flag \in {"initial", "zero", "error", "normal"}
    BY DEF Mapped, IInv, TypeOK, MediaTypes, Entry
  <2>3. CASE map[a][p].flag = "error"
    BY Zenon, <1>3, <2>1, <2>3 DEF BttReadAnswer
  <2>4. CASE map[a][p].flag \in {"initial", "zero"}
    <3>1. Content(a, p) = Zero
      BY Zenon, <1>4, <2>4 DEF Deref
    <3>2. BttReadAnswer(a, p) \in {Zero, "err"}
      BY Zenon, <1>3, <2>4 DEF BttReadAnswer
    <3>3. QED
      BY Zenon, <2>1, <3>1, <3>2
  <2>5. CASE map[a][p].flag = "normal"
    <3>1. Content(a, p) = data[a][map[a][p].blk]
      BY Zenon, <1>4, <2>5 DEF Deref
    <3>2. Content(a, p) \in Values
      <4>1. map[a][p].blk \in Blocks
        BY DEF Mapped, IInv, TypeOK, MediaTypes, Entry
      <4>2. data[a][map[a][p].blk] \in Values \cup {Torn}
        BY Zenon, <4>1 DEF Mapped, IInv, TypeOK, MediaTypes
      <4>3. data[a][map[a][p].blk] # Torn
        BY Zenon, <1>3, <2>5 DEF Consistent, MappedWhole
      <4>4. QED
        BY Zenon, <3>1, <4>2, <4>3
    <3>3. BttReadAnswer(a, p) \in {Content(a, p), "err"}
      BY Zenon, <1>3, <2>5, <3>1 DEF BttReadAnswer
    <3>4. Content(a, p) # Lost
      BY Zenon, <3>2, BttAssumptions
    <3>5. QED
      BY Zenon, <2>1, <3>3, <3>4
  <2>6. QED
    BY Zenon, <2>2, <2>3, <2>4, <2>5
<1>6. DiskPend = Disk!NoWrite /\ DiskPend' = DiskPend
  BY Zenon, <1>1 DEF DiskPend, Disk!NoWrite
<1>7. \E l \in Arenas \X Lbas : out' \in {DiskStore[l], "err"} \ {Lost}
  <2>1. DiskStore[<<a, p>>] = Content(a, p) /\ <<a, p>> \in Arenas \X Lbas
    BY <1>1, StorePresent
  <2>2. QED
    BY Zenon, <1>1, <1>5, <2>1
<1>8. Disk!DiskRead
  BY Zenon, <1>1, <1>2, <1>6, <1>7 DEF Disk!DiskRead
<1>9. QED
  BY Zenon, <1>8 DEF DiskStep, Disk!DiskNext

\* A write request is issued, or refused.
LEMMA IssueDisk ==
  ASSUME Mapped, Mapped', NEW a \in Arenas, NEW p \in Lbas, NEW v \in Values, BttWrite(a, p, v)
  PROVE  DiskStep
<1>1. /\ pc = "idle" /\ ctx = "init" /\ ns = "present" /\ ctx' = "write" /\ out' = "none"
      /\ req' = [a |-> a, p |-> p, v |-> v] /\ pc' # "map" /\ UNCHANGED <<map, flog, data, ns>>
  BY Zenon DEF BttWrite, Goto, media, Mapped, IInv, Control
<1>2. DiskStore' = DiskStore
  BY Zenon, <1>1, StoreSame
<1>3. DiskPend = Disk!NoWrite
  BY Zenon, <1>1 DEF DiskPend, Disk!NoWrite
<1>4. req'.a = a /\ req'.p = p /\ req'.v = v /\ <<a, p>> \in Arenas \X Lbas
  BY <1>1
<1>5. DiskPend' = [st |-> "issued", l |-> <<a, p>>, v |-> v]
  BY Zenon, <1>1, <1>4 DEF DiskPend
<1>6. Disk!DiskIssue
  BY Zenon, <1>1, <1>2, <1>3, <1>4, <1>5 DEF Disk!DiskIssue
<1>7. QED
  BY Zenon, <1>6 DEF DiskStep, Disk!DiskNext

LEMMA RejectDisk ==
  ASSUME Mapped, Mapped', BttWriteFails \/ \E a \in Arenas : BttWriteRefused(a)
  PROVE  DiskStep
<1>1. /\ ns = "present" /\ pc # "map" /\ ctx' # "write" /\ out' = "err"
      /\ UNCHANGED <<map, flog, data, ns>>
  BY Zenon DEF BttWriteFails, BttWriteRefused, Return, media, Mapped, IInv, Control, Writing
<1>2. DiskStore' = DiskStore
  BY Zenon, <1>1, StoreSame
<1>3. QED
  BY Zenon, <1>1, <1>2, Rejects

\* The arenas that a write does not touch.
LEMMA OtherArenas ==
  ASSUME Mapped, Mapped', ns = "present", ns' = "present", NEW a \in Arenas,
         \A c \in Arenas : c # a => /\ map'[c] = map[c] /\ flog'[c] = flog[c]
                                    /\ data'[c] = data[c]
  PROVE  \A c \in Arenas : c # a => \A q \in Lbas : Content(c, q)' = Content(c, q)
<1>1. SUFFICES ASSUME NEW c \in Arenas, c # a
               PROVE  \A q \in Lbas : Content(c, q)' = Content(c, q)
  BY Zenon
<1>2. map'[c] = map[c] /\ flog'[c] = flog[c] /\ data'[c] = data[c]
  BY Zenon, <1>1
<1>3. Separate(c) /\ Separate(c)'
  BY Zenon, StorePresent, StorePresentNext DEF Consistent
<1>4. \A j \in Lanes : CurrentFlog(c, j)' = CurrentFlog(c, j)
  BY Zenon, <1>2 DEF CurrentFlog, Current
<1>5. QED
  BY Zenon, <1>2, <1>3, <1>4, ArenaContent

\* The data goes to a block that no LBA reads.
LEMMA WriteDataDisk ==
  ASSUME Mapped, Mapped', WriteInvariant, WriteData
  PROVE  DiskStep
<1>1. PICK a \in Arenas, b \in Blocks : a = req.a /\ b = FreeMap(a).blk
  BY Zenon, OperatorTypes DEF Mapped, IInv, TypeOK, DriverTypes, Entry
<1>2. /\ pc \in {"data", "data2"} /\ pc' # "map" /\ laidout /\ ctx = "write" /\ out' = "none"
      /\ UNCHANGED <<map, flog, ns, ctx, req>>
  BY Zenon DEF WriteData, Goto, Mapped, IInv, Control, Writing
<1>3. ns = "present" /\ ns' = "present"
  BY Zenon, <1>2 DEF Mapped, IInv, Control
<1>4. /\ \A c \in Arenas : c # a => data'[c] = data[c]
      /\ \A d \in Blocks : d # b => data'[a][d] = data[a][d]
  BY Zenon, <1>1 DEF WriteData, Mapped, IInv, TypeOK, MediaTypes
<1>5. TypeOK /\ Consistent(a) /\ Cached(a) /\ \A i \in Lanes : ~Incomplete(a, i)
  BY ZenonT(60), <1>2, <1>3, StorePresent DEF Mapped, IInv, Caches, Recovered
<1>6. Spare(a, 0) = b /\ 0 \in Lanes
  BY <1>1, <1>5, FreeIsSpare, ConstantTypes DEF Spare, Mapped
<1>7. ASSUME NEW p \in Lbas PROVE Content(a, p)' = Content(a, p)
  <2>1. map[a][p].flag = "normal" => data'[a][map[a][p].blk] = data[a][map[a][p].blk]
    <3>1. \A d \in Blocks : d # Spare(a, 0) => data'[a][d] = data[a][d]
      BY Zenon, <1>4, <1>6
    <3>2. QED
      BY Zenon, <1>5, <1>6, <3>1, KeptBlocks
  <2>2. \A i \in Lanes : ~Incomplete(a, i)'
    BY ZenonT(60), <1>2, <1>5 DEF Incomplete, CurrentFlog, Current, MapEntry
  <2>3. Separate(a) /\ Separate(a)' /\ Settled(a, p)'
    BY Zenon, <1>5, <2>2 DEF Separate, Settled
  <2>4. QED
    BY Zenon, <1>2, <1>5, <2>1, <2>3, SameContent
<1>8. \A c \in Arenas : c # a => \A q \in Lbas : Content(c, q)' = Content(c, q)
  BY Zenon, <1>2, <1>3, <1>4, OtherArenas
<1>9. DiskStore' = DiskStore
  BY Zenon, <1>2, <1>7, <1>8, StoreKept
<1>10. QED
  BY Zenon, <1>2, <1>9, Stutters DEF WriteInvariant

\* The half of the flog pair that is not current does not show.
LEMMA Flog1Disk ==
  ASSUME Mapped, Mapped', WriteInvariant, CachePersistent, BttFlogUpdate1
  PROVE  DiskStep
<1>1. /\ pc = "lock" /\ pc' = "flog2" /\ ctx = "write" /\ out' = "none"
      /\ UNCHANGED <<map, data, ns, ctx, req>>
  BY Zenon DEF BttFlogUpdate1, Goto, Mapped, IInv, Control, Writing
<1>2. \A c \in Arenas, i \in Lanes : CurrentFlog(c, i)' = CurrentFlog(c, i)
  BY Zenon, FlogUpdate1Inv DEF Mapped, IInv
<1>3. ASSUME ns = "present", NEW c \in Arenas
      PROVE  \A p \in Lbas : Content(c, p)' = Content(c, p)
  <2>1. Separate(c) /\ Separate(c)'
    BY Zenon, <1>1, <1>3, StorePresent, StorePresentNext DEF Consistent
  <2>2. QED
    BY Zenon, <1>1, <1>2, <2>1, ArenaContent
<1>4. DiskStore' = DiskStore
  BY Zenon, <1>1, <1>3, StoreKept
<1>5. QED
  BY Zenon, <1>1, <1>4, Stutters DEF WriteInvariant

\* The write takes effect when its flog entry becomes current.
LEMMA CommitDisk ==
  ASSUME Mapped, Mapped', WriteInvariant, CachePersistent, BttFlogUpdate2
  PROVE  DiskStep
<1>1. PICK a \in Arenas, p \in Lbas, b \in Blocks : a = req.a /\ p = req.p /\ b = FreeMap(a).blk
  BY Zenon, OperatorTypes DEF Mapped, IInv, TypeOK, DriverTypes, Entry
<1>2. /\ pc = "flog2" /\ pc' = "map" /\ ctx = "write" /\ out' = "none"
      /\ UNCHANGED <<map, data, ns, ctx, req>>
  BY Zenon DEF BttFlogUpdate2, Goto, Mapped, IInv, Control, Writing
<1>3. ns = "present" /\ ns' = "present"
  BY Zenon, <1>2 DEF Mapped, IInv, Control
<1>4. Logs(a, 0, p, b) /\ \A c \in Arenas : c # a => flog'[c] = flog[c]
  BY Zenon, <1>1, FlogUpdate2Inv DEF Mapped, IInv
<1>5. TypeOK /\ Consistent(a) /\ 0 \in Lanes /\ map'[a] = map[a]
  BY Zenon, <1>2, <1>3, StorePresent, ConstantTypes DEF Mapped, IInv
<1>6. /\ Content(a, p)' = data'[a][b]
      /\ \A q \in Lbas : q # p => Content(a, q)' = Content(a, q)
  BY Zenon, <1>4, <1>5, LogContent
<1>7. data'[a][b] = req.v
  BY Zenon, <1>1, <1>2 DEF WriteInvariant
<1>8. \A c \in Arenas : c # a => \A q \in Lbas : Content(c, q)' = Content(c, q)
  BY Zenon, <1>2, <1>3, <1>4, OtherArenas
<1>9. DiskStore' = [DiskStore EXCEPT ![<<a, p>>] = req.v]
  <2>1. DiskStore' = [DiskStore EXCEPT ![<<a, p>>] = Content(a, p)']
    BY Zenon, <1>3, <1>6, <1>8, StoreMoved
  <2>2. QED
    BY Zenon, <1>6, <1>7, <2>1
<1>10. /\ DiskPend = [st |-> "issued", l |-> <<a, p>>, v |-> req.v]
       /\ DiskPend' = [st |-> "done", l |-> <<a, p>>, v |-> req.v]
  BY Zenon, <1>1, <1>2 DEF DiskPend
<1>11. /\ DiskPend.st = "issued" /\ DiskPend.l = <<a, p>> /\ DiskPend.v = req.v
       /\ DiskPend' = [DiskPend EXCEPT !.st = "done"]
  BY <1>10
<1>12. Disk!DiskCommit
  BY Zenon, <1>2, <1>3, <1>9, <1>11 DEF Disk!DiskCommit
<1>13. QED
  BY Zenon, <1>12 DEF DiskStep, Disk!DiskNext

\* The map update changes nothing more, and the write is acknowledged.
LEMMA AckDisk ==
  ASSUME Mapped, Mapped', BttMapUnlock
  PROVE  DiskStep
<1>1. PICK a \in Arenas : a = req.a
  BY Zenon DEF Mapped, IInv, TypeOK, DriverTypes
<1>2. pc = "map" /\ ctx = "write" /\ ctx' = "init" /\ out' = "ok" /\ ns' = ns /\ ns = "present"
  BY Zenon DEF BttMapUnlock, Return, Mapped, IInv, Control, Writing
<1>3. Redoes(a, 0) /\ 0 \in Lanes
  BY Zenon, <1>1, MapUnlockInv, ConstantTypes DEF Mapped, IInv
<1>4. DiskStore' = DiskStore
  BY Zenon, <1>2, <1>3, RedoStore
<1>5. DiskPend.st = "done"
  BY <1>2 DEF DiskPend
<1>6. DiskPend' = Disk!NoWrite
  BY Zenon, <1>2 DEF DiskPend, Disk!NoWrite
<1>7. Disk!DiskAck
  BY Zenon, <1>2, <1>4, <1>5, <1>6 DEF Disk!DiskAck
<1>8. QED
  BY Zenon, <1>7 DEF DiskStep, Disk!DiskNext

\* Another operating system changes one block.
LEMMA ForeignBlock ==
  ASSUME Mapped, Mapped', WriteInvariant, NEW kind, Foreign(kind),
         NEW a \in Arenas, NEW p \in Lbas, NEW v \in Values \cup {Lost}, Content(a, p)' = v,
         \A q \in Lbas : q # p => Content(a, q)' = Content(a, q),
         \A c \in Arenas : c # a => /\ map'[c] = map[c] /\ flog'[c] = flog[c]
                                    /\ data'[c] = data[c]
  PROVE  DiskStep
<1>1. /\ pc = "off" /\ ns = "present" /\ ns' = "present" /\ ctx = "init" /\ ctx' = ctx
      /\ out' = out /\ out = "none"
  BY Zenon DEF Foreign, driver, WriteInvariant, Mapped, IInv, Control
<1>2. \A c \in Arenas : c # a => \A q \in Lbas : Content(c, q)' = Content(c, q)
  BY Zenon, <1>1, OtherArenas
<1>3. DiskStore' = [DiskStore EXCEPT ![<<a, p>>] = v] /\ <<a, p>> \in Arenas \X Lbas
  <2>1. DiskStore' = [DiskStore EXCEPT ![<<a, p>>] = Content(a, p)']
    BY Zenon, <1>1, <1>2, StoreMoved
  <2>2. <<a, p>> \in Arenas \X Lbas
    OBVIOUS
  <2>3. QED
    BY Zenon, <2>1, <2>2
<1>4. DiskPend = Disk!NoWrite /\ DiskPend' = DiskPend
  BY Zenon, <1>1 DEF DiskPend, Disk!NoWrite
<1>5. Disk!DiskForeign
  BY Zenon, <1>1, <1>3, <1>4 DEF Disk!DiskForeign
<1>6. QED
  BY Zenon, <1>5 DEF DiskStep, Disk!DiskNext

LEMMA ForeignWriteDisk ==
  ASSUME Mapped, Mapped', WriteInvariant, NEW a \in Arenas, NEW i \in Lanes, NEW p \in Lbas,
         NEW v \in Values, NEW complete \in BOOLEAN, ForeignWrite(a, i, p, v, complete)
  PROVE  DiskStep
<1>1. /\ TypeOK /\ TypeOK' /\ IInv /\ Foreign("write") /\ Consistent(a)
  BY Zenon, StorePresent DEF Mapped, IInv, ForeignWrite, Foreign
<1>2. PICK b \in Blocks :
        /\ Logs(a, i, p, b) /\ data'[a][b] = v
        /\ map' = map \/ map' = [map EXCEPT ![a][p] = [flag |-> "normal", blk |-> b]]
  BY <1>1, ForeignWriteInv, SMT
<1>3. \A c \in Arenas : c # a => /\ map'[c] = map[c] /\ flog'[c] = flog[c] /\ data'[c] = data[c]
  BY <1>1, ForeignWriteInv, SMT
<1>4. /\ Content(a, p)' = data'[a][b]
      /\ \A q \in Lbas : q # p => Content(a, q)' = Content(a, q)
  <2>1. CASE map' = map
    <3>1. map'[a] = map[a] /\ Logs(a, i, p, b)
      BY Zenon, <1>2, <2>1
    <3>2. QED
      BY Zenon, <1>1, <3>1, LogContent
  <2>2. CASE map' = [map EXCEPT ![a][p] = [flag |-> "normal", blk |-> b]]
    <3>1. PICK e \in Entry : e = [flag |-> "normal", blk |-> b]
      BY Zenon DEF Entry
    <3>2. e.flag = "normal" /\ e.blk = b
      BY <3>1
    <3>3. map' = [map EXCEPT ![a][p] = e]
      BY Zenon, <2>2, <3>1
    <3>4. map'[a][p] = e /\ \A q \in Lbas : q # p => map'[a][q] = map[a][q]
      BY Zenon, <1>1, <3>3 DEF TypeOK, MediaTypes
    <3>5. Logs(a, i, p, b)
      BY Zenon, <1>2
    <3>6. QED
      BY ZenonT(60), <1>1, <3>2, <3>4, <3>5, WriteContent
  <2>3. QED
    BY Zenon, <1>2, <2>1, <2>2
<1>5. Content(a, p)' = v /\ v \in Values \cup {Lost}
  BY Zenon, <1>2, <1>4
<1>6. QED
  BY Zenon, <1>1, <1>3, <1>4, <1>5, ForeignBlock

LEMMA ForeignMarkDisk ==
  ASSUME Mapped, Mapped', WriteInvariant, NEW a \in Arenas, NEW p \in Lbas,
         NEW flag \in {"zero", "error"}, ForeignMark(a, p, flag)
  PROVE  DiskStep
<1>1. TypeOK /\ Foreign(flag) /\ Consistent(a) /\ Settled(a, p) /\ flog' = flog /\ data' = data
  BY Zenon, StorePresent DEF Mapped, IInv, ForeignMark, Foreign
<1>2. PICK e \in Entry : e = [flag |-> flag, blk |-> MapEntry(a, p).blk]
  <2>1. [flag |-> flag, blk |-> MapEntry(a, p).blk] \in Entry
    BY Zenon, <1>1, OperatorTypes DEF Entry
  <2>2. QED
    BY Zenon, <2>1
<1>3. map' = [map EXCEPT ![a][p] = e]
  BY Zenon, <1>2 DEF ForeignMark
<1>4. /\ map'[a][p] = e /\ \A q \in Lbas : q # p => map'[a][q] = map[a][q]
      /\ \A c \in Arenas : c # a => map'[c] = map[c]
  BY Zenon, <1>1, <1>3 DEF TypeOK, MediaTypes
<1>5. Marks(a, p, flag)
  BY Zenon, <1>1, <1>2, <1>4 DEF Marks, Settled
<1>6. /\ Content(a, p)' \in {Zero, Lost}
      /\ \A q \in Lbas : q # p => Content(a, q)' = Content(a, q)
  BY Zenon, <1>1, <1>5, MarkContent
<1>7. PICK v \in Values \cup {Lost} : Content(a, p)' = v
  BY Zenon, <1>6, BttAssumptions
<1>8. \A c \in Arenas : c # a => /\ map'[c] = map[c] /\ flog'[c] = flog[c] /\ data'[c] = data[c]
  BY Zenon, <1>1, <1>4
<1>9. QED
  BY Zenon, <1>1, <1>6, <1>7, <1>8, ForeignBlock

\* What else happens to the media: a lost info block is excluded, a dirty line
\* cannot be evicted because there is none.
LEMMA EnvironmentDisk ==
  ASSUME Mapped, Mapped', WriteInvariant, Environment
  PROVE  DiskStep
<1>1. ASSUME NEW a \in Arenas, ForeignError(a) \/ ForeignDamage(a) PROVE DiskStep
  <2>1. ~ForeignDamage(a)
    BY Zenon DEF ForeignDamage, Foreign, Mapped
  <2>2. /\ UNCHANGED <<map, flog, data, ns, ctx, out>> /\ pc = "off" /\ ctx = "init"
        /\ out = "none"
    BY Zenon, <1>1, <2>1 DEF ForeignError, Foreign, driver, Mapped, IInv, Control, WriteInvariant
  <2>3. DiskStore' = DiskStore
    BY Zenon, <2>2, StoreSame
  <2>4. QED
    BY Zenon, <2>2, <2>3, Forgets
<1>2. ASSUME NEW a \in Arenas, NEW i \in Lanes,
             EvictFlog(a, i) \/ \E p \in Lbas, v \in Values, c \in BOOLEAN :
                                 ForeignWrite(a, i, p, v, c)
      PROVE  DiskStep
  <2>1. ~EvictFlog(a, i)
    BY Zenon DEF EvictFlog, Mapped, IInv
  <2>2. QED
    BY Zenon, <1>2, <2>1, ForeignWriteDisk
<1>3. CASE PowerFail
  BY Zenon, <1>3, ForgetDisk
<1>4. CASE \E a \in Arenas, p \in Lbas, f \in {"zero", "error"} : ForeignMark(a, p, f)
  BY Zenon, <1>4, ForeignMarkDisk
<1>5. QED
  BY Zenon, <1>1, <1>2, <1>3, <1>4 DEF Environment

\* Every step of the BTT is a step of the disk or leaves it alone.
LEMMA RefinementStep ==
  ASSUME Mapped, Mapped', LayoutInvariant, WriteInvariant, CachePersistent, [Next]_vars
  PROVE  DiskStep
<1>1. CASE Progress
  <2>1. CASE BttReadFlogPair
    BY Zenon, <2>1, LayoutDisk, OpenDisk
  <2>2. CASE ~BttReadFlogPair
    BY Zenon, <1>1, <2>2, LayoutDisk, CreateDisk, ForgetDisk, RejectDisk, WriteDataDisk, Flog1Disk,
       CommitDisk, AckDisk DEF Progress
  <2>3. QED
    BY Zenon, <2>1, <2>2
<1>2. CASE Request
  BY Zenon, <1>2, LayoutDisk, ForgetDisk, ReadDisk, IssueDisk, RejectDisk, DeleteDisk DEF Request
<1>3. CASE Environment
  BY Zenon, <1>3, EnvironmentDisk
<1>4. CASE UNCHANGED vars
  <2>1. UNCHANGED <<map, flog, data, ns, ctx, req, pc, out>>
    BY Zenon, <1>4 DEF vars
  <2>2. DiskStore' = DiskStore
    BY Zenon, <2>1, StoreSame
  <2>3. QED
    BY Zenon, <2>1, <2>2, Stutters
<1>5. QED
  BY Zenon, <1>1, <1>2, <1>3, <1>4 DEF Next

\* If dirty cache lines survive a power failure and nobody damages an info
\* block, a BTT namespace is an atomic disk, whatever the numbers of arenas,
\* LBAs and lanes, the bad addresses and the use another operating system
\* makes of it.
THEOREM Refinement ==
  ASSUME CachePersistent, "damage" \notin ForeignKinds
  PROVE  Spec => AtomicBlocks
<1>1. Init => Disk!DiskInit
  <2>1. SUFFICES ASSUME Init PROVE Disk!DiskInit
    OBVIOUS
  <2>2. ns = "absent" /\ ctx = "init" /\ out = "none"
    BY Zenon, <2>1 DEF Init
  <2>3. DiskPend = Disk!NoWrite /\ DiskStore = [x \in Arenas \X Lbas |-> Zero]
    BY Zenon, <2>2, StoreAbsent DEF DiskPend, Disk!NoWrite
  <2>4. (ns = "present") = FALSE
    BY <2>2
  <2>5. QED
    BY Zenon, <2>2, <2>3, <2>4 DEF Disk!DiskInit
<1>2. Init => WriteInvariant
  BY Zenon DEF Init, WriteInvariant
<1>3. InductiveInvariant => IInv /\ Mapped
  BY Zenon DEF InductiveInvariant, NoPartialReformat, Mapped
<1>4. (InductiveInvariant => IInv /\ Mapped)'
  BY <1>3, PTL
<1>5. InductiveInvariant /\ InductiveInvariant' /\ WriteInvariant /\ [Next]_vars => WriteInvariant'
  BY Zenon, <1>3, <1>4, WriteInvariantStep
<1>6. InductiveInvariant /\ InductiveInvariant' /\ LayoutInvariant /\ WriteInvariant /\ [Next]_vars
        => DiskStep
  BY Zenon, <1>3, <1>4, RefinementStep
<1>7. Spec => []WriteInvariant
  BY <1>2, <1>5, Invariance, PTL DEF Spec
<1>8. QED
  BY <1>1, <1>6, <1>7, Invariance, LayoutKept, PTL DEF Spec, AtomicBlocks, Disk!DiskSpec, DiskStep
=============================================================================
