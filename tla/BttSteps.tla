------------------------------ MODULE BttSteps ------------------------------
(***************************************************************************)
(* The steps that open a namespace, write a block, or happen to the media  *)
(* preserve IInv.                                                          *)
(***************************************************************************)
EXTENDS BttArena

-----------------------------------------------------------------------------
(* Creating, laying out and opening a namespace                            *)

\* CreateNamespace: no info block is valid, so nothing has to be consistent.
LEMMA CreateInv ==
  ASSUME IInv, TypeOK', NEW b, CreateNamespace(b)
  PROVE  IInv'
<1>1. \A a \in Arenas : ~BttReadInfo(info'[a])
  BY Zenon DEF CreateNamespace, BttReadInfo
<1>2. AllConsistent'
  BY Zenon, <1>1 DEF AllConsistent
<1>3. ~LayoutFound'
  BY Zenon, <1>1, ConstantTypes DEF LayoutFound
<1>4. flogMedia' = flog'
  BY Zenon DEF CreateNamespace, IInv
<1>5. ns = "absent" /\ ns' = "absent" /\ ~laidout
  BY Zenon DEF CreateNamespace, IInv, Control
<1>6. CASE InfoLoc(0) \in b
  <2>1. Gone("off")
    BY Zenon, <1>6 DEF CreateNamespace
  <2>2. Control'
    BY Zenon, <2>1, <1>5, <1>3 DEF Control, Gone, LayoutPcs, Writing
  <2>3. LayoutAhead' /\ LayoutDone' /\ Recovered' /\ Caches' /\ WriteProgress'
    BY Zenon, <2>1 DEF Gone, LayoutAhead, LayoutDone, Recovered, Caches, WriteProgress, Unformed,
       LayoutPcs
  <2>4. QED
    BY Zenon, <2>2, <2>3, <1>2, <1>4 DEF IInv
<1>7. CASE InfoLoc(0) \notin b
  <2>1. pc' = "zeromap" /\ cur' = 0 /\ idx' = 0 /\ ctx' = "create" /\ ~laidout'
    BY Zenon, <1>5, <1>7 DEF CreateNamespace, Goto
  <2>2. Control'
    BY Zenon, <2>1, <1>5, <1>3 DEF Control, LayoutPcs, Writing
  <2>3. LayoutAhead' /\ Recovered' /\ Caches' /\ WriteProgress'
    BY <2>1, <1>1 DEF LayoutAhead, Recovered, Caches, WriteProgress, Unformed, LayoutPcs, Arenas
  <2>4. LayoutDone'
    BY <2>1, MapLines DEF LayoutDone, LastMapLine
  <2>5. QED
    BY Zenon, <2>2, <2>3, <2>4, <1>2, <1>4 DEF IInv
<1>8. QED
  BY Zenon, <1>6, <1>7

\* BttWriteLayout initialises the map and the flog of an arena in order.
LEMMA LayoutProgress ==
  ASSUME TypeOK, LayoutDone,
         LayoutZeroMap \/ LayoutZeroFlog \/ LayoutFlog \/ LayoutInfo \/ LayoutBackup
  PROVE  LayoutDone'
<1>0. cur \in Arenas /\ idx \in Nat
  BY Zenon DEF TypeOK, DriverTypes
<1>1. CASE LayoutZeroMap
  <2>1. /\ pc = "zeromap" /\ cur' = cur /\ flog' = flog
        /\ \/ pc' = "zeromap" /\ idx' = idx + 1 /\ idx < LastMapLine
           \/ pc' = "zeroflog" /\ idx = LastMapLine
    BY <1>0, <1>1, MapLines DEF LayoutZeroMap, Goto, LayoutDone
  <2>2. \A p \in Lbas :
          map'[cur][p] = IF BttGetMapFromLba(p) = idx THEN InitialEntry ELSE map[cur][p]
    BY Zenon, <1>0, <1>1 DEF LayoutZeroMap, TypeOK, MediaTypes
  <2>3. QED
    BY <2>1, <2>2, <1>0, MapLines DEF LayoutDone, LastMapLine, BttGetMapFromLba
<1>2. CASE LayoutZeroFlog
  <2>1. pc' = "layflog" /\ idx' = 0 /\ \A p \in Lbas : map'[cur'][p] = InitialEntry
    BY Zenon, <1>2 DEF LayoutZeroFlog, Goto, LayoutDone
  <2>2. QED
    BY <2>1 DEF LayoutDone, Lanes
<1>3. CASE LayoutFlog
  <2>1. \A i \in Lanes : flog'[cur][i] = IF i = idx THEN InitialPair(i) ELSE flog[cur][i]
    BY <1>0, <1>3 DEF LayoutFlog, TypeOK, MediaTypes
  <2>2. /\ \A i \in Lanes : i < idx => flog[cur][i] = InitialPair(i)
        /\ cur' = cur /\ \A p \in Lbas : map'[cur'][p] = InitialEntry
    BY Zenon, <1>3 DEF LayoutFlog, LayoutDone, Goto
  <2>3. \/ pc' = "layflog" /\ idx' = idx + 1
        \/ pc' = "info" /\ idx + 1 >= NFree
    BY <1>0, <1>3, BttAssumptions DEF LayoutFlog, Goto
  <2>4. \A i \in Lanes : i < idx + 1 => flog'[cur][i] = InitialPair(i)
    BY <2>1, <2>2, <1>0 DEF Lanes
  <2>5. QED
    BY <2>2, <2>3, <2>4, <1>0, BttAssumptions DEF LayoutDone, Lanes
<1>4. CASE LayoutInfo
  BY Zenon, <1>4 DEF LayoutInfo, Goto, LayoutDone
<1>5. CASE LayoutBackup
  BY <1>0, <1>5, MapLines DEF LayoutBackup, Goto, LayoutDone, LastMapLine
<1>6. QED
  BY Zenon, <1>1, <1>2, <1>3, <1>4, <1>5

\* BttWriteLayout works on an arena whose info block is not valid yet.
LEMMA LayoutInv ==
  ASSUME IInv, TypeOK',
         LayoutZeroMap \/ LayoutZeroFlog \/ LayoutFlog \/ LayoutInfo \/ LayoutBackup
  PROVE  IInv'
<1>. LayoutDone'
  BY ZenonT(60), LayoutProgress DEF IInv
<1>0. /\ pc \in LayoutPcs /\ ~laidout /\ cur \in Arenas /\ idx \in Nat
      /\ laidout' = laidout /\ ctx' = ctx /\ ns' = ns /\ flogMedia' = flog'
      /\ data' = data /\ rt' = rt
  BY DEF IInv, TypeOK, DriverTypes, Control, LayoutZeroMap, LayoutZeroFlog, LayoutFlog,
     LayoutInfo, LayoutBackup, LayoutPcs
<1>1. CASE LayoutZeroMap
  <2>1. /\ pc = "zeromap" /\ cur' = cur /\ info' = info /\ flog' = flog
        /\ \/ pc' = "zeromap" /\ idx' = idx + 1 /\ idx < LastMapLine
           \/ pc' = "zeroflog" /\ idx = LastMapLine
    BY <1>1, MapLines DEF LayoutZeroMap, Goto, IInv, LayoutDone, TypeOK, DriverTypes
  <2>2. \A a \in Arenas : a # cur => map'[a] = map[a]
    BY Zenon, <1>1 DEF LayoutZeroMap, IInv, TypeOK, MediaTypes
  <2>4. AllConsistent'
    BY <2>1, <2>2, <1>0, SameArena DEF IInv, AllConsistent, LayoutAhead, Unformed, Arenas
  <2>6. Control' /\ LayoutAhead'
    BY Zenon, <2>1, <1>0 DEF IInv, Control, LayoutAhead, LayoutFound, LayoutPcs, Writing, Unformed
  <2>7. Recovered' /\ Caches' /\ WriteProgress'
    BY Zenon, <2>1, <1>0 DEF Recovered, Caches, WriteProgress
  <2>8. QED
    BY Zenon, <2>4, <2>6, <2>7, <1>0 DEF IInv
<1>2. CASE LayoutZeroFlog \/ LayoutFlog
  <2>1. /\ pc \in {"zeroflog", "layflog"} /\ cur' = cur /\ info' = info /\ map' = map
        /\ pc' \in {"layflog", "info"}
    BY Zenon, <1>2 DEF LayoutZeroFlog, LayoutFlog, Goto
  <2>2. \A a \in Arenas : a # cur => flog'[a] = flog[a]
    BY Zenon, <1>2 DEF LayoutZeroFlog, LayoutFlog, IInv, TypeOK, MediaTypes
  <2>3. AllConsistent'
    BY <2>1, <2>2, <1>0, SameArena DEF IInv, AllConsistent, LayoutAhead, Unformed, Arenas
  <2>6. Control' /\ LayoutAhead'
    BY Zenon, <2>1, <1>0 DEF IInv, Control, LayoutAhead, LayoutFound, LayoutPcs, Writing, Unformed
  <2>7. Recovered' /\ Caches' /\ WriteProgress'
    BY Zenon, <2>1, <1>0 DEF Recovered, Caches, WriteProgress
  <2>8. QED
    BY Zenon, <2>3, <2>6, <2>7, <1>0 DEF IInv
<1>3. CASE LayoutInfo
  <2>1. /\ pc \in {"info", "info2"} /\ cur' = cur /\ flog' = flog /\ map' = map
        /\ pc' = IF pc = "info" THEN "info2" ELSE "backup"
    BY Zenon, <1>3 DEF LayoutInfo, Goto
  <2>2. \A a \in Arenas : info'[a] = IF a # cur THEN info[a]
                                     ELSE IF pc = "info" THEN "torn" ELSE "valid"
    BY Zenon, <1>3 DEF LayoutInfo, IInv, TypeOK, MediaTypes
  <2>3. Consistent(cur)
    BY Zenon, <2>1, <1>0, FreshConsistent DEF IInv, LayoutDone
  <2>4. AllConsistent'
    BY Zenon, <2>1, <2>2, <2>3, <1>0, SameArena DEF IInv, AllConsistent, BttReadInfo
  <2>5. LayoutAhead'
    BY SMTT(30), <2>1, <2>2, <1>0 DEF IInv, LayoutAhead, LayoutPcs, Unformed, BttReadInfo, Arenas
  <2>7. ~LayoutFound
    BY <2>1, <1>0 DEF IInv, LayoutAhead, LayoutFound, Unformed, Arenas
  <2>8. Control'
    BY Zenon, <2>1, <2>7, <1>0 DEF IInv, Control, LayoutPcs, Writing
  <2>9. Recovered' /\ Caches' /\ WriteProgress'
    BY Zenon, <2>1, <1>0 DEF Recovered, Caches, WriteProgress
  <2>10. QED
    BY Zenon, <2>4, <2>5, <2>8, <2>9, <1>0 DEF IInv
<1>4. CASE LayoutBackup
  <2>1. /\ pc \in {"backup", "backup2"} /\ info' = info /\ flog' = flog /\ map' = map
        /\ \/ pc' = "backup2" /\ cur' = cur
           \/ pc' = "zeromap" /\ cur' = cur + 1 /\ idx' = 0
           \/ pc' = "readflog" /\ cur + 1 = NArenas /\ cur' = 0 /\ idx' = 0
    BY Zenon, <1>4 DEF LayoutBackup, Goto
  <2>2. AllConsistent'
    BY Zenon, <2>1, <1>0, SameArena DEF IInv, AllConsistent
  <2>3. LayoutAhead'
    BY <2>1, <1>0 DEF IInv, LayoutAhead, LayoutPcs, Unformed, Arenas
  <2>5. pc' = "readflog" => LayoutFound'
    BY <2>1, <1>0, BttAssumptions DEF IInv, LayoutAhead, LayoutPcs, LayoutFound, Arenas
  <2>6. Control'
    BY Zenon, <2>1, <2>5, <1>0 DEF IInv, Control, LayoutFound, LayoutPcs, Writing
  <2>7. Recovered' /\ Caches' /\ WriteProgress'
    BY <2>1, <1>0 DEF Recovered, Caches, WriteProgress, Arenas, Lanes
  <2>8. QED
    BY Zenon, <2>2, <2>3, <2>6, <2>7, <1>0 DEF IInv
<1>5. QED
  BY Zenon, <1>1, <1>2, <1>3, <1>4

\* BttInit finds a layout, or none and leaves the namespace to the first write.
LEMMA BttInitInv ==
  ASSUME IInv, TypeOK', NEW b, BttInit(b)
  PROVE  IInv'
<1>1. /\ ns = "present" /\ ns' = "present" /\ ctx' = "init" /\ ~laidout /\ ~laidout'
      /\ UNCHANGED <<info, map, flog, flogMedia, data>>
      /\ \/ pc' = "readflog" /\ LayoutFound /\ cur' = 0 /\ idx' = 0
         \/ pc' = "idle" /\ ~LayoutFound
  BY Zenon DEF BttInit, Goto, IInv, Control, media
<1>2. AllConsistent'
  BY Zenon, <1>1, SameArena DEF IInv, AllConsistent
<1>3. Control'
  BY Zenon, <1>1 DEF IInv, Control, LayoutFound, LayoutPcs, Writing
<1>4. LayoutAhead' /\ LayoutDone' /\ Recovered' /\ Caches' /\ WriteProgress'
  BY <1>1 DEF LayoutAhead, LayoutDone, Recovered, Caches, WriteProgress, Unformed, LayoutPcs,
     Arenas, Lanes
<1>5. QED
  BY Zenon, <1>1, <1>2, <1>3, <1>4 DEF IInv

\* BttReadFlogPair: the lane just read has nothing left to redo.
LEMMA ReadFlogInv ==
  ASSUME IInv, TypeOK', BttReadFlogPair
  PROVE  IInv'
<1>1. PICK c \in Arenas, k \in Lanes : c = cur /\ k = idx
  BY Zenon DEF BttReadFlogPair, IInv, TypeOK, DriverTypes
<1>2. /\ pc = "readflog" /\ LayoutFound /\ ~laidout /\ Current(c, k) # -1
      /\ UNCHANGED <<info, flog, flogMedia, data, ns, ctx>>
      /\ \/ k + 1 < NFree /\ pc' = "readflog" /\ cur' = c /\ idx' = k + 1
         \/ k + 1 = NFree /\ c + 1 < NArenas /\ pc' = "readflog" /\ cur' = c + 1 /\ idx' = 0
         \/ k + 1 = NFree /\ c + 1 = NArenas /\ pc' = AfterOpen
  BY Zenon, <1>1 DEF BttReadFlogPair, IInv, Control, Goto
<1>0. laidout' <=> k + 1 = NFree /\ c + 1 = NArenas
  BY Zenon, <1>1 DEF BttReadFlogPair
<1>3. Consistent(c)
  BY Zenon, <1>1, <1>2 DEF IInv, AllConsistent, LayoutFound
<1>4. \A a \in Arenas : a # c => map'[a] = map[a]
  BY Zenon, <1>1 DEF BttReadFlogPair, RedoMap, IInv, TypeOK, MediaTypes
<1>5. /\ Consistent(c)'
      /\ ~Incomplete(c, k)'
      /\ \A j \in Lanes : Incomplete(c, j)' => Incomplete(c, j)
  <2>1. CASE Incomplete(c, k)
    <3>1. map' = [map EXCEPT ![c][CurrentFlog(c, k).lba] = CurrentFlog(c, k).new]
      BY Zenon, <1>1, <2>1 DEF BttReadFlogPair, RedoMap
    <3>2. TypeOK /\ flog' = flog /\ data' = data
      BY Zenon, <1>2 DEF IInv
    <3>3. Redoes(c, k)
      BY Zenon, <2>1, <3>1, <3>2 DEF Redoes
    <3>4. QED
      BY Zenon, <1>3, <3>2, <3>3, RedoConsistent
  <2>2. CASE ~Incomplete(c, k)
    <3>1. map' = map
      BY Zenon, <1>1, <2>2 DEF BttReadFlogPair, RedoMap
    <3>2. QED
      BY Zenon, <1>2, <1>3, <2>2, <3>1, SameArena
  <2>3. QED
    BY Zenon, <2>1, <2>2
<1>6. \A a \in Arenas, j \in Lanes : Incomplete(a, j)' => Incomplete(a, j)
  BY Zenon, <1>2, <1>4, <1>5, SameArena
<1>7. AllConsistent'
  BY Zenon, <1>2, <1>4, <1>5, SameArena DEF IInv, AllConsistent
<1>8. ASSUME NEW a \in Arenas, NEW i \in Lanes, a < c \/ (a = c /\ i <= k)
      PROVE  ~Incomplete(a, i)'
  BY <1>1, <1>2, <1>5, <1>6, <1>8 DEF IInv, Recovered, Lanes
<1>9. ASSUME NEW a \in Arenas, a <= c PROVE Cached(a)'
  <2>1. Current(a, 0)' = Current(a, 0)
    BY Zenon, <1>2, ConstantTypes DEF Current
  <2>2. CASE a = c /\ k = 0
    <3>1. rt'[a] = [pair |-> flog[a][0], next |-> 1 - Current(a, 0)]
      BY Zenon, <1>1, <2>2 DEF BttReadFlogPair, CacheFlog, IInv, TypeOK, DriverTypes
    <3>2. QED
      BY <1>2, <2>1, <3>1 DEF Cached
  <2>3. CASE ~(a = c /\ k = 0)
    <3>1. Cached(a)
      BY <1>1, <1>2, <1>9, <2>3 DEF IInv, Caches, Arenas, Lanes
    <3>2. rt'[a] = rt[a]
      BY Zenon, <1>1, <2>3 DEF BttReadFlogPair, CacheFlog, IInv, TypeOK, DriverTypes
    <3>3. QED
      BY Zenon, <1>2, <2>1, <3>1, <3>2 DEF Cached
  <2>4. QED
    BY Zenon, <2>2, <2>3
<1>10. Recovered'
  <2>1. laidout' => \A a \in Arenas, i \in Lanes : ~Incomplete(a, i)'
    BY <1>0, <1>8, BttAssumptions DEF Arenas, Lanes
  <2>2. pc' = "readflog" => \A a \in Arenas, i \in Lanes :
          a < cur' \/ (a = cur' /\ i < idx') => ~Incomplete(a, i)'
    BY <1>2, <1>8, BttAssumptions DEF Arenas, Lanes, AfterOpen
  <2>3. QED
    BY Zenon, <2>1, <2>2 DEF Recovered
<1>11. Caches'
  <2>1. laidout' => \A a \in Arenas : Cached(a)'
    BY <1>0, <1>9, BttAssumptions DEF Arenas
  <2>2. pc' = "readflog" => \A a \in Arenas : a < cur' \/ (a = cur' /\ 0 < idx') => Cached(a)'
    BY <1>2, <1>9, BttAssumptions DEF Arenas, AfterOpen
  <2>3. pc' # "flog2"
    BY Zenon, <1>2 DEF AfterOpen
  <2>4. QED
    BY Zenon, <2>1, <2>2, <2>3 DEF Caches
<1>12. Control'
  <2>1. /\ pc' \in {"readflog", "idle", "label", "data"}
        /\ (pc' = "readflog" <=> ~laidout')
        /\ (pc' = "idle" => ctx = "init") /\ (pc' = "label" => ctx = "create")
        /\ (pc' = "data" => ctx = "write")
    BY <1>0, <1>2, BttAssumptions DEF AfterOpen, IInv, TypeOK, DriverTypes, Arenas, Lanes
  <2>2. QED
    BY Zenon, <1>2, <2>1 DEF IInv, Control, LayoutFound, LayoutPcs, Writing
<1>13. LayoutAhead' /\ LayoutDone' /\ WriteProgress'
  BY Zenon, <1>2 DEF AfterOpen, LayoutAhead, LayoutDone, WriteProgress, Unformed, LayoutPcs
<1>14. QED
  BY Zenon, <1>2, <1>7, <1>10, <1>11, <1>12, <1>13 DEF IInv

-----------------------------------------------------------------------------
(* Writing a block                                                         *)

\* BttWrite begins: with the data, or with a layout if there is none.
LEMMA BttWriteInv ==
  ASSUME IInv, TypeOK', NoPartialReformat, NEW a, NEW p, NEW v, BttWrite(a, p, v)
  PROVE  IInv'
<1>1. /\ pc = "idle" /\ ns = "present" /\ ns' = "present" /\ ctx' = "write"
      /\ UNCHANGED <<info, map, flog, flogMedia, data, laidout, rt>>
      /\ \/ laidout /\ LayoutFound /\ pc' = "data"
         \/ ~laidout /\ ~LayoutFound /\ pc' = "zeromap" /\ cur' = 0 /\ idx' = 0
  BY Zenon DEF BttWrite, Goto, IInv, Control, media
<1>2. AllConsistent'
  BY Zenon, <1>1, SameArena DEF IInv, AllConsistent
<1>3. ~LayoutFound => "damage" \in ForeignKinds /\ \A c \in Arenas : ~BttReadInfo(info[c])
  BY <1>1 DEF IInv, Control, LayoutFound, NoPartialReformat, Arenas
<1>4. Control'
  BY Zenon, <1>1, <1>3 DEF IInv, Control, LayoutFound, LayoutPcs, Writing
<1>5. LayoutAhead'
  BY <1>1, <1>3 DEF LayoutAhead, Unformed, LayoutPcs, Arenas
<1>6. LayoutDone' /\ WriteProgress'
  BY <1>1, MapLines DEF LayoutDone, WriteProgress, LastMapLine
<1>7. Recovered'
  BY Zenon, <1>1, SameArena DEF IInv, Recovered
<1>8. Caches'
  <2>1. ASSUME laidout, NEW c \in Arenas PROVE Cached(c)'
    BY <1>1, <2>1, SameArena, ConstantTypes DEF IInv, Caches, Cached
  <2>2. QED
    BY ZenonT(60), <1>1, <2>1 DEF Caches
<1>9. QED
  BY Zenon, <1>1, <1>2, <1>4, <1>5, <1>6, <1>7, <1>8 DEF IInv

\* The data goes to a block that no LBA and no other lane refers to.
LEMMA WriteDataInv ==
  ASSUME IInv, TypeOK', WriteData
  PROVE  IInv'
<1>1. PICK a \in Arenas, b \in Blocks : a = req.a /\ b = FreeMap(a).blk
  BY Zenon, OperatorTypes DEF IInv, TypeOK, DriverTypes, Entry
<1>2. /\ pc \in {"data", "data2"} /\ laidout /\ LayoutFound
      /\ UNCHANGED <<info, map, flog, flogMedia, ns, ctx, req, laidout, rt>>
      /\ \/ pc' = "data2"
         \/ pc' = "lock" /\ data'[a][b] # Torn
  <2>1. data'[a][b] = IF pc = "data" THEN Torn ELSE req.v
    BY ZenonT(60), <1>1 DEF WriteData, IInv, TypeOK, MediaTypes
  <2>2. req.v # Torn
    BY Zenon, BttAssumptions DEF IInv, TypeOK, DriverTypes
  <2>3. QED
    BY Zenon, <2>1, <2>2 DEF WriteData, Goto, IInv, Control, Writing
<1>3. /\ \A c \in Arenas : c # a => data'[c] = data[c]
      /\ \A d \in Blocks : d # b => data'[a][d] = data[a][d]
  BY Zenon, <1>1 DEF WriteData, IInv, TypeOK, MediaTypes
<1>4. Consistent(a) /\ Cached(a) /\ \A c \in Arenas, i \in Lanes : ~Incomplete(c, i)
  BY ZenonT(60), <1>1, <1>2 DEF IInv, AllConsistent, LayoutFound, Caches, Recovered
<1>5. Spare(a, 0) = b
  BY <1>1, <1>4, FreeIsSpare, ConstantTypes DEF Spare
<1>6. Consistent(a)'
  <2>1. /\ \A i \in Lanes : Current(a, i)' = Current(a, i)
        /\ \A i \in Lanes : CurrentFlog(a, i)' = CurrentFlog(a, i)
        /\ \A i \in Lanes : ~Incomplete(a, i)'
    BY Zenon, <1>2, <1>4, SameArena
  <2>2. Owned(a)'
    BY Zenon, <1>2, <1>4, <2>1, SameCurrent DEF Consistent
  <2>3. ASSUME NEW q \in Lbas, map[a][q].flag = "normal" PROVE data'[a][map[a][q].blk] # Torn
    <3>1. map[a][q].blk \in Blocks
      BY DEF IInv, TypeOK, MediaTypes, Entry
    <3>2. map[a][q].blk # b
      BY Zenon, <1>4, <1>5, <2>3, ConstantTypes DEF Consistent, Owned, MapEntry
    <3>3. QED
      BY Zenon, <1>3, <1>4, <2>3, <3>1, <3>2 DEF Consistent, MappedWhole
  <2>4. MappedWhole(a)' /\ LoggedWhole(a)'
    BY Zenon, <1>2, <2>1, <2>3 DEF MappedWhole, LoggedWhole
  <2>5. Readable(a)' /\ Separate(a)'
    BY Zenon, <1>4, <2>1 DEF Consistent, Readable, Separate
  <2>6. QED
    BY Zenon, <2>2, <2>4, <2>5 DEF Consistent
<1>7. AllConsistent'
  BY Zenon, <1>2, <1>3, <1>6, SameArena DEF IInv, AllConsistent
<1>8. Control'
  BY Zenon, <1>2 DEF IInv, Control, LayoutFound, LayoutPcs, Writing
<1>9. LayoutAhead' /\ LayoutDone'
  BY Zenon, <1>2 DEF LayoutAhead, LayoutDone, Unformed, LayoutPcs
<1>10. Recovered'
  BY Zenon, <1>2, <1>4, SameArena DEF Recovered
<1>11. Caches'
  <2>1. ASSUME NEW c \in Arenas PROVE Cached(c)'
    BY <1>2, SameArena, ConstantTypes DEF IInv, Caches, Cached
  <2>2. QED
    BY ZenonT(60), <1>2, <2>1 DEF Caches
<1>12. WriteProgress'
  BY Zenon, <1>1, <1>2 DEF WriteProgress, FreeMap
<1>13. QED
  BY Zenon, <1>2, <1>7, <1>8, <1>9, <1>10, <1>11, <1>12 DEF IInv

\* The two writes of BttFlogUpdate to a flog half.
LEMMA HalfUpdates ==
  ASSUME NEW h \in FlogEntry, NEW f \in FlogEntry
  PROVE  /\ LET g == [h EXCEPT !.lba = f.lba, !.old = f.old]
            IN  g \in FlogEntry /\ g.lba = f.lba /\ g.old = f.old /\ g.seq = h.seq
         /\ LET g == [h EXCEPT !.new = f.new, !.seq = f.seq]
            IN  /\ g \in FlogEntry /\ g.lba = h.lba /\ g.old = h.old
                /\ g.new = f.new /\ g.seq = f.seq
  BY Zenon DEF FlogEntry

\* The first half of BttFlogUpdate touches only the flog half that is not
\* current.
LEMMA FlogUpdate1Inv ==
  ASSUME IInv, TypeOK', CachePersistent, BttFlogUpdate1
  PROVE  /\ IInv'
         /\ \A c \in Arenas, i \in Lanes : CurrentFlog(c, i)' = CurrentFlog(c, i)
         /\ FreeMap(req.a)' = FreeMap(req.a)
<1>1. PICK a \in Arenas, n \in Slots, p \in Lbas : a = req.a /\ n = rt[a].next /\ p = req.p
  BY Zenon DEF IInv, TypeOK, DriverTypes, Runtime
<1>2. /\ pc = "lock" /\ pc' = "flog2" /\ laidout /\ LayoutFound /\ flogMedia' = flog'
      /\ UNCHANGED <<info, map, data, ns, ctx, req, laidout>>
  BY Zenon DEF BttFlogUpdate1, PersistFlog, Goto, IInv, Control, Writing
<1>3. PICK f \in FlogEntry :
        /\ f = [lba |-> p, old |-> MapEntry(a, p), new |-> FreeMap(a),
                seq |-> NSEQ(rt[a].pair[1 - n].seq)]
        /\ rt' = [rt EXCEPT ![a].pair[n] = f]
        /\ flog' = [flog EXCEPT ![a][0][n] = [@ EXCEPT !.lba = f.lba, !.old = f.old]]
  BY Zenon, <1>1, NewFlogTypes DEF BttFlogUpdate1, IInv
<1>4. Cached(a) /\ \A c \in Arenas, i \in Lanes : ~Incomplete(c, i)
  BY ZenonT(60), <1>1, <1>2 DEF IInv, Caches, Recovered
<1>5. 1 - n = Current(a, 0) /\ n # 1 - n /\ 1 - n \in Slots /\ n \in {0, 1}
  BY <1>1, <1>4, FreeIsSpare, ConstantTypes DEF Slots
<1>6. PICK h \in FlogEntry : /\ h.lba = p /\ h.old = MapEntry(a, p) /\ h.seq = flog[a][0][n].seq
                             /\ flog' = [flog EXCEPT ![a][0][n] = h]
  <2>1. flog[a][0][n] \in FlogEntry
    BY ConstantTypes DEF IInv, TypeOK, MediaTypes, FlogPair
  <2>2. f.lba = p /\ f.old = MapEntry(a, p)
    BY Zenon, <1>3
  <2>3. flog' = [flog EXCEPT ![a][0][n] = [flog[a][0][n] EXCEPT !.lba = f.lba, !.old = f.old]]
    BY Zenon, <1>3
  <2>4. QED
    BY Zenon, <2>1, <2>2, <2>3, HalfUpdates
<1>7. /\ \A c \in Arenas : c # a => flog'[c] = flog[c]
      /\ \A i \in Lanes : i # 0 => flog'[a][i] = flog[a][i]
      /\ flog'[a][0][1 - n] = flog[a][0][1 - n]
      /\ flog'[a][0][n] = h
  BY <1>5, <1>6, ConstantTypes DEF IInv, TypeOK, MediaTypes, FlogPair
<1>8. /\ \A c \in Arenas : c # a => rt'[c] = rt[c]
      /\ rt'[a].next = n /\ rt'[a].pair[1 - n] = rt[a].pair[1 - n] /\ rt'[a].pair[n] = f
  <2>1. rt' = [rt EXCEPT ![a].pair[n] = f] /\ n = rt[a].next
    BY Zenon, <1>1, <1>3
  <2>2. QED
    BY <1>5, <2>1 DEF IInv, TypeOK, DriverTypes, Runtime, FlogPair
<1>9. ASSUME NEW i \in Lanes PROVE Current(a, i)' = Current(a, i)
  <2>1. i = 0 => flog'[a][i][0].seq = flog[a][i][0].seq /\ flog'[a][i][1].seq = flog[a][i][1].seq
    BY <1>5, <1>6, <1>7
  <2>2. QED
    BY Zenon, <1>7, <2>1 DEF Current
<1>10. \A i \in Lanes : CurrentFlog(a, i)' = CurrentFlog(a, i)
  BY <1>5, <1>7, <1>9 DEF CurrentFlog
<1>11. /\ \A q : MapEntry(a, q)' = MapEntry(a, q)
       /\ \A i \in Lanes : ~Incomplete(a, i)'
       /\ Owned(a)' <=> Owned(a)
  BY Zenon, <1>2, <1>4, <1>9, <1>10, SameCurrent
<1>12. Consistent(a)
  BY Zenon, <1>2 DEF IInv, AllConsistent, LayoutFound
<1>13. Consistent(a)'
  <2>1. Readable(a)' /\ Separate(a)' /\ LoggedWhole(a)'
    BY Zenon, <1>9, <1>11, <1>12 DEF Consistent, Readable, Separate, LoggedWhole
  <2>2. MappedWhole(a)'
    BY Zenon, <1>2, <1>12 DEF Consistent, MappedWhole
  <2>3. QED
    BY Zenon, <1>11, <1>12, <2>1, <2>2 DEF Consistent
<1>14. AllConsistent'
  BY Zenon, <1>2, <1>7, <1>13, SameArena DEF IInv, AllConsistent
<1>15. Control'
  BY Zenon, <1>2 DEF IInv, Control, LayoutFound, LayoutPcs, Writing
<1>16. LayoutAhead' /\ LayoutDone'
  BY Zenon, <1>2 DEF LayoutAhead, LayoutDone, Unformed, LayoutPcs
<1>17. Recovered'
  BY Zenon, <1>2, <1>4, <1>7, <1>11, SameArena DEF Recovered
<1>18. FreeMap(a)' = FreeMap(a)
  BY Zenon, <1>1, <1>8 DEF FreeMap
<1>19. Caches'
  <2>1. CachedHalf(a)'
    <3>1. rt'[a].next = 1 - Current(a, 0)'
      BY <1>5, <1>8, <1>9, ConstantTypes
    <3>2. rt'[a].pair[1 - rt'[a].next] = flog'[a][0][1 - rt'[a].next]
      BY Zenon, <1>4, <1>7, <1>8 DEF Cached
    <3>3. MapEntry(a, req.p)' = MapEntry(a, p)
      BY Zenon, <1>1, <1>2, <1>11
    <3>4. rt'[a].pair[rt'[a].next] =
            [lba |-> req'.p, old |-> MapEntry(a, req.p)', new |-> FreeMap(a)',
             seq |-> NSEQ(rt'[a].pair[1 - rt'[a].next].seq)]
      <4>1. f = [lba |-> p, old |-> MapEntry(a, p), new |-> FreeMap(a),
                 seq |-> NSEQ(rt[a].pair[1 - n].seq)]
        BY Zenon, <1>3
      <4>2. req'.p = p
        BY Zenon, <1>1, <1>2
      <4>3. QED
        BY Zenon, <1>8, <1>18, <3>3, <4>1, <4>2
    <3>5. flog'[a][0][rt'[a].next].lba = req'.p
          /\ flog'[a][0][rt'[a].next].old = MapEntry(a, req.p)'
      BY Zenon, <1>1, <1>2, <1>6, <1>7, <1>8, <3>3
    <3>6. QED
      BY Zenon, <3>1, <3>2, <3>4, <3>5 DEF CachedHalf
  <2>2. ASSUME NEW c \in Arenas, c # a PROVE Cached(c)'
    <3>1. Cached(c) /\ flog'[c] = flog[c] /\ rt'[c] = rt[c]
      BY Zenon, <1>1, <1>2, <1>7, <1>8, <2>2 DEF IInv, Caches
    <3>2. Current(c, 0)' = Current(c, 0)
      BY Zenon, <3>1 DEF Current
    <3>3. QED
      BY Zenon, <3>1, <3>2 DEF Cached
  <2>3. QED
    BY Zenon, <1>1, <1>2, <2>1, <2>2 DEF Caches
<1>20. WriteProgress'
  BY Zenon, <1>1, <1>2, <1>18 DEF IInv, WriteProgress, FreeMap
<1>21. \A c \in Arenas, i \in Lanes : CurrentFlog(c, i)' = CurrentFlog(c, i)
  BY Zenon, <1>2, <1>7, <1>10, SameArena
<1>22. FreeMap(req.a)' = FreeMap(req.a)
  BY Zenon, <1>1, <1>2, <1>18 DEF FreeMap
<1>23. QED
  BY Zenon, <1>2, <1>14, <1>15, <1>16, <1>17, <1>19, <1>20, <1>21, <1>22 DEF IInv

\* The second half of BttFlogUpdate makes the logged update current.
LEMMA FlogUpdate2Inv ==
  ASSUME IInv, TypeOK', CachePersistent, BttFlogUpdate2
  PROVE  /\ IInv'
         /\ Logs(req.a, 0, req.p, FreeMap(req.a).blk)
         /\ \A c \in Arenas : c # req.a => flog'[c] = flog[c]
<1>1. PICK a \in Arenas, n \in Slots, p \in Lbas : a = req.a /\ n = rt[a].next /\ p = req.p
  BY Zenon DEF IInv, TypeOK, DriverTypes, Runtime
<1>2. /\ pc = "flog2" /\ pc' = "map" /\ laidout /\ LayoutFound /\ flogMedia' = flog'
      /\ UNCHANGED <<info, map, data, ns, ctx, req, laidout>>
  BY Zenon DEF BttFlogUpdate2, PersistFlog, Goto, IInv, Control, Writing
<1>3. CachedHalf(a) /\ \A c \in Arenas, i \in Lanes : ~Incomplete(c, i)
  BY Zenon, <1>1, <1>2 DEF IInv, Caches, Recovered
<1>4. 1 - n = Current(a, 0) /\ n # 1 - n /\ 1 - n \in Slots /\ n \in {0, 1} /\ 0 \in Lanes
  BY <1>1, <1>3, FreeIsSpare, ConstantTypes DEF Slots
<1>5. PICK b \in Blocks : FreeMap(a) = [flag |-> "normal", blk |-> b]
  BY Zenon, OperatorTypes DEF IInv, Entry, FreeMap
<1>6. Spare(a, 0) = b
  BY <1>3, <1>4, <1>5, FreeIsSpare DEF Spare
<1>7. PICK f \in FlogEntry :
        /\ f = rt[a].pair[n]
        /\ f.lba = p /\ f.old = MapEntry(a, p) /\ f.new = FreeMap(a)
        /\ f.seq = NSEQ(flog[a][0][1 - n].seq)
        /\ flog[a][0][n].lba = p /\ flog[a][0][n].old = MapEntry(a, p)
  <2>1. rt[a].pair[n] \in FlogEntry
    BY DEF IInv, TypeOK, DriverTypes, Runtime, FlogPair
  <2>2. QED
    BY Zenon, <1>1, <1>3, <2>1 DEF CachedHalf
<1>8. flog' = [flog EXCEPT ![a][0][n] = f]
  <2>1. flog[a][0][n] \in FlogEntry
    BY ConstantTypes DEF IInv, TypeOK, MediaTypes, FlogPair
  <2>2. flog' = [flog EXCEPT ![a][0][n] = [flog[a][0][n] EXCEPT !.new = f.new, !.seq = f.seq]]
    BY Zenon, <1>1, <1>7 DEF BttFlogUpdate2
  <2>3. [flog[a][0][n] EXCEPT !.new = f.new, !.seq = f.seq] = f
    BY Zenon, <1>7, <2>1 DEF FlogEntry
  <2>4. QED
    BY Zenon, <2>2, <2>3
<1>9. /\ \A c \in Arenas : c # a => flog'[c] = flog[c]
      /\ \A i \in Lanes : i # 0 => flog'[a][i] = flog[a][i]
      /\ flog'[a][0][1 - n] = flog[a][0][1 - n]
      /\ flog'[a][0][n] = f
  BY <1>4, <1>8 DEF IInv, TypeOK, MediaTypes, FlogPair
<1>10. /\ \A c \in Arenas : c # a => rt'[c] = rt[c]
       /\ rt'[a].next = 1 - n /\ rt'[a].pair = rt[a].pair
  <2>1. rt' = [rt EXCEPT ![a].next = 1 - n]
    BY Zenon, <1>1 DEF BttFlogUpdate2
  <2>2. QED
    BY ZenonT(60), <1>4, <2>1 DEF IInv, TypeOK, DriverTypes, Runtime
<1>11. Current(a, 0)' = n /\ CurrentFlog(a, 0)' = f
  <2>1. flog[a][0][0].seq \in 0 .. 3 /\ flog[a][0][1].seq \in 0 .. 3
    BY SMTT(30), <1>4 DEF IInv, TypeOK, MediaTypes, FlogPair, Slots, FlogEntry
  <2>2. Current(a, 0)' = n
    BY SMTT(30), <1>4, <1>7, <1>9, <2>1, FlogAdvance DEF Current
  <2>3. QED
    BY Zenon, <1>4, <1>9, <2>2 DEF CurrentFlog
<1>12. /\ \A j \in Lanes : j # 0 => Current(a, j)' = Current(a, j)
       /\ \A j \in Lanes : j # 0 => CurrentFlog(a, j)' = CurrentFlog(a, j)
  BY Zenon, <1>9 DEF Current, CurrentFlog
<1>13. /\ Consistent(a)' /\ Incomplete(a, 0)' /\ \A j \in Lanes : j # 0 => ~Incomplete(a, j)'
       /\ Logs(a, 0, p, b)
  <2>1. TypeOK /\ Consistent(a) /\ ~Incomplete(a, 0) /\ map'[a] = map[a]
    BY Zenon, <1>2, <1>3, <1>4 DEF IInv, AllConsistent, LayoutFound
  <2>2. \A j \in Lanes : Incomplete(a, j) => CurrentFlog(a, j).lba # p
    BY Zenon, <1>3
  <2>3. /\ Current(a, 0)' # -1
        /\ CurrentFlog(a, 0)'.lba = p /\ CurrentFlog(a, 0)'.old = MapEntry(a, p)
        /\ CurrentFlog(a, 0)'.new = [flag |-> "normal", blk |-> b]
    BY SMTT(30), <1>4, <1>5, <1>7, <1>11
  <2>4. data'[a][b] # Torn /\ \A c \in Blocks : c # b => data'[a][c] = data[a][c]
    BY SMTT(30), <1>1, <1>2, <1>5 DEF IInv, WriteProgress
  <2>5. /\ Consistent(a)'
        /\ Incomplete(a, 0)'
        /\ \A j \in Lanes : j # 0 => (Incomplete(a, j)' <=> Incomplete(a, j))
        /\ Logs(a, 0, p, b)
    <3>1. Logs(a, 0, p, b)
      BY Zenon, <1>6, <1>12, <2>1, <2>2, <2>3, <2>4 DEF Logs
    <3>2. QED
      BY Zenon, <1>4, <2>1, <3>1, LogConsistent
  <2>6. QED
    BY Zenon, <1>3, <2>5
<1>14. AllConsistent'
  BY Zenon, <1>2, <1>9, <1>13, SameArena DEF IInv, AllConsistent
<1>15. Control'
  BY Zenon, <1>2 DEF IInv, Control, LayoutFound, LayoutPcs, Writing
<1>16. LayoutAhead' /\ LayoutDone'
  BY Zenon, <1>2 DEF LayoutAhead, LayoutDone, Unformed, LayoutPcs
<1>17. Recovered'
  BY Zenon, <1>1, <1>2, <1>3, <1>9, <1>13, SameArena DEF Recovered
<1>18. Caches'
  <2>1. Cached(a)'
    <3>1. rt[a].pair = flog'[a][0]
      <4>1. rt[a].pair[n] = flog'[a][0][n] /\ rt[a].pair[1 - n] = flog'[a][0][1 - n]
        BY ZenonT(60), <1>1, <1>3, <1>7, <1>9 DEF CachedHalf
      <4>2. rt[a].pair \in [Slots -> FlogEntry] /\ flog'[a][0] \in [Slots -> FlogEntry]
        BY <1>4 DEF IInv, TypeOK, MediaTypes, DriverTypes, Runtime, FlogPair
      <4>3. \A s \in Slots : s = n \/ s = 1 - n
        BY Zenon, <1>4 DEF Slots
      <4>4. QED
        BY <4>1, <4>2, <4>3
    <3>2. QED
      BY Zenon, <1>10, <1>11, <3>1 DEF Cached
  <2>2. ASSUME NEW c \in Arenas, c # a PROVE Cached(c)'
    <3>1. Cached(c) /\ flog'[c] = flog[c] /\ rt'[c] = rt[c]
      BY Zenon, <1>1, <1>2, <1>9, <1>10, <2>2 DEF IInv, Caches
    <3>2. Current(c, 0)' = Current(c, 0)
      BY Zenon, <3>1 DEF Current
    <3>3. QED
      BY Zenon, <3>1, <3>2 DEF Cached
  <2>3. QED
    BY Zenon, <1>2, <2>1, <2>2 DEF Caches
<1>19. WriteProgress'
  <2>1. Incomplete(req.a, 0)' /\ CurrentFlog(req.a, 0)'.lba = req'.p
    BY ZenonT(60), <1>1, <1>2, <1>7, <1>11, <1>13
  <2>2. QED
    BY Zenon, <1>2, <2>1 DEF WriteProgress
<1>20. /\ Logs(req.a, 0, req.p, FreeMap(req.a).blk)
       /\ \A c \in Arenas : c # req.a => flog'[c] = flog[c]
  BY <1>1, <1>5, <1>9, <1>13
<1>21. QED
  BY Zenon, <1>2, <1>14, <1>15, <1>16, <1>17, <1>18, <1>19, <1>20 DEF IInv

\* BttMapUnlock completes the logged update.
LEMMA MapUnlockInv ==
  ASSUME IInv, TypeOK', BttMapUnlock
  PROVE  IInv' /\ Redoes(req.a, 0)
<1>1. PICK a \in Arenas : a = req.a
  BY Zenon DEF IInv, TypeOK, DriverTypes
<1>2. /\ pc = "map" /\ pc' = "idle" /\ laidout /\ LayoutFound /\ ctx' = "init"
      /\ ns = "present" /\ ns' = "present"
      /\ UNCHANGED <<info, flog, flogMedia, data, laidout, rt>>
  BY Zenon DEF BttMapUnlock, Return, IInv, Control, Writing
<1>3. /\ Cached(a) /\ Consistent(a) /\ Incomplete(a, 0) /\ CurrentFlog(a, 0).lba = req.p
      /\ \A c \in Arenas, i \in Lanes : Incomplete(c, i) => c = a /\ i = 0
  BY Zenon, <1>1, <1>2 DEF IInv, Caches, Recovered, WriteProgress, AllConsistent, LayoutFound
<1>4. rt[a].pair[1 - rt[a].next] = CurrentFlog(a, 0)
  BY Zenon, <1>3, FreeIsSpare DEF Cached
<1>5. map' = [map EXCEPT ![a][CurrentFlog(a, 0).lba] = CurrentFlog(a, 0).new]
  BY Zenon, <1>1, <1>3, <1>4 DEF BttMapUnlock
<1>6. Consistent(a)' /\ Redoes(a, 0) /\ \A i \in Lanes : ~Incomplete(a, i)'
  <2>1. /\ Consistent(a)' /\ Redoes(a, 0) /\ ~Incomplete(a, 0)'
        /\ \A j \in Lanes : Incomplete(a, j)' => Incomplete(a, j)
    <3>1. TypeOK /\ flog' = flog /\ data' = data /\ 0 \in Lanes
      BY Zenon, <1>2, ConstantTypes DEF IInv
    <3>2. Redoes(a, 0)
      BY Zenon, <1>3, <1>5, <3>1 DEF Redoes
    <3>3. QED
      BY Zenon, <1>3, <3>1, <3>2, RedoConsistent
  <2>2. QED
    BY Zenon, <1>3, <2>1
<1>7. \A c \in Arenas : c # a => map'[c] = map[c]
  BY Zenon, <1>5 DEF IInv, TypeOK, MediaTypes
<1>8. AllConsistent'
  BY Zenon, <1>2, <1>6, <1>7, SameArena DEF IInv, AllConsistent
<1>9. Control'
  BY Zenon, <1>2 DEF IInv, Control, LayoutFound, LayoutPcs, Writing
<1>10. LayoutAhead' /\ LayoutDone' /\ WriteProgress'
  BY Zenon, <1>2 DEF LayoutAhead, LayoutDone, WriteProgress, Unformed, LayoutPcs
<1>11. Recovered'
  BY Zenon, <1>2, <1>3, <1>6, <1>7, SameArena DEF Recovered
<1>12. Caches'
  <2>1. ASSUME NEW c \in Arenas PROVE Cached(c)'
    <3>1. Cached(c) /\ flog'[c] = flog[c] /\ rt'[c] = rt[c]
      BY Zenon, <1>2 DEF IInv, Caches
    <3>2. Current(c, 0)' = Current(c, 0)
      BY Zenon, <3>1 DEF Current
    <3>3. QED
      BY Zenon, <3>1, <3>2 DEF Cached
  <2>2. QED
    BY Zenon, <1>2, <2>1 DEF Caches
<1>13. QED
  BY Zenon, <1>1, <1>2, <1>6, <1>8, <1>9, <1>10, <1>11, <1>12 DEF IInv

-----------------------------------------------------------------------------
(* Power failure, cache eviction and another operating system              *)

\* As LogConsistent, with the map updated as well: LBA p and lane i exchange
\* blocks.
LEMMA WriteConsistent ==
  ASSUME NEW a \in Arenas, NEW i \in Lanes, NEW p \in Lbas, NEW b \in Blocks, TypeOK,
         Consistent(a), Logs(a, i, p, b), NEW e \in Entry, e.flag = "normal", e.blk = b,
         map'[a][p] = e, \A q \in Lbas : q # p => map'[a][q] = map[a][q]
  PROVE  /\ Consistent(a)'
         /\ ~Incomplete(a, i)'
         /\ \A j \in Lanes : j # i => (Incomplete(a, j)' <=> Incomplete(a, j))
<1>1. Spare(a, i) = b
  BY Zenon DEF Logs
<1>2. /\ Current(a, i)' # -1
      /\ CurrentFlog(a, i)'.lba = p /\ CurrentFlog(a, i)'.old = MapEntry(a, p)
      /\ CurrentFlog(a, i)'.new = e
  BY Zenon DEF Logs, Entry
<1>3. \A j \in Lanes : j # i => /\ Current(a, j)' = Current(a, j)
                              /\ CurrentFlog(a, j)' = CurrentFlog(a, j)
  BY Zenon DEF Logs
<1>4. MapEntry(a, p)' = e /\ \A q \in Lbas : q # p => MapEntry(a, q)' = MapEntry(a, q)
  BY Zenon DEF MapEntry
<1>5. ~Incomplete(a, i)' /\ Spare(a, i)' = MapEntry(a, p).blk
  <2>1. ~Incomplete(a, i)'
    BY Zenon, <1>2, <1>4 DEF Incomplete
  <2>2. QED
    BY Zenon, <1>2, <2>1 DEF Spare
<1>6. ASSUME NEW j \in Lanes, j # i
      PROVE  (Incomplete(a, j)' <=> Incomplete(a, j)) /\ Spare(a, j)' = Spare(a, j)
  <2>1. Spare(a, j) # e.blk
    BY Zenon, <1>1, <1>6 DEF Consistent, Owned
  <2>2. CurrentFlog(a, j)' = CurrentFlog(a, j) /\ e.flag # "initial"
    BY Zenon, <1>3, <1>6
  <2>3. Incomplete(a, j) => CurrentFlog(a, j).lba # p
    BY Zenon DEF Logs
  <2>4. QED
    BY Zenon, <2>1, <2>2, <2>3, OtherLanes
<1>7. Owned(a)'
  <2>1. ASSUME NEW q \in Lbas, NEW r \in Lbas, q # r
        PROVE  MapEntry(a, q)'.blk # MapEntry(a, r)'.blk
    BY SMTT(30), <1>1, <1>4, <2>1 DEF Consistent, Owned
  <2>2. ASSUME NEW j \in Lanes, NEW k \in Lanes, j # k PROVE Spare(a, j)' # Spare(a, k)'
    BY SMTT(30), <1>5, <1>6, <2>2 DEF Consistent, Owned
  <2>3. ASSUME NEW q \in Lbas, NEW j \in Lanes PROVE MapEntry(a, q)'.blk # Spare(a, j)'
    BY <1>1, <1>4, <1>5, <1>6 DEF Consistent, Owned
  <2>4. QED
    BY ZenonT(60), <2>1, <2>2, <2>3 DEF Owned
<1>8. Readable(a)'
  BY Zenon, <1>2, <1>3 DEF Consistent, Readable
<1>9. \A j \in Lanes : Incomplete(a, j)' =>
        Incomplete(a, j) /\ j # i /\ CurrentFlog(a, j)' = CurrentFlog(a, j)
  BY Zenon, <1>3, <1>5, <1>6
<1>10. Separate(a)'
  BY ZenonT(60), <1>9 DEF Consistent, Separate
<1>11. MappedWhole(a)'
  <2>1. data'[a][b] # Torn
    BY ZenonT(60) DEF Logs
  <2>2. QED
    BY <2>1, OtherBlocks DEF MappedWhole
<1>12. LoggedWhole(a)'
  BY <1>9, OtherBlocks DEF LoggedWhole
<1>13. QED
  BY Zenon, <1>5, <1>6, <1>7, <1>8, <1>10, <1>11, <1>12 DEF Consistent

\* A flag set on a map entry that no logged update is about.
LEMMA MarkConsistent ==
  ASSUME NEW a \in Arenas, NEW p \in Lbas, NEW flag \in {"zero", "error"}, TypeOK,
         Consistent(a), Marks(a, p, flag)
  PROVE  /\ Consistent(a)'
         /\ \A j \in Lanes : Incomplete(a, j)' <=> Incomplete(a, j)
<1>1. PICK e \in Entry : /\ e.flag = flag /\ e.blk = MapEntry(a, p).blk
                         /\ map'[a][p] = e
  <2>1. [flag |-> flag, blk |-> MapEntry(a, p).blk] \in Entry
    BY Zenon, OperatorTypes DEF Entry
  <2>2. QED
    BY Zenon, <2>1 DEF Marks
<1>2. /\ \A q \in Lbas : q # p => map'[a][q] = map[a][q]
      /\ flog' = flog /\ data' = data
  BY Zenon DEF Marks
<1>3. \A j \in Lanes : Current(a, j)' = Current(a, j) /\ CurrentFlog(a, j)' = CurrentFlog(a, j)
  BY Zenon, <1>2 DEF Current, CurrentFlog
<1>4. ASSUME NEW j \in Lanes
      PROVE  (Incomplete(a, j)' <=> Incomplete(a, j)) /\ Spare(a, j)' = Spare(a, j)
  <2>1. Spare(a, j) # e.blk
    BY Zenon, <1>1 DEF Consistent, Owned
  <2>2. CurrentFlog(a, j)' = CurrentFlog(a, j) /\ e.flag # "initial"
    BY Zenon, <1>1, <1>3
  <2>3. Incomplete(a, j) => CurrentFlog(a, j).lba # p
    BY Zenon DEF Marks
  <2>4. QED
    BY Zenon, <1>1, <1>2, <2>1, <2>2, <2>3, OtherLanes
<1>5. \A q \in Lbas : MapEntry(a, q)'.blk = MapEntry(a, q).blk
  BY ZenonT(60), <1>1, <1>2 DEF MapEntry
<1>6. Owned(a)'
  BY ZenonT(60), <1>4, <1>5 DEF Consistent, Owned
<1>7. MappedWhole(a)'
  BY Zenon, <1>1, <1>2 DEF Consistent, MappedWhole
<1>8. Readable(a)' /\ Separate(a)'
  BY Zenon, <1>3, <1>4 DEF Consistent, Readable, Separate
<1>9. LoggedWhole(a)'
  BY Zenon, <1>2, <1>3, <1>4 DEF Consistent, LoggedWhole
<1>10. QED
  BY Zenon, <1>4, <1>6, <1>7, <1>8, <1>9 DEF Consistent

\* While the driver is not running only the media has to stay consistent.
LEMMA ForeignInv ==
  ASSUME IInv, TypeOK', NEW kind, Foreign(kind), flogMedia' = flog', AllConsistent',
         LayoutFound' \/ "damage" \in ForeignKinds
  PROVE  IInv'
<1>1. /\ pc = "off" /\ pc' = "off" /\ ns' = ns /\ ctx' = ctx /\ ~laidout /\ ~laidout'
  BY Zenon DEF Foreign, driver, IInv, Control
<1>2. Control'
  BY Zenon, <1>1 DEF IInv, Control, LayoutPcs, Writing
<1>3. LayoutAhead' /\ LayoutDone' /\ Recovered' /\ Caches' /\ WriteProgress'
  BY Zenon, <1>1 DEF LayoutAhead, LayoutDone, Recovered, Caches, WriteProgress, Unformed, LayoutPcs
<1>4. QED
  BY Zenon, <1>2, <1>3 DEF IInv

\* A block write of the other operating system, cut short or complete.
LEMMA ForeignWriteInv ==
  ASSUME IInv, TypeOK', NEW a \in Arenas, NEW i \in Lanes, NEW p \in Lbas, NEW v \in Values,
         NEW complete \in BOOLEAN, ForeignWrite(a, i, p, v, complete)
  PROVE  /\ IInv'
         /\ \E b \in Blocks :
              /\ Logs(a, i, p, b) /\ data'[a][b] = v
              /\ map' = map \/ map' = [map EXCEPT ![a][p] = [flag |-> "normal", blk |-> b]]
         /\ \A c \in Arenas : c # a => /\ map'[c] = map[c] /\ flog'[c] = flog[c]
                                     /\ data'[c] = data[c]
<1>1. /\ Foreign("write") /\ LayoutFound /\ Current(a, i) # -1 /\ ~Incomplete(a, i)
      /\ info' = info /\ Consistent(a) /\ TypeOK
      /\ \A j \in Lanes : Incomplete(a, j) => CurrentFlog(a, j).lba # p
  BY Zenon DEF ForeignWrite, Foreign, Settled, IInv, AllConsistent, LayoutFound
<1>2. PICK k \in Slots : k = 1 - Current(a, i)
  BY <1>1, OperatorTypes DEF Slots
<1>3. Current(a, i) = 1 - k /\ 1 - k \in Slots /\ k # 1 - k /\ k \in {0, 1}
  BY <1>1, <1>2, OperatorTypes DEF Slots
<1>4. CurrentFlog(a, i) = flog[a][i][1 - k] /\ CurrentFlog(a, i) \in FlogEntry
  BY Zenon, <1>1, <1>3, OperatorTypes DEF CurrentFlog
<1>5. PICK b \in Blocks : b = CurrentFlog(a, i).old.blk
  BY Zenon, <1>4 DEF FlogEntry, Entry
<1>6. PICK new \in Entry : new = [flag |-> "normal", blk |-> b] /\ new.flag = "normal" /\ new.blk = b
  <2>1. [flag |-> "normal", blk |-> b] \in Entry
    BY Zenon DEF Entry
  <2>2. QED
    BY Zenon, <2>1
<1>7. PICK g \in FlogEntry :
        /\ g = [lba |-> p, old |-> MapEntry(a, p), new |-> new, seq |-> NSEQ(CurrentFlog(a, i).seq)]
        /\ g.lba = p /\ g.old = MapEntry(a, p) /\ g.new = new
        /\ g.seq = NSEQ(flog[a][i][1 - k].seq)
  <2>1. NSEQ(CurrentFlog(a, i).seq) \in 0 .. 3 /\ MapEntry(a, p) \in Entry
    BY Zenon, <1>1, <1>4, ConstantTypes, OperatorTypes DEF FlogEntry
  <2>2. [lba |-> p, old |-> MapEntry(a, p), new |-> new,
         seq |-> NSEQ(CurrentFlog(a, i).seq)] \in FlogEntry
    BY Zenon, <2>1 DEF FlogEntry
  <2>3. QED
    BY Zenon, <1>4, <2>2
<1>8. /\ flog' = [flog EXCEPT ![a][i][k] = g]
      /\ flogMedia' = [flogMedia EXCEPT ![a][i] = [flog[a][i] EXCEPT ![k] = g]]
      /\ data' = [data EXCEPT ![a][b] = v]
  BY Zenon, <1>2, <1>5, <1>6, <1>7 DEF ForeignWrite
<1>9. /\ \A c \in Arenas : c # a => flog'[c] = flog[c]
      /\ \A j \in Lanes : j # i => flog'[a][j] = flog[a][j]
      /\ flog'[a][i][1 - k] = flog[a][i][1 - k]
      /\ flog'[a][i][k] = g
  <2>1. flog' = [flog EXCEPT ![a][i][k] = g] /\ flog \in [Arenas -> [Lanes -> FlogPair]]
    BY Zenon, <1>1, <1>8 DEF TypeOK, MediaTypes
  <2>2. QED
    BY <1>3, <2>1 DEF FlogPair
<1>10. Current(a, i)' = k /\ CurrentFlog(a, i)' = g
  <2>1. flog[a][i] \in FlogPair
    BY ZenonT(60), <1>1 DEF TypeOK, MediaTypes
  <2>2. flog[a][i][0].seq \in 0 .. 3 /\ flog[a][i][1].seq \in 0 .. 3
    BY Zenon, <2>1 DEF FlogPair, Slots, FlogEntry
  <2>3. Current(a, i)' = k
    BY SMTT(30), <1>3, <1>7, <1>9, <2>2, FlogAdvance DEF Current
  <2>4. QED
    BY Zenon, <1>3, <1>9, <2>3 DEF CurrentFlog
<1>11. \A j \in Lanes : j # i => /\ Current(a, j)' = Current(a, j)
                               /\ CurrentFlog(a, j)' = CurrentFlog(a, j)
  BY Zenon, <1>9 DEF Current, CurrentFlog
<1>12. /\ data'[a][b] = v /\ data'[a][b] # Torn /\ \A c \in Blocks : c # b => data'[a][c] = data[a][c]
       /\ \A c \in Arenas : c # a => data'[c] = data[c]
  <2>1. data \in [Arenas -> [Blocks -> Values \cup {Torn}]]
    BY Zenon, <1>1 DEF TypeOK, MediaTypes
  <2>2. QED
    BY Zenon, <1>8, <2>1, BttAssumptions
<1>13. Logs(a, i, p, b)
  <2>1. /\ Current(a, i)' # -1
        /\ CurrentFlog(a, i)'.lba = p /\ CurrentFlog(a, i)'.old = MapEntry(a, p)
        /\ CurrentFlog(a, i)'.new = [flag |-> "normal", blk |-> b]
    BY SMTT(30), <1>3, <1>6, <1>7, <1>10
  <2>2. Spare(a, i) = b
    BY Zenon, <1>1, <1>5 DEF Spare
  <2>3. QED
    BY ZenonT(60), <1>1, <1>11, <1>12, <2>1, <2>2 DEF Logs
<1>14. \/ map' = [map EXCEPT ![a][p] = new]
       \/ map' = map
  BY Zenon, <1>5, <1>6 DEF ForeignWrite
<1>15. map \in [Arenas -> [Lbas -> Entry]]
  BY Zenon, <1>1 DEF TypeOK, MediaTypes
<1>16. Consistent(a)'
  <2>1. CASE map' = [map EXCEPT ![a][p] = new]
    <3>1. /\ map'[a][p] = new
          /\ \A q \in Lbas : q # p => map'[a][q] = map[a][q]
      BY Zenon, <1>15, <2>1
    <3>2. QED
      BY Zenon, <1>1, <1>6, <1>13, <3>1, WriteConsistent
  <2>2. CASE map' = map
    BY Zenon, <1>1, <1>13, <2>2, LogConsistent
  <2>3. QED
    BY Zenon, <1>14, <2>1, <2>2
<1>17. \A c \in Arenas : c # a => map'[c] = map[c]
  BY Zenon, <1>14, <1>15
<1>18. AllConsistent'
  <2>1. \A c \in Arenas : c # a /\ Consistent(c) => Consistent(c)'
    BY Zenon, <1>9, <1>12, <1>17, SameArena
  <2>2. QED
    BY Zenon, <1>1, <1>16, <2>1 DEF IInv, AllConsistent
<1>19. flogMedia' = flog'
  <2>1. flogMedia = flog
    BY Zenon DEF IInv
  <2>2. flog \in [Arenas -> [Lanes -> FlogPair]]
    BY Zenon, <1>1 DEF TypeOK, MediaTypes
  <2>3. QED
    BY Zenon, <1>8, <2>1, <2>2
<1>20. LayoutFound'
  BY Zenon, <1>1 DEF LayoutFound
<1>21. IInv'
  BY Zenon, <1>1, <1>18, <1>19, <1>20, ForeignInv
<1>22. QED
  BY Zenon, <1>6, <1>9, <1>12, <1>13, <1>14, <1>17, <1>21

\* Everything else that happens to the media.
LEMMA EnvironmentInv ==
  ASSUME IInv, TypeOK', Environment
  PROVE  IInv'
<1>1. CASE PowerFail
  BY Zenon, <1>1, GoneInv DEF PowerFail, IInv
<1>2. ASSUME NEW a \in Arenas, ForeignError(a) PROVE IInv'
  <2>1. /\ Foreign("arena") /\ LayoutFound /\ UNCHANGED <<map, flog, flogMedia, data>>
        /\ flogMedia' = flog' /\ \A c \in Arenas : info'[c] = IF c = a THEN "error" ELSE info[c]
    BY Zenon, <1>2 DEF ForeignError, Foreign, IInv, TypeOK, MediaTypes
  <2>2. AllConsistent'
    BY Zenon, <2>1, SameArena DEF IInv, AllConsistent, LayoutFound
  <2>3. LayoutFound'
    BY Zenon, <2>1 DEF LayoutFound, BttReadInfo
  <2>4. QED
    BY Zenon, <2>1, <2>2, <2>3, ForeignInv
<1>3. ASSUME NEW a \in Arenas, ForeignDamage(a) PROVE IInv'
  <2>1. /\ Foreign("damage") /\ UNCHANGED <<map, flog, flogMedia, data>>
        /\ flogMedia' = flog' /\ \A c \in Arenas : info'[c] = IF c = a THEN "torn" ELSE info[c]
    BY Zenon, <1>3 DEF ForeignDamage, IInv, TypeOK, MediaTypes
  <2>2. AllConsistent'
    BY Zenon, <2>1, SameArena DEF IInv, AllConsistent, BttReadInfo
  <2>3. "damage" \in ForeignKinds
    BY Zenon, <2>1 DEF Foreign
  <2>4. QED
    BY Zenon, <2>1, <2>2, <2>3, ForeignInv
<1>4. ASSUME NEW a \in Arenas, NEW i \in Lanes, EvictFlog(a, i) PROVE IInv'
  BY Zenon, <1>4 DEF EvictFlog, IInv
<1>5. ASSUME NEW a \in Arenas, NEW p \in Lbas, NEW f \in {"zero", "error"}, ForeignMark(a, p, f)
      PROVE  IInv'
  <2>1. /\ Foreign(f) /\ LayoutFound /\ Consistent(a) /\ TypeOK
        /\ info' = info /\ flog' = flog /\ flogMedia' = flog' /\ data' = data
        /\ \A j \in Lanes : Incomplete(a, j) => CurrentFlog(a, j).lba # p
    BY Zenon, <1>5 DEF ForeignMark, Foreign, Settled, IInv, AllConsistent, LayoutFound
  <2>2. /\ map'[a][p] = [flag |-> f, blk |-> MapEntry(a, p).blk]
        /\ \A q \in Lbas : q # p => map'[a][q] = map[a][q]
        /\ \A c \in Arenas : c # a => map'[c] = map[c]
    <3>1. map \in [Arenas -> [Lbas -> Entry]]
      BY Zenon, <2>1 DEF TypeOK, MediaTypes
    <3>2. QED
      BY Zenon, <1>5, <3>1 DEF ForeignMark
  <2>3. Consistent(a)'
    <3>1. Marks(a, p, f)
      BY Zenon, <2>1, <2>2 DEF Marks
    <3>2. QED
      BY Zenon, <2>1, <3>1, MarkConsistent
  <2>4. AllConsistent'
    BY Zenon, <2>1, <2>2, <2>3, SameArena DEF IInv, AllConsistent
  <2>5. LayoutFound'
    BY Zenon, <2>1 DEF LayoutFound
  <2>6. QED
    BY Zenon, <2>1, <2>4, <2>5, ForeignInv
<1>6. QED
  BY Zenon, <1>1, <1>2, <1>3, <1>4, <1>5, ForeignWriteInv DEF Environment
=============================================================================
