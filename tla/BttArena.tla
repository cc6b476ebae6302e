------------------------------ MODULE BttArena ------------------------------
(***************************************************************************)
(* What keeps one arena consistent: lemmas about a map, a flog and data    *)
(* blocks of which a step changes a part; and the ends of operations.      *)
(***************************************************************************)
EXTENDS BttInv, BttTypes

-----------------------------------------------------------------------------
(* Facts about the operators of Btt.c                                      *)

\* The sequence numbers of a flog pair: advancing the half that is not current
\* past the current one makes it the current one.
LEMMA FlogAdvance ==
  /\ \A s, t \in 0 .. 3 : CurrentFlogIndex(s, t) = 0 => CurrentFlogIndex(s, NSEQ(s)) = 1
  /\ \A s, t \in 0 .. 3 : CurrentFlogIndex(s, t) = 1 => CurrentFlogIndex(NSEQ(t), t) = 0
  BY DEF CurrentFlogIndex, NSEQ

\* No LBA is past the last line of the map.
LEMMA MapLines ==
  /\ LastMapLine \in Nat
  /\ \A p \in Lbas : BttGetMapFromLba(p) \in Nat /\ BttGetMapFromLba(p) <= LastMapLine
<1>1. ASSUME NEW p \in Nat, NEW q \in Nat, NEW e \in Nat \ {0}, p <= q
      PROVE  p \div e \in Nat /\ p \div e <= q \div e
  <2> DEFINE x == p \div e
             y == q \div e
  <2>1. x \in Nat /\ e * x <= p
    OBVIOUS
  <2>2. y \in Nat /\ q < e * (y + 1)
    OBVIOUS
  <2>3. ASSUME y + 1 <= x PROVE e * (y + 1) <= e * x
    <3> HIDE DEF x, y
    <3> QED BY <1>1, <2>1, <2>2, <2>3
  <2> HIDE DEF x, y
  <2>4. x <= y
    BY <1>1, <2>1, <2>2, <2>3
  <2> QED
    BY Zenon, <2>1, <2>4 DEF x, y
<1>2. ExternalNLbas - 1 \in Nat /\ EntriesPerLine \in Nat \ {0}
  BY BttAssumptions
<1>3. \A p \in Lbas : p \in Nat /\ p <= ExternalNLbas - 1
  BY BttAssumptions DEF Lbas
<1>4. QED
  BY <1>1, <1>2, <1>3 DEF LastMapLine, BttGetMapFromLba

\* What an arena's map and current flog halves determine.
LEMMA SameCurrent ==
  ASSUME NEW a \in Arenas, map'[a] = map[a],
         \A i \in Lanes : Current(a, i)' = Current(a, i),
         \A i \in Lanes : CurrentFlog(a, i)' = CurrentFlog(a, i)
  PROVE  /\ \A p : MapEntry(a, p)' = MapEntry(a, p)
         /\ \A i \in Lanes : Incomplete(a, i)' <=> Incomplete(a, i)
         /\ \A i \in Lanes : Spare(a, i)' = Spare(a, i)
         /\ Owned(a)' <=> Owned(a)
<1>1. \A p : MapEntry(a, p)' = MapEntry(a, p)
  BY Zenon DEF MapEntry
<1>2. \A i \in Lanes : Incomplete(a, i)' <=> Incomplete(a, i)
  BY Zenon, <1>1 DEF Incomplete
<1>3. \A i \in Lanes : Spare(a, i)' = Spare(a, i)
  BY Zenon, <1>2 DEF Spare
<1>4. Owned(a)' <=> Owned(a)
  BY Zenon, <1>1, <1>3 DEF Owned
<1>5. QED
  BY Zenon, <1>1, <1>2, <1>3, <1>4

\* An arena that a step does not touch stays consistent.
LEMMA SameArena ==
  ASSUME NEW a \in Arenas, map'[a] = map[a], flog'[a] = flog[a]
  PROVE  /\ \A i \in Lanes : Current(a, i)' = Current(a, i)
         /\ \A i \in Lanes : CurrentFlog(a, i)' = CurrentFlog(a, i)
         /\ \A i \in Lanes : Incomplete(a, i)' <=> Incomplete(a, i)
         /\ data'[a] = data[a] /\ Consistent(a) => Consistent(a)'
<1>1. \A i \in Lanes : Current(a, i)' = Current(a, i)
  BY Zenon DEF Current
<1>2. \A i \in Lanes : CurrentFlog(a, i)' = CurrentFlog(a, i)
  BY Zenon, <1>1 DEF CurrentFlog
<1>3. ASSUME data'[a] = data[a], Consistent(a) PROVE Consistent(a)'
  <2>1. /\ \A i \in Lanes : Incomplete(a, i)' <=> Incomplete(a, i)
        /\ Owned(a)' <=> Owned(a)
    BY Zenon, <1>1, <1>2, SameCurrent
  <2>2. Readable(a)' /\ Separate(a)'
    BY Zenon, <1>1, <1>2, <1>3, <2>1 DEF Consistent, Readable, Separate
  <2>3. MappedWhole(a)' /\ LoggedWhole(a)'
    BY Zenon, <1>2, <1>3, <2>1 DEF Consistent, MappedWhole, LoggedWhole
  <2>4. QED
    BY Zenon, <1>3, <2>1, <2>2, <2>3 DEF Consistent
<1>4. QED
  BY Zenon, <1>1, <1>2, <1>3, SameCurrent

\* In the flog pair that BttWriteLayout writes the first half is current and
\* has nothing to redo.
LEMMA FreshFlog ==
  ASSUME NEW a, NEW i, flog[a][i] = InitialPair(i)
  PROVE  /\ Current(a, i) = 0
         /\ CurrentFlog(a, i).old = CurrentFlog(a, i).new
         /\ CurrentFlog(a, i).old.blk = ExternalNLbas + i
         /\ ~Incomplete(a, i)
<1> DEFINE spare == [flag |-> "initial", blk |-> ExternalNLbas + i]
<1>1. /\ flog[a][i][0] = [lba |-> 0, old |-> spare, new |-> spare, seq |-> 1]
      /\ flog[a][i][1] = ZeroFlog
  BY DEF InitialPair, Slots
<1>2. Current(a, i) = 0
  BY <1>1 DEF Current, CurrentFlogIndex, ZeroFlog
<1>3. CurrentFlog(a, i) = flog[a][i][0]
  BY Zenon, <1>2 DEF CurrentFlog
<1>4. /\ CurrentFlog(a, i).old = CurrentFlog(a, i).new
      /\ CurrentFlog(a, i).old.blk = ExternalNLbas + i
  BY <1>1, <1>3
<1>5. QED
  BY Zenon, <1>2, <1>4 DEF Incomplete

\* The arena that BttWriteLayout leaves behind is consistent.
LEMMA FreshConsistent ==
  ASSUME NEW a \in Arenas, TypeOK,
         \A p \in Lbas : map[a][p] = InitialEntry,
         \A i \in Lanes : flog[a][i] = InitialPair(i)
  PROVE  Consistent(a)
<1>1. \A p \in Lbas : MapEntry(a, p) = [flag |-> "normal", blk |-> p]
  BY DEF MapEntry, InitialEntry
<1>2. ASSUME NEW i \in Lanes
      PROVE  /\ Current(a, i) = 0
             /\ CurrentFlog(a, i).old = CurrentFlog(a, i).new
             /\ CurrentFlog(a, i).old.blk = ExternalNLbas + i
             /\ ~Incomplete(a, i)
  BY Zenon, FreshFlog
<1>3. \A i \in Lanes : ~Incomplete(a, i) /\ Spare(a, i) = ExternalNLbas + i
  BY Zenon, <1>2 DEF Spare
<1>4. Owned(a)
  BY <1>1, <1>3, BttAssumptions DEF Owned, Lbas, Lanes
<1>5. Readable(a) /\ Separate(a) /\ LoggedWhole(a)
  BY <1>2, <1>3 DEF Readable, Separate, LoggedWhole
<1>6. MappedWhole(a)
  BY DEF MappedWhole, InitialEntry
<1>7. QED
  BY Zenon, <1>4, <1>5, <1>6 DEF Consistent

\* An update of one map entry, to a block that no other lane keeps in reserve,
\* leaves the other lanes as they are.
LEMMA OtherLanes ==
  ASSUME NEW a \in Arenas, NEW p \in Lbas, NEW e \in Entry, NEW i \in Lanes, TypeOK,
         e.flag # "initial",
         map'[a][p] = e, \A q \in Lbas : q # p => map'[a][q] = map[a][q],
         CurrentFlog(a, i)' = CurrentFlog(a, i),
         Incomplete(a, i) => CurrentFlog(a, i).lba # p,
         Spare(a, i) # e.blk
  PROVE  /\ MapEntry(a, p)' = e
         /\ \A q \in Lbas : q # p => MapEntry(a, q)' = MapEntry(a, q)
         /\ Incomplete(a, i)' <=> Incomplete(a, i)
         /\ Spare(a, i)' = Spare(a, i)
<1>1. /\ MapEntry(a, p)' = e
      /\ \A q \in Lbas : q # p => MapEntry(a, q)' = MapEntry(a, q)
  BY Zenon DEF MapEntry
<1>2. CurrentFlog(a, i).lba \in Lbas
  BY Zenon, OperatorTypes DEF FlogEntry
<1>3. ASSUME CurrentFlog(a, i).lba # p PROVE Incomplete(a, i)' <=> Incomplete(a, i)
  <2>1. MapEntry(a, CurrentFlog(a, i).lba)' = MapEntry(a, CurrentFlog(a, i).lba)
    BY Zenon, <1>1, <1>2, <1>3
  <2>2. QED
    BY Zenon, <2>1 DEF Incomplete
<1>4. ASSUME CurrentFlog(a, i).lba = p PROVE Incomplete(a, i)' <=> Incomplete(a, i)
  <2>1. ~Incomplete(a, i) /\ CurrentFlog(a, i).old # e
    BY Zenon, <1>4 DEF Spare
  <2>2. QED
    BY Zenon, <1>1, <1>4, <2>1 DEF Incomplete
<1>5. Incomplete(a, i)' <=> Incomplete(a, i)
  BY Zenon, <1>3, <1>4
<1>6. QED
  BY Zenon, <1>1, <1>5 DEF Spare

\* What the steps that change one arena have in common.  Each is a definition,
\* not a list of assumptions, so that a proof uses only the parts it names.

\* The map takes the new block of the update logged on lane i.
Redoes(a, i) ==
  /\ Incomplete(a, i)
  /\ map' = [map EXCEPT ![a][CurrentFlog(a, i).lba] = CurrentFlog(a, i).new]
  /\ flog' = flog /\ data' = data

\* Lane i, which has no update pending, logs that LBA p moves to its spare
\* block b, which has been written in full.
Logs(a, i, p, b) ==
  /\ ~Incomplete(a, i) /\ Spare(a, i) = b
  /\ \A j \in Lanes : Incomplete(a, j) => CurrentFlog(a, j).lba # p
  /\ Current(a, i)' # -1
  /\ CurrentFlog(a, i)'.lba = p
  /\ CurrentFlog(a, i)'.old = MapEntry(a, p)
  /\ CurrentFlog(a, i)'.new = [flag |-> "normal", blk |-> b]
  /\ \A j \in Lanes : j # i => /\ Current(a, j)' = Current(a, j)
                              /\ CurrentFlog(a, j)' = CurrentFlog(a, j)
  /\ data'[a][b] # Torn
  /\ \A c \in Blocks : c # b => data'[a][c] = data[a][c]

\* LBA p, about which no update is logged, gets a flag.
Marks(a, p, flag) ==
  /\ \A j \in Lanes : Incomplete(a, j) => CurrentFlog(a, j).lba # p
  /\ map'[a][p] = [flag |-> flag, blk |-> MapEntry(a, p).blk]
  /\ \A q \in Lbas : q # p => map'[a][q] = map[a][q]
  /\ flog' = flog /\ data' = data

\* Redoing a logged update: the map takes the new block, the lane keeps the old.
LEMMA RedoConsistent ==
  ASSUME NEW a \in Arenas, NEW i \in Lanes, TypeOK, Consistent(a), Redoes(a, i)
  PROVE  /\ Consistent(a)'
         /\ ~Incomplete(a, i)'
         /\ \A j \in Lanes : Incomplete(a, j)' => Incomplete(a, j)
         /\ \A j \in Lanes : j # i => (Incomplete(a, j)' <=> Incomplete(a, j))
<1>1. Incomplete(a, i) /\ flog' = flog /\ data' = data
  BY Zenon DEF Redoes
<1>2. PICK l \in Lbas, e \in Entry :
        /\ l = CurrentFlog(a, i).lba /\ e = CurrentFlog(a, i).new
        /\ map' = [map EXCEPT ![a][l] = e]
  BY Zenon, OperatorTypes DEF FlogEntry, Redoes
<1>3. /\ e.flag = "normal" /\ data[a][e.blk] # Torn
      /\ CurrentFlog(a, i).old = MapEntry(a, l)
      /\ Spare(a, i) = e.blk
  <2>1. e.flag = "normal" /\ data[a][e.blk] # Torn
    BY Zenon, <1>1, <1>2 DEF Consistent, LoggedWhole
  <2>2. QED
    BY Zenon, <1>1, <1>2, <2>1 DEF Incomplete, Spare
<1>4. \A j \in Lanes : Current(a, j)' = Current(a, j) /\ CurrentFlog(a, j)' = CurrentFlog(a, j)
  BY Zenon, <1>1 DEF Current, CurrentFlog
<1>5. map'[a][l] = e /\ \A q \in Lbas : q # l => map'[a][q] = map[a][q]
  BY Zenon, <1>2 DEF TypeOK, MediaTypes
<1>6. MapEntry(a, l)' = e /\ \A q \in Lbas : q # l => MapEntry(a, q)' = MapEntry(a, q)
  BY Zenon, <1>3, <1>5 DEF MapEntry
<1>7. ~Incomplete(a, i)' /\ Spare(a, i)' = MapEntry(a, l).blk
  <2>1. MapEntry(a, CurrentFlog(a, i).lba)' = CurrentFlog(a, i)'.new
    BY Zenon, <1>2, <1>4, <1>6
  <2>2. ~Incomplete(a, i)'
    BY Zenon, <1>4, <2>1 DEF Incomplete
  <2>3. QED
    BY Zenon, <1>3, <1>4, <2>2 DEF Spare
<1>8. ASSUME NEW j \in Lanes, j # i
      PROVE  (Incomplete(a, j)' <=> Incomplete(a, j)) /\ Spare(a, j)' = Spare(a, j)
  <2>1. Incomplete(a, j) => CurrentFlog(a, j).lba # l
    BY Zenon, <1>1, <1>2, <1>8 DEF Consistent, Separate
  <2>2. Spare(a, j) # e.blk
    BY Zenon, <1>3, <1>8 DEF Consistent, Owned
  <2>3. CurrentFlog(a, j)' = CurrentFlog(a, j) /\ e.flag # "initial"
    BY Zenon, <1>3, <1>4
  <2>4. QED
    BY Zenon, <1>5, <2>1, <2>2, <2>3, OtherLanes
<1>9. Owned(a)'
  <2>1. ASSUME NEW p \in Lbas, NEW q \in Lbas, p # q
        PROVE  MapEntry(a, p)'.blk # MapEntry(a, q)'.blk
    BY Zenon, <1>3, <1>6, <2>1 DEF Consistent, Owned
  <2>2. ASSUME NEW j \in Lanes, NEW k \in Lanes, j # k PROVE Spare(a, j)' # Spare(a, k)'
    BY Zenon, <1>7, <1>8, <2>2 DEF Consistent, Owned
  <2>3. ASSUME NEW p \in Lbas, NEW j \in Lanes PROVE MapEntry(a, p)'.blk # Spare(a, j)'
    BY <1>3, <1>6, <1>7, <1>8 DEF Consistent, Owned
  <2>4. QED
    BY Zenon, <2>1, <2>2, <2>3 DEF Owned
<1>10. MappedWhole(a)'
  BY Zenon, <1>1, <1>3, <1>5 DEF Consistent, MappedWhole
<1>11. Readable(a)'
  BY Zenon, <1>4 DEF Consistent, Readable
<1>12. \A j \in Lanes : Incomplete(a, j)' => Incomplete(a, j)
  BY Zenon, <1>7, <1>8
<1>13. Separate(a)' /\ LoggedWhole(a)'
  BY Zenon, <1>1, <1>4, <1>12 DEF Consistent, Separate, LoggedWhole
<1>14. QED
  BY Zenon, <1>7, <1>8, <1>9, <1>10, <1>11, <1>12, <1>13 DEF Consistent

\* The blocks other than the spare one of the lane that logs keep their content.
LEMMA OtherBlocks ==
  ASSUME NEW a \in Arenas, NEW i \in Lanes, NEW p \in Lbas, NEW b \in Blocks, TypeOK,
         Consistent(a), Logs(a, i, p, b)
  PROVE  /\ \A q \in Lbas : map[a][q].flag = "normal" =>
              data'[a][map[a][q].blk] # Torn
         /\ \A j \in Lanes : j # i /\ Incomplete(a, j) =>
              /\ CurrentFlog(a, j).new.flag = "normal"
              /\ data'[a][CurrentFlog(a, j).new.blk] # Torn
<1>1. Spare(a, i) = b /\ \A c \in Blocks : c # b => data'[a][c] = data[a][c]
  BY Zenon DEF Logs
<1>2. ASSUME NEW q \in Lbas, map[a][q].flag = "normal"
      PROVE  data'[a][map[a][q].blk] # Torn
  <2>1. map[a][q].blk \in Blocks
    BY DEF TypeOK, MediaTypes, Entry
  <2>2. map[a][q].blk # b
    BY Zenon, <1>1, <1>2 DEF Consistent, Owned, MapEntry
  <2>3. QED
    BY Zenon, <1>1, <1>2, <2>1, <2>2 DEF Consistent, MappedWhole
<1>3. ASSUME NEW j \in Lanes, j # i, Incomplete(a, j)
      PROVE  /\ CurrentFlog(a, j).new.flag = "normal"
             /\ data'[a][CurrentFlog(a, j).new.blk] # Torn
  <2>1. CurrentFlog(a, j).new.blk \in Blocks
    BY Zenon, OperatorTypes DEF FlogEntry, Entry
  <2>2. CurrentFlog(a, j).new.blk = Spare(a, j) /\ Spare(a, j) # b
    BY Zenon, <1>1, <1>3 DEF Consistent, Owned, Spare
  <2>3. QED
    BY Zenon, <1>1, <1>3, <2>1, <2>2 DEF Consistent, LoggedWhole
<1>4. QED
  BY Zenon, <1>2, <1>3

\* Logging an update on a lane that has none pending: the lane's spare block,
\* written in full, becomes the new block of LBA p once the update is redone.
LEMMA LogConsistent ==
  ASSUME NEW a \in Arenas, NEW i \in Lanes, NEW p \in Lbas, NEW b \in Blocks, TypeOK,
         Consistent(a), Logs(a, i, p, b),
         map'[a] = map[a]
  PROVE  /\ Consistent(a)'
         /\ Incomplete(a, i)'
         /\ \A j \in Lanes : j # i => (Incomplete(a, j)' <=> Incomplete(a, j))
<1>1. ~Incomplete(a, i) /\ Spare(a, i) = b /\ MapEntry(a, p).blk # b
  <2>1. ~Incomplete(a, i) /\ Spare(a, i) = b
    BY Zenon DEF Logs
  <2>2. QED
    BY Zenon, <2>1 DEF Consistent, Owned
<1>2. /\ Current(a, i)' # -1
      /\ CurrentFlog(a, i)'.lba = p /\ CurrentFlog(a, i)'.old = MapEntry(a, p)
      /\ CurrentFlog(a, i)'.new = [flag |-> "normal", blk |-> b]
  BY Zenon DEF Logs
<1>3. \A j \in Lanes : j # i => /\ Current(a, j)' = Current(a, j)
                              /\ CurrentFlog(a, j)' = CurrentFlog(a, j)
  BY Zenon DEF Logs
<1>4. \A q : MapEntry(a, q)' = MapEntry(a, q)
  BY Zenon DEF MapEntry
<1>5. Incomplete(a, i)' /\ Spare(a, i)' = b
  <2>1. MapEntry(a, p) # [flag |-> "normal", blk |-> b]
    BY <1>1
  <2>2. Incomplete(a, i)'
    BY Zenon, <1>2, <1>4, <2>1 DEF Incomplete
  <2>3. QED
    BY <1>2, <2>2 DEF Spare
<1>6. ASSUME NEW j \in Lanes, j # i
      PROVE  (Incomplete(a, j)' <=> Incomplete(a, j)) /\ Spare(a, j)' = Spare(a, j)
  <2>1. CurrentFlog(a, j)' = CurrentFlog(a, j)
    BY Zenon, <1>3, <1>6
  <2>2. QED
    BY Zenon, <1>4, <2>1 DEF Incomplete, Spare
<1>7. Owned(a)'
  <2>1. \A j \in Lanes : Spare(a, j)' = Spare(a, j)
    BY Zenon, <1>1, <1>5, <1>6
  <2>2. QED
    BY Zenon, <1>4, <2>1 DEF Consistent, Owned
<1>8. Readable(a)'
  BY Zenon, <1>2, <1>3 DEF Consistent, Readable
<1>9. Separate(a)'
  <2>1. \A j \in Lanes : j # i /\ Incomplete(a, j)' =>
          Incomplete(a, j) /\ CurrentFlog(a, j)' = CurrentFlog(a, j) /\ CurrentFlog(a, j).lba # p
    BY Zenon, <1>3, <1>6 DEF Logs
  <2>2. QED
    BY Zenon, <1>2, <2>1 DEF Consistent, Separate
<1>10. MappedWhole(a)'
  BY Zenon, OtherBlocks DEF MappedWhole
<1>11. LoggedWhole(a)'
  <2>1. data'[a][b] # Torn
    BY Zenon DEF Logs
  <2>2. ASSUME NEW j \in Lanes, j # i, Incomplete(a, j)'
        PROVE  /\ CurrentFlog(a, j)'.new.flag = "normal"
               /\ data'[a][CurrentFlog(a, j)'.new.blk] # Torn
    BY <1>3, <1>6, <2>2, OtherBlocks
  <2>3. QED
    BY <1>2, <2>1, <2>2 DEF LoggedWhole
<1>12. QED
  BY Zenon, <1>5, <1>6, <1>7, <1>8, <1>9, <1>10, <1>11 DEF Consistent

-----------------------------------------------------------------------------
(* The steps of the driver preserve IInv                                   *)

\* The block BttWrite is about to write is the spare block of lane 0.
LEMMA FreeIsSpare ==
  ASSUME IInv, NEW a \in Arenas, Cached(a) \/ CachedHalf(a)
  PROVE  /\ FreeMap(a) = [flag |-> "normal", blk |-> CurrentFlog(a, 0).old.blk]
         /\ CurrentFlog(a, 0) = flog[a][0][1 - rt[a].next]
         /\ 1 - rt[a].next = Current(a, 0)
<1>1. Current(a, 0) \in {-1, 0, 1} /\ rt[a].next \in {0, 1}
  BY Zenon, OperatorTypes, ConstantTypes DEF IInv, TypeOK, DriverTypes, Runtime, Slots
<1>2. 1 - rt[a].next = Current(a, 0)
  BY <1>1 DEF Cached, CachedHalf
<1>3. CurrentFlog(a, 0) = flog[a][0][1 - rt[a].next]
  BY <1>1, <1>2 DEF CurrentFlog
<1>4. rt[a].pair[1 - rt[a].next] = flog[a][0][1 - rt[a].next]
  BY Zenon DEF Cached, CachedHalf
<1>5. QED
  BY Zenon, <1>2, <1>3, <1>4 DEF FreeMap

\* Nothing is left of the driver's state: a release, a failure or a power loss.
LEMMA GoneInv ==
  ASSUME IInv, TypeOK', NEW p \in {"off", "failed"}, Gone(p),
         UNCHANGED <<info, map, flog, flogMedia, data>>,
         ns' = ns \/ ns' = "absent",
         p = "failed" => ns' = "present"
  PROVE  IInv'
<1>1. AllConsistent'
  BY Zenon, SameArena DEF IInv, AllConsistent
<1>2. Control'
  BY Zenon DEF IInv, Control, Gone, LayoutFound, LayoutPcs, Writing
<1>3. LayoutAhead' /\ LayoutDone' /\ Recovered' /\ Caches' /\ WriteProgress'
  BY Zenon DEF Gone, LayoutAhead, LayoutDone, Recovered, Caches, WriteProgress, Unformed, LayoutPcs
<1>4. QED
  BY Zenon, <1>1, <1>2, <1>3 DEF IInv

\* An operation returns, before it has logged anything.
LEMMA ReturnInv ==
  ASSUME IInv, TypeOK', NEW r, Return(r), UNCHANGED media,
         pc \in {"idle", "data", "lock"} \/ (pc \in LayoutPcs /\ ~LayoutFound),
         ns = "present"
  PROVE  IInv'
<1>1. AllConsistent'
  BY Zenon, SameArena DEF IInv, AllConsistent, media
<1>2. Control'
  BY Zenon DEF IInv, Control, Return, media, LayoutFound, LayoutPcs, Writing
<1>3. LayoutAhead' /\ LayoutDone' /\ WriteProgress'
  BY Zenon DEF Return, LayoutAhead, LayoutDone, WriteProgress, Unformed, LayoutPcs
<1>4. Recovered'
  BY Zenon, SameArena DEF IInv, Recovered, Return, media, LayoutPcs
<1>5. Caches'
  <2>1. ASSUME laidout, NEW a \in Arenas PROVE Cached(a)'
    BY <2>1, SameArena, ConstantTypes DEF IInv, Caches, Cached, Return, media, LayoutPcs
  <2>2. QED
    BY Zenon, <2>1 DEF Caches, Return
<1>6. QED
  BY Zenon, <1>1, <1>2, <1>3, <1>4, <1>5 DEF IInv, media
=============================================================================
