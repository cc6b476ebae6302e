------------------------------ MODULE BttTypes ------------------------------
(***************************************************************************)
(* Type correctness of Btt, for every value of the constants.              *)
(***************************************************************************)
EXTENDS Btt, TLAPS

-----------------------------------------------------------------------------
(* Types of the constants and of the operators                             *)

\* The index sets of the arrays of Btt.c contain 0 and what is computed from them.
LEMMA ConstantTypes ==
  /\ 0 \in Arenas /\ 0 \in Lanes /\ 0 \in Lbas /\ 0 \in Blocks /\ 0 \in Slots
  /\ Lbas \subseteq Blocks
  /\ \A i \in Lanes : ExternalNLbas + i \in Blocks
  /\ \A s \in Slots : 1 - s \in Slots
  /\ \A s \in 0 .. 3 : NSEQ(s) \in 0 .. 3
  /\ InitialEntry \in Entry /\ ZeroFlog \in FlogEntry
  /\ NoRuntime \in Runtime
  /\ NoReq \in [a : Arenas, p : Lbas, v : Values]
  /\ ZeroPair \in FlogPair /\ \A i \in Lanes : InitialPair(i) \in FlogPair
<1>1. /\ 0 \in Arenas /\ 0 \in Lanes /\ 0 \in Lbas /\ 0 \in Blocks /\ 0 \in Slots
      /\ Lbas \subseteq Blocks
      /\ \A i \in Lanes : ExternalNLbas + i \in Blocks
      /\ \A s \in Slots : 1 - s \in Slots
  BY BttAssumptions DEF Arenas, Lanes, Lbas, Blocks, Slots
<1>2. \A s \in 0 .. 3 : NSEQ(s) \in 0 .. 3
  BY DEF NSEQ
<1>3. InitialEntry \in Entry /\ ZeroFlog \in FlogEntry
  BY <1>1 DEF InitialEntry, Entry, ZeroFlog, FlogEntry
<1>4. NoRuntime \in Runtime
  BY Zenon, <1>1, <1>3 DEF NoRuntime, Runtime, ZeroPair, FlogPair
<1>5. NoReq \in [a : Arenas, p : Lbas, v : Values]
  BY Zenon, <1>1, BttAssumptions DEF NoReq
<1>6. ZeroPair \in FlogPair /\ \A i \in Lanes : InitialPair(i) \in FlogPair
  BY <1>1, <1>3 DEF ZeroPair, InitialPair, FlogPair, FlogEntry, Entry
<1>7. QED
  BY Zenon, <1>1, <1>2, <1>3, <1>4, <1>5, <1>6

\* Map entries, flog entries and free blocks read from typed structures are typed.
LEMMA OperatorTypes ==
  ASSUME TypeOK
  PROVE  /\ \A a \in Arenas, p \in Lbas : MapEntry(a, p) \in Entry
         /\ \A a \in Arenas, i \in Lanes : Current(a, i) \in {-1, 0, 1}
         /\ \A a \in Arenas, i \in Lanes : CurrentFlog(a, i) \in FlogEntry
         /\ \A a \in Arenas : FreeMap(a) \in Entry
<1>1. ASSUME NEW a \in Arenas, NEW p \in Lbas PROVE MapEntry(a, p) \in Entry
  BY ConstantTypes DEF TypeOK, MediaTypes, DriverTypes, MapEntry, Entry
<1>2. ASSUME NEW a \in Arenas, NEW i \in Lanes PROVE Current(a, i) \in {-1, 0, 1}
  BY Zenon DEF Current, CurrentFlogIndex
<1>3. ASSUME NEW a \in Arenas, NEW i \in Lanes PROVE CurrentFlog(a, i) \in FlogEntry
  BY DEF TypeOK, MediaTypes, DriverTypes, CurrentFlog, Slots, FlogPair
<1>4. ASSUME NEW a \in Arenas PROVE FreeMap(a) \in Entry
  <2>1. rt[a].pair[1 - rt[a].next] \in FlogEntry
    BY ConstantTypes DEF TypeOK, MediaTypes, DriverTypes, Runtime, FlogPair
  <2>2. QED
    BY Zenon, <2>1 DEF FreeMap, FlogEntry, Entry
<1>5. QED
  BY Zenon, <1>1, <1>2, <1>3, <1>4

-----------------------------------------------------------------------------
(* Type correctness                                                        *)

\* Blank media and an unloaded driver are well-typed.
THEOREM TypeInit == Init => TypeOK
<1>1. SUFFICES ASSUME Init PROVE TypeOK
  OBVIOUS
<1>2. /\ map \in [Arenas -> [Lbas -> Entry]]
      /\ flog \in [Arenas -> [Lanes -> FlogPair]]
      /\ data \in [Arenas -> [Blocks -> Values \cup {Torn}]]
      /\ foreign \in 0 .. MaxForeign
  BY <1>1, ConstantTypes, BttAssumptions DEF Init
<1>3. MediaTypes
  BY Zenon, <1>1, <1>2 DEF Init, MediaTypes, InfoStates
<1>4. DriverTypes
  BY Zenon, <1>1, ConstantTypes DEF Init, DriverTypes, Pcs
<1>5. QED
  BY Zenon, <1>3, <1>4 DEF TypeOK

\* The driver's variables are typed after an operation has returned ...
LEMMA ReturnTypes ==
  ASSUME TypeOK, NEW r \in Values \cup {Torn, "none", "ok", "err"}, Return(r)
  PROVE  DriverTypes'
  BY Zenon, ConstantTypes DEF TypeOK, DriverTypes, Return, Pcs

\* ... and when there is no pBtt any more.
LEMMA GoneTypes ==
  ASSUME NEW p \in {"off", "failed"}, Gone(p)
  PROVE  DriverTypes'
  BY Zenon, ConstantTypes DEF DriverTypes, Gone, Pcs

\* A step that leaves the media alone leaves it well-typed.
LEMMA MediaUnchanged ==
  ASSUME TypeOK, UNCHANGED media
  PROVE  MediaTypes'
  BY Zenon DEF TypeOK, MediaTypes, media

\* The steps of BttWriteLayout keep every structure well-typed.
LEMMA LayoutTypes ==
  ASSUME TypeOK,
         LayoutZeroMap \/ LayoutZeroFlog \/ LayoutFlog \/ LayoutInfo \/ LayoutBackup
  PROVE  TypeOK'
<1> USE ConstantTypes, BttAssumptions DEF TypeOK, MediaTypes, DriverTypes
<1>1. CASE LayoutZeroMap
  BY <1>1 DEF LayoutZeroMap, Goto, Pcs
<1>2. CASE LayoutZeroFlog
  BY <1>2 DEF LayoutZeroFlog, Goto, Pcs
<1>3. CASE LayoutFlog
  BY <1>3 DEF LayoutFlog, Goto, Pcs, Lanes
<1>4. CASE LayoutInfo
  BY Zenon, <1>4 DEF LayoutInfo, Goto, Pcs, InfoStates
<1>5. CASE LayoutBackup
  BY SMTT(30), <1>5 DEF LayoutBackup, Goto, Pcs, InfoStates, Arenas
<1>6. QED
  BY Zenon, <1>1, <1>2, <1>3, <1>4, <1>5

\* Creating and opening a namespace, BttReadFlogPair included.
LEMMA OpenTypes ==
  ASSUME TypeOK,
         \/ \E b \in BadSets : CreateNamespace(b) \/ BttInit(b)
         \/ InsertNamespaceLabels \/ BttReadFlogPair
  PROVE  TypeOK'
<1>1. ASSUME NEW b \in BadSets, CreateNamespace(b) PROVE TypeOK'
  <2>1. MediaTypes'
    BY Zenon, <1>1 DEF CreateNamespace, InfoStates, TypeOK, MediaTypes
  <2>2. CASE InfoLoc(0) \in b
    BY Zenon, <2>1, <2>2, <1>1, GoneTypes DEF CreateNamespace, TypeOK
  <2>3. CASE InfoLoc(0) \notin b
    BY <2>1, <2>3, <1>1, ConstantTypes DEF CreateNamespace, Goto, TypeOK, DriverTypes, Pcs
  <2>4. QED
    BY Zenon, <2>2, <2>3
<1>2. ASSUME NEW b \in BadSets, BttInit(b) PROVE TypeOK'
  BY <1>2, ConstantTypes, MediaUnchanged DEF BttInit, Goto, TypeOK, DriverTypes, Pcs
<1>3. CASE InsertNamespaceLabels
  BY Zenon, <1>3, ReturnTypes DEF InsertNamespaceLabels, TypeOK, MediaTypes
<1>4. CASE BttReadFlogPair
  <2> USE ConstantTypes, OperatorTypes, BttAssumptions
  <2>0. Current(cur, idx) \in {0, 1} /\ idx \in Lanes /\ cur \in Arenas
    BY Zenon, <1>4 DEF BttReadFlogPair, TypeOK, DriverTypes
  <2>1. map' \in [Arenas -> [Lbas -> Entry]]
    BY Zenon, <1>4, <2>0 DEF BttReadFlogPair, RedoMap, TypeOK, MediaTypes, FlogEntry
  <2>2. rt' \in [Arenas -> Runtime]
    <3>2. CASE idx = 0
      <4>1. [pair |-> flog[cur][0], next |-> 1 - Current(cur, 0)] \in Runtime
        BY <2>0, <3>2 DEF TypeOK, MediaTypes, Runtime, Slots
      <4>2. QED
        BY Zenon, <4>1, <2>0, <3>2, <1>4 DEF BttReadFlogPair, CacheFlog, TypeOK, DriverTypes
    <3>3. CASE idx # 0
      BY Zenon, <3>3, <1>4 DEF BttReadFlogPair, CacheFlog, TypeOK, DriverTypes
    <3>4. QED
      BY Zenon, <3>2, <3>3
  <2>3. pc' \in Pcs /\ cur' \in Arenas /\ idx' \in Nat
        /\ (pc' \in {"layflog", "readflog"} => idx' \in Lanes) /\ out' = "none"
    BY <1>4, <2>0 DEF BttReadFlogPair, AfterOpen, Goto, Pcs, Lanes, Arenas
  <2>4. flags' \in [Arenas -> {"ok", "error"}] /\ laidout' \in BOOLEAN
    BY Zenon, <1>4 DEF BttReadFlogPair, TypeOK, DriverTypes
  <2>5. QED
    BY Zenon, <1>4, <2>1, <2>2, <2>3, <2>4 DEF BttReadFlogPair, TypeOK, MediaTypes, DriverTypes
<1>5. QED
  BY Zenon, <1>1, <1>2, <1>3, <1>4

\* The flog half that BttFlogUpdate builds.
LEMMA NewFlogTypes ==
  ASSUME TypeOK
  PROVE  [lba |-> req.p, old |-> MapEntry(req.a, req.p), new |-> FreeMap(req.a),
          seq |-> NSEQ(rt[req.a].pair[1 - rt[req.a].next].seq)] \in FlogEntry
<1>1. req.a \in Arenas /\ req.p \in Lbas
  BY Zenon DEF TypeOK, DriverTypes
<1>2. rt[req.a].pair[1 - rt[req.a].next] \in FlogEntry
  BY <1>1, ConstantTypes DEF TypeOK, DriverTypes, Runtime, FlogPair
<1>3. QED
  BY Zenon, <1>1, <1>2, ConstantTypes, OperatorTypes DEF FlogEntry

\* BttRead and the steps of BttWrite.
LEMMA AccessTypes ==
  ASSUME TypeOK,
         \/ \E a \in Arenas, p \in Lbas :
              BttRead(a, p) \/ \E v \in Values : BttWrite(a, p, v)
         \/ WriteData \/ BttFlogUpdate1 \/ BttFlogUpdate2 \/ BttMapUnlock
  PROVE  TypeOK'
<1>0. req.a \in Arenas /\ req.p \in Lbas /\ req.v \in Values
  BY Zenon DEF TypeOK, DriverTypes
<1>1. ASSUME NEW a \in Arenas, NEW p \in Lbas, BttRead(a, p) PROVE TypeOK'
  <2>1. map[a][p] \in Entry
    BY Zenon DEF TypeOK, MediaTypes
  <2>2. data[a][map[a][p].blk] \in Values \cup {Torn}
    BY <2>1 DEF TypeOK, MediaTypes, Entry
  <2>3. BttReadAnswer(a, p) \in Values \cup {Torn, "none", "ok", "err"}
    BY Zenon, <2>2, BttAssumptions DEF BttReadAnswer
  <2>4. QED
    BY Zenon, <1>1, <2>3, ReturnTypes, MediaUnchanged DEF BttRead, TypeOK
<1>2. ASSUME NEW a \in Arenas, NEW p \in Lbas, NEW v \in Values, BttWrite(a, p, v)
      PROVE  TypeOK'
  BY <1>2, MediaUnchanged, ConstantTypes DEF BttWrite, Goto, TypeOK, DriverTypes, Pcs
<1>3. CASE WriteData
  <2>1. FreeMap(req.a).blk \in Blocks
    BY Zenon, <1>0, OperatorTypes DEF Entry
  <2>2. data' \in [Arenas -> [Blocks -> Values \cup {Torn}]]
    BY Zenon, <1>0, <1>3, <2>1 DEF WriteData, TypeOK, MediaTypes
  <2>3. QED
    BY Zenon, <2>2, <1>3, ConstantTypes DEF WriteData, Goto, TypeOK, MediaTypes, DriverTypes, Pcs
<1>4. CASE BttFlogUpdate1
  <2> DEFINE n == rt[req.a].next
             f == [lba |-> req.p, old |-> MapEntry(req.a, req.p), new |-> FreeMap(req.a),
                   seq |-> NSEQ(rt[req.a].pair[1 - rt[req.a].next].seq)]
  <2>1. f \in FlogEntry /\ n \in Slots
    BY Zenon, <1>0, NewFlogTypes DEF TypeOK, DriverTypes, Runtime
  <2>2. rt' = [rt EXCEPT ![req.a].pair[n] = f]
        /\ flog' = [flog EXCEPT ![req.a][0][n] = [@ EXCEPT !.lba = f.lba, !.old = f.old]]
    BY Zenon, <1>4 DEF BttFlogUpdate1
  <2> HIDE DEF f, n
  <2>3. rt' \in [Arenas -> Runtime]
    <3>1. rt \in [Arenas -> Runtime]
      BY Zenon DEF TypeOK, DriverTypes
    <3>2. [rt[req.a] EXCEPT !.pair[n] = f] \in Runtime
      BY ZenonT(60), <2>1, <1>0, <3>1 DEF Runtime, FlogPair
    <3>3. QED
      BY <2>2, <1>0, <3>1, <3>2
  <2>4. flog' \in [Arenas -> [Lanes -> FlogPair]]
    <3>0. flog[req.a][0][n] \in FlogEntry
      BY <2>1, <1>0, ConstantTypes DEF TypeOK, MediaTypes, FlogPair
    <3>1. [flog[req.a][0][n] EXCEPT !.lba = f.lba, !.old = f.old] \in FlogEntry
      BY Zenon, <3>0, <2>1 DEF FlogEntry
    <3>2. QED
      BY <3>1, <2>1, <2>2, <1>0, ConstantTypes DEF TypeOK, MediaTypes, FlogPair
  <2>5. flogMedia' \in [Arenas -> [Lanes -> FlogPair]]
    BY Zenon, <2>4, <1>4 DEF BttFlogUpdate1, PersistFlog, TypeOK, MediaTypes
  <2>6. QED
    BY Zenon, <2>3, <2>4, <2>5, <1>4, ConstantTypes
    DEF BttFlogUpdate1, Goto, TypeOK, MediaTypes, DriverTypes, Pcs
<1>5. CASE BttFlogUpdate2
  <2> DEFINE n == rt[req.a].next
             f == rt[req.a].pair[n]
  <2>1. f \in FlogEntry /\ n \in Slots
    BY <1>0 DEF TypeOK, DriverTypes, Runtime, FlogPair
  <2>2. rt' = [rt EXCEPT ![req.a].next = 1 - n]
        /\ flog' = [flog EXCEPT ![req.a][0][n] = [@ EXCEPT !.new = f.new, !.seq = f.seq]]
    BY Zenon, <1>5 DEF BttFlogUpdate2
  <2> HIDE DEF f, n
  <2>3. rt' \in [Arenas -> Runtime]
    BY Zenon, <2>1, <2>2, <1>0, ConstantTypes DEF TypeOK, DriverTypes, Runtime
  <2>4. flog' \in [Arenas -> [Lanes -> FlogPair]]
    <3>0. flog[req.a][0][n] \in FlogEntry
      BY <2>1, <1>0, ConstantTypes DEF TypeOK, MediaTypes, FlogPair
    <3>1. [flog[req.a][0][n] EXCEPT !.new = f.new, !.seq = f.seq] \in FlogEntry
      BY Zenon, <3>0, <2>1 DEF FlogEntry
    <3>2. QED
      BY <3>1, <2>1, <2>2, <1>0, ConstantTypes DEF TypeOK, MediaTypes, FlogPair
  <2>5. flogMedia' \in [Arenas -> [Lanes -> FlogPair]]
    BY Zenon, <2>4, <1>5 DEF BttFlogUpdate2, PersistFlog, TypeOK, MediaTypes
  <2>6. QED
    BY Zenon, <2>3, <2>4, <2>5, <1>5, ConstantTypes
    DEF BttFlogUpdate2, Goto, TypeOK, MediaTypes, DriverTypes, Pcs
<1>6. CASE BttMapUnlock
  <2>1. rt[req.a].pair[1 - rt[req.a].next] \in FlogEntry
    BY <1>0, ConstantTypes DEF TypeOK, DriverTypes, Runtime, FlogPair
  <2>2. map' \in [Arenas -> [Lbas -> Entry]]
    BY Zenon, <2>1, <1>0, <1>6 DEF BttMapUnlock, TypeOK, MediaTypes, FlogEntry
  <2>3. QED
    BY Zenon, <2>2, <1>6, ReturnTypes DEF BttMapUnlock, TypeOK, MediaTypes
<1>7. QED
  BY Zenon, <1>1, <1>2, <1>3, <1>4, <1>5, <1>6

\* What happens to the media while the driver is down.
LEMMA EnvironmentTypes ==
  ASSUME TypeOK, Environment
  PROVE  TypeOK'
<1>2. CASE PowerFail
  BY Zenon, <1>2, GoneTypes DEF PowerFail, TypeOK, MediaTypes
<1>3. ASSUME NEW a \in Arenas, ForeignError(a) \/ ForeignDamage(a) PROVE TypeOK'
  <2>1. UNCHANGED <<map, flog, flogMedia, data, ns, driver>> /\ foreign' \in 0 .. MaxForeign
    BY <1>3, BttAssumptions DEF ForeignError, ForeignDamage, Foreign, TypeOK, MediaTypes
  <2>2. info' \in [Arenas -> InfoStates] /\ backup' \in [Arenas -> InfoStates]
    BY Zenon, <1>3 DEF ForeignError, ForeignDamage, TypeOK, MediaTypes, InfoStates
  <2>3. QED
    BY <2>1, <2>2 DEF TypeOK, MediaTypes, DriverTypes, driver
<1>4. ASSUME NEW a \in Arenas, NEW i \in Lanes, EvictFlog(a, i) PROVE TypeOK'
  BY <1>4 DEF EvictFlog, driver, TypeOK, MediaTypes, DriverTypes
<1>5. ASSUME NEW a \in Arenas, NEW i \in Lanes, NEW p \in Lbas, NEW v \in Values,
             NEW c \in BOOLEAN, ForeignWrite(a, i, p, v, c)
      PROVE  TypeOK'
  <2> DEFINE f == CurrentFlog(a, i)
             new == [flag |-> "normal", blk |-> f.old.blk]
             g == [lba |-> p, old |-> MapEntry(a, p), new |-> new, seq |-> NSEQ(f.seq)]
             k == 1 - Current(a, i)
  <2>1. new \in Entry /\ g \in FlogEntry /\ k \in Slots
    <3>1. f \in FlogEntry /\ Current(a, i) \in {-1, 0, 1} /\ Current(a, i) # -1
      BY Zenon, <1>5, OperatorTypes DEF ForeignWrite
    <3>2. new \in Entry /\ f.seq \in 0 .. 3
      BY Zenon, <3>1 DEF FlogEntry, Entry
    <3>3. g \in FlogEntry
      <4>1. NSEQ(f.seq) \in 0 .. 3
        BY <3>2, ConstantTypes
      <4>2. MapEntry(a, p) \in Entry
        BY Zenon, OperatorTypes
      <4>3. QED
        BY Zenon, <3>2, <4>1, <4>2 DEF FlogEntry
    <3>4. k \in Slots
      BY <3>1 DEF Slots
    <3>5. QED
      BY Zenon, <3>2, <3>3, <3>4
  <2>2. /\ data' = [data EXCEPT ![a][new.blk] = v]
        /\ flog' = [flog EXCEPT ![a][i][k] = g]
        /\ flogMedia' = [flogMedia EXCEPT ![a][i] = [flog[a][i] EXCEPT ![k] = g]]
        /\ map' = IF c THEN [map EXCEPT ![a][p] = new] ELSE map
    BY Zenon, <1>5 DEF ForeignWrite
  <2>3. UNCHANGED <<info, backup, ns, driver>> /\ foreign' \in 0 .. MaxForeign
    <3>1. /\ UNCHANGED <<info, backup, ns, driver>> /\ foreign \in 0 .. MaxForeign
          /\ foreign < MaxForeign /\ foreign' = foreign + 1
      BY Zenon, <1>5 DEF ForeignWrite, Foreign, TypeOK, MediaTypes
    <3>2. QED
      BY <3>1, BttAssumptions
  <2> HIDE DEF f, new, g, k
  <2>4. data' \in [Arenas -> [Blocks -> Values \cup {Torn}]] /\ map' \in [Arenas -> [Lbas -> Entry]]
    BY Zenon, <2>1, <2>2 DEF TypeOK, MediaTypes, Entry
  <2>5. flog' \in [Arenas -> [Lanes -> FlogPair]] /\ flogMedia' \in [Arenas -> [Lanes -> FlogPair]]
    BY <2>1, <2>2 DEF TypeOK, MediaTypes, FlogPair
  <2>6. QED
    BY <2>3, <2>4, <2>5 DEF TypeOK, MediaTypes, DriverTypes, driver
<1>6. ASSUME NEW a \in Arenas, NEW p \in Lbas, NEW f \in {"zero", "error"}, ForeignMark(a, p, f)
      PROVE  TypeOK'
  <2>1. [flag |-> f, blk |-> MapEntry(a, p).blk] \in Entry
    BY Zenon, OperatorTypes DEF Entry
  <2>2. QED
    BY <2>1, <1>6, BttAssumptions DEF ForeignMark, Foreign, driver, TypeOK, MediaTypes, DriverTypes
<1>7. QED
  BY Zenon, <1>2, <1>3, <1>4, <1>5, <1>6 DEF Environment

\* Every step of the driver and of its environment keeps the types.
LEMMA TypeStep == TypeOK /\ [Next]_vars => TypeOK'
<1>1. SUFFICES ASSUME TypeOK, [Next]_vars PROVE TypeOK'
  OBVIOUS
<1>2. ASSUME \/ BttWriteLayoutFails \/ InsertNamespaceLabelsFails \/ BttReadFlogPairFails
             \/ BttWriteFails \/ \E b \in BadSets : BttInitFails(b)
             \/ \E a \in Arenas : BttWriteRefused(a)
             \/ BttRelease \/ DeleteNamespaceFails
      PROVE  TypeOK'
  BY Zenon, <1>1, <1>2, GoneTypes, ReturnTypes, MediaUnchanged
  DEF BttWriteLayoutFails, InsertNamespaceLabelsFails, BttReadFlogPairFails, BttWriteFails,
      BttInitFails, BttWriteRefused, BttRelease, DeleteNamespaceFails, TypeOK
<1>3. CASE DeleteNamespace
  BY Zenon, <1>1, <1>3, GoneTypes DEF DeleteNamespace, TypeOK, MediaTypes
<1>4. CASE UNCHANGED vars
  BY <1>1, <1>4 DEF vars, TypeOK, MediaTypes, DriverTypes
<1>5. QED
  BY Zenon, <1>1, <1>2, <1>3, <1>4, LayoutTypes, OpenTypes, AccessTypes, EnvironmentTypes
  DEF Next, Progress, Request

\* Every behaviour is well-typed, for any number of arenas, blocks and lanes.
THEOREM TypeCorrect == Spec => []TypeOK
  BY TypeInit, TypeStep, PTL DEF Spec
=============================================================================
