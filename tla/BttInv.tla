------------------------------- MODULE BttInv -------------------------------
(***************************************************************************)
(* The inductive invariant behind BlockOwnership, FlogReadable and         *)
(* NoTornBlock.                                                            *)
(***************************************************************************)
EXTENDS Btt

\* No namespace is ever laid out again in part: either info blocks are not
\* damaged, or there is only one arena and every address can be written.
NoPartialReformat ==
  "damage" \in ForeignKinds => NArenas = 1 /\ BadSets \subseteq {{}}

Writing == {"data", "data2", "lock", "flog2", "map"}
LayoutPcs == {"zeromap", "zeroflog", "layflog", "info", "info2", "backup", "backup2"}
Unformed == {"zeromap", "zeroflog", "layflog", "info", "info2"}

\* Where the driver can be, given the namespace, the info blocks and Laidout.
Control ==
  /\ ctx = "init" /\ pc # "off" => ns = "present"
  /\ pc \in {"off", "failed", "idle"} => ctx = "init"
  /\ pc \in Writing => ctx = "write" /\ laidout
  /\ pc = "label" => ctx = "create" /\ laidout
  /\ pc \in LayoutPcs => ctx \in {"create", "write"} /\ ~laidout
  /\ pc \in LayoutPcs /\ ctx = "write" => "damage" \in ForeignKinds
  /\ pc = "readflog" => ~laidout /\ LayoutFound
  /\ pc \in {"off", "failed"} => ~laidout
  /\ ctx = "create" => ns = "absent"
  /\ ctx = "write" => ns = "present"
  /\ laidout => LayoutFound
  /\ pc = "idle" /\ ~laidout => ~LayoutFound
  /\ ns = "present" /\ ~LayoutFound => "damage" \in ForeignKinds

\* The arenas that BttWriteLayout has still to write have no valid info block.
LayoutAhead ==
  /\ pc \in Unformed => \A a \in Arenas : a >= cur => ~BttReadInfo(info[a])
  /\ pc \in {"backup", "backup2"} =>
       \A a \in Arenas : a > cur => ~BttReadInfo(info[a])
  /\ pc \in {"backup", "backup2"} => BttReadInfo(info[cur])
  /\ pc \in LayoutPcs => \A a \in Arenas : a < cur => BttReadInfo(info[a])

\* What BttWriteLayout has written of the arena it is working on.
LayoutDone ==
  /\ pc = "zeromap" =>
       /\ idx <= LastMapLine
       /\ \A p \in Lbas : BttGetMapFromLba(p) < idx => map[cur][p] = InitialEntry
  /\ pc \in {"zeroflog", "layflog", "info", "info2"} =>
       \A p \in Lbas : map[cur][p] = InitialEntry
  /\ pc = "layflog" =>
       \A i \in Lanes : i < idx => flog[cur][i] = InitialPair(i)
  /\ pc \in {"info", "info2"} =>
       \A i \in Lanes : flog[cur][i] = InitialPair(i)

\* Every flog pair of arena a has a current half.
Readable(a) == \A i \in Lanes : Current(a, i) # -1

\* No two lanes have logged an update of the same LBA.
Separate(a) ==
  \A i, j \in Lanes : i # j /\ Incomplete(a, i) /\ Incomplete(a, j) =>
                        CurrentFlog(a, i).lba # CurrentFlog(a, j).lba

\* A mapped block has been written in full, and so has a logged one.
MappedWhole(a) ==
  \A p \in Lbas : map[a][p].flag = "normal" => data[a][map[a][p].blk] # Torn
LoggedWhole(a) ==
  \A i \in Lanes : Incomplete(a, i) =>
    /\ CurrentFlog(a, i).new.flag = "normal"
    /\ data[a][CurrentFlog(a, i).new.blk] # Torn

\* Map, flog and data of an arena agree.
Consistent(a) ==
  Owned(a) /\ Readable(a) /\ Separate(a) /\ MappedWhole(a) /\ LoggedWhole(a)

AllConsistent == \A a \in Arenas : BttReadInfo(info[a]) => Consistent(a)

\* The lanes that have been recovered stay recovered.
Recovered ==
  /\ laidout => \A a \in Arenas, i \in Lanes :
                  Incomplete(a, i) => pc = "map" /\ a = req.a /\ i = 0
  /\ pc = "readflog" => \A a \in Arenas, i \in Lanes :
                          a < cur \/ (a = cur /\ i < idx) => ~Incomplete(a, i)

\* The cached flog pair of arena a is the one on the media.
Cached(a) ==
  /\ rt[a].next = 1 - Current(a, 0)
  /\ rt[a].pair = flog[a][0]

\* Between the two writes of BttFlogUpdate the cached half that is not current
\* is ahead of the media.
CachedHalf(a) ==
  LET n == rt[a].next
  IN  /\ n = 1 - Current(a, 0)
      /\ rt[a].pair[1 - n] = flog[a][0][1 - n]
      /\ rt[a].pair[n] = [lba |-> req.p, old |-> MapEntry(a, req.p), new |-> FreeMap(a),
                          seq |-> NSEQ(rt[a].pair[1 - n].seq)]
      /\ flog[a][0][n].lba = req.p
      /\ flog[a][0][n].old = MapEntry(a, req.p)

Caches ==
  /\ laidout => \A a \in Arenas :
       IF pc = "flog2" /\ a = req.a THEN CachedHalf(a) ELSE Cached(a)
  /\ pc = "readflog" => \A a \in Arenas :
       a < cur \/ (a = cur /\ 0 < idx) => Cached(a)

\* The progress of a block write.
WriteProgress ==
  /\ pc \in {"lock", "flog2"} => data[req.a][FreeMap(req.a).blk] # Torn
  /\ pc = "map" => /\ Incomplete(req.a, 0)
                   /\ CurrentFlog(req.a, 0).lba = req.p

IInv ==
  /\ TypeOK /\ flogMedia = flog
  /\ Control /\ LayoutAhead /\ LayoutDone
  /\ AllConsistent /\ Recovered /\ Caches /\ WriteProgress

\* IInv is what the proof needs; it holds when caches are persistent and no
\* namespace is laid out again in part.
InductiveInvariant == CachePersistent /\ NoPartialReformat => IInv

-----------------------------------------------------------------------------
(* What ReadBackSucceeds and the refinement need beyond IInv               *)

\* Arena a is as BttWriteLayout leaves it, and its flog can be read.
Fresh(a) ==
  /\ \A p \in Lbas : map[a][p] = InitialEntry
  /\ \A i \in Lanes : flog[a][i] = InitialPair(i) /\ FlogLoc(a, i) \notin bad

\* What BttWriteLayout has written so far.
LayoutWritten ==
  /\ pc = "off" => ctx = "init"
  /\ pc = "layflog" => \A i \in Lanes : i < idx => FlogLoc(cur, i) \notin bad
  /\ pc \in {"info", "info2", "backup", "backup2"} => Fresh(cur)
  /\ pc \in LayoutPcs => \A a \in Arenas : a < cur => Fresh(a)
  /\ pc \in {"readflog", "label"} /\ ctx # "init" => \A a \in Arenas : Fresh(a)

\* LayoutDone and LayoutWritten are inductive together, whatever the constants.
LayoutInvariant == LayoutDone /\ LayoutWritten

\* A write in progress has not answered yet; before its flog entry is written
\* the spare block holds what was asked for.
WriteInvariant ==
  /\ pc = "off" \/ ctx = "write" => out = "none"
  /\ pc \in {"lock", "flog2"} => data[req.a][FreeMap(req.a).blk] = req.v
=============================================================================
