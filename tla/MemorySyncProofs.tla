--------------------------- MODULE MemorySyncProofs ---------------------------
(***************************************************************************)
(* MemorySync, for any paths, contents and bounds: the types, and that      *)
(*   - what the client replaces or deletes on the server has been in the    *)
(*     agent's folder.  Every precondition comes from a sha the client has  *)
(*     recorded, and each of those is a content the path had on disk;       *)
(*   - it changes no more than the store's attachment allows;               *)
(*   - a folder that is wiped costs no memory;                              *)
(*   - a file is replaced or removed only for another writer's sake;        *)
(*   - a flush that ends undisturbed has saved the folder.                  *)
(***************************************************************************)
EXTENDS MemorySync, FiniteSetTheorems, TLAPS

\* The path a request of the sync is about is the one the sync has come to.
TurnInv ==
    \A p \in Path : call["sync"][p] # NoRequest => sync.pc = "path" /\ sync.at = p

Seen(p) == shown[p] \union {Absent}

\* What a pass knows of a path.
SyncSeen(p)  == sync.scan[p] \in Seen(p) /\ sync.base[p] \in Seen(p)
FlushSeen(p) ==
    /\ flush.scan[p] \in Seen(p)
    /\ p \in flush.todo /\ flush.pc = "send" => flush.listed[p] \in Seen(p)

CallSeen(q, p) ==
    call[q][p] # NoRequest =>
        call[q][p].content \in Seen(p) /\ call[q][p].over \in Seen(p)
        /\ call[q][p].keep \in Seen(p)

SeenInv ==
    \A p \in Path :
        /\ disk[p] \in Seen(p) /\ baseline[p] \in Seen(p) /\ sent[p] \in Seen(p)
        /\ SyncSeen(p) /\ FlushSeen(p)
        /\ \A q \in {"sync", "flush"} : CallSeen(q, p)
-----------------------------------------------------------------------------
LEMMA NothingType == Nothing \in [Path -> File] /\ \A p \in Path : Nothing[p] = Absent
BY DEF Nothing, File

LEMMA OffType == Off \in SyncState /\ NoFlush \in FlushState
BY PathAssumption, NothingType DEF Off, NoFlush, SyncState, FlushState, Path

LEMMA InitFacts == Init => TypeOK /\ TurnInv /\ SeenInv
<1> SUFFICES ASSUME Init PROVE TypeOK /\ TurnInv /\ SeenInv
  OBVIOUS
<1> USE NothingType, OffType
<1>1. sync \in SyncState /\ sync.scan = Nothing /\ sync.base = Nothing /\ sync.pc = "stamp"
  BY DEF Init, SyncState, Off
<1>2. TypeOK
  BY <1>1 DEF Init, TypeOK, File, Content
<1>3. TurnInv
  BY DEF Init, TurnInv
<1>4. SeenInv
  <2>1. flush.scan = Nothing /\ flush.todo = {}
    BY DEF Init, NoFlush
  <2> QED BY <1>1, <2>1 DEF Init, SeenInv, SyncSeen, FlushSeen, CallSeen, Seen
<1> QED BY <1>2, <1>3, <1>4

LEMMA SettledType ==
    ASSUME TypeOK, NEW listing \in [Path -> File] PROVE Settled(listing) \in [Path -> File]
BY DEF TypeOK, Settled

\* A sync that has looked at a path moves on to the next.
LEMMA AdvanceType ==
    ASSUME sync \in SyncState, NEW p \in Path, sync.at = p, NEW sha \in File, Advance(p, sha)
    PROVE  /\ sync' \in SyncState
           /\ sync'.pc = sync.pc /\ sync'.at = p + 1 /\ sync'.scan = sync.scan
           /\ sync'.base = [sync.base EXCEPT ![p] = sha]
<1>1. p + 1 \in 1..(N + 1)
  BY PathAssumption DEF Path
<1> QED BY <1>1 DEF Advance, SyncState

\* The end of a request keeps the types.
LEMMA ConcludeType ==
    ASSUME TypeOK, TurnInv, NEW q \in {"sync", "flush"}, NEW p \in Path,
           call[q][p] # NoRequest, NEW sha \in File, NEW saved \in BOOLEAN,
           Conclude(q, p, sha, saved)
    PROVE  /\ (call \in [{"sync", "flush"} -> [Path -> Request \union {NoRequest}]])'
           /\ (baseline \in [Path -> File])' /\ (sync \in SyncState)'
           /\ (flush \in FlushState)'
           /\ TurnInv'
<1>1. (call \in [{"sync", "flush"} -> [Path -> Request \union {NoRequest}]])'
  BY DEF Conclude, TypeOK
<1>2. CASE q = "sync"
  <2>1. sync.at = p
    BY <1>2 DEF TurnInv
  <2>2. Advance(p, sha)
    BY <1>2 DEF Conclude
  <2>3. sync' \in SyncState
    BY <2>1, <2>2, AdvanceType DEF TypeOK
  <2>4. TurnInv'
    BY <1>2 DEF Conclude, TurnInv, TypeOK
  <2> QED BY <1>1, <1>2, <2>3, <2>4 DEF Conclude, TypeOK
<1>3. CASE q = "flush"
  <2>1. flush' \in FlushState /\ sync' = sync
    BY <1>3 DEF Conclude, TypeOK, FlushState
  <2>2. TurnInv'
    BY <1>3 DEF Conclude, TurnInv, TypeOK
  <2> QED BY <1>1, <1>3, <2>1, <2>2 DEF Conclude, TypeOK
<1> QED BY <1>2, <1>3

LEMMA RequestType ==
    ASSUME TypeOK, NEW q \in {"sync", "flush"}, NEW p \in Path, call[q][p] # NoRequest
    PROVE  call[q][p] \in Request
BY DEF TypeOK
-----------------------------------------------------------------------------
LEMMA EnvironmentType ==
    ASSUME TypeOK, TurnInv, Environment PROVE TypeOK' /\ TurnInv'
<1> USE DEF TypeOK, TurnInv, attach, history, counts, AgentActs
<1>1. ASSUME NEW p \in Path, AgentWrites(p) PROVE TypeOK' /\ TurnInv'
  BY <1>1 DEF AgentWrites, Content, File
<1>2. ASSUME NEW p \in Path, AgentRemoves(p) PROVE TypeOK' /\ TurnInv'
  BY <1>2 DEF AgentRemoves, File
<1>3. ASSUME NEW p \in Path, OtherWrites(p) PROVE TypeOK' /\ TurnInv'
  BY <1>3 DEF OtherWrites, File, Content
<1>4. CASE Wipe
  <2>1. disk' \in [Path -> File] /\ wiped' \subseteq Path
    BY <1>4, NothingType DEF Wipe, Files
  <2> QED BY <1>4, <2>1 DEF Wipe
<1>5. CASE Spoil
  BY <1>5 DEF Spoil
<1> QED BY <1>1, <1>2, <1>3, <1>4, <1>5 DEF Environment

LEMMA AnswerType ==
    ASSUME TypeOK, TurnInv, NEW q \in {"sync", "flush"}, NEW p \in Path,
           Lands(q, p) \/ Answer(q, p)
    PROVE  TypeOK' /\ TurnInv'
<1> USE DEF world, history, counts, Fault
<1>1. CASE Lands(q, p)
  <2>1. call[q][p] \in Request
    BY <1>1, RequestType DEF Lands
  <2>2. call' \in [{"sync", "flush"} -> [Path -> Request \union {NoRequest}]]
    BY <1>1, <2>1 DEF Lands, TypeOK, Request
  <2>3. TurnInv'
    BY <1>1 DEF Lands, TypeOK, TurnInv
  <2> QED BY <1>1, <2>1, <2>2, <2>3 DEF Lands, TypeOK, Request, attach
<1>2. CASE Saved(q, p)
  <2>1. call[q][p].content \in File
    BY <1>2, RequestType DEF Saved, Request
  <2> QED BY <1>2, <2>1, ConcludeType DEF Saved, TypeOK, File
<1>3. CASE Unheard(q, p)
  <2>1. call[q][p].keep \in File
    BY <1>3, RequestType DEF Unheard, Request
  <2>2. Conclude(q, p, call[q][p].keep, FALSE) /\ call[q][p] # NoRequest
    BY <1>3 DEF Unheard
  <2>3. /\ call' \in [{"sync", "flush"} -> [Path -> Request \union {NoRequest}]]
        /\ baseline' \in [Path -> File] /\ sync' \in SyncState /\ flush' \in FlushState
        /\ TurnInv'
    BY <2>1, <2>2, ConcludeType
  <2> QED BY <1>3, <2>3 DEF Unheard, TypeOK
<1>4. CASE Rejected(q, p)
  <2>1. call[q][p].keep \in File /\ call[q][p].local \in File
    BY <1>4, RequestType DEF Rejected, Request
  <2> QED BY <1>4, <2>1, ConcludeType DEF Rejected, TypeOK
<1>5. CASE UpdateFindsNone(q, p)
  <2>1. call[q][p] \in Request
    BY <1>5, RequestType DEF UpdateFindsNone
  <2>2. call[q][p].keep \in File /\ call[q][p].local \in File
    BY <2>1 DEF Request
  <2>3. CASE disk[p] # Absent
    <3>1. Upload(q, p, Absent, call[q][p].keep, call[q][p].local)
      BY <1>5, <2>3 DEF UpdateFindsNone
    <3>2. /\ sent' \in [Path -> File]
          /\ call' \in [{"sync", "flush"} -> [Path -> Request \union {NoRequest}]]
      BY <3>1, <2>2 DEF Upload, TypeOK, Request, File
    <3>3. TurnInv'
      BY <1>5, <2>3, <3>1 DEF UpdateFindsNone, Upload, TurnInv, TypeOK
    <3> QED BY <1>5, <2>3, <3>2, <3>3 DEF UpdateFindsNone, TypeOK
  <2>4. CASE disk[p] = Absent
    BY <1>5, <2>2, <2>4, ConcludeType DEF UpdateFindsNone, TypeOK
  <2> QED BY <2>3, <2>4
<1>6. CASE Conflicts(q, p)
  <2>1. call[q][p].keep \in File
    BY <1>6, RequestType DEF Conflicts, Request
  <2> QED BY <1>6, <2>1, ConcludeType DEF Conflicts, TypeOK
<1> QED BY <1>1, <1>2, <1>3, <1>4, <1>5, <1>6 DEF Answer

LEMMA DeletedType ==
    ASSUME TypeOK, TurnInv, NEW p \in Path, Deleted(p) PROVE TypeOK' /\ TurnInv'
<1>1. Absent \in File
  BY DEF File
<1> QED BY <1>1, ConcludeType DEF Deleted, TypeOK, world, history

-----------------------------------------------------------------------------
\* The steps of a sync at a path, each with the fact that it is at that path.
LEMMA NoteType ==
    ASSUME TypeOK, TurnInv, NEW p \in Path, NEW sha \in File, Settling(p), Note(p, sha)
    PROVE  TypeOK' /\ TurnInv'
<1>1. sync.at = p /\ Advance(p, sha)
  BY DEF Settling, Turn, Note
<1>2. sync' \in SyncState
  BY <1>1, AdvanceType DEF TypeOK
<1>3. pending' \in [Path -> {"none", "fresh", "old"}]
  BY DEF Settling, TypeOK
<1>4. TurnInv'
  BY DEF Settling, Turn, Note, TurnInv, Advance
<1> QED BY <1>2, <1>3, <1>4 DEF Note, TypeOK, world, history, counts

LEMMA PushType ==
    ASSUME TypeOK, TurnInv, NEW p \in Path, NEW over \in File, NEW local \in File,
           Settling(p), Push(p, over, local)
    PROVE  TypeOK' /\ TurnInv'
<1>1. sync.at = p /\ sync.pc = "path"
  BY DEF Settling, Turn
<1>2. pending' \in [Path -> {"none", "fresh", "old"}]
  BY DEF Settling, TypeOK
<1>3. CASE disk[p] = Absent
  <2>1. Advance(p, over) /\ UNCHANGED <<sent, call>>
    BY <1>3 DEF Push
  <2>2. sync' \in SyncState
    BY <1>1, <2>1, AdvanceType DEF TypeOK
  <2>3. TurnInv'
    BY <2>1 DEF Settling, Turn, TurnInv, Advance
  <2> QED BY <1>2, <2>1, <2>2, <2>3 DEF Push, TypeOK, world, history, counts
<1>4. CASE disk[p] # Absent
  <2>1. Upload("sync", p, over, over, local) /\ UNCHANGED sync
    BY <1>4 DEF Push
  <2>2. /\ sent' \in [Path -> File]
        /\ call' \in [{"sync", "flush"} -> [Path -> Request \union {NoRequest}]]
    BY <2>1 DEF Upload, TypeOK, Request
  <2>3. TurnInv'
    BY <1>1, <2>1 DEF TurnInv, Upload, TypeOK
  <2> QED BY <1>2, <2>1, <2>2, <2>3 DEF Push, TypeOK, world, history, counts
<1> QED BY <1>3, <1>4

LEMMA CreateType ==
    ASSUME TypeOK, TurnInv, NEW p \in Path, NEW sha \in File, Settling(p), Create(p, sha)
    PROVE  TypeOK' /\ TurnInv'
<1>1. Absent \in File
  BY DEF File
<1> QED BY <1>1, NoteType, PushType DEF Create

LEMMA SyncPathType ==
    ASSUME TypeOK, TurnInv, NEW p \in Path, SyncPath(p) PROVE TypeOK' /\ TurnInv'
<1>1. /\ Absent \in File /\ sync.scan[p] \in File /\ sync.listed[p] \in File
      /\ disk[p] \in File /\ baseline[p] \in File
  BY DEF TypeOK, SyncState, File
<1>2. CASE HoldDelete(p)
  <2>1. sync.at = p
    BY <1>2 DEF HoldDelete, Turn
  <2>2. p + 1 \in 1..(N + 1)
    BY PathAssumption DEF Path
  <2> DEFINE used == IF store.deletes = "log_only" /\ MayDelete(p)
                     THEN sync.used + 1 ELSE sync.used
  <2>6. used \in Nat
    BY DEF TypeOK, SyncState
  <2>7. sync' = [sync EXCEPT !.at = @ + 1, !.base[p] = baseline[p], !.used = used]
    BY <1>2 DEF HoldDelete
  <2> HIDE DEF used
  <2>3. sync' \in SyncState
    BY <1>1, <2>1, <2>2, <2>6, <2>7 DEF TypeOK, SyncState
  <2>4. pending' \in [Path -> {"none", "fresh", "old"}]
    BY <1>2 DEF HoldDelete, TypeOK
  <2>5. TurnInv'
    BY <1>2, <2>1 DEF HoldDelete, Turn, TurnInv
  <2> QED BY <1>2, <2>3, <2>4, <2>5 DEF HoldDelete, TypeOK, world, history, counts
<1>3. CASE SendDelete(p)
  <2>1. sync' \in SyncState /\ sync'.pc = sync.pc /\ sync'.at = sync.at
    BY <1>3 DEF SendDelete, TypeOK, SyncState
  <2>2. pending' \in [Path -> {"none", "fresh", "old"}]
    BY <1>3 DEF SendDelete, TypeOK
  <2>3. call' \in [{"sync", "flush"} -> [Path -> Request \union {NoRequest}]]
    BY <1>1, <1>3 DEF SendDelete, TypeOK, Request
  <2>4. TurnInv'
    BY <1>3, <2>1 DEF SendDelete, Turn, TurnInv, TypeOK
  <2> QED BY <1>3, <2>1, <2>2, <2>3, <2>4 DEF SendDelete, TypeOK, world, history, counts
<1>4. CASE Forget(p)
  BY <1>1, <1>4, NoteType DEF Forget
<1>5. CASE PushNew(p)
  BY <1>1, <1>5, CreateType DEF PushNew
<1>6. CASE CompareDeleted(p)
  <2>1. CASE Fresh(p) = Absent
    BY <1>1, <1>6, <2>1, NoteType DEF CompareDeleted
  <2>2. CASE Fresh(p) # Absent /\ Fresh(p) = baseline[p]
    <3>1. sync' = [sync EXCEPT !.pc = "unlink"] /\ Settling(p)
      BY <1>6, <2>2 DEF CompareDeleted
    <3>2. sync' \in SyncState
      BY <3>1 DEF TypeOK, SyncState
    <3>3. pending' \in [Path -> {"none", "fresh", "old"}]
      BY <3>1 DEF Settling, TypeOK
    <3>4. UNCHANGED <<world, store, baseline, refused, sent, phase, flush, call, history,
                      counts>>
      BY <1>6, <2>2 DEF CompareDeleted
    <3>5. TurnInv'
      BY <3>1, <3>4 DEF Settling, Turn, TurnInv
    <3> QED BY <3>2, <3>3, <3>4, <3>5 DEF TypeOK, world, history, counts
  <2>3. CASE Fresh(p) # Absent /\ Fresh(p) # baseline[p]
    <3>1. Create(p, Fresh(p)) /\ Settling(p)
      BY <1>6, <2>3 DEF CompareDeleted
    <3> QED BY <1>1, <3>1, CreateType DEF Fresh
  <2> QED BY <2>1, <2>2, <2>3
<1>7. CASE Unlink(p)
  <2>1. p + 1 \in 1..(N + 1)
    BY PathAssumption DEF Path
  <2>2. sync' \in SyncState /\ disk' \in [Path -> File]
    BY <1>1, <1>7, <2>1 DEF Unlink, TypeOK, SyncState
  <2>3. TurnInv'
    BY <1>7 DEF Unlink, TurnInv
  <2> QED BY <1>7, <2>2, <2>3 DEF Unlink, TypeOK, attach, history, counts
<1>8. CASE TakeRemote(p)
  <2>1. p + 1 \in 1..(N + 1) /\ sync.at = p
    BY <1>8, PathAssumption DEF Path, TakeRemote, Settling, Turn
  <2>2. sync' \in SyncState
    BY <1>1, <1>8, <2>1 DEF TakeRemote, TypeOK, SyncState
  <2>3. pending' \in [Path -> {"none", "fresh", "old"}]
    BY <1>8 DEF TakeRemote, Settling, TypeOK
  <2>4. TurnInv'
    BY <1>8 DEF TakeRemote, Settling, Turn, TurnInv
  <2> QED BY <1>8, <2>2, <2>3, <2>4 DEF TakeRemote, TypeOK, world, history, counts
<1>9. CASE Adopt(p)
  BY <1>1, <1>9, NoteType DEF Adopt
<1>10. CASE PushEdit(p)
  BY <1>1, <1>10, NoteType, PushType DEF PushEdit
<1>11. CASE Unchanged(p)
  BY <1>1, <1>11, NoteType DEF Unchanged
<1> QED BY <1>2, <1>3, <1>4, <1>5, <1>6, <1>7, <1>8, <1>9, <1>10, <1>11 DEF SyncPath

-----------------------------------------------------------------------------
LEMMA PutType ==
    ASSUME TypeOK, NEW p \in Path, NEW c \in Content, Put(p, c)
    PROVE  /\ disk' \in [Path -> File] /\ baseline' \in [Path -> File]
           /\ shown' \in [Path -> SUBSET Content] /\ wiped' \subseteq Path
BY DEF Put, TypeOK, File

LEMMA SyncLoopType ==
    ASSUME TypeOK, TurnInv,
           \/ Scan \/ List \/ ListFails \/ EndPaths \/ EndSync \/ StartSync
           \/ \E p \in Path : Pull(p) \/ PullFindsNone(p) \/ PullFails(p) \/ WindowPasses(p)
    PROVE  TypeOK' /\ TurnInv'
<1> USE OffType DEF world, attach, history, counts
<1>1. CASE Scan
  <2>1. sync' \in SyncState
    BY <1>1 DEF Scan, TypeOK, SyncState
  <2>2. TurnInv'
    BY <1>1 DEF Scan, TurnInv
  <2> QED BY <1>1, <2>1, <2>2 DEF Scan, TypeOK
<1>2. CASE List
  <2>1. baseline' \in [Path -> File] /\ sent' \in [Path -> File]
    BY <1>2, SettledType, NothingType DEF List, TypeOK
  <2>2. sync' \in SyncState
    BY <1>2, NothingType DEF List, TypeOK, SyncState
  <2>3. TurnInv'
    BY <1>2 DEF List, TurnInv
  <2> QED BY <1>2, <2>1, <2>2, <2>3 DEF List, TypeOK
<1>3. CASE ListFails
  BY <1>3 DEF ListFails, Fault, TypeOK, TurnInv
<1>4. CASE EndPaths
  <2>1. sync' \in SyncState
    BY <1>4 DEF EndPaths, TypeOK, SyncState
  <2>2. TurnInv'
    BY <1>4, PathAssumption DEF EndPaths, TurnInv, Path
  <2> QED BY <1>4, <2>1, <2>2 DEF EndPaths, TypeOK, SyncState
<1>5. CASE EndSync
  BY <1>5 DEF EndSync, TypeOK, TurnInv
<1>6. CASE StartSync
  <2>1. sync' \in SyncState
    BY <1>6 DEF StartSync, SyncState
  <2> QED BY <1>6, <2>1 DEF StartSync, TypeOK, TurnInv
<1>7. ASSUME NEW p \in Path, Pull(p) PROVE TypeOK' /\ TurnInv'
  <2>1. remote[p] \in Content
    BY <1>7 DEF Pull, TypeOK, File
  <2>2. sync' \in SyncState
    BY <1>7 DEF Pull, TypeOK, SyncState
  <2> QED BY <1>7, <2>1, <2>2, PutType DEF Pull, TypeOK, TurnInv
<1>8. ASSUME NEW p \in Path, PullFindsNone(p) PROVE TypeOK' /\ TurnInv'
  <2>1. sync' \in SyncState
    BY <1>8 DEF PullFindsNone, TypeOK, SyncState
  <2> QED BY <1>8, <2>1 DEF PullFindsNone, TypeOK, TurnInv
<1>9. ASSUME NEW p \in Path, PullFails(p) PROVE TypeOK' /\ TurnInv'
  <2>1. sync' \in SyncState
    BY <1>9 DEF PullFails, TypeOK, SyncState
  <2> QED BY <1>9, <2>1 DEF PullFails, PullBase, Fault, TypeOK, TurnInv
<1>10. ASSUME NEW p \in Path, WindowPasses(p) PROVE TypeOK' /\ TurnInv'
  BY <1>10 DEF WindowPasses, TypeOK, TurnInv
<1> QED BY <1>1, <1>2, <1>3, <1>4, <1>5, <1>6, <1>7, <1>8, <1>9, <1>10

LEMMA RestoreType ==
    ASSUME TypeOK, TurnInv,
           Stamp \/ EndRestore \/ RestoreFails \/ \E p \in Path : Restore(p)
    PROVE  TypeOK' /\ TurnInv'
<1> USE OffType DEF history, counts, attach
<1>1. CASE Stamp
  <2>3. 1 \in 1..(N + 1)
    BY PathAssumption
  <2>1. sync' \in SyncState
    BY <1>1, <2>3 DEF Stamp, TypeOK, SyncState
  <2>2. TurnInv'
    BY <1>1 DEF Stamp, TurnInv
  <2> QED BY <1>1, <2>1, <2>2, NothingType DEF Stamp, TypeOK
<1>2. CASE EndRestore
  BY <1>2 DEF EndRestore, TypeOK, TurnInv, world
<1>3. CASE RestoreFails
  BY <1>3, NothingType DEF RestoreFails, Fault, TypeOK, TurnInv
<1>4. ASSUME NEW p \in Path, Restore(p) PROVE TypeOK' /\ TurnInv'
  <2>1. p + 1 \in 1..(N + 1)
    BY PathAssumption DEF Path
  <2>2. sync' \in SyncState
    BY <1>4, <2>1 DEF Restore, TypeOK, SyncState
  <2>3. TurnInv'
    BY <1>4 DEF Restore, TurnInv
  <2>4. /\ disk' \in [Path -> File] /\ baseline' \in [Path -> File]
        /\ shown' \in [Path -> SUBSET Content] /\ wiped' \subseteq Path
    BY <1>4, PutType DEF Restore, TypeOK, File
  <2> QED BY <1>4, <2>2, <2>3, <2>4 DEF Restore, TypeOK
<1> QED BY <1>1, <1>2, <1>3, <1>4

LEMMA FlushType ==
    ASSUME TypeOK, TurnInv,
           FlushScan \/ FlushList \/ FlushFails \/ FlushDone \/ \E p \in Path : FlushSend(p)
    PROVE  TypeOK' /\ TurnInv'
<1> USE DEF world, attach, history, counts
<1>1. CASE FlushScan
  <2>1. flush' \in FlushState
    BY <1>1 DEF FlushScan, TypeOK, FlushState, Files
  <2> QED BY <1>1, <2>1 DEF FlushScan, TypeOK, TurnInv
<1>2. CASE FlushList
  <2>1. Settled(remote) \in [Path -> File]
    BY SettledType DEF TypeOK
  <2>2. baseline' \in [Path -> File] /\ flush' \in FlushState
    BY <1>2, <2>1 DEF FlushList, TypeOK, FlushState
  <2> QED BY <1>2, <2>2, NothingType DEF FlushList, TypeOK, TurnInv
<1>3. CASE FlushFails
  <2>1. flush' \in FlushState
    BY <1>3 DEF FlushFails, TypeOK, FlushState
  <2> QED BY <1>3, <2>1 DEF FlushFails, Fault, TypeOK, TurnInv
<1>4. CASE FlushDone
  <2>1. flush' \in FlushState
    BY <1>4 DEF FlushDone, TypeOK, FlushState
  <2> QED BY <1>4, <2>1 DEF FlushDone, TypeOK, TurnInv
<1>5. ASSUME NEW p \in Path, FlushSend(p) PROVE TypeOK' /\ TurnInv'
  <2>1. flush' \in FlushState
    BY <1>5 DEF FlushSend, TypeOK, FlushState
  <2>2. flush.listed[p] \in File /\ flush.scan[p] \in File /\ Absent \in File
    BY DEF TypeOK, FlushState, File
  <2>3. /\ sent' \in [Path -> File]
        /\ call' \in [{"sync", "flush"} -> [Path -> Request \union {NoRequest}]]
    <3>1. CASE disk[p] = Absent
      BY <1>5, <3>1 DEF FlushSend, TypeOK
    <3>2. CASE disk[p] # Absent
      <4>1. /\ sent' = [sent EXCEPT ![p] = disk[p]]
            /\ call' = [call EXCEPT !["flush"][p] =
                          [content |-> disk[p], over |-> flush.listed[p], keep |-> Absent,
                           local |-> flush.scan[p], landed |-> FALSE]]
        BY <1>5, <3>2 DEF FlushSend, Upload
      <4>2. [content |-> disk[p], over |-> flush.listed[p], keep |-> Absent,
             local |-> flush.scan[p], landed |-> FALSE] \in Request
        BY <2>2 DEF Request, TypeOK
      <4> QED BY <4>1, <4>2 DEF TypeOK
    <3> QED BY <3>1, <3>2
  <2>4. TurnInv'
    BY <1>5 DEF FlushSend, Upload, TurnInv, TypeOK
  <2> QED BY <1>5, <2>1, <2>3, <2>4 DEF FlushSend, TypeOK
<1> QED BY <1>1, <1>2, <1>3, <1>4, <1>5

LEMMA TeardownType ==
    ASSUME TypeOK, TurnInv, Teardown PROVE TypeOK' /\ TurnInv'
<1> USE OffType, NothingType DEF world, attach, history, counts
<1>1. CASE EndClean
  <2>1. sync' \in SyncState
    BY <1>1 DEF EndClean, SyncState
  <2> QED BY <1>1, <2>1 DEF EndClean, TypeOK, TurnInv
<1>2. CASE EndInError \/ FinishOver
  <2>1. flush' \in FlushState
    BY <1>2 DEF EndInError, FinishOver, StartFlush, FlushState
  <2> QED BY <1>2, <2>1 DEF EndInError, FinishOver, StartFlush, TypeOK, TurnInv
<1>3. CASE LeaveFlush
  <2>1. flush' \in FlushState
    BY <1>3 DEF LeaveFlush, TypeOK, FlushState
  <2> QED BY <1>3, <2>1 DEF LeaveFlush, TypeOK, TurnInv
<1>4. CASE Dispose
  BY <1>4 DEF Dispose, TypeOK, TurnInv
<1> QED BY <1>1, <1>2, <1>3, <1>4 DEF Teardown

LEMMA TypeStep == TypeOK /\ TurnInv /\ [Next]_vars => TypeOK' /\ TurnInv'
<1> SUFFICES ASSUME TypeOK, TurnInv, [Next]_vars PROVE TypeOK' /\ TurnInv'
  OBVIOUS
<1>1. CASE UNCHANGED vars
  BY <1>1 DEF vars, TypeOK, TurnInv
<1>2. CASE Next
  BY <1>2, EnvironmentType, AnswerType, DeletedType, SyncPathType, SyncLoopType,
     RestoreType, FlushType, TeardownType DEF Next, SyncStep, FlushStep
<1> QED BY <1>1, <1>2

\* Every variable keeps its type: a sync never runs past its last path; and it
\* has no request on its way but for the path it has come to (#syncStore).
THEOREM TypeCorrect == Spec => [](TypeOK /\ TurnInv)
<1>1. Init => TypeOK /\ TurnInv
  BY InitFacts
<1> QED BY <1>1, TypeStep, PTL DEF Spec
-----------------------------------------------------------------------------
LEMMA EnvironmentSeen ==
    ASSUME TypeOK, SeenInv, Environment PROVE SeenInv'
<1> USE DEF TypeOK, SeenInv, SyncSeen, FlushSeen, CallSeen, Seen, attach, history, counts,
            AgentActs
<1>1. ASSUME NEW p \in Path, AgentWrites(p) PROVE SeenInv'
  BY <1>1 DEF AgentWrites
<1>2. ASSUME NEW p \in Path, AgentRemoves(p) \/ OtherWrites(p) PROVE SeenInv'
  BY <1>2 DEF AgentRemoves, OtherWrites
<1>3. CASE Wipe \/ Spoil
  BY <1>3, NothingType DEF Wipe, Spoil
<1> QED BY <1>1, <1>2, <1>3 DEF Environment

LEMMA SettledSeen ==
    ASSUME SeenInv, NEW listing, NEW p \in Path PROVE Settled(listing)[p] \in Seen(p)
BY DEF SeenInv, Settled

\* The shas a request leaves behind are those it was sent with.
LEMMA ConcludeSeen ==
    ASSUME TypeOK, SeenInv, NEW q \in {"sync", "flush"}, NEW p \in Path,
           NEW sha \in Seen(p), NEW saved \in BOOLEAN, Conclude(q, p, sha, saved),
           UNCHANGED shown
    PROVE  \A r \in Path :
              /\ baseline'[r] \in Seen(r)' /\ SyncSeen(r)' /\ FlushSeen(r)'
              /\ \A k \in {"sync", "flush"} : CallSeen(k, r)'
<1> SUFFICES ASSUME NEW r \in Path
             PROVE  /\ baseline'[r] \in Seen(r)' /\ SyncSeen(r)' /\ FlushSeen(r)'
                    /\ \A k \in {"sync", "flush"} : CallSeen(k, r)'
  OBVIOUS
<1>1. \A k \in {"sync", "flush"} : CallSeen(k, r)'
  BY DEF Conclude, SeenInv, CallSeen, Seen, TypeOK
<1>2. CASE q = "sync"
  <2>1. /\ sync' = [sync EXCEPT !.at = @ + 1, !.base[p] = sha] /\ baseline' = baseline
        /\ flush' = flush
    BY <1>2 DEF Conclude, Advance
  <2>2. sync'.scan = sync.scan /\ sync'.base = [sync.base EXCEPT ![p] = sha]
    BY <2>1 DEF TypeOK, SyncState
  <2> QED BY <1>1, <2>1, <2>2 DEF SeenInv, SyncSeen, FlushSeen, Seen, TypeOK, SyncState
<1>3. CASE q = "flush"
  <2>1. /\ sync' = sync /\ baseline' \in {baseline, [baseline EXCEPT ![p] = sha]}
        /\ flush' = [flush EXCEPT !.clean = @ /\ faults' = faults]
    BY <1>3 DEF Conclude
  <2>2. /\ flush'.scan = flush.scan /\ flush'.todo = flush.todo /\ flush'.pc = flush.pc
        /\ flush'.listed = flush.listed
    BY <2>1 DEF TypeOK, FlushState
  <2> QED BY <1>1, <2>1, <2>2 DEF SeenInv, SyncSeen, FlushSeen, Seen, TypeOK
<1> QED BY <1>2, <1>3

LEMMA AnswerSeen ==
    ASSUME TypeOK, SeenInv, NEW q \in {"sync", "flush"}, NEW p \in Path,
           Lands(q, p) \/ Answer(q, p)
    PROVE  SeenInv'
<1> USE DEF world, history
<1>1. CASE Lands(q, p)
  <2>1. call[q][p] \in Request
    BY <1>1, RequestType DEF Lands
  <2>2. \A r \in Path, k \in {"sync", "flush"} : CallSeen(k, r)'
    BY <1>1, <2>1 DEF Lands, SeenInv, CallSeen, Seen, TypeOK, Request
  <2> QED BY <1>1, <2>2 DEF Lands, SeenInv, SyncSeen, FlushSeen, Seen, attach
<1>2. CASE Saved(q, p)
  <2>1. call[q][p].content \in Seen(p) /\ Conclude(q, p, call[q][p].content, TRUE)
    BY <1>2 DEF Saved, SeenInv, CallSeen
  <2>2. UNCHANGED <<disk, shown>> /\ sent' = [sent EXCEPT ![p] = Absent]
    BY <1>2 DEF Saved
  <2> QED BY <2>1, <2>2, ConcludeSeen DEF SeenInv, Seen, TypeOK
<1>3. CASE Unheard(q, p) \/ Rejected(q, p) \/ Conflicts(q, p)
  <2>1. call[q][p].keep \in Seen(p) /\ Conclude(q, p, call[q][p].keep, FALSE)
    BY <1>3 DEF Unheard, Rejected, Conflicts, SeenInv, CallSeen
  <2>2. UNCHANGED <<disk, shown, sent>>
    BY <1>3 DEF Unheard, Rejected, Conflicts
  <2> QED BY <2>1, <2>2, ConcludeSeen DEF SeenInv, Seen
<1>4. CASE UpdateFindsNone(q, p) /\ disk[p] = Absent
  <2>1. call[q][p].keep \in Seen(p) /\ Conclude(q, p, call[q][p].keep, FALSE)
    BY <1>4 DEF UpdateFindsNone, SeenInv, CallSeen
  <2>2. UNCHANGED <<disk, shown, sent>>
    BY <1>4 DEF UpdateFindsNone
  <2> QED BY <2>1, <2>2, ConcludeSeen DEF SeenInv, Seen
<1>5. CASE UpdateFindsNone(q, p) /\ disk[p] # Absent
  <2>1. /\ UNCHANGED <<disk, shown, baseline, sync, flush>>
        /\ Upload(q, p, Absent, call[q][p].keep, call[q][p].local)
    BY <1>5 DEF UpdateFindsNone
  <2>2. call[q][p].keep \in Seen(p)
    BY <1>5 DEF UpdateFindsNone, SeenInv, CallSeen
  <2> QED BY <2>1, <2>2 DEF Upload, SeenInv, SyncSeen, FlushSeen, CallSeen, Seen, TypeOK
<1> QED BY <1>1, <1>2, <1>3, <1>4, <1>5 DEF Answer

LEMMA DeletedSeen ==
    ASSUME TypeOK, SeenInv, NEW p \in Path, Deleted(p) PROVE SeenInv'
<1>1. Absent \in Seen(p) /\ Conclude("sync", p, Absent, FALSE)
      /\ UNCHANGED <<disk, shown, sent>>
  BY DEF Deleted, Seen, world, history
<1> QED BY <1>1, ConcludeSeen DEF SeenInv, Seen

LEMMA NoteSeen ==
    ASSUME TypeOK, SeenInv, NEW p \in Path, NEW sha \in Seen(p), Note(p, sha)
    PROVE  SeenInv'
<1>1. sync'.scan = sync.scan /\ sync'.base = [sync.base EXCEPT ![p] = sha]
  BY DEF Note, Advance, TypeOK, SyncState
<1> QED BY <1>1 DEF Note, SeenInv, SyncSeen, FlushSeen, CallSeen, Seen, TypeOK, SyncState,
                    world, history

LEMMA PushSeen ==
    ASSUME TypeOK, SeenInv, NEW p \in Path, NEW over \in Seen(p), NEW local, Push(p, over, local)
    PROVE  SeenInv'
<1> USE DEF SeenInv, SyncSeen, FlushSeen, CallSeen, Seen, world, history
<1>1. CASE disk[p] = Absent
  <2>1. Advance(p, over) /\ UNCHANGED <<sent, call>>
    BY <1>1 DEF Push
  <2>2. sync'.scan = sync.scan /\ sync'.base = [sync.base EXCEPT ![p] = over]
    BY <2>1 DEF Advance, TypeOK, SyncState
  <2> QED BY <2>1, <2>2 DEF Push, TypeOK, SyncState
<1>2. CASE disk[p] # Absent
  <2>1. Upload("sync", p, over, over, local) /\ UNCHANGED sync
    BY <1>2 DEF Push
  <2> QED BY <2>1 DEF Push, Upload, TypeOK
<1> QED BY <1>1, <1>2

LEMMA SyncPathSeen ==
    ASSUME TypeOK, SeenInv, NEW p \in Path, SyncPath(p) PROVE SeenInv'
<1> DEFINE Frame == /\ sync'.scan = sync.scan
                    /\ \A r \in Path : sync'.base[r] \in Seen(r)
                    /\ UNCHANGED <<baseline, sent, flush, shown>>
<1>1. /\ Absent \in Seen(p) /\ sync.scan[p] \in Seen(p) /\ baseline[p] \in Seen(p)
      /\ disk[p] \in Seen(p)
  BY DEF SeenInv, SyncSeen, Seen
<1>2. ASSUME Frame, UNCHANGED <<disk, call>> PROVE SeenInv'
  BY <1>2 DEF SeenInv, SyncSeen, FlushSeen, CallSeen, Seen
<1>3. CASE HoldDelete(p)
  <2>1. UNCHANGED <<baseline, sent, flush, shown, disk, call>>
    BY <1>3 DEF HoldDelete, world, history
  <2> DEFINE used == IF store.deletes = "log_only" /\ MayDelete(p)
                     THEN sync.used + 1 ELSE sync.used
  <2>2. sync' = [sync EXCEPT !.at = @ + 1, !.base[p] = baseline[p], !.used = used]
    BY <1>3 DEF HoldDelete
  <2> HIDE DEF used
  <2>3. sync'.scan = sync.scan /\ sync'.base = [sync.base EXCEPT ![p] = baseline[p]]
    BY <2>2 DEF TypeOK, SyncState
  <2> QED BY <1>1, <1>2, <2>1, <2>3 DEF SeenInv, SyncSeen, TypeOK, SyncState
<1>4. CASE SendDelete(p)
  <2>1. sync'.scan = sync.scan /\ sync'.base = sync.base
    BY <1>4 DEF SendDelete, TypeOK, SyncState
  <2> QED BY <1>1, <1>4, <2>1 DEF SendDelete, world, history, SeenInv, SyncSeen, FlushSeen,
                                  CallSeen, Seen, TypeOK
<1>5. CASE Forget(p)
  BY <1>1, <1>5, NoteSeen DEF Forget
<1>6. ASSUME NEW sha, Create(p, sha) PROVE SeenInv'
  BY <1>1, <1>6, NoteSeen, PushSeen DEF Create
<1>7. CASE PushNew(p)
  BY <1>6, <1>7 DEF PushNew
<1>8. CASE CompareDeleted(p)
  <2>1. CASE Fresh(p) = Absent
    BY <1>1, <1>8, <2>1, NoteSeen DEF CompareDeleted
  <2>2. CASE Fresh(p) # Absent /\ Fresh(p) = baseline[p]
    <3>1. /\ sync' = [sync EXCEPT !.pc = "unlink"]
          /\ UNCHANGED <<baseline, sent, flush, shown, disk, call>>
      BY <1>8, <2>2 DEF CompareDeleted, world, history
    <3>2. sync'.scan = sync.scan /\ sync'.base = sync.base
      BY <3>1 DEF TypeOK, SyncState
    <3> QED BY <1>2, <3>1, <3>2 DEF SeenInv, SyncSeen
  <2>3. CASE Fresh(p) # Absent /\ Fresh(p) # baseline[p]
    BY <1>6, <1>8, <2>3 DEF CompareDeleted
  <2> QED BY <2>1, <2>2, <2>3
<1>9. CASE Unlink(p)
  <2>1. sync'.scan = sync.scan /\ sync'.base = sync.base
    BY <1>9 DEF Unlink, TypeOK, SyncState
  <2> QED BY <1>9, <2>1 DEF Unlink, attach, history, SeenInv, SyncSeen, FlushSeen, CallSeen,
                            Seen, TypeOK
<1>10. CASE TakeRemote(p)
  <2>1. /\ sync'.scan = sync.scan /\ sync'.base = [sync.base EXCEPT ![p] = baseline[p]]
        /\ UNCHANGED <<baseline, sent, flush, shown, disk, call>>
    BY <1>10 DEF TakeRemote, TypeOK, SyncState, world, history
  <2> QED BY <1>1, <1>2, <2>1 DEF SeenInv, SyncSeen, TypeOK, SyncState
<1>11. CASE Adopt(p)
  BY <1>1, <1>11, NoteSeen DEF Adopt
<1>12. CASE PushEdit(p)
  <2>1. sync.listed[p] = baseline[p]
    BY <1>12 DEF PushEdit, RemoteChanged
  <2> QED BY <1>1, <1>12, <2>1, NoteSeen, PushSeen DEF PushEdit
<1>13. CASE Unchanged(p)
  BY <1>1, <1>13, NoteSeen DEF Unchanged, RemoteChanged
<1> QED BY <1>3, <1>4, <1>5, <1>7, <1>8, <1>9, <1>10, <1>11, <1>12, <1>13 DEF SyncPath

LEMMA PutSeen ==
    ASSUME TypeOK, SeenInv, NEW p \in Path, NEW c \in Content, Put(p, c)
    PROVE  \A r \in Path : /\ Seen(r) \subseteq Seen(r)'
                           /\ disk'[r] \in Seen(r)' /\ baseline'[r] \in Seen(r)'
BY DEF Put, SeenInv, Seen, TypeOK

LEMMA SyncLoopSeen ==
    ASSUME TypeOK, SeenInv,
           \/ Scan \/ List \/ ListFails \/ EndPaths \/ EndSync \/ StartSync
           \/ \E p \in Path : Pull(p) \/ PullFindsNone(p) \/ PullFails(p) \/ WindowPasses(p)
    PROVE  SeenInv'
<1> USE NothingType DEF world, attach, history, counts
<1>0. Off.scan = Nothing /\ Off.base = Nothing
  BY DEF Off
<1>1. ASSUME UNCHANGED <<disk, baseline, sent, flush, shown, call>>,
             \A p \in Path : sync'.scan[p] \in Seen(p) /\ sync'.base[p] \in Seen(p)
      PROVE  SeenInv'
  BY <1>1 DEF SeenInv, SyncSeen, FlushSeen, CallSeen, Seen
<1>2. CASE Scan
  <2>1. \A p \in Path : sync'.scan[p] \in Seen(p) /\ sync'.base[p] \in Seen(p)
    <3>1. sync' \in {Off, [sync EXCEPT !.pc = "stamp"],
                     [sync EXCEPT !.pc = "list", !.scan = disk]}
      BY <1>2 DEF Scan
    <3> QED BY <1>0, <3>1 DEF SeenInv, SyncSeen, Seen, TypeOK, SyncState
  <2> QED BY <1>1, <1>2, <2>1 DEF Scan
<1>3. CASE List
  <2>1. \A p \in Path : sync'.scan[p] \in Seen(p) /\ sync'.base[p] \in Seen(p)
    BY <1>3 DEF List, SeenInv, SyncSeen, Seen, TypeOK, SyncState
  <2>2. \A p \in Path : baseline'[p] \in Seen(p) /\ sent'[p] \in Seen(p)
    BY <1>3, SettledSeen DEF List, Seen
  <2> QED BY <1>3, <2>1, <2>2 DEF List, SeenInv, SyncSeen, FlushSeen, CallSeen, Seen
<1>4. CASE ListFails \/ EndSync \/ StartSync
  <2>1. sync' \in {Off, [Off EXCEPT !.pc = "scan"]}
    BY <1>4 DEF ListFails, EndSync, StartSync
  <2>2. \A p \in Path : sync'.scan[p] \in Seen(p) /\ sync'.base[p] \in Seen(p)
    BY <2>1 DEF Off, Seen
  <2> QED BY <1>1, <1>4, <2>2 DEF ListFails, EndSync, StartSync
<1>5. CASE EndPaths
  <2>1. \A p \in Path : sync'.scan[p] \in Seen(p) /\ sync'.base[p] \in Seen(p)
    BY <1>5 DEF EndPaths, Off, Seen
  <2> QED BY <1>5, <2>1 DEF EndPaths, SeenInv, SyncSeen, FlushSeen, CallSeen, Seen
<1>6. ASSUME NEW p \in Path, PullFindsNone(p) \/ PullFails(p) PROVE SeenInv'
  <2>1. sync'.scan = sync.scan /\ sync'.base = sync.base
    BY <1>6 DEF PullFindsNone, PullFails, TypeOK, SyncState
  <2> QED BY <1>1, <1>6, <2>1 DEF PullFindsNone, PullFails, PullBase, SeenInv, SyncSeen
<1>7. ASSUME NEW p \in Path, Pull(p) PROVE SeenInv'
  <2>1. sync'.scan = sync.scan /\ sync'.base = sync.base
    BY <1>7 DEF Pull, TypeOK, SyncState
  <2>2. remote[p] \in Content /\ Put(p, remote[p])
    BY <1>7 DEF Pull, TypeOK, File
  <2> QED BY <1>7, <2>1, <2>2, PutSeen DEF Pull, SeenInv, SyncSeen, FlushSeen, CallSeen
<1>8. ASSUME NEW p \in Path, WindowPasses(p) PROVE SeenInv'
  BY <1>1, <1>8 DEF WindowPasses, SeenInv, SyncSeen
<1> QED BY <1>2, <1>3, <1>4, <1>5, <1>6, <1>7, <1>8

LEMMA RestoreSeen ==
    ASSUME TypeOK, SeenInv,
           Stamp \/ EndRestore \/ RestoreFails \/ \E p \in Path : Restore(p)
    PROVE  SeenInv'
<1> USE NothingType DEF history, counts, attach, world
<1>1. CASE Stamp
  <2>1. sync'.scan = sync.scan /\ sync'.base = sync.base
    BY <1>1 DEF Stamp, TypeOK, SyncState
  <2> QED BY <1>1, <2>1 DEF Stamp, SeenInv, SyncSeen, FlushSeen, CallSeen, Seen
<1>2. CASE EndRestore \/ RestoreFails
  <2>1. sync'.scan = Nothing /\ sync'.base = Nothing
    BY <1>2 DEF EndRestore, RestoreFails, Off
  <2>2. disk' \in {disk, Nothing}
    BY <1>2 DEF EndRestore, RestoreFails
  <2> QED BY <1>2, <2>1, <2>2 DEF EndRestore, RestoreFails, SeenInv, SyncSeen, FlushSeen,
                                  CallSeen, Seen
<1>3. ASSUME NEW p \in Path, Restore(p) PROVE SeenInv'
  <2>1. sync'.scan = sync.scan /\ sync'.base = sync.base
    BY <1>3 DEF Restore, TypeOK, SyncState
  <2>2. CASE remote[p] = Absent
    BY <1>3, <2>1, <2>2 DEF Restore, SeenInv, SyncSeen, FlushSeen, CallSeen, Seen
  <2>3. CASE remote[p] # Absent
    <3>1. remote[p] \in Content /\ Put(p, remote[p])
      BY <1>3, <2>3 DEF Restore, TypeOK, File
    <3> QED BY <1>3, <2>1, <3>1, PutSeen DEF Restore, SeenInv, SyncSeen, FlushSeen, CallSeen
  <2> QED BY <2>2, <2>3
<1> QED BY <1>1, <1>2, <1>3

LEMMA FlushKeepsSeen ==
    ASSUME TypeOK, SeenInv,
           FlushScan \/ FlushList \/ FlushFails \/ FlushDone \/ \E p \in Path : FlushSend(p)
    PROVE  SeenInv'
<1> USE DEF world, attach, history, counts
<1>1. ASSUME UNCHANGED <<disk, baseline, sent, sync, shown, call>>,
             \A p \in Path : FlushSeen(p)'
      PROVE  SeenInv'
  BY <1>1 DEF SeenInv, SyncSeen, CallSeen, Seen
<1>2. CASE FlushScan
  <2>1. /\ flush'.pc # "send"
        /\ flush'.scan \in {flush.scan, disk}
    BY <1>2 DEF FlushScan, TypeOK, FlushState
  <2>2. \A p \in Path : FlushSeen(p)'
    BY <1>2, <2>1 DEF FlushScan, SeenInv, FlushSeen, Seen
  <2> QED BY <1>1, <1>2, <2>2 DEF FlushScan
<1>3. CASE FlushList
  <2> DEFINE base    == Settled(remote)
             changed == {p \in flush.todo : flush.scan[p] # base[p]}
             held    == {p \in changed : remote[p] = flush.scan[p]}
             ahead   == {p \in changed : remote[p] \notin {Absent, base[p]}}
  <2>1. \A p \in Path : base[p] \in Seen(p) /\ flush.scan[p] \in Seen(p)
    BY SettledSeen DEF SeenInv, FlushSeen
  <2>2. /\ baseline' = [p \in Path |-> IF p \in held THEN remote[p] ELSE base[p]]
        /\ flush' = [flush EXCEPT !.pc = "send", !.listed = remote,
                                  !.todo = (changed \ held) \ ahead]
    BY <1>3 DEF FlushList
  <2>3. /\ flush'.scan = flush.scan /\ flush'.listed = remote
        /\ flush'.todo = (changed \ held) \ ahead
    BY <2>2 DEF TypeOK, FlushState
  <2>4. UNCHANGED <<disk, sync, shown, call>> /\ sent' = Nothing
    BY <1>3 DEF FlushList
  <2>5. \A p \in held : p \in Path => remote[p] \in Seen(p)
    BY <2>1
  <2>6. \A p \in flush'.todo : p \in Path => remote[p] \in Seen(p)
    BY <2>1, <2>3 DEF Seen
  <2> HIDE DEF base, changed, held, ahead
  <2>7. \A p \in Path : baseline'[p] \in Seen(p)' /\ FlushSeen(p)'
    BY <2>1, <2>2, <2>3, <2>4, <2>5, <2>6 DEF FlushSeen, Seen
  <2> QED BY <2>4, <2>7, NothingType DEF SeenInv, SyncSeen, CallSeen, Seen
<1>4. CASE FlushFails \/ FlushDone
  <2>1. flush'.pc # "send" /\ flush'.scan = flush.scan
    BY <1>4 DEF FlushFails, FlushDone, TypeOK, FlushState
  <2>2. \A p \in Path : FlushSeen(p)'
    BY <1>4, <2>1 DEF FlushFails, FlushDone, SeenInv, FlushSeen, Seen
  <2> QED BY <1>1, <1>4, <2>2 DEF FlushFails, FlushDone
<1>5. ASSUME NEW p \in Path, FlushSend(p) PROVE SeenInv'
  <2>1. /\ flush'.scan = flush.scan /\ flush'.pc = flush.pc /\ flush'.listed = flush.listed
        /\ flush'.todo \subseteq flush.todo /\ flush.listed[p] \in Seen(p)
        /\ UNCHANGED <<disk, baseline, sync, shown>>
    BY <1>5 DEF FlushSend, TypeOK, FlushState, SeenInv, FlushSeen
  <2>2. \A r \in Path : FlushSeen(r)'
    BY <2>1 DEF SeenInv, FlushSeen, Seen
  <2>3. CASE disk[p] = Absent
    BY <1>1, <1>5, <2>1, <2>2, <2>3 DEF FlushSend
  <2>4. CASE disk[p] # Absent
    <3>1. Upload("flush", p, flush.listed[p], Absent, flush.scan[p])
      BY <1>5, <2>4 DEF FlushSend
    <3> QED BY <2>1, <2>2, <3>1 DEF Upload, SeenInv, SyncSeen, CallSeen, Seen, TypeOK
  <2> QED BY <2>3, <2>4
<1> QED BY <1>2, <1>3, <1>4, <1>5

LEMMA TeardownSeen ==
    ASSUME TypeOK, SeenInv, Teardown PROVE SeenInv'
<1> USE NothingType DEF world, attach, history, counts
<1>1. CASE EndClean
  <2>1. sync'.scan = Nothing /\ sync'.base = Nothing
    BY <1>1 DEF EndClean, Off
  <2> QED BY <1>1, <2>1 DEF EndClean, SeenInv, SyncSeen, FlushSeen, CallSeen, Seen
<1>2. CASE EndInError \/ FinishOver
  <2>1. flush'.scan = Nothing /\ flush'.todo = {}
    BY <1>2 DEF EndInError, FinishOver, StartFlush, NoFlush
  <2> QED BY <1>2, <2>1 DEF EndInError, FinishOver, StartFlush, SeenInv, SyncSeen, FlushSeen,
                            CallSeen, Seen
<1>3. CASE LeaveFlush
  <2>1. flush' = flush \/ (flush'.scan = Nothing /\ flush'.todo = {})
    BY <1>3 DEF LeaveFlush, NoFlush
  <2> QED BY <1>3, <2>1 DEF LeaveFlush, SeenInv, SyncSeen, FlushSeen, CallSeen, Seen
<1>4. CASE Dispose
  <2>1. disk' \in {disk, Nothing}
    BY <1>4 DEF Dispose
  <2> QED BY <1>4, <2>1 DEF Dispose, SeenInv, SyncSeen, FlushSeen, CallSeen, Seen
<1> QED BY <1>1, <1>2, <1>3, <1>4 DEF Teardown

LEMMA SeenStep == TypeOK /\ SeenInv /\ [Next]_vars => SeenInv'
<1> SUFFICES ASSUME TypeOK, SeenInv, [Next]_vars PROVE SeenInv'
  OBVIOUS
<1>1. CASE UNCHANGED vars
  BY <1>1 DEF vars, SeenInv, SyncSeen, FlushSeen, CallSeen, Seen
<1>2. CASE Next
  BY <1>2, EnvironmentSeen, AnswerSeen, DeletedSeen, SyncPathSeen, SyncLoopSeen,
     RestoreSeen, FlushKeepsSeen, TeardownSeen DEF Next, SyncStep, FlushStep
<1> QED BY <1>1, <1>2

-----------------------------------------------------------------------------
\* Only a request that lands and another writer change the server.
LEMMA WhoChanges ==
    ASSUME [Next]_vars, NEW p \in Path, remote'[p] # remote[p], TypeOK
    PROVE  (\E q \in {"sync", "flush"}, r \in Path : Lands(q, r)) \/ writer'[p] = "them"
<1>1. Next
  BY DEF vars
<1>2. ASSUME NEW r \in Path, OtherWrites(r) PROVE writer'[p] = "them"
  <2>1. r = p
    BY <1>2 DEF OtherWrites, TypeOK
  <2> QED BY <1>2, <2>1 DEF OtherWrites, TypeOK
<1>3. UNCHANGED remote \/ (\E q \in {"sync", "flush"}, r \in Path : Lands(q, r))
      \/ (\E r \in Path : OtherWrites(r))
  <2> USE DEF world
  <2>1. CASE StartSync \/ Teardown
    BY <2>1 DEF StartSync, Teardown, EndClean, EndInError, FinishOver, StartFlush,
                LeaveFlush, Dispose
  <2>2. CASE Environment
    BY <2>2 DEF Environment, Wipe, Spoil, AgentWrites, AgentRemoves
  <2>3. ASSUME NEW q \in {"sync", "flush"}, NEW r \in Path, Answer(q, r)
        PROVE  UNCHANGED remote
    BY <2>3 DEF Answer, Saved, Unheard, Rejected, UpdateFindsNone, Conflicts
  <2>4. ASSUME NEW r \in Path, SyncPath(r) PROVE UNCHANGED remote
    BY <2>4 DEF SyncPath, HoldDelete, SendDelete, Forget, PushNew, CompareDeleted, Unlink,
                TakeRemote, Adopt, PushEdit, Unchanged, Create, Note, Push
  <2>5. ASSUME NEW r \in Path,
               \/ Pull(r) \/ PullFindsNone(r) \/ PullFails(r) \/ Restore(r) \/ Deleted(r)
               \/ WindowPasses(r)
        PROVE  UNCHANGED remote
    BY <2>5 DEF Pull, PullFindsNone, PullFails, Restore, Deleted, WindowPasses
  <2>6. CASE Scan \/ List \/ ListFails \/ EndPaths \/ EndSync \/ Stamp \/ EndRestore
             \/ RestoreFails
    BY <2>6 DEF Scan, List, ListFails, EndPaths, EndSync, Stamp, EndRestore, RestoreFails
  <2>7. CASE FlushScan \/ FlushList \/ FlushFails \/ FlushDone
    BY <2>7 DEF FlushScan, FlushList, FlushFails, FlushDone
  <2>8. ASSUME NEW r \in Path, FlushSend(r) PROVE UNCHANGED remote
    BY <2>8 DEF FlushSend
  <2> QED BY <1>1, <2>1, <2>2, <2>3, <2>4, <2>5, <2>6, <2>7, <2>8
          DEF Next, SyncStep, FlushStep, Environment
<1> QED BY <1>2, <1>3

\* What this client replaces or deletes on the server has been in the agent's
\* folder: an update and a delete carry the sha of a recorded content as their
\* precondition, and a create replaces nothing (#upload, #deleteRemote).
THEOREM NothingUnseenIsReplaced == Spec => NoForeignLoss
<1> DEFINE Foreign == \A p \in Path :
                         /\ remote'[p] # remote[p] /\ writer'[p] = "us"
                         => remote[p] \in shown[p] \union {Absent}
<1>1. ASSUME TypeOK, SeenInv, [Next]_vars PROVE Foreign
  <2> SUFFICES ASSUME NEW p \in Path, remote'[p] # remote[p], writer'[p] = "us"
               PROVE  remote[p] \in shown[p] \union {Absent}
    OBVIOUS
  <2>1. PICK q \in {"sync", "flush"}, r \in Path : Lands(q, r)
    BY <1>1, WhoChanges
  <2>2. r = p
    BY <1>1, <2>1 DEF Lands, TypeOK
  <2> QED BY <1>1, <2>1, <2>2 DEF Lands, SeenInv, CallSeen, Seen
<1>2. Init => TypeOK /\ TurnInv /\ SeenInv
  BY InitFacts
<1>3. TypeOK /\ TurnInv /\ SeenInv /\ [Next]_vars => TypeOK' /\ TurnInv' /\ SeenInv'
  BY TypeStep, SeenStep
<1>4. TypeOK /\ SeenInv /\ [Next]_vars => [Foreign]_vars
  BY <1>1
<1> QED BY <1>2, <1>3, <1>4, PTL DEF Spec, NoForeignLoss

-----------------------------------------------------------------------------
(* How the store is attached.                                               *)

\* Nothing is sent for a read-only store, nor a delete where deletes are not enabled.
HonourInv ==
    /\ flush.pc \in {"scan", "list", "send"} => ~store.readOnly
    /\ \A q \in {"sync", "flush"}, p \in Path :
         call[q][p] # NoRequest =>
             ~store.readOnly /\ (call[q][p].content = Absent => store.deletes = "enabled")

LEMMA SameHonour ==
    ASSUME HonourInv, UNCHANGED <<store, call>>,
           flush'.pc = flush.pc \/ flush'.pc \notin {"scan", "list", "send"}
    PROVE  HonourInv'
BY DEF HonourInv

LEMMA ConcludeHonour ==
    ASSUME TypeOK, HonourInv, store' = store, NEW q \in {"sync", "flush"}, NEW p \in Path,
           NEW sha, NEW saved, Conclude(q, p, sha, saved)
    PROVE  HonourInv'
<1>1. flush'.pc = flush.pc
  BY DEF Conclude, TypeOK, FlushState
<1>2. \A r \in {"sync", "flush"}, t \in Path :
        call'[r][t] # NoRequest => call'[r][t] = call[r][t]
  BY DEF Conclude, TypeOK
<1> QED BY <1>1, <1>2 DEF HonourInv

LEMMA UploadHonour ==
    ASSUME TypeOK, HonourInv, UNCHANGED <<store, disk>>, NEW q \in {"sync", "flush"},
           NEW p \in Path, NEW over, NEW keep, NEW local, Upload(q, p, over, keep, local),
           disk[p] # Absent, ~store.readOnly, flush'.pc = flush.pc
    PROVE  HonourInv'
<1>1. \A r \in {"sync", "flush"}, t \in Path :
        \/ call'[r][t] = call[r][t]
        \/ call'[r][t].content = disk[p]
  BY DEF Upload, TypeOK
<1> QED BY <1>1 DEF HonourInv

LEMMA AnswerHonour ==
    ASSUME TypeOK, HonourInv, NEW q \in {"sync", "flush"}, NEW p \in Path,
           Lands(q, p) \/ Answer(q, p)
    PROVE  HonourInv'
<1>1. CASE Lands(q, p)
  <2>1. \A r \in {"sync", "flush"}, t \in Path :
          call'[r][t] # NoRequest =>
              call[r][t] # NoRequest /\ call'[r][t].content = call[r][t].content
    BY <1>1 DEF Lands, TypeOK, Request
  <2> QED BY <1>1, <2>1 DEF Lands, HonourInv
<1>2. CASE UpdateFindsNone(q, p) /\ disk[p] # Absent
  <2>1. /\ UNCHANGED <<store, disk, flush>> /\ ~store.readOnly
        /\ Upload(q, p, Absent, call[q][p].keep, call[q][p].local)
    BY <1>2 DEF UpdateFindsNone, world, HonourInv
  <2> QED BY <1>2, <2>1, UploadHonour
<1>3. CASE Answer(q, p) /\ ~(UpdateFindsNone(q, p) /\ disk[p] # Absent)
  <2>1. store' = store /\ \E sha, saved : Conclude(q, p, sha, saved)
    BY <1>3 DEF Answer, Saved, Unheard, Rejected, UpdateFindsNone, Conflicts
  <2> QED BY <2>1, ConcludeHonour
<1> QED BY <1>1, <1>2, <1>3 DEF Answer

LEMMA SyncPathHonour ==
    ASSUME TypeOK, HonourInv, NEW p \in Path, SyncPath(p) PROVE HonourInv'
<1>1. ASSUME NEW sha, Note(p, sha) PROVE HonourInv'
  BY <1>1, SameHonour DEF Note
<1>2. ASSUME NEW over, NEW local, Push(p, over, local), ~store.readOnly PROVE HonourInv'
  <2>1. UNCHANGED <<store, disk, flush>>
    BY <1>2 DEF Push, world
  <2> QED BY <1>2, <2>1, SameHonour, UploadHonour DEF Push
<1>3. ASSUME NEW sha, Create(p, sha) PROVE HonourInv'
  BY <1>1, <1>2, <1>3 DEF Create
<1>4. CASE SendDelete(p)
  <2>1. /\ store' = store /\ flush' = flush
        /\ ~store.readOnly /\ store.deletes = "enabled"
    BY <1>4 DEF SendDelete, LocallyDeleted
  <2> QED BY <2>1 DEF HonourInv
<1>5. CASE HoldDelete(p) \/ Unlink(p) \/ TakeRemote(p)
  BY <1>5, SameHonour DEF HoldDelete, Unlink, TakeRemote
<1>6. CASE CompareDeleted(p)
  <2>1. \/ \E sha : Note(p, sha) \/ Create(p, sha)
        \/ UNCHANGED <<store, call, flush>>
    BY <1>6 DEF CompareDeleted
  <2> QED BY <1>1, <1>3, <2>1, SameHonour
<1>7. CASE Forget(p) \/ PushNew(p) \/ Adopt(p) \/ PushEdit(p) \/ Unchanged(p)
  BY <1>1, <1>2, <1>3, <1>7 DEF Forget, PushNew, Adopt, PushEdit, Unchanged
<1> QED BY <1>4, <1>5, <1>6, <1>7 DEF SyncPath

LEMMA HonourStep == TypeOK /\ HonourInv /\ [Next]_vars => HonourInv'
<1> SUFFICES ASSUME TypeOK, HonourInv, [Next]_vars PROVE HonourInv'
  OBVIOUS
<1>1. CASE UNCHANGED vars
  BY <1>1, SameHonour DEF vars
<1>2. CASE Environment
  BY <1>2, SameHonour
     DEF Environment, Wipe, Spoil, AgentWrites, AgentRemoves, OtherWrites
<1>3. CASE \/ StartSync \/ Scan \/ List \/ ListFails \/ EndPaths \/ EndSync
           \/ Stamp \/ EndRestore \/ RestoreFails
  BY <1>3, SameHonour DEF StartSync, Scan, List, ListFails, EndPaths, EndSync, Stamp,
                          EndRestore, RestoreFails
<1>4. ASSUME NEW p \in Path,
             Pull(p) \/ PullFindsNone(p) \/ PullFails(p) \/ Restore(p) \/ WindowPasses(p)
      PROVE  HonourInv'
  BY <1>4, SameHonour DEF Pull, PullFindsNone, PullFails, Restore, WindowPasses
<1>5. ASSUME NEW p \in Path, Deleted(p) PROVE HonourInv'
  BY <1>5, ConcludeHonour DEF Deleted
<1>6. CASE FlushScan \/ FlushList \/ FlushFails \/ FlushDone
  <2>1. /\ UNCHANGED <<store, call>> /\ flush.pc \in {"scan", "list", "send"}
    BY <1>6 DEF FlushScan, FlushList, FlushFails, FlushDone
  <2> QED BY <2>1 DEF HonourInv
<1>7. ASSUME NEW p \in Path, FlushSend(p) PROVE HonourInv'
  <2>1. /\ UNCHANGED <<store, disk>> /\ flush'.pc = flush.pc /\ ~store.readOnly
    BY <1>7 DEF FlushSend, world, HonourInv, TypeOK, FlushState
  <2> QED BY <1>7, <2>1, SameHonour, UploadHonour DEF FlushSend
<1>8. CASE Teardown
  <2>1. UNCHANGED <<store, call>>
    BY <1>8 DEF Teardown, EndClean, EndInError, FinishOver, StartFlush, LeaveFlush, Dispose
  <2>2. \/ flush' = flush
        \/ flush'.pc = "cut"
        \/ flush'.pc = IF store.readOnly THEN "done" ELSE "scan"
    BY <1>8 DEF Teardown, EndClean, EndInError, FinishOver, StartFlush, LeaveFlush, Dispose,
                NoFlush
  <2> QED BY <2>1, <2>2 DEF HonourInv
<1> QED BY <1>1, <1>2, <1>3, <1>4, <1>5, <1>6, <1>7, <1>8, AnswerHonour, SyncPathHonour
        DEF Next, SyncStep, FlushStep

\* Whatever fails or races, the sync changes no read-only store, and deletes a memory
\* only where deletions are enabled.
THEOREM AttachmentIsHonoured == Spec => AttachmentHonoured
<1> DEFINE Honoured ==
        \A p \in Path :
          /\ remote'[p] # remote[p] /\ writer'[p] = "us" /\ others' = others
          => ~store.readOnly /\ (remote'[p] = Absent => store.deletes = "enabled")
<1>1. ASSUME TypeOK, HonourInv, [Next]_vars PROVE Honoured
  <2> SUFFICES ASSUME NEW p \in Path, remote'[p] # remote[p], writer'[p] = "us"
               PROVE  ~store.readOnly /\ (remote'[p] = Absent => store.deletes = "enabled")
    OBVIOUS
  <2>1. PICK q \in {"sync", "flush"}, r \in Path : Lands(q, r)
    BY <1>1, WhoChanges
  <2>2. r = p
    BY <1>1, <2>1 DEF Lands, TypeOK
  <2> QED BY <1>1, <2>1, <2>2 DEF Lands, HonourInv, TypeOK
<1>2. Init => TypeOK /\ TurnInv /\ HonourInv
  BY InitFacts DEF Init, HonourInv, NoFlush
<1>3. TypeOK /\ TurnInv /\ HonourInv /\ [Next]_vars => TypeOK' /\ TurnInv' /\ HonourInv'
  BY TypeStep, HonourStep
<1>4. TypeOK /\ HonourInv /\ [Next]_vars => [Honoured]_vars
  BY <1>1
<1> QED BY <1>2, <1>3, <1>4, PTL DEF Spec, AttachmentHonoured

-----------------------------------------------------------------------------
(* A folder that was wiped.                                                 *)

\* A pass that is over, and one that starts, have looked at nothing.
IdleInv == sync.pc \in {"off", "scan"} => sync.scan = Nothing /\ sync.base = Nothing

\* The flush is a matter of the teardown.
PhaseInv ==
    phase \in {"download", "session", "finish"} =>
        flush = NoFlush /\ \A p \in Path : call["flush"][p] = NoRequest

\* What the next pass that gets anywhere takes for a wiped folder.
Empty == disk = Nothing /\ Cardinality(Files(baseline)) > 1

\* The wiped folder has not been noticed yet, or is about to be rebuilt.  Files that
\* were written into it meanwhile are there only if its marker went, or a sync has
\* found it empty.
Unnoticed ==
    /\ \A p \in wiped : disk[p] = Absent
    /\ folder = "ours" /\ sync.pc # "stamp" => Empty
    /\ sync.pc = "list" => Empty /\ (phase = "session" => folder = "ours")
    /\ sync.pc = "stamp" /\ phase # "session" => disk = Nothing
    /\ sync.pc \in {"off", "scan", "list", "stamp"}
    /\ sync.scan = Nothing /\ sync.base = Nothing
    /\ flush.todo = {} /\ flush.pc \notin {"list", "send"}
    /\ \A q \in {"sync", "flush"}, p \in Path : call[q][p] = NoRequest

\* Nothing is known of the path but what the next listing will say.
Spared(p) ==
    /\ disk[p] = Absent /\ baseline[p] = Absent /\ sent[p] = Absent
    /\ sync.scan[p] = Absent /\ sync.base[p] = Absent
    /\ p \notin flush.todo
    /\ \A q \in {"sync", "flush"} : call[q][p] = NoRequest

WipedInv ==
    /\ IdleInv /\ PhaseInv
    /\ wiped = {} \/ Unnoticed \/ \A p \in wiped : Spared(p)

LEMMA SameSpared ==
    ASSUME NEW p \in Path, Spared(p), disk'[p] = disk[p], UNCHANGED <<call, sent>>,
           baseline'[p] \in {Absent, baseline[p]},
           sync'.scan[p] \in {Absent, sync.scan[p]}, sync'.base[p] \in {Absent, sync.base[p]},
           flush'.todo \subseteq flush.todo
    PROVE  Spared(p)'
BY DEF Spared

LEMMA EnvironmentSpares ==
    ASSUME TypeOK, NEW p \in Path, Spared(p), p \in wiped', Environment PROVE Spared(p)'
<1> USE NothingType DEF attach, history
<1>1. CASE Wipe \/ Spoil
  BY <1>1, SameSpared DEF Wipe, Spoil, Spared
<1>2. ASSUME NEW r \in Path, AgentWrites(r) PROVE Spared(p)'
  <2>1. r # p
    BY <1>2 DEF AgentWrites
  <2>2. disk'[p] = disk[p]
    BY <1>2, <2>1 DEF AgentWrites, TypeOK
  <2> QED BY <1>2, <2>2, SameSpared DEF AgentWrites
<1>3. ASSUME NEW r \in Path, AgentRemoves(r) PROVE Spared(p)'
  BY <1>3, SameSpared DEF AgentRemoves, Spared, TypeOK
<1>4. ASSUME NEW r \in Path, OtherWrites(r) PROVE Spared(p)'
  BY <1>4, SameSpared DEF OtherWrites
<1> QED BY <1>1, <1>2, <1>3, <1>4 DEF Environment

\* A request of another path ends, or is repeated as a create.
LEMMA ConcludeSpares ==
    ASSUME TypeOK, NEW p \in Path, Spared(p), NEW q \in {"sync", "flush"}, NEW r \in Path,
           r # p, NEW sha, NEW saved, Conclude(q, r, sha, saved),
           disk' = disk, sent'[p] = sent[p]
    PROVE  Spared(p)'
<1>1. \A t \in {"sync", "flush"} : call'[t][p] = call[t][p]
  BY DEF Conclude, TypeOK
<1>2. baseline'[p] = baseline[p] /\ flush'.todo = flush.todo
  BY DEF Conclude, TypeOK, FlushState
<1>3. sync'.scan[p] = sync.scan[p] /\ sync'.base[p] = sync.base[p]
  <2>1. CASE sync' = sync
    BY <2>1
  <2>2. CASE Advance(r, sha)
    BY <2>2 DEF Advance, TypeOK, SyncState
  <2> QED BY <2>1, <2>2 DEF Conclude
<1> QED BY <1>1, <1>2, <1>3 DEF Spared

LEMMA UploadSpares ==
    ASSUME TypeOK, NEW p \in Path, Spared(p), NEW q \in {"sync", "flush"}, NEW r \in Path,
           r # p, NEW over, NEW keep, NEW local, Upload(q, r, over, keep, local),
           UNCHANGED <<disk, baseline, sync>>, flush'.todo \subseteq flush.todo
    PROVE  Spared(p)'
<1>1. sent'[p] = sent[p] /\ \A t \in {"sync", "flush"} : call'[t][p] = call[t][p]
  BY DEF Upload, TypeOK
<1> QED BY <1>1 DEF Spared

LEMMA AnswerSpares ==
    ASSUME TypeOK, NEW p \in Path, Spared(p), NEW q \in {"sync", "flush"}, NEW r \in Path,
           Lands(q, r) \/ Answer(q, r) \/ (q = "sync" /\ Deleted(r))
    PROVE  Spared(p)'
<1>1. call[q][r] # NoRequest
  BY DEF Lands, Answer, Saved, Unheard, Rejected, UpdateFindsNone, Conflicts, Deleted
<1>2. r # p
  BY <1>1 DEF Spared
<1>3. CASE Lands(q, r)
  <2>1. \A t \in {"sync", "flush"} : call'[t][p] = call[t][p]
    BY <1>2, <1>3 DEF Lands, TypeOK
  <2> QED BY <1>3, <2>1 DEF Lands, Spared, attach
<1>4. CASE UpdateFindsNone(q, r) /\ disk[r] # Absent
  <2>1. /\ UNCHANGED <<disk, baseline, sync, flush>>
        /\ Upload(q, r, Absent, call[q][r].keep, call[q][r].local)
    BY <1>4 DEF UpdateFindsNone, world
  <2> QED BY <1>2, <2>1, UploadSpares
<1>5. CASE /\ Answer(q, r) \/ (q = "sync" /\ Deleted(r))
           /\ ~(UpdateFindsNone(q, r) /\ disk[r] # Absent)
  <2>1. disk' = disk /\ \E sha, saved : Conclude(q, r, sha, saved)
    BY <1>5 DEF Answer, Saved, Unheard, Rejected, UpdateFindsNone, Conflicts, Deleted, world
  <2>2. sent'[p] = sent[p]
    BY <1>2, <1>5 DEF Answer, Saved, Unheard, Rejected, UpdateFindsNone, Conflicts, Deleted,
                      TypeOK
  <2> QED BY <1>2, <2>1, <2>2, ConcludeSpares
<1> QED BY <1>3, <1>4, <1>5 DEF Answer

LEMMA SyncPathSpares ==
    ASSUME TypeOK, NEW p \in Path, Spared(p), NEW r \in Path, SyncPath(r) PROVE Spared(p)'
<1>1. ASSUME NEW sha, Note(r, sha), r = p => sha = Absent PROVE Spared(p)'
  <2>1. sync'.scan = sync.scan /\ sync'.base[p] \in {Absent, sync.base[p]}
    BY <1>1 DEF Note, Advance, TypeOK, SyncState
  <2> QED BY <1>1, <2>1, SameSpared DEF Note, world
<1>2. ASSUME NEW over, NEW local, Push(r, over, local), r # p PROVE Spared(p)'
  <2>1. UNCHANGED <<disk, baseline, flush>>
    BY <1>2 DEF Push, world
  <2>2. CASE disk[r] = Absent
    <3>1. sync' = [sync EXCEPT !.at = @ + 1, !.base[r] = over] /\ UNCHANGED <<sent, call>>
      BY <1>2, <2>2 DEF Push, Advance
    <3>2. sync'.scan = sync.scan /\ sync'.base = [sync.base EXCEPT ![r] = over]
      BY <3>1 DEF TypeOK, SyncState
    <3>3. sync'.base[p] = sync.base[p]
      BY <1>2, <3>2 DEF TypeOK, SyncState
    <3> QED BY <2>1, <3>1, <3>2, <3>3, SameSpared
  <2> QED BY <1>2, <2>1, <2>2, UploadSpares DEF Push
<1>3. ASSUME NEW sha, Create(r, sha), r # p PROVE Spared(p)'
  BY <1>1, <1>2, <1>3 DEF Create
<1>4. CASE HoldDelete(r)
  <2>1. r # p
    BY <1>4 DEF HoldDelete, LocallyDeleted, Spared
  <2> DEFINE used == IF store.deletes = "log_only" /\ MayDelete(r)
                     THEN sync.used + 1 ELSE sync.used
  <2>2. sync' = [sync EXCEPT !.at = @ + 1, !.base[r] = baseline[r], !.used = used]
    BY <1>4 DEF HoldDelete
  <2> HIDE DEF used
  <2>3. sync'.scan = sync.scan /\ sync'.base = [sync.base EXCEPT ![r] = baseline[r]]
    BY <2>2 DEF TypeOK, SyncState
  <2>4. sync'.base[p] = sync.base[p]
    BY <2>1, <2>3 DEF TypeOK, SyncState
  <2> QED BY <1>4, <2>3, <2>4, SameSpared DEF HoldDelete, world
<1>5. CASE SendDelete(r)
  <2>1. r # p
    BY <1>5 DEF SendDelete, LocallyDeleted, Spared
  <2>2. sync'.scan = sync.scan /\ sync'.base = sync.base
    BY <1>5 DEF SendDelete, TypeOK, SyncState
  <2>3. \A t \in {"sync", "flush"} : call'[t][p] = call[t][p]
    BY <1>5, <2>1 DEF SendDelete, TypeOK
  <2> QED BY <1>5, <2>2, <2>3 DEF SendDelete, Spared, world
<1>6. CASE Unlink(r)
  <2>1. sync'.scan = sync.scan /\ sync'.base = sync.base /\ disk'[p] = disk[p]
    BY <1>6 DEF Unlink, TypeOK, SyncState, Spared
  <2> QED BY <1>6, <2>1, SameSpared DEF Unlink, attach
<1>7. CASE TakeRemote(r)
  <2>1. sync'.scan = sync.scan /\ sync'.base[p] \in {Absent, sync.base[p]}
    BY <1>7 DEF TakeRemote, TypeOK, SyncState, Spared
  <2> QED BY <1>7, <2>1, SameSpared DEF TakeRemote, world
<1>8. CASE CompareDeleted(r)
  <2>1. r # p
    BY <1>8 DEF CompareDeleted, Spared
  <2>2. CASE \E sha : Note(r, sha) \/ Create(r, sha)
    BY <1>1, <1>3, <2>1, <2>2
  <2>3. CASE Fresh(r) # Absent /\ Fresh(r) = baseline[r]
    <3>1. /\ sync' = [sync EXCEPT !.pc = "unlink"]
          /\ UNCHANGED <<world, baseline, sent, flush, call>>
      BY <1>8, <2>3 DEF CompareDeleted
    <3>2. sync'.scan = sync.scan /\ sync'.base = sync.base
      BY <3>1 DEF TypeOK, SyncState
    <3> QED BY <3>1, <3>2, SameSpared DEF world
  <2> QED BY <1>8, <2>2, <2>3 DEF CompareDeleted
<1>9. CASE Forget(r)
  BY <1>1, <1>9 DEF Forget
<1>10. CASE PushNew(r) \/ Adopt(r) \/ PushEdit(r) \/ Unchanged(r)
  <2>1. r # p
    BY <1>10 DEF PushNew, Adopt, PushEdit, Unchanged, RemoteChanged, Spared
  <2> QED BY <1>1, <1>2, <1>3, <1>10, <2>1 DEF PushNew, Adopt, PushEdit, Unchanged
<1> QED BY <1>4, <1>5, <1>6, <1>7, <1>8, <1>9, <1>10 DEF SyncPath

LEMMA PutSpares ==
    ASSUME TypeOK, NEW p \in Path, Spared(p), NEW r \in Path, NEW c, Put(r, c), p \in wiped'
    PROVE  disk'[p] = disk[p] /\ baseline'[p] = baseline[p]
<1>1. CASE folder = "gone"
  BY <1>1 DEF Put
<1>2. CASE folder # "gone"
  <2>1. r # p
    BY <1>2 DEF Put
  <2> QED BY <1>2, <2>1 DEF Put, TypeOK
<1> QED BY <1>1, <1>2

LEMMA SyncLoopSpares ==
    ASSUME TypeOK, NEW p \in Path, Spared(p), p \in wiped',
           \/ Scan \/ List \/ ListFails \/ EndPaths \/ EndSync \/ StartSync
           \/ Stamp \/ EndRestore \/ RestoreFails
           \/ \E r \in Path : \/ Pull(r) \/ PullFindsNone(r) \/ PullFails(r)
                              \/ Restore(r) \/ WindowPasses(r)
    PROVE  Spared(p)'
<1> USE NothingType DEF world, attach, history
<1>0. Off.scan = Nothing /\ Off.base = Nothing
  BY DEF Off
<1>1. CASE Scan
  <2>1. sync' \in {Off, [sync EXCEPT !.pc = "stamp"],
                   [sync EXCEPT !.pc = "list", !.scan = disk]}
    BY <1>1 DEF Scan
  <2>2. sync'.scan[p] = Absent /\ sync'.base[p] = Absent
    BY <1>0, <2>1 DEF TypeOK, SyncState, Spared
  <2> QED BY <1>1, <2>2, SameSpared DEF Scan
<1>2. CASE List
  <2>1. sync'.scan[p] = Absent /\ sync'.base[p] = Absent
    BY <1>2 DEF List, TypeOK, SyncState, Spared
  <2>2. baseline'[p] = Absent /\ sent'[p] = Absent
    BY <1>2 DEF List, Settled, Spared
  <2> QED BY <1>2, <2>1, <2>2 DEF List, Spared
<1>3. CASE ListFails \/ EndSync \/ StartSync \/ EndRestore
  <2>1. sync' \in {Off, [Off EXCEPT !.pc = "scan"]}
    BY <1>3 DEF ListFails, EndSync, StartSync, EndRestore
  <2>2. sync'.scan = Nothing /\ sync'.base = Nothing
    BY <2>1 DEF Off
  <2> QED BY <1>3, <2>2, SameSpared DEF ListFails, EndSync, StartSync, EndRestore
<1>4. CASE RestoreFails
  <2>1. disk'[p] = disk[p]
    BY <1>4 DEF RestoreFails, Spared
  <2> QED BY <1>0, <1>4, <2>1, SameSpared DEF RestoreFails
<1>5. CASE EndPaths
  <2>1. sync'.scan = Nothing /\ sync'.base = Nothing /\ baseline'[p] = Absent
    BY <1>5 DEF EndPaths, Off, Spared
  <2> QED BY <1>5, <2>1, SameSpared DEF EndPaths
<1>6. CASE Stamp
  <2>1. sync'.scan = sync.scan /\ sync'.base = sync.base
    BY <1>6 DEF Stamp, TypeOK, SyncState
  <2> QED BY <1>6, <2>1 DEF Stamp, Spared
<1>7. ASSUME NEW r \in Path, PullFindsNone(r) \/ PullFails(r) \/ WindowPasses(r)
      PROVE  Spared(p)'
  <2>1. sync'.scan = sync.scan /\ sync'.base = sync.base
    BY <1>7 DEF PullFindsNone, PullFails, WindowPasses, TypeOK, SyncState
  <2> QED BY <1>7, <2>1, SameSpared DEF PullFindsNone, PullFails, PullBase, WindowPasses
<1>8. ASSUME NEW r \in Path, Pull(r) \/ Restore(r) PROVE Spared(p)'
  <2>1. sync'.scan = sync.scan /\ sync'.base = sync.base
    BY <1>8 DEF Pull, Restore, TypeOK, SyncState
  <2>2. disk'[p] = disk[p] /\ baseline'[p] = baseline[p]
    BY <1>8, PutSpares DEF Pull, Restore
  <2> QED BY <1>8, <2>1, <2>2, SameSpared DEF Pull, Restore
<1> QED BY <1>1, <1>2, <1>3, <1>4, <1>5, <1>6, <1>7, <1>8

LEMMA FlushSpares ==
    ASSUME TypeOK, NEW p \in Path, Spared(p),
           FlushScan \/ FlushList \/ FlushFails \/ FlushDone \/ \E r \in Path : FlushSend(r)
    PROVE  Spared(p)'
<1> USE NothingType DEF world, attach, history
<1>1. CASE FlushScan
  <2>1. p \notin flush'.todo
    BY <1>1 DEF FlushScan, Files, TypeOK, FlushState, Spared
  <2> QED BY <1>1, <2>1 DEF FlushScan, Spared
<1>2. CASE FlushList
  <2>1. p \notin flush'.todo /\ baseline'[p] = Absent
    BY <1>2 DEF FlushList, Settled, TypeOK, FlushState, Spared
  <2> QED BY <1>2, <2>1 DEF FlushList, Spared
<1>3. CASE FlushFails \/ FlushDone
  <2>1. flush'.todo = flush.todo
    BY <1>3 DEF FlushFails, FlushDone, TypeOK, FlushState
  <2> QED BY <1>3, <2>1, SameSpared DEF FlushFails, FlushDone
<1>4. ASSUME NEW r \in Path, FlushSend(r) PROVE Spared(p)'
  <2>1. r # p /\ flush'.todo \subseteq flush.todo /\ UNCHANGED <<disk, baseline, sync>>
    BY <1>4 DEF FlushSend, TypeOK, FlushState, Spared
  <2> QED BY <1>4, <2>1, SameSpared, UploadSpares DEF FlushSend
<1> QED BY <1>1, <1>2, <1>3, <1>4

LEMMA TeardownSpares ==
    ASSUME TypeOK, NEW p \in Path, Spared(p), Teardown PROVE Spared(p)'
<1> USE NothingType DEF world, attach, history
<1>1. CASE EndClean
  <2>1. sync'.scan = Nothing /\ sync'.base = Nothing
    BY <1>1 DEF EndClean, Off
  <2> QED BY <1>1, <2>1, SameSpared DEF EndClean
<1>2. CASE EndInError \/ FinishOver \/ LeaveFlush
  <2>1. flush'.todo \subseteq flush.todo
    BY <1>2 DEF EndInError, FinishOver, LeaveFlush, StartFlush, NoFlush
  <2> QED BY <1>2, <2>1, SameSpared DEF EndInError, FinishOver, LeaveFlush, StartFlush
<1>3. CASE Dispose
  <2>1. disk'[p] = disk[p]
    BY <1>3 DEF Dispose, Spared
  <2> QED BY <1>3, <2>1, SameSpared DEF Dispose
<1> QED BY <1>1, <1>2, <1>3 DEF Teardown

LEMMA SparedStep ==
    ASSUME TypeOK, NEW p \in Path, Spared(p), p \in wiped', Next
    PROVE  Spared(p)'
BY EnvironmentSpares, AnswerSpares, SyncPathSpares, SyncLoopSpares, FlushSpares, TeardownSpares
   DEF Next, SyncStep, FlushStep

-----------------------------------------------------------------------------
LEMMA IdleStep == TypeOK /\ TurnInv /\ IdleInv /\ Next => IdleInv'
<1> SUFFICES ASSUME TypeOK, TurnInv, IdleInv, Next PROVE IdleInv'
  OBVIOUS
<1> USE DEF world, attach, history, counts
<1>0. Off.scan = Nothing /\ Off.base = Nothing /\ Off.pc = "off"
  BY DEF Off
<1>1. ASSUME sync' = sync PROVE IdleInv'
  BY <1>1 DEF IdleInv
<1>2. ASSUME sync'.pc \notin {"off", "scan"} PROVE IdleInv'
  BY <1>2 DEF IdleInv
<1>3. CASE Environment
  BY <1>1, <1>3 DEF Environment, Wipe, Spoil, AgentWrites, AgentRemoves, OtherWrites
<1>4. CASE FlushScan \/ FlushList \/ FlushFails \/ FlushDone \/ \E r \in Path : FlushSend(r)
  BY <1>1, <1>4 DEF FlushScan, FlushList, FlushFails, FlushDone, FlushSend
<1>5. CASE Teardown
  <2>1. sync' \in {sync, [Off EXCEPT !.pc = "scan", !.final = TRUE]}
    BY <1>5 DEF Teardown, EndClean, EndInError, FinishOver, StartFlush, LeaveFlush, Dispose
  <2>2. CASE sync' = [Off EXCEPT !.pc = "scan", !.final = TRUE]
    BY <2>2 DEF Off, IdleInv
  <2> QED BY <1>1, <2>1, <2>2
<1>6. CASE ListFails \/ EndSync \/ StartSync \/ EndRestore \/ RestoreFails
  <2>1. sync' \in {Off, [Off EXCEPT !.pc = "scan"]}
    BY <1>6 DEF ListFails, EndSync, StartSync, EndRestore, RestoreFails
  <2>2. sync'.scan = Nothing /\ sync'.base = Nothing
    BY <2>1 DEF Off
  <2> QED BY <2>2 DEF IdleInv
<1>7. CASE Scan
  <2>1. sync' \in {Off, [sync EXCEPT !.pc = "stamp"],
                   [sync EXCEPT !.pc = "list", !.scan = disk]}
    BY <1>7 DEF Scan
  <2> QED BY <1>0, <2>1 DEF IdleInv, TypeOK, SyncState
<1>8. CASE List \/ EndPaths \/ Stamp
  <2>1. sync'.pc \notin {"off", "scan"}
    BY <1>8 DEF List, EndPaths, Stamp, TypeOK, SyncState, Off
  <2> QED BY <1>2, <2>1
<1>9. ASSUME NEW r \in Path,
             Pull(r) \/ PullFindsNone(r) \/ PullFails(r) \/ Restore(r)
      PROVE  IdleInv'
  <2>1. sync'.pc = sync.pc /\ sync.pc \notin {"off", "scan"}
    BY <1>9 DEF Pull, PullFindsNone, PullFails, Restore, TypeOK, SyncState
  <2> QED BY <1>2, <2>1
<1>10. ASSUME NEW r \in Path, WindowPasses(r) PROVE IdleInv'
  BY <1>1, <1>10 DEF WindowPasses
<1>11. ASSUME NEW q \in {"sync", "flush"}, NEW r \in Path,
              Lands(q, r) \/ Answer(q, r) \/ (q = "sync" /\ Deleted(r))
       PROVE  IdleInv'
  <2>1. sync' = sync \/ \E sha : q = "sync" /\ Advance(r, sha)
    BY <1>11 DEF Lands, Answer, Saved, Unheard, Rejected, UpdateFindsNone, Conflicts, Deleted,
                 Conclude
  <2>2. call[q][r] # NoRequest
    BY <1>11 DEF Lands, Answer, Saved, Unheard, Rejected, UpdateFindsNone, Conflicts, Deleted
  <2>3. ASSUME NEW sha, q = "sync", Advance(r, sha) PROVE IdleInv'
    <3>1. sync'.pc = sync.pc /\ sync.pc = "path"
      BY <2>2, <2>3 DEF Advance, TurnInv, TypeOK, SyncState
    <3> QED BY <1>2, <3>1
  <2> QED BY <1>1, <2>1, <2>3
<1>12. ASSUME NEW r \in Path, SyncPath(r) PROVE IdleInv'
  <2>1. sync.pc \in {"path", "unlink"}
    BY <1>12 DEF SyncPath, HoldDelete, SendDelete, Forget, PushNew, CompareDeleted, Unlink,
                 TakeRemote, Adopt, PushEdit, Unchanged, Settling, Turn
  <2>2. \/ sync' = sync \/ (\E sha : Advance(r, sha))
        \/ sync' = [sync EXCEPT !.pc = "unlink"]
        \/ HoldDelete(r) \/ SendDelete(r) \/ Unlink(r) \/ TakeRemote(r)
    BY <1>12 DEF SyncPath, Forget, PushNew, CompareDeleted, Adopt, PushEdit, Unchanged,
                 Create, Note, Push
  <2>3. CASE HoldDelete(r)
    <3> DEFINE used == IF store.deletes = "log_only" /\ MayDelete(r)
                       THEN sync.used + 1 ELSE sync.used
    <3>1. sync' = [sync EXCEPT !.at = @ + 1, !.base[r] = baseline[r], !.used = used]
      BY <2>3 DEF HoldDelete
    <3> HIDE DEF used
    <3>2. sync'.pc = sync.pc
      BY <3>1 DEF TypeOK, SyncState
    <3> QED BY <1>2, <2>1, <3>2
  <2>4. CASE \/ (\E sha : Advance(r, sha)) \/ sync' = [sync EXCEPT !.pc = "unlink"]
             \/ SendDelete(r) \/ Unlink(r) \/ TakeRemote(r)
    <3>1. sync'.pc \in {sync.pc, "unlink", "path"}
      BY <2>4 DEF Advance, SendDelete, Unlink, TakeRemote, TypeOK, SyncState
    <3> QED BY <1>2, <2>1, <3>1
  <2> QED BY <1>1, <2>2, <2>3, <2>4
<1> QED BY <1>3, <1>4, <1>5, <1>6, <1>7, <1>8, <1>9, <1>10, <1>11, <1>12
        DEF Next, SyncStep, FlushStep

LEMMA PhaseStep == TypeOK /\ PhaseInv /\ Next => PhaseInv'
<1> SUFFICES ASSUME TypeOK, PhaseInv, Next, phase' \in {"download", "session", "finish"}
             PROVE  flush' = NoFlush /\ \A p \in Path : call'["flush"][p] = NoRequest
  BY DEF PhaseInv
<1> USE DEF world, attach, history, counts
<1>1. CASE Environment
  BY <1>1 DEF PhaseInv, Environment, Wipe, Spoil, AgentWrites, AgentRemoves, OtherWrites
<1>2. CASE FlushStep
  <2>1. phase' = phase
    BY <1>2 DEF FlushStep, FlushScan, FlushList, FlushFails, FlushDone, FlushSend, Lands,
                Answer, Saved, Unheard, Rejected, UpdateFindsNone, Conflicts
  <2>2. flush.pc = "off" /\ \A p \in Path : call["flush"][p] = NoRequest
    BY <2>1 DEF PhaseInv, NoFlush
  <2> QED BY <1>2, <2>2
          DEF FlushStep, FlushScan, FlushList, FlushFails, FlushDone, FlushSend, Lands,
              Answer, Saved, Unheard, Rejected, UpdateFindsNone, Conflicts
<1>3. CASE Teardown
  BY <1>3 DEF PhaseInv, Teardown, EndClean, EndInError, FinishOver, StartFlush, LeaveFlush,
              Dispose
<1>4. CASE \/ Scan \/ List \/ ListFails \/ EndPaths \/ EndSync \/ StartSync
           \/ Stamp \/ EndRestore \/ RestoreFails
           \/ \E r \in Path : \/ Pull(r) \/ PullFindsNone(r) \/ PullFails(r)
                              \/ Restore(r) \/ WindowPasses(r)
  <2>1. UNCHANGED <<flush, call>>
    BY <1>4 DEF Scan, List, ListFails, EndPaths, EndSync, StartSync, Stamp, EndRestore,
                RestoreFails, Pull, PullFindsNone, PullFails, Restore, WindowPasses
  <2>2. phase' = phase \/ phase = "download" \/ phase' = "over"
    BY <1>4 DEF Scan, List, ListFails, EndPaths, EndSync, StartSync, Stamp, EndRestore,
                RestoreFails, Pull, PullFindsNone, PullFails, Restore, WindowPasses
  <2> QED BY <2>1, <2>2 DEF PhaseInv
<1>5. ASSUME NEW r \in Path, Lands("sync", r) \/ Answer("sync", r) \/ Deleted(r) \/ SyncPath(r)
      PROVE  flush' = NoFlush /\ \A p \in Path : call'["flush"][p] = NoRequest
  <2>1. phase' = phase /\ flush' = flush
    BY <1>5 DEF Lands, Answer, Saved, Unheard, Rejected, UpdateFindsNone, Conflicts, Deleted,
                Conclude, SyncPath, HoldDelete, SendDelete, Forget, PushNew, CompareDeleted,
                Unlink, TakeRemote, Adopt, PushEdit, Unchanged, Create, Note, Push
  <2>2. call'["flush"] = call["flush"]
    BY <1>5 DEF Lands, Answer, Saved, Unheard, Rejected, UpdateFindsNone, Conflicts, Deleted,
                Conclude, Upload, SyncPath, HoldDelete, SendDelete, Forget, PushNew,
                CompareDeleted, Unlink, TakeRemote, Adopt, PushEdit, Unchanged, Create, Note,
                Push, TypeOK
  <2> QED BY <2>1, <2>2 DEF PhaseInv
<1> QED BY <1>1, <1>2, <1>3, <1>4, <1>5 DEF Next, SyncStep

\* A listing may bring shas back, and takes none away.
LEMMA SettledFiles ==
    ASSUME TypeOK, NEW listing
    PROVE  Cardinality(Files(baseline)) <= Cardinality(Files(Settled(listing)))
<1> DEFINE S == Files(Settled(listing))
<1>1. Files(baseline) \subseteq S
  BY DEF Files, Settled
<1>2. IsFiniteSet(Path)
  BY PathAssumption, FS_Interval DEF Path
<1>3. IsFiniteSet(S)
  BY <1>2, FS_Subset DEF Files
<1> HIDE DEF S
<1>4. Cardinality(Files(baseline)) <= Cardinality(S)
  BY <1>1, <1>3, FS_Subset
<1> QED BY <1>4 DEF S

LEMMA UnnoticedStep ==
    ASSUME TypeOK, IdleInv, PhaseInv, Unnoticed, Next, wiped' \subseteq wiped
    PROVE  Unnoticed' \/ \A p \in wiped' : Spared(p)'
<1> USE NothingType DEF world, attach, history, counts
<1>0. /\ Off.scan = Nothing /\ Off.base = Nothing
      /\ disk = Nothing => Files(disk) = {}
      /\ wiped \subseteq Path
  BY DEF Files, Off, TypeOK
<1>1. ASSUME UNCHANGED <<disk, baseline, call, sync>>,
             folder' = folder, phase' = phase \/ (phase' # "session" /\ sync.pc = "off"),
             flush'.todo = {}, flush'.pc \notin {"list", "send"}
      PROVE  Unnoticed'
  BY <1>0, <1>1 DEF Unnoticed, Empty
<1>2. CASE Environment
  <2>1. ASSUME NEW r \in Path, AgentWrites(r)
        PROVE  Unnoticed' \/ \A p \in wiped' : Spared(p)'
    <3>1. CASE Blurred
      BY <2>1, <3>1 DEF AgentWrites
    <3>2. CASE ~Blurred
      <4>1. /\ wiped' = wiped \ {r} /\ phase = "session"
            /\ \A p \in wiped' : disk'[p] = Absent
        BY <1>0, <2>1, <3>2 DEF AgentWrites, AgentActs, Unnoticed, TypeOK
      <4>2. CASE folder # "ours" \/ sync.pc = "stamp"
        <5>1. sync.pc # "list" /\ (sync.pc = "stamp" \/ folder' # "ours")
          BY <2>1, <4>1, <4>2 DEF AgentWrites, Unnoticed
        <5> QED BY <2>1, <4>1, <5>1 DEF AgentWrites, Unnoticed
      <4>3. CASE folder = "ours" /\ sync.pc # "stamp"
        <5>1. \A p \in wiped' : baseline[p] = Absent /\ sent[p] = Absent
          BY <3>2, <4>1, <4>3 DEF Blurred
        <5> QED BY <1>0, <2>1, <4>1, <5>1 DEF AgentWrites, Unnoticed, Spared
      <4> QED BY <4>2, <4>3
    <3> QED BY <3>1, <3>2
  <2>2. ASSUME NEW r \in Path, AgentRemoves(r) PROVE Unnoticed'
    <3>1. disk # Nothing
      BY <2>2 DEF AgentRemoves
    <3>2. \A p \in wiped' : disk'[p] = Absent
      BY <1>0, <2>2 DEF AgentRemoves, Unnoticed, TypeOK
    <3> QED BY <2>2, <3>1, <3>2 DEF AgentRemoves, AgentActs, Unnoticed, Empty
  <2>3. CASE Wipe
    <3>1. disk # Nothing /\ disk' = Nothing /\ phase = "session"
      BY <1>0, <2>3 DEF Wipe, AgentActs
    <3>2. \A p \in wiped' : disk'[p] = Absent
      BY <1>0, <3>1
    <3> QED BY <2>3, <3>1, <3>2 DEF Wipe, Unnoticed, Empty
  <2>4. CASE Spoil
    <3>1. disk # Nothing /\ phase = "session" /\ disk' = disk
      BY <1>0, <2>4 DEF Spoil, AgentActs
    <3>2. \A p \in wiped' : disk'[p] = Absent
      BY <1>0, <3>1 DEF Unnoticed
    <3> QED BY <2>4, <3>1, <3>2 DEF Spoil, Unnoticed, Empty
  <2>5. ASSUME NEW r \in Path, OtherWrites(r) PROVE Unnoticed'
    BY <1>1, <2>5 DEF OtherWrites, Unnoticed
  <2> QED BY <1>2, <2>1, <2>2, <2>3, <2>4, <2>5 DEF Environment
<1>3. CASE FlushStep
  <2>1. FlushScan
    BY <1>3 DEF FlushStep, FlushList, FlushFails, FlushDone, FlushSend, Lands, Answer, Saved,
                Unheard, Rejected, UpdateFindsNone, Conflicts, Unnoticed
  <2>2. flush' = [flush EXCEPT !.pc = "done"]
    <3>1. flush # NoFlush
      BY <2>1 DEF FlushScan, NoFlush
    <3>2. phase # "session"
      BY <3>1 DEF PhaseInv
    <3>3. folder # "ours" \/ Files(disk) = {}
      BY <1>0, <3>2 DEF Unnoticed, Empty
    <3> QED BY <2>1, <3>3 DEF FlushScan
  <2>3. flush'.todo = {} /\ flush'.pc = "done"
    BY <2>2 DEF TypeOK, FlushState, Unnoticed
  <2> QED BY <1>1, <2>1, <2>3 DEF FlushScan
<1>4. CASE EndInError \/ FinishOver \/ LeaveFlush
  <2>1. flush'.todo = {} /\ flush'.pc \notin {"list", "send"}
    BY <1>4 DEF EndInError, FinishOver, LeaveFlush, StartFlush, NoFlush, Unnoticed
  <2>2. /\ UNCHANGED <<disk, baseline, call, sync, folder>>
        /\ phase' # "session" /\ (phase = "session" => sync.pc = "off")
    BY <1>4 DEF EndInError, FinishOver, LeaveFlush, StartFlush
  <2> QED BY <1>0, <2>1, <2>2 DEF Unnoticed, Empty
<1>5. CASE Dispose
  <2>1. disk' = Nothing \/ disk' = disk
    BY <1>5 DEF Dispose
  <2>2. \A p \in wiped' : disk'[p] = Absent
    BY <1>0, <2>1 DEF Unnoticed
  <2>3. phase = "dispose" /\ phase' = "over" /\ (folder' = "gone" \/ UNCHANGED <<disk, folder>>)
    BY <1>5 DEF Dispose
  <2> QED BY <1>5, <2>1, <2>2, <2>3 DEF Dispose, Unnoticed, Empty
<1>6. CASE EndClean \/ ListFails \/ StartSync
  <2>1. sync' \in {Off, [Off EXCEPT !.pc = "scan"],
                   [Off EXCEPT !.pc = "scan", !.final = TRUE]}
    BY <1>6 DEF EndClean, ListFails, StartSync
  <2> DEFINE starts == [Off EXCEPT !.pc = "scan"]
             ends   == [Off EXCEPT !.pc = "scan", !.final = TRUE]
  <2>2. /\ starts.pc = "scan" /\ starts.scan = Nothing /\ starts.base = Nothing
        /\ ends.pc = "scan" /\ ends.scan = Nothing /\ ends.base = Nothing
        /\ Off.pc = "off"
    BY DEF Off
  <2> HIDE DEF starts, ends
  <2>3. sync' \in {Off, starts, ends}
    BY <2>1 DEF starts, ends
  <2>4. sync'.pc \in {"off", "scan"} /\ sync'.scan = Nothing /\ sync'.base = Nothing
    BY <1>0, <2>2, <2>3
  <2>5. sync.pc # "stamp" /\ UNCHANGED <<disk, folder, baseline, call, flush, wiped>>
    BY <1>6 DEF EndClean, ListFails, StartSync
  <2> QED BY <2>4, <2>5 DEF Unnoticed, Empty
<1>7. CASE Scan
  <2>1. UNCHANGED <<disk, folder, phase, baseline, call, flush, wiped>> /\ sync.pc = "scan"
    BY <1>7 DEF Scan
  <2>2. CASE folder = "ours"
    <3>1. Empty /\ sync' = [sync EXCEPT !.pc = "list", !.scan = disk]
      BY <1>7, <2>1, <2>2 DEF Scan, Unnoticed
    <3>2. sync'.pc = "list" /\ sync'.scan = Nothing /\ sync'.base = Nothing
      BY <3>1 DEF TypeOK, SyncState, Unnoticed, Empty
    <3> QED BY <2>1, <2>2, <3>1, <3>2 DEF Unnoticed, Empty
  <2>3. CASE folder # "ours" /\ Files(disk) # {}
    <3>1. sync' = Off
      BY <1>7, <2>3 DEF Scan
    <3>2. sync'.pc = "off" /\ sync'.scan = Nothing /\ sync'.base = Nothing
      BY <3>1 DEF Off
    <3> QED BY <2>1, <2>3, <3>2 DEF Unnoticed
  <2>4. CASE folder # "ours" /\ Files(disk) = {}
    <3>1. disk = Nothing /\ sync' = [sync EXCEPT !.pc = "stamp"]
      BY <1>7, <2>4 DEF Scan, Files, Nothing, TypeOK
    <3>2. sync'.pc = "stamp" /\ sync'.scan = Nothing /\ sync'.base = Nothing
      BY <3>1 DEF TypeOK, SyncState, Unnoticed
    <3> QED BY <2>1, <2>4, <3>1, <3>2 DEF Unnoticed
  <2> QED BY <2>2, <2>3, <2>4
<1>8. CASE List
  <2>1. LooksWiped(sync.scan, Settled(remote))
    <3>1. Files(sync.scan) = {}
      BY DEF Unnoticed, Files
    <3>2. Files(baseline) \subseteq Path /\ Files(Settled(remote)) \subseteq Path
      BY DEF Files
    <3>3. IsFiniteSet(Path)
      BY PathAssumption, FS_Interval DEF Path
    <3>4. /\ Cardinality(Files(baseline)) \in Nat
          /\ Cardinality(Files(Settled(remote))) \in Nat
      BY <3>2, <3>3, FS_Subset, FS_CardinalityType
    <3>5. Cardinality(Files(baseline)) <= Cardinality(Files(Settled(remote)))
      BY SettledFiles
    <3>6. Cardinality(Files(baseline)) > 1
      BY <1>8 DEF List, Unnoticed, Empty
    <3> QED BY <3>1, <3>4, <3>5, <3>6 DEF LooksWiped
  <2>2. sync' = [sync EXCEPT !.pc = "stamp", !.scan = Nothing]
    BY <1>8, <2>1 DEF List
  <2>3. sync'.pc = "stamp" /\ sync'.scan = Nothing /\ sync'.base = Nothing
    BY <2>2 DEF TypeOK, SyncState, Unnoticed
  <2>4. disk = Nothing /\ UNCHANGED <<disk, folder, phase, call, flush, wiped>>
    BY <1>8 DEF List, Unnoticed, Empty
  <2> QED BY <2>3, <2>4 DEF Unnoticed
<1>9. CASE Stamp
  <2>1. sync'.scan = sync.scan /\ sync'.base = sync.base
    BY <1>9 DEF Stamp, TypeOK, SyncState
  <2> QED BY <1>0, <1>9, <2>1 DEF Stamp, Unnoticed, Spared
<1>10. ASSUME NEW r \in Path, WindowPasses(r) PROVE Unnoticed'
  BY <1>1, <1>10 DEF WindowPasses, Unnoticed
<1>11. ~EndPaths /\ ~EndSync /\ ~EndRestore /\ ~RestoreFails
  BY DEF EndPaths, EndSync, EndRestore, RestoreFails, Unnoticed
<1>12. ASSUME NEW r \in Path,
              Pull(r) \/ PullFindsNone(r) \/ PullFails(r) \/ Restore(r)
              \/ Lands("sync", r) \/ Answer("sync", r) \/ Deleted(r)
       PROVE  FALSE
  BY <1>12 DEF Pull, PullFindsNone, PullFails, Restore, Lands, Answer, Saved, Unheard, Rejected,
               UpdateFindsNone, Conflicts, Deleted, Unnoticed
<1>13. ASSUME NEW r \in Path, SyncPath(r) PROVE FALSE
  <2>1. sync.pc \in {"path", "unlink"}
    BY <1>13 DEF SyncPath, HoldDelete, SendDelete, Forget, PushNew, CompareDeleted, Unlink,
                 TakeRemote, Adopt, PushEdit, Unchanged, Settling, Turn
  <2> QED BY <2>1 DEF Unnoticed
<1> QED BY <1>2, <1>3, <1>4, <1>5, <1>6, <1>7, <1>8, <1>9, <1>10, <1>11, <1>12, <1>13
        DEF Next, SyncStep, Teardown

\* Only a wipe adds to the files that went with the folder, and it puts the sync in the
\* state that notices.
LEMMA WipeFacts ==
    ASSUME TypeOK, TurnInv, IdleInv, PhaseInv, Next
    PROVE  wiped' \subseteq wiped \/ Unnoticed'
<1> USE NothingType DEF world, attach, history, counts
<1>1. CASE Wipe
  <2>1. CASE sync.pc = "off" /\ (folder' # "ours" \/ Cardinality(Files(baseline)) > 1)
    <3>1. flush = NoFlush /\ \A p \in Path : call["flush"][p] = NoRequest
      BY <1>1 DEF Wipe, AgentActs, PhaseInv
    <3>2. \A p \in Path : call["sync"][p] = NoRequest
      BY <2>1 DEF TurnInv
    <3>3. \A p \in wiped' : disk'[p] = Absent
      BY <1>1, <2>1 DEF Wipe, TypeOK, Files
    <3>4. UNCHANGED <<baseline, call, sync, flush>> /\ disk' = Nothing
      BY <1>1 DEF Wipe
    <3>5. folder' = "ours" => Empty'
      BY <2>1, <3>4 DEF Empty
    <3> QED BY <2>1, <3>1, <3>2, <3>3, <3>4, <3>5 DEF Unnoticed, IdleInv, NoFlush
  <2>2. CASE ~(sync.pc = "off" /\ (folder' # "ours" \/ Cardinality(Files(baseline)) > 1))
    BY <1>1, <2>2 DEF Wipe
  <2> QED BY <2>1, <2>2
<1>2. CASE Environment /\ ~Wipe
  BY <1>2 DEF Environment, Spoil, AgentWrites, AgentRemoves, OtherWrites
<1>3. CASE \/ Scan \/ List \/ ListFails \/ EndPaths \/ EndSync \/ StartSync
           \/ Stamp \/ EndRestore \/ RestoreFails \/ Teardown
           \/ FlushScan \/ FlushList \/ FlushFails \/ FlushDone
  BY <1>3 DEF Scan, List, ListFails, EndPaths, EndSync, StartSync, Stamp, EndRestore,
              RestoreFails, Teardown, EndClean, EndInError, FinishOver, StartFlush, LeaveFlush,
              Dispose, FlushScan, FlushList, FlushFails, FlushDone
<1>4. ASSUME NEW r \in Path,
             \/ Pull(r) \/ PullFindsNone(r) \/ PullFails(r) \/ Restore(r) \/ WindowPasses(r)
             \/ FlushSend(r) \/ Deleted(r)
      PROVE  wiped' \subseteq wiped
  BY <1>4 DEF Pull, PullFindsNone, PullFails, Restore, Put, WindowPasses, FlushSend, Deleted
<1>5. ASSUME NEW q \in {"sync", "flush"}, NEW r \in Path, Lands(q, r) \/ Answer(q, r)
      PROVE  wiped' \subseteq wiped
  BY <1>5 DEF Lands, Answer, Saved, Unheard, Rejected, UpdateFindsNone, Conflicts
<1>6. ASSUME NEW r \in Path, SyncPath(r) PROVE wiped' \subseteq wiped
  BY <1>6 DEF SyncPath, HoldDelete, SendDelete, Forget, PushNew, CompareDeleted, Unlink,
              TakeRemote, Adopt, PushEdit, Unchanged, Create, Note, Push
<1> QED BY <1>1, <1>2, <1>3, <1>4, <1>5, <1>6 DEF Next, SyncStep, FlushStep

LEMMA WipedStep == TypeOK /\ TurnInv /\ WipedInv /\ [Next]_vars => WipedInv'
<1> SUFFICES ASSUME TypeOK, TurnInv, WipedInv, [Next]_vars PROVE WipedInv'
  OBVIOUS
<1>1. CASE UNCHANGED vars
  BY <1>1 DEF vars, WipedInv, IdleInv, PhaseInv, Unnoticed, Empty, Spared
<1>2. CASE Next
  <2>1. IdleInv' /\ PhaseInv'
    BY <1>2, IdleStep, PhaseStep DEF WipedInv
  <2>2. wiped' \subseteq wiped \/ Unnoticed'
    BY <1>2, WipeFacts DEF WipedInv
  <2>3. wiped \subseteq Path /\ wiped' \subseteq Path
    BY <1>2, TypeStep DEF TypeOK
  <2>4. CASE wiped' \subseteq wiped /\ Unnoticed
    BY <1>2, <2>1, <2>3, <2>4, UnnoticedStep DEF WipedInv
  <2>5. CASE wiped' \subseteq wiped /\ \A p \in wiped : Spared(p)
    <3>1. \A p \in wiped' : Spared(p)'
      BY <1>2, <2>3, <2>5, SparedStep
    <3> QED BY <2>1, <3>1 DEF WipedInv
  <2> QED BY <2>1, <2>2, <2>4, <2>5 DEF WipedInv
<1> QED BY <1>1, <1>2

\* The folder of a session is emptied at once while no sync runs, so that its marker or
\* two memories or more are lost: until a file is back, the client sends nothing about
\* it, so that its memory is not deleted (#syncStore, LooksWiped), unless another file is
\* written into the emptied folder, still marked, before a sync has found it empty
\* (Blurred).
THEOREM WipeIsSpared == Spec => WipeSparesServer
<1> DEFINE Unharmed ==
        \A p \in wiped : remote'[p] = Absent /\ remote[p] # Absent => writer'[p] = "them"
<1>1. ASSUME TypeOK, WipedInv, [Next]_vars PROVE Unharmed
  <2> SUFFICES ASSUME NEW p \in wiped, remote'[p] = Absent, remote[p] # Absent
               PROVE  writer'[p] = "them"
    OBVIOUS
  <2>1. p \in Path /\ \A q \in {"sync", "flush"} : call[q][p] = NoRequest
    BY <1>1 DEF TypeOK, WipedInv, Unnoticed, Spared
  <2>2. ASSUME NEW q \in {"sync", "flush"}, NEW r \in Path, Lands(q, r) PROVE FALSE
    <3>1. r # p
      BY <2>1, <2>2 DEF Lands
    <3> QED BY <1>1, <2>1, <2>2, <3>1 DEF Lands, TypeOK
  <2> QED BY <1>1, <2>1, <2>2, WhoChanges
<1>2. Init => TypeOK /\ TurnInv /\ WipedInv
  <2> SUFFICES ASSUME Init PROVE WipedInv
    BY InitFacts
  <2>1. sync.pc = "stamp"
    BY DEF Init, Off
  <2> QED BY <2>1 DEF Init, WipedInv, IdleInv, PhaseInv
<1>3. TypeOK /\ TurnInv /\ WipedInv /\ [Next]_vars => TypeOK' /\ TurnInv' /\ WipedInv'
  BY TypeStep, WipedStep
<1>4. TypeOK /\ WipedInv /\ [Next]_vars => [Unharmed]_vars
  BY <1>1
<1> QED BY <1>2, <1>3, <1>4, PTL DEF Spec, WipeSparesServer

-----------------------------------------------------------------------------
(* The requests of the flush.                                               *)

\* The flush has none but while it sends, and only for paths it has done with.
FlushCalls ==
    /\ flush.pc \in {"off", "scan", "list", "done"} =>
         \A p \in Path : call["flush"][p] = NoRequest
    /\ \A p \in flush.todo : call["flush"][p] = NoRequest
    /\ flush.pc \in {"scan", "list", "send"} => phase = "flush" /\ ~store.readOnly

\* What leaves the requests of the flush alone.
LEMMA SameCalls ==
    ASSUME TypeOK, FlushCalls, call'["flush"] = call["flush"], flush' = flush,
           UNCHANGED store, phase' = phase \/ flush.pc \notin {"scan", "list", "send"}
    PROVE  FlushCalls'
BY DEF FlushCalls, TypeOK, FlushState

LEMMA FlushCallsStep ==
    ASSUME TypeOK, PhaseInv, FlushCalls, Next PROVE FlushCalls'
<1> USE DEF world, attach, history, counts
<1>1. CASE Environment \/ \E r \in Path : WindowPasses(r)
  BY <1>1, SameCalls DEF Environment, Wipe, Spoil, AgentWrites, AgentRemoves, OtherWrites,
                         WindowPasses
<1>2. CASE \/ Scan \/ List \/ ListFails \/ EndPaths \/ EndSync \/ StartSync
           \/ Stamp \/ EndRestore \/ RestoreFails
           \/ \E r \in Path : Pull(r) \/ PullFindsNone(r) \/ PullFails(r) \/ Restore(r)
  <2>1. UNCHANGED <<flush, call, store>>
    BY <1>2 DEF Scan, List, ListFails, EndPaths, EndSync, StartSync, Stamp, EndRestore,
                RestoreFails, Pull, PullFindsNone, PullFails, Restore
  <2>2. phase' = phase \/ phase = "download"
    BY <1>2 DEF Scan, List, ListFails, EndPaths, EndSync, StartSync, Stamp, EndRestore,
                RestoreFails, Pull, PullFindsNone, PullFails, Restore
  <2> QED BY <2>1, <2>2, SameCalls DEF FlushCalls
<1>3. ASSUME NEW r \in Path, Lands("sync", r) \/ Answer("sync", r) \/ Deleted(r) \/ SyncPath(r)
      PROVE  FlushCalls'
  <2>1. UNCHANGED <<phase, flush, store>>
    BY <1>3 DEF Lands, Answer, Saved, Unheard, Rejected, UpdateFindsNone, Conflicts, Deleted,
                Conclude, SyncPath, HoldDelete, SendDelete, Forget, PushNew, CompareDeleted,
                Unlink, TakeRemote, Adopt, PushEdit, Unchanged, Create, Note, Push
  <2>2. call'["flush"] = call["flush"]
    BY <1>3 DEF Lands, Answer, Saved, Unheard, Rejected, UpdateFindsNone, Conflicts, Deleted,
                Conclude, Upload, SyncPath, HoldDelete, SendDelete, Forget, PushNew,
                CompareDeleted, Unlink, TakeRemote, Adopt, PushEdit, Unchanged, Create, Note,
                Push, TypeOK
  <2> QED BY <2>1, <2>2, SameCalls
<1>4. ASSUME NEW r \in Path, Lands("flush", r) \/ Answer("flush", r) PROVE FlushCalls'
  <2>1. call["flush"][r] # NoRequest
    BY <1>4 DEF Lands, Answer, Saved, Unheard, Rejected, UpdateFindsNone, Conflicts
  <2>2. \A p \in Path \ {r} : call'["flush"][p] = call["flush"][p]
    BY <1>4 DEF Lands, Answer, Saved, Unheard, Rejected, UpdateFindsNone, Conflicts, Conclude,
                Upload, TypeOK
  <2>3. flush'.pc = flush.pc /\ flush'.todo = flush.todo /\ UNCHANGED <<phase, store>>
    BY <1>4 DEF Lands, Answer, Saved, Unheard, Rejected, UpdateFindsNone, Conflicts, Conclude,
                Upload, TypeOK, FlushState
  <2> QED BY <2>1, <2>2, <2>3 DEF FlushCalls, TypeOK, FlushState
<1>5. CASE Teardown
  <2>1. UNCHANGED <<call, store>>
    BY <1>5 DEF Teardown, EndClean, EndInError, FinishOver, StartFlush, LeaveFlush, Dispose
  <2>2. CASE EndInError \/ FinishOver
    <3>1. /\ flush'.pc = (IF store.readOnly THEN "done" ELSE "scan") /\ flush'.todo = {}
          /\ phase' = "flush" /\ phase \in {"session", "finish"}
      BY <2>2 DEF EndInError, FinishOver, StartFlush, NoFlush
    <3> QED BY <2>1, <3>1 DEF FlushCalls, PhaseInv
  <2>3. CASE LeaveFlush
    <3>1. \/ flush' = flush /\ flush.pc = "done"
          \/ flush'.pc = "cut" /\ flush'.todo = {}
      BY <2>3 DEF LeaveFlush, NoFlush
    <3> QED BY <2>1, <3>1 DEF FlushCalls
  <2>4. CASE EndClean \/ Dispose
    <3>1. flush' = flush /\ phase \in {"session", "dispose"}
      BY <2>4 DEF EndClean, Dispose
    <3> QED BY <2>1, <3>1, SameCalls DEF FlushCalls
  <2> QED BY <1>5, <2>2, <2>3, <2>4 DEF Teardown
<1>6. CASE FlushScan \/ FlushFails \/ FlushDone
  <2>1. /\ flush.pc \in {"scan", "list", "send"} /\ flush'.pc \in {"list", "done"}
        /\ UNCHANGED <<call, phase, store>>
        /\ \A p \in Path : call["flush"][p] = NoRequest
    BY <1>6 DEF FlushScan, FlushFails, FlushDone, FlushCalls, TypeOK, FlushState
  <2>2. flush'.todo \subseteq Path
    <3>1. \/ flush'.todo = flush.todo
          \/ \E k : k \subseteq Path /\ flush' = [flush EXCEPT !.pc = "list", !.scan = disk, !.todo = k]
      BY <1>6 DEF FlushScan, FlushFails, FlushDone, TypeOK, FlushState, Files
    <3> QED BY <3>1 DEF TypeOK, FlushState
  <2> QED BY <2>1, <2>2 DEF FlushCalls
<1>7. CASE FlushList
  <2>1. /\ flush.pc = "list" /\ flush'.pc = "send" /\ flush'.todo \subseteq flush.todo
        /\ UNCHANGED <<call, phase, store>>
    BY <1>7 DEF FlushList, TypeOK, FlushState
  <2> QED BY <2>1 DEF FlushCalls
<1>8. ASSUME NEW r \in Path, FlushSend(r) PROVE FlushCalls'
  <2>1. /\ flush.pc = "send" /\ flush'.pc = "send" /\ flush'.todo = flush.todo \ {r}
        /\ UNCHANGED <<phase, store>> /\ flush.todo \subseteq Path
    BY <1>8 DEF FlushSend, TypeOK, FlushState
  <2>2. \A p \in Path \ {r} : call'["flush"][p] = call["flush"][p]
    BY <1>8 DEF FlushSend, Upload, TypeOK
  <2> QED BY <2>1, <2>2 DEF FlushCalls
<1> QED BY <1>1, <1>2, <1>3, <1>4, <1>5, <1>6, <1>7, <1>8 DEF Next, SyncStep, FlushStep

-----------------------------------------------------------------------------
(* The agent's own uploads.                                                 *)

\* The memory holds the recorded sha, or that of an upload whose answer was lost.
Known(p, sha) == remote[p] = sha \/ (sent[p] # Absent /\ remote[p] = sent[p])

\* A sync that has yet to look at a path starts with the first.
StartInv ==
    /\ sync.pc \in {"off", "scan", "list"} => sync.at = 1 /\ sync.pulls = {}
    /\ sync.pc \in {"path", "unlink"} => \A p \in sync.pulls : p < sync.at

\* What is sent of a path is remembered until the answer.
SentInv(p) ==
    call["sync"][p] # NoRequest /\ call["sync"][p].content # Absent =>
        sent[p] = call["sync"][p].content

\* This client was the last to change the memory, or no other writer has been at work.
Tracked(p) == writer[p] = "us" \/ others = 0

\* A folder that is rebuilt takes every memory the sync has come past.
RestoreInv(p) ==
    sync.pc = "restore" =>
        /\ p < sync.at /\ folder = "ours" /\ Tracked(p) => Known(p, baseline[p])
        /\ p >= sync.at => baseline[p] = Absent

\* A memory this client was the last to change is on record wherever the sync is, and is
\* never taken for another writer's.
Accounted(p) ==
    /\ sync.pc \in {"off", "scan"} /\ folder = "ours" => Known(p, baseline[p])
    /\ sync.pc = "list" => Known(p, baseline[p])
    /\ sync.pc = "pull" => Known(p, baseline[p]) /\ p \notin sync.pulls
    /\ sync.pc \in {"path", "unlink"} =>
         /\ p < sync.at => Known(p, sync.base[p]) /\ p \notin sync.pulls
         /\ p >= sync.at /\ call["sync"][p] = NoRequest =>
              remote[p] = baseline[p] /\ remote[p] = sync.listed[p]
         /\ call["sync"][p] # NoRequest =>
              remote[p] = IF call["sync"][p].landed
                          THEN call["sync"][p].content ELSE call["sync"][p].keep
    /\ sync.pc = "unlink" => p # sync.at

SelfPath(p) ==
    /\ SentInv(p) /\ RestoreInv(p)
    /\ ~halfway /\ Tracked(p) => Accounted(p)

\* Until the flush has the listing: then it puts shas of its own on record.
Before == flush.pc \in {"off", "scan", "list"}

SelfInv == StartInv /\ (Before => \A p \in Path : SelfPath(p))

\* What a step at one path leaves alone at another.
LEMMA SameSelf ==
    ASSUME NEW p \in Path, SelfPath(p), sync' = sync, UNCHANGED <<halfway, others>>,
           baseline'[p] = baseline[p], sent'[p] = sent[p], remote'[p] = remote[p],
           writer'[p] = writer[p], call'["sync"][p] = call["sync"][p],
           folder' = "ours" => folder = "ours"
    PROVE  SelfPath(p)'
BY DEF SelfPath, Tracked, SentInv, RestoreInv, Accounted, Known

LEMMA OtherSelf ==
    ASSUME TypeOK, TurnInv, NEW p \in Path, NEW r \in Path, p # r, SelfPath(p),
           sync.at = r, sync'.at = r \/ (sync'.at = r + 1 /\ sync'.pc # "unlink"),
           \/ sync.pc \in {"path", "unlink"} /\ sync'.pc \in {"path", "unlink"}
           \/ sync.pc = "restore" /\ sync'.pc = "restore",
           sync'.base[p] = sync.base[p], sync'.listed[p] = sync.listed[p],
           p \in sync'.pulls <=> p \in sync.pulls,
           UNCHANGED <<halfway, others>>,
           baseline'[p] = baseline[p], sent'[p] = sent[p], remote'[p] = remote[p],
           writer'[p] = writer[p], call'["sync"][p] = call["sync"][p],
           folder' = "ours" => folder = "ours"
    PROVE  SelfPath(p)'
<1>1. p \in Nat /\ r \in Nat
  BY DEF Path
<1>2. (p < sync'.at <=> p < sync.at) /\ (p >= sync'.at <=> p >= sync.at) /\ p # sync.at
  BY <1>1
<1>4. SentInv(p)'
  BY DEF SelfPath, Tracked, SentInv
<1>5. RestoreInv(p)'
  BY <1>2 DEF SelfPath, Tracked, RestoreInv, Known
<1>6. CASE sync'.at = r
  BY <1>2, <1>4, <1>5, <1>6 DEF SelfPath, Tracked, Accounted, Known
<1>7. CASE sync'.at = r + 1 /\ sync'.pc # "unlink"
  BY <1>2, <1>4, <1>5, <1>7 DEF SelfPath, Tracked, Accounted, Known
<1> QED BY <1>6, <1>7

\* A step at the path the sync has come to.
LEMMA AtSelf ==
    ASSUME TypeOK, TurnInv, SelfInv, NEW r \in Path, sync.at = r,
           sync'.at = r \/ (sync'.at = r + 1 /\ sync'.pc # "unlink"),
           \/ sync.pc \in {"path", "unlink"} /\ sync'.pc \in {"path", "unlink"}
           \/ sync.pc = "restore" /\ sync'.pc = "restore",
           sync'.listed = sync.listed, r \in sync'.pulls => r \in sync.pulls \/ sync'.at = r + 1,
           \A p \in Path \ {r} :
             /\ sync'.base[p] = sync.base[p] /\ (p \in sync'.pulls <=> p \in sync.pulls)
             /\ baseline'[p] = baseline[p] /\ sent'[p] = sent[p] /\ remote'[p] = remote[p]
             /\ writer'[p] = writer[p] /\ call'["sync"][p] = call["sync"][p],
           UNCHANGED <<halfway, others, folder, flush>>,
           TypeOK', Before => SelfPath(r)'
    PROVE  SelfInv'
<1>1. StartInv'
  <2> SUFFICES ASSUME sync'.pc \in {"path", "unlink"}, NEW p \in sync'.pulls
               PROVE  p < sync'.at
    BY DEF StartInv
  <2>1. p \in Path /\ p \in Nat /\ r \in Nat
    BY DEF TypeOK, SyncState, Path
  <2>2. p \in sync.pulls => p < r
    BY DEF SelfInv, StartInv
  <2> QED BY <2>1, <2>2
<1>2. ASSUME Before, NEW p \in Path PROVE SelfPath(p)'
  <2>1. CASE p = r
    BY <1>2, <2>1
  <2>2. CASE p # r
    <3>1. SelfPath(p)
      BY <1>2 DEF SelfInv
    <3> QED BY <2>2, <3>1, OtherSelf
  <2> QED BY <2>1, <2>2
<1> QED BY <1>1, <1>2 DEF SelfInv, Before

\* The sync is done with a path.
LEMMA MoveSelf ==
    ASSUME TypeOK, TurnInv, SelfInv, TypeOK', NEW r \in Path, sync.at = r, sync.pc = "path",
           NEW sha, Advance(r, sha), call'["sync"][r] = NoRequest,
           \A p \in Path \ {r} :
             sent'[p] = sent[p] /\ call'["sync"][p] = call["sync"][p],
           UNCHANGED <<baseline, remote, writer, others, halfway, folder, flush>>,
           Before /\ ~halfway /\ Tracked(r) =>
             remote[r] = sha \/ (sent'[r] # Absent /\ remote[r] = sent'[r])
    PROVE  SelfInv'
<1>1. /\ sync'.at = r + 1 /\ sync'.pc = "path" /\ sync'.listed = sync.listed
      /\ sync'.pulls = sync.pulls /\ sync'.base = [sync.base EXCEPT ![r] = sha]
  BY DEF Advance, TypeOK, SyncState
<1>2. sync'.base[r] = sha /\ \A p \in Path \ {r} : sync'.base[p] = sync.base[p]
  BY <1>1 DEF TypeOK, SyncState
<1>3. r \notin sync'.pulls /\ r < r + 1 /\ ~(r >= r + 1)
  <2>1. r \in Nat
    BY DEF Path
  <2> QED BY <1>1, <2>1 DEF SelfInv, StartInv
<1>4. ASSUME Before PROVE SelfPath(r)'
  BY <1>1, <1>2, <1>3, <1>4 DEF SelfPath, Tracked, SentInv, RestoreInv, Accounted, Known
<1> QED BY <1>1, <1>2, <1>4, AtSelf

\* A request is sent about a path, or again.
LEMMA SendSelf ==
    ASSUME TypeOK, TurnInv, SelfInv, TypeOK', NEW r \in Path, sync.at = r, sync.pc = "path",
           /\ sync'.at = r /\ sync'.pc = "path" /\ sync'.listed = sync.listed
           /\ sync'.pulls = sync.pulls /\ sync'.base = sync.base,
           call'["sync"][r] # NoRequest, ~call'["sync"][r].landed,
           call'["sync"][r].content # Absent => sent'[r] = call'["sync"][r].content,
           \A p \in Path \ {r} :
             sent'[p] = sent[p] /\ call'["sync"][p] = call["sync"][p],
           UNCHANGED <<baseline, remote, writer, others, halfway, folder, flush>>,
           Before /\ ~halfway /\ Tracked(r) => remote[r] = call'["sync"][r].keep
    PROVE  SelfInv'
<1>1. ~(r < r) /\ r >= r
  BY DEF Path
<1>2. ASSUME Before PROVE SelfPath(r)'
  BY <1>1, <1>2 DEF SelfPath, Tracked, SentInv, RestoreInv, Accounted, Known
<1> QED BY <1>2, AtSelf

\* What the sync knows of a path when it comes to it, and while a request is on its way.
LEMMA AtPath ==
    ASSUME SelfInv, Before, ~halfway, NEW r \in Path, sync.at = r, sync.pc = "path",
           Tracked(r)
    PROVE  IF call["sync"][r] = NoRequest
           THEN remote[r] = baseline[r] /\ remote[r] = sync.listed[r]
           ELSE remote[r] = IF call["sync"][r].landed
                            THEN call["sync"][r].content ELSE call["sync"][r].keep
<1>1. r >= r
  BY DEF Path
<1> QED BY <1>1 DEF SelfInv, SelfPath, Tracked, Accounted

\* An answer.  The upload whose answer is lost is remembered; a delete's must not be lost.
LEMMA AnswerSelf ==
    ASSUME ~LostDeletes, TypeOK, TurnInv, SelfInv, TypeOK', NEW r \in Path,
           Lands("sync", r) \/ Answer("sync", r) \/ Deleted(r)
    PROVE  SelfInv'
<1> USE DEF world, history, counts
<1> DEFINE c == call["sync"][r]
<1>1. c # NoRequest /\ sync.at = r /\ sync.pc = "path" /\ c \in Request
  <2>1. c # NoRequest
    BY DEF Lands, Answer, Saved, Unheard, Rejected, UpdateFindsNone, Conflicts, Deleted
  <2> QED BY <2>1, RequestType DEF TurnInv
<1>2. ASSUME Before, ~halfway, Tracked(r)
      PROVE  remote[r] = IF c.landed THEN c.content ELSE c.keep
  BY <1>1, <1>2, AtPath
<1>3. ASSUME Before, c.content # Absent PROVE sent[r] = c.content
  BY <1>1, <1>3 DEF SelfInv, SelfPath, Tracked, SentInv
<1>4. CASE Lands("sync", r)
  <2>1. /\ call'["sync"][r].landed /\ call'["sync"][r].content = c.content
        /\ call'["sync"][r] # NoRequest
        /\ \A p \in Path \ {r} : call'["sync"][p] = call["sync"][p]
    <3>1. call'["sync"][r] = [c EXCEPT !.landed = TRUE]
      BY <1>4 DEF Lands, TypeOK
    <3>2. call'["sync"][r] \in Request
      BY <1>1, <3>1 DEF Request
    <3>3. \A p \in Path \ {r} : call'["sync"][p] = call["sync"][p]
      BY <1>4 DEF Lands, TypeOK
    <3>4. [c EXCEPT !.landed = TRUE].landed /\ [c EXCEPT !.landed = TRUE].content = c.content
      BY <1>1 DEF Request
    <3> QED BY <3>1, <3>2, <3>3, <3>4, RequestAssumption
  <2>5. /\ remote'[r] = c.content
        /\ \A p \in Path \ {r} : remote'[p] = remote[p] /\ writer'[p] = writer[p]
    BY <1>4 DEF Lands, TypeOK
  <2>2. UNCHANGED <<sync, sent, baseline, others, halfway, folder, flush>>
    BY <1>4 DEF Lands, attach
  <2>3. ~(r < r)
    BY DEF Path
  <2>4. ASSUME Before PROVE SelfPath(r)'
    BY <1>1, <1>3, <2>1, <2>2, <2>3, <2>4, <2>5 DEF SelfPath, Tracked, SentInv, RestoreInv, Accounted
  <2> QED BY <1>1, <2>1, <2>2, <2>4, <2>5, AtSelf
<1>5. ASSUME NEW sha, NEW saved, Conclude("sync", r, sha, saved),
             UNCHANGED <<baseline, remote, writer, others, halfway, folder, flush>>,
             \A p \in Path \ {r} : sent'[p] = sent[p],
             Before /\ ~halfway /\ Tracked(r) =>
               remote[r] = sha \/ (sent'[r] # Absent /\ remote[r] = sent'[r])
      PROVE  SelfInv'
  <2>1. call'["sync"][r] = NoRequest
        /\ \A p \in Path \ {r} : call'["sync"][p] = call["sync"][p]
    BY <1>5 DEF Conclude, TypeOK
  <2>2. Advance(r, sha)
    BY <1>5 DEF Conclude
  <2> QED BY <1>1, <1>5, <2>1, <2>2, MoveSelf
<1>6. CASE Saved("sync", r)
  <2>1. /\ Conclude("sync", r, c.content, TRUE) /\ c.landed
        /\ UNCHANGED <<remote, writer, others, halfway, folder, flush>>
    BY <1>6 DEF Saved, Conclude
  <2>2. baseline' = baseline /\ \A p \in Path \ {r} : sent'[p] = sent[p]
    BY <1>6 DEF Saved, Conclude, TypeOK
  <2> QED BY <1>2, <1>5, <2>1, <2>2
<1>7. CASE Unheard("sync", r)
  <2>1. /\ Conclude("sync", r, c.keep, FALSE) /\ (c.content = Absent => ~c.landed)
        /\ UNCHANGED <<remote, writer, others, halfway, folder, flush, sent>>
    BY <1>7 DEF Unheard, Conclude
  <2>2. baseline' = baseline
    BY <2>1 DEF Conclude
  <2> QED BY <1>2, <1>3, <1>5, <2>1, <2>2
<1>8. CASE Rejected("sync", r)
  <2>1. /\ Conclude("sync", r, c.keep, FALSE) /\ c.content # Absent
        /\ UNCHANGED <<remote, writer, others, halfway, folder, flush, sent>>
    BY <1>8, ContentAssumption DEF Rejected, Conclude, Content
  <2>2. baseline' = baseline
    BY <2>1 DEF Conclude
  <2> QED BY <1>2, <1>3, <1>5, <2>1, <2>2
<1>9. CASE Conflicts("sync", r)
  <2>1. /\ Conclude("sync", r, c.keep, FALSE) /\ ~c.landed
        /\ UNCHANGED <<remote, writer, others, halfway, folder, flush, sent>>
    BY <1>9 DEF Conflicts, Conclude
  <2>2. baseline' = baseline
    BY <2>1 DEF Conclude
  <2> QED BY <1>2, <1>5, <2>1, <2>2
<1>10. CASE Deleted(r)
  <2>1. /\ Conclude("sync", r, Absent, FALSE) /\ c.content = Absent
        /\ remote[r] = Absent \/ c.landed
        /\ UNCHANGED <<remote, writer, others, halfway, folder, flush, sent>>
    BY <1>10 DEF Deleted, Conclude
  <2>2. baseline' = baseline
    BY <2>1 DEF Conclude
  <2> QED BY <1>2, <1>5, <2>1, <2>2
<1>11. CASE UpdateFindsNone("sync", r)
  <2>1. UNCHANGED <<remote, writer, others, halfway, folder, flush>> /\ ~c.landed
    BY <1>11 DEF UpdateFindsNone, Conclude
  <2>2. CASE disk[r] = Absent
    <3>1. Conclude("sync", r, c.keep, FALSE) /\ UNCHANGED sent
      BY <1>11, <2>2 DEF UpdateFindsNone
    <3>2. baseline' = baseline
      BY <3>1 DEF Conclude
    <3> QED BY <1>2, <1>5, <2>1, <3>1, <3>2
  <2>3. CASE disk[r] # Absent
    <3>1. Upload("sync", r, Absent, c.keep, c.local) /\ UNCHANGED <<baseline, sync>>
      BY <1>11, <2>3 DEF UpdateFindsNone
    <3>2. /\ call'["sync"][r] # NoRequest /\ ~call'["sync"][r].landed
          /\ call'["sync"][r].keep = c.keep
          /\ sent'[r] = call'["sync"][r].content
      <4>1. call'["sync"][r] = [content |-> disk[r], over |-> Absent, keep |-> c.keep,
                                local |-> c.local, landed |-> FALSE]
        BY <3>1 DEF Upload, TypeOK
      <4>2. call'["sync"][r] \in Request
        BY <1>1, <4>1 DEF TypeOK, Request, File
      <4>4. /\ ~call'["sync"][r].landed /\ call'["sync"][r].keep = c.keep
            /\ call'["sync"][r].content = disk[r]
        BY <4>1
      <4>3. sent'[r] = disk[r]
        BY <3>1 DEF Upload, TypeOK
      <4> QED BY <4>2, <4>3, <4>4, RequestAssumption
    <3>3. \A p \in Path \ {r} : sent'[p] = sent[p] /\ call'["sync"][p] = call["sync"][p]
      BY <3>1 DEF Upload, TypeOK
    <3> QED BY <1>1, <1>2, <2>1, <3>1, <3>2, <3>3, SendSelf
  <2> QED BY <2>2, <2>3
<1> QED BY <1>4, <1>6, <1>7, <1>8, <1>9, <1>10, <1>11 DEF Answer

\* A path the sync looks at: what it finds unchanged on the server stays on record.
LEMMA SyncPathSelf ==
    ASSUME TypeOK, TurnInv, SelfInv, TypeOK', NEW r \in Path, SyncPath(r) PROVE SelfInv'
<1> USE DEF world, history, counts
<1> DEFINE Ours == Before /\ ~halfway /\ Tracked(r)
<1>0. /\ Absent \in File /\ sync.scan[r] \in File /\ sync.listed[r] \in File
      /\ disk[r] \in File /\ baseline[r] \in File
  BY DEF TypeOK, SyncState, File
<1>1. ASSUME Turn(r), Ours PROVE remote[r] = baseline[r] /\ remote[r] = sync.listed[r]
  BY <1>1, AtPath DEF Turn
<1>2. ASSUME NEW sha, Turn(r), Note(r, sha), Ours => remote[r] = sha PROVE SelfInv'
  <2>1. UNCHANGED <<baseline, remote, writer, others, halfway, folder, flush, sent, call>>
    BY <1>2 DEF Note
  <2> QED BY <1>2, <2>1, MoveSelf DEF Turn, Note
<1>3. ASSUME NEW over \in File, NEW local \in File, Turn(r), Push(r, over, local), Ours => remote[r] = over
      PROVE  SelfInv'
  <2>1. UNCHANGED <<baseline, remote, writer, others, halfway, folder, flush>>
    BY <1>3 DEF Push
  <2>2. CASE disk[r] = Absent
    <3>1. Advance(r, over) /\ UNCHANGED <<sent, call>>
      BY <1>3, <2>2 DEF Push
    <3> QED BY <1>3, <2>1, <3>1, MoveSelf DEF Turn
  <2>3. CASE disk[r] # Absent
    <3>1. Upload("sync", r, over, over, local) /\ UNCHANGED sync
      BY <1>3, <2>3 DEF Push
    <3>2. call'["sync"][r] = [content |-> disk[r], over |-> over, keep |-> over,
                              local |-> local, landed |-> FALSE]
      BY <3>1 DEF Upload, TypeOK
    <3>3. /\ ~call'["sync"][r].landed /\ call'["sync"][r].keep = over
          /\ call'["sync"][r].content = disk[r] /\ "landed" \in DOMAIN call'["sync"][r]
      BY <3>2
    <3>4. sent'[r] = disk[r]
          /\ \A p \in Path \ {r} : sent'[p] = sent[p] /\ call'["sync"][p] = call["sync"][p]
      BY <3>1 DEF Upload, TypeOK
    <3>5. CASE call'["sync"][r] # NoRequest
      BY <1>3, <2>1, <3>1, <3>3, <3>4, <3>5, SendSelf DEF Turn
    <3>6. call'["sync"][r] \in Request
      BY <1>0, <3>2 DEF Request
    <3> QED BY <3>5, <3>6, RequestAssumption
  <2> QED BY <2>2, <2>3
<1>4. ASSUME NEW sha \in File, Turn(r), Create(r, sha), Ours => remote[r] = Absent PROVE SelfInv'
  BY <1>0, <1>2, <1>3, <1>4 DEF Create
<1>5. CASE HoldDelete(r)
  <2> DEFINE used == IF store.deletes = "log_only" /\ MayDelete(r)
                     THEN sync.used + 1 ELSE sync.used
  <2>1. sync' = [sync EXCEPT !.at = @ + 1, !.base[r] = baseline[r], !.used = used]
    BY <1>5 DEF HoldDelete
  <2> HIDE DEF used
  <2>2. /\ sync'.at = sync.at + 1 /\ sync'.pc = sync.pc /\ sync'.listed = sync.listed
        /\ sync'.pulls = sync.pulls /\ sync'.base = [sync.base EXCEPT ![r] = baseline[r]]
    BY <2>1 DEF TypeOK, SyncState
  <2>3. sync'.base[r] = baseline[r] /\ \A p \in Path \ {r} : sync'.base[p] = sync.base[p]
    BY <2>2 DEF TypeOK, SyncState
  <2>4. UNCHANGED <<baseline, remote, writer, others, halfway, folder, flush, sent, call>> /\ Turn(r)
    BY <1>5 DEF HoldDelete
  <2>5. r < r + 1 /\ ~(r >= r + 1) /\ r \notin sync.pulls
    <3>1. r \in Nat
      BY DEF Path
    <3> QED BY <2>4, <3>1 DEF Turn, SelfInv, StartInv
  <2>6. ASSUME Before PROVE SelfPath(r)'
    BY <1>1, <2>2, <2>3, <2>4, <2>5, <2>6
       DEF Turn, SelfPath, Tracked, SentInv, RestoreInv, Accounted, Known
  <2> QED BY <2>2, <2>3, <2>4, <2>6, AtSelf DEF Turn
<1>6. CASE SendDelete(r)
  <2>1. /\ sync'.at = sync.at /\ sync'.pc = sync.pc /\ sync'.listed = sync.listed
        /\ sync'.pulls = sync.pulls /\ sync'.base = sync.base
    BY <1>6 DEF SendDelete, TypeOK, SyncState
  <2>2. UNCHANGED <<baseline, remote, writer, others, halfway, folder, flush, sent>> /\ Turn(r)
    BY <1>6 DEF SendDelete
  <2>3. call'["sync"][r] = [content |-> Absent, over |-> baseline[r], keep |-> baseline[r],
                            local |-> Absent, landed |-> FALSE]
        /\ \A p \in Path \ {r} : call'["sync"][p] = call["sync"][p]
    BY <1>6 DEF SendDelete, TypeOK
  <2>4. call'["sync"][r] # NoRequest
    <3>1. call'["sync"][r] \in Request
      BY <1>0, <2>3 DEF Request
    <3> QED BY <3>1, RequestAssumption
  <2>5. /\ ~call'["sync"][r].landed /\ call'["sync"][r].keep = baseline[r]
        /\ call'["sync"][r].content = Absent
    BY <2>3
  <2> QED BY <1>1, <2>1, <2>2, <2>3, <2>4, <2>5, SendSelf DEF Turn
<1>7. CASE Forget(r) \/ PushNew(r)
  BY <1>0, <1>1, <1>2, <1>4, <1>7 DEF Forget, PushNew, Settling
<1>8. CASE CompareDeleted(r)
  <2>1. Turn(r) /\ ~Ours
    BY <1>1, <1>8 DEF CompareDeleted, Settling
  <2>2. CASE Fresh(r) = baseline[r] /\ Fresh(r) # Absent
    <3>1. /\ sync' = [sync EXCEPT !.pc = "unlink"]
          /\ UNCHANGED <<baseline, remote, writer, others, halfway, folder, flush, sent, call>>
      BY <1>8, <2>2 DEF CompareDeleted
    <3>2. /\ sync'.at = r /\ sync'.pc = "unlink" /\ sync'.listed = sync.listed
          /\ sync'.pulls = sync.pulls /\ sync'.base = sync.base
      BY <2>1, <3>1 DEF Turn, TypeOK, SyncState
    <3>3. ASSUME Before PROVE SelfPath(r)'
      BY <2>1, <3>1, <3>2, <3>3 DEF Turn, SelfPath, Tracked, SentInv, RestoreInv
    <3> QED BY <2>1, <3>1, <3>2, <3>3, AtSelf DEF Turn
  <2>3. CASE ~(Fresh(r) = baseline[r] /\ Fresh(r) # Absent)
    BY <1>0, <1>2, <1>4, <1>8, <2>1, <2>3 DEF CompareDeleted, Fresh
  <2> QED BY <2>2, <2>3
<1>9. CASE Unlink(r)
  <2>1. /\ sync'.at = r + 1 /\ sync'.pc = "path" /\ sync'.listed = sync.listed
        /\ sync'.pulls = sync.pulls /\ sync'.base = sync.base
    BY <1>9 DEF Unlink, TypeOK, SyncState
  <2>2. UNCHANGED <<baseline, remote, writer, others, halfway, folder, flush, sent, call>>
        /\ sync.pc = "unlink" /\ sync.at = r /\ call["sync"][r] = NoRequest
    BY <1>9 DEF Unlink, attach, TurnInv
  <2>3. ASSUME Ours PROVE FALSE
    BY <2>2, <2>3 DEF SelfInv, SelfPath, Tracked, Accounted
  <2>4. ASSUME Before PROVE SelfPath(r)'
    BY <2>1, <2>2, <2>3, <2>4 DEF SelfPath, Tracked, SentInv, RestoreInv
  <2> QED BY <2>1, <2>2, <2>4, AtSelf
<1>10. CASE TakeRemote(r)
  <2>1. /\ sync'.at = sync.at + 1 /\ sync'.pc = sync.pc /\ sync'.listed = sync.listed
        /\ sync'.pulls = sync.pulls \union {r}
        /\ sync'.base = [sync.base EXCEPT ![r] = baseline[r]]
    BY <1>10 DEF TakeRemote, TypeOK, SyncState
  <2>2. \A p \in Path \ {r} : sync'.base[p] = sync.base[p]
    BY <2>1 DEF TypeOK, SyncState
  <2>3. UNCHANGED <<baseline, remote, writer, others, halfway, folder, flush, sent, call>> /\ Turn(r)
    BY <1>10 DEF TakeRemote, Settling
  <2>4. ~Ours
    BY <1>1, <1>10 DEF TakeRemote, Settling, RemoteChanged
  <2>5. ASSUME Before PROVE SelfPath(r)'
    BY <2>1, <2>3, <2>4, <2>5 DEF Turn, SelfPath, Tracked, SentInv, RestoreInv
  <2> QED BY <2>1, <2>2, <2>3, <2>5, AtSelf DEF Turn
<1>11. CASE Adopt(r)
  BY <1>1, <1>2, <1>11 DEF Adopt, Settling, RemoteChanged
<1>12. CASE PushEdit(r)
  BY <1>0, <1>1, <1>2, <1>3, <1>12 DEF PushEdit, Settling
<1>13. CASE Unchanged(r)
  BY <1>1, <1>2, <1>13 DEF Unchanged, Settling
<1> QED BY <1>5, <1>6, <1>7, <1>8, <1>9, <1>10, <1>11, <1>12, <1>13 DEF SyncPath

\* The steps of a sync between paths.
LEMMA LoopSelf ==
    ASSUME TypeOK, TurnInv, SelfInv, TypeOK',
           \/ StartSync \/ Scan \/ List \/ ListFails \/ EndPaths \/ EndSync
           \/ Stamp \/ EndRestore \/ RestoreFails
    PROVE  SelfInv'
<1> USE DEF world, attach, history, counts
<1> USE NothingType
<1>0. /\ Off.pc = "off" /\ Off.at = 1 /\ Off.pulls = {}
      /\ \A f \in BOOLEAN, k \in {"off", "scan"} :
           LET s == [Off EXCEPT !.pc = k, !.final = f]
           IN  s.pc = k /\ s.at = 1 /\ s.pulls = {}
  BY DEF Off
<1>1. \A p \in Path : p \in Nat /\ 1 <= p /\ p <= N /\ p < N + 1
  BY PathAssumption DEF Path
\* Not at a path, there is no request.
<1>2. ASSUME sync.pc # "path" PROVE \A p \in Path : call["sync"][p] = NoRequest
  BY <1>2 DEF TurnInv
<1>3. CASE StartSync
  <2>1. sync' = [Off EXCEPT !.pc = "scan"]
    BY <1>3 DEF StartSync
  <2>2. sync'.pc = "scan" /\ sync'.at = 1 /\ sync'.pulls = {} /\ sync.pc = "off"
    BY <1>3, <2>1 DEF Off, StartSync
  <2> QED BY <1>3, <2>2 DEF StartSync, SelfInv, StartInv, Before, SelfPath, Tracked, SentInv, RestoreInv,
                            Accounted, Known
<1>4. CASE Scan
  <2>1. sync.pc = "scan" /\ sync.at = 1 /\ sync.pulls = {}
    BY <1>4 DEF Scan, SelfInv, StartInv
  <2>2. \/ folder = "ours" /\ sync'.pc = "list" /\ sync'.at = 1 /\ sync'.pulls = {}
        \/ folder # "ours" /\ sync' = Off
        \/ sync'.pc = "stamp"
    <3>1. \/ folder = "ours" /\ sync' = [sync EXCEPT !.pc = "list", !.scan = disk]
          \/ folder # "ours" /\ sync' = Off
          \/ sync' = [sync EXCEPT !.pc = "stamp"]
      BY <1>4 DEF Scan
    <3>2. ASSUME sync' = [sync EXCEPT !.pc = "list", !.scan = disk]
          PROVE  sync'.pc = "list" /\ sync'.at = 1 /\ sync'.pulls = {}
      BY <2>1, <3>2 DEF TypeOK, SyncState
    <3>3. ASSUME sync' = [sync EXCEPT !.pc = "stamp"] PROVE sync'.pc = "stamp"
      BY <3>3 DEF TypeOK, SyncState
    <3> QED BY <3>1, <3>2, <3>3
  <2> QED BY <1>0, <1>4, <2>1, <2>2
          DEF Scan, SelfInv, StartInv, Before, SelfPath, Tracked, SentInv, RestoreInv, Accounted, Known
<1>5. CASE List
  <2>1. sync.pc = "list" /\ sync.at = 1 /\ sync.pulls = {}
    BY <1>5 DEF List, SelfInv, StartInv
  <2>2. \/ sync'.pc = "stamp"
        \/ sync'.pc = "path" /\ sync'.at = 1 /\ sync'.pulls = {} /\ sync'.listed = remote
    BY <1>5, <2>1 DEF List, TypeOK, SyncState
  <2>3. UNCHANGED <<remote, writer, others, halfway, folder, flush, call>>
    BY <1>5 DEF List
  <2>4. ASSUME Before, ~halfway, NEW p \in Path, Tracked(p) PROVE baseline'[p] = remote[p]
    <3>1. Known(p, baseline[p])
      BY <2>1, <2>4 DEF SelfInv, SelfPath, Tracked, Accounted
    <3>2. baseline'[p] = IF sent[p] # Absent /\ remote[p] = sent[p] THEN sent[p] ELSE baseline[p]
      BY <1>5 DEF List, Settled
    <3> QED BY <3>1, <3>2 DEF Known
  <2>5. \A p \in Path : ~(p < 1) /\ p >= 1
    BY <1>1
  <2> QED BY <1>2, <2>1, <2>2, <2>3, <2>4, <2>5
          DEF SelfInv, StartInv, Before, SelfPath, Tracked, SentInv, RestoreInv, Accounted
<1>6. CASE ListFails \/ EndSync
  <2>1. sync.pc \in {"list", "pull"} /\ sync' = Off
    BY <1>6 DEF ListFails, EndSync
  <2>2. UNCHANGED <<remote, writer, others, halfway, folder, flush, call, baseline, sent>>
    BY <1>6 DEF ListFails, EndSync
  <2> QED BY <1>0, <1>2, <2>1, <2>2
          DEF SelfInv, StartInv, Before, SelfPath, Tracked, SentInv, RestoreInv, Accounted, Known
<1>7. CASE EndPaths
  <2>1. sync.pc = "path" /\ sync.at = N + 1 /\ baseline' = sync.base
    BY <1>7 DEF EndPaths
  <2>2. sync'.pc = "pull" /\ sync'.pulls = sync.pulls
    BY <1>7 DEF EndPaths, Off
  <2>3. UNCHANGED <<remote, writer, others, halfway, folder, flush, call, sent>>
    BY <1>7 DEF EndPaths
  <2> QED BY <1>1, <2>1, <2>2, <2>3
          DEF SelfInv, StartInv, Before, SelfPath, Tracked, SentInv, RestoreInv, Accounted, Known
<1>8. CASE Stamp
  <2>1. sync.pc = "stamp" /\ sync'.pc = "restore" /\ sync'.at = 1
    BY <1>8 DEF Stamp, TypeOK, SyncState
  <2>2. UNCHANGED <<writer, others, halfway, phase, call>> /\ baseline' = Nothing
    BY <1>8 DEF Stamp
  <2>3. \A p \in Path : ~(p < 1)
    BY <1>1
  <2> QED BY <1>2, <2>1, <2>2, <2>3
          DEF SelfInv, StartInv, Before, SelfPath, Tracked, SentInv, RestoreInv, Accounted
<1>9. CASE EndRestore
  <2>1. sync.pc = "restore" /\ sync.at = N + 1 /\ sync' = Off /\ (Before' => Before)
    BY <1>9 DEF EndRestore, Before
  <2>2. UNCHANGED <<remote, writer, others, folder, call, baseline, sent>>
    BY <1>9 DEF EndRestore
  <2> QED BY <1>0, <1>1, <1>2, <2>1, <2>2
          DEF SelfInv, StartInv, SelfPath, Tracked, SentInv, RestoreInv, Accounted, Known
<1>10. CASE RestoreFails
  <2>1. sync.pc = "restore" /\ sync' = Off /\ halfway' /\ UNCHANGED call
    BY <1>10 DEF RestoreFails
  <2> QED BY <1>0, <1>2, <2>1
          DEF SelfInv, StartInv, SelfPath, Tracked, SentInv, RestoreInv
<1> QED BY <1>3, <1>4, <1>5, <1>6, <1>7, <1>8, <1>9, <1>10

\* Fetches, and the steps of a rebuild.
LEMMA PullSelf ==
    ASSUME TypeOK, TurnInv, SelfInv, TypeOK', NEW r \in Path,
           Pull(r) \/ PullFindsNone(r) \/ PullFails(r) \/ Restore(r)
    PROVE  SelfInv'
<1> USE DEF world, attach, history, counts
<1>1. CASE Pull(r) \/ PullFindsNone(r) \/ PullFails(r)
  <2>1. /\ sync'.pc = "pull" /\ sync.pc = "pull" /\ r \in sync.pulls
        /\ sync'.pulls = sync.pulls \ {r}
    BY <1>1 DEF Pull, PullFindsNone, PullFails, TypeOK, SyncState
  <2>2. UNCHANGED <<remote, writer, others, halfway, folder, flush, call, sent>>
    BY <1>1 DEF Pull, PullFindsNone, PullFails
  <2>3. \A p \in Path \ {r} : baseline'[p] = baseline[p]
    BY <1>1 DEF Pull, PullFindsNone, PullFails, PullBase, Put, TypeOK
  <2>4. ASSUME Before, ~halfway, Tracked(r) PROVE FALSE
    BY <2>1, <2>4 DEF SelfInv, SelfPath, Tracked, Accounted
  <2> QED BY <2>1, <2>2, <2>3, <2>4
          DEF SelfInv, StartInv, Before, SelfPath, Tracked, SentInv, RestoreInv, Accounted, Known
<1>2. CASE Restore(r)
  <2>1. /\ sync.pc = "restore" /\ sync.at = r /\ sync'.pc = "restore" /\ sync'.at = r + 1
        /\ sync'.listed = sync.listed /\ sync'.pulls = sync.pulls /\ sync'.base = sync.base
    BY <1>2 DEF Restore, TypeOK, SyncState
  <2>2. UNCHANGED <<remote, writer, others, halfway, folder, flush, call, sent>>
    BY <1>2 DEF Restore
  <2>3. \A p \in Path \ {r} : baseline'[p] = baseline[p]
    BY <1>2 DEF Restore, Put, TypeOK
  <2>4. call["sync"][r] = NoRequest
    BY <2>1 DEF TurnInv
  <2>5. ASSUME Before, folder = "ours" PROVE baseline'[r] = remote[r]
    <3>1. r >= r
      BY DEF Path
    <3>2. baseline[r] = Absent
      BY <2>1, <2>5, <3>1 DEF SelfInv, SelfPath, Tracked, RestoreInv
    <3> QED BY <1>2, <2>5, <3>2 DEF Restore, Put, TypeOK
  <2>6. r < r + 1 /\ ~(r >= r + 1)
    BY DEF Path
  <2>7. ASSUME Before PROVE SelfPath(r)'
    BY <2>1, <2>2, <2>4, <2>5, <2>6, <2>7 DEF SelfPath, Tracked, SentInv, RestoreInv, Accounted, Known
  <2> QED BY <2>1, <2>2, <2>3, <2>7, AtSelf
<1> QED BY <1>1, <1>2

LEMMA EnvironmentSelf ==
    ASSUME TypeOK, SelfInv, Environment \/ \E r \in Path : WindowPasses(r) PROVE SelfInv'
<1> USE DEF world, attach, history, counts
<1>1. sync' = sync /\ UNCHANGED <<flush, baseline, sent, call, halfway>>
  BY DEF Environment, Wipe, Spoil, AgentWrites, AgentRemoves, OtherWrites, WindowPasses
<1>2. folder' = "ours" => folder = "ours"
  BY DEF Environment, Wipe, Spoil, AgentWrites, AgentRemoves, OtherWrites, WindowPasses
<1>3. \A p \in Path : Tracked(p)' => Tracked(p) /\ remote'[p] = remote[p]
  <2>1. CASE UNCHANGED <<remote, writer, others>>
    BY <2>1 DEF Tracked
  <2>2. ASSUME NEW r \in Path, OtherWrites(r), NEW p \in Path, Tracked(p)'
        PROVE  Tracked(p) /\ remote'[p] = remote[p]
    <3>1. others' # 0
      BY <2>2 DEF OtherWrites, TypeOK
    <3> QED BY <2>2, <3>1 DEF OtherWrites, Tracked, TypeOK
  <2>3. UNCHANGED <<remote, writer, others>> \/ \E r \in Path : OtherWrites(r)
    BY DEF Environment, Wipe, Spoil, AgentWrites, AgentRemoves, WindowPasses
  <2> QED BY <2>1, <2>2, <2>3
<1> QED BY <1>1, <1>2, <1>3
        DEF SelfInv, StartInv, Before, SelfPath, Tracked, SentInv, RestoreInv, Accounted, Known

\* The flush that has not read the listing changes nothing that counts.
LEMMA TeardownSelf ==
    ASSUME TypeOK, PhaseInv, FlushCalls, TurnInv, SelfInv, FlushStep \/ Teardown PROVE SelfInv'
<1> USE DEF world, attach, history, counts
<1>0. ASSUME sync' = sync, Before' => Before,
             UNCHANGED <<remote, writer, others, halfway, call, baseline, sent>>,
             folder' = "ours" => folder = "ours"
      PROVE  SelfInv'
  BY <1>0 DEF SelfInv, StartInv, SelfPath, Tracked, SentInv, RestoreInv, Accounted, Known
<1>1. CASE EndClean
  <2>1. sync'.pc = "scan" /\ sync'.at = 1 /\ sync'.pulls = {} /\ sync.pc = "off"
    BY <1>1 DEF EndClean, Off
  <2>2. /\ UNCHANGED <<remote, writer, others, halfway, folder, call, baseline, sent>>
        /\ UNCHANGED flush
    BY <1>1 DEF EndClean
  <2> QED BY <2>1, <2>2
          DEF SelfInv, StartInv, SelfPath, Tracked, SentInv, RestoreInv, Accounted, Known, Before
<1>2. CASE EndInError \/ FinishOver
  <2>1. phase \in {"session", "finish"}
    BY <1>2 DEF EndInError, FinishOver, StartFlush
  <2>2. Before
    BY <2>1 DEF PhaseInv, Before, NoFlush
  <2> QED BY <1>0, <1>2, <2>2 DEF EndInError, FinishOver, StartFlush
<1>3. CASE LeaveFlush
  <2>1. Before' => Before
    BY <1>3 DEF LeaveFlush, Before, NoFlush
  <2> QED BY <1>0, <1>3, <2>1 DEF LeaveFlush
<1>4. CASE Dispose
  BY <1>0, <1>4 DEF Dispose, Before
<1>5. CASE FlushScan \/ FlushFails
  <2>1. UNCHANGED <<sync, remote, writer, others, halfway, call, baseline, sent, folder>>
    BY <1>5 DEF FlushScan, FlushFails
  <2>2. flush.pc \in {"scan", "list"}
    BY <1>5 DEF FlushScan, FlushFails
  <2> QED BY <1>0, <2>1, <2>2 DEF Before
<1>6. CASE FlushList \/ FlushDone \/ \E r \in Path : FlushSend(r)
  <2>1. sync' = sync /\ flush'.pc \in {"send", "done"}
    BY <1>6 DEF FlushList, FlushDone, FlushSend, TypeOK, FlushState
  <2> QED BY <2>1 DEF SelfInv, StartInv, Before
<1>7. ASSUME NEW r \in Path, Lands("flush", r) \/ Answer("flush", r) PROVE SelfInv'
  <2>1. sync' = sync /\ flush'.pc = flush.pc
    BY <1>7 DEF Lands, Answer, Saved, Unheard, Rejected, UpdateFindsNone, Conflicts, Conclude,
                Upload, TypeOK, FlushState
  <2>2. ~Before
    BY <1>7 DEF Lands, Answer, Saved, Unheard, Rejected, UpdateFindsNone, Conflicts, Before,
                FlushCalls
  <2> QED BY <2>1, <2>2 DEF SelfInv, StartInv, Before
<1> QED BY <1>1, <1>2, <1>3, <1>4, <1>5, <1>6, <1>7 DEF Teardown, FlushStep

LEMMA SelfStep ==
    ASSUME ~LostDeletes, TypeOK, TurnInv, PhaseInv, FlushCalls, SelfInv, [Next]_vars PROVE SelfInv'
<1>1. CASE UNCHANGED vars
  BY <1>1 DEF vars, SelfInv, StartInv, Before, SelfPath, Tracked, SentInv, RestoreInv, Accounted, Known
<1>2. TypeOK'
  BY TypeStep
<1> QED BY <1>1, <1>2, EnvironmentSelf, TeardownSelf, PullSelf, LoopSelf, SyncPathSelf,
           AnswerSelf
        DEF Next, SyncStep

\* A sync that takes a file off the disk is at its path, or fetches it.
LEMMA WhoTouches ==
    ASSUME TypeOK, Next, NEW p \in Path, phase \in {"session", "finish"},
           sync.pc \in {"unlink", "pull"}, edits' = edits, disk'[p] # disk[p]
    PROVE  Unlink(p) \/ Pull(p)
<1> USE DEF world, attach, history, counts
<1>1. ~Environment \/ \E r \in Path : OtherWrites(r)
  BY DEF Environment, Wipe, Spoil, AgentWrites, AgentRemoves, AgentActs, TypeOK
<1>2. ASSUME NEW r \in Path, SyncPath(r) PROVE Unlink(p)
  <2>1. Unlink(r)
    BY <1>2 DEF SyncPath, HoldDelete, SendDelete, Forget, PushNew, CompareDeleted, TakeRemote,
                Adopt, PushEdit, Unchanged, Create, Note, Push
  <2>2. r = p
    BY <2>1 DEF Unlink, TypeOK
  <2> QED BY <2>1, <2>2
<1>3. ASSUME NEW r \in Path, Pull(r) PROVE Pull(p)
  <2>1. r = p
    BY <1>3 DEF Pull, Put, TypeOK
  <2> QED BY <1>3, <2>1
<1>4. ASSUME NEW q \in {"sync", "flush"}, NEW r \in Path, Lands(q, r) \/ Answer(q, r)
      PROVE  FALSE
  BY <1>4 DEF Lands, Answer, Saved, Unheard, Rejected, UpdateFindsNone, Conflicts
<1>5. ASSUME NEW r \in Path,
             \/ PullFindsNone(r) \/ PullFails(r) \/ Restore(r) \/ Deleted(r) \/ WindowPasses(r)
             \/ FlushSend(r) \/ OtherWrites(r)
      PROVE  FALSE
  BY <1>5 DEF PullFindsNone, PullFails, Restore, Deleted, WindowPasses, FlushSend, OtherWrites
<1>6. CASE \/ StartSync \/ Scan \/ List \/ ListFails \/ EndPaths \/ EndSync \/ Stamp
           \/ EndRestore \/ RestoreFails \/ Teardown
           \/ FlushScan \/ FlushList \/ FlushFails \/ FlushDone
  BY <1>6 DEF StartSync, Scan, List, ListFails, EndPaths, EndSync, Stamp, EndRestore,
              RestoreFails, Teardown, EndClean, EndInError, FinishOver, StartFlush, LeaveFlush,
              Dispose, FlushScan, FlushList, FlushFails, FlushDone
<1> QED BY <1>1, <1>2, <1>3, <1>4, <1>5, <1>6 DEF Next, SyncStep, FlushStep

\* A sync takes a file from the agent, or writes over it, only for another writer's sake:
\* an upload of its own whose answer was lost is recognised (#settleSent), and one that
\* was answered is on record.  Where the answer to a delete may be lost this is not so.
THEOREM OwnEditsAreKept == ASSUME ~LostDeletes PROVE Spec => NoSelfLoss
<1> DEFINE Kept ==
        \A p \in Path :
          /\ phase \in {"session", "finish"} /\ ~halfway
          /\ sync.pc \in {"unlink", "pull"} /\ edits' = edits
          /\ disk[p] # Absent /\ disk'[p] # disk[p]
          => writer[p] = "them"
<1> DEFINE Inv == TypeOK /\ TurnInv /\ IdleInv /\ PhaseInv /\ FlushCalls /\ SelfInv
<1>1. ASSUME Inv, [Next]_vars PROVE Kept
  <2> SUFFICES ASSUME NEW p \in Path, phase \in {"session", "finish"}, ~halfway,
                      sync.pc \in {"unlink", "pull"}, edits' = edits, disk'[p] # disk[p],
                      writer[p] = "us"
               PROVE  FALSE
    BY <1>1 DEF TypeOK
  <2>1. Next
    BY <1>1 DEF vars
  <2>2. Unlink(p) \/ Pull(p)
    BY <1>1, <2>1, WhoTouches
  <2>3. Accounted(p)
    BY <1>1 DEF SelfInv, SelfPath, Tracked, Before, PhaseInv, NoFlush
  <2> QED BY <2>2, <2>3 DEF Accounted, Unlink, Pull
<1>2. Init => Inv
  <2> SUFFICES ASSUME Init PROVE Inv
    OBVIOUS
  <2>1. TypeOK /\ TurnInv
    BY InitFacts
  <2>2. /\ sync.pc = "stamp" /\ flush.pc = "off" /\ flush.todo = {}
        /\ \A q \in {"sync", "flush"}, p \in Path : call[q][p] = NoRequest
    BY DEF Init, Off, NoFlush
  <2> QED BY <2>1, <2>2
          DEF Init, IdleInv, PhaseInv, FlushCalls, SelfInv, StartInv, SelfPath, SentInv,
              RestoreInv, Accounted
<1>3. Inv /\ [Next]_vars => Inv'
  <2> SUFFICES ASSUME Inv, [Next]_vars PROVE Inv'
    OBVIOUS
  <2>1. TypeOK' /\ TurnInv'
    BY TypeStep
  <2>2. SelfInv'
    BY SelfStep
  <2>3. IdleInv' /\ PhaseInv' /\ FlushCalls'
    <3>1. CASE Next
      BY <3>1, IdleStep, PhaseStep, FlushCallsStep
    <3>2. CASE UNCHANGED vars
      BY <3>2 DEF vars, IdleInv, PhaseInv, FlushCalls
    <3> QED BY <3>1, <3>2
  <2> QED BY <2>1, <2>2, <2>3
<1>4. Inv /\ [Next]_vars => [Kept]_vars
  BY <1>1
<1> QED BY <1>2, <1>3, <1>4, PTL DEF Spec, NoSelfLoss
-----------------------------------------------------------------------------
(* What the flush saves.                                                    *)

\* The agent's time is over: nothing changes the files but a sync that is not over.
Late == phase \in {"finish", "flush", "dispose"}

\* The sync will not look at the path again, nor fetch it.
Past(p) ==
    /\ p \notin sync.pulls
    /\ sync.pc \in {"off", "pull"} \/ (sync.pc \in {"path", "unlink"} /\ p < sync.at)

\* What was scanned and what is sent is what is on disk.
Still(p) ==
    /\ sync.pc = "list" => sync.scan[p] = disk[p]
    /\ sync.pc \in {"path", "unlink"} /\ p >= sync.at => sync.scan[p] = disk[p]
    /\ sync.pc = "stamp" => disk[p] = Absent
    /\ sync.pc = "restore" /\ p >= sync.at => disk[p] = Absent
    /\ call["sync"][p] # NoRequest =>
         /\ call["sync"][p].content = disk[p]
         /\ call["sync"][p].landed /\ Tracked(p) => remote[p] = disk[p]
    /\ call["flush"][p] # NoRequest =>
         /\ call["flush"][p].content # Absent
         /\ call["flush"][p].content = disk[p] \/ Past(p)
         /\ sync.pc \notin {"stamp", "restore"}

\* What a sync has on record of a file, and will put in the baseline.
Recorded(p) ==
    /\ call["sync"][p] # NoRequest /\ disk[p] # Absent =>
         disk[p] # baseline[p] /\ call["sync"][p].keep \in {baseline[p], Absent}
    /\ sync.pc \in {"path", "unlink"} /\ p < sync.at /\ disk[p] # Absent =>
         /\ sync.base[p] \in {baseline[p], disk[p], Absent}
         /\ disk[p] = baseline[p] => sync.base[p] = disk[p]
    /\ sync.pc = "restore" =>
         sent[p] = Absent /\ (p < sync.at => disk[p] = baseline[p])

\* The sync has taken the file for another writer's, or away, for good.
Gone(p) == Past(p) /\ (disk[p] = Absent \/ (others > 0 /\ disk[p] \in Theirs))

Safe(p) == disk[p] \in Content \ Refusable =>
              remote[p] = disk[p] \/ refused[p] = disk[p] \/ Contested(p)

\* The memory is what a request of the flush replaces, or has been saved already.
Near(p, over) == Tracked(p) => remote[p] \in {over, Absent, disk[p]} \/ Gone(p)

Listing(p) ==
    IF p \in flush.todo THEN flush.scan[p] = disk[p] \/ Gone(p) ELSE Safe(p)

Sending(p) ==
    /\ p \in flush.todo => Near(p, flush.listed[p])
    /\ call["flush"][p] # NoRequest =>
         /\ call["flush"][p].content = disk[p] \/ Gone(p)
         /\ IF call["flush"][p].landed THEN (Tracked(p) => remote[p] = disk[p]) \/ Gone(p)
            ELSE Near(p, call["flush"][p].over)
    /\ p \notin flush.todo /\ call["flush"][p] = NoRequest => Safe(p)

\* A sync beside it takes no upload of the flush for another writer's edit.
Beside(p) ==
    Tracked(p) =>
      /\ p \in sync.pulls => remote[p] = disk[p]
      /\ sync.pc \in {"scan", "list"} => remote[p] \in {baseline[p], disk[p]}
      /\ sync.pc \in {"path", "unlink"} /\ p >= sync.at /\ call["sync"][p] = NoRequest =>
           baseline[p] = sync.listed[p] \/ remote[p] = disk[p]

\* The flush has ended well; or the folder is rebuilt beside one that has.
Ended == /\ flush.pc = "done" /\ flush.clean /\ folder = "ours" /\ ~store.readOnly
         /\ ~halfway \/ sync.pc = "restore"

PathSaved(p) ==
    /\ Still(p)
    /\ Before => Recorded(p)
    /\ flush.pc = "list" /\ ~halfway => Listing(p)
    /\ flush.pc = "send" /\ flush.clean /\ ~halfway => Sending(p) /\ Beside(p)
    /\ Ended => Safe(p)

\* A flush with something to send keeps the folder from being rebuilt.
KeepInv ==
    flush.pc \in {"list", "send"} =>
        /\ folder = "ours" /\ sync.pc \notin {"stamp", "restore"}
        /\ sync.pc \in {"scan", "list"} => \E p \in Path : disk[p] # Absent

WriterInv == \A p \in Path : writer[p] = "them" => remote[p] \in Theirs \union {Absent}

SaveInv == WriterInv /\ KeepInv /\ (Late => \A p \in Path : PathSaved(p))

LEMMA WriterStep == TypeOK /\ WriterInv /\ [Next]_vars => WriterInv'
<1> SUFFICES ASSUME TypeOK, WriterInv, [Next]_vars, NEW p \in Path, writer'[p] = "them"
             PROVE  remote'[p] \in Theirs \union {Absent}
  BY DEF WriterInv
<1> USE DEF world, attach, history, counts
<1>1. ASSUME NEW q \in {"sync", "flush"}, NEW r \in Path, Lands(q, r)
      PROVE  remote'[p] \in Theirs \union {Absent}
  <2>1. p # r
    BY <1>1 DEF Lands, TypeOK
  <2>2. remote'[p] = remote[p] /\ writer'[p] = writer[p]
    BY <1>1, <2>1 DEF Lands, TypeOK
  <2> QED BY <2>2 DEF WriterInv
<1>2. ASSUME NEW r \in Path, OtherWrites(r) PROVE remote'[p] \in Theirs \union {Absent}
  BY <1>2 DEF OtherWrites, TypeOK, WriterInv
<1>3. CASE UNCHANGED <<remote, writer>>
  BY <1>3 DEF WriterInv
<1>4. ASSUME NEW r \in Path, SyncPath(r) PROVE UNCHANGED <<remote, writer>>
  BY <1>4 DEF SyncPath, HoldDelete, SendDelete, Forget, PushNew, CompareDeleted, Unlink,
              TakeRemote, Adopt, PushEdit, Unchanged, Create, Note, Push
<1>5. ASSUME NEW q \in {"sync", "flush"}, NEW r \in Path, Answer(q, r) \/ Deleted(r)
      PROVE  UNCHANGED <<remote, writer>>
  BY <1>5 DEF Answer, Saved, Unheard, Rejected, UpdateFindsNone, Conflicts, Deleted
<1>6. CASE StartSync \/ Scan \/ List \/ ListFails \/ EndPaths \/ EndSync \/ Stamp \/ EndRestore
           \/ RestoreFails
  BY <1>3, <1>6 DEF StartSync, Scan, List, ListFails, EndPaths, EndSync, Stamp, EndRestore,
                    RestoreFails
<1>7. ASSUME NEW r \in Path,
             \/ Pull(r) \/ PullFindsNone(r) \/ PullFails(r) \/ Restore(r) \/ WindowPasses(r)
             \/ FlushSend(r)
      PROVE  UNCHANGED <<remote, writer>>
  BY <1>7 DEF Pull, PullFindsNone, PullFails, Restore, WindowPasses, FlushSend
<1>8. CASE FlushScan \/ FlushList \/ FlushFails \/ FlushDone \/ Teardown
  BY <1>3, <1>8 DEF FlushScan, FlushList, FlushFails, FlushDone, Teardown, EndClean,
                    EndInError, FinishOver, StartFlush, LeaveFlush, Dispose
<1>9. CASE Environment
  <2>1. UNCHANGED <<remote, writer>> \/ \E r \in Path : OtherWrites(r)
    BY <1>9 DEF Environment, Wipe, Spoil, AgentWrites, AgentRemoves
  <2> QED BY <1>2, <1>3, <2>1
<1>10. CASE UNCHANGED vars
  BY <1>3, <1>10 DEF vars
<1> QED BY <1>1, <1>3, <1>4, <1>5, <1>6, <1>7, <1>8, <1>9, <1>10 DEF Next, SyncStep, FlushStep

\* Who is tracked while no other writer acts, and who is not.
LEMMA Untracked ==
    ASSUME TypeOK, NEW p \in Path, ~Tracked(p) PROVE others > 0 /\ writer[p] = "them"
BY DEF TypeOK, Tracked

\* What a step at one path leaves alone at another.
LEMMA SameSave ==
    ASSUME NEW p \in Path, PathSaved(p),
           disk'[p] = disk[p], baseline'[p] = baseline[p],
           sent'[p] = sent[p] \/ sync.pc # "restore",
           \A q \in {"sync", "flush"} : call'[q][p] = call[q][p],
           Tracked(p)' => Tracked(p) /\ remote'[p] = remote[p],
           others > 0 => others' > 0, Safe(p) => Safe(p)',
           flush'.pc = flush.pc, flush'.clean => flush.clean,
           p \in flush'.todo <=> p \in flush.todo,
           flush'.scan[p] = flush.scan[p], flush'.listed[p] = flush.listed[p],
           UNCHANGED <<folder, store, halfway>>,
           \/ sync'.pc = sync.pc
           \/ sync.pc \in {"path", "unlink"} /\ sync'.pc \in {"path", "unlink"},
           p < sync'.at <=> p < sync.at, p >= sync'.at <=> p >= sync.at,
           sync'.scan[p] = sync.scan[p], sync'.listed[p] = sync.listed[p],
           sync'.base[p] = sync.base[p], p \in sync'.pulls <=> p \in sync.pulls
    PROVE  PathSaved(p)'
<1>1. Past(p)' <=> Past(p)
  BY DEF Past
<1>2. Still(p)'
  BY <1>1 DEF PathSaved, Still
<1>3. Recorded(p) => Recorded(p)'
  BY DEF Recorded
<1>4. Gone(p) => Gone(p)'
  BY <1>1 DEF Gone
<1>5. \A o : Near(p, o) => Near(p, o)'
  BY <1>4 DEF Near
<1>6. Listing(p) => Listing(p)'
  BY <1>4 DEF Listing
<1>7. Sending(p) => Sending(p)'
  BY <1>4, <1>5 DEF Sending
<1>8. Beside(p) => Beside(p)'
  BY DEF Beside
<1>9. Ended' => Ended
  BY DEF Ended
<1> QED BY <1>2, <1>3, <1>6, <1>7, <1>8, <1>9 DEF PathSaved, Before

\* Nothing a file is saved by changes.
LEMMA SameSafe ==
    ASSUME NEW p \in Path, Safe(p), disk'[p] = disk[p], remote'[p] = remote[p],
           refused'[p] = refused[p], writer'[p] = writer[p], others' = others
    PROVE  Safe(p)'
BY DEF Safe, Contested

LEMMA SameTracked ==
    ASSUME NEW p \in Path, writer'[p] = writer[p], others' = others
    PROVE  Tracked(p)' <=> Tracked(p)
BY DEF Tracked

\* What the steps below are taken from.
Facts == TypeOK /\ TurnInv /\ PhaseInv /\ FlushCalls /\ SelfInv /\ SaveInv

\* What a step that is about the path r leaves alone at the others.
Apart(r) ==
    \A p \in Path \ {r} :
      /\ disk'[p] = disk[p] /\ baseline'[p] = baseline[p] /\ remote'[p] = remote[p]
      /\ refused'[p] = refused[p] /\ writer'[p] = writer[p]
      /\ \A q \in {"sync", "flush"} : call'[q][p] = call[q][p]
      /\ sync'.scan[p] = sync.scan[p] /\ sync'.listed[p] = sync.listed[p]
      /\ sync'.base[p] = sync.base[p] /\ (p \in sync'.pulls <=> p \in sync.pulls)
      /\ flush'.scan[p] = flush.scan[p] /\ flush'.listed[p] = flush.listed[p]
      /\ (p \in flush'.todo <=> p \in flush.todo)
      /\ sent'[p] = sent[p]

LEMMA ApartSave ==
    ASSUME Facts, Late, NEW r \in Path, Apart(r),
           UNCHANGED <<folder, store, halfway, others>>,
           flush'.pc = flush.pc, flush'.clean => flush.clean,
           \/ sync'.pc = sync.pc
           \/ sync.pc \in {"path", "unlink"} /\ sync'.pc \in {"path", "unlink"},
           sync'.at = sync.at \/ (sync.at = r /\ sync'.at = r + 1),
           PathSaved(r)'
    PROVE  \A p \in Path : PathSaved(p)'
<1> SUFFICES ASSUME NEW p \in Path, p # r PROVE PathSaved(p)'
  OBVIOUS
<1>1. PathSaved(p)
  BY DEF Facts, SaveInv
<1>2. (p < sync'.at <=> p < sync.at) /\ (p >= sync'.at <=> p >= sync.at)
  BY DEF Path
<1>3. Safe(p) => Safe(p)'
  BY SameSafe DEF Apart
<1>4. Tracked(p)' => Tracked(p) /\ remote'[p] = remote[p]
  BY SameTracked DEF Apart
<1>5. /\ disk'[p] = disk[p] /\ baseline'[p] = baseline[p] /\ sent'[p] = sent[p]
      /\ \A q \in {"sync", "flush"} : call'[q][p] = call[q][p]
      /\ sync'.scan[p] = sync.scan[p] /\ sync'.listed[p] = sync.listed[p]
      /\ sync'.base[p] = sync.base[p] /\ (p \in sync'.pulls <=> p \in sync.pulls)
      /\ flush'.scan[p] = flush.scan[p] /\ flush'.listed[p] = flush.listed[p]
      /\ (p \in flush'.todo <=> p \in flush.todo)
  BY DEF Apart
<1> QED BY <1>1, <1>2, <1>3, <1>4, <1>5, SameSave

\* The sync is done with a path.
LEMMA MoveSave ==
    ASSUME Facts, TypeOK', Late, NEW r \in Path, sync.at = r, sync.pc = "path",
           NEW sha,
           /\ sync'.at = r + 1 /\ sync'.pc = "path" /\ sync'.scan = sync.scan
           /\ sync'.listed = sync.listed /\ sync'.pulls = sync.pulls
           /\ sync'.base = [sync.base EXCEPT ![r] = sha],
           call'["sync"][r] = NoRequest, call'["flush"] = call["flush"],
           \A p \in Path \ {r} :
             /\ sent'[p] = sent[p] /\ refused'[p] = refused[p]
             /\ call'["sync"][p] = call["sync"][p],
           UNCHANGED <<disk, folder, remote, store, baseline, writer, halfway, others, flush>>,
           Before /\ disk[r] # Absent =>
             /\ sha \in {baseline[r], disk[r], Absent}
             /\ disk[r] = baseline[r] => sha = disk[r],
           Safe(r) => Safe(r)'
    PROVE  \A p \in Path : PathSaved(p)'
<1>1. PathSaved(r)
  BY DEF Facts, SaveInv
<1>2. r < r + 1 /\ ~(r < r) /\ ~(r >= r + 1) /\ r >= r /\ r \notin sync.pulls
  <2>1. r \in Nat
    BY DEF Path
  <2> QED BY <2>1 DEF Facts, SelfInv, StartInv
<1>3. sync'.base[r] = sha /\ \A p \in Path \ {r} : sync'.base[p] = sync.base[p]
  BY DEF Facts, TypeOK, SyncState
<1>4. ~Past(r) /\ Past(r)' /\ ~Gone(r)
  BY <1>2 DEF Past, Gone
<1>5. Tracked(r)' <=> Tracked(r)
  BY DEF Tracked
<1>6. Still(r)'
  BY <1>1, <1>2, <1>4 DEF PathSaved, Still
<1>7. Before => Recorded(r)'
  BY <1>2, <1>3 DEF Recorded
<1>8. flush.pc = "list" /\ ~halfway => Listing(r)'
  BY <1>1, <1>4 DEF PathSaved, Listing
<1>9. flush.pc = "send" /\ flush.clean /\ ~halfway => Sending(r)' /\ Beside(r)'
  BY <1>1, <1>2, <1>4, <1>5 DEF PathSaved, Sending, Near, Beside
<1>10. Ended' => Ended
  BY DEF Ended
<1>11. PathSaved(r)'
  BY <1>1, <1>6, <1>7, <1>8, <1>9, <1>10 DEF PathSaved, Before
<1>12. Apart(r)
  BY <1>3 DEF Apart
<1> QED BY <1>11, <1>12, ApartSave

\* A request is sent about a path, or again.
LEMMA SendSave ==
    ASSUME Facts, TypeOK', Late, NEW r \in Path, sync.at = r, sync.pc = "path",
           /\ sync'.at = r /\ sync'.pc = "path" /\ sync'.scan = sync.scan
           /\ sync'.listed = sync.listed /\ sync'.pulls = sync.pulls /\ sync'.base = sync.base,
           call'["sync"][r] # NoRequest, ~call'["sync"][r].landed,
           call'["sync"][r].content = disk[r], call'["flush"] = call["flush"],
           Before /\ disk[r] # Absent =>
             disk[r] # baseline[r] /\ call'["sync"][r].keep \in {baseline[r], Absent},
           \A p \in Path \ {r} :
             sent'[p] = sent[p] /\ call'["sync"][p] = call["sync"][p],
           UNCHANGED <<disk, folder, remote, store, baseline, refused, writer, halfway, others,
                       flush>>
    PROVE  \A p \in Path : PathSaved(p)'
<1>1. PathSaved(r)
  BY DEF Facts, SaveInv
<1>2. ~(r < r) /\ r >= r
  BY DEF Path
<1>4. ~Past(r) /\ ~Past(r)' /\ ~Gone(r)
  BY <1>2 DEF Past, Gone
<1>5. Tracked(r)' <=> Tracked(r)
  BY DEF Tracked
<1>6. Still(r)'
  BY <1>1, <1>2, <1>4 DEF PathSaved, Still
<1>7. Before => Recorded(r)'
  BY <1>2 DEF Recorded
<1>8. Safe(r) => Safe(r)'
  BY DEF Safe, Contested
<1>9. flush.pc = "list" /\ ~halfway => Listing(r)'
  BY <1>1, <1>4, <1>8 DEF PathSaved, Listing
<1>10. flush.pc = "send" /\ flush.clean /\ ~halfway => Sending(r)' /\ Beside(r)'
  BY <1>1, <1>2, <1>4, <1>5, <1>8 DEF PathSaved, Sending, Near, Beside
<1>11. Ended' => Ended
  BY DEF Ended
<1>12. PathSaved(r)'
  BY <1>1, <1>6, <1>7, <1>8, <1>9, <1>10, <1>11 DEF PathSaved, Before
<1>13. Apart(r)
  BY DEF Apart
<1> QED BY <1>12, <1>13, ApartSave

\* An answer to a request of the sync, or the request itself landing.
LEMMA AnswerSave ==
    ASSUME Facts, TypeOK', Late, NEW r \in Path,
           Lands("sync", r) \/ Answer("sync", r) \/ Deleted(r)
    PROVE  \A p \in Path : PathSaved(p)'
<1> USE DEF world, history, counts
<1> DEFINE c == call["sync"][r]
<1>0. TypeOK /\ TurnInv
  BY DEF Facts
<1>1. c # NoRequest /\ sync.at = r /\ sync.pc = "path" /\ c \in Request
  <2>1. c # NoRequest
    BY DEF Lands, Answer, Saved, Unheard, Rejected, UpdateFindsNone, Conflicts, Deleted
  <2> QED BY <1>0, <2>1, RequestType DEF TurnInv
<1>2. PathSaved(r)
  BY DEF Facts, SaveInv
<1>3. c.content = disk[r] /\ (c.landed /\ Tracked(r) => remote[r] = disk[r])
  BY <1>1, <1>2 DEF PathSaved, Still
<1>4. ASSUME Before, disk[r] # Absent
      PROVE  disk[r] # baseline[r] /\ c.keep \in {baseline[r], Absent}
  BY <1>1, <1>2, <1>4 DEF PathSaved, Recorded
<1>5. r >= r /\ ~(r < r)
  BY DEF Path
<1>6. CASE Lands("sync", r)
  <2>1. /\ call'["sync"][r] = [c EXCEPT !.landed = TRUE]
        /\ \A p \in Path \ {r} : call'["sync"][p] = call["sync"][p]
        /\ call'["flush"] = call["flush"]
    BY <1>0, <1>6 DEF Lands, TypeOK
  <2>2. /\ [c EXCEPT !.landed = TRUE].content = c.content
        /\ [c EXCEPT !.landed = TRUE].keep = c.keep
    BY <1>1 DEF Request
  <2>3. call'["sync"][r] # NoRequest
    <3>1. call'["sync"][r] \in Request
      BY <1>1, <2>1 DEF Request
    <3> QED BY <3>1, RequestAssumption
  <2>4. /\ remote'[r] = disk[r] /\ disk' = disk /\ sync' = sync /\ flush' = flush
        /\ UNCHANGED <<folder, store, baseline, refused, sent, halfway, others>>
    BY <1>0, <1>3, <1>6 DEF Lands, TypeOK, attach
  <2>5. \A p \in Path \ {r} : remote'[p] = remote[p] /\ writer'[p] = writer[p]
    BY <1>0, <1>6 DEF Lands, TypeOK
  <2>6. ~Past(r) /\ ~Past(r)' /\ ~Gone(r)
    BY <1>1, <1>5, <2>4 DEF Past, Gone
  <2>7. Still(r)'
    BY <1>1, <1>2, <1>3, <2>1, <2>2, <2>3, <2>4, <2>6 DEF PathSaved, Still
  <2>8. Before => Recorded(r)'
    BY <1>1, <1>2, <1>4, <1>5, <2>1, <2>2, <2>4 DEF PathSaved, Recorded
  <2>9. Safe(r)'
    BY <2>4 DEF Safe
  <2>10. flush.pc = "list" /\ ~halfway => Listing(r)'
    BY <1>2, <2>4, <2>6, <2>9 DEF PathSaved, Listing
  <2>11. flush.pc = "send" /\ flush.clean /\ ~halfway => Sending(r)' /\ Beside(r)'
    BY <1>1, <1>2, <2>1, <2>3, <2>4, <2>6, <2>9 DEF PathSaved, Sending, Near, Beside
  <2>12. PathSaved(r)'
    BY <2>4, <2>7, <2>8, <2>9, <2>10, <2>11 DEF PathSaved, Before
  <2>13. Apart(r)
    BY <2>1, <2>4, <2>5 DEF Apart
  <2> QED BY <2>4, <2>12, <2>13, ApartSave
<1>7. ASSUME NEW sha, NEW saved, Conclude("sync", r, sha, saved),
             UNCHANGED <<disk, folder, remote, store, writer, halfway, others>>,
             \A p \in Path \ {r} : sent'[p] = sent[p] /\ refused'[p] = refused[p],
             Before /\ disk[r] # Absent => sha \in {baseline[r], disk[r], Absent},
             Before /\ disk[r] # Absent /\ disk[r] = baseline[r] => sha = disk[r],
             Safe(r) => Safe(r)'
      PROVE  \A p \in Path : PathSaved(p)'
  <2>1. /\ call'["sync"][r] = NoRequest /\ call'["flush"] = call["flush"]
        /\ \A p \in Path \ {r} : call'["sync"][p] = call["sync"][p]
    BY <1>0, <1>7 DEF Conclude, TypeOK
  <2>2. Advance(r, sha) /\ UNCHANGED <<baseline, flush>>
    BY <1>7 DEF Conclude
  <2>3. /\ sync'.at = r + 1 /\ sync'.pc = "path" /\ sync'.scan = sync.scan
        /\ sync'.listed = sync.listed /\ sync'.pulls = sync.pulls
        /\ sync'.base = [sync.base EXCEPT ![r] = sha]
    BY <1>0, <1>1, <2>2 DEF Advance, TypeOK, SyncState
  <2> QED BY <1>1, <1>7, <2>1, <2>2, <2>3, MoveSave
<1>8. ASSUME UNCHANGED <<disk, remote, refused, writer, others>> PROVE Safe(r) => Safe(r)'
  BY <1>8, SameSafe
<1>9. CASE Saved("sync", r)
  <2>1. /\ Conclude("sync", r, c.content, TRUE) /\ c.landed
        /\ UNCHANGED <<disk, folder, remote, store, writer, halfway, others>>
    BY <1>9 DEF Saved
  <2>2. \A p \in Path \ {r} : sent'[p] = sent[p] /\ refused'[p] = refused[p]
    BY <1>0, <1>9 DEF Saved, TypeOK
  <2>3. Safe(r)'
    BY <1>0, <1>3, <2>1, Untracked DEF Safe, Contested
  <2> QED BY <1>3, <1>7, <2>1, <2>2, <2>3
<1>10. CASE Unheard("sync", r) \/ Conflicts("sync", r)
  <2>1. /\ Conclude("sync", r, c.keep, FALSE)
        /\ UNCHANGED <<disk, folder, remote, store, writer, halfway, others, refused, sent>>
    BY <1>10 DEF Unheard, Conflicts
  <2> QED BY <1>4, <1>7, <1>8, <2>1
<1>11. CASE Rejected("sync", r)
  <2>1. /\ Conclude("sync", r, c.keep, FALSE) /\ c.content \in Refusable
        /\ UNCHANGED <<disk, folder, remote, store, writer, halfway, others, sent>>
    BY <1>11 DEF Rejected
  <2>2. \A p \in Path \ {r} : refused'[p] = refused[p]
    BY <1>0, <1>11 DEF Rejected, TypeOK
  <2>3. Safe(r)'
    BY <1>3, <2>1 DEF Safe
  <2> QED BY <1>4, <1>7, <2>1, <2>2, <2>3
<1>12. CASE Deleted(r)
  <2>1. /\ Conclude("sync", r, Absent, FALSE)
        /\ UNCHANGED <<disk, folder, remote, store, writer, halfway, others, refused, sent>>
        /\ disk[r] = Absent
    BY <1>3, <1>12 DEF Deleted
  <2> QED BY <1>7, <1>8, <2>1
<1>13. CASE UpdateFindsNone("sync", r)
  <2>1. UNCHANGED <<disk, folder, remote, store, writer, halfway, others, refused>>
    BY <1>13 DEF UpdateFindsNone
  <2>2. CASE disk[r] = Absent
    <3>1. Conclude("sync", r, c.keep, FALSE) /\ UNCHANGED sent
      BY <1>13, <2>2 DEF UpdateFindsNone
    <3> QED BY <1>7, <1>8, <2>1, <2>2, <3>1
  <2>3. CASE disk[r] # Absent
    <3>1. Upload("sync", r, Absent, c.keep, c.local) /\ UNCHANGED <<baseline, sync, flush>>
      BY <1>13, <2>3 DEF UpdateFindsNone
    <3>2. /\ call'["sync"][r] = [content |-> disk[r], over |-> Absent, keep |-> c.keep,
                                 local |-> c.local, landed |-> FALSE]
          /\ call'["flush"] = call["flush"]
          /\ \A p \in Path \ {r} : sent'[p] = sent[p] /\ call'["sync"][p] = call["sync"][p]
      BY <1>0, <3>1 DEF Upload, TypeOK
    <3>3. call'["sync"][r] # NoRequest
      <4>1. call'["sync"][r] \in Request
        BY <1>0, <1>1, <3>2 DEF TypeOK, Request, File
      <4> QED BY <4>1, RequestAssumption
    <3>4. /\ ~call'["sync"][r].landed /\ call'["sync"][r].keep = c.keep
          /\ call'["sync"][r].content = disk[r]
      BY <3>2
    <3> HIDE DEF c
    <3>5. Before /\ disk[r] # Absent =>
            disk[r] # baseline[r] /\ call'["sync"][r].keep \in {baseline[r], Absent}
      BY <1>4, <3>4
    <3>6. /\ sync'.at = r /\ sync'.pc = "path" /\ sync'.scan = sync.scan
          /\ sync'.listed = sync.listed /\ sync'.pulls = sync.pulls /\ sync'.base = sync.base
      BY <1>1, <3>1
    <3> QED BY <1>1, <2>1, <3>1, <3>2, <3>3, <3>4, <3>5, <3>6, SendSave
  <2> QED BY <2>2, <2>3
<1> QED BY <1>6, <1>9, <1>10, <1>11, <1>12, <1>13 DEF Answer

\* A path the sync looks at.
LEMMA SyncPathSave ==
    ASSUME Facts, TypeOK', Late, NEW r \in Path, SyncPath(r)
    PROVE  \A p \in Path : PathSaved(p)'
<1> USE DEF world, history, counts
<1>0. /\ TypeOK /\ TurnInv
      /\ Absent \in File /\ sync.scan[r] \in File /\ sync.listed[r] \in File
      /\ disk[r] \in File /\ baseline[r] \in File
  BY DEF Facts, TypeOK, SyncState, File
<1>1. PathSaved(r)
  BY DEF Facts, SaveInv
<1>2. r >= r /\ ~(r < r) /\ r < r + 1 /\ ~(r >= r + 1)
  BY DEF Path
<1>3. ASSUME Turn(r) PROVE sync.scan[r] = disk[r]
  BY <1>1, <1>2, <1>3 DEF Turn, PathSaved, Still
<1>4. ASSUME NEW sha, Turn(r), Note(r, sha),
             Before /\ disk[r] # Absent => sha \in {baseline[r], disk[r], Absent},
             Before /\ disk[r] # Absent /\ disk[r] = baseline[r] => sha = disk[r]
      PROVE  \A p \in Path : PathSaved(p)'
  <2>1. /\ UNCHANGED <<disk, folder, remote, store, baseline, writer, halfway, others, flush,
                       refused, sent, call>>
        /\ Advance(r, sha)
    BY <1>4 DEF Note
  <2>2. /\ sync'.at = r + 1 /\ sync'.pc = "path" /\ sync'.scan = sync.scan
        /\ sync'.listed = sync.listed /\ sync'.pulls = sync.pulls
        /\ sync'.base = [sync.base EXCEPT ![r] = sha]
    BY <1>0, <1>4, <2>1 DEF Turn, Advance, TypeOK, SyncState
  <2>3. Safe(r) => Safe(r)'
    BY <2>1, SameSafe
  <2> QED BY <1>4, <2>1, <2>2, <2>3, MoveSave DEF Turn
<1>5. ASSUME NEW over \in File, NEW local \in File, Turn(r), Push(r, over, local),
             disk[r] # Absent,
             Before => disk[r] # baseline[r] /\ over \in {baseline[r], Absent}
      PROVE  \A p \in Path : PathSaved(p)'
  <2>1. /\ UNCHANGED <<disk, folder, remote, store, baseline, refused, writer, halfway, others,
                       flush, sync>>
        /\ Upload("sync", r, over, over, local)
    BY <1>5 DEF Push
  <2>2. /\ call'["sync"][r] = [content |-> disk[r], over |-> over, keep |-> over,
                               local |-> local, landed |-> FALSE]
        /\ call'["flush"] = call["flush"]
        /\ \A p \in Path \ {r} : sent'[p] = sent[p] /\ call'["sync"][p] = call["sync"][p]
    BY <1>0, <2>1 DEF Upload, TypeOK
  <2>3. call'["sync"][r] # NoRequest
    <3>1. call'["sync"][r] \in Request
      BY <1>0, <1>5, <2>2 DEF Request
    <3> QED BY <3>1, RequestAssumption
  <2>4. /\ ~call'["sync"][r].landed /\ call'["sync"][r].keep = over
        /\ call'["sync"][r].content = disk[r]
    BY <2>2
  <2>5. /\ sync'.at = r /\ sync'.pc = "path" /\ sync'.scan = sync.scan
        /\ sync'.listed = sync.listed /\ sync'.pulls = sync.pulls /\ sync'.base = sync.base
    BY <1>5, <2>1 DEF Turn
  <2> QED BY <1>5, <2>1, <2>2, <2>3, <2>4, <2>5, SendSave DEF Turn
<1>6. CASE HoldDelete(r)
  <2> DEFINE used == IF store.deletes = "log_only" /\ MayDelete(r)
                     THEN sync.used + 1 ELSE sync.used
  <2>1. sync' = [sync EXCEPT !.at = @ + 1, !.base[r] = baseline[r], !.used = used]
    BY <1>6 DEF HoldDelete
  <2> HIDE DEF used
  <2>2. /\ sync'.at = sync.at + 1 /\ sync'.pc = sync.pc /\ sync'.scan = sync.scan
        /\ sync'.listed = sync.listed /\ sync'.pulls = sync.pulls
        /\ sync'.base = [sync.base EXCEPT ![r] = baseline[r]]
    BY <1>0, <2>1 DEF TypeOK, SyncState
  <2>3. /\ UNCHANGED <<disk, folder, remote, store, baseline, writer, halfway, others, flush,
                       refused, sent, call>>
        /\ Turn(r) /\ disk[r] = Absent
    BY <1>3, <1>6 DEF HoldDelete, LocallyDeleted
  <2>4. Safe(r) => Safe(r)'
    BY <2>3, SameSafe
  <2> QED BY <2>2, <2>3, <2>4, MoveSave DEF Turn
<1>7. CASE SendDelete(r)
  <2>1. /\ sync'.at = sync.at /\ sync'.pc = sync.pc /\ sync'.listed = sync.listed
        /\ sync'.pulls = sync.pulls /\ sync'.base = sync.base /\ sync'.scan = sync.scan
    BY <1>0, <1>7 DEF SendDelete, TypeOK, SyncState
  <2>2. /\ UNCHANGED <<disk, folder, remote, store, baseline, refused, writer, halfway, others,
                       flush, sent>>
        /\ Turn(r) /\ disk[r] = Absent
    BY <1>3, <1>7 DEF SendDelete, LocallyDeleted
  <2>3. /\ call'["sync"][r] = [content |-> Absent, over |-> baseline[r], keep |-> baseline[r],
                               local |-> Absent, landed |-> FALSE]
        /\ call'["flush"] = call["flush"]
        /\ \A p \in Path \ {r} : call'["sync"][p] = call["sync"][p]
    BY <1>0, <1>7 DEF SendDelete, TypeOK
  <2>4. call'["sync"][r] # NoRequest
    <3>1. call'["sync"][r] \in Request
      BY <1>0, <2>3 DEF Request
    <3> QED BY <3>1, RequestAssumption
  <2>5. ~call'["sync"][r].landed /\ call'["sync"][r].content = disk[r]
    BY <2>2, <2>3
  <2> QED BY <2>1, <2>2, <2>3, <2>4, <2>5, SendSave DEF Turn
<1>8. CASE Forget(r)
  BY <1>3, <1>4, <1>8 DEF Forget, Settling
<1>9. CASE PushNew(r)
  <2>1. Turn(r) /\ disk[r] # Absent /\ disk[r] # baseline[r] /\ Create(r, sync.scan[r])
    BY <1>3, <1>9 DEF PushNew, Settling
  <2> QED BY <1>0, <1>4, <1>5, <2>1 DEF Create
<1>10. CASE CompareDeleted(r)
  <2>1. Turn(r) /\ disk[r] # Absent /\ disk[r] = baseline[r]
    BY <1>3, <1>10 DEF CompareDeleted, Settling
  <2>2. /\ sync' = [sync EXCEPT !.pc = "unlink"]
        /\ UNCHANGED <<disk, folder, remote, store, baseline, refused, sent, writer, halfway,
                       others, flush, call>>
    BY <1>10, <2>1 DEF CompareDeleted, Fresh
  <2>3. /\ sync.pc = "path" /\ sync'.pc = "unlink" /\ sync'.at = sync.at
        /\ sync'.scan = sync.scan /\ sync'.listed = sync.listed /\ sync'.base = sync.base
        /\ sync'.pulls = sync.pulls
    BY <1>0, <2>1, <2>2 DEF Turn, TypeOK, SyncState
  <2>4. \A p \in Path : PathSaved(p) /\ (Safe(p) => Safe(p)') /\ (Tracked(p)' <=> Tracked(p))
    BY <2>2, SameSafe, SameTracked DEF Facts, SaveInv
  <2> QED BY <2>2, <2>3, <2>4, SameSave
<1>11. CASE Unlink(r)
  <2>1. /\ sync'.at = r + 1 /\ sync'.pc = "path" /\ sync'.listed = sync.listed
        /\ sync'.pulls = sync.pulls /\ sync'.base = sync.base /\ sync'.scan = sync.scan
        /\ sync.at = r /\ sync.pc = "unlink"
    BY <1>0, <1>11 DEF Unlink, TypeOK, SyncState
  <2>2. UNCHANGED <<folder, remote, store, baseline, refused, sent, writer, halfway, others,
                    flush, call>>
    BY <1>11 DEF Unlink, attach
  <2>3. disk'[r] = Absent /\ \A p \in Path \ {r} : disk'[p] = disk[p]
    BY <1>0, <1>11 DEF Unlink, TypeOK
  <2>4. call["sync"][r] = NoRequest
    BY <1>0, <2>1 DEF TurnInv
  <2>5. r \notin sync.pulls
    BY <1>2, <2>1 DEF Facts, SelfInv, StartInv
  <2>6. Gone(r)' /\ Past(r)' /\ Safe(r)'
    BY <1>2, <2>1, <2>3, <2>5, ContentAssumption DEF Gone, Past, Safe
  <2>7. Still(r)'
    BY <1>1, <1>2, <2>1, <2>2, <2>4, <2>6 DEF PathSaved, Still
  <2>8. Recorded(r)'
    BY <2>1, <2>3 DEF Recorded
  <2>9. Listing(r)'
    BY <2>6 DEF Listing
  <2>10. flush.pc = "send" /\ flush.clean /\ ~halfway => Sending(r)' /\ Beside(r)'
    BY <1>1, <1>2, <2>1, <2>2, <2>4, <2>5, <2>6 DEF PathSaved, Sending, Near, Beside
  <2>11. PathSaved(r)'
    BY <2>2, <2>6, <2>7, <2>8, <2>9, <2>10 DEF PathSaved
  <2>12. Apart(r)
    BY <2>1, <2>2, <2>3 DEF Apart
  <2> QED BY <2>1, <2>2, <2>11, <2>12, ApartSave
<1>12. CASE TakeRemote(r)
  <2>1. /\ sync'.at = r + 1 /\ sync'.pc = "path" /\ sync'.listed = sync.listed
        /\ sync'.pulls = sync.pulls \union {r} /\ sync'.scan = sync.scan
        /\ sync'.base = [sync.base EXCEPT ![r] = baseline[r]]
        /\ sync.at = r /\ sync.pc = "path" /\ call["sync"][r] = NoRequest
    BY <1>0, <1>12 DEF TakeRemote, Settling, Turn, TypeOK, SyncState
  <2>2. /\ sync'.base[r] = baseline[r]
        /\ \A p \in Path \ {r} : sync'.base[p] = sync.base[p]
    BY <1>0, <2>1 DEF TypeOK, SyncState
  <2>3. UNCHANGED <<disk, folder, remote, store, baseline, refused, sent, writer, halfway,
                    others, flush, call>>
    BY <1>12 DEF TakeRemote
  <2>4. ~Past(r) /\ ~Past(r)' /\ ~Gone(r)
    BY <1>2, <2>1 DEF Past, Gone
  <2>5. Still(r)'
    BY <1>1, <1>2, <2>1, <2>3, <2>4 DEF PathSaved, Still
  <2>6. Recorded(r)'
    BY <2>1, <2>2, <2>3 DEF Recorded
  <2>7. (Safe(r) => Safe(r)') /\ (Tracked(r)' <=> Tracked(r))
    BY <2>3, SameSafe, SameTracked
  <2>8. flush.pc = "list" /\ ~halfway => Listing(r)'
    BY <1>1, <2>3, <2>4, <2>7 DEF PathSaved, Listing
  <2>9. flush.pc = "send" /\ flush.clean /\ ~halfway => Sending(r)'
    BY <1>1, <2>3, <2>4, <2>7 DEF PathSaved, Sending, Near
  <2>10. flush.pc = "send" /\ flush.clean /\ ~halfway => Beside(r)'
    <3>1. sync.listed[r] # baseline[r]
      BY <1>12 DEF TakeRemote, RemoteChanged
    <3> QED BY <1>1, <1>2, <2>1, <2>3, <2>7, <3>1 DEF PathSaved, Beside
  <2>11. Ended' => Ended
    BY <2>1, <2>3 DEF Ended
  <2>12. PathSaved(r)'
    BY <1>1, <2>3, <2>5, <2>6, <2>7, <2>8, <2>9, <2>10, <2>11 DEF PathSaved
  <2>13. Apart(r)
    BY <2>1, <2>2, <2>3 DEF Apart
  <2> QED BY <2>1, <2>3, <2>12, <2>13, ApartSave
<1>13. CASE Adopt(r)
  BY <1>3, <1>4, <1>13 DEF Adopt, Settling
<1>14. CASE PushEdit(r)
  <2>1. /\ Turn(r) /\ disk[r] # Absent /\ disk[r] # baseline[r]
        /\ sync.listed[r] = baseline[r]
        /\ Note(r, sync.listed[r]) \/ Push(r, sync.listed[r], sync.scan[r])
    BY <1>3, <1>14 DEF PushEdit, Settling, RemoteChanged
  <2> QED BY <1>0, <1>4, <1>5, <2>1
<1>15. CASE Unchanged(r)
  BY <1>4, <1>15 DEF Unchanged, Settling, RemoteChanged
<1> QED BY <1>6, <1>7, <1>8, <1>9, <1>10, <1>11, <1>12, <1>13, <1>14, <1>15 DEF SyncPath

\* A file that is written, unless the folder has gone.
LEMMA PutOne ==
    ASSUME TypeOK, NEW p \in Path, NEW c, Put(p, c)
    PROVE  \/ folder = "gone" /\ disk' = disk /\ baseline' = baseline
           \/ folder # "gone" /\ disk'[p] = c /\ baseline'[p] = c
BY DEF Put, TypeOK

\* Fetches, and the files a rebuild puts back.
LEMMA PullSave ==
    ASSUME Facts, TypeOK', Late, NEW r \in Path,
           Pull(r) \/ PullFindsNone(r) \/ PullFails(r) \/ Restore(r)
    PROVE  \A p \in Path : PathSaved(p)'
<1> USE DEF world, attach, history, counts
<1>0. TypeOK /\ TurnInv
  BY DEF Facts
<1>1. PathSaved(r)
  BY DEF Facts, SaveInv
<1>2. r < r + 1 /\ ~(r >= r + 1) /\ r >= r
  BY DEF Path
<1>3. UNCHANGED <<folder, remote, store, refused, sent, writer, halfway, others, flush, call>>
  BY DEF Pull, PullFindsNone, PullFails, Restore
<1>4. /\ \A p \in Path \ {r} : disk'[p] = disk[p] /\ baseline'[p] = baseline[p]
      /\ sync'.scan = sync.scan /\ sync'.listed = sync.listed /\ sync'.base = sync.base
  BY <1>0 DEF Pull, PullFindsNone, PullFails, PullBase, Restore, Put, TypeOK, SyncState
<1>5. call["sync"][r] = NoRequest
  BY <1>0 DEF TurnInv, Pull, PullFindsNone, PullFails, Restore
<1>6. (Tracked(r)' <=> Tracked(r)) /\ (~Tracked(r) => others > 0 /\ writer[r] = "them")
  BY <1>0, <1>3, SameTracked, Untracked
<1>7. ASSUME Pull(r) \/ PullFindsNone(r) \/ PullFails(r)
      PROVE  \A p \in Path : PathSaved(p)'
  <2>1. /\ sync.pc = "pull" /\ sync'.pc = "pull" /\ sync'.at = sync.at
        /\ r \in sync.pulls /\ sync'.pulls = sync.pulls \ {r}
    BY <1>0, <1>7 DEF Pull, PullFindsNone, PullFails, TypeOK, SyncState
  <2>2. Past(r)' /\ ~Past(r) /\ ~Gone(r)
    BY <2>1 DEF Past, Gone
  <2>3. Still(r)'
    BY <1>1, <1>3, <1>5, <2>1, <2>2 DEF PathSaved, Still
  <2>4. Recorded(r)' /\ Beside(r)'
    BY <1>3, <1>5, <2>1 DEF Recorded, Beside
  <2>5. \/ disk'[r] = disk[r]
        \/ disk'[r] = remote[r] /\ remote[r] # Absent /\ folder # "gone"
    <3>1. CASE PullFindsNone(r) \/ PullFails(r)
      BY <3>1 DEF PullFindsNone, PullFails
    <3>2. CASE Pull(r)
      BY <1>0, <3>2, PutOne DEF Pull
    <3> QED BY <1>7, <3>1, <3>2
  <2>6. disk'[r] # disk[r] /\ ~Tracked(r) => Gone(r)'
    <3>1. ~Tracked(r) => remote[r] \in Theirs \union {Absent}
      BY <1>6 DEF Facts, SaveInv, WriterInv
    <3> QED BY <1>3, <1>6, <2>2, <2>5, <3>1 DEF Gone
  <2>7. disk'[r] = disk[r] => (Safe(r) => Safe(r)')
    BY <1>3, SameSafe
  <2>8. disk'[r] # disk[r] => Safe(r)'
    BY <1>3, <2>5 DEF Safe
  <2>9. flush.pc = "list" /\ ~halfway => Listing(r)'
    <3>1. flush.pc = "list" /\ ~halfway => ~Tracked(r)
      BY <2>1 DEF Facts, SelfInv, SelfPath, Accounted, Before
    <3> QED BY <1>1, <1>3, <2>2, <2>6, <2>7, <2>8, <3>1 DEF PathSaved, Listing
  <2>10. ASSUME flush.pc = "send", flush.clean, ~halfway PROVE Sending(r)'
    <3>1. Tracked(r) => disk'[r] = disk[r]
      BY <1>1, <2>1, <2>5, <2>10 DEF PathSaved, Beside
    <3>2. CASE disk'[r] = disk[r]
      BY <1>1, <1>3, <1>6, <2>2, <2>7, <2>10, <3>2 DEF PathSaved, Sending, Near
    <3>3. CASE disk'[r] # disk[r]
      BY <1>3, <1>6, <2>6, <2>8, <3>1, <3>3 DEF Sending, Near
    <3> QED BY <3>2, <3>3
  <2>11. Ended' => Ended
    BY <1>3, <2>1 DEF Ended
  <2>12. PathSaved(r)'
    BY <1>1, <1>3, <2>3, <2>4, <2>7, <2>8, <2>9, <2>10, <2>11 DEF PathSaved
  <2>13. Apart(r)
    BY <1>3, <1>4, <2>1 DEF Apart
  <2> QED BY <1>3, <2>1, <2>12, <2>13, ApartSave
<1>8. CASE Restore(r)
  <2>1. /\ sync.pc = "restore" /\ sync'.pc = "restore" /\ sync.at = r /\ sync'.at = r + 1
        /\ sync'.pulls = sync.pulls
    BY <1>0, <1>8 DEF Restore, TypeOK, SyncState
  <2>2. flush.pc \notin {"list", "send"}
    BY <2>1 DEF Facts, SaveInv, KeepInv
  <2>3. call["flush"][r] = NoRequest /\ disk[r] = Absent
    BY <1>1, <1>2, <2>1 DEF PathSaved, Still
  <2>4. \/ disk'[r] = disk[r] /\ baseline'[r] = baseline[r]
        \/ disk'[r] = remote[r] /\ baseline'[r] = remote[r]
    BY <1>0, <1>8, PutOne DEF Restore
  <2>5. Still(r)'
    BY <1>2, <1>3, <1>5, <2>1, <2>3 DEF Still
  <2>6. Before => Recorded(r)'
    <3>1. Before => baseline[r] = Absent
      BY <1>2, <2>1 DEF Facts, SelfInv, SelfPath, RestoreInv
    <3>2. Before => sent[r] = Absent
      BY <1>1, <2>1 DEF PathSaved, Recorded
    <3> QED BY <1>3, <1>5, <2>1, <2>3, <2>4, <3>1, <3>2 DEF Recorded
  <2>7. Safe(r)'
    BY <1>3, <2>3, <2>4, ContentAssumption DEF Safe
  <2>8. PathSaved(r)'
    BY <1>3, <2>2, <2>5, <2>6, <2>7 DEF PathSaved, Before
  <2>9. Apart(r)
    BY <1>3, <1>4, <2>1 DEF Apart
  <2> QED BY <1>3, <2>1, <2>8, <2>9, ApartSave
<1> QED BY <1>7, <1>8

\* The steps of the sync between paths.
LEMMA LoopSave ==
    ASSUME Facts, TypeOK', Late, Late', NEW p \in Path,
           \/ Scan \/ List \/ ListFails \/ EndPaths \/ EndSync
           \/ Stamp \/ EndRestore \/ RestoreFails
    PROVE  PathSaved(p)'
<1> USE DEF world, attach, history, counts
<1> USE NothingType
<1>0. TypeOK /\ TurnInv /\ PathSaved(p) /\ Off.pc = "off" /\ Off.pulls = {}
  BY DEF Facts, SaveInv, Off
<1>1. p \in Nat /\ 1 <= p /\ p <= N /\ p < N + 1 /\ ~(p >= N + 1) /\ p >= 1 /\ ~(p < 1)
  BY PathAssumption DEF Path
<1>2. UNCHANGED <<remote, store, refused, writer, others, flush, call>>
  BY DEF Scan, List, ListFails, EndPaths, EndSync, Stamp, EndRestore, RestoreFails
<1>3. UNCHANGED disk
  BY DEF Scan, List, ListFails, EndPaths, EndSync, Stamp, EndRestore, RestoreFails, Late
<1>4. call["sync"][p] = NoRequest
  <2>1. sync.pc = "path" => sync.at = N + 1
    BY DEF Scan, List, ListFails, EndPaths, EndSync, Stamp, EndRestore, RestoreFails
  <2> QED BY <1>0, <1>1, <2>1 DEF TurnInv
<1>5. (Safe(p) => Safe(p)') /\ (Tracked(p)' <=> Tracked(p))
  BY <1>2, <1>3, SameSafe, SameTracked
\* The flush does nothing: only what the sync has is to be shown.
<1>6. ASSUME Still(p)', Before => Recorded(p)',
             Past(p) => Past(p)', Beside(p) => Beside(p)' \/ flush.pc # "send",
             halfway' = halfway \/ flush.pc \notin {"list", "send"},
             Ended' => Ended
      PROVE  PathSaved(p)'
  <2>1. Gone(p) => Gone(p)'
    BY <1>2, <1>3, <1>6 DEF Gone
  <2>2. Listing(p) => Listing(p)'
    BY <1>2, <1>3, <1>5, <2>1 DEF Listing
  <2>3. Sending(p) => Sending(p)'
    BY <1>2, <1>3, <1>5, <2>1 DEF Sending, Near
  <2> QED BY <1>0, <1>2, <1>5, <1>6, <2>2, <2>3 DEF PathSaved, Before
<1>7. CASE Scan
  <2>1. sync.pc = "scan" /\ ~Past(p) /\ UNCHANGED <<folder, halfway, baseline, sent>>
    BY <1>7 DEF Scan, Past
  <2>2. CASE folder = "ours"
    <3>1. sync'.pc = "list" /\ sync'.scan = disk /\ sync'.pulls = sync.pulls
      BY <1>0, <1>7, <2>2 DEF Scan, TypeOK, SyncState
    <3>2. ~Past(p)'
      BY <3>1 DEF Past
    <3>3. Still(p)'
      BY <1>0, <1>2, <1>3, <1>4, <2>1, <3>1, <3>2 DEF PathSaved, Still
    <3>4. Recorded(p)' /\ (Beside(p) => Beside(p)')
      BY <1>2, <1>3, <1>4, <1>5, <2>1, <3>1 DEF Recorded, Beside
    <3>5. Ended' => Ended
      BY <1>2, <2>1, <3>1 DEF Ended
    <3> QED BY <1>6, <2>1, <3>3, <3>4, <3>5
  <2>3. CASE folder # "ours" /\ Files(disk) # {}
    <3>1. sync' = Off
      BY <1>7, <2>3 DEF Scan
    <3>2. Past(p)'
      BY <1>0, <3>1 DEF Past
    <3>3. Still(p)'
      BY <1>0, <1>2, <1>3, <1>4, <2>1, <3>1, <3>2 DEF PathSaved, Still
    <3>4. Recorded(p)' /\ Beside(p)'
      BY <1>0, <1>2, <1>4, <3>1 DEF Recorded, Beside
    <3>5. ~Ended'
      BY <1>0, <2>1, <2>3, <3>1 DEF Ended
    <3> QED BY <1>6, <2>1, <3>3, <3>4, <3>5
  <2>4. CASE folder # "ours" /\ Files(disk) = {}
    <3>1. sync'.pc = "stamp" /\ disk[p] = Absent
      BY <1>0, <1>7, <2>4 DEF Scan, TypeOK, SyncState, Files
    <3>2. call["flush"][p] = NoRequest
      BY <1>0, <2>1, <3>1 DEF PathSaved, Still
    <3>3. Still(p)'
      BY <1>2, <1>3, <1>4, <3>1, <3>2 DEF Still
    <3>4. Recorded(p)'
      BY <1>2, <1>4, <3>1 DEF Recorded
    <3>5. ~Ended' /\ flush.pc \notin {"list", "send"}
      BY <2>1, <2>4, <3>1 DEF Ended, Facts, SaveInv, KeepInv
    <3> QED BY <1>6, <2>1, <3>3, <3>4, <3>5
  <2> QED BY <2>2, <2>3, <2>4
<1>8. CASE List
  <2>1. /\ sync.pc = "list" /\ ~Past(p) /\ UNCHANGED <<folder, halfway>> /\ sync.at = 1
        /\ sync.pulls = {} /\ disk[p] = sync.scan[p]
    BY <1>0, <1>8 DEF List, Past, Facts, SelfInv, StartInv, PathSaved, Still
  <2>2. baseline'[p] = IF sent[p] # Absent /\ remote[p] = sent[p] THEN sent[p] ELSE baseline[p]
    BY <1>8 DEF List, Settled
  <2>3. CASE LooksWiped(sync.scan, Settled(remote))
    <3>1. sync'.pc = "stamp"
      BY <1>0, <1>8, <2>3 DEF List, TypeOK, SyncState
    <3>2. \A r \in Path : disk[r] = Absent
      <4> SUFFICES ASSUME NEW r \in Path PROVE disk[r] = Absent
        OBVIOUS
      <4>1. disk[r] = sync.scan[r]
        BY <2>1 DEF Facts, SaveInv, PathSaved, Still
      <4> QED BY <2>3, <4>1 DEF LooksWiped, Files
    <3>3. call["flush"][p] = NoRequest
      BY <1>0, <2>1, <3>2 DEF PathSaved, Still
    <3>4. Still(p)'
      BY <1>2, <1>3, <1>4, <3>1, <3>2, <3>3 DEF Still
    <3>5. Recorded(p)'
      BY <1>2, <1>4, <3>1 DEF Recorded
    <3>6. flush.pc \notin {"list", "send"}
      BY <2>1, <3>2 DEF Facts, SaveInv, KeepInv
    <3>7. Ended' => Ended
      BY <1>2, <2>1, <3>1 DEF Ended
    <3> QED BY <1>6, <2>1, <3>4, <3>5, <3>6, <3>7
  <2>4. CASE ~LooksWiped(sync.scan, Settled(remote))
    <3>1. /\ sync'.pc = "path" /\ sync'.listed = remote /\ sync'.scan = sync.scan
          /\ sync'.at = 1 /\ sync'.pulls = {}
      BY <1>0, <1>8, <2>1, <2>4 DEF List, TypeOK, SyncState
    <3>2. ~Past(p)'
      BY <1>1, <3>1 DEF Past
    <3>3. Still(p)'
      BY <1>0, <1>2, <1>3, <1>4, <2>1, <3>1, <3>2 DEF PathSaved, Still
    <3>4. Recorded(p)'
      BY <1>1, <1>2, <1>4, <3>1 DEF Recorded
    <3>5. Beside(p) => Beside(p)'
      BY <1>2, <1>3, <1>5, <2>1, <2>2, <3>1 DEF Beside
    <3>6. Ended' => Ended
      BY <1>2, <2>1, <3>1 DEF Ended
    <3> QED BY <1>6, <2>1, <3>3, <3>4, <3>5, <3>6
  <2> QED BY <2>3, <2>4
<1>9. CASE ListFails \/ EndSync
  <2>1. /\ sync.pc \in {"list", "pull"} /\ sync' = Off
        /\ UNCHANGED <<folder, halfway, baseline, sent>>
    BY <1>9 DEF ListFails, EndSync
  <2>2. Past(p)'
    BY <1>0, <2>1 DEF Past
  <2>3. Still(p)'
    BY <1>0, <1>2, <1>3, <1>4, <2>1, <2>2 DEF PathSaved, Still
  <2>4. Recorded(p)' /\ Beside(p)'
    BY <1>0, <1>2, <1>4, <2>1 DEF Recorded, Beside
  <2>5. Ended' => Ended
    BY <1>0, <1>2, <2>1 DEF Ended
  <2> QED BY <1>6, <2>1, <2>2, <2>3, <2>4, <2>5
<1>10. CASE EndPaths
  <2>1. /\ sync.pc = "path" /\ sync.at = N + 1 /\ sync'.pc = "pull"
        /\ sync'.pulls = sync.pulls /\ UNCHANGED <<folder, halfway>>
    BY <1>10 DEF EndPaths, Off
  <2>2. Past(p)' <=> Past(p)
    BY <1>1, <2>1 DEF Past
  <2>3. Still(p)'
    BY <1>0, <1>2, <1>3, <1>4, <2>1, <2>2 DEF PathSaved, Still
  <2>4. Recorded(p)' /\ (Beside(p) => Beside(p)')
    BY <1>2, <1>3, <1>4, <1>5, <2>1 DEF Recorded, Beside
  <2>5. Ended' => Ended
    BY <1>2, <2>1 DEF Ended
  <2> QED BY <1>6, <2>1, <2>2, <2>3, <2>4, <2>5
<1>11. CASE Stamp
  <2>1. /\ sync.pc = "stamp" /\ ~Past(p) /\ halfway' = halfway
        /\ sync'.pc = "restore" /\ sync'.at = 1 /\ sent'[p] = Absent
    BY <1>0, <1>11 DEF Stamp, Past, TypeOK, SyncState
  <2>2. disk[p] = Absent /\ call["flush"][p] = NoRequest
    BY <1>0, <2>1 DEF PathSaved, Still
  <2>3. Still(p)'
    BY <1>2, <1>3, <1>4, <2>1, <2>2 DEF Still
  <2>4. Recorded(p)'
    BY <1>1, <1>2, <1>4, <2>1 DEF Recorded
  <2>5. flush.pc \notin {"list", "send"} /\ Safe(p)'
    BY <1>3, <2>1, <2>2, ContentAssumption DEF Facts, SaveInv, KeepInv, Safe
  <2> QED BY <1>2, <2>3, <2>4, <2>5 DEF PathSaved
<1>12. CASE EndRestore
  <2>1. /\ sync.pc = "restore" /\ ~Past(p) /\ UNCHANGED <<folder, baseline, sent>>
        /\ sync' = Off
    BY <1>12 DEF EndRestore, Past
  <2>2. call["flush"][p] = NoRequest /\ flush.pc \notin {"list", "send"}
    BY <1>0, <2>1 DEF PathSaved, Still, Facts, SaveInv, KeepInv
  <2>3. Still(p)'
    BY <1>0, <1>2, <1>4, <2>1, <2>2 DEF Still
  <2>4. Recorded(p)'
    BY <1>0, <1>2, <1>4, <2>1 DEF Recorded
  <2>5. Ended' => Ended
    BY <1>2, <2>1 DEF Ended
  <2> QED BY <1>6, <2>1, <2>2, <2>3, <2>4, <2>5
<1>13. CASE RestoreFails
  <2>1. /\ sync.pc = "restore" /\ ~Past(p) /\ UNCHANGED <<baseline, sent>>
        /\ sync' = Off /\ halfway'
    BY <1>13 DEF RestoreFails, Past
  <2>2. call["flush"][p] = NoRequest /\ flush.pc \notin {"list", "send"}
    BY <1>0, <2>1 DEF PathSaved, Still, Facts, SaveInv, KeepInv
  <2>3. Still(p)'
    BY <1>0, <1>2, <1>4, <2>1, <2>2 DEF Still
  <2>4. Recorded(p)'
    BY <1>0, <1>2, <1>4, <2>1 DEF Recorded
  <2>5. ~Ended'
    BY <1>0, <2>1 DEF Ended
  <2> QED BY <1>6, <2>1, <2>2, <2>3, <2>4, <2>5
<1> QED BY <1>7, <1>8, <1>9, <1>10, <1>11, <1>12, <1>13

\* A file with nothing to send is on the server: the record of it is right.
LEMMA CleanIsSafe ==
    ASSUME Facts, Late, Before, NEW p \in Path, folder = "ours",
           ~halfway \/ sync.pc = "restore", p \notin Files(disk) \/ ~Dirty(p)
    PROVE  Safe(p)
<1>1. PathSaved(p) /\ SelfPath(p) /\ TypeOK /\ TurnInv
  BY DEF Facts, SaveInv, SelfInv
<1> SUFFICES ASSUME disk[p] \in Content \ Refusable, refused[p] # disk[p], Tracked(p)
             PROVE  remote[p] = disk[p]
  BY <1>1, Untracked DEF Safe, Contested
<1>2. disk[p] # Absent /\ disk[p] = baseline[p] /\ sent[p] = Absent
  BY <1>1, ContentAssumption DEF Files, Dirty
<1>3. (p < sync.at \/ p >= sync.at) /\ p \in Nat
  BY <1>1 DEF Path, TypeOK, SyncState
<1>4. CASE sync.pc = "restore"
  <2>1. p < sync.at
    BY <1>1, <1>2, <1>3, <1>4 DEF PathSaved, Still
  <2> QED BY <1>1, <1>2, <1>4, <2>1 DEF SelfPath, RestoreInv, Known
<1>5. CASE sync.pc = "stamp"
  BY <1>1, <1>2, <1>5 DEF PathSaved, Still
<1>6. CASE sync.pc \in {"off", "scan", "list", "pull"}
  BY <1>1, <1>2, <1>6 DEF SelfPath, Accounted, Known
<1>7. CASE sync.pc \in {"path", "unlink"}
  <2>1. ~halfway
    BY <1>7
  <2>2. CASE p < sync.at
    <3>1. sync.base[p] = disk[p]
      BY <1>1, <1>2, <1>7, <2>2 DEF PathSaved, Recorded
    <3> QED BY <1>1, <1>2, <1>7, <2>1, <2>2, <3>1 DEF SelfPath, Accounted, Known
  <2>3. CASE p >= sync.at
    <3>1. call["sync"][p] = NoRequest
      BY <1>1, <1>2 DEF PathSaved, Recorded
    <3> QED BY <1>1, <1>2, <1>7, <2>1, <2>3, <3>1 DEF SelfPath, Accounted
  <2> QED BY <1>3, <2>2, <2>3
<1> QED BY <1>1, <1>4, <1>5, <1>6, <1>7 DEF TypeOK, SyncState

\* What the flush finds in the listing of a file it has to look at.
LEMMA ListedIsSafe ==
    ASSUME Facts, Late, flush.pc = "list", ~halfway, NEW p \in Path,
           \/ disk[p] = Settled(remote)[p]
           \/ remote[p] \notin {Absent, Settled(remote)[p]}
    PROVE  Safe(p)
<1>1. PathSaved(p) /\ SelfPath(p) /\ TypeOK /\ TurnInv
  BY DEF Facts, SaveInv, SelfInv, Before
<1> SUFFICES ASSUME disk[p] \in Content \ Refusable, Tracked(p), remote[p] # disk[p]
             PROVE  FALSE
  BY <1>1, Untracked DEF Safe, Contested
<1>2. Settled(remote)[p] =
        IF sent[p] # Absent /\ remote[p] = sent[p] THEN sent[p] ELSE baseline[p]
  BY DEF Settled
<1>3. /\ ~(sent[p] # Absent /\ remote[p] = sent[p]) /\ Settled(remote)[p] = baseline[p]
      /\ disk[p] # Absent
  BY <1>2, ContentAssumption
<1>4. ~Known(p, baseline[p])
  BY <1>3 DEF Known
<1>5. (p < sync.at \/ p >= sync.at) /\ p \in Nat
  BY <1>1 DEF Path, TypeOK, SyncState
<1>6. folder = "ours" /\ sync.pc \notin {"stamp", "restore"}
  BY DEF Facts, SaveInv, KeepInv
<1>7. CASE sync.pc \in {"off", "scan", "list", "pull"}
  BY <1>1, <1>4, <1>6, <1>7 DEF SelfPath, Accounted
<1>8. CASE sync.pc \in {"path", "unlink"}
  <2>1. Recorded(p)
    BY <1>1 DEF PathSaved, Before
  <2>2. CASE p < sync.at
    <3>1. remote[p] = sync.base[p]
      BY <1>1, <1>3, <1>8, <2>2 DEF SelfPath, Accounted, Known
    <3> QED BY <1>3, <1>4, <1>8, <2>1, <2>2, <3>1 DEF Recorded, Known
  <2>3. CASE p >= sync.at /\ call["sync"][p] = NoRequest
    BY <1>1, <1>4, <1>8, <2>3 DEF SelfPath, Accounted, Known
  <2>4. CASE call["sync"][p] # NoRequest
    <3>1. call["sync"][p].content = disk[p] /\ ~call["sync"][p].landed
      BY <1>1, <2>4 DEF PathSaved, Still
    <3>2. remote[p] = call["sync"][p].keep
      BY <1>1, <1>8, <2>4, <3>1 DEF SelfPath, Accounted
    <3> QED BY <1>3, <1>4, <2>1, <2>4, <3>2 DEF Recorded, Known
  <2> QED BY <1>5, <2>2, <2>3, <2>4
<1> QED BY <1>1, <1>6, <1>7, <1>8 DEF TypeOK, SyncState

\* The flush starts, looks at the folder, takes the listing, and ends.
LEMMA FlushSave ==
    ASSUME Facts, TypeOK', Late, Late', NEW p \in Path,
           FlushScan \/ FlushList \/ FlushFails \/ FlushDone
    PROVE  PathSaved(p)'
<1> USE DEF world, attach, history, counts
<1>0. TypeOK /\ TurnInv /\ PathSaved(p)
  BY DEF Facts, SaveInv
<1>1. UNCHANGED <<disk, folder, remote, store, refused, writer, halfway, others, sync, call>>
  BY DEF FlushScan, FlushList, FlushFails, FlushDone
<1>2. /\ (Tracked(p)' <=> Tracked(p)) /\ (Safe(p) => Safe(p)') /\ (Past(p)' <=> Past(p))
      /\ (Gone(p)' <=> Gone(p))
  BY <1>1, SameSafe, SameTracked DEF Past, Gone
<1>3. Still(p)'
  BY <1>0, <1>1, <1>2 DEF PathSaved, Still
<1>4. CASE FlushScan
  <2> DEFINE dirty == {q \in Files(disk) : Dirty(q)}
  <2>1. flush.pc = "scan" /\ baseline' = baseline /\ sent' = sent /\ flush'.clean = flush.clean
    BY <1>0, <1>4 DEF FlushScan, TypeOK, FlushState
  <2>2. Recorded(p)'
    BY <1>0, <1>1, <2>1 DEF PathSaved, Recorded, Before
  <2>3. folder = "ours" /\ p \notin dirty /\ (~halfway \/ sync.pc = "restore") => Safe(p)
    BY <2>1, CleanIsSafe DEF Before
  <2>4. CASE folder # "ours" \/ dirty = {}
    <3>1. flush'.pc = "done"
      BY <1>0, <1>4, <2>4 DEF FlushScan, TypeOK, FlushState
    <3>2. Ended' => Safe(p)
      BY <1>1, <2>3, <2>4 DEF Ended
    <3> QED BY <1>2, <1>3, <2>2, <3>1, <3>2 DEF PathSaved
  <2>5. CASE folder = "ours" /\ dirty # {}
    <3>1. flush' = [flush EXCEPT !.pc = "list", !.scan = disk, !.todo = dirty]
      BY <1>4, <2>5 DEF FlushScan
    <3> HIDE DEF dirty
    <3>2. flush'.pc = "list" /\ flush'.scan = disk /\ flush'.todo = dirty
      BY <1>0, <3>1 DEF TypeOK, FlushState
    <3>3. ~halfway => Listing(p)'
      BY <1>1, <1>2, <2>3, <2>5, <3>2 DEF Listing
    <3> QED BY <1>1, <1>3, <2>2, <3>2, <3>3 DEF PathSaved, Ended
  <2> QED BY <2>4, <2>5
<1>5. CASE FlushList
  <2> DEFINE base == Settled(remote)
             changed == {q \in flush.todo : flush.scan[q] # base[q]}
             held == {q \in changed : remote[q] = flush.scan[q]}
             ahead == {q \in changed : remote[q] \notin {Absent, base[q]}}
  <2>1. /\ flush.pc = "list"
        /\ baseline'[p] = IF p \in held THEN remote[p] ELSE base[p]
        /\ flush' = [flush EXCEPT !.pc = "send", !.listed = remote,
                                  !.todo = (changed \ held) \ ahead]
    BY <1>5 DEF FlushList
  <2>2. base[p] = IF sent[p] # Absent /\ remote[p] = sent[p] THEN sent[p] ELSE baseline[p]
    BY DEF Settled
  <2>3. p \notin (changed \ held) \ ahead /\ ~halfway => Safe(p)
    <3> SUFFICES ASSUME p \notin (changed \ held) \ ahead, ~halfway PROVE Safe(p)
      OBVIOUS
    <3>1. Listing(p)
      BY <1>0, <2>1 DEF PathSaved
    <3>2. CASE p \notin flush.todo
      BY <3>1, <3>2 DEF Listing
    <3>3. CASE p \in flush.todo /\ Gone(p)
      <4>1. disk[p] \in Theirs => Contested(p) \/ others = 0
        BY <1>0 DEF Contested, TypeOK
      <4> QED BY <3>3, <4>1, ContentAssumption DEF Gone, Safe
    <3>4. CASE p \in flush.todo /\ flush.scan[p] = disk[p]
      <4>1. CASE p \in held
        BY <3>4, <4>1 DEF Safe
      <4>2. CASE p \in ahead \/ p \notin changed
        BY <2>1, <3>4, <4>2, ListedIsSafe
      <4> QED BY <4>1, <4>2
    <3> QED BY <3>1, <3>2, <3>3, <3>4 DEF Listing
  <2>4. p \in held => baseline'[p] = remote[p]
    BY <2>1
  <2>5. p \notin held => baseline'[p] = base[p]
    BY <2>1
  <2> HIDE DEF changed, held, ahead, base
  <2>6. flush'.pc = "send" /\ flush'.listed = remote /\ flush'.todo = (changed \ held) \ ahead
    BY <1>0, <2>1 DEF TypeOK, FlushState
  <2>7. call["flush"][p] = NoRequest
    BY <2>1 DEF Facts, FlushCalls
  <2>8. ~halfway => Sending(p)'
    BY <1>1, <1>2, <2>3, <2>6, <2>7 DEF Sending, Near
  <2>9. ~halfway => Beside(p)'
    <3> SUFFICES ASSUME ~halfway, Tracked(p) PROVE Beside(p)'
      BY <1>2 DEF Beside
    <3>1. Accounted(p) /\ folder = "ours"
      BY <2>1 DEF Facts, SelfInv, SelfPath, SaveInv, KeepInv, Before
    <3>2. Known(p, baseline[p]) => baseline'[p] = remote[p]
      BY <2>2, <2>4, <2>5 DEF Known
    <3>3. remote[p] = baseline[p] => Known(p, baseline[p])
      BY DEF Known
    <3>4. sync.pc \in {"scan", "list"} => baseline'[p] = remote[p]
      BY <3>1, <3>2 DEF Accounted
    <3>5. sync.pc \in {"path", "unlink"} /\ p >= sync.at /\ call["sync"][p] = NoRequest =>
            baseline'[p] = sync.listed[p]
      BY <3>1, <3>2, <3>3 DEF Accounted
    <3>6. p \notin sync.pulls
      <4>1. sync.pc \in {"off", "scan", "list", "path", "unlink", "pull"}
        BY <1>0, <2>1 DEF Facts, SaveInv, KeepInv, TypeOK, SyncState
      <4> QED BY <3>1, <4>1 DEF Accounted, Facts, SelfInv, StartInv
    <3> QED BY <1>1, <3>4, <3>5, <3>6 DEF Beside
  <2> QED BY <1>1, <1>3, <2>6, <2>8, <2>9 DEF PathSaved, Before, Ended
<1>6. CASE FlushFails
  <2>1. flush'.pc = "done" /\ ~flush'.clean
    BY <1>0, <1>6 DEF FlushFails, TypeOK, FlushState
  <2> QED BY <1>3, <2>1 DEF PathSaved, Before, Ended
<1>7. CASE FlushDone
  <2>1. /\ flush.pc = "send" /\ flush'.pc = "done" /\ flush'.clean = flush.clean
        /\ flush.todo = {} /\ call["flush"][p] = NoRequest
    BY <1>0, <1>7 DEF FlushDone, TypeOK, FlushState
  <2>2. sync.pc # "restore"
    BY <2>1 DEF Facts, SaveInv, KeepInv
  <2>3. Ended' => Safe(p)
    BY <1>0, <1>1, <2>1, <2>2 DEF Ended, PathSaved, Sending
  <2> QED BY <1>2, <1>3, <2>1, <2>3 DEF PathSaved, Before
<1> QED BY <1>4, <1>5, <1>6, <1>7

\* An upload of the flush: sent, landing, and its answer.
LEMMA UploadSave ==
    ASSUME Facts, TypeOK', Late, NEW r \in Path,
           FlushSend(r) \/ Lands("flush", r) \/ Answer("flush", r)
    PROVE  \A p \in Path : PathSaved(p)'
<1> USE DEF world, history, counts
<1> DEFINE c == call["flush"][r]
<1>0. TypeOK /\ TurnInv /\ PathSaved(r)
  BY DEF Facts, SaveInv
<1>1. UNCHANGED <<disk, folder, store, halfway, others, sync>> /\ flush'.pc = flush.pc
  BY <1>0 DEF FlushSend, Lands, Answer, Saved, Unheard, Rejected, UpdateFindsNone, Conflicts,
              Conclude, attach, TypeOK, FlushState
<1>2. flush.pc \in {"send", "cut"} /\ (c = NoRequest => flush.pc = "send")
  BY <1>0 DEF FlushSend, Lands, Answer, Saved, Unheard, Rejected, UpdateFindsNone, Conflicts,
              Facts, FlushCalls, TypeOK, FlushState
<1>3. ~Before /\ ~Before' /\ ~Ended' /\ (Past(r)' <=> Past(r)) /\ (Gone(r)' <=> Gone(r))
  BY <1>1, <1>2 DEF Before, Ended, Past, Gone
<1>4. Gone(r) => Safe(r)
  <2>1. disk[r] \in Theirs => Contested(r) \/ others = 0
    BY <1>0 DEF Contested, TypeOK
  <2> QED BY <1>0, <2>1, ContentAssumption DEF Gone, Safe, TypeOK
<1>5. (Tracked(r) => remote[r] = disk[r]) => Safe(r)
  BY <1>0, Untracked DEF Safe, Contested
<1>6. CASE FlushSend(r)
  <2>1. /\ flush.pc = "send" /\ r \in flush.todo /\ flush'.todo = flush.todo \ {r}
        /\ flush'.scan = flush.scan /\ flush'.listed = flush.listed
        /\ flush'.clean = flush.clean
    BY <1>0, <1>6 DEF FlushSend, TypeOK, FlushState
  <2>2. UNCHANGED <<remote, baseline, refused, writer>>
    BY <1>6 DEF FlushSend
  <2>3. c = NoRequest /\ sync.pc \notin {"stamp", "restore"}
    BY <2>1 DEF Facts, FlushCalls, SaveInv, KeepInv
  <2>4. Tracked(r)' <=> Tracked(r)
    BY <1>1, <2>2, SameTracked
  <2>5. call'["sync"] = call["sync"]
        /\ \A p \in Path \ {r} : call'["flush"][p] = call["flush"][p] /\ sent'[p] = sent[p]
    BY <1>0, <1>6 DEF FlushSend, Upload, TypeOK
  <2>6. Apart(r)
    BY <1>1, <2>1, <2>2, <2>5 DEF Apart
  <2>7. flush.clean /\ ~halfway => Near(r, flush.listed[r]) /\ Beside(r)'
    BY <1>0, <1>1, <2>1, <2>2, <2>4, <2>5 DEF PathSaved, Sending, Beside
  <2>8. CASE disk[r] = Absent
    <3>1. call'["flush"][r] = NoRequest /\ Safe(r)'
      BY <1>1, <1>6, <2>3, <2>8, ContentAssumption DEF FlushSend, Safe
    <3>2. Still(r)'
      BY <1>0, <1>1, <1>3, <2>2, <2>4, <2>5, <3>1 DEF PathSaved, Still
    <3>3. Sending(r)'
      BY <2>1, <3>1 DEF Sending
    <3>4. PathSaved(r)'
      BY <1>1, <1>3, <2>1, <2>7, <3>2, <3>3 DEF PathSaved
    <3> QED BY <1>1, <2>1, <2>6, <3>4, ApartSave
  <2>9. CASE disk[r] # Absent
    <3>1. call'["flush"][r] = [content |-> disk[r], over |-> flush.listed[r], keep |-> Absent,
                               local |-> flush.scan[r], landed |-> FALSE]
      <4>1. Upload("flush", r, flush.listed[r], Absent, flush.scan[r])
        BY <1>6, <2>9 DEF FlushSend
      <4> QED BY <1>0, <4>1 DEF Upload, TypeOK
    <3>2. /\ call'["flush"][r].content = disk[r] /\ call'["flush"][r].over = flush.listed[r]
          /\ ~call'["flush"][r].landed
      BY <3>1
    <3>3. Still(r)'
      BY <1>0, <1>1, <1>3, <2>2, <2>3, <2>4, <2>5, <2>9, <3>2 DEF PathSaved, Still
    <3>4. call'["flush"][r] # NoRequest
      <4>1. call'["flush"][r] \in Request
        BY <1>0, <3>1 DEF Request, TypeOK, FlushState, File
      <4> QED BY <4>1, RequestAssumption
    <3>5. flush.clean /\ ~halfway => Sending(r)'
      BY <1>1, <1>3, <2>1, <2>2, <2>4, <2>7, <3>2, <3>4 DEF Sending, Near
    <3>6. PathSaved(r)'
      BY <1>1, <1>3, <2>1, <2>7, <3>3, <3>5 DEF PathSaved
    <3> QED BY <1>1, <2>1, <2>6, <3>6, ApartSave
  <2> QED BY <2>8, <2>9
<1>7. ASSUME c # NoRequest
      PROVE  /\ c \in Request /\ r \notin flush.todo
             /\ c.content = disk[r] \/ Past(r)
             /\ c.content # Absent /\ sync.pc \notin {"stamp", "restore"}
             /\ flush.pc = "send" /\ flush.clean /\ ~halfway =>
                  /\ c.content = disk[r] \/ Gone(r)
                  /\ c.landed => (Tracked(r) => remote[r] = disk[r]) \/ Gone(r)
                  /\ ~c.landed => Near(r, c.over)
                  /\ Beside(r)
  <2>1. c \in Request /\ r \notin flush.todo
    BY <1>0, <1>7 DEF TypeOK, Facts, FlushCalls
  <2> QED BY <1>0, <1>7, <2>1 DEF PathSaved, Still, Sending
<1>8. CASE Lands("flush", r)
  <2>1. /\ c # NoRequest /\ call'["flush"][r] = [c EXCEPT !.landed = TRUE]
        /\ call'["sync"] = call["sync"]
        /\ \A p \in Path \ {r} : call'["flush"][p] = call["flush"][p]
    BY <1>0, <1>8 DEF Lands, TypeOK
  <2>2. /\ call'["flush"][r].content = c.content /\ call'["flush"][r].landed
        /\ call'["flush"][r] \in Request
    <3>1. c \in Request
      BY <1>7, <2>1
    <3>2. [c EXCEPT !.landed = TRUE].content = c.content /\ [c EXCEPT !.landed = TRUE].landed
      BY <3>1 DEF Request
    <3>3. [c EXCEPT !.landed = TRUE] \in Request
      BY <3>1 DEF Request
    <3> QED BY <2>1, <3>2, <3>3
  <2>3. call'["flush"][r] # NoRequest
    BY <2>2, RequestAssumption
  <2>4. /\ remote'[r] = c.content
        /\ \A p \in Path \ {r} : remote'[p] = remote[p] /\ writer'[p] = writer[p]
        /\ UNCHANGED <<baseline, refused, sent, flush>>
    BY <1>0, <1>8 DEF Lands, TypeOK, attach
  <2>5. Apart(r)
    BY <1>1, <2>1, <2>4 DEF Apart
  <2>6. call["sync"][r] # NoRequest => c.content = disk[r]
    <3>1. call["sync"][r] # NoRequest => ~Past(r)
      BY <1>0 DEF TurnInv, Past, Path
    <3> QED BY <1>7, <2>1, <3>1
  <2>7. Still(r)'
    BY <1>0, <1>1, <1>3, <1>7, <2>1, <2>2, <2>3, <2>4, <2>6 DEF PathSaved, Still
  <2>8. ASSUME flush.pc = "send", flush.clean, ~halfway PROVE Sending(r)' /\ Beside(r)'
    <3>1. r \notin flush.todo /\ (c.content = disk[r] \/ Gone(r))
      BY <1>7, <2>1, <2>8
    <3>2. CASE c.content = disk[r]
      BY <1>1, <2>2, <2>3, <2>4, <3>1, <3>2 DEF Sending, Beside
    <3>3. CASE Gone(r)
      <4>1. Sending(r)'
        BY <1>1, <1>3, <2>2, <2>3, <2>4, <3>1, <3>3 DEF Sending
      <4>2. ~(sync.pc \in {"path", "unlink"} /\ r >= sync.at) /\ r \notin sync.pulls
            /\ sync.pc \notin {"scan", "list"}
        BY <1>0, <3>3 DEF Gone, Past, Path, TypeOK, SyncState
      <4> QED BY <1>1, <4>1, <4>2 DEF Beside
    <3> QED BY <3>1, <3>2, <3>3
  <2>9. PathSaved(r)'
    BY <1>1, <1>2, <1>3, <2>4, <2>7, <2>8 DEF PathSaved
  <2> QED BY <1>1, <2>4, <2>5, <2>9, ApartSave
\* A request that has ended.
<1>9. ASSUME NEW sha, NEW saved, Conclude("flush", r, sha, saved), c # NoRequest,
             UNCHANGED <<remote, writer>>,
             saved => sha = c.content /\ c.landed,
             \A p \in Path \ {r} : sent'[p] = sent[p] /\ refused'[p] = refused[p],
             flush.pc = "send" /\ flush'.clean /\ ~halfway => Safe(r)'
      PROVE  \A p \in Path : PathSaved(p)'
  <2>1. /\ call'["flush"][r] = NoRequest /\ call'["sync"] = call["sync"]
        /\ \A p \in Path \ {r} : call'["flush"][p] = call["flush"][p]
    BY <1>0, <1>9 DEF Conclude, TypeOK
  <2>2. /\ baseline'[r] = (IF saved THEN sha ELSE baseline[r])
        /\ \A p \in Path \ {r} : baseline'[p] = baseline[p]
    BY <1>0, <1>9 DEF Conclude, TypeOK
  <2>3. /\ flush'.todo = flush.todo /\ flush'.scan = flush.scan
        /\ flush'.listed = flush.listed /\ (flush'.clean => flush.clean)
    BY <1>0, <1>9 DEF Conclude, TypeOK, FlushState
  <2>4. Tracked(r)' <=> Tracked(r)
    BY <1>1, <1>9, SameTracked
  <2>5. Still(r)'
    BY <1>0, <1>1, <1>3, <1>9, <2>1, <2>4 DEF PathSaved, Still
  <2>6. flush.pc = "send" /\ flush'.clean /\ ~halfway => Sending(r)'
    BY <1>7, <1>9, <2>1, <2>3 DEF Sending
  <2>7. ASSUME flush.pc = "send", flush'.clean, ~halfway PROVE Beside(r)'
    <3>1. Beside(r)
      BY <1>7, <1>9, <2>3, <2>7
    <3>2. CASE ~saved
      BY <1>1, <1>9, <2>1, <2>2, <2>4, <3>1, <3>2 DEF Beside
    <3>3. CASE saved
      <4>1. (Tracked(r) => remote[r] = disk[r]) \/ Gone(r)
        BY <1>7, <1>9, <2>3, <2>7, <3>3
      <4>2. CASE Tracked(r) => remote[r] = disk[r]
        BY <1>1, <1>9, <2>4, <4>2 DEF Beside
      <4>3. CASE Gone(r)
        <5>1. ~(sync.pc \in {"path", "unlink"} /\ r >= sync.at) /\ r \notin sync.pulls
              /\ sync.pc \notin {"scan", "list"}
          BY <1>0, <4>3 DEF Gone, Past, Path, TypeOK, SyncState
        <5> QED BY <1>1, <5>1 DEF Beside
      <4> QED BY <4>1, <4>2, <4>3
    <3> QED BY <3>2, <3>3
  <2>8. PathSaved(r)'
    BY <1>1, <1>2, <1>3, <2>5, <2>6, <2>7 DEF PathSaved
  <2>9. Apart(r)
    BY <1>1, <1>9, <2>1, <2>2, <2>3 DEF Apart
  <2> QED BY <1>1, <2>3, <2>8, <2>9, ApartSave
<1>10. ASSUME UNCHANGED <<remote, refused, writer>> PROVE Safe(r) => Safe(r)'
  BY <1>1, <1>10, SameSafe
<1>11. CASE Saved("flush", r)
  <2>1. /\ Conclude("flush", r, c.content, TRUE) /\ c # NoRequest /\ c.landed
        /\ UNCHANGED <<remote, writer>>
    BY <1>11 DEF Saved
  <2>2. \A p \in Path \ {r} : sent'[p] = sent[p] /\ refused'[p] = refused[p]
    BY <1>0, <1>11 DEF Saved, TypeOK
  <2>3. flush'.clean => flush.clean
    BY <1>0, <2>1 DEF Conclude, TypeOK, FlushState
  <2>4. ASSUME flush.pc = "send", flush'.clean, ~halfway PROVE Safe(r)'
    <3>1. (Tracked(r) => remote[r] = disk[r]) \/ Gone(r)
      BY <1>7, <2>1, <2>3, <2>4
    <3>2. disk[r] \in Theirs => Contested(r) \/ others = 0
      BY <1>0 DEF Contested, TypeOK
    <3>3. Contested(r)' <=> Contested(r)
      BY <1>1, <2>1 DEF Contested
    <3>4. disk[r] \in Content => remote[r] = disk[r] \/ Contested(r)
      BY <1>0, <3>1, <3>2, Untracked, ContentAssumption DEF Gone, Contested
    <3> QED BY <1>1, <2>1, <3>3, <3>4 DEF Safe
  <2> QED BY <1>9, <2>1, <2>2, <2>4
<1>12. CASE Unheard("flush", r)
  <2>1. /\ Conclude("flush", r, c.keep, FALSE) /\ c # NoRequest
        /\ UNCHANGED <<remote, writer, refused, sent>> /\ faults' = faults + 1
    BY <1>12 DEF Unheard, Fault
  <2>2. ~flush'.clean
    <3>1. faults' # faults
      BY <1>0, <2>1 DEF TypeOK
    <3> QED BY <1>0, <2>1, <3>1 DEF Conclude, TypeOK, FlushState
  <2> QED BY <1>9, <2>1, <2>2
<1>13. CASE Rejected("flush", r)
  <2>1. /\ Conclude("flush", r, c.keep, FALSE) /\ c # NoRequest /\ c.content \in Refusable
        /\ UNCHANGED <<remote, writer, sent>>
    BY <1>13 DEF Rejected
  <2>2. \A p \in Path \ {r} : refused'[p] = refused[p]
    BY <1>0, <1>13 DEF Rejected, TypeOK
  <2>3. flush'.clean => flush.clean
    BY <1>0, <2>1 DEF Conclude, TypeOK, FlushState
  <2>4. ASSUME flush.pc = "send", flush'.clean, ~halfway PROVE Safe(r)'
    <3>1. c.content = disk[r] \/ Gone(r)
      BY <1>7, <2>1, <2>3, <2>4
    <3>2. disk[r] \in Theirs => Contested(r) \/ others = 0
      BY <1>0 DEF Contested, TypeOK
    <3>3. Contested(r)' <=> Contested(r)
      BY <1>1, <2>1 DEF Contested
    <3>4. disk[r] \in Content => disk[r] \in Refusable \/ Contested(r)
      BY <1>0, <2>1, <3>1, <3>2, ContentAssumption DEF Gone
    <3> QED BY <1>1, <2>1, <3>3, <3>4 DEF Safe
  <2> QED BY <1>9, <2>1, <2>2, <2>4
<1>14. CASE Conflicts("flush", r)
  <2>1. /\ Conclude("flush", r, c.keep, FALSE) /\ c # NoRequest /\ ~c.landed
        /\ remote[r] \notin {c.over, Absent}
        /\ UNCHANGED <<remote, writer, refused, sent>>
    BY <1>14 DEF Conflicts
  <2>2. flush'.clean => flush.clean
    BY <1>0, <2>1 DEF Conclude, TypeOK, FlushState
  <2>3. ASSUME flush.pc = "send", flush'.clean, ~halfway PROVE Safe(r)'
    <3>1. Near(r, c.over)
      BY <1>7, <2>1, <2>2, <2>3
    <3> QED BY <1>4, <1>5, <1>10, <2>1, <3>1 DEF Near
  <2> QED BY <1>9, <2>1, <2>3
<1>15. CASE UpdateFindsNone("flush", r)
  <2>1. c # NoRequest /\ remote[r] = Absent /\ UNCHANGED <<remote, writer, refused>>
    BY <1>15 DEF UpdateFindsNone
  <2>2. CASE disk[r] = Absent
    <3>1. Conclude("flush", r, c.keep, FALSE) /\ UNCHANGED sent
      BY <1>15, <2>2 DEF UpdateFindsNone
    <3>2. Safe(r)'
      BY <1>1, <2>2, ContentAssumption DEF Safe
    <3> QED BY <1>9, <2>1, <3>1, <3>2
  <2>3. CASE disk[r] # Absent
    <3>1. Upload("flush", r, Absent, c.keep, c.local) /\ UNCHANGED <<baseline, flush>>
      BY <1>15, <2>3 DEF UpdateFindsNone
    <3>2. /\ call'["flush"][r] = [content |-> disk[r], over |-> Absent, keep |-> c.keep,
                                  local |-> c.local, landed |-> FALSE]
          /\ call'["sync"] = call["sync"]
          /\ \A p \in Path \ {r} : call'["flush"][p] = call["flush"][p] /\ sent'[p] = sent[p]
      BY <1>0, <3>1 DEF Upload, TypeOK
    <3>3. /\ call'["flush"][r].content = disk[r] /\ call'["flush"][r].over = Absent
          /\ ~call'["flush"][r].landed
      BY <3>2
    <3>4. call'["flush"][r] # NoRequest
      <4>1. c \in Request
        BY <1>7, <2>1
      <4>2. call'["flush"][r] \in Request
        BY <1>0, <3>2, <4>1 DEF Request, TypeOK, File
      <4> QED BY <4>2, RequestAssumption
    <3>5. sync.pc \notin {"stamp", "restore"} /\ r \notin flush.todo
      BY <1>7, <2>1
    <3>6. Tracked(r)' <=> Tracked(r)
      BY <1>1, <2>1, SameTracked
    <3>7. Still(r)'
      BY <1>0, <1>1, <1>3, <2>1, <2>3, <3>2, <3>3, <3>5, <3>6 DEF PathSaved, Still
    <3>8. Sending(r)'
      <4>1. remote'[r] = Absent /\ flush' = flush /\ disk' = disk
        BY <1>1, <2>1, <3>1
      <4>2. call'["flush"][r].content = disk'[r] /\ Near(r, call["flush"][r].over)'
        BY <3>3, <4>1 DEF Near
      <4> QED BY <3>3, <3>4, <3>5, <4>1, <4>2 DEF Sending
    <3>9. flush.pc = "send" /\ flush.clean /\ ~halfway => Beside(r)'
      BY <1>0, <1>1, <2>1, <3>1, <3>2, <3>6 DEF PathSaved, Beside
    <3>10. PathSaved(r)'
      BY <1>1, <1>2, <1>3, <3>1, <3>7, <3>8, <3>9 DEF PathSaved
    <3>11. Apart(r)
      BY <1>1, <2>1, <3>1, <3>2 DEF Apart
    <3> QED BY <1>1, <3>1, <3>10, <3>11, ApartSave
  <2> QED BY <2>2, <2>3
<1> QED BY <1>6, <1>8, <1>11, <1>12, <1>13, <1>14, <1>15 DEF Answer

\* Another writer's edit, and a window that passes.
LEMMA EnvironmentSave ==
    ASSUME Facts, TypeOK', Late, NEW r \in Path, OtherWrites(r) \/ WindowPasses(r)
    PROVE  \A p \in Path : PathSaved(p)'
<1> USE DEF world, attach, history, counts
<1>0. TypeOK /\ (\A p \in Path : PathSaved(p))
  BY DEF Facts, SaveInv
<1>1. UNCHANGED <<disk, baseline, sent, refused, folder, store, halfway, sync, flush, call>>
  BY DEF OtherWrites, WindowPasses
<1>2. CASE WindowPasses(r)
  <2>1. UNCHANGED <<remote, writer, others>>
    BY <1>2 DEF WindowPasses
  <2>2. \A p \in Path : (Safe(p) => Safe(p)') /\ (Tracked(p)' <=> Tracked(p))
    BY <1>1, <2>1, SameSafe, SameTracked
  <2> QED BY <1>0, <1>1, <2>1, <2>2, SameSave
<1>3. CASE OtherWrites(r)
  <2>1. /\ others' > 0 /\ writer'[r] = "them"
        /\ \A p \in Path \ {r} : remote'[p] = remote[p] /\ writer'[p] = writer[p]
    BY <1>0, <1>3 DEF OtherWrites, TypeOK
  <2>2. \A p \in Path : Tracked(p)' => Tracked(p) /\ remote'[p] = remote[p]
    BY <2>1 DEF Tracked
  <2>3. ASSUME NEW p \in Path, Safe(p) PROVE Safe(p)'
    <3>1. CASE p = r
      BY <2>1, <3>1 DEF Safe, Contested
    <3>2. CASE p # r
      BY <1>1, <2>1, <2>3, <3>2 DEF Safe, Contested
    <3> QED BY <3>1, <3>2
  <2> QED BY <1>0, <1>1, <2>1, <2>2, <2>3, SameSave
<1> QED BY <1>2, <1>3

\* The teardown: its last sync, its flush, and what is left of them.
LEMMA TeardownSave ==
    ASSUME Facts, TypeOK', Late', NEW p \in Path, Teardown
    PROVE  PathSaved(p)'
<1> USE DEF world, attach, history, counts
<1>0. TypeOK /\ TurnInv
  BY DEF Facts
<1>1. /\ UNCHANGED <<disk, remote, store, writer, halfway, others, call>>
      /\ UNCHANGED <<baseline, sent, refused, folder>>
  BY DEF Teardown, EndClean, EndInError, FinishOver, StartFlush, LeaveFlush, Dispose, Late
<1>2. CASE EndClean \/ EndInError
  <2>1. /\ phase = "session" /\ sync.pc = "off"
        /\ sync'.pc \in {"off", "scan"} /\ flush'.pc \in {"off", "scan", "done"}
        /\ (flush'.pc = "done" => store.readOnly)
    <3>1. CASE EndClean
      BY <3>1 DEF EndClean, Off, NoFlush, Facts, PhaseInv
    <3>2. CASE EndInError
      BY <3>2 DEF EndInError, StartFlush, NoFlush
    <3> QED BY <1>2, <3>1, <3>2
  <2>2. \A q \in {"sync", "flush"} : call'[q][p] = NoRequest
    BY <1>0, <1>1, <2>1 DEF TurnInv, Facts, PhaseInv
  <2> QED BY <1>1, <2>1, <2>2 DEF PathSaved, Still, Recorded, Ended
<1>3. CASE FinishOver
  <2>1. /\ phase = "finish" /\ sync' = sync /\ flush'.pc \in {"scan", "done"}
        /\ (flush'.pc = "done" => store.readOnly)
    BY <1>3 DEF FinishOver, StartFlush, NoFlush
  <2>2. PathSaved(p) /\ Before
    BY <2>1 DEF Facts, SaveInv, Late, Before, PhaseInv, NoFlush
  <2>3. Still(p)' /\ Recorded(p)'
    BY <1>1, <2>1, <2>2 DEF PathSaved, Still, Recorded, Past, Tracked
  <2> QED BY <1>1, <2>1, <2>3 DEF PathSaved, Ended
<1>4. CASE LeaveFlush
  <2>1. /\ phase = "flush" /\ sync' = sync
        /\ (flush.pc = "done" /\ flush' = flush) \/ flush'.pc = "cut"
    BY <1>4 DEF LeaveFlush, NoFlush
  <2>2. PathSaved(p)
    BY <2>1 DEF Facts, SaveInv, Late
  <2>3. Still(p)'
    BY <1>1, <2>1, <2>2 DEF PathSaved, Still, Past, Tracked
  <2>4. (Safe(p) => Safe(p)') /\ (Ended' => Ended)
    BY <1>1, <2>1, SameSafe DEF Ended
  <2> QED BY <2>1, <2>2, <2>3, <2>4 DEF PathSaved, Before
<1>5. CASE Dispose
  BY <1>5 DEF Dispose, Late
<1> QED BY <1>2, <1>3, <1>4, <1>5 DEF Teardown

\* While the flush has something to send, the folder is neither left nor rebuilt.
LEMMA KeepStep ==
    ASSUME Facts, TypeOK', FlushCalls', Next PROVE KeepInv'
<1> USE DEF world, attach, history, counts
<1>0. TypeOK /\ TurnInv /\ KeepInv
  BY DEF Facts, SaveInv
<1> SUFFICES ASSUME flush'.pc \in {"list", "send"}, phase' = "flush"
             PROVE  KeepInv'
  BY DEF KeepInv, FlushCalls
<1>1. CASE FlushScan
  <2>1. /\ flush.pc = "scan" /\ UNCHANGED <<disk, folder, sync, phase>>
    BY <1>1 DEF FlushScan
  <2>2. folder = "ours" /\ \E p \in Files(disk) : Dirty(p)
    BY <1>0, <1>1 DEF FlushScan, TypeOK, FlushState
  <2>3. PICK p \in Path : disk[p] # Absent /\ Dirty(p)
    BY <2>2 DEF Files
  <2>4. PathSaved(p) /\ Late
    BY <2>1 DEF Facts, SaveInv, Late
  <2>5. sync.pc # "stamp"
    BY <2>3, <2>4 DEF PathSaved, Still
  <2>6. sync.pc # "restore"
    <3> SUFFICES ASSUME sync.pc = "restore" PROVE FALSE
      OBVIOUS
    <3>1. p < sync.at \/ p >= sync.at
      BY <1>0 DEF Path, TypeOK, SyncState
    <3>2. disk[p] = baseline[p] /\ sent[p] = Absent
      BY <2>1, <2>3, <2>4, <3>1 DEF PathSaved, Still, Recorded, Before
    <3> QED BY <2>3, <3>2 DEF Dirty
  <2> QED BY <2>1, <2>2, <2>3, <2>5, <2>6 DEF KeepInv
<1>2. CASE ~FlushScan
  <2>1. /\ flush.pc \in {"list", "send"} /\ phase = "flush"
    <3>1. CASE UNCHANGED <<flush, phase>>
      BY <3>1
    <3>2. CASE StartSync \/ Teardown \/ Environment \/ \E p \in Path : WindowPasses(p)
      BY <3>2 DEF StartSync, Teardown, EndClean, EndInError, FinishOver, StartFlush, LeaveFlush,
                  Dispose, NoFlush, Environment, Wipe, Spoil, AgentWrites, AgentRemoves,
                  OtherWrites, WindowPasses
    <3>3. CASE Scan \/ List \/ ListFails \/ EndPaths \/ EndSync \/ Stamp \/ EndRestore \/ RestoreFails
      BY <3>3 DEF Scan, List, ListFails, EndPaths, EndSync, Stamp, EndRestore, RestoreFails
    <3>4. ASSUME NEW p \in Path, \/ SyncPath(p) \/ Pull(p) \/ PullFindsNone(p) \/ PullFails(p)
                                 \/ Restore(p) \/ Lands("sync", p) \/ Answer("sync", p)
                                 \/ Deleted(p)
          PROVE  UNCHANGED <<flush, phase>>
      BY <3>4 DEF SyncPath, HoldDelete, SendDelete, Forget, PushNew, CompareDeleted, Unlink,
                  TakeRemote, Adopt, PushEdit, Unchanged, Create, Note, Push, Pull,
                  PullFindsNone, PullFails, Restore, Lands, Answer, Saved, Unheard, Rejected,
                  UpdateFindsNone, Conflicts, Deleted, Conclude
    <3>5. CASE FlushList \/ FlushFails \/ FlushDone
      BY <1>0, <3>5 DEF FlushList, FlushFails, FlushDone, TypeOK, FlushState
    <3>6. ASSUME NEW p \in Path, FlushSend(p) \/ Lands("flush", p) \/ Answer("flush", p)
          PROVE  flush'.pc = flush.pc /\ phase' = phase
      BY <1>0, <3>6 DEF FlushSend, Lands, Answer, Saved, Unheard, Rejected, UpdateFindsNone,
                        Conflicts, Conclude, TypeOK, FlushState
    <3> QED BY <1>2, <3>1, <3>2, <3>3, <3>4, <3>5, <3>6 DEF Next, SyncStep, FlushStep
  <2>2. /\ folder = "ours" /\ sync.pc \notin {"stamp", "restore"}
        /\ sync.pc \in {"scan", "list"} => \E p \in Path : disk[p] # Absent
    BY <1>0, <2>1 DEF KeepInv
  <2>3. CASE UNCHANGED <<folder, sync, disk>>
    BY <2>2, <2>3 DEF KeepInv
  <2>4. CASE UNCHANGED folder /\ sync'.pc \in {"off", "path", "unlink", "pull"}
    BY <2>2, <2>4 DEF KeepInv
  <2>5. CASE StartSync \/ Teardown \/ Environment
    <3>1. UNCHANGED <<folder, sync, disk>>
      BY <2>1, <2>5 DEF StartSync, Teardown, EndClean, EndInError, FinishOver, StartFlush,
                        LeaveFlush, Dispose, Environment, Wipe, Spoil, AgentWrites,
                        AgentRemoves, AgentActs, OtherWrites
    <3> QED BY <2>3, <3>1
  <2>6. CASE Scan
    <3>1. folder' = "ours" /\ disk' = disk /\ sync.pc = "scan" /\ sync'.pc = "list"
      BY <1>0, <2>2, <2>6 DEF Scan, TypeOK, SyncState
    <3> QED BY <2>2, <3>1 DEF KeepInv
  <2>7. CASE List
    <3>1. sync.pc = "list" /\ folder' = folder /\ Late
      BY <2>1, <2>7 DEF List, Late
    <3>2. PICK p \in Path : disk[p] # Absent
      BY <2>2, <3>1
    <3>3. sync.scan[p] # Absent
      BY <3>1, <3>2 DEF Facts, SaveInv, PathSaved, Still
    <3>4. ~LooksWiped(sync.scan, Settled(remote))
      BY <3>3 DEF LooksWiped, Files
    <3>5. sync'.pc = "path"
      BY <1>0, <2>7, <3>4 DEF List, TypeOK, SyncState
    <3> QED BY <2>4, <3>1, <3>5
  <2>8. CASE ListFails \/ EndPaths \/ EndSync
    <3>1. CASE ListFails \/ EndSync
      <4>1. UNCHANGED folder /\ sync' = Off
        BY <3>1 DEF ListFails, EndSync
      <4> QED BY <2>4, <4>1 DEF Off
    <3>2. CASE EndPaths
      <4>1. UNCHANGED folder /\ sync'.pc = "pull"
        BY <3>2 DEF EndPaths, Off
      <4> QED BY <2>4, <4>1
    <3> QED BY <2>8, <3>1, <3>2
  <2>9. CASE Stamp \/ EndRestore \/ RestoreFails \/ \E p \in Path : Restore(p)
    BY <2>2, <2>9 DEF Stamp, EndRestore, RestoreFails, Restore
  <2>10. ASSUME NEW p \in Path,
                \/ SyncPath(p) \/ Pull(p) \/ PullFindsNone(p) \/ PullFails(p)
                \/ Answer("sync", p) \/ Deleted(p)
         PROVE  UNCHANGED folder /\ sync'.pc \in {"path", "unlink", "pull"}
    <3>1. UNCHANGED folder
      BY <2>10 DEF SyncPath, HoldDelete, SendDelete, Forget, PushNew, CompareDeleted, Unlink,
                   TakeRemote, Adopt, PushEdit, Unchanged, Create, Note, Push, Pull,
                   PullFindsNone, PullFails, Answer, Saved, Unheard, Rejected,
                   UpdateFindsNone, Conflicts, Deleted
    <3>2. ASSUME SyncPath(p) PROVE sync.pc \in {"path", "unlink"}
      BY <3>2 DEF SyncPath, HoldDelete, SendDelete, Forget, PushNew, CompareDeleted, Unlink,
                  TakeRemote, Adopt, PushEdit, Unchanged, Settling, Turn
    <3>3. ASSUME SyncPath(p) PROVE sync'.pc \in {"path", "unlink"}
      BY <1>0, <3>2, <3>3 DEF SyncPath, HoldDelete, SendDelete, Forget, PushNew, CompareDeleted,
                  Unlink, TakeRemote, Adopt, PushEdit, Unchanged, Create, Note, Push, Advance,
                  TypeOK, SyncState
    <3>4. ASSUME Pull(p) \/ PullFindsNone(p) \/ PullFails(p) PROVE sync'.pc = "pull"
      BY <1>0, <3>4 DEF Pull, PullFindsNone, PullFails, TypeOK, SyncState
    <3>5. ASSUME Answer("sync", p) \/ Deleted(p) PROVE sync'.pc = "path"
      <4>1. sync.pc = "path"
        BY <1>0, <3>5 DEF Answer, Saved, Unheard, Rejected, UpdateFindsNone, Conflicts, Deleted,
                          TurnInv
      <4>2. sync' = sync \/ \E sha : Advance(p, sha)
        BY <3>5 DEF Answer, Saved, Unheard, Rejected, UpdateFindsNone, Conflicts, Deleted,
                    Conclude
      <4> QED BY <1>0, <4>1, <4>2 DEF Advance, TypeOK, SyncState
    <3> QED BY <2>10, <3>1, <3>3, <3>4, <3>5
  <2>11. ASSUME NEW p \in Path,
                \/ Lands("sync", p) \/ Lands("flush", p) \/ Answer("flush", p) \/ FlushSend(p)
                \/ WindowPasses(p)
         PROVE  UNCHANGED <<folder, sync, disk>>
    BY <2>11 DEF Lands, Answer, Saved, Unheard, Rejected, UpdateFindsNone, Conflicts, Conclude,
                 FlushSend, WindowPasses
  <2>12. CASE FlushList \/ FlushFails \/ FlushDone
    <3>1. UNCHANGED <<folder, sync, disk>>
      BY <2>12 DEF FlushList, FlushFails, FlushDone
    <3> QED BY <2>3, <3>1
  <2> QED BY <1>2, <2>3, <2>4, <2>5, <2>6, <2>7, <2>8, <2>9, <2>10, <2>11, <2>12
          DEF Next, SyncStep, FlushStep
<1> QED BY <1>1, <1>2

LEMMA SaveStep ==
    ASSUME Facts, TypeOK', FlushCalls', Next PROVE SaveInv'
<1>1. WriterInv' /\ KeepInv'
  BY WriterStep, KeepStep DEF Facts, SaveInv
<1> SUFFICES ASSUME Late', NEW p \in Path PROVE PathSaved(p)'
  BY <1>1 DEF SaveInv
<1>2. CASE Late
  <2>1. CASE \E r \in Path : SyncPath(r)
    BY <1>2, <2>1, SyncPathSave
  <2>2. CASE \E r \in Path : Lands("sync", r) \/ Answer("sync", r) \/ Deleted(r)
    BY <1>2, <2>2, AnswerSave
  <2>3. CASE \E r \in Path : Pull(r) \/ PullFindsNone(r) \/ PullFails(r) \/ Restore(r)
    BY <1>2, <2>3, PullSave
  <2>4. CASE \/ Scan \/ List \/ ListFails \/ EndPaths \/ EndSync
             \/ Stamp \/ EndRestore \/ RestoreFails
    BY <1>2, <2>4, LoopSave
  <2>5. CASE FlushScan \/ FlushList \/ FlushFails \/ FlushDone
    BY <1>2, <2>5, FlushSave
  <2>6. CASE \E r \in Path : FlushSend(r) \/ Lands("flush", r) \/ Answer("flush", r)
    BY <1>2, <2>6, UploadSave
  <2>7. CASE \E r \in Path : OtherWrites(r) \/ WindowPasses(r)
    BY <1>2, <2>7, EnvironmentSave
  <2>8. CASE Teardown
    BY <2>8, TeardownSave
  \* The agent is done.
  <2>9. ~StartSync /\ ~Wipe /\ ~Spoil /\ \A r \in Path : ~AgentWrites(r) /\ ~AgentRemoves(r)
    BY <1>2 DEF Late, StartSync, Wipe, Spoil, AgentWrites, AgentRemoves, AgentActs
  <2> QED BY <2>1, <2>2, <2>3, <2>4, <2>5, <2>6, <2>7, <2>8, <2>9
          DEF Next, SyncStep, FlushStep, Environment
<1>3. CASE ~Late
  <2>1. phase' # phase /\ ~EndRestore /\ ~RestoreFails
    BY <1>3 DEF Late, EndRestore, RestoreFails
  <2>2. Teardown
    <3> USE DEF world, attach, history, counts
    <3>1. ~StartSync /\ ~Environment /\ \A r \in Path : ~WindowPasses(r)
      BY <2>1 DEF StartSync, Environment, Wipe, Spoil, AgentWrites, AgentRemoves, AgentActs,
                  OtherWrites, WindowPasses
    <3>2. ~FlushStep
      BY <2>1 DEF FlushStep, FlushScan, FlushList, FlushFails, FlushDone, FlushSend, Lands,
                  Answer, Saved, Unheard, Rejected, UpdateFindsNone, Conflicts
    <3>3. ASSUME NEW r \in Path, SyncPath(r) PROVE FALSE
      BY <2>1, <3>3 DEF SyncPath, HoldDelete, SendDelete, Forget, PushNew, CompareDeleted,
                        Unlink, TakeRemote, Adopt, PushEdit, Unchanged, Create, Note, Push
    <3>4. ~SyncStep
      BY <2>1, <3>3 DEF SyncStep, Scan, List, ListFails, EndPaths, EndSync, Stamp, Pull,
                        PullFindsNone, PullFails, Restore, Lands, Answer, Saved, Unheard,
                        Rejected, UpdateFindsNone, Conflicts, Deleted
    <3> QED BY <3>1, <3>2, <3>4 DEF Next
  <2> QED BY <2>2, TeardownSave
<1> QED BY <1>2, <1>3

\* A flush that ends undisturbed has saved the folder: every file in it is on the server,
\* set aside as refused, or contested by another writer, even beside the last sync that
\* has run out of time and goes on.  Where the answer to a delete may be lost this is not
\* so: a file written again as it was matches a baseline that should be gone.
THEOREM FlushIsComplete == ASSUME ~LostDeletes PROVE Spec => []FlushSaves
<1>1. Init => Facts
  <2> SUFFICES ASSUME Init PROVE Facts
    OBVIOUS
  <2>1. TypeOK /\ TurnInv
    BY InitFacts
  <2>2. /\ sync.pc = "stamp" /\ flush.pc = "off" /\ flush.todo = {} /\ phase = "download"
        /\ \A q \in {"sync", "flush"}, p \in Path : call[q][p] = NoRequest
    BY DEF Init, Off, NoFlush
  <2>3. PhaseInv /\ FlushCalls
    BY <2>2 DEF Init, PhaseInv, FlushCalls
  <2>4. SelfInv
    BY <2>2 DEF SelfInv, StartInv, SelfPath, SentInv, RestoreInv, Accounted
  <2>5. SaveInv
    BY <2>2 DEF Init, SaveInv, WriterInv, KeepInv, Late
  <2> QED BY <2>1, <2>3, <2>4, <2>5 DEF Facts
<1>2. Facts /\ [Next]_vars => Facts'
  <2> SUFFICES ASSUME Facts, [Next]_vars PROVE Facts'
    OBVIOUS
  <2>1. TypeOK' /\ TurnInv'
    BY TypeStep DEF Facts
  <2>2. SelfInv'
    BY SelfStep DEF Facts
  <2>3. CASE Next
    <3>1. PhaseInv' /\ FlushCalls'
      BY <2>3, PhaseStep, FlushCallsStep DEF Facts
    <3>2. SaveInv'
      BY <2>1, <2>3, <3>1, SaveStep
    <3> QED BY <2>1, <2>2, <3>1, <3>2 DEF Facts
  <2>4. CASE UNCHANGED vars
    <3>1. PhaseInv' /\ FlushCalls'
      BY <2>4 DEF vars, Facts, PhaseInv, FlushCalls
    <3>2. SaveInv'
      <4>1. WriterInv' /\ KeepInv' /\ (Late' <=> Late)
        BY <2>4 DEF vars, Facts, SaveInv, WriterInv, KeepInv, Late
      <4>2. ASSUME NEW p \in Path, PathSaved(p) PROVE PathSaved(p)'
        BY <2>4, <4>2, SameSafe, SameTracked, SameSave DEF vars
      <4> QED BY <4>1, <4>2 DEF Facts, SaveInv
    <3> QED BY <2>1, <2>2, <3>1, <3>2 DEF Facts
  <2> QED BY <2>3, <2>4
<1>3. Facts => FlushSaves
  <2> SUFFICES ASSUME Facts, Late, Ended, NEW p \in Path PROVE Safe(p)
    BY DEF FlushSaves, Ended, Late, Safe
  <2> QED BY DEF Facts, SaveInv, PathSaved
<1> QED BY <1>1, <1>2, <1>3, PTL DEF Spec
=============================================================================
