------------------------------ MODULE MemorySync ------------------------------
(***************************************************************************)
(* One memory store of SessionMemoryStores                                  *)
(* (src/src/tools/agent-toolset/memories.ts) through a work item of         *)
(* EnvironmentWorker: the download, a sync now and then, and the teardown   *)
(* of src/src/lib/environments/worker.ts with its final sync, its flush and *)
(* the removal of the folder.                                               *)
(*                                                                          *)
(* Contents stand for their sha.  Those the agent writes are told apart     *)
(* from those other writers put on the server, so that a property can say   *)
(* whose edit is lost.  A request to the server replaces one content of a   *)
(* path by another: `over` is the precondition (Absent: a create), and      *)
(* `content` the new one (Absent: a delete).  It lands, or is refused, and  *)
(* its answer may be lost.                                                  *)
(*                                                                          *)
(* A listing is taken as one snapshot, and a fetch moves up to the write    *)
(* that follows it: nothing reads the fetched content in between.           *)
(***************************************************************************)
EXTENDS Naturals, FiniteSets

CONSTANTS N,            \* paths are numbered in their sorted order
          Mine,         \* contents the agent writes
          Theirs,       \* contents other writers put on the server
          Refusable,    \* contents the server refuses (400, 413)
          Absent,       \* no file, no memory, no sha
          NoRequest,
          Attachments,  \* [readOnly, deletes]: how the store may be attached
          DeleteCap,    \* deletes one sync may send
          LostDeletes,  \* the answer to a delete that landed may be lost
          MaxEdits,     \* bound on the edits of the agent and the others
          MaxFaults     \* bound on lost answers and failed calls

Path    == 1..N
Content == Mine \union Theirs
File    == Content \union {Absent}

ASSUME PathAssumption == N \in Nat
ASSUME ContentAssumption ==
    /\ Absent \notin Content /\ Mine \intersect Theirs = {} /\ Refusable \subseteq Mine
ASSUME BoundAssumption ==
    /\ DeleteCap \in Nat /\ LostDeletes \in BOOLEAN
    /\ MaxEdits \in Nat /\ MaxFaults \in Nat
ASSUME AttachmentAssumption ==
    Attachments \subseteq
        [readOnly : BOOLEAN, deletes : {"enabled", "log_only", "disabled"}]

\* `local` is the sha the pass saw, `keep` the sha the path keeps if nothing is saved.
Request == [content : File, over : File, keep : File, local : File, landed : BOOLEAN]
ASSUME RequestAssumption == NoRequest \notin Request

VARIABLES
    disk,      \* the file at each path
    folder,    \* "ours": marked; "spoiled": marker missing or wrong; "gone"
    remote,    \* the memory at each path (external)
    store,     \* readOnly and syncDeletions
    baseline,  \* AttachedStore.baseline
    refused,   \* AttachedStore.refusedShas
    pending,   \* AttachedStore.pendingDeletes: none, or older than the window
    sent,      \* AttachedStore.sentShas
    phase,     \* where the work item is
    sync,      \* the sync under way
    flush,     \* the flush under way
    call,      \* requests on their way, per pass and path
    writer,    \* history: who changed the memory last
    shown,     \* history: contents that have been on disk at the path
    wiped,     \* history: paths whose file went with the whole folder, not back yet
    halfway,   \* history: a recovery of the folder has stopped halfway
    edits, others, faults   \* bounds on the environment

world   == <<disk, folder, remote>>
attach  == <<baseline, refused, pending, sent>>
history == <<writer, shown, wiped, halfway>>
counts  == <<edits, others, faults>>
vars    == <<disk, folder, remote, store, baseline, refused, pending, sent, phase,
             sync, flush, call, writer, shown, wiped, halfway, edits, others, faults>>

Nothing == [p \in Path |-> Absent]
Files(f) == {p \in Path : f[p] # Absent}

Off == [pc |-> "off", final |-> FALSE, at |-> 1, used |-> 0, scan |-> Nothing,
        listed |-> Nothing, base |-> Nothing, pulls |-> {}]
NoFlush == [pc |-> "off", scan |-> Nothing, listed |-> Nothing, todo |-> {}, clean |-> TRUE]

Init ==
    /\ disk = Nothing /\ folder = "gone"
    /\ remote \in [Path -> Theirs \union {Absent}]
    /\ store \in Attachments
    /\ baseline = Nothing /\ refused = Nothing /\ sent = Nothing
    /\ pending = [p \in Path |-> "none"]
    /\ phase = "download" /\ sync = [Off EXCEPT !.pc = "stamp"] /\ flush = NoFlush
    /\ call = [q \in {"sync", "flush"} |-> [p \in Path |-> NoRequest]]
    /\ writer = [p \in Path |-> "them"] /\ shown = [p \in Path |-> {}] /\ wiped = {}
    /\ halfway = FALSE
    /\ edits = 0 /\ others = 0 /\ faults = 0

Fault == faults < MaxFaults /\ faults' = faults + 1

InBound == edits + others < MaxEdits

-----------------------------------------------------------------------------
(* The agent's tools, and whatever else writes into the folder.             *)

AgentActs == phase = "session" /\ InBound /\ edits' = edits + 1

\* The folder was emptied, its marker kept, and no sync has found it so: with a
\* file in it again, what is missing looks like deletions one by one.
Blurred ==
    /\ folder = "ours" /\ sync.pc # "stamp"
    /\ \E q \in wiped : baseline[q] # Absent \/ sent[q] # Absent

\* A new content, or one the file has had before.
AgentWrites(p) ==
    /\ AgentActs
    /\ \E c \in (Mine \union shown[p]) \ {disk[p]} :
          /\ disk' = [disk EXCEPT ![p] = c]
          /\ shown' = [shown EXCEPT ![p] = @ \union {c}]
    /\ folder' = IF folder = "gone" THEN "spoiled" ELSE folder
    /\ wiped' = IF Blurred THEN {} ELSE wiped \ {p}
    /\ UNCHANGED <<remote, store, attach, phase, sync, flush, call, writer, halfway, others,
                   faults>>

AgentRemoves(p) ==
    /\ AgentActs /\ disk[p] # Absent
    /\ disk' = [disk EXCEPT ![p] = Absent]
    /\ UNCHANGED <<folder, remote, store, attach, phase, sync, flush, call, history,
                   others, faults>>

\* Every file goes at once, alone or with the marker or with the whole folder.
Wipe ==
    /\ AgentActs /\ Files(disk) # {} /\ folder # "gone"
    /\ disk' = Nothing
    /\ folder' \in {folder, "spoiled", "gone"}
    /\ wiped' = IF sync.pc = "off" /\ (folder' # "ours" \/ Cardinality(Files(baseline)) > 1)
                THEN wiped \union Files(disk) ELSE wiped
    /\ UNCHANGED <<remote, store, attach, phase, sync, flush, call, writer, shown,
                   halfway, others, faults>>

\* The marker is removed or overwritten, the files stay.
Spoil ==
    /\ AgentActs /\ folder = "ours" /\ Files(disk) # {}
    /\ folder' = "spoiled"
    /\ UNCHANGED <<disk, remote, store, attach, phase, sync, flush, call, history,
                   others, faults>>

-----------------------------------------------------------------------------
(* The server.                                                              *)

OtherWrites(p) ==
    /\ InBound /\ others' = others + 1
    /\ \E c \in (Theirs \union {Absent}) \ {remote[p]} :
          remote' = [remote EXCEPT ![p] = c]
    /\ writer' = [writer EXCEPT ![p] = "them"]
    /\ UNCHANGED <<disk, folder, store, attach, phase, sync, flush, call, shown, wiped, halfway,
                   edits, faults>>

Lands(q, p) ==
    /\ call[q][p] # NoRequest /\ ~call[q][p].landed
    /\ remote[p] = call[q][p].over /\ call[q][p].content \notin Refusable
    /\ remote' = [remote EXCEPT ![p] = call[q][p].content]
    /\ call' = [call EXCEPT ![q][p].landed = TRUE]
    /\ writer' = [writer EXCEPT ![p] = "us"]
    /\ UNCHANGED <<disk, folder, store, attach, phase, sync, flush, shown, wiped, halfway,
                   counts>>

-----------------------------------------------------------------------------
(* Helpers of both passes.                                                  *)

\* Mutant: an upload whose answer was lost is forgotten.
Settled_Forgotten(listing) == baseline

\* #settleSent: a memory that holds what was sent is that upload.
Settled(listing) ==
    [p \in Path |-> IF sent[p] # Absent /\ listing[p] = sent[p] THEN sent[p] ELSE baseline[p]]

\* The file at p is read and sent in place of `over`; nothing is sent of a
\* file that has gone since.
Upload(q, p, over, keep, local) ==
    /\ sent' = [sent EXCEPT ![p] = disk[p]]
    /\ call' = [call EXCEPT ![q][p] = [content |-> disk[p], over |-> over, keep |-> keep,
                                       local |-> local, landed |-> FALSE]]

\* Mutant: the loop and the helper both move on.
Advance_Twice(p, sha) == sync' = [sync EXCEPT !.at = @ + 2, !.base[p] = sha]

\* A request of pass q has ended; the path's new sha, or the one it keeps.
Advance(p, sha) == sync' = [sync EXCEPT !.at = @ + 1, !.base[p] = sha]

Conclude(q, p, sha, saved) ==
    /\ call' = [call EXCEPT ![q][p] = NoRequest]
    /\ IF q = "sync"
       THEN Advance(p, sha) /\ UNCHANGED <<baseline, flush>>
       ELSE /\ baseline' = IF saved THEN [baseline EXCEPT ![p] = sha] ELSE baseline
            /\ flush' = [flush EXCEPT !.clean = @ /\ faults' = faults]
            /\ UNCHANGED sync

\* The file is written, unless the folder has gone.
Put(p, c) ==
    IF folder = "gone"
    THEN UNCHANGED <<disk, baseline, shown, wiped>>
    ELSE /\ disk' = [disk EXCEPT ![p] = c]
         /\ baseline' = [baseline EXCEPT ![p] = c]
         /\ shown' = [shown EXCEPT ![p] = @ \union {c}]
         /\ wiped' = wiped \ {p}

-----------------------------------------------------------------------------
(* Answers to requests.                                                     *)

Saved(q, p) ==
    /\ call[q][p] # NoRequest /\ call[q][p].landed /\ call[q][p].content # Absent
    /\ refused' = [refused EXCEPT ![p] = Absent]
    /\ sent' = [sent EXCEPT ![p] = Absent]
    /\ UNCHANGED faults
    /\ Conclude(q, p, call[q][p].content, TRUE)
    /\ UNCHANGED <<world, store, pending, phase, history, edits, others>>

\* No answer, or a client retry that meets its own saved attempt.
Unheard(q, p) ==
    /\ call[q][p] # NoRequest
    /\ call[q][p].content = Absent => LostDeletes \/ ~call[q][p].landed
    /\ Fault
    /\ Conclude(q, p, call[q][p].keep, FALSE)
    /\ UNCHANGED <<world, store, refused, pending, sent, phase, history, edits, others>>

Rejected(q, p) ==
    /\ call[q][p] # NoRequest /\ call[q][p].content \in Refusable
    /\ refused' = [refused EXCEPT ![p] = call[q][p].local]
    /\ UNCHANGED faults
    /\ Conclude(q, p, call[q][p].keep, FALSE)
    /\ UNCHANGED <<world, store, pending, sent, phase, history, edits, others>>

\* An update finds no memory: the file is the only copy, and is created.
UpdateFindsNone(q, p) ==
    /\ call[q][p] # NoRequest /\ ~call[q][p].landed
    /\ call[q][p].content # Absent /\ call[q][p].over # Absent
    /\ remote[p] = Absent
    /\ IF disk[p] # Absent
       THEN /\ Upload(q, p, Absent, call[q][p].keep, call[q][p].local)
            /\ UNCHANGED <<baseline, sync, flush>>
       ELSE /\ Conclude(q, p, call[q][p].keep, FALSE)
            /\ UNCHANGED sent
    /\ UNCHANGED <<world, store, refused, pending, phase, history, counts>>

\* The precondition fails, or the path of a create is taken.
Conflicts(q, p) ==
    /\ call[q][p] # NoRequest /\ ~call[q][p].landed
    /\ remote[p] \notin {call[q][p].over, Absent}
    /\ UNCHANGED faults
    /\ Conclude(q, p, call[q][p].keep, FALSE)
    /\ UNCHANGED <<world, store, refused, pending, sent, phase, history, edits, others>>

\* A delete is done, or was done by somebody else.
Deleted(p) ==
    /\ call["sync"][p] # NoRequest /\ call["sync"][p].content = Absent
    /\ remote[p] = Absent \/ call["sync"][p].landed
    /\ pending' = [pending EXCEPT ![p] = "none"]
    /\ UNCHANGED faults
    /\ Conclude("sync", p, Absent, FALSE)
    /\ UNCHANGED <<world, store, refused, sent, phase, history, edits, others>>

Answer(q, p) ==
    \/ Saved(q, p) \/ Unheard(q, p) \/ Rejected(q, p)
    \/ UpdateFindsNone(q, p) \/ Conflicts(q, p)

-----------------------------------------------------------------------------
(* A sync: #syncStore.                                                      *)

\* syncIfDue after a tool's result, or finish() at a clean end.
StartSync ==
    /\ phase = "session" /\ sync.pc = "off"
    /\ sync' = [Off EXCEPT !.pc = "scan"]
    /\ UNCHANGED <<world, store, attach, phase, flush, call, history, counts>>

\* A folder that is not trusted is left alone, or rebuilt if nothing is in it.
Scan ==
    /\ sync.pc = "scan"
    /\ \/ folder = "ours" /\ sync' = [sync EXCEPT !.pc = "list", !.scan = disk]
       \/ folder # "ours" /\ Files(disk) # {} /\ sync' = Off
       \/ folder # "ours" /\ Files(disk) = {} /\ sync' = [sync EXCEPT !.pc = "stamp"]
    /\ UNCHANGED <<world, store, attach, phase, flush, call, history, counts>>

\* Mutant: a wiped folder is one that loses three files or more.
LooksWiped_Three(scan, base) == Files(scan) = {} /\ Cardinality(Files(base)) > 2

\* Every file gone at once is a wiped folder, a lone one a deletion.
LooksWiped(scan, base) == Files(scan) = {} /\ Cardinality(Files(base)) > 1

List ==
    /\ sync.pc = "list"
    /\ baseline' = Settled(remote)
    /\ sent' = Nothing
    /\ sync' = IF LooksWiped(sync.scan, Settled(remote))
               THEN [sync EXCEPT !.pc = "stamp", !.scan = Nothing]
               ELSE [sync EXCEPT !.pc = "path", !.listed = remote]
    /\ UNCHANGED <<world, store, refused, pending, phase, flush, call, history, counts>>

ListFails ==
    /\ sync.pc = "list" /\ Fault
    /\ sync' = Off
    /\ UNCHANGED <<world, store, attach, phase, flush, call, history, edits, others>>

\* The sync has come to path p.
Turn(p) == sync.pc = "path" /\ sync.at = p /\ call["sync"][p] = NoRequest

\* The agent deleted the file and the memory is as it was.
LocallyDeleted(p) ==
    /\ sync.scan[p] = Absent /\ baseline[p] # Absent
    /\ sync.listed[p] = baseline[p] /\ ~store.readOnly

\* The re-check before a delete: the folder is ours and the file missing still.
StillMissing(p) == folder = "ours" /\ disk[p] = Absent

\* Mutant: the cap is off by one.
MayDelete_OneLess(p) ==
    /\ sync.final \/ pending[p] = "old"
    /\ StillMissing(p)
    /\ sync.used + 1 < DeleteCap

\* #corroboratedDelete, up to the request.
MayDelete(p) ==
    /\ sync.final \/ pending[p] = "old"
    /\ StillMissing(p)
    /\ sync.used < DeleteCap

HoldDelete(p) ==
    /\ Turn(p) /\ LocallyDeleted(p)
    /\ ~MayDelete(p) \/ store.deletes # "enabled"
    /\ pending' = [pending EXCEPT ![p] =
                     CASE store.deletes = "disabled" -> @
                       [] /\ store.deletes # "disabled"
                          /\ sync.final \/ pending[p] = "old"
                          /\ folder = "ours" /\ disk[p] # Absent -> "none"
                       [] OTHER -> IF @ = "none" THEN "fresh" ELSE @]
    /\ sync' = [sync EXCEPT !.at = @ + 1, !.base[p] = baseline[p],
                            !.used = IF store.deletes = "log_only" /\ MayDelete(p)
                                     THEN @ + 1 ELSE @]
    /\ UNCHANGED <<world, store, baseline, refused, sent, phase, flush, call, history, counts>>

SendDelete(p) ==
    /\ Turn(p) /\ LocallyDeleted(p) /\ MayDelete(p) /\ store.deletes = "enabled"
    /\ pending' = [pending EXCEPT ![p] = IF @ = "none" THEN "fresh" ELSE @]
    /\ sync' = [sync EXCEPT !.used = @ + 1]
    /\ call' = [call EXCEPT !["sync"][p] =
                  [content |-> Absent, over |-> baseline[p], keep |-> baseline[p],
                   local |-> Absent, landed |-> FALSE]]
    /\ UNCHANGED <<world, store, baseline, refused, sent, phase, flush, history, counts>>

\* The window of a deletion has passed.
WindowPasses(p) ==
    /\ pending[p] = "fresh"
    /\ pending' = [pending EXCEPT ![p] = "old"]
    /\ UNCHANGED <<world, store, baseline, refused, sent, phase, sync, flush, call,
                   history, counts>>

\* #syncPath goes on: any deletion held for the path is off.
Settling(p) ==
    /\ Turn(p) /\ ~LocallyDeleted(p)
    /\ pending' = [pending EXCEPT ![p] = "none"]

\* Nothing to do but to note a sha.
Note(p, sha) ==
    /\ Advance(p, sha)
    /\ UNCHANGED <<world, store, baseline, refused, sent, phase, flush, call, history, counts>>

\* The file goes to the server, unless it has gone from disk meanwhile.
Push(p, over, local) ==
    /\ IF disk[p] = Absent
       THEN Advance(p, over) /\ UNCHANGED <<sent, call>>
       ELSE Upload("sync", p, over, over, local) /\ UNCHANGED sync
    /\ UNCHANGED <<world, store, baseline, refused, phase, flush, history, counts>>

\* Mutant: a read-only store pushes new files.
Create_Always(p, sha) == IF refused[p] = sha THEN Note(p, Absent) ELSE Push(p, Absent, sha)

\* A file the server does not have: created there, or kept unsynced.
Create(p, sha) ==
    IF store.readOnly \/ refused[p] = sha THEN Note(p, Absent) ELSE Push(p, Absent, sha)

\* Neither side has it.
Forget(p) ==
    /\ Settling(p) /\ sync.listed[p] = Absent /\ sync.scan[p] = Absent
    /\ Note(p, Absent)

\* New on disk, or edited while the memory was deleted.
PushNew(p) ==
    /\ Settling(p) /\ sync.listed[p] = Absent
    /\ sync.scan[p] # Absent /\ sync.scan[p] # baseline[p]
    /\ Create(p, sync.scan[p])

\* #removeLocal reads the file again.
Fresh(p) == disk[p]

\* Deleted on the server: the file goes too, unless it was edited since.
CompareDeleted(p) ==
    /\ Settling(p) /\ sync.listed[p] = Absent
    /\ sync.scan[p] # Absent /\ sync.scan[p] = baseline[p]
    /\ CASE Fresh(p) = Absent -> Note(p, Absent)
         [] Fresh(p) = baseline[p] ->
              /\ sync' = [sync EXCEPT !.pc = "unlink"]
              /\ UNCHANGED <<world, store, baseline, refused, sent, phase, flush, call,
                             history, counts>>
         [] OTHER -> Create(p, Fresh(p))

Unlink(p) ==
    /\ sync.pc = "unlink" /\ sync.at = p
    /\ disk' = [disk EXCEPT ![p] = Absent]
    /\ sync' = [sync EXCEPT !.pc = "path", !.at = @ + 1]
    /\ UNCHANGED <<folder, remote, store, attach, phase, flush, call, history, counts>>

\* Mutant: a remote edit is not told from the base.
RemoteChanged_Never(p) == FALSE

RemoteChanged(p) == sync.listed[p] # baseline[p]

\* The server's version is to be fetched: over whatever is on disk.
TakeRemote(p) ==
    /\ Settling(p) /\ sync.listed[p] # Absent /\ RemoteChanged(p)
    /\ sync.scan[p] # sync.listed[p]
    /\ sync' = [sync EXCEPT !.at = @ + 1, !.base[p] = baseline[p], !.pulls = @ \union {p}]
    /\ UNCHANGED <<world, store, baseline, refused, sent, phase, flush, call, history, counts>>

\* The file holds the remote bytes already.
Adopt(p) ==
    /\ Settling(p) /\ sync.listed[p] # Absent /\ RemoteChanged(p)
    /\ sync.scan[p] = sync.listed[p]
    /\ Note(p, sync.listed[p])

\* Only the file has changed.
PushEdit(p) ==
    /\ Settling(p) /\ sync.listed[p] # Absent /\ ~RemoteChanged(p)
    /\ sync.scan[p] \notin {Absent, baseline[p]} /\ ~store.readOnly
    /\ IF refused[p] = sync.scan[p] THEN Note(p, sync.listed[p])
       ELSE Push(p, sync.listed[p], sync.scan[p])

Unchanged(p) ==
    /\ Settling(p) /\ sync.listed[p] # Absent /\ ~RemoteChanged(p)
    /\ sync.scan[p] \in {Absent, baseline[p]} \/ store.readOnly
    /\ Note(p, sync.listed[p])

\* The baseline is replaced once every path has been looked at.
EndPaths ==
    /\ sync.pc = "path" /\ sync.at = N + 1
    /\ baseline' = sync.base
    /\ sync' = [Off EXCEPT !.pc = "pull", !.final = sync.final, !.pulls = sync.pulls]
    /\ UNCHANGED <<world, store, refused, pending, sent, phase, flush, call, history, counts>>

\* #pullAll, several at a time: fetched, then written over the file.
Pull(p) ==
    /\ sync.pc = "pull" /\ p \in sync.pulls /\ remote[p] # Absent
    /\ Put(p, remote[p])
    /\ sync' = [sync EXCEPT !.pulls = @ \ {p}]
    /\ UNCHANGED <<folder, remote, store, refused, pending, sent, phase, flush, call,
                   writer, halfway, counts>>

\* The memory was deleted after the listing.
PullFindsNone(p) ==
    /\ sync.pc = "pull" /\ p \in sync.pulls /\ remote[p] = Absent
    /\ sync' = [sync EXCEPT !.pulls = @ \ {p}]
    /\ UNCHANGED <<world, store, attach, phase, flush, call, history, counts>>

\* Mutant: the baseline moves although the fetch failed.
PullBase_Moved(p) == [baseline EXCEPT ![p] = remote[p]]

\* The old entry stays and the next sync tries again.
PullBase(p) == baseline

PullFails(p) ==
    /\ sync.pc = "pull" /\ p \in sync.pulls /\ Fault
    /\ sync' = [sync EXCEPT !.pulls = @ \ {p}]
    /\ baseline' = PullBase(p)
    /\ UNCHANGED <<world, store, refused, pending, sent, phase, flush, call, history,
                   edits, others>>

EndSync ==
    /\ sync.pc = "pull" /\ sync.pulls = {}
    /\ sync' = Off
    /\ UNCHANGED <<world, store, attach, phase, flush, call, history, counts>>

-----------------------------------------------------------------------------
(* Download and recovery: #stampAndPull.                                    *)

Stamp ==
    /\ sync.pc = "stamp"
    /\ folder' = "ours"
    /\ baseline' = Nothing /\ sent' = Nothing
    /\ pending' = [p \in Path |-> "none"]
    /\ sync' = [sync EXCEPT !.pc = "restore", !.at = 1]
    /\ UNCHANGED <<disk, remote, store, refused, phase, flush, call, history, counts>>

Restore(p) ==
    /\ sync.pc = "restore" /\ sync.at = p
    /\ IF remote[p] = Absent THEN UNCHANGED <<disk, baseline, shown, wiped>>
       ELSE Put(p, remote[p])
    /\ sync' = [sync EXCEPT !.at = @ + 1]
    /\ UNCHANGED <<folder, remote, store, refused, pending, sent, phase, flush, call,
                   writer, halfway, counts>>

EndRestore ==
    /\ sync.pc = "restore" /\ sync.at = N + 1
    /\ sync' = Off
    /\ phase' = IF phase = "download" THEN "session" ELSE phase
    /\ halfway' = FALSE
    /\ UNCHANGED <<world, store, attach, flush, call, writer, shown, wiped, counts>>

\* A page of the listing fails: a half download is removed, a recovery stops.
RestoreFails ==
    /\ sync.pc = "restore" /\ Fault
    /\ sync' = Off /\ halfway' = TRUE
    /\ IF phase = "download"
       THEN disk' = Nothing /\ folder' = "gone" /\ phase' = "over"
       ELSE UNCHANGED <<disk, folder, phase>>
    /\ UNCHANGED <<remote, store, attach, flush, call, writer, shown, wiped, edits, others>>

-----------------------------------------------------------------------------
(* Teardown: #handleItem's finally block, and flushWrites.                  *)

\* A clean end earns a last full sync, which does not wait for the window.
EndClean ==
    /\ phase = "session" /\ sync.pc = "off"
    /\ phase' = "finish"
    /\ sync' = [Off EXCEPT !.pc = "scan", !.final = TRUE]
    /\ UNCHANGED <<world, store, attach, flush, call, history, counts>>

StartFlush(from) ==
    /\ phase = from
    /\ phase' = "flush"
    /\ flush' = [NoFlush EXCEPT !.pc = IF store.readOnly THEN "done" ELSE "scan"]
    /\ UNCHANGED <<world, store, attach, sync, call, history, counts>>

EndInError == StartFlush("session") /\ sync.pc = "off"

\* finish() has returned, or runs on beside the flush once its time is up.
FinishOver == StartFlush("finish")

\* Mutant: a path whose last send is unsettled is taken for clean.
Dirty_Settled(p) == disk[p] # baseline[p] /\ refused[p] # disk[p]

\* What flushWrites has to look at.
Dirty(p) == (disk[p] # baseline[p] \/ sent[p] # Absent) /\ refused[p] # disk[p]

FlushScan ==
    /\ flush.pc = "scan"
    /\ LET dirty == {p \in Files(disk) : Dirty(p)}
       IN  flush' = IF folder # "ours" \/ dirty = {} THEN [flush EXCEPT !.pc = "done"]
                    ELSE [flush EXCEPT !.pc = "list", !.scan = disk, !.todo = dirty]
    /\ UNCHANGED <<world, store, attach, phase, sync, call, history, counts>>

\* A remote edit is left alone, a file the server holds is noted.
FlushList ==
    /\ flush.pc = "list"
    /\ LET base    == Settled(remote)
           changed == {p \in flush.todo : flush.scan[p] # base[p]}
           held    == {p \in changed : remote[p] = flush.scan[p]}
           ahead   == {p \in changed : remote[p] \notin {Absent, base[p]}}
       IN  /\ baseline' = [p \in Path |-> IF p \in held THEN remote[p] ELSE base[p]]
           /\ flush' = [flush EXCEPT !.pc = "send", !.listed = remote,
                                     !.todo = (changed \ held) \ ahead]
    /\ sent' = Nothing
    /\ UNCHANGED <<world, store, refused, pending, phase, sync, call, history, counts>>

FlushFails ==
    /\ flush.pc = "list" /\ Fault
    /\ flush' = [flush EXCEPT !.pc = "done", !.clean = FALSE]
    /\ UNCHANGED <<world, store, attach, phase, sync, call, history, edits, others>>

\* Uploads run side by side.
FlushSend(p) ==
    /\ flush.pc = "send" /\ p \in flush.todo
    /\ flush' = [flush EXCEPT !.todo = @ \ {p}]
    /\ IF disk[p] = Absent THEN UNCHANGED <<sent, call>>
       ELSE Upload("flush", p, flush.listed[p], Absent, flush.scan[p])
    /\ UNCHANGED <<world, store, baseline, refused, pending, phase, sync, history, counts>>

FlushDone ==
    /\ flush.pc = "send" /\ flush.todo = {}
    /\ \A p \in Path : call["flush"][p] = NoRequest
    /\ flush' = [flush EXCEPT !.pc = "done"]
    /\ UNCHANGED <<world, store, attach, phase, sync, call, history, counts>>

\* The flush is over, or out of time: then no upload starts any more, and
\* those under way run on.
LeaveFlush ==
    /\ phase = "flush"
    /\ phase' = "dispose"
    /\ flush' = IF flush.pc = "done" THEN flush
                ELSE [NoFlush EXCEPT !.pc = "cut", !.clean = FALSE]
    /\ UNCHANGED <<world, store, attach, sync, call, history, counts>>

\* The folder goes, unless it holds files and is not ours.
Dispose ==
    /\ phase = "dispose"
    /\ phase' = "over"
    /\ IF folder = "ours" \/ Files(disk) = {}
       THEN disk' = Nothing /\ folder' = "gone"
       ELSE UNCHANGED <<disk, folder>>
    /\ UNCHANGED <<remote, store, attach, sync, flush, call, history, counts>>

-----------------------------------------------------------------------------
SyncPath(p) ==
    \/ HoldDelete(p) \/ SendDelete(p) \/ Forget(p) \/ PushNew(p) \/ CompareDeleted(p)
    \/ Unlink(p) \/ TakeRemote(p) \/ Adopt(p) \/ PushEdit(p) \/ Unchanged(p)

SyncStep ==
    \/ Scan \/ List \/ ListFails \/ EndPaths \/ EndSync
    \/ Stamp \/ EndRestore \/ RestoreFails
    \/ \E p \in Path : \/ SyncPath(p) \/ Pull(p) \/ PullFindsNone(p) \/ PullFails(p)
                       \/ Restore(p) \/ Lands("sync", p) \/ Answer("sync", p) \/ Deleted(p)

FlushStep ==
    \/ FlushScan \/ FlushList \/ FlushFails \/ FlushDone
    \/ \E p \in Path : FlushSend(p) \/ Lands("flush", p) \/ Answer("flush", p)

Teardown == EndClean \/ EndInError \/ FinishOver \/ LeaveFlush \/ Dispose

Environment ==
    \/ Wipe \/ Spoil
    \/ \E p \in Path : AgentWrites(p) \/ AgentRemoves(p) \/ OtherWrites(p)

Next ==
    \/ StartSync \/ SyncStep \/ FlushStep \/ Teardown \/ Environment
    \/ \E p \in Path : WindowPasses(p)

Spec == Init /\ [][Next]_vars

\* Requests end and due timers run, and a session that goes on yields results,
\* so that a sync starts again and again.
FairSpec ==
    /\ Spec
    /\ WF_vars(SyncStep \/ StartSync)
    /\ WF_vars(\E p \in Path : WindowPasses(p))

-----------------------------------------------------------------------------
SyncState ==
    [pc : {"off", "scan", "list", "path", "unlink", "pull", "stamp", "restore"},
     final : BOOLEAN, at : 1..(N + 1), used : Nat, scan : [Path -> File],
     listed : [Path -> File], base : [Path -> File], pulls : SUBSET Path]

FlushState ==
    [pc : {"off", "scan", "list", "send", "done", "cut"}, scan : [Path -> File],
     listed : [Path -> File], todo : SUBSET Path, clean : BOOLEAN]

TypeOK ==
    /\ disk \in [Path -> File] /\ folder \in {"ours", "spoiled", "gone"}
    /\ remote \in [Path -> File] /\ store \in Attachments
    /\ baseline \in [Path -> File] /\ refused \in [Path -> File] /\ sent \in [Path -> File]
    /\ pending \in [Path -> {"none", "fresh", "old"}]
    /\ phase \in {"download", "session", "finish", "flush", "dispose", "over"}
    /\ sync \in SyncState /\ flush \in FlushState
    /\ call \in [{"sync", "flush"} -> [Path -> Request \union {NoRequest}]]
    /\ writer \in [Path -> {"us", "them"}] /\ shown \in [Path -> SUBSET Content]
    /\ wiped \subseteq Path /\ halfway \in BOOLEAN
    /\ edits \in Nat /\ others \in Nat /\ faults \in Nat

\* No edit of another writer is lost: what this client replaces or deletes on
\* the server has been in the agent's folder before.
NoForeignLoss ==
    [][\A p \in Path :
          /\ remote'[p] # remote[p] /\ writer'[p] = "us"
          => remote[p] \in shown[p] \union {Absent}]_vars

\* Nor is an edit of the agent: while the folder is trusted, a sync replaces or
\* removes a file only for the sake of what another writer put, or deleted, on
\* the server.  An upload or a delete of its own is never the reason, but after
\* a recovery that stopped halfway: then the client has forgotten its uploads.
NoSelfLoss ==
    [][\A p \in Path :
          /\ phase \in {"session", "finish"} /\ ~halfway
          /\ sync.pc \in {"unlink", "pull"} /\ edits' = edits
          /\ disk[p] # Absent /\ disk'[p] # disk[p]
          => writer[p] = "them"]_vars

\* When the folder is emptied at once while no sync runs, and is known by the
\* loss of its marker or of two memories or more, no memory of the files that
\* went is deleted on the server until the file is back, whatever is written
\* meanwhile.  One case is excepted: a file written into an emptied folder that
\* has kept its marker, before a sync has found it empty (Blurred), makes the
\* others look deleted one by one, and they are.
WipeSparesServer ==
    [][\A p \in wiped :
          remote'[p] = Absent /\ remote[p] # Absent => writer'[p] = "them"]_vars

\* A read-only store is never changed by the sync, and no memory is deleted
\* unless deletions are enabled.
AttachmentHonoured ==
    [][\A p \in Path :
          /\ remote'[p] # remote[p] /\ writer'[p] = "us" /\ others' = others
          => ~store.readOnly /\ (remote'[p] = Absent => store.deletes = "enabled")]_vars

\* Other writers have been at work, and the memory, or the file, is theirs.
Contested(p) == others > 0 /\ (writer[p] = "them" \/ disk[p] \in Theirs)

\* When the flush has ended undisturbed, every file in the folder is on the
\* server, unless it is taken for refused or contested, or a recovery of the
\* folder stopped halfway.
FlushSaves ==
    /\ phase = "dispose" /\ flush.pc = "done" /\ flush.clean
    /\ folder = "ours" /\ ~store.readOnly /\ ~halfway
    => \A p \in Path :
          disk[p] \in Content \ Refusable
              => remote[p] = disk[p] \/ refused[p] = disk[p] \/ Contested(p)

\* "{rel -> sha} the server refused": a file it would accept is never set aside.
RefusedWasRefused == \A p \in Path : refused[p] \in Refusable \union {Absent}

InSync ==
    \A p \in Path : disk[p] = remote[p] \/ disk[p] \in Refusable \/ refused[p] = disk[p]

\* Once edits and faults have ended, the folder of a session that goes on
\* comes to agree with the server, whatever happened before.
Converges ==
    <>[](/\ phase = "session" /\ folder = "ours"
         /\ ~store.readOnly /\ store.deletes = "enabled"
         => InSync)
=============================================================================
