------------------------------- MODULE CaptureRun -------------------------------
(***************************************************************************)
(* One run of the market-data collector (data_capture/collector.py): a     *)
(* sequence of websocket connections whose messages are recorded in        *)
(* sealed segments, a snapshot task per symbol that runs beside the        *)
(* receive loop, reconnects after failures, and a manifest at the end that *)
(* verify_capture_manifest accepts or not.                                 *)
(*                                                                         *)
(* The collector is one asyncio task: others run only where it awaits,     *)
(* which is in "opening", "receive" and "backoff".  It may crash anywhere. *)
(* The feed and the REST service are external: they lose, repeat, delay    *)
(* and corrupt what they like.                                             *)
(***************************************************************************)
EXTENDS DepthSynchronizer, FiniteSetsExt

CONSTANTS
  Symbols,
  Deadline,          \* requested duration
  Planned,           \* the pilot's required duration
  RotateBefore,      \* age at which a connection is given up
  DayLength,
  MaxReconnects,
  MaxMessages,       \* max_messages of the call
  SegmentLimit,      \* segment_max_messages
  MaxConnections,    \* bound: connections of the run
  MaxFaults,         \* bound: disk operations that fail
  Feed,              \* depth events that the feed may deliver
  SnapshotIds,       \* update identifiers at which a snapshot may be taken
  NoWriter, NoTask, PendingTask, NoManifest

\* Segments and snapshots on disk, the writer of the open segment, and the
\* manifest.
SegmentFiles == [index : Nat, records : Nat]
SnapshotFiles == [connection : Nat, symbol : Symbols, last : 0 .. LastId]
Writers == [index : Nat, day : Nat, records : Nat, broken : BOOLEAN, renamed : BOOLEAN]
Statuses == {"aborted", "complete", "pilot_incomplete"}
Manifests ==
  [segments : SUBSET SegmentFiles, snapshots : SUBSET SnapshotFiles, metadata : BOOLEAN,
   total : Nat, status : Statuses, duration : Nat]

\* The limits that load_capture_config accepts, and what the model adds to them.
load_capture_config ==
  /\ {Deadline, Planned, RotateBefore, DayLength, MaxReconnects, MaxMessages, SegmentLimit,
      MaxConnections, MaxFaults} \subseteq Nat
  /\ DayLength > 0 /\ SegmentLimit > 0
  /\ Feed \subseteq Update /\ SnapshotIds \subseteq 0 .. LastId
  /\ {NoTask, PendingTask} \cap ({NoId} \cup (0 .. LastId)) = {}
  /\ NoTask # PendingTask /\ NoTask \notin Symbols
  /\ NoWriter \notin Writers /\ NoManifest \notin Manifests
ASSUME CaptureAssumption == load_capture_config

VARIABLES
  clock,       \* monotonic clock, from the start of the run
  pc,          \* where the collector is
  connections, \* how many connections have been recorded
  opened,      \* connection_started
  reconnects,
  sync,        \* the synchronizer of each symbol
  tasks,       \* the snapshot task of each symbol: none, pending, or its result
  orphans,     \* pending tasks that nothing waits for any more
  installing,  \* the symbol whose snapshot is being installed, if any
  draining,    \* the buffered events that install_snapshot still has to apply
  store,       \* segment writer, artifacts listed so far, files on disk
  total,       \* total_messages
  status,
  manifest, digest,
  appended, faults   \* history: records written, disk faults

link == <<connections, opened, reconnects>>
depth == <<sync, tasks, orphans, installing, draining>>
disk == <<store, total, appended>>
outcome == <<status, manifest, digest>>
vars == <<clock, pc, link, depth, disk, outcome, faults>>

Ended == {"done", "raised", "crashed"}
Awaiting == {"opening", "receive", "backoff"}

-----------------------------------------------------------------------------
(* Files.  A store holds the open segment, what has been listed as an      *)
(* artifact, and the sealed files.                                         *)

Segment(index, records) == [index |-> index, records |-> records]
Snapshot(connection, symbol, last) == [connection |-> connection, symbol |-> symbol, last |-> last]

Day == clock \div DayLength

\* seal, verify_segment and artifacts.append.
Sealed(st) ==
  LET file == Segment(st.writer.index, st.writer.records)
  IN [st EXCEPT !.segments = @ \cup {file}, !.files = @ \cup {file}, !.writer = NoWriter]

\* A seal that raises, before or after the rename: the writer stays as it is.
HalfSealed(st, renamed) ==
  [st EXCEPT !.writer.broken = TRUE, !.writer.renamed = renamed,
     !.files = IF renamed THEN @ \cup {Segment(st.writer.index, st.writer.records)} ELSE @]

\* open_writer
Opened(st) ==
  [st EXCEPT !.writer = [index |-> st.next, day |-> Day, records |-> 0,
                         broken |-> FALSE, renamed |-> FALSE],
             !.next = @ + 1]

\* The file work of one message: another day seals the segment, and without
\* a segment one is opened.
ForToday(st) ==
  IF st.writer = NoWriter THEN Opened(st)
  ELSE IF st.writer.day # Day THEN Opened(Sealed(st)) ELSE st

Appended(st) == [st EXCEPT !.writer.records = @ + 1]

\* After the message: a segment that has reached its limit is sealed.
AfterMessage(st) == IF st.writer.records >= SegmentLimit THEN Sealed(st) ELSE st

DiskMayFail == faults < MaxFaults

-----------------------------------------------------------------------------
(* Connections.                                                            *)

\* Tasks that are still running when their connection is given up.
Running(t) == {s \in Symbols : t[s] = PendingTask}

\* The exception handler of a connection; its tasks are not cancelled.
TransportError ==
  /\ reconnects' = reconnects + 1
  /\ orphans' = orphans \cup {<<connections, s>> : s \in Running(tasks)}
  /\ tasks' = [s \in Symbols |-> NoTask]
  /\ installing' = NoTask /\ draining' = << >>
  /\ IF reconnects + 1 > MaxReconnects
       THEN pc' = "finish" /\ status' = "aborted"
       ELSE pc' = "backoff" /\ UNCHANGED status

Limit_bug == total >= MaxMessages

Limit == clock >= Deadline \/ total >= MaxMessages

\* run, up to the first connection: exchangeInfo and the four metadata files.
Begin ==
  /\ pc = "start"
  /\ \/ /\ pc' = "connect"
        /\ store' = [store EXCEPT !.metadata = TRUE]
        /\ UNCHANGED status
     \/ pc' = "finish" /\ status' = "aborted" /\ UNCHANGED store
  /\ UNCHANGED <<clock, link, depth, total, appended, manifest, digest, faults>>

\* The outer loop: another connection, or the status of a run that is over.
Connect ==
  /\ pc = "connect" /\ ~Limit /\ connections < MaxConnections
  /\ connections' = connections + 1
  /\ pc' = "opening"
  /\ UNCHANGED <<clock, opened, reconnects, depth, disk, outcome, faults>>

LoopEnds ==
  /\ pc = "connect" /\ Limit
  /\ status' = IF Deadline >= Planned /\ clock >= Deadline THEN "complete" ELSE "pilot_incomplete"
  /\ pc' = "finish"
  /\ UNCHANGED <<clock, link, depth, disk, manifest, digest, faults>>

\* The socket is open: every book starts over, every symbol gets a task.
SocketOpens ==
  /\ pc = "opening"
  /\ sync' = [s \in Symbols |-> begin_resynchronization(sync[s])]
  /\ tasks' = [s \in Symbols |-> PendingTask]
  /\ opened' = clock
  /\ pc' = "loop"
  /\ UNCHANGED <<clock, connections, reconnects, orphans, installing, draining, disk, outcome, faults>>

SocketFails ==
  /\ pc \in {"opening", "receive"}
  /\ TransportError
  /\ UNCHANGED <<clock, connections, opened, sync, disk, manifest, digest, faults>>

Retry ==
  /\ pc = "backoff"
  /\ pc' = "connect"
  /\ UNCHANGED <<clock, link, depth, disk, outcome, faults>>

\* Cancelling the tasks of a connection that ends without an error.
ConnectionEnds ==
  /\ tasks' = [s \in Symbols |-> NoTask]
  /\ pc' = "connect"

-----------------------------------------------------------------------------
(* Snapshot tasks.                                                         *)

\* _fetch_snapshot returns: the file is written and listed; a file of that
\* name makes the task fail.
SnapshotArrives(s) ==
  /\ pc \in Awaiting /\ tasks[s] = PendingTask
  /\ \E last \in SnapshotIds :
       LET file == Snapshot(connections, s, last)
       IN IF file \in store.snapshotFiles
            THEN tasks' = [tasks EXCEPT ![s] = NoId] /\ UNCHANGED store
            ELSE /\ tasks' = [tasks EXCEPT ![s] = last]
                 /\ store' = [store EXCEPT !.snapshotFiles = @ \cup {file},
                                           !.snapshots = @ \cup {file}]
  /\ UNCHANGED <<clock, pc, link, sync, orphans, installing, draining, total, appended, outcome, faults>>

\* The request fails, or its answer is not what was asked for.
SnapshotFails(s) ==
  /\ pc \in Awaiting /\ tasks[s] = PendingTask
  /\ tasks' = [tasks EXCEPT ![s] = NoId]
  /\ UNCHANGED <<clock, pc, link, sync, orphans, installing, draining, disk, outcome, faults>>

\* A task nobody waits for writes and lists its snapshot all the same.
OrphanArrives ==
  /\ pc \in Awaiting
  /\ \E o \in orphans, last \in SnapshotIds :
       LET file == Snapshot(o[1], o[2], last)
       IN /\ orphans' = orphans \ {o}
          /\ store' = [store EXCEPT !.snapshotFiles = @ \cup {file}, !.snapshots = @ \cup {file}]
  /\ UNCHANGED <<clock, pc, link, sync, tasks, installing, draining, total, appended, outcome, faults>>

\* The conditions at the top of the receive loop.
LoopStops ==
  /\ pc = "loop" /\ (Limit \/ clock - opened >= RotateBefore)
  /\ ConnectionEnds
  /\ UNCHANGED <<clock, link, sync, orphans, installing, draining, disk, outcome, faults>>

\* _install_ready_snapshots, for one task that is done.
InstallSnapshot(s) ==
  /\ pc = "loop" /\ ~Limit /\ clock - opened < RotateBefore
  /\ tasks[s] \in 0 .. LastId
  /\ LET last == tasks[s] IN
       IF Overlaps(sync[s], last)
         THEN /\ sync' = [sync EXCEPT ![s] = install_snapshot(@, last)]
              /\ installing' = s /\ draining' = Remaining(sync[s], last)
              /\ tasks' = [tasks EXCEPT ![s] = NoTask]
              /\ pc' = "drain"
              /\ UNCHANGED <<orphans, reconnects, status>>
         ELSE /\ sync' = [sync EXCEPT ![s] = reject_snapshot(@, last)]
              /\ TransportError
  /\ UNCHANGED <<clock, connections, opened, disk, manifest, digest, faults>>

\* The task has failed: awaiting its result raises.
TaskRaises(s) ==
  /\ pc = "loop" /\ ~Limit /\ clock - opened < RotateBefore
  /\ tasks[s] = NoId
  /\ TransportError
  /\ UNCHANGED <<clock, connections, opened, sync, disk, manifest, digest, faults>>

\* install_snapshot applies the events buffered so far; a gap or a refused
\* event ends the connection.
Drain ==
  /\ pc = "drain"
  /\ IF draining = << >>
       THEN /\ pc' = "loop" /\ installing' = NoTask
            /\ UNCHANGED <<sync, tasks, orphans, draining, reconnects, status>>
       ELSE /\ sync' = [sync EXCEPT ![installing] = apply_update(@, Head(draining))]
            /\ IF Outcome(sync[installing], Head(draining)) \in {"gap", "refused"}
                 THEN TransportError
                 ELSE /\ draining' = Tail(draining)
                      /\ UNCHANGED <<pc, tasks, orphans, installing, reconnects, status>>
  /\ UNCHANGED <<clock, connections, opened, disk, manifest, digest, faults>>

\* No task is done: wait for a message.
Wait ==
  /\ pc = "loop" /\ ~Limit /\ clock - opened < RotateBefore
  /\ \A s \in Symbols : tasks[s] \in {NoTask, PendingTask}
  /\ pc' = "receive"
  /\ UNCHANGED <<clock, link, depth, disk, outcome, faults>>

Timeout ==
  /\ pc = "receive"
  /\ pc' = "loop"
  /\ UNCHANGED <<clock, link, depth, disk, outcome, faults>>

-----------------------------------------------------------------------------
(* Messages.                                                               *)

\* What the depth part of a message does; u is None if it does not parse.
\* Afterwards the symbol has a fresh task, unless it needs none.
NewTask(s) ==
  /\ tasks' = [tasks EXCEPT ![s] = PendingTask]
  /\ orphans' = orphans \cup {<<connections, t>> : t \in {s} \cap Running(tasks)}

Resynchronize_bug(s, synchronizer) ==
  /\ sync' = [sync EXCEPT ![s] = begin_resynchronization(synchronizer)]
  /\ UNCHANGED <<tasks, orphans>>
Resynchronize(s, synchronizer) ==
  /\ sync' = [sync EXCEPT ![s] = begin_resynchronization(synchronizer)]
  /\ NewTask(s)

Depth(s, u) ==
  LET result == IF sync[s].state = "SYNCHRONIZED" THEN Outcome(sync[s], u) ELSE "buffered"
  IN \/ result = "gap"     /\ sync' = [sync EXCEPT ![s] = ingest(@, u)] /\ NewTask(s)
     \/ result = "refused" /\ Resynchronize(s, ingest(sync[s], u))
     \/ /\ result \notin {"gap", "refused"}
        /\ sync' = [sync EXCEPT ![s] = ingest(@, u)]
        /\ UNCHANGED <<tasks, orphans>>

\* A record can be written: the writer is sound, or a seal is tried again.
Writable ==
  store.writer # NoWriter =>
    ~store.writer.broken \/ (store.writer.day # Day /\ ~store.writer.renamed)

\* A message is received and recorded.
Recorded ==
  /\ pc = "receive"
  /\ Writable
  /\ total' = total + 1
  /\ appended' = appended + 1
  /\ UNCHANGED <<clock, link, manifest, digest, status, installing, draining, faults>>

DepthMessage(s, u) ==
  /\ Recorded
  /\ Depth(s, u)
  /\ store' = AfterMessage(Appended(ForToday(store)))
  /\ pc' = "loop"

MalformedDepth(s) ==
  /\ Recorded
  /\ Resynchronize(s, sync[s])
  /\ store' = AfterMessage(Appended(ForToday(store)))
  /\ pc' = "loop"

OtherMessage ==
  /\ Recorded
  /\ store' = AfterMessage(Appended(ForToday(store)))
  /\ pc' = "loop"
  /\ UNCHANGED <<sync, tasks, orphans>>

\* The exchange announces a shutdown: the loop is left before the segment
\* limit is looked at.
ServerShutdown ==
  /\ Recorded
  /\ store' = Appended(ForToday(store))
  /\ ConnectionEnds
  /\ UNCHANGED <<sync, orphans>>

\* _decode_message raises before anything is recorded.
Undecodable ==
  /\ pc = "receive"
  /\ TransportError
  /\ UNCHANGED <<clock, connections, opened, sync, disk, manifest, digest, faults>>

\* The flush of append fails: the record is in the segment, but not counted.
AppendFails ==
  /\ pc = "receive" /\ DiskMayFail
  /\ Writable
  /\ faults' = faults + 1
  /\ appended' = appended + 1
  /\ store' = Appended(ForToday(store))
  /\ TransportError
  /\ UNCHANGED <<clock, connections, opened, sync, total, manifest, digest>>

\* The seal at the end of a day fails: the message is lost.
DaySealFails ==
  /\ pc = "receive" /\ DiskMayFail
  /\ store.writer # NoWriter /\ store.writer.day # Day /\ ~store.writer.renamed
  /\ faults' = faults + 1
  /\ \E renamed \in BOOLEAN : store' = HalfSealed(store, renamed)
  /\ TransportError
  /\ UNCHANGED <<clock, connections, opened, sync, total, appended, manifest, digest>>

\* A broken writer refuses every further record.
BrokenWriter ==
  /\ pc = "receive" /\ store.writer # NoWriter /\ store.writer.broken
  /\ TransportError
  /\ UNCHANGED <<clock, connections, opened, sync, disk, manifest, digest, faults>>

-----------------------------------------------------------------------------
(* The end of the run: the finally block, which awaits nothing.            *)

SealLast ==
  /\ pc = "finish"
  /\ sync' = [s \in Symbols |-> finalize(sync[s])]
  /\ \/ /\ store.writer = NoWriter
        /\ store' = store /\ pc' = "manifest" /\ UNCHANGED faults
     \/ /\ store.writer # NoWriter /\ ~store.writer.renamed
        /\ store' = Sealed(store) /\ pc' = "manifest" /\ UNCHANGED faults
     \/ /\ store.writer # NoWriter
        /\ DiskMayFail \/ store.writer.broken
        /\ \E renamed \in BOOLEAN : store' = HalfSealed(store, renamed \/ store.writer.renamed)
        /\ pc' = "raised" /\ faults' = IF DiskMayFail THEN faults + 1 ELSE faults
  /\ UNCHANGED <<clock, link, tasks, orphans, installing, draining, total, appended, outcome>>

WriteManifest ==
  /\ pc = "manifest"
  /\ manifest' = [segments |-> store.segments, snapshots |-> store.snapshots,
                  metadata |-> store.metadata, total |-> total, status |-> status,
                  duration |-> clock]
  /\ pc' = "digest"
  /\ UNCHANGED <<clock, link, depth, disk, status, digest, faults>>

WriteDigest ==
  /\ pc = "digest"
  /\ digest' = TRUE
  /\ pc' = IF status = "aborted" THEN "raised" ELSE "done"
  /\ UNCHANGED <<clock, link, depth, disk, status, manifest, faults>>

-----------------------------------------------------------------------------
Tick ==
  /\ pc \notin Ended /\ clock < Deadline
  /\ clock' = clock + 1
  /\ UNCHANGED <<pc, link, depth, disk, outcome, faults>>

\* The process dies: its memory is lost, what is on disk stays.
Crash ==
  /\ pc \notin Ended
  /\ pc' = "crashed"
  /\ clock' = 0 /\ opened' = 0 /\ connections' = 0 /\ reconnects' = 0
  /\ sync' = [s \in Symbols |-> NewSynchronizer]
  /\ tasks' = [s \in Symbols |-> NoTask] /\ orphans' = {}
  /\ installing' = NoTask /\ draining' = << >>
  /\ UNCHANGED <<disk, outcome, faults>>

Init ==
  /\ clock = 0 /\ pc = "start"
  /\ connections = 0 /\ opened = 0 /\ reconnects = 0
  /\ sync = [s \in Symbols |-> NewSynchronizer]
  /\ tasks = [s \in Symbols |-> NoTask] /\ orphans = {}
  /\ installing = NoTask /\ draining = << >>
  /\ store = [writer |-> NoWriter, next |-> 0, metadata |-> FALSE, segments |-> {}, files |-> {},
              snapshots |-> {}, snapshotFiles |-> {}]
  /\ total = 0 /\ status = "aborted" /\ manifest = NoManifest /\ digest = FALSE
  /\ appended = 0 /\ faults = 0

Message ==
  \/ \E s \in Symbols, u \in Feed : DepthMessage(s, u)
  \/ \E s \in Symbols : MalformedDepth(s)
  \/ OtherMessage \/ ServerShutdown \/ Undecodable
  \/ AppendFails \/ DaySealFails \/ BrokenWriter

SnapshotStep == \E s \in Symbols : SnapshotArrives(s) \/ SnapshotFails(s)
LoopStep == LoopStops \/ Drain \/ Wait \/ \E s \in Symbols : InstallSnapshot(s) \/ TaskRaises(s)
FinalStep == SealLast \/ WriteManifest \/ WriteDigest
LinkStep == Begin \/ Connect \/ LoopEnds \/ SocketOpens \/ SocketFails \/ Retry \/ Timeout

Next == LinkStep \/ LoopStep \/ FinalStep \/ SnapshotStep \/ OrphanArrives \/ Message \/ Tick \/ Crash

Spec == Init /\ [][Next]_vars

\* Time passes, the collector's own steps are taken, every await on the
\* network returns or times out.
Fairness ==
  /\ WF_vars(Tick)
  /\ WF_vars(LoopStep) /\ WF_vars(FinalStep) /\ WF_vars(LinkStep)
FairSpec == Spec /\ Fairness

-----------------------------------------------------------------------------
(* verify_capture_manifest, on what is on disk.                            *)

Verifies_bug ==
  /\ manifest # NoManifest
  /\ digest
  /\ manifest.segments \subseteq store.files
Verifies ==
  /\ manifest # NoManifest
  /\ digest
  /\ manifest.segments \subseteq store.files
  /\ manifest.snapshots \subseteq store.snapshotFiles
  /\ SumFunction([f \in manifest.segments |-> f.records]) = manifest.total
  /\ manifest.segments # {} => manifest.metadata
  /\ manifest.status = "complete" => manifest.duration >= Planned

-----------------------------------------------------------------------------
(* Properties.                                                             *)

\* Every variable has its type.
TypeOK ==
  /\ clock \in Nat
  /\ pc \in Ended \cup Awaiting \cup {"start", "connect", "loop", "drain", "finish", "manifest",
                                      "digest"}
  /\ connections \in Nat /\ opened \in Nat /\ reconnects \in Nat
  /\ sync \in [Symbols -> Synchronizer]
  /\ tasks \in [Symbols -> {NoTask, PendingTask, NoId} \cup (0 .. LastId)]
  /\ installing \in Symbols \cup {NoTask}
  /\ draining \in Seq(Update)

\* A synchronized book is the exchange's book as of its update identifier,
\* whatever the feed lost, repeated or reordered and whenever the snapshot
\* came: no gap is ever applied over.
BookFaithful ==
  \A s \in Symbols : sync[s].state = "SYNCHRONIZED" => sync[s].book = Truth[sync[s].local]

\* While the collector listens, every symbol either has a synchronized book
\* or a snapshot on its way, and never both: no book is left waiting for a
\* snapshot nobody fetches, and none is replaced by a late one.
SnapshotWhenNeeded ==
  pc \in {"loop", "receive"} =>
    \A s \in Symbols : (sync[s].state = "SYNCHRONIZED") <=> (tasks[s] = NoTask)

\* The intervals that the manifest reports run forward and end where the
\* book was.
IntervalsForward ==
  \A s \in Symbols :
    /\ \A i \in sync[s].intervals : i[1] <= i[2]
    /\ sync[s].state = "SYNCHRONIZED" => sync[s].start \in {NoId} \cup (0 .. sync[s].local)

\* What a synchronizer says of its book is true, and so is what it reports.
BooksSound == BookFaithful /\ IntervalsForward

\* A capture that verification accepts holds every record that was written
\* to it, also after crashes and failing disks.
VerifiedIsExact == Verifies => manifest.total = appended

\* A run that ends by itself on a sound disk verifies, whatever the network
\* did.
FinishedRunVerifies == pc = "done" /\ faults = 0 => Verifies

\* The verifier's answer is right in both directions: what it accepts is
\* complete, and it accepts what a sound disk was given.
VerificationExact == VerifiedIsExact /\ FinishedRunVerifies

\* Every snapshot file on disk is listed in the manifest, also those that
\* tasks of given-up connections wrote.
SnapshotsListed == digest => manifest.snapshots = store.snapshotFiles

\* No snapshot is missing: neither the one a book waits for, while the collector
\* listens, nor one that is on disk, in the finished manifest.
SnapshotsAccounted == SnapshotWhenNeeded /\ SnapshotsListed

\* Every run ends, whatever the feed does.
RunEnds == <>(pc \in Ended)
=============================================================================
