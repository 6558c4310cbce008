--------------------------- MODULE CaptureThreads ---------------------------
(***************************************************************************)
(* The threads of one capture of CaptureService and how they end: the      *)
(* capture thread, which runs the native packet loop, the thread that      *)
(* feeds the connections register from mPendingUpdates, the one that       *)
(* writes the PCAP dump from mDumpQueue, and the main thread, on which the *)
(* user stops the service and the posted runnables are executed.  The      *)
(* worker threads end on a termination request put in their queue.         *)
(***************************************************************************)
EXTENDS Naturals, Sequences

CONSTANTS
    UpdatesCap,     \* capacity of mPendingUpdates
    DumpCap,        \* capacity of mDumpQueue
    MaxBatches,     \* bound on the calls to updateConnections
    MaxChunks,      \* bound on the exported PCAP chunks
    MaxWakes,       \* bound on requestBlacklistsUpdate
    DumpEnabled,    \* whether there is a dumper
    DumperMayFail,  \* whether dumpData may throw an IOException
    EarlyStop       \* whether the service may be stopped before pd_run starts

ASSUME ThreadsAssumption ==
    /\ {UpdatesCap, DumpCap} \subseteq Nat \ {0}
    /\ {MaxBatches, MaxChunks, MaxWakes} \subseteq Nat
    /\ {DumpEnabled, DumperMayFail, EarlyStop} \subseteq BOOLEAN

VARIABLES
    running,        \* the native flag "running"
    cap,            \* where the capture thread is
    exporting,      \* why it exports a chunk: "periodic", "limit" or "exit"
    interrupted,    \* its interrupt flag
    dumper,         \* whether pd->pcap_dump.dumper is not NULL
    mQueueFull,
    mPendingUpdates,
    mDumpQueue,
    connThread,     \* whether mConnUpdateThread is alive
    dumpThread,     \* whether mDumperThread is alive
    registered,     \* the batches applied to the connections register
    file,           \* the chunks written to the dump
    failed,         \* whether the dumper thread ended on an IOException
    batches,        \* how many batches the capture has sent
    chunks,         \* how many chunks it has exported
    wakes,
    stopPosted,     \* whether a stopPacketLoop is posted to the main thread
    lost,           \* history: whether a request to stop or to terminate was lost
    destroy         \* "no", "pending" after stopSelf, "done" after onDestroy

captureVars == <<cap, exporting, dumper, batches, chunks>>
queueVars == <<mQueueFull, mPendingUpdates, mDumpQueue>>
workerVars == <<connThread, dumpThread, registered, file, failed>>
mainVars == <<wakes, stopPosted, destroy, lost>>
threadsVars == <<running, interrupted, captureVars, queueVars, workerVars, mainVars>>

\* What a queue holds: a numbered batch or chunk, a wake-up, a termination request.
Item(n) == [kind |-> "data", n |-> n]
Wake == [kind |-> "wake", n |-> 0]
Pill == [kind |-> "end", n |-> 0]
Items(max) == {Item(n) : n \in 1..max} \cup {Wake, Pill}

ThreadsTypeOK ==
    /\ {running, interrupted, dumper, mQueueFull, connThread, dumpThread, failed, stopPosted,
      lost}
          \subseteq BOOLEAN
    /\ cap \in {"starting", "loop", "export", "signal", "joinConn", "joinDumper", "end", "done"}
    /\ exporting \in {"periodic", "limit", "exit"}
    /\ mPendingUpdates \in Seq(Items(MaxBatches)) /\ Len(mPendingUpdates) <= UpdatesCap
    /\ mDumpQueue \in Seq(Items(MaxChunks)) /\ Len(mDumpQueue) <= DumpCap
    /\ registered \in Seq(1..MaxBatches) /\ file \in Seq(1..MaxChunks)
    /\ batches \in 0..MaxBatches /\ chunks \in 0..MaxChunks /\ wakes \in 0..MaxWakes
    /\ destroy \in {"no", "pending", "done"}

\* onStartCommand has started the threads.
ThreadsInit ==
    /\ running = FALSE /\ cap = "starting" /\ exporting = "periodic"
    /\ interrupted = FALSE /\ dumper = FALSE /\ mQueueFull = FALSE
    /\ mPendingUpdates = <<>> /\ mDumpQueue = <<>>
    /\ connThread = TRUE /\ dumpThread = DumpEnabled
    /\ registered = <<>> /\ file = <<>> /\ failed = FALSE
    /\ batches = 0 /\ chunks = 0 /\ wakes = 0
    /\ stopPosted = FALSE /\ destroy = "no" /\ lost = FALSE

-----------------------------------------------------------------------------
\* LinkedBlockingDeque.offer: a full queue drops the item.
offer(q, item, capacity) == IF Len(q) < capacity THEN Append(q, item) ELSE q

\* Mutant: the mQueueFull check is left out.
UpdateWhenFull ==
    /\ batches < MaxBatches
    /\ batches' = batches + 1
    /\ mPendingUpdates' = offer(mPendingUpdates, Item(batches + 1), UpdatesCap)
    /\ mQueueFull' = (mQueueFull \/ Len(mPendingUpdates) >= UpdatesCap)
    /\ stopPosted' = (stopPosted \/ Len(mPendingUpdates) >= UpdatesCap)

(* updateConnections, called by the native dump: once the queue was full   *)
(* no further batch is accepted, and the capture is stopped.               *)
updateConnections ==
    /\ batches < MaxBatches
    /\ batches' = batches + 1
    /\ IF mQueueFull
       THEN UNCHANGED <<mPendingUpdates, mQueueFull, stopPosted>>
       ELSE /\ mPendingUpdates' = offer(mPendingUpdates, Item(batches + 1), UpdatesCap)
            /\ mQueueFull' = (Len(mPendingUpdates) >= UpdatesCap)
            /\ stopPosted' = (stopPosted \/ Len(mPendingUpdates) >= UpdatesCap)

\* stopPcapDump: a termination request for the dumper thread, if it is alive.
stopPcapDump(q) == IF dumpThread THEN offer(q, Pill, DumpCap) ELSE q

\* pd_run: "Important: init global state every time".
pd_run ==
    /\ cap = "starting"
    /\ running' = TRUE
    /\ dumper' = DumpEnabled
    /\ cap' = "loop"
    /\ UNCHANGED <<interrupted, exporting, batches, chunks, queueVars, workerVars, mainVars>>

\* No packet loop: the VPN descriptor is not valid, or nDPI cannot be initialised.
RunFails ==
    /\ cap = "starting"
    /\ cap' = "signal"
    /\ UNCHANGED <<running, interrupted, exporting, dumper, batches, chunks, queueVars,
                   workerVars, mainVars>>

\* The packet loop sends the connections to Java.
SendConnectionsDump ==
    /\ cap = "loop" /\ running
    /\ updateConnections
    /\ UNCHANGED <<running, interrupted, cap, exporting, dumper, chunks, mDumpQueue,
                   workerVars, wakes, destroy, lost>>

(* The packet loop exports the PCAP buffer: periodically, or because the   *)
(* maximum dump size is reached, which also ends the dump.                 *)
SendPcapDump(why) ==
    /\ cap = "loop" /\ running
    /\ dumper
    /\ chunks < MaxChunks
    /\ cap' = "export" /\ exporting' = why
    /\ chunks' = chunks + 1
    /\ UNCHANGED <<running, interrupted, dumper, batches, queueVars, workerVars, mainVars>>

(* The dump size is reached with an empty buffer: pcap_destroy_dumper has  *)
(* nothing to export.                                                      *)
StopPcapDump ==
    /\ cap = "loop" /\ running
    /\ dumper
    /\ dumper' = FALSE
    /\ mDumpQueue' = stopPcapDump(mDumpQueue)
    /\ UNCHANGED <<running, interrupted, cap, exporting, batches, chunks, mQueueFull,
                   mPendingUpdates, workerVars, mainVars>>

(* The loop ends because running is FALSE, or by itself (an error, the end *)
(* of the PCAP file).  pd_run then sends the last connections dump and     *)
(* destroys the dumper, which exports what is left in the buffer.          *)
LeaveLoop ==
    /\ cap = "loop"
    /\ \/ updateConnections
       \/ /\ batches = MaxBatches
          /\ UNCHANGED <<batches, mPendingUpdates, mQueueFull, stopPosted>>
    /\ \/ /\ dumper
          /\ chunks < MaxChunks
          /\ cap' = "export" /\ exporting' = "exit" /\ chunks' = chunks + 1
          /\ UNCHANGED <<dumper, mDumpQueue>>
       \/ /\ cap' = "signal" /\ dumper' = FALSE
          /\ mDumpQueue' = IF dumper THEN stopPcapDump(mDumpQueue) ELSE mDumpQueue
          /\ UNCHANGED <<exporting, chunks>>
    /\ UNCHANGED <<running, interrupted, workerVars, wakes, destroy, lost>>

(* dumpPcapData: put waits for space in the queue.  After the last chunk   *)
(* of a dump stop_pcap_dump requests the end of the dumper thread.         *)
dumpPcapData ==
    /\ cap = "export"
    /\ Len(mDumpQueue) < DumpCap
    /\ LET stop == exporting # "periodic"
           q == Append(mDumpQueue, Item(chunks))
       IN  /\ mDumpQueue' = IF stop THEN stopPcapDump(q) ELSE q
           /\ dumper' = (dumper /\ ~stop)
           /\ cap' = IF exporting = "exit" THEN "signal" ELSE "loop"
    /\ UNCHANGED <<running, interrupted, exporting, batches, chunks, mQueueFull,
                   mPendingUpdates, workerVars, mainVars>>

\* A put that is interrupted while it waits for space is retried.
PutInterrupted ==
    /\ cap = "export"
    /\ Len(mDumpQueue) >= DumpCap
    /\ interrupted
    /\ interrupted' = FALSE
    /\ UNCHANGED <<running, captureVars, queueVars, workerVars, mainVars>>

\* A termination request offered now would be dropped.
Dropped ==
    \/ Len(mPendingUpdates) >= UpdatesCap
    \/ dumpThread /\ Len(mDumpQueue) >= DumpCap

\* Mutant: the update thread is not told to end.
SignalDumperOnly ==
    /\ cap = "signal"
    /\ mDumpQueue' = stopPcapDump(mDumpQueue)
    /\ cap' = "joinConn"
    /\ lost' = (lost \/ Dropped)
    /\ UNCHANGED <<running, interrupted, exporting, dumper, batches, chunks, mQueueFull,
                   mPendingUpdates, workerVars, wakes, stopPosted, destroy>>

\* Mutant: the termination request overtakes the pending updates.
SignalFirst ==
    /\ cap = "signal"
    /\ mPendingUpdates' = IF Len(mPendingUpdates) < UpdatesCap
                          THEN <<Pill>> \o mPendingUpdates ELSE mPendingUpdates
    /\ mDumpQueue' = stopPcapDump(mDumpQueue)
    /\ cap' = "joinConn"
    /\ lost' = (lost \/ Dropped)
    /\ UNCHANGED <<running, interrupted, exporting, dumper, batches, chunks, mQueueFull,
                   workerVars, wakes, stopPosted, destroy>>

signalServicesTermination ==
    /\ cap = "signal"
    /\ mPendingUpdates' = offer(mPendingUpdates, Pill, UpdatesCap)
    /\ mDumpQueue' = stopPcapDump(mDumpQueue)
    /\ cap' = "joinConn"
    /\ lost' = (lost \/ Dropped)
    /\ UNCHANGED <<running, interrupted, exporting, dumper, batches, chunks, mQueueFull,
                   workerVars, wakes, stopPosted, destroy>>

(* stopAndJoinThreads, first loop: an interrupt requests the termination   *)
(* again.                                                                  *)
JoinConnUpdateThread ==
    /\ cap = "joinConn"
    /\ \/ /\ ~connThread
          /\ cap' = "joinDumper"
          /\ UNCHANGED <<interrupted, mPendingUpdates>>
       \/ /\ connThread
          /\ interrupted
          /\ interrupted' = FALSE
          /\ mPendingUpdates' = offer(mPendingUpdates, Pill, UpdatesCap)
          /\ UNCHANGED cap
    /\ UNCHANGED <<running, exporting, dumper, batches, chunks, mQueueFull, mDumpQueue,
                   workerVars, mainVars>>

\* stopAndJoinThreads, second loop.
JoinDumperThread ==
    /\ cap = "joinDumper"
    /\ \/ /\ ~dumpThread
          /\ cap' = "end"
          /\ UNCHANGED <<interrupted, mDumpQueue>>
       \/ /\ dumpThread
          /\ interrupted
          /\ interrupted' = FALSE
          /\ mDumpQueue' = stopPcapDump(mDumpQueue)
          /\ UNCHANGED cap
    /\ UNCHANGED <<running, exporting, dumper, batches, chunks, mQueueFull, mPendingUpdates,
                   workerVars, mainVars>>

(* The end of run: stopService, then mCaptureThread = null and the STOPPED *)
(* status is posted.                                                       *)
CaptureEnds ==
    /\ cap = "end"
    /\ cap' = "done"
    /\ running' = FALSE
    /\ destroy' = IF destroy = "no" THEN "pending" ELSE destroy
    /\ UNCHANGED <<interrupted, exporting, dumper, batches, chunks, queueVars, workerVars,
                   wakes, stopPosted, lost>>

-----------------------------------------------------------------------------
\* connUpdateWork: take one item.
connUpdateWork ==
    /\ connThread
    /\ mPendingUpdates # <<>>
    /\ LET item == Head(mPendingUpdates)
       IN  /\ connThread' = (item # Pill)
           /\ registered' = IF item.kind = "data" THEN Append(registered, item.n) ELSE registered
    /\ mPendingUpdates' = Tail(mPendingUpdates)
    /\ UNCHANGED <<running, interrupted, captureVars, mQueueFull, mDumpQueue, dumpThread, file,
                   failed, mainVars>>

(* dumpWork: take one item.  An IOException posts a stop of the capture    *)
(* and ends the thread.                                                    *)
dumpWork(ok) ==
    /\ dumpThread
    /\ mDumpQueue # <<>>
    /\ LET item == Head(mDumpQueue)
       IN  /\ ok \/ (DumperMayFail /\ item # Pill)
           /\ dumpThread' = (ok /\ item # Pill)
           /\ file' = IF ok /\ item # Pill THEN Append(file, item.n) ELSE file
    /\ failed' = ~ok
    /\ stopPosted' = (stopPosted \/ ~ok)
    /\ mDumpQueue' = Tail(mDumpQueue)
    /\ UNCHANGED <<running, interrupted, captureVars, mQueueFull, mPendingUpdates, connThread,
                   registered, wakes, destroy, lost>>

-----------------------------------------------------------------------------
\* The user, or onRevoke, stops the service: stopPacketLoop and stopSelf.
stopService ==
    /\ destroy = "no"
    /\ cap # "starting" \/ EarlyStop
    /\ running' = FALSE
    /\ destroy' = "pending"
    /\ lost' = (lost \/ cap = "starting")
    /\ UNCHANGED <<interrupted, captureVars, queueVars, workerVars, wakes, stopPosted>>

\* The system destroys the service: the capture thread is interrupted.
onDestroy ==
    /\ destroy = "pending"
    /\ destroy' = "done"
    /\ interrupted' = (cap # "done")
    /\ UNCHANGED <<running, captureVars, queueVars, workerVars, wakes, stopPosted, lost>>

\* The main thread runs a posted stopPacketLoop.
stopPacketLoop ==
    /\ stopPosted
    /\ stopPosted' = FALSE
    /\ running' = FALSE
    /\ lost' = (lost \/ cap = "starting")
    /\ UNCHANGED <<interrupted, captureVars, queueVars, workerVars, wakes, destroy>>

\* The main thread wakes the update thread.
requestBlacklistsUpdate ==
    /\ wakes < MaxWakes
    /\ wakes' = wakes + 1
    /\ mPendingUpdates' = offer(mPendingUpdates, Wake, UpdatesCap)
    /\ UNCHANGED <<running, interrupted, captureVars, mQueueFull, mDumpQueue, workerVars,
                   stopPosted, destroy, lost>>

-----------------------------------------------------------------------------
\* The steps of the capture thread that do not depend on its traffic.
CaptureProgress ==
    \/ pd_run
    \/ ~running /\ LeaveLoop
    \/ dumpPcapData \/ PutInterrupted
    \/ signalServicesTermination \/ JoinConnUpdateThread \/ JoinDumperThread \/ CaptureEnds

CaptureTraffic ==
    \/ SendConnectionsDump
    \/ \E why \in {"periodic", "limit"} : SendPcapDump(why)
    \/ StopPcapDump
    \/ RunFails
    \/ running /\ LeaveLoop

ThreadsNext ==
    \/ CaptureProgress \/ CaptureTraffic
    \/ connUpdateWork
    \/ \E ok \in BOOLEAN : dumpWork(ok)
    \/ stopService \/ onDestroy \/ stopPacketLoop \/ requestBlacklistsUpdate

(* Every thread runs, and the loop, which wakes up periodically, sees that *)
(* running is FALSE; nothing obliges the user to stop the service.         *)
ThreadsSpec ==
    /\ ThreadsInit /\ [][ThreadsNext]_threadsVars
    /\ WF_threadsVars(CaptureProgress)
    /\ WF_threadsVars(connUpdateWork)
    /\ WF_threadsVars(\E ok \in BOOLEAN : dumpWork(ok))
    /\ WF_threadsVars(onDestroy) /\ WF_threadsVars(stopPacketLoop)

-----------------------------------------------------------------------------
(* The register receives the batches in order and without a gap, even when *)
(* the queue overflows: a missing batch would shift every later incr_id.   *)
(* The queues stay within their capacity (ThreadsTypeOK).                         *)
RegisteredIsPrefix ==
    /\ ThreadsTypeOK
    /\ registered = [k \in 1..Len(registered) |-> k]

(* The dump holds the exported chunks in order; once its thread has ended  *)
(* without an error, all of them.                                          *)
DumpComplete ==
    /\ file = [k \in 1..Len(file) |-> k]
    /\ DumpEnabled /\ ~dumpThread /\ ~failed => Len(file) = chunks

(* STOPPED is only announced when the worker threads are gone, the packet  *)
(* loop cannot be running and, without overflow, everything that was sent  *)
(* is registered: no update is behind the termination request.  The dump   *)
(* is complete then, see above.                                            *)
StoppedIsComplete ==
    /\ DumpComplete
    /\ cap = "done" =>
          /\ ~connThread /\ ~dumpThread /\ ~running
          /\ mQueueFull \/ Len(registered) = batches

(* "The SERVICE_STATUS_STOPPED notification is sent asynchronously when    *)
(* mCaptureThread terminates": a stop request is eventually followed by    *)
(* the end of the capture.  The only ways in which it is not: a request    *)
(* was lost (a stop before pd_run sets running, a termination request      *)
(* dropped by a full queue), or the dumper thread died while the capture   *)
(* thread waits for space in its queue.                                    *)
StopCompletesUnlessLost ==
    (destroy # "no" \/ stopPosted) ~> (cap = "done" \/ lost \/ (failed /\ cap = "export"))
=============================================================================
