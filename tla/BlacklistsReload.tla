--------------------------- MODULE BlacklistsReload ---------------------------
(***************************************************************************)
(* The malware blacklists: files that an update thread of Java downloads   *)
(* one after the other (Blacklists.update), and that a worker thread of    *)
(* the native code reads one after the other (load_new_blacklists) when    *)
(* pd_housekeeping finds reload_blacklists_now set.  The flag, the files   *)
(* and the object Blacklists outlive the capture; the update thread is not *)
(* joined when the capture stops, so that it may still run in the next     *)
(* one, and two of them may write the same temporary file.  A blacklist is *)
(* modelled by the versions of the files it was read from.                 *)
(***************************************************************************)
EXTENDS Integers, FiniteSets

CONSTANTS
    NumFiles,       \* mLists.size()
    MaxVersion,     \* bound on the downloads of a file
    MaxCaptures,    \* bound on the captures
    Timeouts,       \* a download may time out in the middle of a file
    NULL

ASSUME BlacklistsAssumption ==
    /\ {NumFiles, MaxVersion, MaxCaptures} \subseteq Nat \ {0}
    /\ Timeouts \in BOOLEAN
    /\ NULL \notin [1..NumFiles -> 0..MaxVersion]

Files == 1..NumFiles
Captures == 1..MaxCaptures

VARIABLES
    disk,               \* the version of every file
    truncated,          \* the files that are not what was downloaded as a whole
    tmp,                \* the files whose temporary file exists
    writing,            \* the captures whose update thread has a temporary file open
    mUpToDate,          \* BlacklistDescriptor.mUpToDate of every file
    mUpdateInProgress, mStopRequest,
    requested,          \* mBlacklistsUpdateRequested of the service
    thread,             \* the update thread of every capture: none, or the next file to download
    capture,            \* the current capture
    phase,              \* of the capture: init, starting, loading, running, stopping, stopped
    aborted,            \* onDestroy has run
    reload_now,         \* reload_blacklists_now
    in_progress, done,  \* reload_in_progress, reload_done
    worker,             \* the reload worker: none, or the next file to read, or ended
    reading,            \* what the worker has read
    new_bl, bl,         \* the loaded blacklist and the one in force
    live,               \* allocated blacklists
    no_memory           \* history: a reload failed in this capture

updates == <<disk, truncated, tmp, writing, mUpToDate, mUpdateInProgress, mStopRequest, requested, thread>>
service == <<capture, phase, aborted>>
native == <<reload_now, in_progress, done, worker, reading, new_bl, bl, live, no_memory>>
blacklistsVars == <<updates, service, native>>

None == 0
Ended == NumFiles + 2

BlacklistsInit ==
    /\ disk = [f \in Files |-> 0] /\ truncated = {} /\ tmp = {} /\ writing = {}
    /\ mUpToDate \in [Files -> BOOLEAN]
    /\ mUpdateInProgress = FALSE /\ mStopRequest = FALSE
    /\ requested = FALSE
    /\ thread = [c \in Captures |-> None]
    /\ capture = 1 /\ phase = "init" /\ aborted = FALSE
    /\ reload_now = FALSE
    /\ in_progress = FALSE /\ done = FALSE
    /\ worker = None /\ reading = [f \in Files |-> 0]
    /\ new_bl = NULL /\ bl = NULL /\ live = 0
    /\ no_memory = FALSE

-----------------------------------------------------------------------------
(* CaptureService.                                                         *)
NeedsUpdate == \E f \in Files : ~mUpToDate[f]

(* onStartCommand: the blacklists are reloaded, or updated first when one  *)
(* is not up to date or a day has passed.                                  *)
onStartCommand ==
    /\ phase = "init"
    /\ phase' = "starting"
    /\ \/ thread' = [thread EXCEPT ![capture] = 1] /\ UNCHANGED reload_now
       \/ ~NeedsUpdate /\ reload_now' = TRUE /\ UNCHANGED thread
    /\ UNCHANGED <<disk, truncated, tmp, writing, mUpToDate, mUpdateInProgress, mStopRequest,
                   requested, capture, aborted,
                   in_progress, done, worker, reading, new_bl, bl, live, no_memory>>

Old(list) == IF list = NULL THEN 0 ELSE 1

\* Mutant: the old blacklist is not destroyed.
UseWithoutDestroy ==
    /\ IF new_bl = NULL THEN UNCHANGED <<bl, new_bl, mUpdateInProgress>>
       ELSE bl' = new_bl /\ new_bl' = NULL /\ mUpdateInProgress' = FALSE
    /\ UNCHANGED live

(* use_new_blacklists: the loaded blacklist is put in force, the one that  *)
(* was is destroyed, and Java is notified; nothing happens when the load   *)
(* has failed.                                                             *)
use_new_blacklists ==
    IF new_bl = NULL THEN UNCHANGED <<bl, new_bl, live, mUpdateInProgress>>
    ELSE /\ bl' = new_bl /\ new_bl' = NULL /\ live' = live - Old(bl)
         /\ mUpdateInProgress' = FALSE

(* The start of pd_run: a requested reload is done by the capture thread   *)
(* itself, before it captures.  The update thread may run before.          *)
pd_run ==
    /\ phase = "starting"
    /\ IF reload_now THEN phase' = "loading" /\ worker' = 1 ELSE phase' = "running" /\ UNCHANGED worker
    /\ reload_now' = FALSE
    /\ UNCHANGED <<updates, capture, aborted, in_progress, done, reading, new_bl, bl, live, no_memory>>

PdRunLoaded ==
    /\ phase = "loading" /\ worker = Ended
    /\ phase' = "running" /\ worker' = None
    /\ use_new_blacklists
    /\ UNCHANGED <<disk, truncated, tmp, writing, mUpToDate, mStopRequest, requested, thread,
                   capture, aborted,
                   reload_now, in_progress, done, reading, no_memory>>

\* The user asks for an update; the item is shown while none is in progress.
requestBlacklistsUpdate ==
    /\ phase = "running" /\ ~mUpdateInProgress
    /\ requested' = TRUE
    /\ UNCHANGED <<disk, truncated, tmp, writing, mUpToDate, mUpdateInProgress, mStopRequest,
                   thread, service, native>>

\* The update thread is started on a request, or when a day has passed.
checkBlacklistsUpdates ==
    /\ phase \in {"starting", "loading", "running", "stopping"}
    /\ thread[capture] = None
    /\ thread' = [thread EXCEPT ![capture] = 1]
    /\ UNCHANGED <<disk, truncated, tmp, writing, mUpToDate, mUpdateInProgress, mStopRequest,
                   requested, service, native>>

-----------------------------------------------------------------------------
(* updateBlacklistsWork and Blacklists.update, on the update thread.       *)
UpdateBegins(c) ==
    /\ thread[c] = 1
    /\ thread' = [thread EXCEPT ![c] = 2]
    /\ requested' = IF c = capture THEN FALSE ELSE requested
    /\ mUpdateInProgress' = TRUE /\ mStopRequest' = FALSE
    /\ mUpToDate' = [f \in Files |-> FALSE]
    /\ UNCHANGED <<disk, truncated, tmp, writing, service, native>>

\* The next file, unless the update is stopped: its temporary file is opened, and
\* emptied if it exists.
DownloadOpens(c) ==
    LET f == thread[c] - 1
    IN  /\ f \in Files /\ c \notin writing
        /\ IF mStopRequest
           THEN thread' = [thread EXCEPT ![c] = Ended] /\ UNCHANGED <<tmp, writing>>
           ELSE tmp' = tmp \cup {f} /\ writing' = writing \cup {c} /\ UNCHANGED thread
        /\ UNCHANGED <<disk, truncated, mUpToDate, mUpdateInProgress, mStopRequest, requested,
                       service, native>>

(* The end of downloadFile, with setUpdated or setOutdated.  When something *)
(* was received, also when the rest timed out, the temporary file replaces  *)
(* the list, as far as another thread has written it too.  If that thread   *)
(* has renamed it already, this one has written to the list itself, and its *)
(* rename fails.  When nothing was received, the temporary file is deleted. *)
downloadFile(f, shared) ==
    \/ /\ f \in tmp /\ disk[f] < MaxVersion
       /\ disk' = [disk EXCEPT ![f] = @ + 1]
       /\ truncated' \in {truncated \ {f}} \cup (IF Timeouts \/ shared THEN {truncated \cup {f}} ELSE {})
       /\ mUpToDate' = [mUpToDate EXCEPT ![f] = TRUE]
    \/ /\ f \notin tmp
       /\ truncated' \in {truncated \ {f}, truncated \cup {f}}
       /\ mUpToDate' = [mUpToDate EXCEPT ![f] = FALSE]
       /\ UNCHANGED disk
    \/ mUpToDate' = [mUpToDate EXCEPT ![f] = FALSE] /\ UNCHANGED <<disk, truncated>>

DownloadCloses(c) ==
    LET f == thread[c] - 1
        shared == \E d \in writing \ {c} : thread[d] = thread[c]
    IN  /\ f \in Files /\ c \in writing
        /\ writing' = writing \ {c} /\ tmp' = tmp \ {f}
        /\ thread' = [thread EXCEPT ![c] = @ + 1]
        /\ downloadFile(f, shared)
        /\ UNCHANGED <<mUpdateInProgress, mStopRequest, requested, service, native>>

UpdateReloads(c) ==
    /\ thread[c] = Ended
    /\ thread' = [thread EXCEPT ![c] = None]
    /\ reload_now' = TRUE
    /\ UNCHANGED <<disk, truncated, tmp, writing, mUpToDate, mUpdateInProgress, mStopRequest,
                   requested, service,
                   in_progress, done, worker, reading, new_bl, bl, live, no_memory>>

UpdateThread(c) == UpdateBegins(c) \/ DownloadOpens(c) \/ DownloadCloses(c) \/ UpdateReloads(c)

-----------------------------------------------------------------------------
(* load_new_blacklists, on the worker thread, or on the capture thread     *)
(* when pd_run starts.                                                     *)
WorkerReads ==
    /\ worker \in Files
    /\ reading' = [reading EXCEPT ![worker] = disk[worker]]
    /\ worker' = worker + 1
    /\ UNCHANGED <<updates, service, reload_now, in_progress, done, new_bl, bl, live, no_memory>>

WorkerEnds ==
    /\ worker = NumFiles + 1
    /\ worker' = Ended
    /\ done' = TRUE
    /\ new_bl' = reading /\ live' = live + 1
    /\ UNCHANGED <<updates, service, reload_now, in_progress, reading, bl, no_memory>>

\* The list cannot be allocated.
WorkerFails ==
    /\ worker = 1
    /\ worker' = Ended
    /\ done' = TRUE
    /\ no_memory' = TRUE
    /\ UNCHANGED <<updates, service, reload_now, in_progress, reading, new_bl, bl, live>>

-----------------------------------------------------------------------------
(* The malware branch of pd_housekeeping: start a reload, or end it.       *)
ReloadStarts ==
    /\ phase = "running" /\ ~in_progress /\ reload_now
    /\ reload_now' = FALSE /\ done' = FALSE /\ new_bl' = NULL
    /\ worker' = 1 /\ in_progress' = TRUE
    /\ UNCHANGED <<updates, service, reading, bl, live, no_memory>>

\* Mutant: the flag is cleared when the reload ends.
EndsWithRequest ==
    /\ phase = "running" /\ in_progress /\ done
    /\ worker = Ended /\ worker' = None
    /\ in_progress' = FALSE /\ reload_now' = FALSE
    /\ use_new_blacklists
    /\ UNCHANGED <<disk, truncated, tmp, writing, mUpToDate, mStopRequest, requested, thread,
                   service, done, reading, no_memory>>

\* The worker is joined and its blacklist put in force.
ReloadEnds ==
    /\ phase = "running" /\ in_progress /\ done
    /\ worker = Ended /\ worker' = None
    /\ in_progress' = FALSE
    /\ use_new_blacklists
    /\ UNCHANGED <<disk, truncated, tmp, writing, mUpToDate, mStopRequest, requested, thread,
                   service,
                   reload_now, done, reading, no_memory>>

-----------------------------------------------------------------------------
stopPacketLoop ==
    /\ phase = "running"
    /\ phase' = "stopping"
    /\ UNCHANGED <<updates, capture, aborted, native>>

(* The end of pd_run: the worker is joined and the blacklist in force is   *)
(* destroyed; one that the worker has loaded is not.                       *)
PdRunEnds ==
    /\ phase = "stopping"
    /\ in_progress => worker = Ended
    /\ phase' = "stopped"
    /\ live' = live - Old(bl)
    /\ UNCHANGED <<updates, capture, aborted, reload_now, in_progress, done, worker, reading, new_bl, bl, no_memory>>

onDestroy ==
    /\ phase \in {"stopping", "stopped"} /\ ~aborted
    /\ aborted' = TRUE
    /\ mStopRequest' = TRUE
    /\ UNCHANGED <<disk, truncated, tmp, writing, mUpToDate, mUpdateInProgress, requested,
                   thread, capture, phase, native>>

\* A new service, with a pcapdroid_t of its own.
Restart ==
    /\ phase = "stopped" /\ aborted
    /\ capture < MaxCaptures
    /\ capture' = capture + 1 /\ phase' = "init" /\ aborted' = FALSE
    /\ requested' = FALSE
    /\ in_progress' = FALSE /\ done' = FALSE /\ worker' = None
    /\ new_bl' = NULL /\ bl' = NULL /\ live' = 0 /\ no_memory' = FALSE
    /\ UNCHANGED <<disk, truncated, tmp, writing, mUpToDate, mUpdateInProgress, mStopRequest,
                   thread, reload_now, reading>>

BlacklistsNext ==
    \/ onStartCommand
    \/ pd_run
    \/ PdRunLoaded
    \/ requestBlacklistsUpdate
    \/ checkBlacklistsUpdates
    \/ \E c \in Captures : UpdateThread(c)
    \/ WorkerReads
    \/ WorkerEnds
    \/ WorkerFails
    \/ ReloadStarts
    \/ ReloadEnds
    \/ stopPacketLoop
    \/ PdRunEnds
    \/ onDestroy
    \/ Restart

(* The threads run.  pd_housekeeping is called again and again while the   *)
(* capture runs, and the branches before the malware one depend on the     *)
(* time: they do not keep it from being taken.                             *)
Fairness ==
    /\ WF_blacklistsVars(pd_run \/ PdRunLoaded)
    /\ \A c \in Captures : WF_blacklistsVars(UpdateThread(c))
    /\ WF_blacklistsVars(WorkerReads \/ WorkerEnds \/ WorkerFails)
    /\ WF_blacklistsVars(ReloadStarts)
    /\ WF_blacklistsVars(ReloadEnds)

BlacklistsSpec == BlacklistsInit /\ [][BlacklistsNext]_blacklistsVars /\ Fairness

-----------------------------------------------------------------------------
Versions == [Files -> 0..MaxVersion]

BlacklistsTypeOK ==
    /\ disk \in Versions /\ mUpToDate \in [Files -> BOOLEAN]
    /\ truncated \subseteq Files /\ tmp \subseteq Files /\ writing \subseteq Captures
    /\ mUpdateInProgress \in BOOLEAN /\ mStopRequest \in BOOLEAN /\ requested \in BOOLEAN
    /\ thread \in [Captures -> 0..Ended]
    /\ capture \in Captures /\ phase \in {"init", "starting", "loading", "running", "stopping", "stopped"}
    /\ aborted \in BOOLEAN
    /\ reload_now \in BOOLEAN /\ in_progress \in BOOLEAN /\ done \in BOOLEAN /\ no_memory \in BOOLEAN
    /\ worker \in 0..Ended /\ reading \in Versions
    /\ new_bl \in Versions \cup {NULL} /\ bl \in Versions \cup {NULL}
    /\ live \in 0..2

(* "Only write the target path if it was successful" (downloadFile): a     *)
(* file that is shown as updated was downloaded as a whole.                *)
UpdatedIsWhole == \A f \in Files : mUpToDate[f] => f \notin truncated

(* The allocated blacklists are the one in force and the one just loaded:  *)
(* none is lost or destroyed twice while the capture runs, and none is     *)
(* left when it has ended, unless a reload was in progress.                *)
BlacklistsAccounted ==
    /\ BlacklistsTypeOK
    /\ live = IF phase = "stopped" THEN Old(new_bl) ELSE Old(bl) + Old(new_bl)

(* A reload that was requested ends with the requested versions, or later  *)
(* ones, in force, also when another reload was in progress; unless the    *)
(* memory is short or the capture ends.                                    *)
ReloadCatchesUp ==
    \A f \in Files : \A v \in 1..MaxVersion :
        (phase = "running" /\ reload_now /\ disk[f] = v)
            ~> (phase # "running" \/ no_memory \/ (bl # NULL /\ bl[f] >= v))

(* The update that Java shows as in progress ends, unless the memory is    *)
(* short or the capture ends.                                              *)
UpdateEnds ==
    (phase = "running" /\ mUpdateInProgress) ~> (phase # "running" \/ no_memory \/ ~mUpdateInProgress)

(* Updates and reloads of the blacklists end, each with its effect.        *)
ReloadsEnd == ReloadCatchesUp /\ UpdateEnds

=============================================================================
