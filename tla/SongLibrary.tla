---------------------------- MODULE SongLibrary ----------------------------
(***************************************************************************)
(* The roots the player keeps songs in, and the scans that fill the song   *)
(* database from them.                                                     *)
(*                                                                         *)
(* RootSongFolders and ScanningQueue live on the main thread; one scan at  *)
(* a time runs on the queue's worker, which writes to the database through *)
(* a pool of its own.  The two share the database and the flag stop.  The  *)
(* player adds and removes roots, asks for scans and cancels them at any   *)
(* moment of a scan; the program can be closed or can crash at any moment, *)
(* and only the database survives.                                         *)
(*                                                                         *)
(* A chart is a member of Charts, and Below[r] are the charts whose path   *)
(* begins with r.  The files do not change; reading a chart, an archive or a *)
(* directory, and saving a chart, may fail, now and not the next time.     *)
(***************************************************************************)
EXTENDS Naturals, Sequences, SequencesExt, FiniteSets

CONSTANTS
    Roots,        \* song folders and archives the player can add
    Charts,       \* charts found in them
    Below,        \* Below[r]: the charts whose path lies below r
    MaxAdds,      \* bound: MaxAdds[r] is how often root r is added
    MaxScans,     \* bound: rescans the player asks for
    MaxCancels,   \* bound: scans the player cancels
    MaxFaults,    \* bound: charts, walks and workers that fail
    MaxExits      \* bound: crashes and shutdowns

ASSUME BoundAssumption ==
    /\ Roots # {} /\ IsFiniteSet(Roots)
    /\ MaxAdds \in [Roots -> Nat]
    /\ {MaxScans, MaxCancels, MaxFaults, MaxExits} \subseteq Nat

\* Paths form a tree: what lies below two roots is nested or disjoint.
ASSUME PathAssumption ==
    /\ Below \in [Roots -> SUBSET Charts]
    /\ \A r, s \in Roots : \/ Below[r] \subseteq Below[s]
                           \/ Below[s] \subseteq Below[r]
                           \/ Below[r] \cap Below[s] = {}

VARIABLES
    db,       \* the song database: root_dir and charts
    folders,  \* RootSongFolders::folders, the status each one shows
    queue,    \* ScanningQueue::scanItems
    stop,     \* ScanningQueue::stop
    worker,   \* the scan on the worker thread
    main,     \* what the main thread is in the middle of
    history,  \* what listeners were told, scans given up, charts missed (for the properties)
    used      \* the bounded events used up

vars == <<db, folders, queue, stop, worker, main, history, used>>

-----------------------------------------------------------------------------
Status == {"None", "NotScanned", "InProgress", "Scanned"}  \* "None": no such root

\* removed: the folder object outlived its root, only the queue holds it.
Item == [root : Roots, removed : BOOLEAN]

Steps == {"Idle", "Begin", "Clear", "Walk", "Decide", "ClearAgain", "Save", "Done"}

NoScan == [at |-> "Idle", root |-> CHOOSE r \in Roots : TRUE,
           unread |-> {}, loading |-> {}, result |-> "NotScanned"]

Quiet == [at |-> "Idle", root |-> NoScan.root]

TypeOK ==
    /\ db \in [root : [Roots -> Status], charts : SUBSET Charts]
    /\ folders \in [Roots -> Status]
    /\ queue \in Seq(Item)
    /\ stop \in BOOLEAN
    /\ worker \in [at : Steps, root : Roots, unread : SUBSET Charts,
                   loading : SUBSET Charts, result : {"NotScanned", "Scanned"}]
    /\ main \in [at : {"Idle", "Removing", "Quitting"}, root : Roots]
    /\ history \in [told : SUBSET Charts, dropped : SUBSET Roots, missed : SUBSET Charts]
    /\ used \in [adds : [Roots -> Nat], scans : 0..MaxScans,
                 cancels : 0..MaxCancels, faults : 0..MaxFaults, exits : 0..MaxExits]

Init ==
    /\ db = [root |-> [r \in Roots |-> "None"], charts |-> {}]
    /\ folders = db.root
    /\ queue = <<>>
    /\ stop = FALSE
    /\ worker = NoScan
    /\ main = Quiet
    /\ history = [told |-> {}, dropped |-> {}, missed |-> {}]
    /\ used = [adds |-> [r \in Roots |-> 0], scans |-> 0, cancels |-> 0,
               faults |-> 0, exits |-> 0]

-----------------------------------------------------------------------------
(* Operations of ScanningQueue and RootSongFolders.                        *)

Listed == {r \in Roots : folders[r] # "None"}

ItemOf(r) == [root |-> r, removed |-> FALSE]

Queued(r) == ItemOf(r) \in Range(queue)

\* The worker's UPDATE finds no row when the root has been removed.
SaveStatus(d, r, status) ==
    IF d.root[r] = "None" THEN d ELSE [d EXCEPT !.root[r] = status]

Clear(d, r) == [d EXCEPT !.charts = @ \ Below[r]]

StatusShown(f, item, status) ==
    IF item.removed THEN f ELSE [f EXCEPT ![item.root] = status]

\* The scan performTask hands to the worker.
ScanOf(item) == [NoScan EXCEPT !.at = "Begin", !.root = item.root]

\* ScanningQueue::scan of a listed folder: nothing if it is in the queue.
ScanFolder(r, f) ==
    IF Queued(r) THEN folders' = f /\ UNCHANGED <<queue, worker>>
    ELSE /\ queue' = Append(queue, ItemOf(r))
         /\ IF queue = <<>>
            THEN /\ worker' = ScanOf(ItemOf(r))
                 /\ folders' = StatusShown(f, ItemOf(r), "InProgress")
            ELSE folders' = f /\ UNCHANGED worker

\* ScanningQueue::remove: the scan under way is asked to stop and keeps its
\* place, any other item goes.
RemoveItem(i) ==
    IF i = 1 THEN stop' = TRUE /\ UNCHANGED queue
    ELSE queue' = RemoveAt(queue, i) /\ UNCHANGED stop

Accepted(r) == [history EXCEPT !.dropped = @ \ {r}]

Dropped(r) == [history EXCEPT !.dropped = @ \cup {r}]

\* RootSongFolders::add: a root below or above another is refused.
Overlaps(r, s) == Below[r] \cap Below[s] # {}

Add(r) ==
    /\ main.at = "Idle"
    /\ used.adds[r] < MaxAdds[r]
    /\ \A s \in Listed : s # r /\ ~Overlaps(r, s)
    /\ db' = [db EXCEPT !.root[r] = "NotScanned"]
    /\ ScanFolder(r, [folders EXCEPT ![r] = "NotScanned"])
    /\ history' = Accepted(r)
    /\ used' = [used EXCEPT !.adds[r] = @ + 1]
    /\ UNCHANGED <<stop, main>>

\* RootSongFoldersConfig::rescan, and the scan buttons of the settings.
Rescan(r) ==
    /\ main.at = "Idle"
    /\ used.scans < MaxScans
    /\ r \in Listed
    /\ ScanFolder(r, folders)
    /\ history' = IF Queued(r) THEN history ELSE Accepted(r)
    /\ used' = [used EXCEPT !.scans = @ + 1]
    /\ UNCHANGED <<db, stop, main>>

\* The settings page takes an item off the queue.
Cancel(i) ==
    /\ main.at = "Idle"
    /\ used.cancels < MaxCancels
    /\ RemoveItem(i)
    /\ history' = IF queue[i].removed THEN history ELSE Dropped(queue[i].root)
    /\ used' = [used EXCEPT !.cancels = @ + 1]
    /\ UNCHANGED <<db, folders, worker, main>>

\* RootSongFolders::remove, up to the call of clear.  The object of the scan
\* under way stays in the queue.
RemoveRoot(r) ==
    /\ main.at = "Idle"
    /\ r \in Listed
    /\ db' = [db EXCEPT !.root[r] = "None"]
    /\ folders' = [folders EXCEPT ![r] = "None"]
    /\ LET here == {i \in DOMAIN queue : queue[i] = ItemOf(r)}
       IN  CASE here = {} -> UNCHANGED <<queue, stop>>
             [] 1 \in here -> queue' = [queue EXCEPT ![1].removed = TRUE] /\ stop' = TRUE
             [] OTHER -> \E i \in here : RemoveItem(i)
    /\ main' = [at |-> "Removing", root |-> r]
    /\ history' = Accepted(r)
    /\ UNCHANGED <<worker, used>>

\* Fault: remove() tells nobody.
ClearRemovedSilently ==
    /\ main.at = "Removing"
    /\ db' = Clear(db, main.root)
    /\ main' = Quiet
    /\ UNCHANGED <<folders, queue, stop, worker, history, used>>

\* The rest of it: the listeners are told at once if nothing is queued.
ClearRemoved ==
    /\ main.at = "Removing"
    /\ db' = Clear(db, main.root)
    /\ main' = Quiet
    /\ history' = IF queue = <<>> THEN [history EXCEPT !.told = db'.charts] ELSE history
    /\ UNCHANGED <<folders, queue, stop, worker, used>>

-----------------------------------------------------------------------------
(* The worker: the lambda of scanImpl and the pool of scanDirectory.       *)

Goes(step) == worker' = [worker EXCEPT !.at = step]

\* Fault: the database keeps the old status during a scan.
MarkNothing ==
    /\ worker.at = "Begin"
    /\ Goes("Clear")
    /\ UNCHANGED db

MarkInProgress ==
    /\ worker.at = "Begin"
    /\ db' = SaveStatus(db, worker.root, "InProgress")
    /\ Goes("Clear")

\* What an earlier scan missed is looked for again.
ClearOld ==
    /\ worker.at = "Clear"
    /\ db' = Clear(db, worker.root)
    /\ worker' = [worker EXCEPT !.at = "Walk", !.unread = Below[worker.root]]
    /\ history' = [history EXCEPT !.missed = @ \ Below[worker.root]]

\* A job of the pool looks at stop once, and writes its chart later.
LoadChart(c) ==
    /\ worker.at = "Walk"
    /\ c \in worker.unread
    /\ ~stop
    /\ worker' = [worker EXCEPT !.unread = @ \ {c}, !.loading = @ \cup {c}]
    /\ UNCHANGED db

SaveChart(c) ==
    /\ worker.at = "Walk"
    /\ c \in worker.loading
    /\ worker' = [worker EXCEPT !.loading = @ \ {c}]
    /\ db' = [db EXCEPT !.charts = @ \cup {c}]

AbandonWalk ==
    /\ worker.at = "Walk"
    /\ worker.unread # {}
    /\ stop
    /\ worker' = [worker EXCEPT !.unread = {}]
    /\ UNCHANGED db

\* scanDirectory waits for the pool before it returns.
EndWalk ==
    /\ worker.at = "Walk"
    /\ worker.unread = {}
    /\ worker.loading = {}
    /\ Goes("Decide")
    /\ UNCHANGED db

\* Fault: a stopped scan leaves what its pool saved.
DecideWithoutClear ==
    /\ worker.at = "Decide"
    /\ worker' = [worker EXCEPT !.at = "Save",
                                !.result = IF stop THEN "NotScanned" ELSE "Scanned"]
    /\ UNCHANGED db

\* Fault: a stopped scan reports the status it began with.
DecideInProgress ==
    /\ worker.at = "Decide"
    /\ worker' = IF stop THEN [worker EXCEPT !.at = "ClearAgain", !.result = "InProgress"]
                         ELSE [worker EXCEPT !.at = "Save", !.result = "Scanned"]
    /\ UNCHANGED db

Decide ==
    /\ worker.at = "Decide"
    /\ worker' = IF stop THEN [worker EXCEPT !.at = "ClearAgain", !.result = "NotScanned"]
                         ELSE [worker EXCEPT !.at = "Save", !.result = "Scanned"]
    /\ UNCHANGED db

ClearStopped ==
    /\ worker.at = "ClearAgain"
    /\ db' = Clear(db, worker.root)
    /\ Goes("Save")

SaveResult ==
    /\ worker.at = "Save"
    /\ db' = SaveStatus(db, worker.root, worker.result)
    /\ Goes("Done")

WorkerStep ==
    /\ \/ ClearOld
       \/ /\ \/ MarkInProgress
             \/ \E c \in Charts : LoadChart(c) \/ SaveChart(c)
             \/ AbandonWalk
             \/ EndWalk
             \/ Decide
             \/ ClearStopped
             \/ SaveResult
          /\ UNCHANGED history
    /\ UNCHANGED <<folders, queue, stop, main, used>>

\* What is lost to an error that is only logged; the scan goes on without it.
Misses(lost) ==
    /\ used.faults < MaxFaults
    /\ history' = [history EXCEPT !.missed = @ \cup lost]
    /\ used' = [used EXCEPT !.faults = @ + 1]
    /\ UNCHANGED <<db, folders, queue, stop, main>>

\* A job catches what reading, parsing or saving its chart throws; save() is
\* one transaction, so nothing of the chart is left.
ChartFails(c) ==
    /\ worker.at = "Walk"
    /\ c \in worker.loading
    /\ worker' = [worker EXCEPT !.loading = @ \ {c}]
    /\ Misses({c})

\* An unreadable archive loses its charts; an unreadable directory ends the
\* walk and loses all that is left of it.
WalkFails ==
    /\ worker.at = "Walk"
    /\ \E lost \in SUBSET worker.unread :
           /\ lost # {}
           /\ worker' = [worker EXCEPT !.unread = @ \ lost]
           /\ Misses(lost)

\* The database throws outside scanDirectory: the future carries the error.
WorkerFails ==
    /\ worker.at \in {"Begin", "Clear", "ClearAgain", "Save"}
    /\ used.faults < MaxFaults
    /\ worker' = [worker EXCEPT !.at = "Done", !.result = "NotScanned"]
    /\ used' = [used EXCEPT !.faults = @ + 1]
    /\ UNCHANGED <<db, folders, queue, stop, main, history>>

-----------------------------------------------------------------------------
(* Back on the main thread: the watcher's finished.                        *)

Settled(item) ==
    IF ~item.removed /\ worker.result # "Scanned" /\ ~stop
    THEN Dropped(item.root) ELSE history

\* Fault: the next scan is not begun.
FinishedWithoutNext ==
    /\ main.at = "Idle"
    /\ worker.at = "Done"
    /\ stop' = FALSE
    /\ queue' = Tail(queue)
    /\ worker' = NoScan
    /\ folders' = StatusShown(folders, Head(queue), worker.result)
    /\ history' = [Settled(Head(queue)) EXCEPT !.told = db.charts]
    /\ UNCHANGED <<db, main, used>>

Finished ==
    /\ main.at = "Idle"
    /\ worker.at = "Done"
    /\ stop' = FALSE
    /\ queue' = Tail(queue)
    /\ LET shown == StatusShown(folders, Head(queue), worker.result)
           settled == Settled(Head(queue))
       IN  IF queue' = <<>>
           THEN /\ worker' = NoScan
                /\ folders' = shown
                /\ history' = [settled EXCEPT !.told = db.charts]
           ELSE /\ worker' = ScanOf(Head(queue'))
                /\ folders' = StatusShown(shown, Head(queue'), "InProgress")
                /\ history' = settled
    /\ UNCHANGED <<db, main, used>>

-----------------------------------------------------------------------------
(* The program ends and starts again.                                      *)

\* ~ScanningQueue empties the queue, stops the worker and waits for it.
Quit ==
    /\ main.at = "Idle"
    /\ used.exits < MaxExits
    /\ main' = [main EXCEPT !.at = "Quitting"]
    /\ stop' = (stop \/ queue # <<>>)
    /\ queue' = IF queue = <<>> THEN queue ELSE <<Head(queue)>>
    /\ used' = [used EXCEPT !.exits = @ + 1]
    /\ UNCHANGED <<db, folders, worker, history>>

\* Fault: a scan cut short is taken to be under way.
StartupStatusAsStored(status) == status

\* getStartupRootFolders and the constructor of RootSongFolders; the rows come
\* in any order, and the listeners read the database as it is.
StartupStatus(status) == IF status = "InProgress" THEN "NotScanned" ELSE status

Start ==
    LET found == [r \in Roots |-> StartupStatus(db.root[r])]
        unscanned == {ItemOf(r) : r \in {s \in Roots : found[s] = "NotScanned"}}
    IN  /\ queue' \in SetToSeqs(unscanned)
        /\ IF queue' = <<>> THEN folders' = found /\ worker' = NoScan
           ELSE /\ folders' = [found EXCEPT ![Head(queue').root] = "InProgress"]
                /\ worker' = ScanOf(Head(queue'))
        /\ stop' = FALSE
        /\ main' = Quiet
        /\ history' = [history EXCEPT !.told = db.charts, !.dropped = {}]
        /\ UNCHANGED db

Restart ==
    /\ main.at = "Quitting"
    /\ worker.at \in {"Idle", "Done"}
    /\ Start
    /\ UNCHANGED used

Crash ==
    /\ used.exits < MaxExits
    /\ used' = [used EXCEPT !.exits = @ + 1]
    /\ Start

-----------------------------------------------------------------------------
Player ==
    \/ \E r \in Roots : Add(r) \/ Rescan(r) \/ RemoveRoot(r)
    \/ \E i \in DOMAIN queue : Cancel(i)
    \/ Quit

Next ==
    \/ Player
    \/ ClearRemoved
    \/ WorkerStep
    \/ \E c \in Charts : ChartFails(c)
    \/ WalkFails
    \/ WorkerFails
    \/ Finished
    \/ Restart
    \/ Crash

Spec == Init /\ [][Next]_vars

\* The main thread and the worker keep running; the player may do nothing.
FairSpec ==
    /\ Spec
    /\ WF_vars(ClearRemoved)
    /\ WF_vars(WorkerStep)
    /\ WF_vars(Finished)
    /\ WF_vars(Restart)

-----------------------------------------------------------------------------
(* Properties.                                                             *)

\* Nothing went wrong yet but what the player did.
Undisturbed == used.exits = 0 /\ used.faults = 0

\* A root that the settings show as scanned, or that the database calls scanned
\* and a start will not scan again, has every chart of it in the database but
\* those its scan could not read or save: no removal, cancelled scan, crash, or
\* scan of a root that was removed meanwhile takes one away.  (The row alone may
\* be wrong when the root was added again while its scan ran.)
ScannedIsComplete ==
    \A r \in Roots :
        \/ Below[r] \subseteq db.charts \cup history.missed
        \/ folders[r] # "Scanned" /\ db.root[r] # "Scanned"
        \/ used.adds[r] > 1 /\ (folders[r] = "Scanned" => used.exits > 0)

\* Once the queue is empty and remove() has returned, the database has no chart
\* of a root that is gone, whatever the scan of it was about to save.  (A crash
\* or an error in the middle of a removal can leave some.)
NothingOutlivesItsRoot ==
    Undisturbed /\ main.at = "Idle" /\ queue = <<>> =>
        db.charts \subseteq UNION {Below[r] : r \in Listed}

\* Once the queue is empty, queueDrained or chartSetMutationCommitted came after
\* the last change of the charts, so inventory and song list are up to date.
ToldOfEveryChange ==
    main.at = "Idle" /\ queue = <<>> => history.told = db.charts

\* A root that is not scanned waits in the queue, or the player took it off, or
\* its scan failed; a shutdown or a crash in the middle of a scan forgets none.
NothingIsForgotten ==
    main.at # "Quitting" =>
        \A r \in Listed : \/ folders[r] = "Scanned"
                          \/ Queued(r)
                          \/ r \in history.dropped

\* The scans come to an end, whatever is cancelled, removed or fails meanwhile:
\* no stopped scan holds up the roots behind it.
QueueDrains == queue # <<>> ~> queue = <<>>
============================================================================
