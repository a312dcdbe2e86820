--------------------------- MODULE SongLibraryProofs ---------------------------
(***************************************************************************)
(* Proofs about SongLibrary: what is called scanned is complete, charts do *)
(* not outlive their root, listeners are told last and no scan is          *)
(* forgotten, for any tree of roots and any number of scans, removals,     *)
(* faults, shutdowns and crashes.                                          *)
(***************************************************************************)
EXTENDS SongLibrary, SequenceTheorems, FiniteSetTheorems, TLAPS

-----------------------------------------------------------------------------
(* The inductive invariant.                                                *)

\* The scan at the head of the queue is of a root that is listed, or of one that was
\* removed meanwhile.
HeadLive == queue # <<>> /\ ~queue[1].removed
HeadGone == queue # <<>> /\ queue[1].removed

\* The worker scans the head of the queue; only the head can have been removed.
QueueFits ==
    /\ queue = <<>> <=> worker.at = "Idle"
    /\ stop => queue # <<>>
    /\ queue # <<>> => worker.root = queue[1].root
    /\ \A i \in 2..Len(queue) : ~queue[i].removed
    /\ \A i, j \in 1..Len(queue) : queue[i] = queue[j] => i = j
    /\ \A i \in 1..Len(queue) : ~queue[i].removed => folders[queue[i].root] # "None"

\* The settings and the database have the same roots, and they do not overlap.
RootsFit ==
    /\ \A r \in Roots : db.root[r] = "None" <=> folders[r] = "None"
    /\ \A r, s \in Listed : r # s => ~Overlaps(r, s)
    /\ \A r \in Listed : used.adds[r] >= 1
    /\ main.at = "Removing" =>
          main.root \notin Listed /\ \A r \in Listed : ~Overlaps(r, main.root)
    /\ main.at = "Quitting" => used.exits > 0

\* A scan of a listed root has it marked, and what is not in the database and was not
\* missed is still to come.
Known == db.charts \cup history.missed

Missing == Below[worker.root] \ Known

ScanFits ==
    /\ worker.unread \cup worker.loading \subseteq Below[worker.root]
    /\ worker.at = "ClearAgain" => worker.result = "NotScanned"
    /\ HeadLive =>
          /\ folders[worker.root] = "InProgress"
          /\ worker.at \in {"Clear", "Walk", "Decide", "ClearAgain", "Save"} =>
                db.root[worker.root] # "Scanned"
          /\ worker.at = "Walk" =>
                stop \/ Missing \subseteq worker.unread \cup worker.loading
          /\ worker.at = "Decide" => stop \/ Missing = {}
          /\ worker.at \in {"Save", "Done"} /\ worker.result = "Scanned" => Missing = {}

\* A scan of a removed root is to stop; what was added in its place meanwhile waits.
GoneFits ==
    HeadGone =>
        /\ stop
        /\ used.adds[worker.root] >= 1
        /\ worker.root \in Listed => used.adds[worker.root] >= 2
        /\ \A r \in Listed : r = worker.root \/ Overlaps(r, worker.root) =>
              /\ folders[r] = "NotScanned"
              /\ r # worker.root => db.root[r] # "Scanned"

\* A scan that is to stop was given up by the player.
StopIsWanted == stop /\ HeadLive /\ main.at # "Quitting" => worker.root \in history.dropped

\* The charts of a removed root are there while remove() has not cleared them, or
\* its scan has not.
Remaining(c) ==
    \/ \E r \in Listed : c \in Below[r]
    \/ main.at = "Removing" /\ c \in Below[main.root]
    \/ /\ HeadGone /\ c \in Below[worker.root]
       /\ worker.at \in {"Begin", "Clear", "Walk", "Decide", "ClearAgain"}

ChartsFit == Undisturbed => \A c \in db.charts : Remaining(c)

Complete(r) ==
    \/ Below[r] \subseteq Known
    \/ folders[r] # "Scanned" /\ db.root[r] # "Scanned"
    \/ used.adds[r] > 1 /\ (folders[r] = "Scanned" => used.exits > 0)

Structure == TypeOK /\ QueueFits /\ RootsFit

IInv ==
    /\ Structure
    /\ ScanFits
    /\ GoneFits
    /\ StopIsWanted
    /\ ChartsFit
    /\ ScannedIsComplete
    /\ ToldOfEveryChange
    /\ NothingIsForgotten

-----------------------------------------------------------------------------
(* Types and what the helpers do.                                          *)

Database == [root : [Roots -> Status], charts : SUBSET Charts]

Scan == [at : Steps, root : Roots, unread : SUBSET Charts, loading : SUBSET Charts,
         result : {"NotScanned", "Scanned"}]

Past == [told : SUBSET Charts, dropped : SUBSET Roots, missed : SUBSET Charts]

Counters == [adds : [Roots -> Nat], scans : 0..MaxScans, cancels : 0..MaxCancels,
             faults : 0..MaxFaults, exits : 0..MaxExits]

LEMMA TypeIs ==
    TypeOK <=> /\ db \in Database /\ folders \in [Roots -> Status]
               /\ queue \in Seq(Item) /\ stop \in BOOLEAN /\ worker \in Scan
               /\ main \in [at : {"Idle", "Removing", "Quitting"}, root : Roots]
               /\ history \in Past /\ used \in Counters
BY DEF TypeOK, Database, Scan, Past, Counters

LEMMA BelowTyped == \A r \in Roots : Below[r] \in SUBSET Charts
BY PathAssumption

LEMMA ItemFacts ==
    /\ \A r \in Roots : ItemOf(r) \in Item /\ ItemOf(r).root = r /\ ~ItemOf(r).removed
    /\ \A x \in Item : x.root \in Roots /\ (~x.removed => x = ItemOf(x.root))
BY DEF ItemOf, Item

LEMMA NoScanFacts ==
    /\ NoScan \in Scan /\ NoScan.at = "Idle" /\ NoScan.result = "NotScanned"
    /\ NoScan.unread = {} /\ NoScan.loading = {}
    /\ Quiet.at = "Idle" /\ Quiet.root \in Roots
<1>1. (CHOOSE r \in Roots : TRUE) \in Roots
  BY BoundAssumption
<1>2. QED BY <1>1 DEF NoScan, Scan, Steps, Quiet

LEMMA ScanOfFacts ==
    ASSUME NEW x \in Item
    PROVE  /\ ScanOf(x) \in Scan /\ ScanOf(x).at = "Begin" /\ ScanOf(x).root = x.root
           /\ ScanOf(x).result = "NotScanned"
           /\ ScanOf(x).unread = {} /\ ScanOf(x).loading = {}
<1>1. x.root \in Roots
  BY ItemFacts
<1>2. ScanOf(x) = [NoScan EXCEPT !.at = "Begin", !.root = x.root]
  BY DEF ScanOf
<1>3. QED BY <1>1, <1>2, NoScanFacts DEF Scan, Steps

LEMMA SaveStatusFacts ==
    ASSUME NEW d \in Database, NEW r \in Roots, NEW status \in Status, status # "None"
    PROVE  LET e == SaveStatus(d, r, status)
           IN  /\ e \in Database /\ e.charts = d.charts
               /\ \A s \in Roots : s # r => e.root[s] = d.root[s]
               /\ \A s \in Roots : e.root[s] = "None" <=> d.root[s] = "None"
               /\ d.root[r] # "None" => e.root[r] = status
<1> DEFINE f == [d.root EXCEPT ![r] = status]
<1>1. d.root \in [Roots -> Status] /\ f \in [Roots -> Status]
  BY DEF Database
<1>2. /\ \A s \in Roots : s # r => f[s] = d.root[s]
      /\ f[r] = status
  BY <1>1
<1>3. [d EXCEPT !.root[r] = status] = [d EXCEPT !.root = f]
  OBVIOUS
<1> HIDE DEF f
<1>4. /\ [d EXCEPT !.root = f] \in Database /\ [d EXCEPT !.root = f].root = f
      /\ [d EXCEPT !.root = f].charts = d.charts
  BY <1>1 DEF Database
<1>5. CASE d.root[r] = "None"
  BY <1>5 DEF SaveStatus
<1>6. CASE d.root[r] # "None"
  <2>1. SaveStatus(d, r, status) = [d EXCEPT !.root = f]
    BY <1>3, <1>6 DEF SaveStatus
  <2> DEFINE e == SaveStatus(d, r, status)
  <2>2. e \in Database /\ e.root = f /\ e.charts = d.charts
    BY <1>4, <2>1
  <2> HIDE DEF e
  <2>3. \A s \in Roots : e.root[s] = "None" <=> d.root[s] = "None"
    BY <1>2, <1>6, <2>2
  <2>4. QED BY <1>2, <2>2, <2>3 DEF e
<1>7. QED BY <1>5, <1>6

LEMMA ClearFacts ==
    ASSUME NEW d \in Database, NEW r \in Roots
    PROVE  /\ Clear(d, r) \in Database /\ Clear(d, r).root = d.root
           /\ Clear(d, r).charts = d.charts \ Below[r]
BY DEF Clear, Database

LEMMA GoesFacts ==
    ASSUME worker \in Scan, NEW step \in Steps, Goes(step)
    PROVE  /\ worker' \in Scan /\ worker'.at = step /\ worker'.root = worker.root
           /\ worker'.unread = worker.unread /\ worker'.loading = worker.loading
           /\ worker'.result = worker.result
BY DEF Goes, Scan

\* The head of the queue.
LEMMA HeadFacts ==
    ASSUME TypeOK, queue # <<>>
    PROVE  /\ queue[1] \in Item /\ Head(queue) = queue[1] /\ 1 \in 1..Len(queue)
           /\ Len(queue) \in Nat /\ DOMAIN queue = 1..Len(queue)
           /\ Tail(queue) \in Seq(Item)
<1>1. queue \in Seq(Item)
  BY TypeIs
<1>2. QED BY <1>1

-----------------------------------------------------------------------------
(* The worker.                                                             *)

\* What every step of the worker leaves alone.
LEMMA WorkerQuiet ==
    ASSUME IInv, UNCHANGED <<folders, queue, stop, main, used>>,
           history' \in Past, history'.dropped = history.dropped,
           worker' \in Scan, worker'.root = worker.root, worker'.at # "Idle",
           worker.at # "Idle", db' \in Database,
           \A r \in Roots : db'.root[r] = "None" <=> db.root[r] = "None",
           \A r \in Roots : r # worker.root => db'.root[r] = db.root[r]
    PROVE  /\ Structure' /\ GoneFits' /\ StopIsWanted' /\ ToldOfEveryChange'
           /\ NothingIsForgotten'
           /\ queue # <<>> /\ (HeadLive <=> ~HeadGone)
           /\ HeadLive' = HeadLive /\ HeadGone' = HeadGone
           /\ Listed' = Listed
<1>1. TypeOK' /\ worker.root \in Roots
  BY TypeIs DEF IInv, Structure, Scan, TypeOK, Database, Past
<1>2. QueueFits' /\ queue # <<>>
  BY DEF IInv, Structure, QueueFits
<1>3. Listed' = Listed
  BY DEF Listed
<1>4. RootsFit'
  BY <1>3 DEF IInv, Structure, RootsFit
<1>5. HeadLive' = HeadLive /\ HeadGone' = HeadGone /\ (HeadLive <=> ~HeadGone)
  BY <1>2 DEF HeadLive, HeadGone
<1>6. GoneFits'
  <2>1. SUFFICES ASSUME HeadGone PROVE GoneFits'
    BY <1>5 DEF GoneFits
  <2>2. \A r \in Listed : r \in Roots
    BY DEF Listed
  <2>3. QED BY <1>3, <2>1, <2>2 DEF IInv, GoneFits
<1>7. StopIsWanted'
  BY <1>5 DEF IInv, StopIsWanted
<1>8. ToldOfEveryChange'
  BY <1>2 DEF ToldOfEveryChange
<1>9. NothingIsForgotten'
  BY <1>3 DEF IInv, NothingIsForgotten, Queued
<1>10. QED BY <1>1, <1>2, <1>3, <1>4, <1>5, <1>6, <1>7, <1>8, <1>9 DEF Structure

\* The worker takes charts of no root but its own.
LEMMA WorkerComplete ==
    ASSUME IInv, UNCHANGED <<folders, queue, used>>,
           worker.root \in Roots, queue # <<>>,
           \A r \in Roots : db'.root[r] = "None" <=> db.root[r] = "None",
           \A r \in Roots : r # worker.root => db'.root[r] = db.root[r],
           Known \ Below[worker.root] \subseteq Known',
           HeadLive => \/ db'.root[worker.root] # "Scanned"
                       \/ Below[worker.root] \subseteq Known'
    PROVE  ScannedIsComplete'
<1>1. \A r \in Roots : Complete(r)
  BY DEF IInv, ScannedIsComplete, Complete, Known
<1>2. \A r \in Roots : r \notin Listed => folders[r] = "None" /\ db'.root[r] = "None"
  BY DEF IInv, Structure, RootsFit, Listed
<1>3. HeadLive \/ HeadGone
  BY DEF HeadLive, HeadGone
<1>4. ASSUME NEW r \in Roots, r # worker.root PROVE Complete(r)'
  <2>1. CASE r \notin Listed
    BY <1>2, <2>1 DEF Complete, Known
  <2>2. CASE r \in Listed /\ Overlaps(r, worker.root)
    <3>1. ~HeadLive
      <4>1. HeadLive => worker.root \in Listed
        BY DEF IInv, ScanFits, Listed
      <4>2. QED BY <1>4, <2>2, <4>1 DEF IInv, Structure, RootsFit
    <3>2. folders[r] = "NotScanned" /\ db.root[r] # "Scanned"
      BY <1>3, <1>4, <2>2, <3>1 DEF IInv, GoneFits
    <3>3. QED BY <1>4, <3>2 DEF Complete, Known
  <2>3. CASE ~Overlaps(r, worker.root)
    <3>1. Below[r] \subseteq Known => Below[r] \subseteq Known'
      BY <2>3 DEF Overlaps
    <3>2. QED BY <1>1, <1>4, <3>1 DEF Complete, Known
  <2>4. QED BY <2>1, <2>2, <2>3
<1>5. ASSUME NEW r \in Roots, r = worker.root PROVE Complete(r)'
  <2>1. CASE HeadLive
    <3>1. folders[r] = "InProgress"
      BY <1>5, <2>1 DEF IInv, ScanFits
    <3>2. QED BY <1>5, <2>1, <3>1 DEF Complete, Known
  <2>2. CASE HeadGone
    <3>1. CASE r \notin Listed
      BY <1>2, <3>1 DEF Complete, Known
    <3>2. CASE r \in Listed
      <4>1. folders[r] = "NotScanned" /\ used.adds[r] >= 2
        BY <1>5, <2>2, <3>2 DEF IInv, GoneFits
      <4>2. used.adds[r] \in Nat
        BY TypeIs DEF IInv, Structure, Counters
      <4>3. used.adds[r] > 1
        BY <4>1, <4>2
      <4>4. QED BY <4>1, <4>3 DEF Complete, Known
    <3>3. QED BY <3>1, <3>2
  <2>3. QED BY <1>3, <2>1, <2>2
<1>6. QED BY <1>4, <1>5 DEF ScannedIsComplete, Complete, Known

Early == {"Begin", "Clear", "Walk", "Decide", "ClearAgain"}

\* No chart appears that is not of the root that is scanned, and its scan clears
\* them before it lets go of a root that is removed.
LEMMA WorkerCharts ==
    ASSUME IInv, UNCHANGED <<folders, queue, main, used>>, queue # <<>>,
           worker'.root = worker.root,
           db'.charts \subseteq db.charts \cup Below[worker.root],
           \/ worker'.at \in Early
           \/ worker.at \notin Early /\ db'.charts \subseteq db.charts
           \/ HeadLive /\ db'.charts \subseteq db.charts
           \/ db'.charts \cap Below[worker.root] = {}
    PROVE  ChartsFit'
<1>1. SUFFICES ASSUME Undisturbed, NEW c \in db'.charts PROVE Remaining(c)'
  BY DEF ChartsFit, Undisturbed
<1>2. Listed' = Listed /\ HeadGone' = HeadGone /\ (HeadLive <=> ~HeadGone)
  BY DEF Listed, HeadGone, HeadLive
<1>3. CASE c \in db.charts
  <2>1. Remaining(c)
    BY <1>1, <1>3 DEF IInv, ChartsFit
  <2>2. CASE \/ \E r \in Listed : c \in Below[r]
             \/ main.at = "Removing" /\ c \in Below[main.root]
    BY <1>2, <2>2 DEF Remaining
  <2>3. CASE HeadGone /\ c \in Below[worker.root] /\ worker.at \in Early
    <3>1. worker'.at \in Early
      BY <1>2, <2>3
    <3>2. QED BY <1>2, <2>3, <3>1 DEF Remaining, Early
  <2>4. QED BY <2>1, <2>2, <2>3 DEF Remaining, Early
<1>4. CASE c \notin db.charts
  <2>1. c \in Below[worker.root] /\ worker'.at \in Early
    BY <1>1, <1>4
  <2>2. CASE HeadGone
    BY <1>2, <2>1, <2>2 DEF Remaining, Early
  <2>3. CASE HeadLive
    <3>1. worker.root \in Listed
      <4>1. folders[worker.root] = "InProgress" /\ worker.root \in Roots
        BY <2>3, TypeIs DEF IInv, ScanFits, Structure, Scan
      <4>2. QED BY <4>1 DEF Listed
    <3>2. QED BY <1>2, <2>1, <3>1 DEF Remaining
  <2>4. QED BY <1>2, <2>2, <2>3
<1>5. QED BY <1>3, <1>4

\* A step of the worker has to keep what the scan says of the charts.
LEMMA WorkerStepFits ==
    ASSUME IInv, UNCHANGED <<folders, queue, stop, main, used>>,
           history' \in Past, history'.dropped = history.dropped,
           worker' \in Scan, worker'.root = worker.root, worker'.at # "Idle",
           worker.at # "Idle", db' \in Database,
           \A r \in Roots : db'.root[r] = "None" <=> db.root[r] = "None",
           \A r \in Roots : r # worker.root => db'.root[r] = db.root[r],
           db'.charts \subseteq db.charts \cup Below[worker.root],
           Known \ Below[worker.root] \subseteq Known',
           \/ worker'.at \in Early
           \/ worker.at \notin Early /\ db'.charts \subseteq db.charts
           \/ HeadLive /\ db'.charts \subseteq db.charts
           \/ db'.charts \cap Below[worker.root] = {},
           HeadLive => \/ db'.root[worker.root] # "Scanned"
                       \/ Below[worker.root] \subseteq Known',
           ScanFits'
    PROVE  IInv'
<1>1. worker.root \in Roots
  BY TypeIs DEF IInv, Structure, Scan
<1>2. /\ Structure' /\ GoneFits' /\ StopIsWanted' /\ ToldOfEveryChange'
      /\ NothingIsForgotten' /\ queue # <<>>
  BY WorkerQuiet
<1>3. ScannedIsComplete'
  BY <1>1, <1>2, WorkerComplete
<1>4. ChartsFit'
  BY <1>2, WorkerCharts
<1>5. QED BY <1>2, <1>3, <1>4 DEF IInv

\* What a scan that is under way may count on.
LEMMA ScanFacts ==
    ASSUME IInv, worker.at # "Idle"
    PROVE  /\ db \in Database /\ worker \in Scan /\ worker.root \in Roots
           /\ Below[worker.root] \in SUBSET Charts
           /\ db.charts \in SUBSET Charts
           /\ worker.unread \cup worker.loading \subseteq Below[worker.root]
           /\ queue # <<>> /\ (HeadLive <=> ~HeadGone)
<1>1. TypeOK /\ queue # <<>>
  BY DEF IInv, Structure, QueueFits
<1>2. db \in Database /\ worker \in Scan /\ worker.root \in Roots /\ db.charts \in SUBSET Charts
  BY <1>1, TypeIs DEF Scan, Database
<1>3. QED BY <1>1, <1>2, BelowTyped DEF IInv, ScanFits, HeadLive, HeadGone

LEMMA WorkerKeeps ==
    ASSUME IInv, WorkerStep
    PROVE  IInv'
<1> DEFINE w == worker.root
<1>1. UNCHANGED <<folders, queue, stop, main, used>> /\ history \in Past
  BY TypeIs DEF WorkerStep, IInv, Structure
<1>2. worker.at # "Idle"
  BY DEF WorkerStep, MarkInProgress, ClearOld, LoadChart, SaveChart, AbandonWalk, EndWalk,
         Decide, ClearStopped, SaveResult
<1>3. /\ db \in Database /\ worker \in Scan /\ w \in Roots /\ Below[w] \in SUBSET Charts
      /\ db.charts \in SUBSET Charts
      /\ worker.unread \cup worker.loading \subseteq Below[w]
      /\ queue # <<>> /\ (HeadLive <=> ~HeadGone)
  BY <1>2, ScanFacts
<1>4. /\ HeadLive' = HeadLive
      /\ HeadLive => folders[w] = "InProgress"
      /\ HeadGone => stop
      /\ HeadLive /\ worker.at \in {"Clear", "Walk", "Decide", "ClearAgain", "Save"} =>
            db.root[w] # "Scanned"
  BY <1>1 DEF HeadLive, IInv, ScanFits, GoneFits
<1>5. CASE MarkInProgress /\ history' = history
  <2>1. /\ worker' \in Scan /\ worker'.at = "Clear" /\ worker'.root = w
        /\ worker'.unread = worker.unread /\ worker'.loading = worker.loading
    BY <1>3, <1>5, GoesFacts DEF MarkInProgress, Steps
  <2>2. /\ db' \in Database /\ db'.charts = db.charts
        /\ \A r \in Roots : r # w => db'.root[r] = db.root[r]
        /\ \A r \in Roots : db'.root[r] = "None" <=> db.root[r] = "None"
        /\ db'.root[w] # "Scanned"
    <3>1. db' = SaveStatus(db, w, "InProgress") /\ "InProgress" \in Status
      BY <1>5 DEF MarkInProgress, Status
    <3>2. QED BY <1>3, <3>1, SaveStatusFacts
  <2>3. ScanFits'
    BY <1>1, <1>3, <1>4, <1>5, <2>1, <2>2 DEF ScanFits
  <2>4. QED BY <1>1, <1>2, <1>5, <2>1, <2>2, <2>3, WorkerStepFits DEF Early, Known
<1>6. CASE ClearOld
  <2>1. worker.at = "Clear" /\ worker' = [worker EXCEPT !.at = "Walk", !.unread = Below[w]]
    BY <1>6 DEF ClearOld
  <2>2. /\ worker' \in Scan /\ worker'.at = "Walk" /\ worker'.root = w
        /\ worker'.unread = Below[w] /\ worker'.loading = worker.loading
    BY <1>3, <2>1 DEF Scan, Steps
  <2>3. /\ db' \in Database /\ db'.root = db.root /\ db'.charts = db.charts \ Below[w]
    BY <1>3, <1>6, ClearFacts DEF ClearOld
  <2>7. /\ history' \in Past /\ history'.dropped = history.dropped
        /\ history'.missed = history.missed \ Below[w]
    BY <1>1, <1>6 DEF ClearOld, Past
  <2>4. ScanFits'
    BY <1>1, <1>3, <1>4, <2>1, <2>2, <2>3, <2>7 DEF ScanFits, Missing, Known
  <2>5. HeadLive => db'.root[w] # "Scanned"
    BY <1>4, <2>1, <2>3
  <2>6. QED BY <1>1, <1>2, <2>2, <2>3, <2>4, <2>5, <2>7, WorkerStepFits DEF Early, Known
<1>7. CASE (\E c \in Charts : LoadChart(c)) /\ history' = history
  <2>1. PICK c \in Charts : LoadChart(c)
    BY <1>7
  <2>2. /\ worker.at = "Walk" /\ c \in worker.unread /\ db' = db
        /\ worker' = [worker EXCEPT !.unread = @ \ {c}, !.loading = @ \cup {c}]
    BY <2>1 DEF LoadChart
  <2>3. /\ worker' \in Scan /\ worker'.at = "Walk" /\ worker'.root = w
        /\ worker'.unread = worker.unread \ {c} /\ worker'.loading = worker.loading \cup {c}
    BY <1>3, <2>2 DEF Scan
  <2>4. ScanFits'
    <3>1. worker'.unread \cup worker'.loading = worker.unread \cup worker.loading
      BY <2>2, <2>3
    <3>2. Missing' = Missing
      BY <1>1, <1>7, <2>2, <2>3 DEF Missing, Known
    <3>3. QED BY <1>1, <1>3, <1>4, <1>7, <2>2, <2>3, <3>1, <3>2 DEF IInv, ScanFits
  <2>5. QED BY <1>1, <1>2, <1>3, <1>4, <1>7, <2>2, <2>3, <2>4, WorkerStepFits DEF Early, Known
<1>8. CASE (\E c \in Charts : SaveChart(c)) /\ history' = history
  <2>1. PICK c \in Charts : SaveChart(c)
    BY <1>8
  <2>2. /\ worker.at = "Walk" /\ c \in worker.loading /\ c \in Below[w]
        /\ worker' = [worker EXCEPT !.loading = @ \ {c}]
        /\ db' = [db EXCEPT !.charts = @ \cup {c}]
    BY <1>3, <2>1 DEF SaveChart
  <2>3. /\ worker' \in Scan /\ worker'.at = "Walk" /\ worker'.root = w
        /\ worker'.unread = worker.unread /\ worker'.loading = worker.loading \ {c}
    BY <1>3, <2>2 DEF Scan
  <2>4. /\ db' \in Database /\ db'.root = db.root /\ db'.charts = db.charts \cup {c}
    BY <1>3, <2>2 DEF Database
  <2>5. ScanFits'
    <3>1. Missing' = Missing \ {c}
      BY <1>1, <1>8, <2>3, <2>4 DEF Missing, Known
    <3>2. /\ worker'.unread \cup worker'.loading \subseteq Below[w]
          /\ (worker.unread \cup worker.loading) \ {c} \subseteq worker'.unread \cup worker'.loading
      BY <1>3, <2>3
    <3>3. QED BY <1>1, <1>3, <1>4, <1>8, <2>2, <2>3, <2>4, <3>1, <3>2 DEF IInv, ScanFits
  <2>6. QED BY <1>1, <1>2, <1>3, <1>4, <1>8, <2>2, <2>3, <2>4, <2>5, WorkerStepFits DEF Early, Known
<1>9. CASE AbandonWalk /\ history' = history
  <2>1. /\ worker.at = "Walk" /\ stop /\ db' = db
        /\ worker' = [worker EXCEPT !.unread = {}]
    BY <1>9 DEF AbandonWalk
  <2>2. /\ worker' \in Scan /\ worker'.at = "Walk" /\ worker'.root = w
        /\ worker'.unread = {} /\ worker'.loading = worker.loading
    BY <1>3, <2>1 DEF Scan
  <2>3. ScanFits'
    BY <1>1, <1>3, <1>4, <1>9, <2>1, <2>2 DEF ScanFits
  <2>4. QED BY <1>1, <1>2, <1>3, <1>4, <1>9, <2>1, <2>2, <2>3, WorkerStepFits DEF Early, Known
<1>10. CASE EndWalk /\ history' = history
  <2>1. worker.at = "Walk" /\ worker.unread = {} /\ worker.loading = {} /\ db' = db
    BY <1>10 DEF EndWalk
  <2>2. /\ worker' \in Scan /\ worker'.at = "Decide" /\ worker'.root = w
        /\ worker'.unread = worker.unread /\ worker'.loading = worker.loading
    BY <1>3, <1>10, GoesFacts DEF EndWalk, Steps
  <2>3. ScanFits'
    <3>1. Missing' = Missing
      BY <1>1, <1>10, <2>1, <2>2 DEF Missing, Known
    <3>2. QED BY <1>1, <1>3, <1>4, <1>10, <2>1, <2>2, <3>1 DEF IInv, ScanFits
  <2>4. QED BY <1>1, <1>2, <1>3, <1>4, <1>10, <2>1, <2>2, <2>3, WorkerStepFits DEF Early, Known
<1>11. CASE Decide /\ history' = history
  <2>1. worker.at = "Decide" /\ db' = db
    BY <1>11 DEF Decide
  <2>2. /\ worker' \in Scan /\ worker'.root = w /\ worker'.at # "Idle"
        /\ worker'.unread = worker.unread /\ worker'.loading = worker.loading
        /\ stop => worker'.at = "ClearAgain" /\ worker'.result = "NotScanned"
        /\ ~stop => worker'.at = "Save"
    BY <1>3, <1>11 DEF Decide, Scan, Steps
  <2>3. ScanFits'
    <3>1. Missing' = Missing
      BY <1>1, <1>11, <2>1, <2>2 DEF Missing, Known
    <3>2. QED BY <1>1, <1>3, <1>4, <1>11, <2>1, <2>2, <3>1 DEF IInv, ScanFits
  <2>4. worker'.at \in Early \/ HeadLive
    BY <1>3, <1>4, <2>2 DEF Early
  <2>5. QED BY <1>1, <1>2, <1>3, <1>4, <1>11, <2>1, <2>2, <2>3, <2>4, WorkerStepFits DEF Known
<1>12. CASE ClearStopped /\ history' = history
  <2>1. worker.at = "ClearAgain" /\ worker.result = "NotScanned"
    BY <1>12 DEF ClearStopped, IInv, ScanFits
  <2>2. /\ worker' \in Scan /\ worker'.at = "Save" /\ worker'.root = w
        /\ worker'.unread = worker.unread /\ worker'.loading = worker.loading
        /\ worker'.result = worker.result
    BY <1>3, <1>12, GoesFacts DEF ClearStopped, Steps
  <2>3. /\ db' \in Database /\ db'.root = db.root /\ db'.charts = db.charts \ Below[w]
    BY <1>3, <1>12, ClearFacts DEF ClearStopped
  <2>4. ScanFits'
    BY <1>1, <1>3, <1>4, <1>12, <2>1, <2>2, <2>3 DEF ScanFits
  <2>5. HeadLive => db'.root[w] # "Scanned"
    BY <1>4, <2>1, <2>3
  <2>6. db'.charts \cap Below[w] = {}
    BY <2>3
  <2>7. QED BY <1>1, <1>2, <1>12, <2>2, <2>3, <2>4, <2>5, <2>6, WorkerStepFits DEF Known
<1>13. CASE SaveResult /\ history' = history
  <2>1. worker.at = "Save" /\ worker.result \in {"NotScanned", "Scanned"}
    BY <1>3, <1>13 DEF SaveResult, Scan
  <2>2. /\ worker' \in Scan /\ worker'.at = "Done" /\ worker'.root = w
        /\ worker'.unread = worker.unread /\ worker'.loading = worker.loading
        /\ worker'.result = worker.result
    BY <1>3, <1>13, GoesFacts DEF SaveResult, Steps
  <2>3. /\ db' \in Database /\ db'.charts = db.charts
        /\ \A r \in Roots : r # w => db'.root[r] = db.root[r]
        /\ \A r \in Roots : db'.root[r] = "None" <=> db.root[r] = "None"
        /\ db'.root[w] = "None" \/ db'.root[w] = worker.result
    <3>1. db' = SaveStatus(db, w, worker.result) /\ worker.result \in Status
          /\ worker.result # "None"
      BY <1>13, <2>1 DEF SaveResult, Status
    <3>2. QED BY <1>3, <3>1, SaveStatusFacts
  <2>4. ScanFits'
    <3>1. Missing' = Missing
      BY <1>1, <1>13, <2>2, <2>3 DEF Missing, Known
    <3>2. QED BY <1>1, <1>3, <1>4, <1>13, <2>1, <2>2, <3>1 DEF IInv, ScanFits
  <2>5. HeadLive => \/ db'.root[w] # "Scanned"
                    \/ Below[w] \subseteq Known'
    BY <1>13, <2>1, <2>3 DEF IInv, ScanFits, Missing, Known
  <2>6. worker.at \notin Early
    BY <2>1 DEF Early
  <2>7. QED BY <1>1, <1>2, <1>13, <2>2, <2>3, <2>4, <2>5, <2>6, WorkerStepFits DEF Known
<1>14. QED BY <1>5, <1>6, <1>7, <1>8, <1>9, <1>10, <1>11, <1>12, <1>13 DEF WorkerStep

-----------------------------------------------------------------------------
(* Faults, and the end of a removal.                                       *)

LEMMA FaultsKeep ==
    ASSUME IInv, (\E c \in Charts : ChartFails(c)) \/ WalkFails \/ WorkerFails
    PROVE  IInv'
<1>1. /\ UNCHANGED <<db, folders, queue, stop, main>> /\ worker.at # "Idle"
      /\ used.faults < MaxFaults /\ used' = [used EXCEPT !.faults = @ + 1]
  BY DEF ChartFails, WalkFails, Misses, WorkerFails
<1>2. /\ db \in Database /\ worker \in Scan /\ worker.root \in Roots
      /\ worker.unread \cup worker.loading \subseteq Below[worker.root]
      /\ queue # <<>> /\ TypeOK /\ history \in Past /\ used \in Counters
  BY <1>1, ScanFacts, TypeIs DEF IInv, Structure
<1>3. /\ used' \in Counters /\ used'.adds = used.adds /\ used'.exits = used.exits
      /\ used'.faults # 0
  <2>1. used.faults + 1 \in 0..MaxFaults /\ used.faults + 1 # 0
    BY <1>1, <1>2, BoundAssumption DEF Counters
  <2>2. used' = [used EXCEPT !.faults = used.faults + 1]
    BY <1>1
  <2>3. QED BY <1>2, <2>1, <2>2 DEF Counters
<1>4. /\ worker' \in Scan /\ worker'.root = worker.root /\ worker'.at # "Idle"
      /\ worker'.unread \subseteq worker.unread /\ worker'.loading \subseteq worker.loading
      /\ \/ /\ worker'.at = "Walk" /\ worker.at = "Walk"
            /\ worker.unread \cup worker.loading \subseteq
                  worker'.unread \cup worker'.loading \cup history'.missed
         \/ worker'.at = "Done" /\ worker'.result = "NotScanned"
      /\ history' \in Past /\ history'.told = history.told
      /\ history'.dropped = history.dropped /\ history.missed \subseteq history'.missed
  <2>0. worker.unread \in SUBSET Charts /\ worker.loading \in SUBSET Charts
    BY <1>2 DEF Scan
  <2>1. CASE \E c \in Charts : ChartFails(c)
    <3>1. PICK c \in Charts : ChartFails(c)
      BY <2>1
    <3>2. /\ worker.at = "Walk" /\ worker' = [worker EXCEPT !.loading = @ \ {c}]
          /\ history' = [history EXCEPT !.missed = @ \cup {c}]
      BY <3>1 DEF ChartFails, Misses
    <3>3. /\ worker' \in Scan /\ worker'.root = worker.root /\ worker'.at = "Walk"
          /\ worker'.unread = worker.unread /\ worker'.loading = worker.loading \ {c}
      BY <1>2, <3>2 DEF Scan
    <3>4. /\ history' \in Past /\ history'.told = history.told
          /\ history'.dropped = history.dropped
          /\ history'.missed = history.missed \cup {c}
      BY <1>2, <3>2 DEF Past
    <3>5. QED BY <3>2, <3>3, <3>4
  <2>2. CASE WalkFails
    <3>1. PICK lost \in SUBSET worker.unread :
             /\ worker.at = "Walk" /\ worker' = [worker EXCEPT !.unread = @ \ lost]
             /\ history' = [history EXCEPT !.missed = @ \cup lost]
      BY <2>2 DEF WalkFails, Misses
    <3>2. /\ worker' \in Scan /\ worker'.root = worker.root /\ worker'.at = "Walk"
          /\ worker'.unread = worker.unread \ lost /\ worker'.loading = worker.loading
      BY <1>2, <3>1 DEF Scan
    <3>3. /\ history' \in Past /\ history'.told = history.told
          /\ history'.dropped = history.dropped
          /\ history'.missed = history.missed \cup lost
      BY <1>2, <2>0, <3>1 DEF Past
    <3>4. QED BY <3>1, <3>2, <3>3
  <2>3. CASE WorkerFails
    <3>1. worker' = [worker EXCEPT !.at = "Done", !.result = "NotScanned"] /\ history' = history
      BY <2>3 DEF WorkerFails
    <3>2. /\ worker' \in Scan /\ worker'.root = worker.root /\ worker'.at = "Done"
          /\ worker'.unread = worker.unread /\ worker'.loading = worker.loading
          /\ worker'.result = "NotScanned"
      BY <1>2, <3>1 DEF Scan, Steps
    <3>3. QED BY <1>2, <3>1, <3>2
  <2>4. QED BY <2>1, <2>2, <2>3
<1>5. Listed' = Listed /\ HeadLive' = HeadLive /\ HeadGone' = HeadGone
  BY <1>1 DEF Listed, HeadLive, HeadGone
<1>6. Structure'
  <2>1. TypeOK'
    BY <1>1, <1>2, <1>3, <1>4, TypeIs DEF TypeOK, Scan, Past, Counters
  <2>2. QueueFits'
    BY <1>1, <1>2, <1>4 DEF IInv, Structure, QueueFits
  <2>3. RootsFit'
    BY <1>1, <1>3, <1>5 DEF IInv, Structure, RootsFit
  <2>4. QED BY <2>1, <2>2, <2>3 DEF Structure
<1>7. ScanFits'
  <2>1. worker'.unread \cup worker'.loading \subseteq Below[worker'.root]
    BY <1>2, <1>4
  <2>2. HeadLive => folders[worker.root] = "InProgress"
    BY DEF IInv, ScanFits
  <2>3. HeadLive /\ worker'.at = "Walk" => db.root[worker.root] # "Scanned"
    BY <1>4 DEF IInv, ScanFits
  <2>4. HeadLive /\ worker'.at = "Walk" =>
           stop \/ Missing' \subseteq worker'.unread \cup worker'.loading
    BY <1>1, <1>4 DEF IInv, ScanFits, Missing, Known
  <2>5. QED BY <1>1, <1>4, <1>5, <2>1, <2>2, <2>3, <2>4 DEF ScanFits
<1>8. GoneFits' /\ StopIsWanted' /\ NothingIsForgotten'
  BY <1>1, <1>3, <1>4, <1>5
     DEF IInv, GoneFits, StopIsWanted, NothingIsForgotten, Queued
<1>9. ChartsFit' /\ ToldOfEveryChange'
  BY <1>1, <1>2, <1>3 DEF ChartsFit, Undisturbed, ToldOfEveryChange
<1>10. ScannedIsComplete'
  BY <1>1, <1>3, <1>4 DEF IInv, ScannedIsComplete
<1>11. QED BY <1>6, <1>7, <1>8, <1>9, <1>10 DEF IInv

\* The charts of a removed root are not those of any root that is listed.
LEMMA ClearRemovedKeeps ==
    ASSUME IInv, ClearRemoved
    PROVE  IInv'
<1> DEFINE m == main.root
<1>1. /\ main.at = "Removing" /\ db' = Clear(db, m) /\ main' = Quiet
      /\ UNCHANGED <<folders, queue, stop, worker, used>>
      /\ history' = IF queue = <<>> THEN [history EXCEPT !.told = db'.charts] ELSE history
  BY DEF ClearRemoved
<1>2. /\ db \in Database /\ m \in Roots /\ TypeOK /\ history \in Past /\ worker \in Scan
  BY TypeIs DEF IInv, Structure
<1>3. /\ db' \in Database /\ db'.root = db.root /\ db'.charts = db.charts \ Below[m]
  BY <1>1, <1>2, ClearFacts
<1>4. /\ history' \in Past /\ history'.dropped = history.dropped
      /\ history'.missed = history.missed
      /\ queue = <<>> => history'.told = db'.charts
  <2>1. db'.charts \in SUBSET Charts
    BY <1>3 DEF Database
  <2>2. QED BY <1>1, <1>2, <2>1 DEF Past
<1>5. main'.at = "Idle" /\ main'.root \in Roots
  BY <1>1, NoScanFacts
<1>6. Listed' = Listed /\ HeadLive' = HeadLive /\ HeadGone' = HeadGone
  BY <1>1 DEF Listed, HeadLive, HeadGone
<1>7. \A r \in Listed : Below[r] \cap Below[m] = {}
  BY <1>1 DEF IInv, Structure, RootsFit, Overlaps
<1>8. Structure'
  <2>1. main' \in [at : {"Idle", "Removing", "Quitting"}, root : Roots]
    BY <1>1, NoScanFacts DEF Quiet
  <2>2. TypeOK'
    BY <1>1, <1>2, <1>3, <1>4, <2>1 DEF TypeOK, Past, Database
  <2>3. QueueFits'
    BY <1>1 DEF IInv, Structure, QueueFits
  <2>4. RootsFit'
    BY <1>1, <1>3, <1>5, <1>6 DEF IInv, Structure, RootsFit
  <2>5. QED BY <2>2, <2>3, <2>4 DEF Structure
<1>9. ScanFits'
  <2>1. HeadLive => Missing' = Missing
    <3>1. HeadLive => worker.root \in Listed
      BY <1>2 DEF IInv, ScanFits, Listed, Scan
    <3>2. HeadLive => Below[worker.root] \cap Below[m] = {}
      BY <1>7, <3>1
    <3>3. QED BY <1>1, <1>3, <1>4, <3>2 DEF Missing, Known
  <2>2. QED BY <1>1, <1>3, <1>4, <1>6, <2>1 DEF IInv, ScanFits
<1>10. GoneFits' /\ StopIsWanted' /\ NothingIsForgotten'
  BY <1>1, <1>3, <1>4, <1>5, <1>6
     DEF IInv, GoneFits, StopIsWanted, NothingIsForgotten, Queued
<1>11. ToldOfEveryChange'
  BY <1>1, <1>4 DEF ToldOfEveryChange
<1>12. ChartsFit'
  <2>1. SUFFICES ASSUME Undisturbed, NEW c \in db'.charts PROVE Remaining(c)'
    BY <1>1 DEF ChartsFit, Undisturbed
  <2>2. Remaining(c) /\ c \notin Below[m]
    BY <1>3, <2>1 DEF IInv, ChartsFit
  <2>3. QED BY <1>1, <1>6, <2>2 DEF Remaining
<1>13. ScannedIsComplete'
  <2>1. ASSUME NEW r \in Roots PROVE Complete(r)'
    <3>1. CASE r \in Listed
      <4>1. Below[r] \subseteq Known => Below[r] \subseteq Known'
        <5>1. Below[r] \cap Below[m] = {}
          BY <1>7, <3>1
        <5>2. Known \ Below[m] \subseteq Known'
          BY <1>3, <1>4 DEF Known
        <5>3. QED BY <5>1, <5>2
      <4>2. Complete(r)
        BY DEF IInv, ScannedIsComplete, Complete, Known
      <4>3. QED BY <1>1, <1>3, <1>4, <4>1, <4>2 DEF Complete, Known
    <3>2. CASE r \notin Listed
      <4>1. folders[r] = "None" /\ db.root[r] = "None"
        BY <3>2 DEF Listed, IInv, Structure, RootsFit
      <4>2. QED BY <1>1, <1>3, <4>1 DEF Complete, Known
    <3>3. QED BY <3>1, <3>2
  <2>2. QED BY <2>1 DEF ScannedIsComplete, Complete, Known
<1>14. QED BY <1>8, <1>9, <1>10, <1>11, <1>12, <1>13 DEF IInv

\* A shutdown keeps the head of the queue and stops its scan.
LEMMA QuitKeeps ==
    ASSUME IInv, Quit
    PROVE  IInv'
<1>1. /\ main' = [main EXCEPT !.at = "Quitting"] /\ stop' = (stop \/ queue # <<>>)
      /\ queue' = IF queue = <<>> THEN queue ELSE <<Head(queue)>>
      /\ used.exits < MaxExits /\ used' = [used EXCEPT !.exits = @ + 1]
      /\ UNCHANGED <<db, folders, worker, history>>
  BY DEF Quit
<1>2. /\ TypeOK /\ QueueFits /\ used \in Counters /\ queue \in Seq(Item)
      /\ main \in [at : {"Idle", "Removing", "Quitting"}, root : Roots]
  BY TypeIs DEF IInv, Structure
<1>3. /\ used' \in Counters /\ used'.adds = used.adds /\ used'.exits > 0
  <2>1. used.exits + 1 \in 0..MaxExits /\ used.exits + 1 > 0
    BY <1>1, <1>2, BoundAssumption DEF Counters
  <2>2. used' = [used EXCEPT !.exits = used.exits + 1]
    BY <1>1
  <2>3. QED BY <1>2, <2>1, <2>2 DEF Counters
<1>4. /\ main' \in [at : {"Idle", "Removing", "Quitting"}, root : Roots]
      /\ main'.at = "Quitting"
  BY <1>1, <1>2
<1>5. /\ queue' \in Seq(Item) /\ (queue' = <<>> <=> queue = <<>>)
      /\ queue # <<>> => Len(queue') = 1 /\ queue'[1] = queue[1]
      /\ stop' \in BOOLEAN /\ (stop => stop') /\ (queue # <<>> => stop')
      /\ queue = <<>> => ~stop'
  <2>1. CASE queue = <<>>
    BY <1>1, <1>2, <2>1 DEF QueueFits
  <2>2. CASE queue # <<>>
    <3>1. PICK x \in Item : x = queue[1] /\ queue' = <<x>>
      BY <1>1, <1>2, <2>2, HeadFacts
    <3>2. <<x>> \in Seq(Item) /\ <<x>> # <<>> /\ Len(<<x>>) = 1 /\ <<x>>[1] = x
      OBVIOUS
    <3>3. QED BY <1>1, <1>2, <2>2, <3>1, <3>2
  <2>3. QED BY <2>1, <2>2
<1>6. Listed' = Listed /\ HeadLive' = HeadLive /\ HeadGone' = HeadGone
  BY <1>1, <1>5 DEF Listed, HeadLive, HeadGone
<1>7. Structure'
  <2>1. TypeOK'
    BY <1>1, <1>2, <1>3, <1>4, <1>5 DEF TypeOK, Counters
  <2>2. QueueFits'
    <3>1. CASE queue = <<>>
      BY <1>1, <1>2, <1>5, <3>1 DEF QueueFits
    <3>2. CASE queue # <<>>
      <4>1. 1 \in 1..Len(queue)
        BY <1>2, <3>2, HeadFacts
      <4>2. /\ worker.at # "Idle" /\ worker.root = queue[1].root
            /\ ~queue[1].removed => folders[queue[1].root] # "None"
        BY <1>2, <3>2, <4>1 DEF QueueFits
      <4> DEFINE n == Len(queue')
      <4>0. n = 1
        BY <1>5, <3>2
      <4> HIDE DEF n
      <4>3. (\A i \in 1..n : i = 1) /\ (\A i \in 2..n : FALSE)
        BY <4>0
      <4>4. (\A i \in 1..Len(queue') : i = 1) /\ (\A i \in 2..Len(queue') : FALSE)
        BY <4>3 DEF n
      <4>5. QED BY <1>1, <1>5, <3>2, <4>2, <4>3, <4>4 DEF QueueFits
    <3>3. QED BY <3>1, <3>2
  <2>3. RootsFit'
    BY <1>1, <1>3, <1>4, <1>6 DEF IInv, Structure, RootsFit
  <2>4. QED BY <2>1, <2>2, <2>3 DEF Structure
<1>8. ScanFits'
  BY <1>1, <1>5, <1>6 DEF IInv, ScanFits, Missing, Known
<1>9. GoneFits'
  BY <1>1, <1>3, <1>5, <1>6 DEF IInv, GoneFits, HeadGone
<1>10. StopIsWanted' /\ NothingIsForgotten' /\ ToldOfEveryChange'
  BY <1>4 DEF StopIsWanted, NothingIsForgotten, ToldOfEveryChange
<1>11. ChartsFit'
  BY <1>2, <1>3 DEF ChartsFit, Undisturbed
<1>12. ScannedIsComplete'
  BY <1>1, <1>3 DEF IInv, ScannedIsComplete
<1>13. QED BY <1>7, <1>8, <1>9, <1>10, <1>11, <1>12 DEF IInv

-----------------------------------------------------------------------------
(* The queue.                                                              *)

LEMMA RemoveAtFacts ==
    ASSUME NEW S, NEW s \in Seq(S), NEW i \in 2..Len(s)
    PROVE  /\ RemoveAt(s, i) \in Seq(S) /\ Len(RemoveAt(s, i)) = Len(s) - 1
           /\ \A j \in 1..(i - 1) : RemoveAt(s, i)[j] = s[j]
           /\ \A j \in i..(Len(s) - 1) : RemoveAt(s, i)[j] = s[j + 1]
<1> DEFINE a == SubSeq(s, 1, i - 1)
           b == SubSeq(s, i + 1, Len(s))
<1>1. Len(s) \in Nat /\ i \in Nat /\ i >= 2 /\ i <= Len(s)
  OBVIOUS
<1>2. a \in Seq(S) /\ Len(a) = i - 1 /\ \A j \in 1..(i - 1) : a[j] = s[j]
  <2>1. 1 \in 1..(Len(s) + 1) /\ i - 1 \in 0..Len(s)
    BY <1>1
  <2>2. QED BY <1>1, <2>1, SubSeqProperties
<1>3. b \in Seq(S) /\ Len(b) = Len(s) - i /\ \A j \in 1..(Len(s) - i) : b[j] = s[i + j]
  <2>1. i + 1 \in 1..(Len(s) + 1) /\ Len(s) \in 0..Len(s)
    BY <1>1
  <2>2. /\ b \in Seq(S)
        /\ Len(b) = IF i + 1 <= Len(s) THEN Len(s) - (i + 1) + 1 ELSE 0
        /\ \A j \in 1..(Len(s) - (i + 1) + 1) : b[j] = s[i + 1 + j - 1]
    BY <1>1, <2>1, SubSeqProperties
  <2>3. QED BY <1>1, <2>2
<1> HIDE DEF a, b
<1>4. /\ a \o b \in Seq(S) /\ Len(a \o b) = Len(a) + Len(b)
      /\ \A j \in 1..(Len(a) + Len(b)) :
            (a \o b)[j] = IF j <= Len(a) THEN a[j] ELSE b[j - Len(a)]
  BY <1>2, <1>3, ConcatProperties
<1>5. RemoveAt(s, i) = a \o b
  BY DEF RemoveAt, a, b
<1>6. ASSUME NEW j \in 1..(i - 1) PROVE (a \o b)[j] = s[j]
  BY <1>1, <1>2, <1>3, <1>4
<1>7. ASSUME NEW j \in i..(Len(s) - 1) PROVE (a \o b)[j] = s[j + 1]
  <2>1. (a \o b)[j] = b[j - (i - 1)] /\ j - (i - 1) \in 1..(Len(s) - i)
    BY <1>1, <1>2, <1>3, <1>4
  <2>2. b[j - (i - 1)] = s[i + (j - (i - 1))]
    BY <1>3, <2>1
  <2>3. i + (j - (i - 1)) = j + 1
    BY <1>1
  <2>4. QED BY <2>1, <2>2, <2>3
<1> DEFINE t == a \o b
<1>8. t \in Seq(S) /\ Len(t) = Len(s) - 1 /\ RemoveAt(s, i) = t
  BY <1>1, <1>2, <1>3, <1>4, <1>5
<1>9. (\A j \in 1..(i - 1) : t[j] = s[j]) /\ (\A j \in i..(Len(s) - 1) : t[j] = s[j + 1])
  BY <1>6, <1>7
<1> HIDE DEF t
<1>10. QED BY <1>8, <1>9

\* An item that is taken off leaves the order and the head of the queue alone.
LEMMA RemoveItemFacts ==
    ASSUME TypeOK, QueueFits, NEW i \in 1..Len(queue), RemoveItem(i)
    PROVE  /\ queue # <<>> /\ queue' \in Seq(Item) /\ queue' # <<>>
           /\ queue'[1] = queue[1]
           /\ \A j \in 2..Len(queue') : ~queue'[j].removed
           /\ \A j, k \in 1..Len(queue') : queue'[j] = queue'[k] => j = k
           /\ \A j \in 1..Len(queue') : \E k \in 1..Len(queue) : queue'[j] = queue[k]
           /\ \A k \in 1..Len(queue) :
                 k # i => \E j \in 1..Len(queue') : queue'[j] = queue[k]
           /\ i = 1 => queue' = queue /\ stop' = TRUE
           /\ i # 1 => /\ stop' = stop /\ ~queue[i].removed
                       /\ \A j \in 1..Len(queue') : queue'[j] # queue[i]
<1>1. queue \in Seq(Item) /\ Len(queue) \in Nat /\ queue # <<>> /\ i \in Nat
  BY TypeIs
<1>2. CASE i = 1
  BY <1>1, <1>2 DEF RemoveItem, QueueFits
<1>3. CASE i # 1
  <2> DEFINE q == RemoveAt(queue, i)
             to(k) == IF k < i THEN k ELSE k - 1
             from(j) == IF j < i THEN j ELSE j + 1
  <2>1. i \in 2..Len(queue) /\ queue' = q /\ stop' = stop
    BY <1>1, <1>3 DEF RemoveItem
  <2>2. /\ q \in Seq(Item) /\ Len(q) = Len(queue) - 1
        /\ \A j \in 1..(i - 1) : q[j] = queue[j]
        /\ \A j \in i..(Len(queue) - 1) : q[j] = queue[j + 1]
    BY <1>1, <2>1, RemoveAtFacts
  <2> HIDE DEF q
  <2>3. ASSUME NEW j \in 1..Len(q)
        PROVE  /\ from(j) \in 1..Len(queue) /\ q[j] = queue[from(j)] /\ from(j) # i
               /\ j > 1 => from(j) > 1
    BY <1>1, <2>1, <2>2
  <2>4. ASSUME NEW k \in 1..Len(queue), k # i
        PROVE  to(k) \in 1..Len(q) /\ q[to(k)] = queue[k]
    <3>1. CASE k < i
      BY <1>1, <2>1, <2>2, <3>1
    <3>2. CASE k > i
      BY <1>1, <2>1, <2>2, <3>2
    <3>3. QED BY <1>1, <2>4, <3>1, <3>2
  <2>5. q # <<>> /\ q[1] = queue[1]
    BY <1>1, <2>1, <2>2
  <2>6. ASSUME NEW j \in 2..Len(q) PROVE ~q[j].removed
    <3>1. j \in 1..Len(q) /\ from(j) \in 2..Len(queue)
      BY <1>1, <2>2, <2>3
    <3>2. QED BY <2>3, <3>1 DEF QueueFits
  <2>7. ASSUME NEW j \in 1..Len(q), NEW k \in 1..Len(q), q[j] = q[k] PROVE j = k
    <3>1. from(j) = from(k)
      BY SMTT(20), <2>3, <2>7 DEF QueueFits
    <3>2. QED BY <2>1, <2>2, <3>1
  <2>8. ~queue[i].removed /\ \A j \in 1..Len(q) : q[j] # queue[i]
    BY <2>1, <2>3 DEF QueueFits
  <2> HIDE DEF to, from
  <2>9. QED BY <1>1, <1>3, <2>1, <2>2, <2>3, <2>4, <2>5, <2>6, <2>7, <2>8
<1>4. QED BY <1>2, <1>3

\* What is queued, by its place.
LEMMA QueuedIs ==
    ASSUME TypeOK, NEW r \in Roots
    PROVE  Queued(r) <=> \E i \in 1..Len(queue) : queue[i] = ItemOf(r)
<1>1. DOMAIN queue = 1..Len(queue)
  BY TypeIs
<1>2. QED BY <1>1 DEF Queued, Range

-----------------------------------------------------------------------------
(* The player takes scans and roots away.                                  *)

\* A scan that is cancelled was given up by the player, also when it goes on a while.
LEMMA CancelKeeps ==
    ASSUME IInv, NEW i \in DOMAIN queue, Cancel(i)
    PROVE  IInv'
<1>1. /\ RemoveItem(i) /\ UNCHANGED <<db, folders, worker, main>>
      /\ used.cancels < MaxCancels /\ used' = [used EXCEPT !.cancels = @ + 1]
      /\ history' = IF queue[i].removed THEN history ELSE Dropped(queue[i].root)
  BY DEF Cancel
<1>2. /\ TypeOK /\ QueueFits /\ used \in Counters /\ queue \in Seq(Item)
      /\ history \in Past /\ i \in 1..Len(queue) /\ queue[i] \in Item
      /\ stop \in BOOLEAN
  BY TypeIs DEF IInv, Structure
<1>3. /\ used' \in Counters /\ used'.adds = used.adds /\ used'.exits = used.exits
      /\ used'.faults = used.faults
  <2>1. used.cancels + 1 \in 0..MaxCancels
    BY <1>1, <1>2, BoundAssumption DEF Counters
  <2>2. used' = [used EXCEPT !.cancels = used.cancels + 1]
    BY <1>1
  <2>3. QED BY <1>2, <2>1, <2>2 DEF Counters
<1>4. /\ history' \in Past /\ history'.told = history.told
      /\ history'.missed = history.missed /\ history.dropped \subseteq history'.dropped
      /\ ~queue[i].removed => queue[i].root \in history'.dropped
  BY <1>1, <1>2, ItemFacts DEF Past, Dropped
<1>5. /\ queue # <<>> /\ queue' \in Seq(Item) /\ queue' # <<>> /\ queue'[1] = queue[1]
      /\ \A j \in 2..Len(queue') : ~queue'[j].removed
      /\ \A j, k \in 1..Len(queue') : queue'[j] = queue'[k] => j = k
      /\ \A j \in 1..Len(queue') : \E k \in 1..Len(queue) : queue'[j] = queue[k]
      /\ \A k \in 1..Len(queue) :
            k # i => \E j \in 1..Len(queue') : queue'[j] = queue[k]
      /\ i = 1 => queue' = queue /\ stop' = TRUE
      /\ i # 1 => stop' = stop /\ ~queue[i].removed
  BY <1>1, <1>2, RemoveItemFacts
<1>6. /\ Listed' = Listed /\ HeadLive' = HeadLive /\ HeadGone' = HeadGone
      /\ stop' \in BOOLEAN /\ (stop => stop')
  <2>1. Listed' = Listed
    BY <1>1 DEF Listed
  <2>2. HeadLive' = HeadLive /\ HeadGone' = HeadGone
    BY <1>5 DEF HeadLive, HeadGone
  <2>3. stop' \in BOOLEAN /\ (stop => stop')
    <3>1. stop \in BOOLEAN /\ (stop' = TRUE \/ stop' = stop)
      BY <1>2, <1>5
    <3>2. QED BY <3>1
  <2>4. QED BY <2>1, <2>2, <2>3
<1>7. Structure'
  <2>1. TypeOK'
    BY <1>1, <1>2, <1>3, <1>4, <1>5, <1>6 DEF TypeOK, Counters, Past
  <2>2. QueueFits'
    <3>1. \A j \in 1..Len(queue') :
             ~queue'[j].removed => folders'[queue'[j].root] # "None"
      BY <1>1, <1>2, <1>5 DEF QueueFits
    <3>2. QED BY <1>1, <1>2, <1>5, <3>1 DEF QueueFits
  <2>3. RootsFit'
    BY <1>1, <1>3, <1>6 DEF IInv, Structure, RootsFit
  <2>4. QED BY <2>1, <2>2, <2>3 DEF Structure
<1>8. ScanFits' /\ GoneFits'
  BY <1>1, <1>3, <1>4, <1>6 DEF IInv, ScanFits, Missing, Known, GoneFits
<1>9. StopIsWanted'
  <2>1. HeadLive /\ i = 1 => worker.root \in history'.dropped
    BY <1>2, <1>4, <1>5 DEF HeadLive, QueueFits
  <2>2. QED BY <1>1, <1>4, <1>5, <1>6, <2>1 DEF IInv, StopIsWanted
<1>10. ChartsFit' /\ ScannedIsComplete' /\ ToldOfEveryChange'
  <2>1. ScannedIsComplete'
    BY <1>1, <1>3, <1>4 DEF IInv, ScannedIsComplete
  <2>2. ChartsFit'
    BY <1>1, <1>3, <1>6 DEF IInv, ChartsFit, Undisturbed, Remaining
  <2>3. QED BY <1>5, <2>1, <2>2 DEF ToldOfEveryChange
<1>11. NothingIsForgotten'
  <2>1. SUFFICES ASSUME main.at # "Quitting", NEW r \in Listed
                 PROVE  \/ folders[r] = "Scanned" \/ Queued(r)' \/ r \in history'.dropped
    BY <1>1, <1>6 DEF NothingIsForgotten
  <2>2. \/ folders[r] = "Scanned" \/ Queued(r) \/ r \in history.dropped
    BY <2>1 DEF IInv, NothingIsForgotten
  <2>3. CASE Queued(r)
    <3>1. PICK k \in 1..Len(queue) : queue[k] = ItemOf(r)
      BY <1>2, <2>1, <2>3, QueuedIs DEF Listed
    <3>2. CASE k # i
      <4>1. PICK j \in 1..Len(queue') : queue'[j] = ItemOf(r)
        BY <1>5, <3>1, <3>2
      <4>2. DOMAIN queue' = 1..Len(queue')
        BY <1>5
      <4>3. QED BY <4>1, <4>2 DEF Queued, Range, ItemOf
    <3>3. CASE k = i
      BY <1>4, <2>1, <3>1, <3>3, ItemFacts DEF Listed
    <3>4. QED BY <3>2, <3>3
  <2>4. QED BY <1>4, <2>2, <2>3
<1>12. QED BY <1>7, <1>8, <1>9, <1>10, <1>11 DEF IInv

\* What remove() leaves of the queue: no live item of the root, and nothing else is lost.
LEMMA RemoveRootQueue ==
    ASSUME TypeOK, QueueFits, NEW r \in Roots, RemoveRoot(r)
    PROVE  /\ queue' \in Seq(Item) /\ stop' \in BOOLEAN
           /\ queue = <<>> => queue' = <<>> /\ stop' = stop
           /\ queue # <<>> =>
                 /\ queue' # <<>> /\ queue'[1].root = queue[1].root
                 /\ IF queue[1] = ItemOf(r) THEN queue'[1].removed /\ stop' = TRUE
                    ELSE queue'[1] = queue[1] /\ stop' = stop
           /\ \A j \in 2..Len(queue') : ~queue'[j].removed
           /\ \A j, k \in 1..Len(queue') : queue'[j] = queue'[k] => j = k
           /\ \A j \in 1..Len(queue') : ~queue'[j].removed =>
                 /\ queue'[j] # ItemOf(r)
                 /\ \E k \in 1..Len(queue) : queue'[j] = queue[k]
           /\ \A k \in 1..Len(queue) :
                 queue[k] # ItemOf(r) /\ ~queue[k].removed =>
                    \E j \in 1..Len(queue') : queue'[j] = queue[k]
<1> DEFINE here == {i \in DOMAIN queue : queue[i] = ItemOf(r)}
<1>1. /\ here = {} => queue' = queue /\ stop' = stop
      /\ 1 \in here => queue' = [queue EXCEPT ![1].removed = TRUE] /\ stop' = TRUE
      /\ here # {} /\ 1 \notin here => \E i \in here : RemoveItem(i)
  BY DEF RemoveRoot
<1>2. /\ queue \in Seq(Item) /\ DOMAIN queue = 1..Len(queue) /\ Len(queue) \in Nat
      /\ stop \in BOOLEAN
  BY TypeIs
<1>3. CASE here = {}
  <2>1. queue' = queue /\ stop' = stop
    BY <1>1, <1>3
  <2>2. \A j \in 1..Len(queue) : queue[j] # ItemOf(r)
    BY <1>2, <1>3
  <2>3. queue # <<>> => 1 \in 1..Len(queue)
    BY <1>2
  <2>4. QED BY <1>2, <2>1, <2>2, <2>3 DEF QueueFits
<1>4. CASE 1 \in here
  <2>1. /\ queue' = [queue EXCEPT ![1].removed = TRUE] /\ stop' = TRUE
        /\ queue[1] = ItemOf(r) /\ 1 \in 1..Len(queue) /\ queue # <<>>
    BY <1>1, <1>2, <1>4
  <2>2. PICK x \in Item : /\ x.root = queue[1].root /\ x.removed
                          /\ queue' = [queue EXCEPT ![1] = x]
    <3>1. ASSUME NEW y \in Item
          PROVE  /\ [y EXCEPT !.removed = TRUE] \in Item
                 /\ [y EXCEPT !.removed = TRUE].root = y.root
                 /\ [y EXCEPT !.removed = TRUE].removed = TRUE
      BY DEF Item
    <3>2. queue[1] \in Item
      BY <1>2, <2>1
    <3>3. queue' = [queue EXCEPT ![1] = [queue[1] EXCEPT !.removed = TRUE]]
      BY <2>1
    <3>4. QED BY <3>1, <3>2, <3>3
  <2>4. /\ queue' \in Seq(Item) /\ Len(queue') = Len(queue) /\ queue'[1] = x
        /\ \A j \in 2..Len(queue) : queue'[j] = queue[j]
    <3>1. \A j \in 2..Len(queue) : j \in 1..Len(queue) /\ j # 1
      BY <1>2
    <3> DEFINE q == [queue EXCEPT ![1] = x]
    <3>2. /\ q \in Seq(Item) /\ Len(q) = Len(queue)
          /\ \A j \in 1..Len(queue) : q[j] = IF j = 1 THEN x ELSE queue[j]
      BY <1>2, <2>1, ExceptSeq
    <3> HIDE DEF q
    <3>3. queue' = q
      BY <2>2 DEF q
    <3>4. QED BY <2>1, <3>1, <3>2, <3>3
  <2>5. queue' # <<>>
    BY <1>2, <2>1, <2>4
  <2>6. \A j \in 2..Len(queue') : ~queue'[j].removed /\ queue'[j] # x
    BY <2>2, <2>4 DEF QueueFits
  <2>7. \A j \in 1..Len(queue) : j = 1 \/ j \in 2..Len(queue)
    BY <1>2
  <2>8. ASSUME NEW j \in 1..Len(queue'), NEW k \in 1..Len(queue'), queue'[j] = queue'[k]
        PROVE  j = k
    BY <2>4, <2>6, <2>7, <2>8 DEF QueueFits
  <2>9. ASSUME NEW j \in 1..Len(queue'), ~queue'[j].removed
        PROVE  /\ queue'[j] # ItemOf(r)
               /\ \E k \in 1..Len(queue) : queue'[j] = queue[k]
    <3>1. j \in 2..Len(queue) /\ j \in 1..Len(queue) /\ queue'[j] = queue[j] /\ j # 1
      BY <2>2, <2>4, <2>7, <2>9
    <3>2. QED BY <2>1, <3>1 DEF QueueFits
  <2>10. ASSUME NEW k \in 1..Len(queue), queue[k] # ItemOf(r)
         PROVE  \E j \in 1..Len(queue') : queue'[j] = queue[k]
    BY <2>1, <2>4, <2>7, <2>10
  <2>11. QED BY <2>1, <2>2, <2>4, <2>5, <2>6, <2>8, <2>9, <2>10
<1>5. CASE here # {} /\ 1 \notin here
  <2>1. PICK i \in here : RemoveItem(i)
    BY <1>1, <1>5
  <2>2. i \in 1..Len(queue) /\ i # 1 /\ queue[i] = ItemOf(r)
    BY <1>2, <1>5, <2>1
  <2>3. queue[1] # ItemOf(r)
    BY <1>2, <1>5, <2>2
  <2>4. \A k \in 1..Len(queue) : queue[k] # ItemOf(r) => k # i
    BY <2>2
  <2>5. QED BY <1>2, <2>1, <2>2, <2>3, <2>4, RemoveItemFacts
<1>6. QED BY <1>3, <1>4, <1>5

\* remove() lets the scan under way go on as one of a root that is gone; its charts
\* wait for it, or for the rest of remove().
LEMMA RemoveRootKeeps ==
    ASSUME IInv, NEW r \in Roots, RemoveRoot(r)
    PROVE  IInv'
<1>1. /\ main.at = "Idle" /\ r \in Listed /\ UNCHANGED <<worker, used>>
      /\ db' = [db EXCEPT !.root[r] = "None"] /\ folders' = [folders EXCEPT ![r] = "None"]
      /\ main' = [at |-> "Removing", root |-> r] /\ history' = Accepted(r)
  BY DEF RemoveRoot
<1>2. /\ TypeOK /\ QueueFits /\ db \in Database /\ folders \in [Roots -> Status]
      /\ history \in Past /\ queue \in Seq(Item) /\ worker \in Scan
  BY TypeIs DEF IInv, Structure
<1>3. /\ folders' \in [Roots -> Status] /\ folders'[r] = "None"
      /\ \A s \in Roots : s # r => folders'[s] = folders[s]
  BY <1>1, <1>2 DEF Status
<1>4. /\ db' \in Database /\ db'.charts = db.charts /\ db'.root[r] = "None"
      /\ \A s \in Roots : s # r => db'.root[s] = db.root[s]
  <2> DEFINE g == [db.root EXCEPT ![r] = "None"]
  <2>1. /\ g \in [Roots -> Status] /\ g[r] = "None"
        /\ \A s \in Roots : s # r => g[s] = db.root[s]
    BY <1>2 DEF Database, Status
  <2>2. db' = [db EXCEPT !.root = g]
    BY <1>1
  <2> HIDE DEF g
  <2>3. db' \in Database /\ db'.root = g /\ db'.charts = db.charts
    BY <1>2, <2>1, <2>2 DEF Database
  <2>4. QED BY <2>1, <2>3
<1>5. /\ history' \in Past /\ history'.told = history.told
      /\ history'.missed = history.missed /\ history'.dropped = history.dropped \ {r}
  BY <1>1, <1>2 DEF Past, Accepted
<1>6. Listed' = Listed \ {r}
  BY <1>3 DEF Listed
<1> DEFINE Kept ==
      /\ queue' \in Seq(Item) /\ stop' \in BOOLEAN
      /\ queue = <<>> => queue' = <<>> /\ stop' = stop
      /\ queue # <<>> =>
            /\ queue' # <<>> /\ queue'[1].root = queue[1].root
            /\ IF queue[1] = ItemOf(r) THEN queue'[1].removed /\ stop' = TRUE
               ELSE queue'[1] = queue[1] /\ stop' = stop
      /\ \A j \in 2..Len(queue') : ~queue'[j].removed
      /\ \A j, k \in 1..Len(queue') : queue'[j] = queue'[k] => j = k
      /\ \A j \in 1..Len(queue') : ~queue'[j].removed =>
            /\ queue'[j] # ItemOf(r)
            /\ \E k \in 1..Len(queue) : queue'[j] = queue[k]
      /\ \A k \in 1..Len(queue) : queue[k] # ItemOf(r) /\ ~queue[k].removed =>
            \E j \in 1..Len(queue') : queue'[j] = queue[k]
<1>7. Kept
  BY <1>2, RemoveRootQueue
\* The head goes on as it was, or it is the one that is removed.
<1>8. /\ HeadLive' => HeadLive /\ worker.root # r /\ stop' = stop
      /\ HeadGone => HeadGone' /\ stop' = stop
      /\ HeadGone' => \/ HeadGone /\ stop' = stop
                      \/ HeadLive /\ worker.root = r /\ stop' = TRUE
  <2>1. CASE queue = <<>>
    BY <1>7, <2>1 DEF HeadLive, HeadGone
  <2>2. CASE queue # <<>> /\ queue[1] = ItemOf(r)
    <3>1. ~queue[1].removed /\ queue[1].root = r
      BY <2>2, ItemFacts
    <3>2. queue' # <<>> /\ queue'[1].removed /\ stop' = TRUE
      BY <1>7, <2>2
    <3>3. worker.root = r
      BY <1>2, <2>2, <3>1 DEF QueueFits
    <3>4. QED BY <2>2, <3>1, <3>2, <3>3 DEF HeadLive, HeadGone
  <2>3. CASE queue # <<>> /\ queue[1] # ItemOf(r)
    <3>1. /\ queue' # <<>> /\ queue'[1] = queue[1] /\ stop' = stop
      BY <1>7, <2>3
    <3>2. ~queue[1].removed => worker.root # r
      BY <1>2, <2>3, HeadFacts, ItemFacts DEF QueueFits
    <3>3. QED BY <2>3, <3>1, <3>2 DEF HeadLive, HeadGone
  <2>4. QED BY <2>1, <2>2, <2>3
<1>9. Structure'
  <2>1. main' \in [at : {"Idle", "Removing", "Quitting"}, root : Roots]
        /\ main'.at = "Removing" /\ main'.root = r
    BY <1>1
  <2>2. TypeOK'
    BY <1>1, <1>2, <1>3, <1>4, <1>5, <1>7, <2>1 DEF TypeOK, Past, Database
  <2>3. QueueFits'
    <3>1. ASSUME NEW j \in 1..Len(queue'), ~queue'[j].removed
          PROVE  folders'[queue'[j].root] # "None"
      <4>1. PICK k \in 1..Len(queue) : queue'[j] = queue[k] /\ queue[k] # ItemOf(r)
        BY <1>7, <3>1
      <4>2. queue[k] \in Item /\ ~queue[k].removed
        BY <1>2, <3>1, <4>1
      <4>3. queue[k].root \in Roots /\ queue[k].root # r
        BY <4>1, <4>2, ItemFacts
      <4>4. QED BY <1>2, <1>3, <4>1, <4>2, <4>3 DEF QueueFits
    <3>2. stop' => queue' # <<>>
      BY <1>2, <1>7 DEF QueueFits
    <3>3. queue' = <<>> <=> queue = <<>>
      BY <1>7
    <3>4. QED BY <1>1, <1>2, <1>7, <3>1, <3>2, <3>3 DEF QueueFits
  <2>4. RootsFit'
    <3>1. \A s \in Roots : db'.root[s] = "None" <=> folders'[s] = "None"
      BY <1>3, <1>4 DEF IInv, Structure, RootsFit
    <3>2. \A s \in Listed' : ~Overlaps(s, r)
      BY <1>1, <1>6 DEF IInv, Structure, RootsFit
    <3>3. QED BY <1>1, <1>6, <2>1, <3>1, <3>2 DEF IInv, Structure, RootsFit
  <2>5. QED BY <2>2, <2>3, <2>4 DEF Structure
<1>10. worker.root \in Roots
  BY <1>2 DEF Scan
<1>11. ScanFits'
  <2>1. HeadLive' => /\ folders'[worker.root] = folders[worker.root]
                     /\ db'.root[worker.root] = db.root[worker.root]
    BY <1>3, <1>4, <1>8, <1>10
  <2>2. QED BY <1>1, <1>4, <1>5, <1>8, <2>1 DEF IInv, ScanFits, Missing, Known
<1>12. GoneFits'
  <2>1. SUFFICES ASSUME HeadGone' PROVE GoneFits'
    BY DEF GoneFits
  <2>2. \A s \in Listed' : s \in Roots /\ s # r
    BY <1>6 DEF Listed
  <2>3. CASE HeadGone /\ stop' = stop
    <3>1. \A s \in Listed' : folders'[s] = folders[s] /\ db'.root[s] = db.root[s]
      BY <1>3, <1>4, <2>2
    <3>2. QED BY <1>1, <1>6, <2>3, <3>1 DEF IInv, GoneFits
  <2>4. CASE HeadLive /\ worker.root = r /\ stop' = TRUE
    <3>1. \A s \in Listed' : s # worker.root /\ ~Overlaps(s, worker.root)
      BY <1>1, <1>6, <2>4 DEF IInv, Structure, RootsFit
    <3>2. used.adds[worker.root] >= 1 /\ worker.root \notin Listed'
      BY <1>1, <1>6, <2>4 DEF IInv, Structure, RootsFit
    <3>3. QED BY <1>1, <2>4, <3>1, <3>2 DEF GoneFits
  <2>5. QED BY <1>8, <2>1, <2>3, <2>4
<1>13. StopIsWanted'
  BY <1>1, <1>5, <1>8, <1>10 DEF IInv, StopIsWanted
<1>14. ChartsFit'
  <2>1. SUFFICES ASSUME Undisturbed, NEW c \in db.charts PROVE Remaining(c)'
    BY <1>1, <1>4 DEF ChartsFit, Undisturbed
  <2>2. Remaining(c)
    BY <2>1 DEF IInv, ChartsFit
  <2>3. \/ \E s \in Listed' : c \in Below[s]
        \/ c \in Below[r]
        \/ HeadGone /\ c \in Below[worker.root] /\ worker.at \in Early
    BY <1>1, <1>6, <2>2 DEF Remaining, Early
  <2>4. QED BY <1>1, <1>8, <2>3 DEF Remaining, Early
<1>15. ScannedIsComplete'
  <2>1. ASSUME NEW s \in Roots PROVE Complete(s)'
    <3>1. CASE s = r
      BY <1>3, <1>4, <3>1 DEF Complete, Known
    <3>2. CASE s # r
      <4>1. Complete(s)
        BY DEF IInv, ScannedIsComplete, Complete, Known
      <4>2. QED BY <1>1, <1>3, <1>4, <1>5, <3>2, <4>1 DEF Complete, Known
    <3>3. QED BY <3>1, <3>2
  <2>2. QED BY <2>1 DEF ScannedIsComplete, Complete, Known
<1>16. ToldOfEveryChange'
  BY <1>1 DEF ToldOfEveryChange
<1>17. NothingIsForgotten'
  <2>1. SUFFICES ASSUME NEW s \in Listed'
                 PROVE  \/ folders'[s] = "Scanned" \/ Queued(s)' \/ s \in history'.dropped
    BY DEF NothingIsForgotten
  <2>2. s \in Listed /\ s # r /\ s \in Roots
    BY <1>6, <2>1 DEF Listed
  <2>3. folders[s] = "Scanned" \/ Queued(s) \/ s \in history.dropped
    BY <1>1, <2>2 DEF IInv, NothingIsForgotten
  <2>4. CASE Queued(s)
    <3>1. PICK k \in 1..Len(queue) : queue[k] = ItemOf(s)
      BY <1>2, <2>2, <2>4, QueuedIs
    <3>2. queue[k] # ItemOf(r) /\ ~queue[k].removed
      BY <2>2, <3>1, ItemFacts
    <3>3. PICK j \in 1..Len(queue') : queue'[j] = ItemOf(s)
      BY <1>7, <3>1, <3>2
    <3>4. DOMAIN queue' = 1..Len(queue')
      BY <1>7
    <3>5. QED BY <3>3, <3>4 DEF Queued, Range, ItemOf
  <2>5. QED BY <1>3, <1>5, <2>2, <2>3, <2>4
<1>18. QED BY <1>9, <1>11, <1>12, <1>13, <1>14, <1>15, <1>16, <1>17 DEF IInv

-----------------------------------------------------------------------------
(* The end of a scan, and the next one.                                    *)

\* What is left of the queue moves up; the head was its only item that could have been
\* removed.
LEMMA TailFacts ==
    ASSUME TypeOK, QueueFits, queue # <<>>, queue' = Tail(queue)
    PROVE  /\ queue' \in Seq(Item)
           /\ \A j \in 1..Len(queue') : ~queue'[j].removed
           /\ \A j, k \in 1..Len(queue') : queue'[j] = queue'[k] => j = k
           /\ \A j \in 1..Len(queue') : /\ queue'[j] # queue[1]
                                        /\ \E k \in 1..Len(queue) : queue'[j] = queue[k]
           /\ \A k \in 1..Len(queue) :
                 k # 1 => \E j \in 1..Len(queue') : queue'[j] = queue[k]
<1>1. queue \in Seq(Item) /\ Len(queue) \in Nat
  BY TypeIs
<1>2. /\ queue' \in Seq(Item) /\ Len(queue') = Len(queue) - 1
      /\ \A j \in 1..Len(queue') : queue'[j] = queue[j + 1]
  BY <1>1, HeadTailProperties
<1>3. \A j \in 1..Len(queue') :
         j + 1 \in 2..Len(queue) /\ j + 1 \in 1..Len(queue) /\ j + 1 # 1
  BY <1>1, <1>2
<1>4. \A j \in 1..Len(queue') : ~queue'[j].removed
  BY <1>2, <1>3 DEF QueueFits
<1>5. ASSUME NEW j \in 1..Len(queue'), NEW k \in 1..Len(queue'), queue'[j] = queue'[k]
      PROVE  j = k
  <2>1. j + 1 = k + 1
    BY <1>2, <1>3, <1>5 DEF QueueFits
  <2>2. QED BY <1>1, <1>2, <2>1
<1>6. \A j \in 1..Len(queue') :
         queue'[j] # queue[1] /\ \E k \in 1..Len(queue) : queue'[j] = queue[k]
  <2>1. 1 \in 1..Len(queue)
    BY <1>1
  <2>2. QED BY <1>2, <1>3, <2>1 DEF QueueFits
<1>7. ASSUME NEW k \in 1..Len(queue), k # 1
      PROVE  \E j \in 1..Len(queue') : queue'[j] = queue[k]
  <2>1. k - 1 \in 1..Len(queue') /\ (k - 1) + 1 = k
    BY <1>1, <1>2, <1>7
  <2>2. QED BY <1>2, <2>1
<1>8. QED BY <1>2, <1>4, <1>5, <1>6, <1>7

\* A scan that ends well has every chart; one that does not was given up, or failed and
\* is counted as dropped.  The next is of a root that is listed.
LEMMA FinishedKeeps ==
    ASSUME IInv, Finished
    PROVE  IInv'
<1> DEFINE shown == StatusShown(folders, Head(queue), worker.result)
           settled == Settled(Head(queue))
           w == worker.root
<1>1. /\ main.at = "Idle" /\ worker.at = "Done" /\ stop' = FALSE /\ queue' = Tail(queue)
      /\ queue' = <<>> => /\ worker' = NoScan /\ folders' = shown
                          /\ history' = [settled EXCEPT !.told = db.charts]
      /\ queue' # <<>> => /\ worker' = ScanOf(Head(queue'))
                          /\ folders' = StatusShown(shown, Head(queue'), "InProgress")
                          /\ history' = settled
      /\ UNCHANGED <<db, main, used>>
  BY DEF Finished
<1>2. /\ TypeOK /\ QueueFits /\ db \in Database /\ folders \in [Roots -> Status]
      /\ history \in Past /\ queue \in Seq(Item) /\ worker \in Scan /\ w \in Roots
      /\ worker.result \in {"NotScanned", "Scanned"}
  BY TypeIs DEF IInv, Structure, Scan
<1>3. /\ queue # <<>> /\ queue[1] \in Item /\ Head(queue) = queue[1] /\ queue[1].root = w
      /\ 1 \in 1..Len(queue)
  BY <1>1, <1>2, HeadFacts DEF QueueFits
<1>4. /\ queue' \in Seq(Item)
      /\ \A j \in 1..Len(queue') : ~queue'[j].removed
      /\ \A j, k \in 1..Len(queue') : queue'[j] = queue'[k] => j = k
      /\ \A j \in 1..Len(queue') : /\ queue'[j] # queue[1]
                                   /\ \E k \in 1..Len(queue) : queue'[j] = queue[k]
      /\ \A k \in 1..Len(queue) :
            k # 1 => \E j \in 1..Len(queue') : queue'[j] = queue[k]
  BY <1>1, <1>2, <1>3, TailFacts
<1>5. /\ shown \in [Roots -> Status]
      /\ \A s \in Roots : s # w \/ queue[1].removed => shown[s] = folders[s]
      /\ ~queue[1].removed => shown[w] = worker.result
  BY <1>2, <1>3 DEF StatusShown, Status
<1>6. /\ settled \in Past /\ settled.told = history.told /\ settled.missed = history.missed
      /\ history.dropped \subseteq settled.dropped
      /\ ~queue[1].removed /\ worker.result # "Scanned" /\ ~stop => w \in settled.dropped
  BY <1>2, <1>3 DEF Settled, Dropped, Past
<1> HIDE DEF shown, settled
\* The next item.
<1>7. ASSUME queue' # <<>>
      PROVE  /\ queue'[1] \in Item /\ Head(queue') = queue'[1] /\ 1 \in 1..Len(queue')
             /\ ~queue'[1].removed /\ queue'[1].root \in Listed
             /\ worker' \in Scan /\ worker'.at = "Begin" /\ worker'.root = queue'[1].root
             /\ worker'.unread = {} /\ worker'.loading = {}
             /\ worker'.result = "NotScanned"
             /\ folders' = [shown EXCEPT ![queue'[1].root] = "InProgress"]
  <2>1. queue'[1] \in Item /\ Head(queue') = queue'[1] /\ 1 \in 1..Len(queue')
    BY <1>4, <1>7
  <2>2. ~queue'[1].removed /\ queue'[1].root \in Roots
    BY <1>4, <2>1, ItemFacts
  <2>3. folders[queue'[1].root] # "None"
    <3>1. PICK k \in 1..Len(queue) : queue'[1] = queue[k]
      BY <1>4, <2>1
    <3>2. QED BY <1>2, <2>2, <3>1 DEF QueueFits
  <2> DEFINE x == queue'[1]
  <2>4. worker' = ScanOf(x) /\ x \in Item
    BY <1>1, <1>7, <2>1
  <2> HIDE DEF x
  <2>5. /\ worker' \in Scan /\ worker'.at = "Begin" /\ worker'.root = x.root
        /\ worker'.unread = {} /\ worker'.loading = {} /\ worker'.result = "NotScanned"
    BY <2>4, ScanOfFacts
  <2>6. folders' = [shown EXCEPT ![queue'[1].root] = "InProgress"]
    BY <1>1, <1>7, <2>1, <2>2 DEF StatusShown
  <2>7. QED BY <2>1, <2>2, <2>3, <2>5, <2>6 DEF Listed, x
\* What the settings show now.
<1>8. /\ folders' \in [Roots -> Status]
      /\ \A s \in Roots : \/ folders'[s] = folders[s] /\ (s # w \/ queue[1].removed)
                          \/ s = w /\ ~queue[1].removed /\ folders'[s] = worker.result
                          \/ /\ queue' # <<>> /\ s = queue'[1].root
                             /\ folders'[s] = "InProgress"
      /\ queue' # <<>> => folders'[queue'[1].root] = "InProgress"
  <2>1. CASE queue' = <<>>
    BY <1>1, <1>5, <2>1
  <2>2. CASE queue' # <<>>
    <3>1. PICK y \in Roots : y = queue'[1].root /\ folders' = [shown EXCEPT ![y] = "InProgress"]
      BY <1>7, <2>2 DEF Listed
    <3>2. /\ folders' \in [Roots -> Status] /\ folders'[y] = "InProgress"
          /\ \A s \in Roots : s # y => folders'[s] = shown[s]
      BY <1>5, <3>1 DEF Status
    <3>3. QED BY <1>5, <2>2, <3>1, <3>2
  <2>3. QED BY <2>1, <2>2
<1>9. Listed' = Listed
  <2>1. ~queue[1].removed => w \in Listed
    BY <1>2, <1>3 DEF QueueFits, Listed
  <2>2. ASSUME NEW s \in Roots PROVE folders'[s] # "None" <=> folders[s] # "None"
    BY <1>2, <1>7, <1>8, <2>1 DEF Listed
  <2>3. QED BY <2>2 DEF Listed
<1>10. /\ history' \in Past /\ history'.missed = history.missed
       /\ history'.dropped = settled.dropped
       /\ queue' = <<>> => history'.told = db.charts
  <2>1. db.charts \in SUBSET Charts
    BY <1>2 DEF Database
  <2>2. QED BY <1>1, <1>6, <2>1 DEF Past
<1>11. /\ worker' \in Scan /\ (queue' = <<>> <=> worker'.at = "Idle")
       /\ queue' # <<>> => worker'.at = "Begin" /\ worker'.root = queue'[1].root
       /\ worker'.unread = {} /\ worker'.loading = {}
  BY <1>1, <1>7, NoScanFacts
<1>12. Structure'
  <2>1. TypeOK'
    BY <1>1, <1>2, <1>4, <1>8, <1>10, <1>11 DEF TypeOK, Past, Scan
  <2>2. QueueFits'
    <3>1. ASSUME NEW j \in 1..Len(queue') PROVE folders'[queue'[j].root] # "None"
      <4>1. PICK k \in 1..Len(queue) : queue'[j] = queue[k]
        BY <1>4
      <4>2. queue[k] \in Item /\ ~queue[k].removed
        BY <1>2, <1>4, <4>1
      <4>3. queue[k].root \in Roots /\ folders[queue[k].root] # "None"
        BY <1>2, <4>2, ItemFacts DEF QueueFits
      <4>4. queue'[j].root \in Listed'
        BY <1>9, <4>1, <4>3 DEF Listed
      <4>5. QED BY <4>4 DEF Listed
    <3>2. \A j \in 2..Len(queue') : ~queue'[j].removed
      BY <1>4
    <3>3. QED BY <1>1, <1>4, <1>11, <3>1, <3>2 DEF QueueFits
  <2>3. RootsFit'
    <3>1. \A s \in Roots : db'.root[s] = "None" <=> folders'[s] = "None"
      <4>1. \A s \in Roots : folders'[s] # "None" <=> folders[s] # "None"
        BY <1>9 DEF Listed
      <4>2. QED BY <1>1, <4>1 DEF IInv, Structure, RootsFit
    <3>2. QED BY <1>1, <1>9, <3>1 DEF IInv, Structure, RootsFit
  <2>4. QED BY <2>1, <2>2, <2>3 DEF Structure
<1>13. ~HeadGone'
  BY <1>4, <1>7 DEF HeadGone
<1>14. ScanFits'
  <2>1. worker'.unread \cup worker'.loading \subseteq Below[worker'.root]
    BY <1>11
  <2>2. CASE queue' = <<>>
    BY <1>11, <2>1, <2>2 DEF ScanFits, HeadLive
  <2>3. CASE queue' # <<>>
    BY <1>8, <1>11, <2>1, <2>3 DEF ScanFits
  <2>4. QED BY <2>2, <2>3
<1>15. GoneFits' /\ StopIsWanted'
  BY <1>1, <1>13 DEF GoneFits, StopIsWanted
<1>16. ChartsFit'
  <2>1. SUFFICES ASSUME Undisturbed, NEW c \in db.charts PROVE Remaining(c)'
    BY <1>1 DEF ChartsFit, Undisturbed
  <2>2. Remaining(c)
    BY <2>1 DEF IInv, ChartsFit
  <2>3. \E s \in Listed : c \in Below[s]
    BY <1>1, <2>2 DEF Remaining
  <2>4. QED BY <1>9, <2>3 DEF Remaining
<1>17. ScannedIsComplete'
  <2>1. ASSUME NEW s \in Roots PROVE Complete(s)'
    <3>1. Complete(s)
      BY DEF IInv, ScannedIsComplete, Complete, Known
    <3>2. CASE folders'[s] = folders[s]
      BY <1>1, <1>10, <3>1, <3>2 DEF Complete, Known
    <3>3. CASE folders'[s] # "Scanned"
      BY <1>1, <1>10, <3>1, <3>3 DEF Complete, Known
    <3>4. CASE s = w /\ ~queue[1].removed /\ worker.result = "Scanned"
      <4>1. Below[s] \subseteq Known
        BY <1>1, <1>3, <3>4 DEF IInv, ScanFits, HeadLive, Missing, Known
      <4>2. QED BY <1>1, <1>10, <4>1 DEF Complete, Known
    <3>5. QED BY <1>2, <1>8, <3>2, <3>3, <3>4
  <2>2. QED BY <2>1 DEF ScannedIsComplete, Complete, Known
<1>18. ToldOfEveryChange'
  BY <1>1, <1>10 DEF ToldOfEveryChange
<1>19. NothingIsForgotten'
  <2>1. SUFFICES ASSUME NEW s \in Listed
                 PROVE  \/ folders'[s] = "Scanned" \/ Queued(s)' \/ s \in history'.dropped
    BY <1>9 DEF NothingIsForgotten
  <2>2. s \in Roots /\ (folders[s] = "Scanned" \/ Queued(s) \/ s \in history.dropped)
    BY <1>1, <2>1 DEF IInv, NothingIsForgotten, Listed
  <2>3. DOMAIN queue' = 1..Len(queue')
    BY <1>4
  <2>4. CASE Queued(s)
    <3>1. PICK k \in 1..Len(queue) : queue[k] = ItemOf(s)
      BY <1>2, <2>2, <2>4, QueuedIs
    <3>2. CASE k # 1
      <4>1. PICK j \in 1..Len(queue') : queue'[j] = ItemOf(s)
        BY <1>4, <3>1, <3>2
      <4>2. QED BY <2>3, <4>1 DEF Queued, Range, ItemOf
    <3>3. CASE k = 1
      <4>1. s = w /\ ~queue[1].removed
        BY <1>3, <2>2, <3>1, <3>3, ItemFacts
      <4>2. CASE worker.result = "Scanned"
        <5>1. ASSUME queue' # <<>>, s = queue'[1].root PROVE FALSE
          BY <1>4, <1>7, <2>2, <3>1, <3>3, <5>1, ItemFacts
        <5>2. QED BY <1>8, <2>2, <4>1, <4>2, <5>1
      <4>3. CASE worker.result # "Scanned"
        <5>1. stop => w \in history.dropped
          BY <1>1, <1>3, <4>1 DEF IInv, StopIsWanted, HeadLive
        <5>2. QED BY <1>6, <1>10, <4>1, <4>3, <5>1
      <4>4. QED BY <4>2, <4>3
    <3>4. QED BY <3>2, <3>3
  <2>5. CASE folders[s] = "Scanned"
    <3>1. ASSUME queue' # <<>>, s = queue'[1].root PROVE Queued(s)'
      <4>1. queue'[1] = ItemOf(s) /\ 1 \in 1..Len(queue')
        BY <1>7, <3>1, ItemFacts
      <4>2. QED BY <2>3, <4>1 DEF Queued, Range, ItemOf
    <3>2. ~(s = w /\ ~queue[1].removed)
      BY <1>3, <2>5 DEF IInv, ScanFits, HeadLive
    <3>3. QED BY <1>8, <2>2, <2>5, <3>1, <3>2
  <2>6. QED BY <1>6, <1>10, <2>2, <2>4, <2>5
<1>20. QED BY <1>12, <1>14, <1>15, <1>16, <1>17, <1>18, <1>19 DEF IInv

-----------------------------------------------------------------------------
(* The player adds roots and asks for scans.                               *)

LEMMA AppendFacts ==
    ASSUME TypeOK, QueueFits, NEW r \in Roots, ~Queued(r),
           queue' = Append(queue, ItemOf(r))
    PROVE  /\ queue' \in Seq(Item) /\ queue' # <<>> /\ Len(queue') = Len(queue) + 1
           /\ \A j \in 1..Len(queue) : queue'[j] = queue[j]
           /\ queue'[Len(queue) + 1] = ItemOf(r)
           /\ \A j \in 2..Len(queue') : ~queue'[j].removed
           /\ \A j, k \in 1..Len(queue') : queue'[j] = queue'[k] => j = k
           /\ \A j \in 1..Len(queue') :
                 queue'[j] = ItemOf(r) \/ \E k \in 1..Len(queue) : queue'[j] = queue[k]
           /\ queue # <<>> => queue'[1] = queue[1]
           /\ queue = <<>> => queue'[1] = ItemOf(r)
           /\ \A s \in Roots : Queued(s) \/ s = r => Queued(s)'
<1> DEFINE n == Len(queue)
<1>1. /\ queue \in Seq(Item) /\ n \in Nat /\ ItemOf(r) \in Item /\ ~ItemOf(r).removed
      /\ queue = <<>> <=> n = 0
  BY TypeIs, ItemFacts
<1>2. /\ queue' \in Seq(Item) /\ Len(queue') = n + 1
      /\ \A j \in 1..n : queue'[j] = queue[j]
      /\ queue'[n + 1] = ItemOf(r)
  BY <1>1, AppendProperties
<1>3. \A j \in 1..n : queue[j] # ItemOf(r)
  BY QueuedIs
<1> HIDE DEF n
<1>4. \A j \in 1..Len(queue') : j \in 1..n \/ j = n + 1
  BY <1>1, <1>2
<1>5. \A j, k \in 1..n : queue[j] = queue[k] => j = k
  BY DEF QueueFits, n
<1>6. \A j \in 2..n : ~queue[j].removed
  BY DEF QueueFits, n
<1>7. ASSUME NEW j \in 2..Len(queue') PROVE ~queue'[j].removed
  <2>1. j \in 1..Len(queue') /\ ((j \in 2..n /\ j \in 1..n) \/ j = n + 1)
    BY <1>1, <1>2
  <2>2. QED BY <1>1, <1>2, <1>6, <2>1
<1>8. ASSUME NEW j \in 1..Len(queue'), NEW k \in 1..Len(queue'), queue'[j] = queue'[k]
      PROVE  j = k
  BY <1>2, <1>3, <1>4, <1>5, <1>8
<1>9. queue' # <<>>
  BY <1>1, <1>2
<1>10. /\ queue # <<>> => queue'[1] = queue[1]
       /\ queue = <<>> => queue'[1] = ItemOf(r)
  BY <1>1, <1>2
<1>11. ASSUME NEW s \in Roots, Queued(s) \/ s = r PROVE Queued(s)'
  <2>1. DOMAIN queue' = 1..Len(queue')
    BY <1>2
  <2>2. PICK j \in 1..Len(queue') : queue'[j] = ItemOf(s)
    <3>1. CASE s = r
      BY <1>1, <1>2, <3>1
    <3>2. CASE Queued(s)
      <4>1. PICK k \in 1..n : queue[k] = ItemOf(s)
        BY <3>2, QueuedIs DEF n
      <4>2. QED BY <1>1, <1>2, <4>1
    <3>3. QED BY <1>11, <3>1, <3>2
  <2>3. QED BY <2>1, <2>2 DEF Queued, Range, ItemOf
<1>12. \A j \in 1..Len(queue') :
          queue'[j] = ItemOf(r) \/ \E k \in 1..n : queue'[j] = queue[k]
  BY <1>2, <1>4
<1>13. QED BY <1>1, <1>2, <1>7, <1>8, <1>9, <1>10, <1>11, <1>12 DEF n

\* A scan that is asked for goes to the end of the queue, or begins.  Either the root is
\* listed already, or it is new and overlaps none that is.
LEMMA ScanFolderKeeps ==
    ASSUME IInv, NEW r \in Roots, NEW f \in [Roots -> Status],
           ScanFolder(r, f), ~Queued(r), main.at = "Idle", UNCHANGED <<stop, main>>,
           history' = Accepted(r), db' \in Database, db'.charts = db.charts,
           \A s \in Roots : s # r => f[s] = folders[s] /\ db'.root[s] = db.root[s],
           used' \in Counters, used'.exits = used.exits, used'.faults = used.faults,
           \A s \in Roots : s # r => used'.adds[s] = used.adds[s],
           \/ /\ r \in Listed /\ f[r] = folders[r] /\ db'.root[r] = db.root[r]
              /\ used'.adds[r] = used.adds[r]
           \/ /\ r \notin Listed /\ f[r] = "NotScanned" /\ db'.root[r] = "NotScanned"
              /\ used'.adds[r] = used.adds[r] + 1
              /\ \A s \in Listed : ~Overlaps(r, s)
    PROVE  IInv'
<1>1. /\ queue' = Append(queue, ItemOf(r))
      /\ queue = <<>> => /\ worker' = ScanOf(ItemOf(r))
                         /\ folders' = StatusShown(f, ItemOf(r), "InProgress")
      /\ queue # <<>> => folders' = f /\ worker' = worker
  BY DEF ScanFolder
<1>2. /\ TypeOK /\ QueueFits /\ db \in Database /\ folders \in [Roots -> Status]
      /\ history \in Past /\ queue \in Seq(Item) /\ worker \in Scan
      /\ worker.root \in Roots /\ used \in Counters
  BY TypeIs DEF IInv, Structure, Scan
<1>3. /\ queue' \in Seq(Item) /\ queue' # <<>> /\ Len(queue') = Len(queue) + 1
      /\ \A j \in 2..Len(queue') : ~queue'[j].removed
      /\ \A j, k \in 1..Len(queue') : queue'[j] = queue'[k] => j = k
      /\ \A j \in 1..Len(queue') :
            queue'[j] = ItemOf(r) \/ \E k \in 1..Len(queue) : queue'[j] = queue[k]
      /\ queue # <<>> => queue'[1] = queue[1]
      /\ queue = <<>> => queue'[1] = ItemOf(r)
      /\ \A s \in Roots : Queued(s) \/ s = r => Queued(s)'
  BY <1>1, <1>2, AppendFacts
<1>4. /\ worker' \in Scan
      /\ queue = <<>> => /\ worker'.at = "Begin" /\ worker'.root = r
                         /\ worker'.unread = {} /\ worker'.loading = {}
      /\ queue # <<>> => worker' = worker
  <2>1. CASE queue = <<>>
    <3>1. ItemOf(r) \in Item /\ ItemOf(r).root = r
      BY ItemFacts
    <3> DEFINE x == ItemOf(r)
    <3> HIDE DEF x
    <3>2. worker' = ScanOf(x) /\ x \in Item /\ x.root = r
      BY <1>1, <2>1, <3>1 DEF x
    <3>3. QED BY <2>1, <3>2, ScanOfFacts
  <2>2. QED BY <1>1, <1>2, <2>1
<1>5. /\ folders' \in [Roots -> Status] /\ folders'[r] # "None"
      /\ \A s \in Roots : s # r => folders'[s] = folders[s]
      /\ queue = <<>> => folders'[r] = "InProgress"
      /\ queue # <<>> => folders'[r] = f[r]
  <2>1. CASE queue = <<>>
    <3>1. folders' = [f EXCEPT ![r] = "InProgress"]
      BY <1>1, <2>1, ItemFacts DEF StatusShown
    <3>2. QED BY <2>1, <3>1 DEF Status
  <2>2. CASE queue # <<>>
    BY <1>1, <2>2 DEF Listed
  <2>3. QED BY <2>1, <2>2
<1>6. Listed' = Listed \cup {r}
  BY <1>5 DEF Listed
<1>7. /\ history' \in Past /\ history'.told = history.told
      /\ history'.missed = history.missed /\ history'.dropped = history.dropped \ {r}
  BY <1>2 DEF Past, Accepted
<1>8. queue # <<>> => HeadLive' = HeadLive /\ HeadGone' = HeadGone
  BY <1>3 DEF HeadLive, HeadGone
<1>9. queue = <<>> => HeadLive' /\ ~HeadGone' /\ ~stop
  BY <1>2, <1>3, ItemFacts DEF HeadLive, HeadGone, QueueFits
<1>10. HeadLive => worker.root # r /\ worker.root \in Listed
  <2>1. SUFFICES ASSUME HeadLive PROVE worker.root # r /\ worker.root \in Listed
    OBVIOUS
  <2>2. queue # <<>> /\ ~queue[1].removed
    BY <2>1 DEF HeadLive
  <2>3. queue[1] = ItemOf(worker.root) /\ 1 \in 1..Len(queue)
    BY <1>2, <2>2, HeadFacts, ItemFacts DEF QueueFits
  <2>4. Queued(worker.root)
    BY <1>2, <2>3, QueuedIs
  <2>5. folders[worker.root] # "None"
    BY <1>2, <2>2, <2>3 DEF QueueFits
  <2>6. QED BY <1>2, <2>4, <2>5 DEF Listed
<1>11. \A s \in Roots : /\ used.adds[s] \in Nat /\ used'.adds[s] \in Nat
                        /\ used'.adds[s] >= used.adds[s]
  <2>1. used.adds \in [Roots -> Nat] /\ used'.adds \in [Roots -> Nat]
    BY <1>2 DEF Counters
  <2>2. SUFFICES ASSUME NEW s \in Roots
                 PROVE  /\ used.adds[s] \in Nat /\ used'.adds[s] \in Nat
                        /\ used'.adds[s] >= used.adds[s]
    OBVIOUS
  <2>3. used.adds[s] \in Nat /\ used'.adds[s] \in Nat
    BY <2>1
  <2>4. used'.adds[s] = used.adds[s] \/ used'.adds[s] = used.adds[s] + 1
    OBVIOUS
  <2>5. QED BY <2>3, <2>4
<1>12. Structure'
  <2>1. TypeOK'
    BY <1>2, <1>3, <1>4, <1>5, <1>7, TypeIs DEF TypeOK, Past, Database, Scan, Counters
  <2>2. QueueFits'
    <3>1. ASSUME NEW j \in 1..Len(queue'), ~queue'[j].removed
          PROVE  folders'[queue'[j].root] # "None"
      <4>1. CASE queue'[j] = ItemOf(r)
        BY <1>5, <4>1, ItemFacts
      <4>2. CASE \E k \in 1..Len(queue) : queue'[j] = queue[k]
        <5>1. PICK k \in 1..Len(queue) : queue'[j] = queue[k]
          BY <4>2
        <5>2. queue[k] \in Item /\ ~queue[k].removed
          BY <1>2, <3>1, <5>1
        <5>3. queue[k].root \in Roots /\ folders[queue[k].root] # "None"
          BY <1>2, <5>2, ItemFacts DEF QueueFits
        <5>4. QED BY <1>5, <5>1, <5>3
      <4>3. QED BY <1>3, <4>1, <4>2
    <3>2. worker'.at # "Idle" /\ worker'.root = queue'[1].root
      BY <1>2, <1>3, <1>4, ItemFacts DEF QueueFits
    <3>3. QED BY <1>3, <3>1, <3>2 DEF QueueFits
  <2>3. RootsFit'
    <3>1. ASSUME NEW s \in Roots PROVE db'.root[s] = "None" <=> folders'[s] = "None"
      <4>1. CASE s # r
        BY <1>5, <4>1 DEF IInv, Structure, RootsFit
      <4>2. CASE s = r
        BY <1>5, <4>2 DEF IInv, Structure, RootsFit, Listed
      <4>3. QED BY <4>1, <4>2
    <3>2. ASSUME NEW s \in Listed', NEW t \in Listed', s # t PROVE ~Overlaps(s, t)
      BY <1>6, <3>2 DEF IInv, Structure, RootsFit, Overlaps
    <3>3. ASSUME NEW s \in Listed' PROVE used'.adds[s] >= 1
      <4>1. CASE s \in Listed
        <5>1. used.adds[s] >= 1 /\ s \in Roots
          BY <4>1 DEF IInv, Structure, RootsFit, Listed
        <5>2. used.adds[s] \in Nat /\ used'.adds[s] \in Nat /\ used'.adds[s] >= used.adds[s]
          BY <1>11, <5>1 DEF Counters
        <5>3. QED BY <5>1, <5>2
      <4>2. CASE s \notin Listed
        BY <1>6, <1>11, <4>2
      <4>3. QED BY <4>1, <4>2
    <3>4. QED BY <3>1, <3>2, <3>3 DEF RootsFit
  <2>4. QED BY <2>1, <2>2, <2>3 DEF Structure
<1>13. ScanFits'
  <2>1. CASE queue = <<>>
    <3>1. worker'.at = "Begin" /\ worker'.root = r /\ folders'[r] = "InProgress"
          /\ worker'.unread = {} /\ worker'.loading = {}
      BY <1>4, <1>5, <2>1
    <3>2. QED BY <3>1 DEF ScanFits
  <2>2. CASE queue # <<>>
    <3>1. HeadLive => /\ folders'[worker.root] = folders[worker.root]
                      /\ db'.root[worker.root] = db.root[worker.root]
      BY <1>2, <1>5, <1>10
    <3>2. worker' = worker /\ HeadLive' = HeadLive
      BY <1>4, <1>8, <2>2
    <3>3. QED BY <1>7, <3>1, <3>2 DEF IInv, ScanFits, Missing, Known
  <2>3. QED BY <2>1, <2>2
<1>14. GoneFits'
  <2>1. CASE queue = <<>>
    BY <1>9, <2>1 DEF GoneFits
  <2>2. CASE queue # <<>>
    <3>1. SUFFICES ASSUME HeadGone PROVE GoneFits'
      BY <1>8, <2>2 DEF GoneFits
    <3>2. worker' = worker /\ HeadGone' = HeadGone /\ folders'[r] = f[r]
      BY <1>4, <1>5, <1>8, <2>2
    <3>3. stop /\ used.adds[worker.root] >= 1 /\ used.adds[worker.root] \in Nat
          /\ used'.adds[worker.root] \in Nat
      BY <1>2, <1>11, <3>1 DEF IInv, GoneFits, Counters
    <3>4. used'.adds[worker.root] >= 1
      BY <1>2, <1>11, <3>3
    <3>5. worker.root \in Listed' => used'.adds[worker.root] >= 2
      <4>1. CASE worker.root \in Listed
        BY <1>2, <1>11, <3>1, <3>3, <4>1 DEF IInv, GoneFits
      <4>2. CASE worker.root \notin Listed /\ worker.root = r
        BY <3>3, <4>2
      <4>3. QED BY <1>6, <4>1, <4>2
    <3>6. ASSUME NEW s \in Listed', s = worker.root \/ Overlaps(s, worker.root)
          PROVE  folders'[s] = "NotScanned" /\ (s # worker.root => db'.root[s] # "Scanned")
      <4>1. CASE s \in Listed
        <5>1. folders[s] = "NotScanned" /\ (s # worker.root => db.root[s] # "Scanned")
          BY <3>1, <3>6, <4>1 DEF IInv, GoneFits
        <5>2. s \in Roots
          BY <4>1 DEF Listed
        <5>3. folders'[s] = folders[s] /\ db'.root[s] = db.root[s]
          BY <1>5, <3>2, <4>1, <5>2
        <5>4. QED BY <5>1, <5>3
      <4>2. CASE s \notin Listed
        BY <1>6, <3>2, <4>2
      <4>3. QED BY <4>1, <4>2
    <3>7. QED BY <3>2, <3>3, <3>4, <3>5, <3>6 DEF GoneFits
  <2>3. QED BY <2>1, <2>2
<1>15. StopIsWanted'
  <2>1. CASE queue = <<>>
    BY <1>9, <2>1 DEF StopIsWanted
  <2>2. CASE queue # <<>>
    BY <1>4, <1>7, <1>8, <1>10, <2>2 DEF IInv, StopIsWanted
  <2>3. QED BY <2>1, <2>2
<1>16. ChartsFit'
  <2>1. SUFFICES ASSUME Undisturbed, NEW c \in db.charts PROVE Remaining(c)'
    BY DEF ChartsFit, Undisturbed
  <2>2. Remaining(c)
    BY <2>1 DEF IInv, ChartsFit
  <2>3. CASE \E s \in Listed : c \in Below[s]
    BY <1>6, <2>3 DEF Remaining
  <2>4. CASE HeadGone /\ c \in Below[worker.root] /\ worker.at \in Early
    <3>1. queue # <<>>
      BY <2>4 DEF HeadGone
    <3>2. QED BY <1>4, <1>8, <2>4, <3>1 DEF Remaining, Early
  <2>5. QED BY <2>2, <2>3, <2>4 DEF Remaining, Early
<1>17. ScannedIsComplete'
  <2>1. ASSUME NEW s \in Roots PROVE Complete(s)'
    <3>1. Complete(s)
      BY DEF IInv, ScannedIsComplete, Complete, Known
    <3>2. CASE s # r
      BY <1>5, <1>7, <3>1, <3>2 DEF Complete, Known
    <3>3. CASE s = r /\ r \notin Listed
      BY <1>5, <3>3 DEF Complete, Known
    <3>4. CASE s = r /\ r \in Listed
      BY <1>5, <1>7, <3>1, <3>4 DEF Complete, Known
    <3>5. QED BY <3>2, <3>3, <3>4
  <2>2. QED BY <2>1 DEF ScannedIsComplete, Complete, Known
<1>18. ToldOfEveryChange'
  BY <1>3 DEF ToldOfEveryChange
<1>19. NothingIsForgotten'
  <2>1. SUFFICES ASSUME NEW s \in Listed'
                 PROVE  \/ folders'[s] = "Scanned" \/ Queued(s)' \/ s \in history'.dropped
    BY DEF NothingIsForgotten
  <2>2. CASE s = r
    BY <1>3, <2>2
  <2>3. CASE s # r
    <3>1. s \in Listed /\ s \in Roots
      BY <1>6, <2>1, <2>3 DEF Listed
    <3>2. folders[s] = "Scanned" \/ Queued(s) \/ s \in history.dropped
      BY <3>1 DEF IInv, NothingIsForgotten
    <3>3. QED BY <1>3, <1>5, <1>7, <2>3, <3>1, <3>2
  <2>4. QED BY <2>2, <2>3
<1>20. QED BY <1>12, <1>13, <1>14, <1>15, <1>16, <1>17, <1>18, <1>19 DEF IInv

\* A new root overlaps none that is listed, also none the scan under way is of.
LEMMA AddKeeps ==
    ASSUME IInv, NEW r \in Roots, Add(r)
    PROVE  IInv'
<1> DEFINE f == [folders EXCEPT ![r] = "NotScanned"]
           g == [db.root EXCEPT ![r] = "NotScanned"]
           a == [used.adds EXCEPT ![r] = @ + 1]
<1>1. /\ main.at = "Idle" /\ \A s \in Listed : s # r /\ ~Overlaps(r, s)
      /\ db' = [db EXCEPT !.root = g] /\ ScanFolder(r, f) /\ history' = Accepted(r)
      /\ used' = [used EXCEPT !.adds = a] /\ UNCHANGED <<stop, main>>
  BY DEF Add
<1>2. /\ TypeOK /\ QueueFits /\ db \in Database /\ folders \in [Roots -> Status]
      /\ used \in Counters
  BY TypeIs DEF IInv, Structure
<1>3. /\ f \in [Roots -> Status] /\ f[r] = "NotScanned"
      /\ \A s \in Roots : s # r => f[s] = folders[s]
  BY <1>2 DEF Status
<1>4. /\ g \in [Roots -> Status] /\ g[r] = "NotScanned"
      /\ \A s \in Roots : s # r => g[s] = db.root[s]
  BY <1>2 DEF Status, Database
<1>5. /\ a \in [Roots -> Nat] /\ a[r] = used.adds[r] + 1
      /\ \A s \in Roots : s # r => a[s] = used.adds[s]
  BY <1>2 DEF Counters
<1> HIDE DEF f, g, a
<1>6. db' \in Database /\ db'.root = g /\ db'.charts = db.charts
  BY <1>1, <1>2, <1>4 DEF Database
<1>7. /\ used' \in Counters /\ used'.adds = a /\ used'.exits = used.exits
      /\ used'.faults = used.faults
  BY <1>1, <1>2, <1>5 DEF Counters
<1>8. r \notin Listed
  BY <1>1
<1>9. ~Queued(r)
  <2>1. SUFFICES ASSUME NEW i \in 1..Len(queue), queue[i] = ItemOf(r) PROVE FALSE
    BY <1>2, QueuedIs
  <2>2. folders[r] # "None"
    BY <1>2, <2>1, ItemFacts DEF QueueFits
  <2>3. QED BY <1>8, <2>2 DEF Listed
<1>10. QED BY <1>1, <1>3, <1>4, <1>5, <1>6, <1>7, <1>8, <1>9, ScanFolderKeeps

\* A rescan of a root that waits or is scanned changes nothing.
LEMMA RescanKeeps ==
    ASSUME IInv, NEW r \in Roots, Rescan(r)
    PROVE  IInv'
<1>1. /\ main.at = "Idle" /\ used.scans < MaxScans /\ r \in Listed
      /\ ScanFolder(r, folders) /\ UNCHANGED <<db, stop, main>>
      /\ history' = IF Queued(r) THEN history ELSE Accepted(r)
      /\ used' = [used EXCEPT !.scans = @ + 1]
  BY DEF Rescan
<1>2. TypeOK /\ db \in Database /\ folders \in [Roots -> Status] /\ used \in Counters
  BY TypeIs DEF IInv, Structure
<1>3. /\ used' \in Counters /\ used'.adds = used.adds /\ used'.exits = used.exits
      /\ used'.faults = used.faults
  <2>1. used.scans + 1 \in 0..MaxScans
    BY <1>1, <1>2, BoundAssumption DEF Counters
  <2>2. used' = [used EXCEPT !.scans = used.scans + 1]
    BY <1>1
  <2>3. QED BY <1>2, <2>1, <2>2 DEF Counters
<1>4. CASE Queued(r)
  <2>1. UNCHANGED <<db, folders, queue, stop, worker, main, history>>
    BY <1>1, <1>4 DEF ScanFolder
  <2>2. TypeOK'
    BY <1>2, <1>3, <2>1 DEF TypeOK, Counters
  <2>3. Structure'
    BY <1>3, <2>1, <2>2 DEF IInv, Structure, QueueFits, RootsFit, Listed
  <2>4. ScanFits' /\ GoneFits' /\ StopIsWanted'
    BY <1>3, <2>1
       DEF IInv, ScanFits, Missing, Known, GoneFits, StopIsWanted, HeadLive, HeadGone, Listed
  <2>5. ChartsFit' /\ ScannedIsComplete' /\ ToldOfEveryChange' /\ NothingIsForgotten'
    <3>1. ChartsFit'
      BY <1>3, <2>1 DEF IInv, ChartsFit, Undisturbed, Remaining, HeadGone, Listed
    <3>2. QED BY <1>3, <2>1, <3>1
                 DEF IInv, ScannedIsComplete, ToldOfEveryChange, NothingIsForgotten,
                     Queued, Listed
  <2>6. QED BY <2>3, <2>4, <2>5 DEF IInv
<1>5. CASE ~Queued(r)
  BY <1>1, <1>2, <1>3, <1>5, ScanFolderKeeps
<1>6. QED BY <1>4, <1>5

-----------------------------------------------------------------------------
(* The program starts again.                                               *)

\* Every order of a set of items is a queue of each of them, once.
LEMMA SetToSeqsFacts ==
    ASSUME NEW R \in SUBSET Roots, NEW q \in SetToSeqs({ItemOf(r) : r \in R})
    PROVE  /\ q \in Seq(Item)
           /\ \A j, k \in 1..Len(q) : q[j] = q[k] => j = k
           /\ \A j \in 1..Len(q) : \E r \in R : q[j] = ItemOf(r)
           /\ \A r \in R : \E j \in 1..Len(q) : q[j] = ItemOf(r)
<1> DEFINE T == {ItemOf(r) : r \in R}
           h == [r \in R |-> ItemOf(r)]
           n == Cardinality(T)
<1>1. IsFiniteSet(T) /\ n \in Nat
  <2>1. IsFiniteSet(R)
    BY BoundAssumption, FS_Subset
  <2>2. h \in Surjection(R, T)
    BY DEF Surjection
  <2>3. IsFiniteSet(T)
    BY <2>1, <2>2, FS_Surjection
  <2>4. QED BY <2>3, FS_CardinalityType
<1>2. T \subseteq Item
  BY ItemFacts
<1>3. q \in [1..n -> T] /\ \A j, k \in 1..n : j # k => q[j] # q[k]
  BY DEF SetToSeqs
<1>4. \A x \in T : \E j \in 1..n : q[j] = x
  <2>1. q \in Injection(1..n, T)
    BY <1>3 DEF Injection, IsInjective
  <2>2. Cardinality(1..n) = n
    BY <1>1, FS_Interval
  <2>3. q \in Surjection(1..n, T)
    BY <1>1, <2>1, <2>2, FS_Injection
  <2>4. QED BY <2>3 DEF Surjection
<1> HIDE DEF n
<1>5. q \in Seq(Item) /\ Len(q) = n
  <2>1. q \in [1..n -> Item]
    BY <1>2, <1>3
  <2>2. QED BY <1>1, <2>1
<1>6. \A j \in 1..n : \E r \in R : q[j] = ItemOf(r)
  BY <1>3
<1>7. \A r \in R : \E j \in 1..n : q[j] = ItemOf(r)
  BY <1>4
<1>8. QED BY <1>3, <1>5, <1>6, <1>7

\* A start takes what the database says for the truth, but for the scans cut short, and
\* asks for a scan of what is left.
LEMMA StartKeeps ==
    ASSUME IInv, Start, used' \in Counters, used'.adds = used.adds, used'.exits > 0
    PROVE  IInv'
<1> DEFINE found == [r \in Roots |-> StartupStatus(db.root[r])]
           R == {s \in Roots : found[s] = "NotScanned"}
<1>1. /\ queue' \in SetToSeqs({ItemOf(r) : r \in R})
      /\ queue' = <<>> => folders' = found /\ worker' = NoScan
      /\ queue' # <<>> => /\ folders' = [found EXCEPT ![Head(queue').root] = "InProgress"]
                          /\ worker' = ScanOf(Head(queue'))
      /\ stop' = FALSE /\ main' = Quiet /\ db' = db
      /\ history' = [history EXCEPT !.told = db.charts, !.dropped = {}]
  BY DEF Start
<1>2. TypeOK /\ db \in Database /\ history \in Past
  BY TypeIs DEF IInv, Structure
<1>3. /\ found \in [Roots -> Status]
      /\ \A s \in Roots : /\ found[s] = "None" <=> db.root[s] = "None"
                          /\ found[s] = "Scanned" <=> db.root[s] = "Scanned"
                          /\ found[s] \in {"None", "NotScanned", "Scanned"}
  <2>1. \A s \in Roots : db.root[s] \in Status /\ found[s] = StartupStatus(db.root[s])
    BY <1>2 DEF Database
  <2>2. QED BY <2>1 DEF Status, StartupStatus
<1> HIDE DEF found
<1>4. R \in SUBSET Roots /\ \A s \in Roots : s \in R <=> found[s] = "NotScanned"
  OBVIOUS
<1> HIDE DEF R
<1>5. /\ queue' \in Seq(Item)
      /\ \A j, k \in 1..Len(queue') : queue'[j] = queue'[k] => j = k
      /\ \A j \in 1..Len(queue') : \E r \in R : queue'[j] = ItemOf(r)
      /\ \A r \in R : \E j \in 1..Len(queue') : queue'[j] = ItemOf(r)
  BY <1>1, <1>4, SetToSeqsFacts
<1>6. \A j \in 1..Len(queue') : ~queue'[j].removed /\ queue'[j].root \in R
  BY <1>4, <1>5, ItemFacts
<1>7. queue' # <<>> => /\ 1 \in 1..Len(queue') /\ Head(queue') = queue'[1]
                       /\ queue'[1] \in Item
  BY <1>5
<1>8. /\ folders' \in [Roots -> Status]
      /\ queue' # <<>> => folders'[queue'[1].root] = "InProgress"
      /\ \A s \in Roots : \/ folders'[s] = found[s]
                          \/ s \in R /\ folders'[s] = "InProgress"
  <2>1. CASE queue' = <<>>
    BY <1>1, <1>3, <2>1
  <2>2. CASE queue' # <<>>
    <3>1. PICK y \in R : y = queue'[1].root /\ folders' = [found EXCEPT ![y] = "InProgress"]
      BY <1>1, <1>6, <1>7, <2>2
    <3>2. QED BY <1>3, <1>4, <3>1 DEF Status
  <2>3. QED BY <2>1, <2>2
<1>9. /\ worker' \in Scan /\ (queue' = <<>> <=> worker'.at = "Idle")
      /\ queue' # <<>> => worker'.at = "Begin" /\ worker'.root = queue'[1].root
      /\ worker'.unread = {} /\ worker'.loading = {}
  <2>1. CASE queue' = <<>>
    BY <1>1, <2>1, NoScanFacts
  <2>2. CASE queue' # <<>>
    <3>1. PICK x \in Item : x = queue'[1] /\ worker' = ScanOf(x)
      BY <1>1, <1>7, <2>2
    <3>2. QED BY <2>2, <3>1, ScanOfFacts
  <2>3. QED BY <2>1, <2>2
<1>10. /\ history' \in Past /\ history'.missed = history.missed
       /\ history'.told = db.charts
  <2>1. db.charts \in SUBSET Charts
    BY <1>2 DEF Database
  <2>2. QED BY <1>1, <1>2, <2>1 DEF Past
<1>11. main' \in [at : {"Idle", "Removing", "Quitting"}, root : Roots] /\ main'.at = "Idle"
  BY <1>1, NoScanFacts DEF Quiet
<1>12. /\ \A s \in Roots : folders'[s] = "None" <=> folders[s] = "None"
       /\ Listed' = Listed
  <2>1. ASSUME NEW s \in Roots PROVE folders'[s] = "None" <=> folders[s] = "None"
    BY <1>3, <1>4, <1>8 DEF IInv, Structure, RootsFit
  <2>2. QED BY <2>1 DEF Listed
<1>13. Structure'
  <2>1. TypeOK'
    BY <1>1, <1>2, <1>5, <1>8, <1>9, <1>10, <1>11
       DEF TypeOK, Past, Scan, Counters, Database
  <2>2. QueueFits'
    <3>1. ASSUME NEW j \in 1..Len(queue') PROVE folders'[queue'[j].root] # "None"
      BY <1>4, <1>6, <1>8
    <3>2. \A j \in 2..Len(queue') : ~queue'[j].removed
      BY <1>5, <1>6
    <3>3. QED BY <1>1, <1>5, <1>9, <3>1, <3>2 DEF QueueFits
  <2>3. RootsFit'
    <3>1. \A s \in Roots : db'.root[s] = "None" <=> folders'[s] = "None"
      BY <1>1, <1>12 DEF IInv, Structure, RootsFit
    <3>2. QED BY <1>11, <1>12, <3>1 DEF IInv, Structure, RootsFit
  <2>4. QED BY <2>1, <2>2, <2>3 DEF Structure
<1>14. ~HeadGone'
  BY <1>6, <1>7 DEF HeadGone
<1>15. ScanFits'
  <2>1. worker'.unread \cup worker'.loading \subseteq Below[worker'.root]
    BY <1>9
  <2>2. CASE queue' = <<>>
    BY <1>9, <2>1, <2>2 DEF ScanFits, HeadLive
  <2>3. CASE queue' # <<>>
    BY <1>8, <1>9, <2>1, <2>3 DEF ScanFits
  <2>4. QED BY <2>2, <2>3
<1>16. GoneFits' /\ StopIsWanted'
  BY <1>1, <1>14 DEF GoneFits, StopIsWanted
<1>17. ChartsFit'
  <2>1. used'.exits # 0
    BY DEF Counters
  <2>2. QED BY <2>1 DEF ChartsFit, Undisturbed
<1>18. ScannedIsComplete'
  <2>1. ASSUME NEW s \in Roots PROVE Complete(s)'
    <3>1. Complete(s)
      BY DEF IInv, ScannedIsComplete, Complete, Known
    <3>2. CASE db.root[s] = "Scanned"
      BY <1>1, <1>10, <3>1, <3>2 DEF Complete, Known
    <3>3. CASE db.root[s] # "Scanned"
      <4>1. folders'[s] # "Scanned"
        BY <1>3, <1>8, <3>3
      <4>2. QED BY <1>1, <3>3, <4>1 DEF Complete, Known
    <3>4. QED BY <3>2, <3>3
  <2>2. QED BY <2>1 DEF ScannedIsComplete, Complete, Known
<1>19. ToldOfEveryChange'
  BY <1>1, <1>10 DEF ToldOfEveryChange
<1>20. NothingIsForgotten'
  <2>1. SUFFICES ASSUME NEW s \in Listed' PROVE folders'[s] = "Scanned" \/ Queued(s)'
    BY DEF NothingIsForgotten
  <2>2. s \in Roots /\ folders'[s] # "None"
    BY <2>1 DEF Listed
  <2>3. CASE s \in R
    <3>1. PICK j \in 1..Len(queue') : queue'[j] = ItemOf(s)
      BY <1>5, <2>3
    <3>2. DOMAIN queue' = 1..Len(queue')
      BY <1>5
    <3>3. QED BY <3>1, <3>2 DEF Queued, Range, ItemOf
  <2>4. CASE s \notin R
    BY <1>3, <1>4, <1>8, <2>2, <2>4
  <2>5. QED BY <2>3, <2>4
<1>21. QED BY <1>13, <1>15, <1>16, <1>17, <1>18, <1>19, <1>20 DEF IInv

LEMMA ExitsKeep ==
    ASSUME IInv, Restart \/ Crash
    PROVE  IInv'
<1>1. used \in Counters
  BY TypeIs DEF IInv, Structure
<1>2. CASE Restart
  BY <1>1, <1>2, StartKeeps DEF Restart, IInv, Structure, RootsFit
<1>3. CASE Crash
  <2>1. used.exits + 1 \in 0..MaxExits /\ used.exits + 1 > 0
    BY <1>1, <1>3, BoundAssumption DEF Counters, Crash
  <2>2. Start /\ used' = [used EXCEPT !.exits = used.exits + 1]
    BY <1>3 DEF Crash
  <2>3. used' \in Counters /\ used'.adds = used.adds /\ used'.exits > 0
    BY <1>1, <2>1, <2>2 DEF Counters
  <2>4. QED BY <2>2, <2>3, StartKeeps
<1>4. QED BY <1>2, <1>3

-----------------------------------------------------------------------------
(* The theorems.                                                           *)

LEMMA InitFits ==
    ASSUME Init
    PROVE  IInv
<1>1. /\ db = [root |-> [r \in Roots |-> "None"], charts |-> {}]
      /\ folders = [r \in Roots |-> "None"] /\ queue = <<>> /\ stop = FALSE
      /\ worker = NoScan /\ main = Quiet
      /\ history = [told |-> {}, dropped |-> {}, missed |-> {}]
      /\ used = [adds |-> [r \in Roots |-> 0], scans |-> 0, cancels |-> 0,
                 faults |-> 0, exits |-> 0]
  BY DEF Init
<1>2. Listed = {} /\ ~HeadLive /\ ~HeadGone
  BY <1>1 DEF Listed, HeadLive, HeadGone
<1>3. /\ worker \in Scan /\ worker.at = "Idle" /\ worker.unread = {} /\ worker.loading = {}
      /\ main.at = "Idle" /\ main.root \in Roots
  BY <1>1, NoScanFacts
<1>4. TypeOK
  <2>1. main \in [at : {"Idle", "Removing", "Quitting"}, root : Roots]
    BY <1>1, NoScanFacts DEF Quiet
  <2>2. db \in Database /\ folders \in [Roots -> Status]
    BY <1>1 DEF Database, Status
  <2>3. history \in Past
    BY <1>1 DEF Past
  <2>4. used \in Counters
    BY <1>1, BoundAssumption DEF Counters
  <2>5. queue \in Seq(Item) /\ stop \in BOOLEAN
    <3>1. <<>> \in Seq(Item) /\ FALSE \in BOOLEAN
      OBVIOUS
    <3>2. QED BY <1>1, <3>1
  <2>6. QED BY <1>3, <2>1, <2>2, <2>3, <2>4, <2>5, TypeIs
<1>5. Structure
  <2>1. Len(queue) = 0
    BY <1>1
  <2>2. QueueFits
    BY <1>1, <1>3, <2>1 DEF QueueFits
  <2>3. RootsFit
    BY <1>1, <1>2, <1>3 DEF RootsFit
  <2>4. QED BY <1>4, <2>2, <2>3 DEF Structure
<1>6. ScanFits /\ GoneFits /\ StopIsWanted
  BY <1>1, <1>2, <1>3 DEF ScanFits, GoneFits, StopIsWanted
<1>7. ChartsFit /\ ScannedIsComplete /\ ToldOfEveryChange /\ NothingIsForgotten
  BY <1>1, <1>2 DEF ChartsFit, ScannedIsComplete, ToldOfEveryChange, NothingIsForgotten
<1>8. QED BY <1>5, <1>6, <1>7 DEF IInv

LEMMA StutterKeeps ==
    ASSUME IInv, UNCHANGED vars
    PROVE  IInv'
BY DEF vars, IInv, Structure, TypeOK, QueueFits, RootsFit, ScanFits, GoneFits, StopIsWanted,
       ChartsFit, ScannedIsComplete, ToldOfEveryChange, NothingIsForgotten, HeadLive,
       HeadGone, Missing, Known, Remaining, Undisturbed, Listed, Queued

LEMMA NextKeeps ==
    ASSUME IInv, [Next]_vars
    PROVE  IInv'
<1>1. CASE Player
  BY <1>1, AddKeeps, RescanKeeps, RemoveRootKeeps, CancelKeeps, QuitKeeps DEF Player
<1>2. CASE ClearRemoved
  BY <1>2, ClearRemovedKeeps
<1>3. CASE WorkerStep
  BY <1>3, WorkerKeeps
<1>4. CASE (\E c \in Charts : ChartFails(c)) \/ WalkFails \/ WorkerFails
  BY <1>4, FaultsKeep
<1>5. CASE Finished
  BY <1>5, FinishedKeeps
<1>6. CASE Restart \/ Crash
  BY <1>6, ExitsKeep
<1>7. CASE UNCHANGED vars
  BY <1>7, StutterKeeps
<1>8. QED BY <1>1, <1>2, <1>3, <1>4, <1>5, <1>6, <1>7 DEF Next

\* What the queue, the worker, the settings and the database say of each other holds at
\* every step of every scan, whatever the player does meanwhile.
THEOREM InvariantHolds == Spec => []IInv
<1>1. Init => IInv
  BY InitFits
<1>2. IInv /\ [Next]_vars => IInv'
  BY NextKeeps
<1>3. QED BY <1>1, <1>2, PTL DEF Spec

\* Every variable keeps its type; the queue holds folders, the removed ones marked.
THEOREM TypeCorrect == Spec => []TypeOK
<1>1. IInv => TypeOK
  BY DEF IInv, Structure
<1>2. QED BY <1>1, InvariantHolds, PTL

\* What the settings show as scanned, or the database will not scan again, is there but
\* for the charts its scan could not read or save: no removal, cancelled scan, restart
\* or late scan of a removed root takes one away.
THEOREM ScannedComplete == Spec => []ScannedIsComplete
<1>1. IInv => ScannedIsComplete
  BY DEF IInv
<1>2. QED BY <1>1, InvariantHolds, PTL

\* With the queue empty no chart of a root that was removed is left, also when its scan
\* was under way as it was removed.
THEOREM NothingOutlives == Spec => []NothingOutlivesItsRoot
<1>1. ASSUME IInv PROVE NothingOutlivesItsRoot
  <2>1. SUFFICES ASSUME Undisturbed, main.at = "Idle", queue = <<>>, NEW c \in db.charts
                 PROVE  \E r \in Listed : c \in Below[r]
    BY DEF NothingOutlivesItsRoot
  <2>2. Remaining(c)
    BY <1>1, <2>1 DEF IInv, ChartsFit
  <2>3. QED BY <2>1, <2>2 DEF Remaining, HeadGone
<1>2. QED BY <1>1, InvariantHolds, PTL

\* The last thing the listeners heard, with the queue empty, is the charts as they are.
THEOREM ToldLast == Spec => []ToldOfEveryChange
<1>1. IInv => ToldOfEveryChange
  BY DEF IInv
<1>2. QED BY <1>1, InvariantHolds, PTL

\* A root that is not scanned waits for its scan, or the player gave it up, or the scan
\* failed: no shutdown, crash or cancelled neighbour makes the program forget it.
THEOREM NoneForgotten == Spec => []NothingIsForgotten
<1>1. IInv => NothingIsForgotten
  BY DEF IInv
<1>2. QED BY <1>1, InvariantHolds, PTL

=============================================================================






