---------------------------- MODULE PhotoPipeline ----------------------------
(***************************************************************************)
(* The photo service (internal/photos/service.go) with the two stores it   *)
(* keeps in step: the costume_item_photos table (internal/storage/         *)
(* photos.go) and the photo directory.                                     *)
(*                                                                         *)
(* Uploads run on request goroutines.  One dispatcher lists pending rows   *)
(* and feeds a bounded queue; the workers produce the two derivatives and  *)
(* move the row to a final status.  Everything but the disk and the table  *)
(* is lost when the process ends.                                          *)
(*                                                                         *)
(* A photo is the number of its row in (created_at, id) order.  Rows may   *)
(* be committed in any order: created_at is the start of the inserting     *)
(* transaction.  Every statement on the table is a transaction of its own, *)
(* so it is one step; so is the rename that installs a file.               *)
(***************************************************************************)
EXTENDS Integers, Sequences

CONSTANTS
    Photos,       \* the photos users ever upload
    Workers,      \* worker goroutines (workerCount)
    QueueCap,     \* capacity of the queue and limit of one ListPending
    Corrupt,      \* photos whose header decodes but whose pixels do not
    FaultKinds,   \* transient faults that may occur, see Fault
    MaxFaults,    \* bound: transient faults in a behaviour
    MaxStops      \* bound: times the process ends, by a crash or by Close

NoPhoto == 0

ASSUME PhotoAssumption ==
    /\ Photos \subseteq Nat \ {NoPhoto}
    /\ QueueCap \in Nat \ {0}
    /\ Corrupt \subseteq Photos
    /\ FaultKinds \subseteq {"disk", "db", "commit"}
    /\ MaxFaults \in Nat
    /\ MaxStops \in Nat

VARIABLES
    \* durable
    status,       \* the row of each photo: "absent" or its status column
    originals,    \* photos whose original is in the directory
    displays,     \* photos whose display derivative is in the directory
    thumbs,       \* photos whose thumbnail is in the directory
    \* the process
    main,         \* main goroutine: started is "starting".."cancelled"
    upload,       \* request goroutine that uploads each photo
    wake, retry,  \* whether the one slot of each signal channel is taken
    queue,        \* the work channel
    queued,       \* the map of photos that were dispatched and not released
    dpc,          \* dispatcher's place in dispatch()
    snapshot,     \* what is left of the page it iterates over
    wpc, wphoto,  \* each worker's place and the photo it received
    moved,        \* result of process(), once it returned
    \* bounds
    faults, stops

disk     == <<originals, displays, thumbs>>
channels == <<wake, retry, queue>>
dispvars == <<dpc, snapshot>>
workvars == <<wpc, wphoto, moved>>
bounds   == <<faults, stops>>
vars == <<status, disk, main, upload, channels, queued, dispvars, workvars, bounds>>

Statuses   == {"absent", "pending", "ready", "failed"}
Final      == {"ready", "failed"}
MainPcs    == {"down", "starting", "serving", "cancelled", "waiting"}
UploadPcs  == {"idle", "copy", "create", "remove", "notify", "done", "refused", "past"}
DispPcs    == {"select", "backoff", "list", "offer", "send", "exited"}
WorkerPcs  == {"idle", "open", "display", "thumb", "ready",
               "rmDisplay", "rmThumb", "fail", "release", "signal", "exited"}

Pending == {p \in Photos : status[p] = "pending"}

Alive     == main # "down"
Started   == main \in {"starting", "serving", "cancelled"}
Cancelled == main \in {"cancelled", "waiting"}

\* One transient fault: "disk" fails a file operation, "db" a statement that
\* is not a commit, "commit" loses the answer to a commit that took effect.
Fault(kind) == /\ kind \in FaultKinds
               /\ faults < MaxFaults
               /\ faults' = faults + 1

\* Seeded bug: an unbuffered channel, which only takes a signal while the
\* dispatcher waits for one.
SignalUnbuffered(slot) == IF Started /\ dpc = "select" THEN {TRUE} ELSE {slot}

\* notify() and scheduleRetry(): a send that is dropped when the slot is
\* taken; with the context cancelled select may also take ctx.Done().
Signal(slot) == IF ~Started THEN {slot}
                ELSE IF Cancelled THEN {slot, TRUE} ELSE {TRUE}
Notify        == wake' \in Signal(wake) /\ UNCHANGED retry
ScheduleRetry == retry' \in Signal(retry) /\ UNCHANGED wake

Init ==
    /\ status = [p \in Photos |-> "absent"]
    /\ originals = {} /\ displays = {} /\ thumbs = {}
    /\ main = "down"
    /\ upload = [p \in Photos |-> "idle"]
    /\ wake = FALSE /\ retry = FALSE /\ queue = <<>> /\ queued = {}
    /\ dpc = "select" /\ snapshot = <<>>
    /\ wpc = [w \in Workers |-> "idle"]
    /\ wphoto = [w \in Workers |-> NoPhoto]
    /\ moved = [w \in Workers |-> FALSE]
    /\ faults = 0 /\ stops = 0

-----------------------------------------------------------------------------
(* The process: run() in cmd/costume-tree/main.go, Start and Close.        *)

\* New, the ListPending(1) probe and the goroutines are in place; a failing
\* probe ends the new process and leaves nothing.
Start ==
    /\ main = "down"
    /\ main' = "starting"
    /\ UNCHANGED <<status, disk, upload, channels, queued, dispvars, workvars, bounds>>

\* Start's own notify, after the lock is released: HTTP is served next.
StartNotify ==
    /\ main = "starting"
    /\ main' = "serving"
    /\ Notify
    /\ UNCHANGED <<status, disk, upload, queue, queued, dispvars, workvars, bounds>>

\* The deferred shutdown cancels the parent context before Close.  Requests
\* may outlive the server's ShutdownTimeout, so uploads may be anywhere.
Cancel ==
    /\ main = "serving" /\ stops < MaxStops
    /\ main' = "cancelled"
    /\ UNCHANGED <<status, disk, upload, channels, queued, dispvars, workvars, bounds>>

StopAccepting ==
    /\ main = "cancelled"
    /\ main' = "waiting"
    /\ UNCHANGED <<status, disk, upload, channels, queued, dispvars, workvars, bounds>>

\* The process is gone: volatile state with it, requests wherever they are.
Die ==
    /\ main' = "down"
    /\ upload' = [p \in Photos |->
                    IF upload[p] \in {"idle", "done"} THEN upload[p] ELSE "past"]
    /\ wake' = FALSE /\ retry' = FALSE /\ queue' = <<>> /\ queued' = {}
    /\ dpc' = "select" /\ snapshot' = <<>>
    /\ wpc' = [w \in Workers |-> "idle"]
    /\ wphoto' = [w \in Workers |-> NoPhoto]
    /\ moved' = [w \in Workers |-> FALSE]
    /\ stops' = stops + 1
    /\ UNCHANGED <<status, disk, faults>>

\* Close's workers.Wait() returns, run() returns.
Exit ==
    /\ main = "waiting"
    /\ dpc = "exited"
    /\ \A w \in Workers : wpc[w] = "exited"
    /\ Die

Crash == Alive /\ stops < MaxStops /\ Die

-----------------------------------------------------------------------------
(* Upload(): one request goroutine per photo.                              *)

UploadGoto(p, pc) == upload' = [upload EXCEPT ![p] = pc]

\* Seeded bug: the row is created before the original is stored.
UploadCheckRowFirst(p) ==
    /\ Alive /\ main # "starting"
    /\ upload[p] = "idle"
    /\ UploadGoto(p, IF Started THEN "create" ELSE "refused")
    /\ UNCHANGED <<status, disk, main, channels, queued, dispvars, workvars, bounds>>

\* inspectUpload and availableBase touch nothing; "refused" is an error
\* answer, here ErrNotStarted.
UploadCheck(p) ==
    /\ Alive /\ main # "starting"
    /\ upload[p] = "idle"
    /\ UploadGoto(p, IF Started THEN "copy" ELSE "refused")
    /\ UNCHANGED <<status, disk, main, channels, queued, dispvars, workvars, bounds>>

\* copyUploadAtomically: the whole original appears under its name, or nothing.
UploadCopy(p) ==
    /\ upload[p] = "copy"
    /\ \/ /\ originals' = originals \union {p}
          /\ UploadGoto(p, "create")
          /\ UNCHANGED faults
       \/ /\ Fault("disk")
          /\ UploadGoto(p, "refused")
          /\ UNCHANGED originals
    /\ UNCHANGED <<status, displays, thumbs, main, channels, queued, dispvars, workvars, stops>>

\* repository.Create commits the pending row, or returns an error: nothing
\* was inserted (item archived, request cancelled...), or the commit took
\* effect and its answer was lost.
UploadCreate(p) ==
    /\ upload[p] = "create"
    /\ \/ /\ status' = [status EXCEPT ![p] = "pending"]
          /\ UploadGoto(p, "notify")
          /\ UNCHANGED faults
       \/ /\ UploadGoto(p, "remove")
          /\ UNCHANGED <<status, faults>>
       \/ /\ Fault("commit")
          /\ status' = [status EXCEPT ![p] = "pending"]
          /\ UploadGoto(p, "remove")
    /\ UNCHANGED <<disk, main, channels, queued, dispvars, workvars, stops>>

UploadRemove(p) ==
    /\ upload[p] = "remove"
    /\ originals' = originals \ {p}
    /\ UploadGoto(p, "refused")
    /\ UNCHANGED <<status, displays, thumbs, main, channels, queued, dispvars, workvars, bounds>>

UploadNotify(p) ==
    /\ upload[p] = "notify"
    /\ UploadGoto(p, "done")
    /\ Notify
    /\ UNCHANGED <<status, disk, main, queue, queued, dispvars, workvars, bounds>>

Upload(p) == UploadCheck(p) \/ UploadCopy(p) \/ UploadCreate(p)
             \/ UploadRemove(p) \/ UploadNotify(p)

-----------------------------------------------------------------------------
(* dispatch().                                                             *)

DispatchWake ==
    /\ Alive /\ dpc = "select" /\ wake
    /\ wake' = FALSE /\ dpc' = "list"
    /\ UNCHANGED <<status, disk, main, upload, retry, queue, queued, snapshot, workvars, bounds>>

DispatchRetry ==
    /\ Alive /\ dpc = "select" /\ retry
    /\ retry' = FALSE /\ dpc' = "backoff"
    /\ UNCHANGED <<status, disk, main, upload, wake, queue, queued, snapshot, workvars, bounds>>

\* waitToRetry() when its timer fires.
DispatchBackoff ==
    /\ dpc = "backoff"
    /\ dpc' = "list"
    /\ UNCHANGED <<status, disk, main, upload, channels, queued, snapshot, workvars, bounds>>

\* page is what SELECT ... WHERE status = 'pending' ORDER BY created_at, id
\* LIMIT QueueCap returns.
IsPendingPage(page) ==
    /\ \A i, j \in DOMAIN page : i < j => page[i] < page[j]
    /\ \A p \in Pending :
          \/ \E i \in DOMAIN page : page[i] = p
          \/ Len(page) = QueueCap /\ \A i \in DOMAIN page : page[i] < p

DispatchList ==
    /\ dpc = "list" /\ ~Cancelled
    /\ \E n \in 0..QueueCap : \E page \in [1..n -> Pending] :
          IsPendingPage(page) /\ snapshot' = page
    /\ dpc' = "offer"
    /\ UNCHANGED <<status, disk, main, upload, channels, queued, workvars, bounds>>

DispatchListFails ==
    /\ dpc = "list" /\ ~Cancelled
    /\ Fault("db")
    /\ dpc' = "backoff"
    /\ UNCHANGED <<status, disk, main, upload, channels, queued, snapshot, workvars, stops>>

\* Seeded bug: every listed photo is sent, whether or not it is queued.
DispatchOfferUnchecked ==
    /\ dpc = "offer" /\ snapshot # <<>>
    /\ queued' = queued \union {Head(snapshot)}
    /\ dpc' = "send"
    /\ UNCHANGED <<status, disk, main, upload, channels, snapshot, workvars, bounds>>

\* The check of the queued map and its update are under one lock.
DispatchOffer ==
    /\ dpc = "offer" /\ snapshot # <<>>
    /\ IF Head(snapshot) \in queued
       THEN snapshot' = Tail(snapshot) /\ UNCHANGED <<dpc, queued>>
       ELSE /\ queued' = queued \union {Head(snapshot)}
            /\ dpc' = "send"
            /\ UNCHANGED snapshot
    /\ UNCHANGED <<status, disk, main, upload, channels, workvars, bounds>>

DispatchSend ==
    /\ dpc = "send" /\ Len(queue) < QueueCap
    /\ queue' = Append(queue, Head(snapshot))
    /\ snapshot' = Tail(snapshot)
    /\ dpc' = "offer"
    /\ UNCHANGED <<status, disk, main, upload, wake, retry, queued, workvars, bounds>>

DispatchDone ==
    /\ dpc = "offer" /\ snapshot = <<>>
    /\ dpc' = "select"
    /\ UNCHANGED <<status, disk, main, upload, channels, queued, snapshot, workvars, bounds>>

\* Seeded bug: the send to the queue does not watch the context.
DispatchExitNotFromSend ==
    /\ Cancelled /\ dpc \in {"select", "backoff", "list"}
    /\ dpc' = "exited"
    /\ UNCHANGED <<status, disk, main, upload, channels, queued, snapshot, workvars, bounds>>

\* Every blocking point of the dispatcher also watches the context.
DispatchExit ==
    /\ Cancelled /\ dpc \in {"select", "backoff", "list", "send"}
    /\ dpc' = "exited"
    /\ UNCHANGED <<status, disk, main, upload, channels, queued, snapshot, workvars, bounds>>

Dispatch == DispatchWake \/ DispatchRetry \/ DispatchBackoff \/ DispatchList
            \/ DispatchListFails \/ DispatchOffer \/ DispatchSend
            \/ DispatchDone \/ DispatchExit

-----------------------------------------------------------------------------
(* worker() and process().                                                 *)

WorkerGoto(w, pc) == wpc' = [wpc EXCEPT ![w] = pc]

\* A worker that receives after the context was cancelled drops the photo.
WorkerTake(w) ==
    /\ wpc[w] = "idle" /\ queue # <<>>
    /\ queue' = Tail(queue)
    /\ IF Cancelled
       THEN WorkerGoto(w, "exited") /\ UNCHANGED wphoto
       ELSE WorkerGoto(w, "open") /\ wphoto' = [wphoto EXCEPT ![w] = Head(queue)]
    /\ UNCHANGED <<status, disk, main, upload, wake, retry, queued, dispvars, moved, bounds>>

WorkerExit(w) ==
    /\ Cancelled /\ wpc[w] = "idle"
    /\ WorkerGoto(w, "exited")
    /\ UNCHANGED <<status, disk, main, upload, channels, queued, dispvars, wphoto, moved, bounds>>

\* imaging.Open: a missing or undecodable original is an error, so is a
\* transient failure to read it.
WorkerOpen(w) ==
    /\ wpc[w] = "open"
    /\ \/ /\ wphoto[w] \in originals \ Corrupt
          /\ WorkerGoto(w, "display")
          /\ UNCHANGED faults
       \/ /\ wphoto[w] \notin originals \ Corrupt
          /\ WorkerGoto(w, "rmDisplay")
          /\ UNCHANGED faults
       \/ Fault("disk") /\ WorkerGoto(w, "rmDisplay")
    /\ UNCHANGED <<status, disk, main, upload, channels, queued, dispvars, wphoto, moved, stops>>

\* saveImageAtomically replaces the whole file or leaves it alone.
WorkerDisplay(w) ==
    /\ wpc[w] = "display"
    /\ \/ /\ displays' = displays \union {wphoto[w]}
          /\ WorkerGoto(w, "thumb")
          /\ UNCHANGED faults
       \/ /\ Fault("disk")
          /\ WorkerGoto(w, "rmDisplay")
          /\ UNCHANGED displays
    /\ UNCHANGED <<status, originals, thumbs, main, upload, channels, queued, dispvars, wphoto, moved, stops>>

\* Seeded bug: the error of the second derivative is dropped.
WorkerThumbUnchecked(w) ==
    /\ wpc[w] = "thumb"
    /\ WorkerGoto(w, "ready")
    /\ \/ thumbs' = thumbs \union {wphoto[w]} /\ UNCHANGED faults
       \/ Fault("disk") /\ UNCHANGED thumbs
    /\ UNCHANGED <<status, originals, displays, main, upload, channels, queued, dispvars, wphoto, moved, stops>>

WorkerThumb(w) ==
    /\ wpc[w] = "thumb"
    /\ \/ /\ thumbs' = thumbs \union {wphoto[w]}
          /\ WorkerGoto(w, "ready")
          /\ UNCHANGED faults
       \/ /\ Fault("disk")
          /\ WorkerGoto(w, "rmDisplay")
          /\ UNCHANGED thumbs
    /\ UNCHANGED <<status, originals, displays, main, upload, channels, queued, dispvars, wphoto, moved, stops>>

WorkerRemoveDisplay(w) ==
    /\ wpc[w] = "rmDisplay"
    /\ displays' = displays \ {wphoto[w]}
    /\ WorkerGoto(w, "rmThumb")
    /\ UNCHANGED <<status, originals, thumbs, main, upload, channels, queued, dispvars, wphoto, moved, bounds>>

\* After the cleanup process() returns false if the context is cancelled.
WorkerRemoveThumb(w) ==
    /\ wpc[w] = "rmThumb"
    /\ thumbs' = thumbs \ {wphoto[w]}
    /\ WorkerGoto(w, IF Cancelled THEN "release" ELSE "fail")
    /\ UNCHANGED <<status, originals, displays, main, upload, channels, queued, dispvars, wphoto, moved, bounds>>

\* Seeded bug: UPDATE ... WHERE id = p.
TransitionUnguarded(p, to) == status' = [status EXCEPT ![p] = to]

\* transition(): UPDATE ... WHERE id = p AND status = 'pending'.
Transition(p, to) ==
    status' = IF status[p] = "pending" THEN [status EXCEPT ![p] = to] ELSE status

\* Seeded bug: an error of MarkReady is handled like one of the derivatives.
WorkerMarkOrCleanUp(w, pc, to) ==
    /\ wpc[w] = pc
    /\ \/ /\ ~Cancelled
          /\ Transition(wphoto[w], to)
          /\ moved' = [moved EXCEPT ![w] = (status[wphoto[w]] = "pending")]
          /\ WorkerGoto(w, "release")
          /\ UNCHANGED faults
       \/ /\ (Cancelled /\ UNCHANGED faults) \/ Fault("db")
          /\ Transition(wphoto[w], to) \/ UNCHANGED status
          /\ WorkerGoto(w, IF pc = "ready" THEN "rmDisplay" ELSE "release")
          /\ UNCHANGED moved
    /\ UNCHANGED <<disk, main, upload, channels, queued, dispvars, wphoto, stops>>

\* MarkReady / MarkFailed and the value process() returns: false when no
\* pending row matched, and when the statement failed, whether or not it
\* had taken effect.  A cancelled context fails it at no cost in faults.
WorkerMark(w, pc, to) ==
    /\ wpc[w] = pc
    /\ WorkerGoto(w, "release")
    /\ \/ /\ ~Cancelled
          /\ Transition(wphoto[w], to)
          /\ moved' = [moved EXCEPT ![w] = (status[wphoto[w]] = "pending")]
          /\ UNCHANGED faults
       \/ /\ (Cancelled /\ UNCHANGED faults) \/ Fault("db")
          /\ Transition(wphoto[w], to) \/ UNCHANGED status
          /\ UNCHANGED moved
    /\ UNCHANGED <<disk, main, upload, channels, queued, dispvars, wphoto, stops>>

WorkerRelease(w) ==
    /\ wpc[w] = "release"
    /\ queued' = queued \ {wphoto[w]}
    /\ wphoto' = [wphoto EXCEPT ![w] = NoPhoto]
    /\ WorkerGoto(w, "signal")
    /\ UNCHANGED <<status, disk, main, upload, channels, dispvars, moved, bounds>>

\* Seeded bug: a photo that was not moved is not retried.
WorkerSignalNoRetry(w) ==
    /\ wpc[w] = "signal"
    /\ IF moved[w] THEN Notify ELSE UNCHANGED <<wake, retry>>
    /\ moved' = [moved EXCEPT ![w] = FALSE]
    /\ WorkerGoto(w, "idle")
    /\ UNCHANGED <<status, disk, main, upload, queue, queued, dispvars, wphoto, bounds>>

WorkerSignal(w) ==
    /\ wpc[w] = "signal"
    /\ IF moved[w] THEN Notify ELSE ScheduleRetry
    /\ moved' = [moved EXCEPT ![w] = FALSE]
    /\ WorkerGoto(w, "idle")
    /\ UNCHANGED <<status, disk, main, upload, queue, queued, dispvars, wphoto, bounds>>

Worker(w) ==
    \/ WorkerTake(w) \/ WorkerExit(w) \/ WorkerOpen(w) \/ WorkerDisplay(w)
    \/ WorkerThumb(w) \/ WorkerRemoveDisplay(w) \/ WorkerRemoveThumb(w)
    \/ WorkerMark(w, "fail", "failed") \/ WorkerMark(w, "ready", "ready")
    \/ WorkerRelease(w) \/ WorkerSignal(w)

-----------------------------------------------------------------------------
Next ==
    \/ Start \/ StartNotify \/ Cancel \/ StopAccepting \/ Exit \/ Crash
    \/ \E p \in Photos : Upload(p)
    \/ Dispatch
    \/ \E w \in Workers : Worker(w)

\* The Go scheduler runs every goroutine that can run, and the operator
\* restarts a stopped process.  Nothing forces a request, a shutdown or a
\* crash to begin; a request that has begun goes on.
Fairness ==
    /\ WF_vars(Start) /\ WF_vars(StartNotify) /\ WF_vars(StopAccepting) /\ WF_vars(Exit)
    /\ \A p \in Photos : WF_vars(upload[p] # "idle" /\ Upload(p))
    /\ WF_vars(Dispatch)
    /\ \A w \in Workers : WF_vars(Worker(w))

Spec == Init /\ [][Next]_vars
FairSpec == Spec /\ Fairness
-----------------------------------------------------------------------------
(* Properties.                                                             *)

\* Each variable has its type; the dispatcher has a photo in hand when it
\* sends, a worker exactly while it processes one.
TypeOK ==
    /\ status \in [Photos -> Statuses]
    /\ originals \subseteq Photos /\ displays \subseteq Photos /\ thumbs \subseteq Photos
    /\ main \in MainPcs
    /\ upload \in [Photos -> UploadPcs]
    /\ wake \in BOOLEAN /\ retry \in BOOLEAN
    /\ queue \in Seq(Photos) /\ Len(queue) <= QueueCap
    /\ queued \subseteq Photos
    /\ dpc \in DispPcs /\ snapshot \in Seq(Photos)
    /\ wpc \in [Workers -> WorkerPcs]
    /\ wphoto \in [Workers -> Photos \union {NoPhoto}]
    /\ moved \in [Workers -> BOOLEAN]
    /\ faults \in Nat /\ stops \in Nat
    /\ dpc = "send" => snapshot # <<>>
    /\ \A w \in Workers :
          wphoto[w] = NoPhoto <=> wpc[w] \in {"idle", "signal", "exited"}

\* Two workers never process the same photo at once (they would write and
\* remove the same two files): what the queued map is for.
OneOwner ==
    \A v, w \in Workers : v # w /\ wphoto[v] # NoPhoto => wphoto[v] # wphoto[w]

\* A pending row that somebody is answerable for.  A row whose upload was
\* answered with an error is nobody's until the next start.
Owed(p) == status[p] = "pending" /\ upload[p] \notin {"remove", "refused"}

\* Nothing is running, and nothing is signalled that would make it run.
Quiet == /\ main = "serving" /\ ~wake /\ ~retry /\ dpc = "select" /\ queue = <<>>
         /\ \A w \in Workers : wpc[w] = "idle"
         /\ \A p \in Photos : upload[p] # "notify"

\* No lost wake-up: notify and scheduleRetry drop a signal when the slot is
\* taken, the dispatcher skips photos in the queued map, and a page is
\* limited; still the service never goes quiet over a pending row.
NoStrandedPhoto == Quiet => \A p \in Photos : ~Owed(p)

\* An upload that was answered with success has its row and its original,
\* whatever fails or stops afterwards.
AcknowledgedKept ==
    \A p \in Photos : upload[p] = "done" => status[p] # "absent" /\ p \in originals

\* MarkReady takes effect only while both derivatives are in the directory.
ReadyWhenComplete ==
    [][\A p \in Photos : status[p] # "ready" /\ status'[p] = "ready"
                         => p \in displays \intersect thumbs]_vars

\* A ready row has both derivatives, which is what Resolve serves.
ReadyHasDerivatives ==
    \A p \in Photos : status[p] = "ready" => p \in displays \intersect thumbs

\* Statement failures, shutdowns and crashes never make process() fail a
\* photo that can be decoded.
OnlyCorruptFails == \A p \in Photos : status[p] = "failed" => p \in Corrupt

\* Close returns, wherever it finds the dispatcher and the workers.
CloseReturns == main = "waiting" ~> main = "down"

\* What the pipeline promises of the rows, see PhotoLifecycle.
Lifecycle == INSTANCE PhotoLifecycle WITH
    row <- status,
    promised <- {p \in Photos : upload[p] \in {"done", "past"} /\ status[p] # "absent"}
ImplementsLifecycle == Lifecycle!Spec
KeepsLifecyclePromise == Lifecycle!FairSpec
=============================================================================
