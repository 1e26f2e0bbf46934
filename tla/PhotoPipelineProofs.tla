------------------------- MODULE PhotoPipelineProofs -------------------------
(* Theorems about PhotoPipeline, for every value of its constants. *)
EXTENDS PhotoPipeline, TLAPS

USE DEF disk, channels, dispvars, workvars, bounds

\* A page is a sequence of photos.
LEMMA PageIsSeq ==
    ASSUME NEW n \in Nat, NEW S, NEW page \in [1..n -> S]
    PROVE  page \in Seq(S)
  OBVIOUS

\* Steps of the process keep the types.
LEMMA TypeProcess ==
    TypeOK /\ (Start \/ StartNotify \/ Cancel \/ StopAccepting \/ Exit \/ Crash) => TypeOK'
  <1> SUFFICES ASSUME TypeOK, Start \/ StartNotify \/ Cancel \/ StopAccepting \/ Exit \/ Crash
               PROVE  TypeOK'
    OBVIOUS
  <1> USE DEF TypeOK, MainPcs
  <1>1. CASE Start \/ Cancel \/ StopAccepting
    BY <1>1 DEF Start, Cancel, StopAccepting
  <1>2. CASE StartNotify
    BY <1>2 DEF StartNotify, Notify, Signal
  <1>3. CASE Exit \/ Crash
    <2>1. Die
      BY <1>3 DEF Exit, Crash
    <2>2. upload' \in [Photos -> UploadPcs]
      BY <2>1 DEF Die, UploadPcs
    <2>3. /\ wpc' \in [Workers -> WorkerPcs]
          /\ wphoto' \in [Workers -> Photos \union {NoPhoto}]
          /\ moved' \in [Workers -> BOOLEAN]
          /\ \A w \in Workers : wphoto'[w] = NoPhoto /\ wpc'[w] = "idle"
      BY <2>1 DEF Die, WorkerPcs
    <2>4. /\ main' \in MainPcs /\ wake' = FALSE /\ retry' = FALSE
          /\ queue' \in Seq(Photos) /\ Len(queue') <= QueueCap /\ queued' \subseteq Photos
          /\ dpc' \in DispPcs /\ dpc' # "send" /\ snapshot' \in Seq(Photos)
          /\ stops' \in Nat
      BY <2>1, PhotoAssumption DEF Die, DispPcs
    <2>5. UNCHANGED <<status, disk, faults>>
      BY <2>1 DEF Die
    <2> QED
      BY <2>2, <2>3, <2>4, <2>5
  <1> QED
    BY <1>1, <1>2, <1>3

LEMMA TypeUpload ==
    ASSUME TypeOK, NEW p \in Photos, Upload(p) PROVE TypeOK'
  <1> USE DEF TypeOK, UploadPcs, UploadGoto
  <1>1. CASE UploadCheck(p)
    BY <1>1 DEF UploadCheck
  <1>2. CASE UploadCopy(p)
    BY <1>2 DEF UploadCopy, Fault
  <1>3. CASE UploadCreate(p)
    <2>1. status' \in [Photos -> Statuses]
      BY <1>3 DEF UploadCreate, Statuses
    <2>2. upload' \in [Photos -> UploadPcs]
      BY <1>3 DEF UploadCreate
    <2>3. faults' \in Nat
      BY <1>3 DEF UploadCreate, Fault
    <2>4. UNCHANGED <<disk, main, channels, queued, dispvars, workvars, stops>>
      BY <1>3 DEF UploadCreate
    <2> QED
      BY <2>1, <2>2, <2>3, <2>4
  <1>4. CASE UploadRemove(p)
    BY <1>4 DEF UploadRemove
  <1>5. CASE UploadNotify(p)
    BY <1>5 DEF UploadNotify, Notify, Signal
  <1> QED
    BY <1>1, <1>2, <1>3, <1>4, <1>5 DEF Upload

LEMMA TypeDispatch == TypeOK /\ Dispatch => TypeOK'
  <1> SUFFICES ASSUME TypeOK, Dispatch PROVE TypeOK'
    OBVIOUS
  <1> USE DEF TypeOK, DispPcs
  <1>1. CASE DispatchWake \/ DispatchRetry \/ DispatchBackoff \/ DispatchDone \/ DispatchExit
    BY <1>1 DEF DispatchWake, DispatchRetry, DispatchBackoff, DispatchDone, DispatchExit
  <1>2. CASE DispatchList
    <2>1. PICK n \in 0..QueueCap : \E page \in [1..n -> Pending] : snapshot' = page
      BY <1>2 DEF DispatchList
    <2>2. snapshot' \in Seq(Pending)
      BY <2>1, PhotoAssumption, PageIsSeq
    <2>3. snapshot' \in Seq(Photos)
      BY <2>2 DEF Pending
    <2> QED
      BY <1>2, <2>3 DEF DispatchList
  <1>3. CASE DispatchListFails
    BY <1>3 DEF DispatchListFails, Fault
  <1>4. CASE DispatchOffer
    <2>1. dpc' \in DispPcs /\ queued' \subseteq Photos /\ snapshot' \in Seq(Photos)
      <3>1. Head(snapshot) \in Photos /\ Tail(snapshot) \in Seq(Photos)
        BY <1>4 DEF DispatchOffer
      <3> QED
        BY <1>4, <3>1 DEF DispatchOffer
    <2>2. dpc' = "send" => snapshot' # <<>>
      BY <1>4 DEF DispatchOffer
    <2>3. UNCHANGED <<status, disk, main, upload, channels, workvars, bounds>>
      BY <1>4 DEF DispatchOffer
    <2> QED
      BY <2>1, <2>2, <2>3
  <1>5. CASE DispatchSend
    <2>1. Head(snapshot) \in Photos /\ snapshot' \in Seq(Photos) /\ dpc' = "offer"
      BY <1>5 DEF DispatchSend
    <2>3. queue' \in Seq(Photos) /\ Len(queue') = Len(queue) + 1
      BY <1>5, <2>1 DEF DispatchSend
    <2>4. Len(queue') <= QueueCap
      BY <1>5, <2>3, PhotoAssumption DEF DispatchSend
    <2>2. UNCHANGED <<status, disk, main, upload, wake, retry, queued, workvars, bounds>>
      BY <1>5 DEF DispatchSend
    <2> QED
      BY <2>1, <2>2, <2>3, <2>4
  <1> QED
    BY <1>1, <1>2, <1>3, <1>4, <1>5 DEF Dispatch

LEMMA TypeWorker ==
    ASSUME TypeOK, NEW w \in Workers, Worker(w) PROVE TypeOK'
  <1> USE PhotoAssumption DEF TypeOK, WorkerPcs, WorkerGoto, NoPhoto
  <1>1. CASE WorkerTake(w)
    <2>1. queue' \in Seq(Photos) /\ Len(queue') <= QueueCap /\ Head(queue) \in Photos
      BY <1>1 DEF WorkerTake
    <2>2. /\ wpc' \in [Workers -> WorkerPcs]
          /\ wphoto' \in [Workers -> Photos \union {NoPhoto}]
      BY <1>1, <2>1 DEF WorkerTake
    <2>3. ASSUME NEW v \in Workers
          PROVE  wphoto'[v] = NoPhoto <=> wpc'[v] \in {"idle", "signal", "exited"}
      <3>1. CASE v # w
        <4>1. wphoto'[v] = wphoto[v] /\ wpc'[v] = wpc[v]
          BY <1>1, <3>1 DEF WorkerTake
        <4> QED BY <4>1
      <3>2. CASE v = w /\ Cancelled
        <4>1. wphoto'[v] = wphoto[v] /\ wpc'[v] = "exited" /\ wpc[v] = "idle"
          BY <1>1, <3>2 DEF WorkerTake
        <4> QED BY <4>1
      <3>3. CASE v = w /\ ~Cancelled
        <4>1. wphoto'[v] = Head(queue) /\ wpc'[v] = "open"
          BY <1>1, <3>3 DEF WorkerTake
        <4> QED BY <4>1, <2>1
      <3> QED BY <3>1, <3>2, <3>3
    <2>4. UNCHANGED <<status, disk, main, upload, wake, retry, queued, dispvars, moved, bounds>>
      BY <1>1 DEF WorkerTake
    <2> QED
      BY <2>1, <2>2, <2>3, <2>4
  <1>2. CASE WorkerExit(w)
    BY <1>2 DEF WorkerExit
  <1>3. CASE WorkerOpen(w)
    <2>1. /\ wpc' \in [Workers -> WorkerPcs] /\ wphoto' = wphoto
          /\ \A v \in Workers :
                wphoto'[v] = NoPhoto <=> wpc'[v] \in {"idle", "signal", "exited"}
      BY <1>3 DEF WorkerOpen
    <2>2. faults' \in Nat
      BY <1>3 DEF WorkerOpen, Fault
    <2>3. UNCHANGED <<status, disk, main, upload, channels, queued, dispvars, moved, stops>>
      BY <1>3 DEF WorkerOpen
    <2> QED
      BY <2>1, <2>2, <2>3
  <1>4. CASE WorkerDisplay(w)
    <2>1. /\ wpc' \in [Workers -> WorkerPcs] /\ wphoto' = wphoto
          /\ \A v \in Workers :
                wphoto'[v] = NoPhoto <=> wpc'[v] \in {"idle", "signal", "exited"}
      BY <1>4 DEF WorkerDisplay
    <2>2. faults' \in Nat
      BY <1>4 DEF WorkerDisplay, Fault
    <2>3. displays' \subseteq Photos
      <3>1. wphoto[w] \in Photos
        BY <1>4 DEF WorkerDisplay
      <3> QED
        BY <1>4, <3>1 DEF WorkerDisplay
    <2>4. UNCHANGED <<status, originals, thumbs, main, upload, channels, queued, dispvars, moved, stops>>
      BY <1>4 DEF WorkerDisplay
    <2> QED
      BY <2>1, <2>2, <2>3, <2>4
  <1>5. CASE WorkerThumb(w)
    <2>1. /\ wpc' \in [Workers -> WorkerPcs] /\ wphoto' = wphoto
          /\ \A v \in Workers :
                wphoto'[v] = NoPhoto <=> wpc'[v] \in {"idle", "signal", "exited"}
      BY <1>5 DEF WorkerThumb
    <2>2. faults' \in Nat
      BY <1>5 DEF WorkerThumb, Fault
    <2>3. thumbs' \subseteq Photos
      <3>1. wphoto[w] \in Photos
        BY <1>5 DEF WorkerThumb
      <3> QED
        BY <1>5, <3>1 DEF WorkerThumb
    <2>4. UNCHANGED <<status, originals, displays, main, upload, channels, queued, dispvars, moved, stops>>
      BY <1>5 DEF WorkerThumb
    <2> QED
      BY <2>1, <2>2, <2>3, <2>4
  <1>6. CASE WorkerRemoveDisplay(w)
    BY <1>6 DEF WorkerRemoveDisplay
  <1>7. CASE WorkerRemoveThumb(w)
    BY <1>7 DEF WorkerRemoveThumb
  <1>8. ASSUME NEW pc \in {"fail", "ready"}, NEW to \in {"failed", "ready"}, WorkerMark(w, pc, to)
        PROVE  TypeOK'
    <2>1. /\ wpc' \in [Workers -> WorkerPcs] /\ wphoto' = wphoto
          /\ \A v \in Workers :
                wphoto'[v] = NoPhoto <=> wpc'[v] \in {"idle", "signal", "exited"}
      BY <1>8 DEF WorkerMark
    <2>2. faults' \in Nat
      BY <1>8 DEF WorkerMark, Fault
    <2>3. status' \in [Photos -> Statuses]
      BY <1>8 DEF WorkerMark, Transition, Statuses
    <2>4. moved' \in [Workers -> BOOLEAN]
      BY <1>8 DEF WorkerMark
    <2>5. UNCHANGED <<disk, main, upload, channels, queued, dispvars, stops>>
      BY <1>8 DEF WorkerMark
    <2> QED
      BY <2>1, <2>2, <2>3, <2>4, <2>5
  <1>9. CASE WorkerRelease(w)
    BY <1>9 DEF WorkerRelease
  <1>10. CASE WorkerSignal(w)
    BY <1>10 DEF WorkerSignal, Notify, ScheduleRetry, Signal
  <1> QED
    BY <1>1, <1>2, <1>3, <1>4, <1>5, <1>6, <1>7, <1>8, <1>9, <1>10 DEF Worker

LEMMA TypeInit == Init => TypeOK
  <1> SUFFICES ASSUME Init PROVE TypeOK
    OBVIOUS
  <1>1. /\ status \in [Photos -> Statuses] /\ upload \in [Photos -> UploadPcs]
        /\ originals \subseteq Photos /\ displays \subseteq Photos /\ thumbs \subseteq Photos
        /\ main \in MainPcs /\ wake \in BOOLEAN /\ retry \in BOOLEAN
    BY DEF Init, Statuses, UploadPcs, MainPcs
  <1>2. /\ queue \in Seq(Photos) /\ Len(queue) <= QueueCap /\ queued \subseteq Photos
        /\ dpc \in DispPcs /\ dpc # "send" /\ snapshot \in Seq(Photos)
        /\ faults \in Nat /\ stops \in Nat
    BY PhotoAssumption DEF Init, DispPcs
  <1>3. /\ wpc \in [Workers -> WorkerPcs] /\ moved \in [Workers -> BOOLEAN]
        /\ wphoto \in [Workers -> Photos \union {NoPhoto}]
        /\ \A w \in Workers : wphoto[w] = NoPhoto /\ wpc[w] = "idle"
    BY DEF Init, WorkerPcs
  <1> QED
    BY <1>1, <1>2, <1>3 DEF TypeOK

LEMMA TypeStep == TypeOK /\ [Next]_vars => TypeOK'
  <1> SUFFICES ASSUME TypeOK, [Next]_vars PROVE TypeOK'
    OBVIOUS
  <1>1. CASE UNCHANGED vars
    BY <1>1 DEF TypeOK, vars
  <1>2. CASE Next
    BY <1>2, TypeProcess, TypeUpload, TypeDispatch, TypeWorker DEF Next
  <1> QED
    BY <1>1, <1>2

\* Every variable keeps its type, a sending dispatcher has a photo in hand,
\* and a worker has one exactly while it processes it.
THEOREM TypeCorrect == Spec => []TypeOK
  BY TypeInit, TypeStep, PTL DEF Spec

-----------------------------------------------------------------------------
(* One owner for each dispatched photo.  A photo in the queued map is in   *)
(* exactly one of three hands: the dispatcher's while it sends, the        *)
(* queue's, a worker's.                                                    *)

InQueue(p) == \E i \in 1..Len(queue) : queue[i] = p
Sending(p) == dpc = "send" /\ Head(snapshot) = p
Held(p)    == \E w \in Workers : wphoto[w] = p

\* Only photos of the queued map are in somebody's hands.
OwnedAreQueued ==
    \A p \in Photos : InQueue(p) \/ Sending(p) \/ Held(p) => p \in queued

\* No photo is in two hands.
Disjoint ==
    /\ \A i, j \in 1..Len(queue) : queue[i] = queue[j] => i = j
    /\ \A p \in Photos : /\ InQueue(p) => ~Sending(p) /\ ~Held(p)
                         /\ Sending(p) => ~Held(p)
    /\ \A v, w \in Workers : v # w /\ wphoto[v] # NoPhoto => wphoto[v] # wphoto[w]

\* While the service runs, nobody loses a photo of the queued map.
QueuedAreOwned ==
    ~Cancelled => \A p \in queued : InQueue(p) \/ Sending(p) \/ Held(p)

\* Between two pages nothing is left of the last one.
PageConsumed == dpc \in {"select", "backoff", "list"} => snapshot = <<>>

OwnerInv == TypeOK /\ OwnedAreQueued /\ Disjoint /\ QueuedAreOwned /\ PageConsumed

LEMMA OwnerFrame ==
    ASSUME OwnerInv, TypeOK', UNCHANGED <<queue, queued, dispvars, wphoto>>,
           Cancelled => Cancelled'
    PROVE  OwnerInv'
  BY DEF OwnerInv, OwnedAreQueued, Disjoint, QueuedAreOwned, PageConsumed,
         InQueue, Sending, Held

LEMMA OwnerDispatch ==
    ASSUME OwnerInv, TypeOK', Dispatch PROVE OwnerInv'
  <1> USE DEF OwnerInv
  <1>1. CASE DispatchWake \/ DispatchRetry \/ DispatchBackoff \/ DispatchListFails \/ DispatchDone
    BY <1>1 DEF DispatchWake, DispatchRetry, DispatchBackoff, DispatchListFails, DispatchDone,
            OwnedAreQueued, Disjoint, QueuedAreOwned, PageConsumed, InQueue, Sending, Held, Cancelled
  <1>2. CASE DispatchList
    BY <1>2 DEF DispatchList,
            OwnedAreQueued, Disjoint, QueuedAreOwned, PageConsumed, InQueue, Sending, Held, Cancelled
  <1>3. CASE DispatchOffer
    <2> DEFINE h == Head(snapshot)
    <2>1. /\ dpc = "offer" /\ h \in Photos /\ snapshot # <<>>
          /\ UNCHANGED <<queue, wphoto>> /\ Cancelled' = Cancelled
          /\ dpc' \in {"offer", "send"}
      BY <1>3 DEF DispatchOffer, TypeOK, Cancelled
    <2>2. \A p : ~Sending(p) /\ InQueue(p)' = InQueue(p) /\ Held(p)' = Held(p)
      BY <2>1 DEF Sending, InQueue, Held
    <2>3. CASE h \in queued
      <3>1. queued' = queued /\ dpc' = "offer"
        BY <1>3, <2>1, <2>3 DEF DispatchOffer
      <3>2. \A p : ~Sending(p)'
        BY <3>1 DEF Sending
      <3> QED
        BY <2>1, <2>2, <3>1, <3>2 DEF OwnedAreQueued, Disjoint, QueuedAreOwned, PageConsumed
    <2>4. CASE h \notin queued
      <3>1. queued' = queued \union {h} /\ dpc' = "send" /\ snapshot' = snapshot
        BY <1>3, <2>1, <2>4 DEF DispatchOffer
      <3>2. \A p : Sending(p)' <=> p = h
        BY <3>1 DEF Sending
      <3>3. ~InQueue(h) /\ ~Held(h)
        BY <2>1, <2>4 DEF OwnedAreQueued
      <3>4. OwnedAreQueued' /\ QueuedAreOwned'
        BY <2>1, <2>2, <3>1, <3>2 DEF OwnedAreQueued, QueuedAreOwned
      <3>5. Disjoint'
        BY <2>1, <2>2, <3>2, <3>3 DEF Disjoint
      <3> QED
        BY <3>1, <3>4, <3>5 DEF PageConsumed
    <2> QED
      BY <2>3, <2>4
  <1>4. CASE DispatchSend
    <2> DEFINE h == Head(snapshot)
    <2>1. /\ dpc = "send" /\ dpc' = "offer" /\ h \in Photos
          /\ queue \in Seq(Photos) /\ queue' = Append(queue, h)
          /\ UNCHANGED <<queued, wphoto>> /\ Cancelled' = Cancelled
      BY <1>4 DEF DispatchSend, TypeOK, Cancelled
    <2>2. /\ Len(queue') = Len(queue) + 1 /\ Len(queue) \in Nat
          /\ \A i \in 1..Len(queue) : queue'[i] = queue[i]
          /\ queue'[Len(queue) + 1] = h
      BY <2>1
    <2>3. \A p : InQueue(p)' <=> InQueue(p) \/ p = h
      BY <2>2 DEF InQueue
    <2>4. \A p : (Sending(p) <=> p = h) /\ ~Sending(p)' /\ Held(p)' = Held(p)
      BY <2>1 DEF Sending, Held
    <2>5. ~InQueue(h) /\ ~Held(h)
      BY <2>1, <2>4 DEF Disjoint
    <2>6. \A i, j \in 1..Len(queue') : queue'[i] = queue'[j] => i = j
      BY <2>2, <2>5 DEF Disjoint, InQueue
    <2>7. Disjoint'
      BY <2>1, <2>3, <2>4, <2>5, <2>6 DEF Disjoint
    <2>8. OwnedAreQueued' /\ QueuedAreOwned'
      BY <2>1, <2>3, <2>4 DEF OwnedAreQueued, QueuedAreOwned
    <2> QED
      BY <2>1, <2>7, <2>8 DEF PageConsumed
  <1>5. CASE DispatchExit
    BY <1>5 DEF DispatchExit,
            OwnedAreQueued, Disjoint, QueuedAreOwned, PageConsumed, InQueue, Sending, Held, Cancelled
  <1> QED
    BY <1>1, <1>2, <1>3, <1>4, <1>5 DEF Dispatch


LEMMA OwnerTake ==
    ASSUME OwnerInv, TypeOK', NEW w \in Workers, WorkerTake(w) PROVE OwnerInv'
  <1> USE DEF OwnerInv
  <1>0. PICK h : h = Head(queue)
    OBVIOUS
  <1>1. /\ queue \in Seq(Photos) /\ Len(queue) \in Nat /\ Len(queue) # 0
        /\ queue' = Tail(queue) /\ h \in Photos /\ h = queue[1]
        /\ Len(queue') = Len(queue) - 1
        /\ \A i \in 1..Len(queue') : queue'[i] = queue[i + 1]
        /\ UNCHANGED <<queued, dispvars>> /\ Cancelled' = Cancelled
        /\ wphoto[w] = NoPhoto
    BY <1>0 DEF WorkerTake, TypeOK, Cancelled
  <1>2. \A p : Sending(p)' = Sending(p)
    BY <1>1 DEF Sending
  <1>3. \A p : InQueue(p) <=> InQueue(p)' \/ p = h
    <2>1. ASSUME NEW p, InQueue(p), p # h PROVE InQueue(p)'
      <3>1. PICK i \in 1..Len(queue) : queue[i] = p
        BY <2>1 DEF InQueue
      <3>2. i - 1 \in 1..Len(queue') /\ queue'[i - 1] = p
        BY <1>1, <2>1, <3>1
      <3> QED
        BY <3>2 DEF InQueue
    <2>2. ASSUME NEW p, InQueue(p)' PROVE InQueue(p)
      <3>1. PICK i \in 1..Len(queue') : queue'[i] = p
        BY <2>2 DEF InQueue
      <3>2. i + 1 \in 1..Len(queue) /\ queue[i + 1] = p
        BY <1>1, <3>1
      <3> QED
        BY <3>2 DEF InQueue
    <2>3. InQueue(h)
      BY <1>1 DEF InQueue
    <2> QED
      BY <2>1, <2>2, <2>3
  <1>4. ~InQueue(h)'
    <2> SUFFICES ASSUME NEW i \in 1..Len(queue'), queue'[i] = h PROVE FALSE
      BY DEF InQueue
    <2>1. i + 1 \in 1..Len(queue) /\ 1 \in 1..Len(queue) /\ queue[i + 1] = queue[1] /\ i + 1 # 1
      BY <1>1
    <2>2. \A k, l \in 1..Len(queue) : queue[k] = queue[l] => k = l
      BY DEF Disjoint
    <2> QED
      BY <2>1, <2>2
  <1>5. \A i, j \in 1..Len(queue') : queue'[i] = queue'[j] => i = j
    BY <1>1 DEF Disjoint
  <1>6. CASE Cancelled
    <2>1. wphoto' = wphoto
      BY <1>6 DEF WorkerTake
    <2> QED
      BY <1>1, <1>2, <1>3, <1>5, <1>6, <2>1
         DEF OwnedAreQueued, Disjoint, QueuedAreOwned, PageConsumed, Held
  <1>7. CASE ~Cancelled
    <2>1. wphoto' = [wphoto EXCEPT ![w] = h] /\ wphoto \in [Workers -> Photos \union {NoPhoto}]
      BY <1>0, <1>7 DEF WorkerTake, TypeOK
    <2>2. \A p \in Photos : Held(p)' <=> Held(p) \/ p = h
      BY <1>1, <2>1, PhotoAssumption DEF Held
    <2>3. InQueue(h) /\ ~Sending(h) /\ ~Held(h) /\ h \in queued
      BY <1>1, <1>3 DEF Disjoint, OwnedAreQueued
    <2>4. \A u, v \in Workers : u # v /\ wphoto'[u] # NoPhoto => wphoto'[u] # wphoto'[v]
      BY <2>1, <2>3 DEF Disjoint, Held
    <2>5. ASSUME NEW p \in Photos
          PROVE  (InQueue(p)' => ~Sending(p)' /\ ~Held(p)') /\ (Sending(p)' => ~Held(p)')
      <3>1. CASE p = h
        BY <1>2, <1>4, <2>3, <3>1
      <3>2. CASE p # h
        BY <1>2, <1>3, <2>2, <3>2 DEF Disjoint
      <3> QED
        BY <3>1, <3>2
    <2>7. Disjoint'
      BY <1>5, <2>4, <2>5 DEF Disjoint
    <2>6. OwnedAreQueued' /\ QueuedAreOwned'
      BY <1>1, <1>2, <1>3, <2>2, <2>3 DEF OwnedAreQueued, QueuedAreOwned, TypeOK
    <2> QED
      BY <1>1, <2>6, <2>7 DEF PageConsumed
  <1> QED
    BY <1>6, <1>7

LEMMA OwnerRelease ==
    ASSUME OwnerInv, TypeOK', NEW w \in Workers, WorkerRelease(w) PROVE OwnerInv'
  <1> USE DEF OwnerInv
  <1> DEFINE h == wphoto[w]
  <1>1. /\ queued' = queued \ {h} /\ UNCHANGED <<queue, dispvars>> /\ Cancelled' = Cancelled
        /\ wphoto' = [wphoto EXCEPT ![w] = NoPhoto]
        /\ wphoto \in [Workers -> Photos \union {NoPhoto}] /\ queued \subseteq Photos
        /\ h # NoPhoto /\ h \in Photos
    BY DEF WorkerRelease, TypeOK, Cancelled
  <1>2. \A p : InQueue(p)' = InQueue(p) /\ Sending(p)' = Sending(p)
    BY <1>1 DEF InQueue, Sending
  <1>3. Held(h) /\ ~InQueue(h) /\ ~Sending(h)
    BY <1>1 DEF Held, Disjoint
  <1>4. \A p \in Photos : Held(p)' <=> Held(p) /\ p # h
    BY <1>1, PhotoAssumption DEF Held, Disjoint
  <1>5. \A u, v \in Workers : u # v /\ wphoto'[u] # NoPhoto => wphoto'[u] # wphoto'[v]
    BY <1>1 DEF Disjoint
  <1>6. Disjoint'
    BY <1>1, <1>2, <1>4, <1>5 DEF Disjoint
  <1>7. OwnedAreQueued' /\ QueuedAreOwned'
    BY <1>1, <1>2, <1>3, <1>4 DEF OwnedAreQueued, QueuedAreOwned
  <1> QED
    BY <1>1, <1>6, <1>7 DEF PageConsumed

LEMMA OwnerDie == ASSUME TypeOK', Die PROVE OwnerInv'
  <1>1. /\ ~Cancelled' /\ snapshot' = <<>> /\ queued' = {} /\ dpc' = "select"
        /\ Len(queue') = 0 /\ \A w \in Workers : wphoto'[w] = NoPhoto
    BY DEF Die, Cancelled
  <1>2. \A p \in Photos : ~InQueue(p)' /\ ~Sending(p)' /\ ~Held(p)'
    BY <1>1, PhotoAssumption DEF InQueue, Sending, Held
  <1> QED
    BY <1>1, <1>2 DEF OwnerInv, OwnedAreQueued, Disjoint, QueuedAreOwned, PageConsumed

LEMMA OwnerStep == OwnerInv /\ [Next]_vars => OwnerInv'
  <1> SUFFICES ASSUME OwnerInv, [Next]_vars PROVE OwnerInv'
    OBVIOUS
  <1>0. TypeOK'
    BY TypeStep DEF OwnerInv
  <1>1. CASE Start \/ StartNotify \/ Cancel \/ StopAccepting
    BY <1>0, <1>1, OwnerFrame DEF Start, StartNotify, Cancel, StopAccepting, Cancelled
  <1>2. CASE Exit \/ Crash
    BY <1>0, <1>2, OwnerDie DEF Exit, Crash
  <1>3. ASSUME NEW p \in Photos, Upload(p) PROVE OwnerInv'
    BY <1>0, <1>3, OwnerFrame DEF Upload, UploadCheck, UploadCopy, UploadCreate, UploadRemove,
                                  UploadNotify, Cancelled
  <1>4. CASE Dispatch
    BY <1>0, <1>4, OwnerDispatch
  <1>5. ASSUME NEW w \in Workers, Worker(w) PROVE OwnerInv'
    <2>1. CASE WorkerTake(w)
      BY <1>0, <2>1, OwnerTake
    <2>2. CASE WorkerRelease(w)
      BY <1>0, <2>2, OwnerRelease
    <2>3. ASSUME NEW pc, NEW to, WorkerMark(w, pc, to) PROVE OwnerInv'
      BY <1>0, <2>3, OwnerFrame DEF WorkerMark, Cancelled
    <2>4. CASE WorkerExit(w) \/ WorkerOpen(w) \/ WorkerDisplay(w) \/ WorkerThumb(w)
               \/ WorkerRemoveDisplay(w) \/ WorkerRemoveThumb(w) \/ WorkerSignal(w)
      BY <1>0, <2>4, OwnerFrame DEF WorkerExit, WorkerOpen, WorkerDisplay, WorkerThumb,
            WorkerRemoveDisplay, WorkerRemoveThumb, WorkerSignal, Cancelled
    <2> QED
      BY <1>5, <2>1, <2>2, <2>3, <2>4 DEF Worker
  <1>6. CASE UNCHANGED vars
    BY <1>0, <1>6, OwnerFrame DEF vars, Cancelled
  <1> QED
    BY <1>1, <1>2, <1>3, <1>4, <1>5, <1>6 DEF Next

LEMMA OwnerCorrect == Spec => []OwnerInv
  <1>1. Init => OwnerInv
    <2> SUFFICES ASSUME Init PROVE OwnerInv
      OBVIOUS
    <2>1. TypeOK
      BY TypeInit
    <2>2. /\ ~Cancelled /\ snapshot = <<>> /\ queued = {} /\ dpc = "select"
          /\ Len(queue) = 0 /\ \A w \in Workers : wphoto[w] = NoPhoto
      BY DEF Init, Cancelled
    <2>3. \A p \in Photos : ~InQueue(p) /\ ~Sending(p) /\ ~Held(p)
      BY <2>2, PhotoAssumption DEF InQueue, Sending, Held
    <2> QED
      BY <2>1, <2>2, <2>3 DEF OwnerInv, OwnedAreQueued, Disjoint, QueuedAreOwned, PageConsumed
  <1> QED
    BY <1>1, OwnerStep, PTL DEF Spec

\* However the dispatcher, the workers and the requests interleave, two
\* workers never process the same photo at once.
THEOREM OneOwnerPerPhoto == Spec => []OneOwner
  <1>1. OwnerInv => OneOwner
    BY DEF OwnerInv, Disjoint, OneOwner
  <1> QED
    BY <1>1, OwnerCorrect, PTL

-----------------------------------------------------------------------------
(* Acknowledged uploads.  A request stores the original before it inserts  *)
(* the row, and is the only one that removes it, after a failed insert.    *)

KeptInv ==
    /\ TypeOK
    /\ \A p \in Photos :
          /\ upload[p] \in {"idle", "copy", "create"} => status[p] = "absent"
          /\ upload[p] \in {"create", "notify", "done"} => p \in originals
          /\ upload[p] \in {"notify", "done"} => status[p] # "absent"

\* No step but those of requests and of the end of the process matters.
LEMMA KeptFrame ==
    ASSUME KeptInv, TypeOK', UNCHANGED <<originals, upload>>,
           \A p \in Photos : status'[p] = "absent" <=> status[p] = "absent"
    PROVE  KeptInv'
  BY DEF KeptInv

LEMMA MarkKeepsRows ==
    ASSUME TypeOK, NEW w \in Workers, NEW pc, NEW to \in Final, WorkerMark(w, pc, to)
    PROVE  \A p \in Photos : status'[p] = "absent" <=> status[p] = "absent"
  BY DEF TypeOK, WorkerMark, Transition, Final

LEMMA KeptStep == KeptInv /\ [Next]_vars => KeptInv'
  <1> SUFFICES ASSUME KeptInv, [Next]_vars PROVE KeptInv'
    OBVIOUS
  <1>0. TypeOK /\ TypeOK'
    BY TypeStep DEF KeptInv
  <1>1. CASE Start \/ StartNotify \/ Cancel \/ StopAccepting \/ Dispatch \/ UNCHANGED vars
    <2>1. UNCHANGED <<status, originals, upload>>
      BY <1>1 DEF Start, StartNotify, Cancel, StopAccepting, Dispatch, DispatchWake,
           DispatchRetry, DispatchBackoff, DispatchList, DispatchListFails, DispatchOffer,
           DispatchSend, DispatchDone, DispatchExit, vars
    <2> QED
      BY <1>0, <2>1, KeptFrame
  <1>2. CASE Exit \/ Crash
    BY <1>0, <1>2 DEF Exit, Crash, Die, KeptInv
  <1>3. ASSUME NEW p \in Photos, Upload(p) PROVE KeptInv'
    <2> USE DEF KeptInv, UploadGoto
    <2>1. upload \in [Photos -> UploadPcs]
      BY <1>0 DEF TypeOK
    <2>2. CASE UploadCheck(p)
      BY <1>0, <2>1, <2>2 DEF UploadCheck
    <2>3. CASE UploadCopy(p)
      BY <1>0, <2>1, <2>3 DEF UploadCopy
    <2>4. CASE UploadCreate(p)
      BY <1>0, <2>1, <2>4 DEF UploadCreate, TypeOK
    <2>5. CASE UploadRemove(p)
      BY <1>0, <2>1, <2>5 DEF UploadRemove
    <2>6. CASE UploadNotify(p)
      BY <1>0, <2>1, <2>6 DEF UploadNotify
    <2> QED
      BY <1>3, <2>2, <2>3, <2>4, <2>5, <2>6 DEF Upload
  <1>4. ASSUME NEW w \in Workers, Worker(w) PROVE KeptInv'
    <2>1. CASE WorkerMark(w, "fail", "failed") \/ WorkerMark(w, "ready", "ready")
      <3>1. UNCHANGED <<originals, upload>>
        BY <2>1 DEF WorkerMark
      <3> QED
        BY <1>0, <2>1, <3>1, MarkKeepsRows, KeptFrame DEF Final
    <2>2. CASE ~(WorkerMark(w, "fail", "failed") \/ WorkerMark(w, "ready", "ready"))
      <3>1. UNCHANGED <<status, originals, upload>>
        BY <1>4, <2>2 DEF Worker, WorkerTake, WorkerExit, WorkerOpen, WorkerDisplay,
             WorkerThumb, WorkerRemoveDisplay, WorkerRemoveThumb, WorkerRelease, WorkerSignal
      <3> QED
        BY <1>0, <3>1, KeptFrame
    <2> QED
      BY <2>1, <2>2
  <1> QED
    BY <1>1, <1>2, <1>3, <1>4 DEF Next

LEMMA KeptCorrect == Spec => []KeptInv
  <1>1. Init => KeptInv
    BY TypeInit DEF Init, KeptInv
  <1> QED
    BY <1>1, KeptStep, PTL DEF Spec

\* The row and the original of an upload that was answered with success
\* outlive transient faults, shutdowns and crashes.
THEOREM AcknowledgedUploadsKept == Spec => []AcknowledgedKept
  <1>1. KeptInv => AcknowledgedKept
    BY DEF KeptInv, AcknowledgedKept
  <1> QED
    BY <1>1, KeptCorrect, PTL

-----------------------------------------------------------------------------
(* No lost wake-up.  While a row is owed, some signal is in a channel or   *)
(* about to be sent, or the dispatcher is about to list, or it still has   *)
(* photos to offer, or some photo is out: its release comes before a       *)
(* signal.  In the last two cases the row itself may be beyond the page.   *)

Stirring ==
    \/ wake \/ retry
    \/ dpc \in {"backoff", "list"}
    \/ snapshot # <<>>
    \/ queued # {}
    \/ \E w \in Workers : wpc[w] = "signal"
    \/ \E p \in Photos : upload[p] = "notify"

WakeInv == main = "serving" /\ (\E p \in Photos : Owed(p)) => Stirring

\* Steps that neither add an owed row nor take a reason to stir away.
LEMMA WakeFrame ==
    ASSUME WakeInv, main' = "serving" => main = "serving",
           \A p \in Photos : Owed(p)' => Owed(p),
           Stirring => Stirring'
    PROVE  WakeInv'
  BY DEF WakeInv

LEMMA WakeUpload ==
    ASSUME OwnerInv, WakeInv, NEW p \in Photos, Upload(p) PROVE WakeInv'
  <1> USE DEF UploadGoto
  <1>1. upload \in [Photos -> UploadPcs] /\ status \in [Photos -> Statuses]
    BY DEF OwnerInv, TypeOK
  <1>2. CASE UploadCheck(p) \/ UploadCopy(p)
    BY <1>1, <1>2, WakeFrame DEF UploadCheck, UploadCopy, Owed, Stirring
  <1>3. CASE UploadCreate(p)
    <2>1. CASE upload'[p] = "notify"
      BY <2>1 DEF WakeInv, Stirring
    <2>2. CASE upload'[p] = "remove"
      BY <1>1, <1>3, <2>2, WakeFrame DEF UploadCreate, Owed, Stirring
    <2> QED
      BY <1>1, <1>3, <2>1, <2>2 DEF UploadCreate
  <1>4. CASE UploadRemove(p)
    BY <1>1, <1>4, WakeFrame DEF UploadRemove, Owed, Stirring
  <1>5. CASE UploadNotify(p)
    BY <1>5 DEF UploadNotify, Notify, Signal, Started, Cancelled, WakeInv, Stirring
  <1> QED
    BY <1>2, <1>3, <1>4, <1>5 DEF Upload

LEMMA WakeDispatch ==
    ASSUME OwnerInv, WakeInv, Dispatch PROVE WakeInv'
  <1>1. UNCHANGED <<main, upload, status>>
    BY DEF Dispatch, DispatchWake, DispatchRetry, DispatchBackoff, DispatchList,
       DispatchListFails, DispatchOffer, DispatchSend, DispatchDone, DispatchExit
  <1>2. \A p \in Photos : Owed(p)' = Owed(p)
    BY <1>1 DEF Owed
  <1>3. CASE DispatchWake \/ DispatchRetry \/ DispatchBackoff \/ DispatchListFails
    BY <1>3 DEF DispatchWake, DispatchRetry, DispatchBackoff, DispatchListFails, WakeInv, Stirring
  <1>4. CASE DispatchList
    <2>1. ASSUME NEW p \in Photos, Owed(p) PROVE snapshot' # <<>>
      <3>1. PICK n \in 0..QueueCap : \E page \in [1..n -> Pending] :
                    IsPendingPage(page) /\ snapshot' = page
        BY <1>4 DEF DispatchList
      <3>2. PICK page \in [1..n -> Pending] : IsPendingPage(page) /\ snapshot' = page
        BY <3>1
      <3>3. p \in Pending
        BY <2>1 DEF Owed, Pending
      <3>4. (\E i \in DOMAIN page : page[i] = p) \/ Len(page) = QueueCap
        BY <3>2, <3>3 DEF IsPendingPage
      <3>5. page # <<>>
        BY <3>4, PhotoAssumption
      <3> QED
        BY <3>2, <3>5
    <2> QED
      BY <1>2, <2>1 DEF WakeInv, Stirring
  <1>5. CASE DispatchOffer
    <2>1. queued' # {}
      BY <1>5 DEF DispatchOffer
    <2> QED
      BY <2>1 DEF WakeInv, Stirring
  <1>6. CASE DispatchSend
    <2>1. Head(snapshot) \in queued
      BY <1>6 DEF DispatchSend, OwnerInv, TypeOK, OwnedAreQueued, Sending
    <2>2. queued' # {}
      BY <1>6, <2>1 DEF DispatchSend
    <2> QED
      BY <2>2 DEF WakeInv, Stirring
  <1>7. CASE DispatchDone
    BY <1>1, <1>2, <1>7, WakeFrame DEF DispatchDone, Stirring
  <1>8. CASE DispatchExit
    BY <1>1, <1>8 DEF DispatchExit, Cancelled, WakeInv
  <1> QED
    BY <1>3, <1>4, <1>5, <1>6, <1>7, <1>8 DEF Dispatch

LEMMA WakeWorker ==
    ASSUME OwnerInv, WakeInv, NEW w \in Workers, Worker(w) PROVE WakeInv'
  <1> USE DEF WorkerGoto
  <1>1. wpc \in [Workers -> WorkerPcs] /\ status \in [Photos -> Statuses]
    BY DEF OwnerInv, TypeOK
  <1>2. CASE WorkerRelease(w)
    <2>1. wpc'[w] = "signal"
      BY <1>1, <1>2 DEF WorkerRelease
    <2> QED
      BY <2>1 DEF WakeInv, Stirring
  <1>3. CASE WorkerSignal(w)
    <2>1. main' = "serving" => wake' \/ retry'
      BY <1>3 DEF WorkerSignal, Notify, ScheduleRetry, Signal, Started, Cancelled
    <2> QED
      BY <2>1 DEF WakeInv, Stirring
  <1>4. ASSUME NEW pc \in {"ready", "fail"}, NEW to \in Final, WorkerMark(w, pc, to) PROVE WakeInv'
    <2>1. \A p \in Photos : Owed(p)' => Owed(p)
      BY <1>1, <1>4 DEF WorkerMark, Transition, Owed, Final
    <2>2. Stirring => Stirring'
      BY <1>1, <1>4 DEF WorkerMark, Stirring
    <2>3. main' = main
      BY <1>4 DEF WorkerMark
    <2> QED
      BY <2>1, <2>2, <2>3, WakeFrame
  <1>5. CASE WorkerTake(w) \/ WorkerExit(w) \/ WorkerOpen(w) \/ WorkerDisplay(w)
             \/ WorkerThumb(w) \/ WorkerRemoveDisplay(w) \/ WorkerRemoveThumb(w)
    <2>1. /\ UNCHANGED <<main, status, upload, wake, retry, dpc, snapshot, queued>>
          /\ wpc[w] # "signal"
          /\ \E pc : wpc' = [wpc EXCEPT ![w] = pc]
      BY <1>5 DEF WorkerTake, WorkerExit, WorkerOpen, WorkerDisplay,
         WorkerThumb, WorkerRemoveDisplay, WorkerRemoveThumb
    <2>2. \A p \in Photos : Owed(p)' = Owed(p)
      BY <2>1 DEF Owed
    <2>3. Stirring => Stirring'
      BY <1>1, <2>1 DEF Stirring
    <2> QED
      BY <2>1, <2>2, <2>3, WakeFrame
  <1> QED
    BY <1>2, <1>3, <1>4, <1>5 DEF Worker, Final

LEMMA WakeStep == OwnerInv /\ WakeInv /\ [Next]_vars => WakeInv'
  <1> SUFFICES ASSUME OwnerInv, WakeInv, [Next]_vars PROVE WakeInv'
    OBVIOUS
  <1>1. CASE Start \/ Cancel \/ StopAccepting \/ Exit \/ Crash
    BY <1>1 DEF Start, Cancel, StopAccepting, Exit, Crash, Die, WakeInv
  <1>2. CASE StartNotify
    BY <1>2 DEF StartNotify, Notify, Signal, Started, Cancelled, WakeInv, Stirring
  <1>3. CASE UNCHANGED vars
    BY <1>3 DEF vars, WakeInv, Owed, Stirring
  <1> QED
    BY <1>1, <1>2, <1>3, WakeUpload, WakeDispatch, WakeWorker DEF Next

\* The service never goes quiet over an owed row: signals may be dropped,
\* photos skipped and pages cut off without losing one.
THEOREM NoLostWakeup == Spec => []NoStrandedPhoto
  <1>1. Init => WakeInv
    BY DEF Init, WakeInv
  <1>2. Spec => []WakeInv
    BY <1>1, OwnerCorrect, WakeStep, PTL DEF Spec
  <1>3. OwnerInv /\ WakeInv => NoStrandedPhoto
    <2> SUFFICES ASSUME OwnerInv, WakeInv, Quiet PROVE \A p \in Photos : ~Owed(p)
      BY DEF NoStrandedPhoto
    <2>1. main = "serving" /\ ~Cancelled /\ dpc = "select" /\ snapshot = <<>>
      BY DEF Quiet, Cancelled, OwnerInv, PageConsumed
    <2>2. \A p : ~InQueue(p) /\ ~Sending(p)
      <3>1. Len(queue) = 0
        BY DEF Quiet
      <3> QED
        BY <2>1, <3>1 DEF InQueue, Sending
    <2>3. \A p \in Photos : ~Held(p)
      BY PhotoAssumption DEF Quiet, Held, OwnerInv, TypeOK
    <2>4. queued = {}
      BY <2>1, <2>2, <2>3 DEF OwnerInv, TypeOK, QueuedAreOwned
    <2> QED
      BY <2>1, <2>4 DEF Quiet, WakeInv, Stirring
  <1> QED
    BY <1>2, <1>3, OwnerCorrect, PTL

-----------------------------------------------------------------------------
(* A photo becomes ready only with both derivatives in the directory: what *)
(* its worker has saved stays until it marks the row, because nobody else  *)
(* holds the photo.                                                        *)

SavedInv ==
    \A w \in Workers :
        /\ wpc[w] \in {"thumb", "ready"} => wphoto[w] \in displays
        /\ wpc[w] = "ready" => wphoto[w] \in thumbs

LEMMA SavedFrame ==
    ASSUME SavedInv, UNCHANGED <<displays, thumbs, wpc, wphoto>> PROVE SavedInv'
  BY DEF SavedInv

LEMMA SavedWorker ==
    ASSUME OwnerInv, SavedInv, NEW w \in Workers, Worker(w) PROVE SavedInv'
  <1> USE DEF SavedInv, WorkerGoto
  <1>1. /\ wpc \in [Workers -> WorkerPcs] /\ wphoto \in [Workers -> Photos \union {NoPhoto}]
        /\ \A v \in Workers : wphoto[v] = NoPhoto <=> wpc[v] \in {"idle", "signal", "exited"}
        /\ \A u, v \in Workers : u # v /\ wphoto[u] # NoPhoto => wphoto[u] # wphoto[v]
    BY DEF OwnerInv, TypeOK, Disjoint
  <1>2. CASE WorkerTake(w)
    BY <1>1, <1>2 DEF WorkerTake
  <1>3. CASE WorkerExit(w) \/ WorkerOpen(w) \/ WorkerRelease(w) \/ WorkerSignal(w)
    BY <1>1, <1>3 DEF WorkerExit, WorkerOpen, WorkerRelease, WorkerSignal
  <1>4. CASE WorkerDisplay(w)
    BY <1>1, <1>4 DEF WorkerDisplay
  <1>5. CASE WorkerThumb(w)
    BY <1>1, <1>5 DEF WorkerThumb
  <1>6. CASE WorkerRemoveDisplay(w)
    BY <1>1, <1>6 DEF WorkerRemoveDisplay
  <1>7. CASE WorkerRemoveThumb(w)
    BY <1>1, <1>7 DEF WorkerRemoveThumb
  <1>8. CASE WorkerMark(w, "fail", "failed") \/ WorkerMark(w, "ready", "ready")
    BY <1>1, <1>8 DEF WorkerMark
  <1> QED
    BY <1>2, <1>3, <1>4, <1>5, <1>6, <1>7, <1>8 DEF Worker

LEMMA SavedStep == OwnerInv /\ SavedInv /\ [Next]_vars => SavedInv'
  <1> SUFFICES ASSUME OwnerInv, SavedInv, [Next]_vars PROVE SavedInv'
    OBVIOUS
  <1>1. CASE Start \/ StartNotify \/ Cancel \/ StopAccepting \/ Dispatch \/ UNCHANGED vars
    BY <1>1, SavedFrame DEF Start, StartNotify, Cancel, StopAccepting, Dispatch, DispatchWake,
       DispatchRetry, DispatchBackoff, DispatchList, DispatchListFails, DispatchOffer,
       DispatchSend, DispatchDone, DispatchExit, vars
  <1>2. CASE Exit \/ Crash
    BY <1>2 DEF Exit, Crash, Die, SavedInv
  <1>3. ASSUME NEW p \in Photos, Upload(p) PROVE SavedInv'
    BY <1>3, SavedFrame DEF Upload, UploadCheck, UploadCopy, UploadCreate, UploadRemove, UploadNotify
  <1> QED
    BY <1>1, <1>2, <1>3, SavedWorker DEF Next

\* The step that makes a row ready finds both derivatives in place.
THEOREM ReadyOnlyWhenComplete == Spec => ReadyWhenComplete
  <1> DEFINE Complete == \A p \in Photos : status[p] # "ready" /\ status'[p] = "ready"
                                            => p \in displays \intersect thumbs
  <1>1. Init => SavedInv
    BY DEF Init, SavedInv
  <1>2. OwnerInv /\ SavedInv /\ [Next]_vars => [Complete]_vars
    <2> SUFFICES ASSUME OwnerInv, SavedInv, Next, NEW p \in Photos,
                        status[p] # "ready", status'[p] = "ready"
                 PROVE  p \in displays \intersect thumbs
      OBVIOUS
    <2>1. status \in [Photos -> Statuses] /\ status' # status
      BY DEF OwnerInv, TypeOK
    <2>2. ~(Start \/ StartNotify \/ Cancel \/ StopAccepting \/ Exit \/ Crash \/ Dispatch)
      BY <2>1 DEF Start, StartNotify, Cancel, StopAccepting, Exit, Crash, Die, Dispatch,
         DispatchWake, DispatchRetry, DispatchBackoff, DispatchList, DispatchListFails,
         DispatchOffer, DispatchSend, DispatchDone, DispatchExit
    <2>3. ~ \E q \in Photos : Upload(q)
      BY <2>1 DEF Upload, UploadCheck, UploadCopy, UploadCreate, UploadRemove, UploadNotify
    <2>4. PICK w \in Workers : Worker(w)
      BY <2>2, <2>3 DEF Next
    <2>5. WorkerMark(w, "fail", "failed") \/ WorkerMark(w, "ready", "ready")
      BY <2>1, <2>4 DEF Worker, WorkerTake, WorkerExit, WorkerOpen, WorkerDisplay,
           WorkerThumb, WorkerRemoveDisplay, WorkerRemoveThumb, WorkerRelease, WorkerSignal
    <2>6. wpc[w] = "ready" /\ p = wphoto[w]
      BY <2>1, <2>5 DEF WorkerMark, Transition
    <2> QED
      BY <2>6 DEF SavedInv
  <1> QED
    BY <1>1, <1>2, OwnerCorrect, SavedStep, PTL DEF Spec, ReadyWhenComplete

-----------------------------------------------------------------------------
(* The pipeline implements the safety part of PhotoLifecycle: the commit   *)
(* of Create is Accept, an acknowledgement or the end of the process       *)
(* Promise, a mark that takes effect Settle.                               *)

Promised == {p \in Photos : upload[p] \in {"done", "past"} /\ status[p] # "absent"}

LEMMA LifecycleStutter ==
    ASSUME UNCHANGED <<status, Promised>> PROVE [Lifecycle!Next]_(Lifecycle!vars)
  BY DEF Lifecycle!vars, Promised

LEMMA LifecycleUpload ==
    ASSUME KeptInv, NEW p \in Photos, Upload(p) PROVE [Lifecycle!Next]_(Lifecycle!vars)
  <1> USE DEF UploadGoto
  <1>1. upload \in [Photos -> UploadPcs] /\ status \in [Photos -> Statuses]
    BY DEF KeptInv, TypeOK
  <1>2. CASE UploadCheck(p) \/ UploadCopy(p) \/ UploadRemove(p)
    BY <1>1, <1>2, LifecycleStutter DEF UploadCheck, UploadCopy, UploadRemove, Promised
  <1>3. CASE UploadCreate(p)
    <2>1. status[p] = "absent" /\ Promised' = Promised
      BY <1>1, <1>3 DEF UploadCreate, KeptInv, Promised
    <2>2. CASE status' = status
      BY <2>1, <2>2, LifecycleStutter
    <2>3. CASE status' = [status EXCEPT ![p] = "pending"]
      BY <2>1, <2>3 DEF Lifecycle!Next, Lifecycle!Accept, Promised
    <2> QED
      BY <1>3, <2>2, <2>3 DEF UploadCreate
  <1>4. CASE UploadNotify(p)
    <2>1. status[p] # "absent" /\ status' = status
      BY <1>1, <1>4 DEF UploadNotify, KeptInv
    <2>2. Promised' = Promised \union {p}
      BY <1>1, <1>4, <2>1 DEF UploadNotify, Promised
    <2> QED
      BY <2>1, <2>2 DEF Lifecycle!Next, Lifecycle!Promise, Promised
  <1> QED
    BY <1>2, <1>3, <1>4 DEF Upload

LEMMA LifecycleWorker ==
    ASSUME TypeOK, NEW w \in Workers, Worker(w) PROVE [Lifecycle!Next]_(Lifecycle!vars)
  <1>1. ASSUME NEW pc \in {"ready", "fail"}, NEW to \in Final, WorkerMark(w, pc, to)
        PROVE  [Lifecycle!Next]_(Lifecycle!vars)
    <2> DEFINE q == wphoto[w]
    <2>1. upload' = upload /\ (status' = status \/ Transition(q, to))
      BY <1>1 DEF WorkerMark
    <2>2. Promised' = Promised
      BY <2>1 DEF TypeOK, Transition, Promised, Final
    <2>3. CASE status' = status
      BY <2>2, <2>3, LifecycleStutter
    <2>4. CASE status[q] = "pending" /\ status' = [status EXCEPT ![q] = to]
      <3>1. q \in Photos
        BY <1>1 DEF TypeOK, WorkerMark
      <3>2. Lifecycle!Settle(q)
        BY <2>2, <2>4 DEF Lifecycle!Settle, Promised, Final
      <3> QED
        BY <3>1, <3>2 DEF Lifecycle!Next
    <2> QED
      BY <2>1, <2>3, <2>4 DEF Transition
  <1>2. CASE ~ \E pc \in {"ready", "fail"}, to \in Final : WorkerMark(w, pc, to)
    <2>1. UNCHANGED <<status, upload>>
      BY <1>2 DEF Worker, WorkerTake, WorkerExit, WorkerOpen, WorkerDisplay, WorkerThumb,
         WorkerRemoveDisplay, WorkerRemoveThumb, WorkerRelease, WorkerSignal, Final
    <2> QED
      BY <2>1, LifecycleStutter DEF Promised
  <1> QED
    BY <1>1, <1>2

\* Whatever is scheduled, lost or restarted, a row is inserted pending,
\* changes status at most once and is never deleted.
THEOREM PipelineImplementsLifecycle == Spec => ImplementsLifecycle
  <1>1. Init => Lifecycle!Init
    BY DEF Init, Lifecycle!Init
  <1>2. KeptInv /\ [Next]_vars => [Lifecycle!Next]_(Lifecycle!vars)
    <2> SUFFICES ASSUME KeptInv, [Next]_vars PROVE [Lifecycle!Next]_(Lifecycle!vars)
      OBVIOUS
    <2>1. CASE Start \/ StartNotify \/ Cancel \/ StopAccepting \/ Dispatch \/ UNCHANGED vars
      <3>1. UNCHANGED <<status, upload>>
        BY <2>1 DEF Start, StartNotify, Cancel, StopAccepting, Dispatch, DispatchWake,
           DispatchRetry, DispatchBackoff, DispatchList, DispatchListFails, DispatchOffer,
           DispatchSend, DispatchDone, DispatchExit, vars
      <3> QED
        BY <3>1, LifecycleStutter DEF Promised
    <2>2. CASE Exit \/ Crash
      <3>0. PICK S : S = Promised'
        OBVIOUS
      <3>1. S \in SUBSET Photos /\ Promised' = Promised \union S
        BY <2>2, <3>0 DEF Exit, Crash, Die, Promised
      <3>2. status' = status /\ \A p \in S : status[p] # "absent"
        BY <2>2, <3>0 DEF Exit, Crash, Die, Promised
      <3>3. Lifecycle!Promise(S)
        BY <3>1, <3>2 DEF Lifecycle!Promise, Promised
      <3> QED
        BY <3>1, <3>3 DEF Lifecycle!Next
    <2> QED
      BY <2>1, <2>2, LifecycleUpload, LifecycleWorker DEF Next, KeptInv
  <1> QED
    BY <1>1, <1>2, KeptCorrect, PTL DEF Spec, ImplementsLifecycle, Lifecycle!Spec

-----------------------------------------------------------------------------
(* With a sound disk.  When no file operation fails and no answer to a     *)
(* commit is lost, a photo in anybody's hands has a row and an original,   *)
(* so that opening it tells the photos that cannot be decoded from all     *)
(* others: process cleans up after the former only, which never were       *)
(* ready, and a second pass over a ready photo does it no harm.            *)

SoundDisk == FaultKinds \subseteq {"db"}

Listed(p) == \E i \in 1..Len(snapshot) : snapshot[i] = p

\* A row has its original, and its upload has not been answered with an error.
RowsHaveOriginals ==
    \A p \in Photos :
        /\ upload[p] = "create" => p \in originals
        /\ status[p] # "absent" => p \in originals /\ upload[p] \in {"notify", "done", "past"}

\* The dispatcher, the queue and the workers have photos with rows.
HandsHaveRows ==
    \A p \in Photos : Listed(p) \/ InQueue(p) \/ Held(p) => status[p] # "absent"

\* A worker saves what can be decoded and cleans up after what cannot.
WorkersSort ==
    \A w \in Workers :
        /\ wpc[w] \in {"display", "thumb", "ready"} => wphoto[w] \notin Corrupt
        /\ wpc[w] \in {"rmDisplay", "rmThumb", "fail"} => wphoto[w] \in Corrupt

RowsSorted ==
    \A p \in Photos : /\ status[p] = "failed" => p \in Corrupt
                      /\ status[p] = "ready" => p \notin Corrupt /\ p \in displays \intersect thumbs

SoundInv == RowsHaveOriginals /\ HandsHaveRows /\ WorkersSort /\ RowsSorted

\* Steps of which nobody's photos, files and rows are part.
LEMMA SoundFrame ==
    ASSUME SoundInv,
           UNCHANGED <<status, disk, upload, queue, snapshot, wpc, wphoto>>
    PROVE  SoundInv'
  BY DEF SoundInv, RowsHaveOriginals, HandsHaveRows, WorkersSort, RowsSorted, Listed, InQueue, Held

LEMMA SoundDie ==
    ASSUME TypeOK, SoundInv, Die PROVE SoundInv'
  <1>1. /\ UNCHANGED <<status, disk>> /\ snapshot' = <<>> /\ queue' = <<>>
        /\ \A w \in Workers : wpc'[w] = "idle" /\ wphoto'[w] = NoPhoto
        /\ \A p \in Photos : upload'[p] = IF upload[p] \in {"idle", "done"} THEN upload[p] ELSE "past"
    BY DEF Die
  <1>2. \A p \in Photos : ~Listed(p)' /\ ~InQueue(p)' /\ ~Held(p)'
    BY <1>1, PhotoAssumption DEF Listed, InQueue, Held
  <1>3. HandsHaveRows' /\ WorkersSort'
    BY <1>1, <1>2 DEF HandsHaveRows, WorkersSort
  <1>4. RowsHaveOriginals' /\ RowsSorted'
    BY <1>1 DEF SoundInv, RowsHaveOriginals, RowsSorted
  <1> QED
    BY <1>3, <1>4 DEF SoundInv

LEMMA SoundUpload ==
    ASSUME SoundDisk, KeptInv, SoundInv, NEW p \in Photos, Upload(p) PROVE SoundInv'
  <1> USE DEF UploadGoto
  <1>1. /\ upload \in [Photos -> UploadPcs] /\ status \in [Photos -> Statuses]
        /\ UNCHANGED <<displays, thumbs, queue, snapshot, wpc, wphoto>>
    BY DEF KeptInv, TypeOK, Upload, UploadCheck, UploadCopy, UploadCreate, UploadRemove, UploadNotify
  <1>2. \A q \in Photos : status'[q] = status[q] \/ status'[q] = "pending"
    BY <1>1 DEF Upload, UploadCheck, UploadCopy, UploadCreate, UploadRemove, UploadNotify
  <1>3. HandsHaveRows' /\ WorkersSort' /\ RowsSorted'
    BY <1>1, <1>2 DEF SoundInv, HandsHaveRows, WorkersSort, RowsSorted, Listed, InQueue, Held
  <1>4. RowsHaveOriginals'
    <2> USE DEF SoundInv, RowsHaveOriginals, KeptInv
    <2>1. CASE UploadCheck(p)
      BY <1>1, <2>1 DEF UploadCheck
    <2>2. CASE UploadCopy(p)
      BY <1>1, <2>2 DEF UploadCopy
    <2>3. CASE UploadCreate(p)
      BY <1>1, <2>3 DEF UploadCreate, Fault, SoundDisk
    <2>4. CASE UploadRemove(p)
      BY <1>1, <2>4 DEF UploadRemove
    <2>5. CASE UploadNotify(p)
      BY <1>1, <2>5 DEF UploadNotify
    <2> QED
      BY <2>1, <2>2, <2>3, <2>4, <2>5 DEF Upload
  <1> QED
    BY <1>3, <1>4 DEF SoundInv

LEMMA SoundDispatch ==
    ASSUME TypeOK, SoundInv, Dispatch PROVE SoundInv'
  <1>1. UNCHANGED <<status, disk, upload, wpc, wphoto>>
    BY DEF Dispatch, DispatchWake, DispatchRetry, DispatchBackoff, DispatchList,
       DispatchListFails, DispatchOffer, DispatchSend, DispatchDone, DispatchExit
  <1>2. RowsHaveOriginals' /\ WorkersSort' /\ RowsSorted'
    BY <1>1 DEF SoundInv, RowsHaveOriginals, WorkersSort, RowsSorted
  <1>3. ASSUME NEW q \in Photos, Listed(q)' \/ InQueue(q)' \/ Held(q)'
        PROVE  Listed(q) \/ InQueue(q) \/ Held(q) \/ status[q] # "absent"
    <2>1. CASE UNCHANGED <<snapshot, queue>>
      BY <1>1, <1>3, <2>1 DEF Listed, InQueue, Held
    <2>2. CASE DispatchList
      <3>1. PICK n \in 0..QueueCap : \E page \in [1..n -> Pending] : snapshot' = page
        BY <2>2 DEF DispatchList
      <3>2. snapshot' \in Seq(Pending) /\ UNCHANGED queue
        BY <2>2, <3>1, PhotoAssumption, PageIsSeq DEF DispatchList
      <3>3. Listed(q)' => status[q] = "pending"
        BY <3>2 DEF Listed, Pending
      <3> QED
        BY <1>1, <1>3, <3>2, <3>3 DEF InQueue, Held
    <2>3. CASE snapshot # <<>> /\ snapshot' = Tail(snapshot) /\ UNCHANGED queue
      <3>1. snapshot \in Seq(Photos)
        BY DEF TypeOK
      <3>2. Listed(q)' => Listed(q)
        BY <2>3, <3>1 DEF Listed
      <3> QED
        BY <1>1, <1>3, <2>3, <3>2 DEF InQueue, Held
    <2>4. CASE DispatchSend
      <3>1. /\ snapshot \in Seq(Photos) /\ queue \in Seq(Photos) /\ snapshot # <<>>
            /\ snapshot' = Tail(snapshot) /\ queue' = Append(queue, Head(snapshot))
        BY <2>4 DEF TypeOK, DispatchSend
      <3>2. Listed(q)' => Listed(q)
        BY <3>1 DEF Listed
      <3>3. InQueue(q)' => InQueue(q) \/ q = snapshot[1]
        BY <3>1 DEF InQueue
      <3>4. q = snapshot[1] => Listed(q)
        BY <3>1 DEF Listed
      <3> QED
        BY <1>1, <1>3, <3>2, <3>3, <3>4 DEF Held
    <2> QED
      BY <2>1, <2>2, <2>3, <2>4 DEF Dispatch, DispatchWake, DispatchRetry, DispatchBackoff,
         DispatchListFails, DispatchOffer, DispatchDone, DispatchExit
  <1>4. HandsHaveRows'
    BY <1>1, <1>3 DEF SoundInv, HandsHaveRows
  <1> QED
    BY <1>2, <1>4 DEF SoundInv

LEMMA SoundWorker ==
    ASSUME SoundDisk, TypeOK, SavedInv, SoundInv, NEW w \in Workers, Worker(w) PROVE SoundInv'
  <1> DEFINE q == wphoto[w]
  <1> USE DEF WorkerGoto
  <1>1. /\ wpc \in [Workers -> WorkerPcs] /\ wphoto \in [Workers -> Photos \union {NoPhoto}]
        /\ \A v \in Workers : wphoto[v] = NoPhoto <=> wpc[v] \in {"idle", "signal", "exited"}
        /\ status \in [Photos -> Statuses] /\ queue \in Seq(Photos)
        /\ UNCHANGED <<originals, upload, snapshot>>
    BY DEF TypeOK, Worker, WorkerTake, WorkerExit, WorkerOpen, WorkerDisplay, WorkerThumb,
       WorkerRemoveDisplay, WorkerRemoveThumb, WorkerMark, WorkerRelease, WorkerSignal
  <1>2. \A p \in Photos : status'[p] = "absent" <=> status[p] = "absent"
    <2>1. CASE WorkerMark(w, "fail", "failed") \/ WorkerMark(w, "ready", "ready")
      BY <2>1, MarkKeepsRows DEF Final
    <2>2. CASE UNCHANGED status
      BY <2>2
    <2> QED
      BY <2>1, <2>2 DEF Worker, WorkerTake, WorkerExit, WorkerOpen, WorkerDisplay, WorkerThumb,
       WorkerRemoveDisplay, WorkerRemoveThumb, WorkerRelease, WorkerSignal
  <1>3. RowsHaveOriginals'
    BY <1>1, <1>2 DEF SoundInv, RowsHaveOriginals
  <1>4. ASSUME NEW p \in Photos, InQueue(p)' \/ Held(p)' PROVE InQueue(p) \/ Held(p)
    <2>1. CASE WorkerTake(w)
      <3>1. queue # <<>> /\ queue' = Tail(queue) /\ Head(queue) = queue[1]
        BY <1>1, <2>1 DEF WorkerTake
      <3>2. InQueue(p)' => InQueue(p)
        BY <1>1, <3>1 DEF InQueue
      <3>3. Held(p)' => Held(p) \/ p = queue[1]
        BY <1>1, <2>1, <3>1 DEF WorkerTake, Held
      <3>4. p = queue[1] => InQueue(p)
        BY <1>1, <3>1 DEF InQueue
      <3> QED
        BY <1>4, <3>2, <3>3, <3>4
    <2>2. CASE UNCHANGED <<queue, wphoto>>
      BY <1>4, <2>2 DEF InQueue, Held
    <2>3. CASE WorkerRelease(w)
      BY <1>1, <1>4, <2>3, PhotoAssumption DEF WorkerRelease, InQueue, Held
    <2> QED
      BY <2>1, <2>2, <2>3 DEF Worker, WorkerExit, WorkerOpen, WorkerDisplay, WorkerThumb,
         WorkerRemoveDisplay, WorkerRemoveThumb, WorkerMark, WorkerSignal
  <1>5. HandsHaveRows'
    BY <1>1, <1>2, <1>4 DEF SoundInv, HandsHaveRows, Listed
  <1>6. q # NoPhoto => q \in Photos /\ q \in originals
    <2> SUFFICES ASSUME q # NoPhoto PROVE q \in Photos /\ q \in originals
      OBVIOUS
    <2>1. q \in Photos /\ Held(q)
      BY <1>1 DEF Held
    <2> QED
      BY <2>1 DEF SoundInv, HandsHaveRows, RowsHaveOriginals
  <1>7. WorkersSort'
    <2> USE DEF SoundInv, WorkersSort
    <2>1. CASE WorkerTake(w) \/ WorkerExit(w) \/ WorkerRelease(w) \/ WorkerSignal(w)
      BY <1>1, <2>1 DEF WorkerTake, WorkerExit, WorkerRelease, WorkerSignal
    <2>2. CASE WorkerOpen(w)
      BY <1>1, <1>6, <2>2 DEF WorkerOpen, Fault, SoundDisk
    <2>3. CASE WorkerDisplay(w) \/ WorkerThumb(w)
      BY <1>1, <2>3 DEF WorkerDisplay, WorkerThumb, Fault, SoundDisk
    <2>4. CASE WorkerRemoveDisplay(w) \/ WorkerRemoveThumb(w)
      BY <1>1, <2>4 DEF WorkerRemoveDisplay, WorkerRemoveThumb
    <2>5. CASE WorkerMark(w, "fail", "failed") \/ WorkerMark(w, "ready", "ready")
      BY <1>1, <2>5 DEF WorkerMark
    <2> QED
      BY <2>1, <2>2, <2>3, <2>4, <2>5 DEF Worker
  <1>8. RowsSorted'
    <2> USE DEF SoundInv, RowsSorted
    <2>1. CASE UNCHANGED <<status, displays, thumbs>>
      BY <2>1
    <2>2. CASE WorkerDisplay(w) \/ WorkerThumb(w)
      BY <2>2 DEF WorkerDisplay, WorkerThumb
    <2>3. CASE WorkerRemoveDisplay(w) \/ WorkerRemoveThumb(w)
      BY <2>3 DEF WorkerRemoveDisplay, WorkerRemoveThumb, WorkersSort
    <2>4. CASE WorkerMark(w, "fail", "failed")
      BY <1>1, <2>4 DEF WorkerMark, Transition, WorkersSort
    <2>5. CASE WorkerMark(w, "ready", "ready")
      BY <1>1, <2>5 DEF WorkerMark, Transition, WorkersSort, SavedInv
    <2> QED
      BY <2>1, <2>2, <2>3, <2>4, <2>5 DEF Worker, WorkerTake, WorkerExit, WorkerOpen,
         WorkerRelease, WorkerSignal
  <1> QED
    BY <1>3, <1>5, <1>7, <1>8 DEF SoundInv

LEMMA SoundStep ==
    ASSUME SoundDisk
    PROVE  KeptInv /\ SavedInv /\ SoundInv /\ [Next]_vars => SoundInv'
  <1> SUFFICES ASSUME KeptInv, SavedInv, SoundInv, [Next]_vars PROVE SoundInv'
    OBVIOUS
  <1>1. TypeOK
    BY DEF KeptInv
  <1>2. CASE Start \/ StartNotify \/ Cancel \/ StopAccepting \/ UNCHANGED vars
    BY <1>2, SoundFrame DEF Start, StartNotify, Cancel, StopAccepting, vars
  <1>3. CASE Exit \/ Crash
    BY <1>1, <1>3, SoundDie DEF Exit, Crash
  <1> QED
    BY <1>1, <1>2, <1>3, SoundUpload, SoundDispatch, SoundWorker DEF Next

LEMMA SavedCorrect == Spec => []SavedInv
  <1>1. Init => SavedInv
    BY DEF Init, SavedInv
  <1> QED
    BY <1>1, OwnerCorrect, SavedStep, PTL DEF Spec

LEMMA SoundCorrect == ASSUME SoundDisk PROVE Spec => []SoundInv
  <1>1. Init => SoundInv
    BY PhotoAssumption DEF Init, SoundInv, RowsHaveOriginals, HandsHaveRows, WorkersSort,
       RowsSorted, Listed, InQueue, Held
  <1>2. KeptInv /\ SavedInv /\ SoundInv /\ [Next]_vars => SoundInv'
    BY SoundStep
  <1> QED
    BY <1>1, <1>2, KeptCorrect, SavedCorrect, PTL DEF Spec

\* While the disk does not fail, statements, shutdowns and crashes leave no
\* ready photo without its files, although a settled photo may be processed
\* a second time.
THEOREM ReadyPhotosHaveFiles == ASSUME SoundDisk PROVE Spec => []ReadyHasDerivatives
  <1>1. SoundInv => ReadyHasDerivatives
    BY DEF SoundInv, RowsSorted, ReadyHasDerivatives
  <1> QED
    BY <1>1, SoundCorrect, PTL

\* While the disk does not fail, a photo fails only if it cannot be decoded.
THEOREM OnlyCorruptPhotosFail == ASSUME SoundDisk PROVE Spec => []OnlyCorruptFails
  <1>1. SoundInv => OnlyCorruptFails
    BY DEF SoundInv, RowsSorted, OnlyCorruptFails
  <1> QED
    BY <1>1, SoundCorrect, PTL

=============================================================================
