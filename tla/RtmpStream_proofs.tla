-------------------------- MODULE RtmpStream_proofs --------------------------
(* For every number of players and packets: the worker writes from a copy of *)
(* the listeners that it renews only when the dirty flag is set, and still   *)
(* every listener gets every packet since it joined, and none after it left. *)
EXTENDS RtmpStream, TLAPS

\* What the worker does with its copy, and the packets left to send.
WorkerKeeps ==
  /\ pump = "sending" => sent < MaxPackets
  /\ worker # "waiting" /\ worker # "gone" => sent > 0
  /\ worker # "writing" => pending = {}
  /\ ~dirty => cache = listeners

\* Nothing is known yet of a player outside.
Untouched ==
  \A p \in Players : Outside(p) =>
    /\ p \notin listeners /\ p \notin cache /\ p \notin deleting
    /\ got[p] = {} /\ left[p] = MaxPackets

\* The last packet a listener has that works.
Last(p) == IF p \in pending THEN sent - 1 ELSE Dispatched

UpToDate ==
  \A p \in listeners :
    /\ left[p] = MaxPackets
    /\ joined[p] <= Last(p)
    /\ p \notin broken => got[p] = joined[p] + 1 .. Last(p)

\* The packet the worker is writing is the last one for a listener that left.
LeftInTime ==
  \A p \in Players :
    /\ \A k \in got[p] : k <= Dispatched /\ k <= left[p]
    /\ p \in pending => sent <= left[p]

Inv == WorkerKeeps /\ Untouched /\ UpToDate /\ LeftInTime

IInv == TypeOK /\ Inv

LEMMA InitHolds == Init => IInv
<1> SUFFICES ASSUME Init PROVE IInv OBVIOUS
<1>1. TypeOK
  <2>1. got \in [Players -> SUBSET Packets] BY DEF Init
  <2>2. joined \in [Players -> 0..MaxPackets] /\ left \in [Players -> 0..MaxPackets]
        /\ sent \in 0..MaxPackets
    BY StreamAssumption DEF Init
  <2>3. player \in [Players -> {"idle", "header", "stuck", "watching", "ended",
                               "cancelled", "offering", "left", "released"}]
    BY DEF Init
  <2> QED BY <2>1, <2>2, <2>3 DEF Init, TypeOK
<1>2. WorkerKeeps /\ Untouched /\ UpToDate /\ LeftInTime
  BY DEF Init, WorkerKeeps, Untouched, Outside, UpToDate, LeftInTime
<1> QED BY <1>1, <1>2 DEF IInv, Inv

-----------------------------------------------------------------------------
(* The publisher does not touch what the worker and the players know.       *)

LEMMA PublisherKeeps == ASSUME IInv, Publisher PROVE IInv'
<1>1. UNCHANGED <<sent, worker, pending, cache, listeners, dirty, deleting, player, broken,
                  got, joined, left>>
  BY DEF Publisher, WriteRTMPToStream, StreamsFails, GotStream, GotStreamFails, EndStream,
         WatchSource, CloseStream, ReadPacket, ReadFails, players, table, history, fanout
<1>2. /\ closed' \in BOOLEAN /\ source' \in BOOLEAN
      /\ publish' \in {"idle", "got", "waiting", "ended", "refused"}
      /\ pump' \in {"off", "reading", "sending", "gone"}
      /\ watcher' \in {"off", "waiting", "offering", "gone"}
  BY DEF IInv, TypeOK, Publisher, WriteRTMPToStream, StreamsFails, GotStream, GotStreamFails,
         EndStream, WatchSource, CloseStream, ReadPacket, ReadFails, publisher
<1>3. pump' = "sending" => sent < MaxPackets
  BY DEF IInv, Inv, WorkerKeeps, Publisher, WriteRTMPToStream, StreamsFails, GotStream,
         GotStreamFails, EndStream, WatchSource, CloseStream, ReadPacket, ReadFails, publisher
<1>4. TypeOK' BY <1>1, <1>2 DEF IInv, TypeOK
<1>5. WorkerKeeps' BY <1>1, <1>3 DEF IInv, Inv, WorkerKeeps
<1>6. Untouched' BY <1>1 DEF IInv, Inv, Untouched, Outside
<1>7. UpToDate' /\ LeftInTime' BY <1>1 DEF IInv, Inv, UpToDate, Last, LeftInTime, Dispatched
<1> QED BY <1>4, <1>5, <1>6, <1>7 DEF IInv, Inv

-----------------------------------------------------------------------------
(* The worker.                                                              *)

LEMMA DeliverKeeps == ASSUME IInv, Deliver PROVE IInv'
<1>1. /\ pump = "sending" /\ pump' = "reading" /\ worker = "waiting" /\ worker' = "received"
      /\ sent' = sent + 1 /\ sent < MaxPackets /\ sent \in Nat
      /\ UNCHANGED <<closed, publish, watcher, source, pending, cache, listeners, dirty, deleting,
                     player, broken, got, joined, left>>
  BY StreamAssumption
     DEF Deliver, IInv, Inv, TypeOK, WorkerKeeps, players, table, history
<1>2. Dispatched' = Dispatched /\ pending = {}
  BY <1>1 DEF Dispatched, IInv, Inv, WorkerKeeps
<1>3. TypeOK' BY <1>1, StreamAssumption DEF IInv, TypeOK
<1>4. WorkerKeeps' BY <1>1 DEF IInv, Inv, WorkerKeeps
<1>5. Untouched' BY <1>1 DEF IInv, Inv, Untouched, Outside
<1>6. UpToDate' BY <1>1, <1>2 DEF IInv, Inv, UpToDate, Last
<1>7. LeftInTime' BY <1>1, <1>2 DEF IInv, Inv, LeftInTime
<1> QED BY <1>3, <1>4, <1>5, <1>6, <1>7 DEF IInv, Inv

\* The copy is renewed: it has just the listeners.
LEMMA RefreshKeeps == ASSUME IInv, Refresh PROVE IInv'
<1>1. /\ worker = "received" /\ ~dirty' /\ cache' = listeners /\ pending' = listeners
      /\ worker' = IF listeners = {} THEN "waiting" ELSE "writing"
      /\ UNCHANGED <<closed, publish, pump, watcher, source, sent, listeners, deleting, player,
                     broken, got, joined, left>>
  <2>1. dirty \in BOOLEAN /\ (~dirty => cache = listeners) BY DEF IInv, Inv, TypeOK, WorkerKeeps
  <2>2. cache' = listeners BY <2>1 DEF Refresh
  <2> QED BY <2>2 DEF Refresh, publisher, history
<1>2. /\ sent \in 1..MaxPackets /\ pending = {}
      /\ Dispatched = sent - 1 /\ Dispatched' = sent
  BY <1>1, StreamAssumption DEF IInv, Inv, TypeOK, WorkerKeeps, Dispatched
<1>3. TypeOK' BY <1>1 DEF IInv, TypeOK, Refresh
<1>4. WorkerKeeps' BY <1>1, <1>2 DEF IInv, Inv, WorkerKeeps
<1>5. Untouched' BY <1>1 DEF IInv, Inv, Untouched, Outside
<1>6. UpToDate'
  <2>1. \A p \in listeners : Last(p) = sent - 1 /\ Last(p)' = sent - 1
    BY <1>1, <1>2 DEF Last
  <2> QED BY <1>1, <2>1 DEF IInv, Inv, UpToDate
<1>7. LeftInTime'
  <2>1. \A p \in listeners : left[p] = MaxPackets BY DEF IInv, Inv, UpToDate
  <2>2. ASSUME NEW p \in Players, NEW k \in got[p] PROVE k <= sent /\ k <= left[p]
    <3>1. k \in Nat /\ k <= sent - 1 /\ k <= left[p]
      BY <1>2 DEF IInv, Inv, TypeOK, LeftInTime, Packets
    <3> QED BY <1>2, <3>1
  <2> QED BY <1>1, <1>2, <2>1, <2>2 DEF LeftInTime
<1> QED BY <1>3, <1>4, <1>5, <1>6, <1>7 DEF IInv, Inv

LEMMA StopWorkerKeeps == ASSUME IInv, StopWorker PROVE IInv'
<1>1. /\ worker = "waiting" /\ worker' = "gone"
      /\ UNCHANGED <<closed, publish, pump, watcher, source, sent, pending, cache, listeners,
                     dirty, deleting, player, broken, got, joined, left>>
  BY DEF StopWorker, publisher, players, table, history
<1>2. Dispatched' = Dispatched BY <1>1 DEF Dispatched
<1>3. TypeOK' BY <1>1 DEF IInv, TypeOK
<1>4. WorkerKeeps' BY <1>1 DEF IInv, Inv, WorkerKeeps
<1>5. Untouched' BY <1>1 DEF IInv, Inv, Untouched, Outside
<1>6. UpToDate' /\ LeftInTime' BY <1>1, <1>2 DEF IInv, Inv, UpToDate, Last, LeftInTime
<1> QED BY <1>3, <1>4, <1>5, <1>6 DEF IInv, Inv

\* One listener less has to get the packet.
LEMMA WritePacketKeeps == ASSUME IInv, NEW p \in Players, WritePacket(p) PROVE IInv'
<1>1. /\ p \in pending /\ pending' = pending \ {p}
      /\ worker' = IF pending' = {} THEN "waiting" ELSE "writing"
      /\ UNCHANGED <<closed, publish, pump, watcher, source, sent, cache, listeners, dirty,
                     player, broken, joined, left>>
  BY DEF WritePacket, publisher, table
<1>2. \/ p \in broken /\ deleting' = deleting \cup {p} /\ got' = got
      \/ p \notin broken /\ got' = [got EXCEPT ![p] = @ \cup {sent}] /\ deleting' = deleting
  BY DEF WritePacket
<1>3. /\ worker = "writing" /\ sent \in 1..MaxPackets /\ sent <= left[p]
      /\ Dispatched = sent /\ Dispatched' = sent
  BY <1>1, StreamAssumption DEF IInv, Inv, TypeOK, WorkerKeeps, LeftInTime, Dispatched
<1>4. ~Outside(p)
  BY <1>1 DEF IInv, Inv, TypeOK, Untouched
<1>5. /\ \A q \in Players : q # p => got'[q] = got[q]
      /\ p \in broken => got'[p] = got[p]
      /\ p \notin broken => got'[p] = got[p] \cup {sent}
      /\ got' \in [Players -> SUBSET Packets]
  BY <1>2, <1>3 DEF IInv, TypeOK, Packets
<1>6. TypeOK'
  <2>1. deleting' \subseteq Players /\ pending' \subseteq cache
        /\ worker' \in {"waiting", "received", "writing", "gone"}
    BY <1>1, <1>2 DEF IInv, TypeOK
  <2> QED BY <1>1, <1>5, <2>1 DEF IInv, TypeOK
<1>7. WorkerKeeps' BY <1>1, <1>3 DEF IInv, Inv, WorkerKeeps
<1>8. Untouched'
  <2>1. \A q \in Players : Outside(q)' => Outside(q) /\ q # p BY <1>1, <1>4 DEF Outside
  <2> QED BY <1>1, <1>2, <1>5, <2>1 DEF IInv, Inv, Untouched
<1>9. UpToDate'
  <2>1. ASSUME NEW q \in listeners
        PROVE  /\ left[q] = MaxPackets /\ joined[q] <= Last(q)'
               /\ q \notin broken => got'[q] = joined[q] + 1 .. Last(q)'
    <3>1. /\ q \in Players /\ left[q] = MaxPackets /\ joined[q] \in Nat /\ joined[q] <= Last(q)
          /\ q \notin broken => got[q] = joined[q] + 1 .. Last(q)
      BY DEF IInv, Inv, TypeOK, UpToDate
    <3>2. CASE q = p
      <4>1. Last(p) = sent - 1 /\ Last(p)' = sent BY <1>1, <1>3 DEF Last
      <4>2. joined[p] <= sent - 1 BY <3>1, <3>2, <4>1
      <4>3. (joined[p] + 1 .. sent - 1) \cup {sent} = joined[p] + 1 .. sent
        BY <1>3, <3>1, <3>2, <4>2
      <4>4. p \notin broken => got'[p] = joined[p] + 1 .. sent
        BY <1>5, <3>1, <3>2, <4>1, <4>3
      <4>5. joined[p] <= sent BY <1>3, <3>1, <3>2, <4>2
      <4> QED BY <3>1, <3>2, <4>1, <4>4, <4>5
    <3>3. CASE q # p
      <4>1. Last(q)' = Last(q) BY <1>1, <1>3, <3>3 DEF Last
      <4> QED BY <1>5, <3>1, <3>3, <4>1
    <3> QED BY <3>2, <3>3
  <2> QED BY <1>1, <2>1 DEF UpToDate
<1>10. LeftInTime'
  <2>1. ASSUME NEW q \in Players, NEW k \in got'[q] PROVE k <= sent /\ k <= left[q]
    <3>1. k \in got[q] \/ (q = p /\ k = sent) BY <1>5, <2>1
    <3> QED BY <1>3, <3>1 DEF IInv, Inv, LeftInTime
  <2> QED BY <1>1, <1>3, <2>1 DEF IInv, Inv, LeftInTime
<1> QED BY <1>6, <1>7, <1>8, <1>9, <1>10 DEF IInv, Inv

-----------------------------------------------------------------------------
(* The players.                                                             *)

\* A listener is removed: whatever it has it got in time, and of the packet
\* that is being written it has none or one.
LEMMA RemoveKeeps ==
  ASSUME IInv, NEW p \in Players, RemoveListener(p), UNCHANGED <<upstream, broken, got, joined>>,
         ~Outside(p), deleting' \subseteq deleting,
         NEW to \in {"offering", "left"}, player' = player \/ player' = [player EXCEPT ![p] = to]
  PROVE  IInv'
<1>1. UNCHANGED <<closed, publish, pump, watcher, source, sent, worker, pending, cache,
                  broken, got, joined>>
  BY DEF upstream, publisher, fanout
<1>2. listeners' = listeners \ {p} /\ dirty' BY DEF RemoveListener
<1>3. Dispatched' = Dispatched /\ Dispatched \in 0..MaxPackets
      /\ (p \in pending => Dispatched = sent)
  BY <1>1, StreamAssumption DEF Dispatched, IInv, Inv, TypeOK, WorkerKeeps
<1>4. /\ \A q \in Players : q # p => left'[q] = left[q]
      /\ left'[p] = left[p] \/ left'[p] = Dispatched
      /\ left' \in [Players -> 0..MaxPackets]
  BY <1>3 DEF RemoveListener, IInv, TypeOK
<1>5. \A q \in Players : Outside(q)' => Outside(q) /\ q # p
  BY DEF Outside, IInv, TypeOK
<1>6. TypeOK'
  <2>1. player' \in [Players -> {"idle", "header", "stuck", "watching", "ended",
                                 "cancelled", "offering", "left", "released"}]
    BY DEF IInv, TypeOK
  <2>2. listeners' \subseteq Players /\ dirty' \in BOOLEAN /\ deleting' \subseteq Players
    BY <1>2 DEF RemoveListener, IInv, TypeOK
  <2> QED BY <1>1, <1>4, <2>1, <2>2 DEF IInv, TypeOK
<1>7. WorkerKeeps' BY <1>1, <1>2 DEF IInv, Inv, WorkerKeeps
<1>8. Untouched' BY <1>1, <1>2, <1>4, <1>5 DEF IInv, Inv, Untouched
<1>9. UpToDate'
  <2>1. \A q \in listeners' : q \in Players /\ q # p /\ Last(q)' = Last(q)
    BY <1>1, <1>2, <1>3 DEF IInv, TypeOK, Last
  <2> QED BY <1>1, <1>2, <1>4, <2>1 DEF IInv, Inv, UpToDate
<1>10. LeftInTime'
  <2>1. ASSUME NEW q \in Players
        PROVE  /\ \A k \in got[q] : k <= Dispatched /\ k <= left'[q]
               /\ q \in pending => sent <= left'[q]
    <3>1. sent \in Nat BY DEF IInv, TypeOK
    <3> QED BY <1>3, <1>4, <3>1 DEF IInv, Inv, LeftInTime
  <2> QED BY <1>1, <1>3, <2>1 DEF LeftInTime
<1> QED BY <1>6, <1>7, <1>8, <1>9, <1>10 DEF IInv, Inv

\* A step of a player's handler or watcher that leaves the table alone.
LEMMA MoveKeeps ==
  ASSUME IInv, NEW p \in Players,
         NEW to \in {"header", "stuck", "ended", "cancelled", "released"},
         player' = [player EXCEPT ![p] = to], to \in {"header", "stuck"} => Outside(p),
         UNCHANGED <<upstream, table, deleting, broken, history>>
  PROVE  IInv'
<1>1. UNCHANGED <<closed, publish, pump, watcher, source, sent, worker, pending, cache,
                  listeners, dirty, deleting, broken, got, joined, left>>
  BY DEF upstream, publisher, fanout, table, history
<1>2. \A q \in Players : Outside(q)' => Outside(q) BY DEF Outside, IInv, TypeOK
<1>3. player' \in [Players -> {"idle", "header", "stuck", "watching", "ended",
                               "cancelled", "offering", "left", "released"}]
  BY DEF IInv, TypeOK
<1>4. TypeOK' BY <1>1, <1>3 DEF IInv, TypeOK
<1>5. WorkerKeeps' BY <1>1 DEF IInv, Inv, WorkerKeeps
<1>6. Untouched' BY <1>1, <1>2 DEF IInv, Inv, Untouched
<1>7. UpToDate' /\ LeftInTime' BY <1>1 DEF IInv, Inv, UpToDate, Last, LeftInTime, Dispatched
<1> QED BY <1>4, <1>5, <1>6, <1>7 DEF IInv, Inv

\* A listener joins with the next packet the worker dispatches.
LEMMA AddListenerKeeps == ASSUME IInv, NEW p \in Players, AddListener(p) PROVE IInv'
<1>1. /\ player[p] = "header" /\ player' = [player EXCEPT ![p] = "watching"]
      /\ listeners' = listeners \cup {p} /\ dirty' /\ joined' = [joined EXCEPT ![p] = Dispatched]
      /\ UNCHANGED <<closed, publish, pump, watcher, source, sent, worker, pending, cache,
                     deleting, broken, got, left>>
  BY DEF AddListener, MovePlayer, upstream, publisher, fanout
<1>2. Dispatched' = Dispatched /\ Dispatched \in 0..MaxPackets
  BY <1>1, StreamAssumption DEF Dispatched, IInv, Inv, TypeOK, WorkerKeeps
<1>3. p \notin listeners /\ p \notin cache /\ p \notin pending /\ got[p] = {} /\ left[p] = MaxPackets
  BY <1>1 DEF IInv, Inv, TypeOK, Untouched, Outside
<1>4. /\ joined'[p] = Dispatched /\ \A q \in Players : q # p => joined'[q] = joined[q]
      /\ joined' \in [Players -> 0..MaxPackets]
  BY <1>1, <1>2 DEF IInv, TypeOK
<1>5. \A q \in Players : Outside(q)' => Outside(q) /\ q # p
  BY <1>1 DEF Outside, IInv, TypeOK
<1>6. TypeOK'
  <2>1. player' \in [Players -> {"idle", "header", "stuck", "watching", "ended",
                                 "cancelled", "offering", "left", "released"}]
    BY <1>1 DEF IInv, TypeOK
  <2>2. dirty' \in BOOLEAN BY DEF AddListener
  <2> QED BY <1>1, <1>4, <2>1, <2>2 DEF IInv, TypeOK
<1>7. WorkerKeeps' BY <1>1 DEF IInv, Inv, WorkerKeeps
<1>8. Untouched' BY <1>1, <1>5 DEF IInv, Inv, Untouched
<1>9. UpToDate'
  <2>1. ASSUME NEW q \in listeners'
        PROVE  /\ left[q] = MaxPackets /\ joined'[q] <= Last(q)'
               /\ q \notin broken => got[q] = joined'[q] + 1 .. Last(q)'
    <3>1. Last(q)' = Last(q) BY <1>1, <1>2 DEF Last
    <3>2. CASE q = p
      <4>1. Last(p) = Dispatched BY <1>3 DEF Last
      <4>2. Dispatched + 1 .. Dispatched = {} /\ Dispatched <= Dispatched BY <1>2
      <4>3. joined'[q] = Dispatched BY <1>4, <3>2
      <4>4. Last(q)' = Dispatched BY <3>1, <3>2, <4>1
      <4>5. left[q] = MaxPackets /\ got[q] = {} BY <1>3, <3>2
      <4>6. joined'[q] <= Last(q)' BY <4>2, <4>3, <4>4
      <4>7. got[q] = joined'[q] + 1 .. Last(q)' BY <4>2, <4>3, <4>4, <4>5
      <4> QED BY <4>5, <4>6, <4>7
    <3>3. CASE q # p
      BY <1>1, <1>4, <3>1, <3>3 DEF IInv, Inv, TypeOK, UpToDate
    <3> QED BY <3>2, <3>3
  <2> QED BY <1>1, <2>1 DEF UpToDate
<1>10. LeftInTime' BY <1>1, <1>2 DEF IInv, Inv, LeftInTime
<1> QED BY <1>6, <1>7, <1>8, <1>9, <1>10 DEF IInv, Inv

\* What is known of a listener whose connection breaks is only less.
LEMMA BreakKeeps == ASSUME IInv, NEW p \in Players, Break(p) PROVE IInv'
<1>1. /\ p \in Fragile /\ broken' = broken \cup {p}
      /\ UNCHANGED <<closed, publish, pump, watcher, source, sent, worker, pending, cache,
                     listeners, dirty, deleting, player, got, joined, left>>
  BY DEF Break, upstream, publisher, fanout, table, history
<1>2. TypeOK' BY <1>1 DEF IInv, TypeOK
<1>3. WorkerKeeps' BY <1>1 DEF IInv, Inv, WorkerKeeps
<1>4. Untouched' BY <1>1 DEF IInv, Inv, Untouched, Outside
<1>5. UpToDate' /\ LeftInTime' BY <1>1 DEF IInv, Inv, UpToDate, Last, LeftInTime, Dispatched
<1> QED BY <1>2, <1>3, <1>4, <1>5 DEF IInv, Inv

LEMMA NextKeeps == IInv /\ [Next]_vars => IInv'
<1> SUFFICES ASSUME IInv, [Next]_vars PROVE IInv' OBVIOUS
<1>1. CASE UNCHANGED vars
  <2>1. UNCHANGED <<closed, publish, pump, watcher, source, sent, worker, pending, cache,
                    listeners, dirty, deleting, player, broken, got, joined, left>>
    BY <1>1 DEF vars, publisher, fanout, table, history
  <2>2. TypeOK' BY <2>1 DEF IInv, TypeOK
  <2>3. WorkerKeeps' BY <2>1 DEF IInv, Inv, WorkerKeeps
  <2>4. Untouched' BY <2>1 DEF IInv, Inv, Untouched, Outside
  <2>5. UpToDate' /\ LeftInTime' BY <2>1 DEF IInv, Inv, UpToDate, Last, LeftInTime, Dispatched
  <2> QED BY <2>2, <2>3, <2>4, <2>5 DEF IInv, Inv
<1>2. CASE Publisher BY <1>2, PublisherKeeps
<1>3. CASE Deliver \/ Refresh \/ StopWorker
  BY <1>3, DeliverKeeps, RefreshKeeps, StopWorkerKeeps
<1>4. ASSUME NEW p \in Players, WritePacket(p) \/ DeleteListener(p) PROVE IInv'
  <2>1. CASE WritePacket(p) BY <2>1, WritePacketKeeps
  <2>2. CASE DeleteListener(p)
    <3>1. ~Outside(p) BY <2>2 DEF DeleteListener, IInv, Inv, Untouched
    <3>2. /\ RemoveListener(p) /\ UNCHANGED <<upstream, broken, got, joined>> /\ player' = player
          /\ deleting' \subseteq deleting
      BY <2>2 DEF DeleteListener
    <3> QED BY <3>1, <3>2, RemoveKeeps
  <2> QED BY <1>4, <2>1, <2>2
<1>5. ASSUME NEW p \in Players, Player(p) PROVE IInv'
  <2>1. CASE WriteHeader(p) \/ HeaderFails(p)
    <3>1. Outside(p) BY <2>1 DEF WriteHeader, HeaderFails, MovePlayer, Outside
    <3> QED BY <2>1, <3>1, MoveKeeps DEF WriteHeader, HeaderFails, MovePlayer
  <2>2. CASE StreamEnded(p) \/ ContextDone(p) \/ Release(p)
    BY <2>2, MoveKeeps DEF StreamEnded, ContextDone, Release, MovePlayer
  <2>3. CASE AddListener(p) BY <2>3, AddListenerKeeps
  <2>4. CASE LeaveEnded(p) \/ LeaveCancelled(p)
    <3>1. ~Outside(p) BY <2>4 DEF LeaveEnded, LeaveCancelled, MovePlayer, Outside
    <3>2. /\ RemoveListener(p) /\ UNCHANGED <<upstream, deleting, broken, got, joined>>
          /\ \E to \in {"offering", "left"} : player' = [player EXCEPT ![p] = to]
      BY <2>4 DEF LeaveEnded, LeaveCancelled, MovePlayer
    <3> QED BY <3>1, <3>2, RemoveKeeps
  <2>5. CASE Break(p) BY <2>5, BreakKeeps
  <2> QED BY <1>5, <2>1, <2>2, <2>3, <2>4, <2>5 DEF Player
<1> QED BY <1>1, <1>2, <1>3, <1>4, <1>5 DEF Next, Worker

\* The invariant: the worker's copy is the table unless the table is dirty, and
\* what each listener has follows from where the worker is.
THEOREM StreamInvariant == Spec => []IInv
BY InitHolds, NextKeeps, PTL DEF Spec

\* The variables keep their types.
THEOREM StreamTypes == Spec => []TypeOK
<1>1. IInv => TypeOK BY DEF IInv
<1> QED BY <1>1, StreamInvariant, PTL

\* Once the worker is back at its select, a listener that works has every packet
\* since it joined and none from before (basic_rtmp_videostream.go:38-62).
THEOREM ListenersGetAll == Spec => []EveryPacketSinceJoining
<1>1. IInv => EveryPacketSinceJoining
  <2> SUFFICES ASSUME IInv, worker = "waiting", NEW p \in listeners \ broken
               PROVE  got[p] = joined[p] + 1 .. sent
    BY DEF EveryPacketSinceJoining
  <2>1. Last(p) = sent BY DEF IInv, Inv, WorkerKeeps, Last, Dispatched
  <2> QED BY <2>1 DEF IInv, Inv, UpToDate
<1> QED BY <1>1, StreamInvariant, PTL

\* A listener gets no packet that was dispatched after it was removed
\* (basic_rtmp_videostream.go:76-86).
THEOREM RemovedGetNothing == Spec => []NothingAfterRemoval
<1>1. IInv => NothingAfterRemoval BY DEF IInv, Inv, LeftInTime, NothingAfterRemoval
<1> QED BY <1>1, StreamInvariant, PTL

-----------------------------------------------------------------------------
(* The stream is a broadcast channel.                                       *)

\* Who is still to be written to has all packets but the last.
InFlight == \A p \in pending \ broken : joined[p] <= sent - 1 /\ got[p] = joined[p] + 1 .. sent - 1

LEMMA InFlightNext == ASSUME IInv, InFlight, [Next]_vars PROVE InFlight'
<1>a. /\ sent \in Nat /\ got \in [Players -> SUBSET Packets] /\ joined \in [Players -> 0..MaxPackets]
      /\ pending \subseteq cache /\ cache \subseteq Players /\ listeners \subseteq Players
  BY StreamAssumption DEF IInv, TypeOK
<1>1. CASE pending' \subseteq pending /\ UNCHANGED <<sent, got, joined>> /\ broken \subseteq broken'
  BY <1>1 DEF InFlight
<1>2. CASE Deliver
  <2>1. pending' = {} BY <1>2 DEF Deliver, IInv, Inv, WorkerKeeps
  <2> QED BY <2>1 DEF InFlight
<1>3. CASE Refresh
  <2>1. dirty \in BOOLEAN /\ (~dirty => cache = listeners) BY DEF IInv, Inv, TypeOK, WorkerKeeps
  <2>2. pending' = listeners /\ worker = "received" /\ pending = {}
        /\ UNCHANGED <<sent, got, joined, broken>>
    BY <1>3, <2>1 DEF Refresh, history, IInv, Inv, WorkerKeeps
  <2>3. \A p \in listeners : Last(p) = sent - 1 BY <2>2 DEF Last, Dispatched
  <2> QED BY <2>2, <2>3 DEF InFlight, IInv, Inv, UpToDate
<1>4. ASSUME NEW p \in Players, WritePacket(p) PROVE InFlight'
  <2>1. /\ pending' = pending \ {p} /\ UNCHANGED <<sent, joined, broken>>
        /\ got' = got \/ got' = [got EXCEPT ![p] = @ \cup {sent}]
    BY <1>4 DEF WritePacket
  <2>2. \A q \in Players : q # p => got'[q] = got[q] BY <1>a, <2>1
  <2> QED BY <1>a, <2>1, <2>2 DEF InFlight
<1>5. ASSUME NEW p \in Players, AddListener(p) PROVE InFlight'
  <2>1. UNCHANGED <<sent, pending, got, broken>> /\ joined' = [joined EXCEPT ![p] = Dispatched]
    BY <1>5 DEF AddListener, upstream, fanout
  <2>2. p \notin pending
    BY <1>5, <1>a DEF AddListener, MovePlayer, Outside, IInv, Inv, Untouched
  <2>3. \A q \in Players : q # p => joined'[q] = joined[q] BY <1>a, <2>1
  <2> QED BY <1>a, <2>1, <2>2, <2>3 DEF InFlight
<1>6. ASSUME NEW p \in Players, DeleteListener(p) \/ Player(p), ~AddListener(p) PROVE InFlight'
  <2>1. UNCHANGED <<sent, got, joined, pending>> /\ broken \subseteq broken'
    BY <1>6 DEF DeleteListener, Player, WriteHeader, HeaderFails, StreamEnded, ContextDone, LeaveEnded,
                LeaveCancelled, Release, Break, RemoveListener, upstream, fanout, history
  <2> QED BY <1>1, <2>1
<1>7. CASE Publisher \/ StopWorker \/ UNCHANGED vars
  <2>1. UNCHANGED <<sent, pending, broken, got, joined>>
    BY <1>7 DEF Publisher, WriteRTMPToStream, StreamsFails, GotStream, GotStreamFails, EndStream,
                WatchSource, CloseStream, ReadPacket, ReadFails, StopWorker, vars, players, history, fanout
  <2> QED BY <1>1, <2>1
<1> QED BY <1>2, <1>3, <1>4, <1>5, <1>6, <1>7 DEF Next, Worker

ChannelSteps == Channel!Next \/ UNCHANGED Channel!broadcastVars

LEMMA ChannelFacts ==
  ASSUME IInv
  PROVE  /\ sent \in Nat /\ Dispatched \in Int /\ Phase \in [Players -> {"out", "in", "leaving", "gone"}]
         /\ \A p \in Players :
              /\ Phase[p] = "in" <=> p \in listeners
              /\ Phase[p] = "out" <=> Outside(p)
              /\ Phase[p] = "leaving" <=> p \notin listeners /\ p \in pending
              /\ Phase[p] = "gone" <=> ~Outside(p) /\ p \notin listeners /\ p \notin pending
         /\ got \in [Players -> SUBSET Packets] /\ joined \in [Players -> 0..MaxPackets]
         /\ \A p \in listeners \ broken : p \notin pending =>
              joined[p] <= Dispatched /\ got[p] = joined[p] + 1 .. Dispatched
<1>1. /\ sent \in Nat /\ got \in [Players -> SUBSET Packets] /\ joined \in [Players -> 0..MaxPackets]
      /\ pending \subseteq cache
  BY StreamAssumption DEF IInv, TypeOK
<1>2. Dispatched \in Int BY <1>1 DEF Dispatched
<1>3. \A p \in Players : Outside(p) => p \notin listeners /\ p \notin pending
  BY <1>1 DEF IInv, Inv, Untouched
<1>4. \A p \in listeners \ broken : p \notin pending =>
        joined[p] <= Dispatched /\ got[p] = joined[p] + 1 .. Dispatched
  BY DEF IInv, Inv, UpToDate, Last
<1> QED BY <1>1, <1>2, <1>3, <1>4 DEF Phase

\* The worker copies the listeners for the next packet.
LEMMA RefreshSends == ASSUME IInv, Refresh PROVE Channel!Send
<1>1. dirty \in BOOLEAN /\ (~dirty => cache = listeners) BY DEF IInv, Inv, TypeOK, WorkerKeeps
<1>2. /\ pending' = listeners /\ worker = "received" /\ pending = {} /\ worker' # "received"
      /\ UNCHANGED <<sent, got, joined, broken, player, listeners>>
  BY <1>1 DEF Refresh, history, IInv, Inv, WorkerKeeps
<1>3. Dispatched' = Dispatched + 1
  <2>1. sent \in Nat BY ChannelFacts
  <2> QED BY <1>2, <2>1 DEF Dispatched
<1>4. Phase' = Phase BY <1>2 DEF Phase, Outside
<1>5. \A p \in Players : Phase[p] # "leaving" /\ (Phase[p] = "in" => p \in broken \/ Channel!HasUpTo(p, Dispatched))
  BY <1>2, ChannelFacts DEF Channel!HasUpTo
<1> QED BY <1>2, <1>3, <1>4, <1>5 DEF Channel!Send

\* A packet is written, or the connection of one that leaves is broken.
LEMMA WriteReceives ==
  ASSUME IInv, IInv', InFlight, NEW p \in Players, WritePacket(p)
  PROVE  Channel!Receive(p) \/ Channel!GiveUp(p) \/ UNCHANGED Channel!broadcastVars
<1>1. /\ p \in pending /\ pending' = pending \ {p} /\ worker = "writing" /\ worker' # "received"
      /\ UNCHANGED <<sent, joined, broken, player, listeners>>
  BY DEF WritePacket, table, IInv, Inv, WorkerKeeps
<1>2. Dispatched = sent /\ Dispatched' = sent BY <1>1 DEF Dispatched
<1>3. Phase' = [Phase EXCEPT ![p] = IF @ = "leaving" THEN "gone" ELSE @]
  <2>1. ~Outside(p) BY <1>1 DEF IInv, Inv, TypeOK, Untouched
  <2>2. \A q \in Players : q # p => Phase'[q] = Phase[q] BY <1>1 DEF Phase, Outside
  <2>3. Phase'[p] = IF Phase[p] = "leaving" THEN "gone" ELSE Phase[p]
    BY <1>1, <2>1 DEF Phase, Outside
  <2>4. Phase' \in [Players -> {"out", "in", "leaving", "gone"}] BY DEF Phase
  <2> QED BY <2>2, <2>3, <2>4, ChannelFacts
<1>4. Phase[p] \in {"in", "leaving"} BY <1>1, ChannelFacts
<1>5. CASE p \notin broken
  <2>1. got' = [got EXCEPT ![p] = @ \cup {sent}] BY <1>5 DEF WritePacket
  <2>2. Channel!HasUpTo(p, Dispatched - 1) BY <1>1, <1>2, <1>5 DEF InFlight, Channel!HasUpTo
  <2> QED BY <1>1, <1>2, <1>3, <1>4, <1>5, <2>1, <2>2 DEF Channel!Receive
<1>6. CASE p \in broken
  <2>1. got' = got BY <1>6 DEF WritePacket
  <2>2. CASE Phase[p] = "leaving"
    <3>1. Phase' = [Phase EXCEPT ![p] = "gone"] BY <1>3, <2>2
    <3> QED BY <1>1, <1>2, <1>6, <2>1, <2>2, <3>1 DEF Channel!GiveUp
  <2>3. CASE Phase[p] = "in"
    <3>1. Phase' = Phase BY <1>3, <2>3, ChannelFacts
    <3> QED BY <1>1, <1>2, <2>1, <3>1 DEF Channel!broadcastVars
  <2> QED BY <1>4, <2>2, <2>3
<1> QED BY <1>5, <1>6

\* A listener is removed for the first time, or again.
LEMMA RemoveLeaves ==
  ASSUME IInv, IInv', InFlight, NEW p \in Players, RemoveListener(p), ~Outside(p),
         UNCHANGED <<upstream, broken, got, joined>>, \A q \in Players : Outside(q)' <=> Outside(q)
  PROVE  Channel!Leave(p) \/ UNCHANGED Channel!broadcastVars
<1>1. /\ listeners' = listeners \ {p}
      /\ UNCHANGED <<sent, worker, pending, broken, got, joined>>
  BY DEF RemoveListener, upstream, fanout
<1>2. Dispatched' = Dispatched BY <1>1 DEF Dispatched
<1>3. CASE p \notin listeners
  <2>1. Phase' = Phase BY <1>1, <1>3 DEF Phase
  <2> QED BY <1>1, <1>2, <2>1 DEF Channel!broadcastVars
<1>4. CASE p \in listeners
  <2> DEFINE next == IF p \in pending THEN "leaving" ELSE "gone"
  <2>1. Phase' = [Phase EXCEPT ![p] = next]
    <3>1. \A q \in Players : q # p => Phase'[q] = Phase[q] BY <1>1 DEF Phase
    <3>2. Phase'[p] = next BY <1>1 DEF Phase
    <3>3. Phase' \in [Players -> {"out", "in", "leaving", "gone"}] BY DEF Phase
    <3> QED BY <3>1, <3>2, <3>3, ChannelFacts
  <2>2. Phase[p] = "in" BY <1>4, ChannelFacts
  <2>3. p \in broken \/ Channel!HasUpTo(p, IF next = "gone" THEN Dispatched ELSE Dispatched - 1)
    <3>1. CASE p \in pending
      <4>1. Dispatched = sent BY <3>1 DEF Dispatched, IInv, Inv, WorkerKeeps
      <4> QED BY <3>1, <4>1 DEF InFlight, Channel!HasUpTo
    <3>2. CASE p \notin pending BY <1>4, <3>2, ChannelFacts DEF Channel!HasUpTo
    <3> QED BY <3>1, <3>2
  <2>4. next \in {"leaving", "gone"} OBVIOUS
  <2> HIDE DEF next
  <2> QED BY <1>1, <1>2, <2>1, <2>2, <2>3, <2>4 DEF Channel!Leave
<1> QED BY <1>3, <1>4

LEMMA ListenerJoins == ASSUME IInv, IInv', NEW p \in Players, AddListener(p) PROVE Channel!Join(p)
<1>1. /\ player[p] = "header" /\ player' = [player EXCEPT ![p] = "watching"]
      /\ listeners' = listeners \cup {p} /\ joined' = [joined EXCEPT ![p] = Dispatched]
      /\ UNCHANGED <<sent, worker, pending, broken, got>>
  BY DEF AddListener, MovePlayer, upstream, fanout
<1>2. Dispatched' = Dispatched BY <1>1 DEF Dispatched
<1>3. Phase[p] = "out" BY <1>1, ChannelFacts DEF Outside
<1>4. Phase' = [Phase EXCEPT ![p] = "in"]
  <2>1. \A q \in Players : q # p => player'[q] = player[q] BY <1>1 DEF IInv, TypeOK
  <2>2. \A q \in Players : q # p => Phase'[q] = Phase[q] BY <1>1, <2>1 DEF Phase, Outside
  <2>3. Phase'[p] = "in" BY <1>1 DEF Phase
  <2>4. Phase' \in [Players -> {"out", "in", "leaving", "gone"}] BY DEF Phase
  <2> QED BY <2>2, <2>3, <2>4, ChannelFacts
<1> QED BY <1>1, <1>2, <1>3, <1>4 DEF Channel!Join

\* Steps that are not seen.
LEMMA ChannelStutters ==
  ASSUME UNCHANGED <<Dispatched, pending, listeners, broken, got, joined>>,
         \A q \in Players : Outside(q)' <=> Outside(q)
  PROVE  UNCHANGED Channel!broadcastVars
<1>1. Phase' = Phase BY DEF Phase
<1> QED BY <1>1 DEF Channel!broadcastVars

LEMMA PlayerInChannel ==
  ASSUME IInv, IInv', InFlight, NEW p \in Players, Player(p) PROVE ChannelSteps
<1>0. player \in [Players -> {"idle", "header", "stuck", "watching", "ended",
                              "cancelled", "offering", "left", "released"}]
  BY DEF IInv, TypeOK
<1>1. CASE AddListener(p) BY <1>1, ListenerJoins DEF ChannelSteps, Channel!Next
<1>2. CASE LeaveEnded(p) \/ LeaveCancelled(p)
  <2>1. /\ RemoveListener(p) /\ UNCHANGED <<upstream, deleting, broken, got, joined>>
        /\ player[p] \in {"ended", "cancelled"}
        /\ \E to \in {"offering", "left"} : player' = [player EXCEPT ![p] = to]
    BY <1>2 DEF LeaveEnded, LeaveCancelled, MovePlayer
  <2>2. ~Outside(p) /\ \A q \in Players : Outside(q)' <=> Outside(q) BY <1>0, <2>1 DEF Outside
  <2> QED BY <2>1, <2>2, RemoveLeaves DEF ChannelSteps, Channel!Next
<1>3. CASE Break(p)
  <2>1. /\ p \notin broken /\ broken' = broken \cup {p}
        /\ UNCHANGED <<sent, worker, pending, listeners, player, got, joined>>
    BY <1>3 DEF Break, upstream, fanout, table, history
  <2>2. Phase' = Phase /\ Dispatched' = Dispatched BY <2>1 DEF Phase, Outside, Dispatched
  <2> QED BY <2>1, <2>2 DEF ChannelSteps, Channel!Next, Channel!Break
<1>4. CASE WriteHeader(p) \/ HeaderFails(p) \/ StreamEnded(p) \/ ContextDone(p) \/ Release(p)
  <2>1. UNCHANGED <<sent, worker, pending, listeners, broken, got, joined>>
    BY <1>4 DEF WriteHeader, HeaderFails, StreamEnded, ContextDone, Release, upstream, fanout, table, history
  <2>2. \/ player[p] = "idle" /\ player' = [player EXCEPT ![p] = "header"]
        \/ player[p] = "idle" /\ player' = [player EXCEPT ![p] = "stuck"]
        \/ player[p] = "watching" /\ player' = [player EXCEPT ![p] = "ended"]
        \/ player[p] = "watching" /\ player' = [player EXCEPT ![p] = "cancelled"]
        \/ player[p] = "offering" /\ player' = [player EXCEPT ![p] = "released"]
    BY <1>4 DEF WriteHeader, HeaderFails, StreamEnded, ContextDone, Release, MovePlayer
  <2>3. \A q \in Players : Outside(q)' <=> Outside(q) BY <1>0, <2>2 DEF Outside
  <2>4. Dispatched' = Dispatched BY <2>1 DEF Dispatched
  <2> QED BY <2>1, <2>3, <2>4, ChannelStutters DEF ChannelSteps
<1> QED BY <1>1, <1>2, <1>3, <1>4 DEF Player

LEMMA StepInChannel ==
  ASSUME IInv, IInv', InFlight, [Next]_vars PROVE ChannelSteps
<1>1. CASE Publisher \/ StopWorker \/ UNCHANGED vars
  <2>1. /\ UNCHANGED <<sent, pending, listeners, player, broken, got, joined>>
        /\ worker' = worker \/ (worker = "waiting" /\ worker' = "gone")
    BY <1>1 DEF Publisher, WriteRTMPToStream, StreamsFails, GotStream, GotStreamFails, EndStream,
                WatchSource, CloseStream, ReadPacket, ReadFails, StopWorker, vars, players, history, fanout,
                table
  <2>2. Dispatched' = Dispatched /\ \A q \in Players : Outside(q)' <=> Outside(q)
    BY <2>1 DEF Dispatched, Outside
  <2> QED BY <2>1, <2>2, ChannelStutters DEF ChannelSteps
<1>2. CASE Deliver
  <2>1. /\ worker = "waiting" /\ worker' = "received" /\ sent' = sent + 1
        /\ UNCHANGED <<pending, listeners, player, broken, got, joined>>
    BY <1>2 DEF Deliver, players, table, history
  <2>2. sent \in Nat BY ChannelFacts
  <2>3. Dispatched' = Dispatched /\ \A q \in Players : Outside(q)' <=> Outside(q)
    BY <2>1, <2>2 DEF Dispatched, Outside
  <2> QED BY <2>1, <2>3, ChannelStutters DEF ChannelSteps
<1>3. CASE Refresh BY <1>3, RefreshSends DEF ChannelSteps, Channel!Next
<1>4. ASSUME NEW p \in Players, WritePacket(p) PROVE ChannelSteps
  BY <1>4, WriteReceives DEF ChannelSteps, Channel!Next
<1>5. ASSUME NEW p \in Players, DeleteListener(p) PROVE ChannelSteps
  <2>1. /\ RemoveListener(p) /\ UNCHANGED <<upstream, broken, got, joined>> /\ player' = player
        /\ p \in deleting
    BY <1>5 DEF DeleteListener
  <2>2. ~Outside(p) /\ \A q \in Players : Outside(q)' <=> Outside(q)
    BY <2>1 DEF Outside, IInv, Inv, Untouched
  <2> QED BY <2>1, <2>2, RemoveLeaves DEF ChannelSteps, Channel!Next
<1>6. ASSUME NEW p \in Players, Player(p) PROVE ChannelSteps BY <1>6, PlayerInChannel
<1> QED BY <1>1, <1>2, <1>3, <1>4, <1>5, <1>6 DEF Next, Worker

LEMMA ChannelInit == Init => InFlight /\ Channel!Init
<1> SUFFICES ASSUME Init PROVE InFlight /\ Channel!Init OBVIOUS
<1>1. InFlight BY DEF Init, InFlight
<1>2. Dispatched = 0 BY DEF Init, Dispatched
<1>3. Phase = [p \in Players |-> "out"] BY DEF Init, Phase, Outside
<1> QED BY <1>1, <1>2, <1>3 DEF Init, Channel!Init

\* The stream implements the broadcast channel, for any number of players and
\* packets, whoever joins, leaves, breaks or closes meanwhile: the worker's copy
\* of the listeners and the dirty flag are not seen from outside
\* (basic_rtmp_videostream.go:38-62, 76-86).
THEOREM StreamBroadcasts == Spec => BroadcastSpec
<1>1. Init => InFlight /\ Channel!Init BY ChannelInit
<1>2. IInv /\ InFlight /\ [Next]_vars => InFlight' BY InFlightNext
<1>3. IInv /\ IInv' /\ InFlight /\ [Next]_vars => [Channel!Next]_(Channel!broadcastVars)
  BY StepInChannel DEF ChannelSteps
<1> QED BY <1>1, <1>2, <1>3, StreamInvariant, PTL DEF Spec, BroadcastSpec, Channel!Spec
=============================================================================
