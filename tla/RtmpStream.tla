------------------------------ MODULE RtmpStream ------------------------------
(***************************************************************************)
(* BasicRTMPVideoStream (stream/basic_rtmp_videostream.go) between the two *)
(* handlers that use it: VidListener's publish handler                     *)
(* (vidlistener/listener.go), which copies the publisher's connection into *)
(* the stream, and VidPlayer's play handlers (vidplayer/player.go), which  *)
(* each add their connection as a listener.                                *)
(*                                                                         *)
(* Goroutines: the worker that fans packets out, the pump that reads the   *)
(* publisher's connection, the watcher that closes it, the publish         *)
(* handler, and for every player a handler and a watcher.  A step runs     *)
(* between two points where another goroutine can act: a channel           *)
(* operation, a lock, or a write on a connection.                          *)
(***************************************************************************)
EXTENDS Integers, FiniteSets

CONSTANTS Players,     \* connections that ask to play the stream
          Fragile,     \* players whose connection may break
          Cancellable, \* readers whose context their caller may cancel
          AppCloses,   \* TRUE when the application may call Close itself
          MaxPackets   \* packets the publisher sends at most

ASSUME StreamAssumption ==
  /\ Fragile \subseteq Players
  /\ Cancellable \subseteq Players
  /\ AppCloses \in BOOLEAN
  /\ MaxPackets \in Nat

VARIABLES
  closed,    \* EOF is closed
  publish,   \* the publish handler
  pump,      \* the goroutine of WriteRTMPToStream that reads packets
  watcher,   \* the goroutine of WriteRTMPToStream that waits for EOF
  source,    \* TRUE while the publisher's connection is open
  sent,      \* packets the worker has received from the pump
  worker,    \* where the worker is
  pending,   \* listeners the worker has still to write the packet to
  cache,     \* the worker's copy of the listeners
  listeners, \* s.listeners
  dirty,     \* s.dirty
  deleting,  \* listeners for which "go deleteListener" has been started
  player,    \* per player: its handler and its watcher
  broken,    \* players whose connection fails
  got,       \* per player: the packets written to its connection
  joined,    \* per player: packets dispatched before it became a listener
  left       \* per player: packets dispatched before it was removed

publisher == <<publish, pump, watcher, source>>
fanout == <<worker, pending, cache>>
table == <<listeners, dirty>>
history == <<got, joined, left>>
upstream == <<closed, publisher, sent, fanout>>
players == <<table, deleting, player, broken, history>>
vars == <<closed, publisher, sent, fanout, table, deleting, player, broken,
          history>>

Packets == 1..MaxPackets

(* Packets for which the worker has already read the listeners. *)
Dispatched == IF worker = "received" THEN sent - 1 ELSE sent

Init ==
  /\ closed = FALSE
  /\ publish = "idle"
  /\ pump = "off"
  /\ watcher = "off"
  /\ source = TRUE
  /\ sent = 0
  /\ worker = "waiting"
  /\ pending = {}
  /\ cache = {}
  /\ listeners = {}
  /\ dirty = FALSE
  /\ deleting = {}
  /\ player = [p \in Players |-> "idle"]
  /\ broken = {}
  /\ got = [p \in Players |-> {}]
  /\ joined = [p \in Players |-> 0]
  /\ left = [p \in Players |-> MaxPackets]

-------------------------------------------------------------------------------
(* The publish handler. *)

(* WriteRTMPToStream: the header is kept and both goroutines start. *)
WriteRTMPToStream ==
  /\ publish = "idle"
  /\ publish' = "got"
  /\ pump' = "reading"
  /\ watcher' = "waiting"
  /\ UNCHANGED <<closed, source, sent, fanout, players>>

(* Streams() fails: the handler returns, nobody closes the stream. *)
StreamsFails ==
  /\ publish = "idle"
  /\ publish' = "refused"
  /\ UNCHANGED <<closed, pump, watcher, source, sent, fanout, players>>

GotStream ==
  /\ publish = "got"
  /\ publish' = "waiting"
  /\ UNCHANGED <<closed, pump, watcher, source, sent, fanout, players>>

(* gotStream returns an error: endStream and conn.Close at once. *)
GotStreamFails ==
  /\ publish = "got"
  /\ publish' = "ended"
  /\ source' = FALSE
  /\ UNCHANGED <<closed, pump, watcher, sent, fanout, players>>

(* The handler receives from eof and calls endStream. *)
EndStream ==
  /\ publish = "waiting"
  /\ watcher = "offering"
  /\ publish' = "ended"
  /\ watcher' = "gone"
  /\ UNCHANGED <<closed, pump, source, sent, fanout, players>>

(* EOF is closed: close the publisher's connection, then offer eof. *)
WatchSource ==
  /\ watcher = "waiting"
  /\ closed
  /\ source' = FALSE
  /\ watcher' = "offering"
  /\ UNCHANGED <<closed, publish, pump, sent, fanout, players>>

(* The application calls Close on the stream gotStream gave it. *)
CloseStream ==
  /\ AppCloses
  /\ publish \in {"got", "waiting", "ended"}
  /\ ~closed
  /\ closed' = TRUE
  /\ UNCHANGED <<publisher, sent, fanout, players>>

-------------------------------------------------------------------------------
(* The pump. *)

ReadPacket ==
  /\ pump = "reading"
  /\ source
  /\ sent < MaxPackets
  /\ pump' = "sending"
  /\ UNCHANGED <<closed, publish, watcher, source, sent, fanout, players>>

(* io.EOF or an error: Close, which does nothing the second time. *)
ReadFails ==
  /\ pump = "reading"
  /\ pump' = "gone"
  /\ closed' = TRUE
  /\ UNCHANGED <<publish, watcher, source, sent, fanout, players>>

(* ch <- &packet meets the worker's select. *)
Deliver ==
  /\ pump = "sending"
  /\ worker = "waiting"
  /\ pump' = "reading"
  /\ worker' = "received"
  /\ sent' = sent + 1
  /\ UNCHANGED <<closed, publish, watcher, source, pending, cache, players>>

-------------------------------------------------------------------------------
(* The worker. *)

(* Under listnersLock: copy the listeners when they have changed. *)
Refresh ==
  /\ worker = "received"
  /\ cache' = IF dirty THEN listeners ELSE cache
  /\ dirty' = FALSE
  /\ pending' = cache'
  /\ worker' = IF cache' = {} THEN "waiting" ELSE "writing"
  /\ UNCHANGED <<closed, publisher, sent, listeners, deleting, player, broken, history>>

(* Mutant: the packet before is written again. *)
WritePacketStale(p) ==
  /\ p \in pending \ broken
  /\ got' = [got EXCEPT ![p] = @ \cup {sent - 1}]
  /\ pending' = pending \ {p}
  /\ worker' = IF pending' = {} THEN "waiting" ELSE "writing"
  /\ UNCHANGED <<closed, publisher, sent, cache, table, deleting, player, broken, joined, left>>

(* WritePacket on one listener; on an error "go deleteListener". *)
WritePacket(p) ==
  /\ p \in pending
  /\ IF p \in broken
       THEN deleting' = deleting \cup {p} /\ got' = got
       ELSE got' = [got EXCEPT ![p] = @ \cup {sent}] /\ deleting' = deleting
  /\ pending' = pending \ {p}
  /\ worker' = IF pending' = {} THEN "waiting" ELSE "writing"
  /\ UNCHANGED <<closed, publisher, sent, cache, table, player, broken, joined, left>>

(* The select takes EOF. *)
StopWorker ==
  /\ worker = "waiting"
  /\ closed
  /\ worker' = "gone"
  /\ UNCHANGED <<closed, publisher, sent, pending, cache, players>>

(* Mutant: dirty is not set. *)
RemoveListenerClean(p) ==
  /\ listeners' = listeners \ {p}
  /\ UNCHANGED dirty
  /\ left' = IF p \in listeners THEN [left EXCEPT ![p] = Dispatched] ELSE left

(* deleteListener: the first removal of p is the one that counts. *)
RemoveListener(p) ==
  /\ listeners' = listeners \ {p}
  /\ dirty' = TRUE
  /\ left' = IF p \in listeners THEN [left EXCEPT ![p] = Dispatched] ELSE left

DeleteListener(p) ==
  /\ p \in deleting
  /\ RemoveListener(p)
  /\ deleting' = deleting \ {p}
  /\ UNCHANGED <<upstream, player, broken, got, joined>>

-------------------------------------------------------------------------------
(* The players: ReadRTMPFromStream and the play handler. *)

MovePlayer(p, from, to) ==
  /\ player[p] = from
  /\ player' = [player EXCEPT ![p] = to]

(* gotStream has handed the stream over; the header goes out. *)
WriteHeader(p) ==
  /\ publish \notin {"idle", "refused"}
  /\ p \notin broken
  /\ MovePlayer(p, "idle", "header")
  /\ UNCHANGED <<upstream, table, deleting, broken, history>>

(* WriteHeader fails: eof is nil and the play handler waits on it for good. *)
HeaderFails(p) ==
  /\ publish \notin {"idle", "refused"}
  /\ p \in broken
  /\ MovePlayer(p, "idle", "stuck")
  /\ UNCHANGED <<upstream, table, deleting, broken, history>>

(* Mutant: dirty is not set. *)
AddListenerClean(p) ==
  /\ MovePlayer(p, "header", "watching")
  /\ listeners' = listeners \cup {p}
  /\ joined' = [joined EXCEPT ![p] = Dispatched]
  /\ UNCHANGED <<upstream, dirty, deleting, broken, got, left>>

AddListener(p) ==
  /\ MovePlayer(p, "header", "watching")
  /\ listeners' = listeners \cup {p}
  /\ dirty' = TRUE
  /\ joined' = [joined EXCEPT ![p] = Dispatched]
  /\ UNCHANGED <<upstream, deleting, broken, got, left>>

(* The player's watcher sees EOF, or its context is cancelled: WriteTrailer. *)
StreamEnded(p) ==
  /\ closed
  /\ MovePlayer(p, "watching", "ended")
  /\ UNCHANGED <<upstream, table, deleting, broken, history>>

ContextDone(p) ==
  /\ p \in Cancellable
  /\ MovePlayer(p, "watching", "cancelled")
  /\ UNCHANGED <<upstream, table, deleting, broken, history>>

(* Mutant: eof is never offered. *)
LeaveEndedSilently(p) ==
  /\ MovePlayer(p, "ended", "left")
  /\ RemoveListener(p)
  /\ UNCHANGED <<upstream, deleting, broken, got, joined>>

(* deleteListener; only a watcher that saw EOF goes on to offer eof. *)
LeaveEnded(p) ==
  /\ MovePlayer(p, "ended", "offering")
  /\ RemoveListener(p)
  /\ UNCHANGED <<upstream, deleting, broken, got, joined>>

LeaveCancelled(p) ==
  /\ MovePlayer(p, "cancelled", "left")
  /\ RemoveListener(p)
  /\ UNCHANGED <<upstream, deleting, broken, got, joined>>

(* The play handler receives from eof and closes its connection. *)
Release(p) ==
  /\ MovePlayer(p, "offering", "released")
  /\ UNCHANGED <<upstream, table, deleting, broken, history>>

(* A connection breaks: every later write on it fails. *)
Break(p) ==
  /\ p \in Fragile \ broken
  /\ broken' = broken \cup {p}
  /\ UNCHANGED <<upstream, table, deleting, player, history>>

-------------------------------------------------------------------------------
Publisher ==
  \/ WriteRTMPToStream \/ StreamsFails \/ GotStream \/ GotStreamFails
  \/ EndStream \/ WatchSource \/ CloseStream
  \/ ReadPacket \/ ReadFails

Worker ==
  \/ Deliver \/ Refresh \/ StopWorker
  \/ \E p \in Players : WritePacket(p) \/ DeleteListener(p)

Player(p) ==
  \/ WriteHeader(p) \/ HeaderFails(p) \/ AddListener(p)
  \/ StreamEnded(p) \/ ContextDone(p) \/ LeaveEnded(p) \/ LeaveCancelled(p)
  \/ Release(p) \/ Break(p)

Next == Publisher \/ Worker \/ \E p \in Players : Player(p)

Spec == Init /\ [][Next]_vars

(* A goroutine that can run does; callbacks and writes return.  Nothing    *)
(* forces a packet to arrive, a connection to break, or anyone to cancel,  *)
(* close or start playing.                                                 *)
Fairness ==
  /\ WF_vars(GotStream \/ GotStreamFails)
  /\ WF_vars(EndStream)
  /\ WF_vars(WatchSource)
  /\ WF_vars(Deliver)
  /\ WF_vars(Refresh)
  /\ WF_vars(StopWorker)
  /\ \A p \in Players :
       /\ WF_vars(WritePacket(p))
       /\ WF_vars(DeleteListener(p))
       /\ WF_vars(AddListener(p))
       /\ WF_vars(StreamEnded(p))
       /\ WF_vars(LeaveEnded(p) \/ LeaveCancelled(p))
       /\ WF_vars(Release(p))

FairSpec == Spec /\ Fairness

-------------------------------------------------------------------------------
(* Types of the variables. *)
TypeOK ==
  /\ closed \in BOOLEAN
  /\ publish \in {"idle", "got", "waiting", "ended", "refused"}
  /\ pump \in {"off", "reading", "sending", "gone"}
  /\ watcher \in {"off", "waiting", "offering", "gone"}
  /\ source \in BOOLEAN
  /\ sent \in 0..MaxPackets
  /\ worker \in {"waiting", "received", "writing", "gone"}
  /\ pending \subseteq cache /\ cache \subseteq Players
  /\ listeners \subseteq Players
  /\ dirty \in BOOLEAN
  /\ deleting \subseteq Players
  /\ player \in [Players -> {"idle", "header", "stuck", "watching", "ended",
                             "cancelled", "offering", "left", "released"}]
  /\ broken \subseteq Fragile
  /\ got \in [Players -> SUBSET Packets]
  /\ joined \in [Players -> 0..MaxPackets]
  /\ left \in [Players -> 0..MaxPackets]

(* The worker's cached listeners are never stale by a packet: once the     *)
(* worker is back at its select, a listener whose connection works has     *)
(* every packet since it was added, none lost and none from before.  The   *)
(* code relies on the dirty flag, set outside the worker and cleared by it.*)
EveryPacketSinceJoining ==
  worker = "waiting" =>
    \A p \in listeners \ broken : got[p] = joined[p] + 1 .. sent

(* A listener that has been removed gets at most the packet the worker had *)
(* already copied the listeners for: the removal, by a failed write, by a  *)
(* cancelled context or at the end, reaches the worker's cache.            *)
NothingAfterRemoval ==
  \A p \in Players : \A k \in got[p] : k <= left[p]

(* A player as a listener: one that was removed while the worker had the   *)
(* packet for it is about to leave.                                        *)
Outside(p) == player[p] \in {"idle", "header", "stuck"}
Phase ==
  [p \in Players |->
    IF p \in listeners THEN "in"
    ELSE IF Outside(p) THEN "out"
    ELSE IF p \in pending THEN "leaving"
    ELSE "gone"]

Channel ==
  INSTANCE Broadcast WITH Listeners <- Players, sent <- Dispatched, phase <- Phase

(* With copies, flags and goroutines the stream is a broadcast channel: no  *)
(* packet is dispatched before every listener has the one before, and each *)
(* gets its packets in order and without a gap (lines 38-62, 76-86).        *)
BroadcastSpec == Channel!Spec

(* TestRTMPConcurrency: listeners that "start listening before packets     *)
(* arrive and aren't closed" receive all of them.  To have joined[p] = 0 a *)
(* listener must be there when the worker dispatches the first packet.     *)
EarlyListenersGetAll ==
  worker = "gone" /\ sent > 1 =>
    \A p \in Players \ (broken \cup Cancellable) :
      player[p] = "released" /\ joined[p] = 0 => got[p] = 1..sent

(* When the stream is closed, its table of listeners becomes empty for     *)
(* good, whoever closed it and whichever writes failed on the way.         *)
ListenersDrain == [](closed => <>[](listeners = {}))

(* When the stream is closed, endStream is called and the publisher's      *)
(* connection is closed.                                                   *)
PublisherEnds == closed ~> (publish = "ended" /\ ~source)

(* When the stream is closed, the play handler of every listener whose     *)
(* context is not cancelled gets its eof and closes its connection.        *)
PlayersReleased ==
  \A p \in Players :
    (closed /\ player[p] = "watching")
      ~> (player[p] = "released" \/ p \in Cancellable)

(* When the stream is closed the worker returns, even with a packet still  *)
(* to be written or a listener that fails.                                 *)
WorkerStops == closed ~> (worker = "gone")

(* Closing a stream reaches everybody who has to do with it. *)
CloseReachesAll == ListenersDrain /\ PublisherEnds /\ PlayersReleased /\ WorkerStops
===============================================================================
