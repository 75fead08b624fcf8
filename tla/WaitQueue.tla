------------------------------ MODULE WaitQueue ------------------------------
(* The blocking queue of package stream.  A goroutine that polls an empty    *)
(* queue leaves a semaphore in it and waits outside the lock.  A Put hands   *)
(* its items to the waiters one by one: it keeps the lock until the waiter   *)
(* it woke has taken its items, and the waiter takes them without locking.   *)
(* A step here runs from one blocking operation (lock, channel, wait group)  *)
(* to the next.                                                              *)
EXTENDS Integers, Sequences, FiniteSets, SequencesExt

CONSTANTS Clients,  \* goroutines that use the queue
          Ops,      \* what they do, of OpKinds
          Numbers,  \* how many items a poll asks for
          MaxItems,  \* bound on the items put
          MaxPolls  \* bound on the polls that wait, each has a semaphore

OpKinds == {"timeout", "cancel", "dispose", "take", "execute"}

Free == "free"

ASSUME QueueAssumption ==
  /\ Free \notin Clients
  /\ Ops \subseteq OpKinds
  /\ Numbers \subseteq Nat \ {0}
  /\ MaxItems \in Nat /\ MaxPolls \in Nat

VARIABLES
  items,     \* Queue.items
  waiters,   \* Queue.waiters, semaphores in the order they were left
  disposed,  \* Queue.disposed
  lock,      \* who holds Queue.lock, or Free
  ready,     \* per semaphore: is there a value in its channel, of capacity 1?
  response,  \* per semaphore: the counter of its wait group
  polls,     \* number of semaphores made
  pc,        \* per client: where it is
  sema,      \* per client: the semaphore it waits on or has woken
  asked,     \* per client: the items its poll asks for
  accepted,  \* items put so far, in order
  taken,     \* items that left the queue, in order
  returned   \* per client: what the call that returned last gave it

queue == <<items, waiters, disposed, lock>>
semas == <<ready, response, polls>>
vars == <<queue, semas, pc, sema, asked, accepted, taken, returned>>

Semas == 1..MaxPolls

\* What is left of an item that ExecuteInParallel has worked on.
Zero == 0
Items == 0..MaxItems

PCs == {"idle", "handoff", "response", "wait", "woken", "timeout", "remove",
        "execute", "gap"}
Results == {"none", "items", "nothing", "disposed", "timeout", "cancelled"}

TypeOK ==
  /\ items \in Seq(Items) /\ accepted \in Seq(Items) /\ taken \in Seq(Items)
  /\ waiters \in Seq(Semas)
  /\ disposed \in BOOLEAN
  /\ lock \in Clients \cup {Free}
  /\ ready \in [Semas -> BOOLEAN]
  /\ response \in [Semas -> Int]
  /\ polls \in 0..MaxPolls
  /\ pc \in [Clients -> PCs]
  /\ sema \in [Clients -> 0..MaxPolls]
  /\ asked \in [Clients -> Numbers]
  /\ returned \in [Clients -> Results]

-----------------------------------------------------------------------------
Goto(c, p) == pc' = [pc EXCEPT ![c] = p]

Return(c, result) ==
  /\ Goto(c, "idle")
  /\ returned' = [returned EXCEPT ![c] = result]

\* Mutants: the slice still holds what was taken, the last items go first.
TakeLeavesNil(n) ==
  LET k == IF n <= Len(items) THEN n ELSE Len(items)
  IN  /\ items' = [i \in DOMAIN items |-> IF i <= k THEN -1 ELSE items[i]]
      /\ taken' = taken \o SubSeq(items, 1, k)
TakeLast(n) ==
  LET k == IF n <= Len(items) THEN n ELSE Len(items)
  IN  /\ items' = SubSeq(items, 1, Len(items) - k)
      /\ taken' = taken \o SubSeq(items, Len(items) - k + 1, Len(items))

\* The first n items leave the queue.
Take(n) ==
  LET k == IF n <= Len(items) THEN n ELSE Len(items)
  IN  /\ items' = SubSeq(items, k + 1, Len(items))
      /\ taken' = taken \o SubSeq(items, 1, k)

Done(s) == response' = [response EXCEPT ![s] = @ - 1]

-----------------------------------------------------------------------------
(* Put.                                                                     *)

\* n items, numbered on from those put before.
New(n) == [i \in 1..n |-> Len(accepted) + i]

\* Puts any number of items at once; without any it does not even lock.
Put(c) ==
  /\ pc[c] = "idle" /\ lock = Free
  /\ \E n \in 1..MaxItems - Len(accepted) :
       IF disposed
       THEN /\ Return(c, "disposed")
            /\ UNCHANGED <<queue, accepted>>
       ELSE /\ lock' = c
            /\ items' = items \o New(n)
            /\ accepted' = accepted \o New(n)
            /\ Goto(c, "handoff")
            /\ UNCHANGED <<waiters, disposed, returned>>
  /\ UNCHANGED <<semas, sema, asked, taken>>

PutReturns(c) ==
  /\ lock' = Free
  /\ Return(c, "none")

\* No waiter is left to serve.
LastHandoff(c) ==
  /\ pc[c] = "handoff"
  /\ waiters = <<>>
  /\ PutReturns(c)
  /\ UNCHANGED <<items, waiters, disposed, semas, sema, asked, accepted, taken>>

\* The next waiter is woken, unless its channel is full: then it timed out.
Handoff(c) ==
  /\ pc[c] = "handoff"
  /\ waiters # <<>>
  /\ LET s == Head(waiters)
     IN  /\ waiters' = Tail(waiters)
         /\ response' = [response EXCEPT ![s] = @ + 1]
         /\ IF ready[s]
            THEN /\ IF items = <<>> THEN PutReturns(c) ELSE UNCHANGED <<lock, pc, returned>>
                 /\ UNCHANGED <<ready, sema>>
            ELSE /\ ready' = [ready EXCEPT ![s] = TRUE]
                 /\ sema' = [sema EXCEPT ![c] = s]
                 /\ Goto(c, "response")
                 /\ UNCHANGED <<lock, returned>>
  /\ UNCHANGED <<items, disposed, polls, asked, accepted, taken>>

\* Mutants: Put goes on without items, serves one waiter.
ResponseGoesOn(c) ==
  /\ pc[c] = "response"
  /\ response[sema[c]] = 0
  /\ Goto(c, "handoff")
  /\ UNCHANGED <<queue, semas, sema, asked, accepted, taken, returned>>
ResponseReturns(c) ==
  /\ pc[c] = "response"
  /\ response[sema[c]] = 0
  /\ PutReturns(c)
  /\ UNCHANGED <<items, waiters, disposed, semas, sema, asked, accepted, taken>>

\* The waiter has answered.
Response(c) ==
  /\ pc[c] = "response"
  /\ response[sema[c]] = 0
  /\ IF items = <<>> THEN PutReturns(c)
     ELSE Goto(c, "handoff") /\ UNCHANGED <<lock, returned>>
  /\ UNCHANGED <<items, waiters, disposed, semas, sema, asked, accepted, taken>>

-----------------------------------------------------------------------------
(* Poll, and Get, which never times out and is never cancelled.             *)

Poll(c) ==
  /\ pc[c] = "idle" /\ lock = Free
  /\ \E n \in Numbers :
       \/ /\ disposed
          /\ Return(c, "disposed")
          /\ UNCHANGED <<queue, semas, sema, asked, taken>>
       \/ /\ ~disposed /\ items # <<>>
          /\ Take(n)
          /\ Return(c, "items")
          /\ UNCHANGED <<waiters, disposed, lock, semas, sema, asked>>
       \/ /\ ~disposed /\ items = <<>>
          /\ polls < MaxPolls
          /\ polls' = polls + 1
          /\ waiters' = Append(waiters, polls + 1)
          /\ sema' = [sema EXCEPT ![c] = polls + 1]
          /\ asked' = [asked EXCEPT ![c] = n]
          /\ Goto(c, "wait")
          /\ UNCHANGED <<items, disposed, lock, ready, response, taken, returned>>
  /\ UNCHANGED accepted

Wake(c) ==
  /\ pc[c] = "wait"
  /\ ready[sema[c]]
  /\ ready' = [ready EXCEPT ![sema[c]] = FALSE]
  /\ Goto(c, "woken")
  /\ UNCHANGED <<queue, response, polls, sema, asked, accepted, taken, returned>>

\* Without the lock: if the queue is not disposed a Put holds it.
TakeWoken(c) ==
  /\ pc[c] = "woken"
  /\ IF disposed
     THEN /\ Return(c, "disposed")
          /\ UNCHANGED <<items, response, taken>>
     ELSE /\ Take(asked[c])
          /\ Done(sema[c])
          /\ Return(c, IF items = <<>> THEN "nothing" ELSE "items")
  /\ UNCHANGED <<waiters, disposed, lock, ready, polls, sema, asked, accepted>>

Timeout(c) ==
  /\ "timeout" \in Ops
  /\ pc[c] = "wait"
  /\ Goto(c, "timeout")
  /\ UNCHANGED <<queue, semas, sema, asked, accepted, taken, returned>>

\* Mutant: no Done although a Put asks.
TimeoutNeverDone(c) ==
  /\ pc[c] = "timeout"
  /\ ready' = [ready EXCEPT ![sema[c]] = TRUE]
  /\ Goto(c, "remove")
  /\ UNCHANGED <<queue, response, polls, sema, asked, accepted, taken, returned>>

\* A poll that timed out fills its channel, or finds it filled by a Put that
\* waits for an answer.
TimeoutAnswers(c) ==
  /\ pc[c] = "timeout"
  /\ IF ready[sema[c]]
     THEN /\ Done(sema[c])
          /\ Return(c, "timeout")
          /\ UNCHANGED ready
     ELSE /\ ready' = [ready EXCEPT ![sema[c]] = TRUE]
          /\ Goto(c, "remove")
          /\ UNCHANGED <<response, returned>>
  /\ UNCHANGED <<queue, polls, sema, asked, accepted, taken>>

RemoveWaiter(c) ==
  /\ pc[c] = "remove" /\ lock = Free
  /\ \/ /\ sema[c] \notin Range(waiters)
        /\ UNCHANGED waiters
     \/ \E i \in DOMAIN waiters :
          /\ waiters[i] = sema[c]
          /\ waiters' = RemoveAt(waiters, i)
  /\ Return(c, "timeout")
  /\ UNCHANGED <<items, disposed, lock, semas, sema, asked, accepted, taken>>

\* The context of a poll is done: it leaves its semaphore where it is.
Cancel(c) ==
  /\ "cancel" \in Ops
  /\ pc[c] = "wait"
  /\ Return(c, "cancelled")
  /\ UNCHANGED <<queue, semas, sema, asked, accepted, taken>>

-----------------------------------------------------------------------------
(* The operations that do not wait.                                         *)

\* The checker of TakeUntil stops anywhere.
TakeUntil(c) ==
  /\ "take" \in Ops
  /\ pc[c] = "idle" /\ lock = Free
  /\ IF disposed
     THEN Return(c, "disposed") /\ UNCHANGED <<items, taken>>
     ELSE \E n \in 0..Len(items) : Take(n) /\ Return(c, "none")
  /\ UNCHANGED <<waiters, disposed, lock, semas, sema, asked, accepted>>

\* Every waiter is released, and none is waited for.
DisposeQueue ==
  /\ disposed' = TRUE
  /\ ready' = [s \in Semas |-> ready[s] \/ s \in Range(waiters)]
  /\ response' = [s \in Semas |->
                   IF s \in Range(waiters) THEN response[s] + 1 ELSE response[s]]
  /\ items' = <<>>
  /\ waiters' = <<>>
  /\ UNCHANGED <<lock, polls>>

Dispose(c) ==
  /\ "dispose" \in Ops
  /\ pc[c] = "idle" /\ lock = Free
  /\ DisposeQueue
  /\ taken' = taken \o items
  /\ Return(c, "none")
  /\ UNCHANGED <<sema, asked, accepted>>

\* ExecuteInParallel.  It returns from an empty queue without unlocking it.
Execute(c) ==
  /\ "execute" \in Ops
  /\ pc[c] = "idle" /\ lock = Free
  /\ lock' = c
  /\ IF items = <<>> THEN Return(c, "none") ELSE Goto(c, "execute") /\ UNCHANGED returned
  /\ UNCHANGED <<items, waiters, disposed, semas, sema, asked, accepted, taken>>

\* All items are worked on; the queue keeps what is left of them.
Executed(c) ==
  /\ pc[c] = "execute"
  /\ items' = [i \in DOMAIN items |-> Zero]
  /\ lock' = Free
  /\ Goto(c, "gap")
  /\ UNCHANGED <<waiters, disposed, semas, sema, asked, accepted, taken, returned>>

\* The items Dispose returns are not looked at.
ExecuteDisposes(c) ==
  /\ pc[c] = "gap" /\ lock = Free
  /\ DisposeQueue
  /\ Return(c, "none")
  /\ UNCHANGED <<sema, asked, accepted, taken>>

-----------------------------------------------------------------------------
Init ==
  /\ items = <<>> /\ waiters = <<>> /\ disposed = FALSE /\ lock = Free
  /\ ready = [s \in Semas |-> FALSE]
  /\ response = [s \in Semas |-> 0]
  /\ polls = 0
  /\ pc = [c \in Clients |-> "idle"]
  /\ sema = [c \in Clients |-> 0]
  /\ asked \in [Clients -> {n \in Numbers : \A m \in Numbers : n <= m}]
  /\ accepted = <<>> /\ taken = <<>>
  /\ returned = [c \in Clients |-> "none"]

\* Steps of a call under way that wait neither for the lock nor for time.
Proceed(c) ==
  \/ LastHandoff(c) \/ Handoff(c) \/ Response(c)
  \/ Wake(c) \/ TakeWoken(c) \/ TimeoutAnswers(c)
  \/ Executed(c)

Next ==
  \E c \in Clients :
    \/ Put(c) \/ Poll(c) \/ TakeUntil(c) \/ Dispose(c) \/ Execute(c)
    \/ Proceed(c)
    \/ Timeout(c) \/ Cancel(c) \/ RemoveWaiter(c) \/ ExecuteDisposes(c)

Spec == Init /\ [][Next]_vars

\* A goroutine that can run does; nothing is assumed of callers or of time.
FairSpec == Spec /\ \A c \in Clients : WF_vars(Proceed(c))

-----------------------------------------------------------------------------
(* Properties.                                                              *)

\* "We are now inside the put's lock": a poll that was woken touches the items
\* only while the Put that woke it holds the lock and waits for it.
TakesInsidePut ==
  \A c \in Clients : pc[c] = "woken" /\ ~disposed =>
    \E p \in Clients : lock = p /\ pc[p] = "response" /\ sema[p] = sema[c]

\* The counter of a wait group never becomes negative (Go would panic), and
\* no waiter answers on behalf of another.
AnswersAsked == \A s \in Semas : response[s] >= 0

\* A poll that succeeds returns at least one item: the callers in stream.go
\* index its result without looking.
PollFindsItems == \A c \in Clients : returned[c] # "nothing"

\* The items of a Put are split among the polls in the order they came: one that
\* was woken came before all that still wait.
EarlierFirst == \A c \in Clients : pc[c] = "woken" => \A s \in Range(waiters) : sema[c] < s

\* Items leave the queue in the order they were put, none twice, each that was
\* accepted is still in the queue or has left it, and they go to the polls in
\* the order these came.
InOrderOnce == accepted = taken \o items /\ EarlierFirst

\* While the queue is unlocked no poll waits for the items it holds, other
\* than one that is timing out.
NoneWaitsForItems ==
  lock = Free /\ items # <<>> =>
    \A c \in Clients : pc[c] = "wait" => sema[c] \notin Range(waiters)

\* A disposed queue releases every poll that waited.
DisposeReleases ==
  disposed => \A c \in Clients : pc[c] = "wait" => ready[sema[c]]

\* The hand-off from Put to the polls, whatever times out, is cancelled or
\* disposed at the same time.
HandOff == TakesInsidePut /\ AnswersAsked /\ PollFindsItems /\ DisposeReleases

\* Whoever locks the queue unlocks it: a Put is answered by each waiter it woke,
\* and moves on.
LockReleased == \A c \in Clients : lock = c ~> lock # c
=============================================================================
