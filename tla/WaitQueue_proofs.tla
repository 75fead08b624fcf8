-------------------------- MODULE WaitQueue_proofs --------------------------
(* For every number of goroutines, polls and items: the hand-off from a Put  *)
(* to the polls it wakes, which take their items without the lock, and the   *)
(* order of the items.                                                       *)
EXTENDS WaitQueue, SequenceTheorems, TLAPS

-----------------------------------------------------------------------------
(* Sequences without duplicates, such as the waiters.                       *)

\* The waiters queue in the order their polls came.
Increasing(w) == \A i, j \in DOMAIN w : i < j => w[i] < w[j]

\* What is left of them when the first is served.
LEMMA TailOfDistinct ==
  ASSUME NEW S, NEW w \in Seq(S), w # <<>>, IsInjective(w)
  PROVE  /\ Head(w) \in S /\ Head(w) \in Range(w)
         /\ Tail(w) \in Seq(S) /\ IsInjective(Tail(w))
         /\ Range(Tail(w)) = Range(w) \ {Head(w)}
         /\ Increasing(w) => /\ Increasing(Tail(w))
                             /\ \A s \in Range(Tail(w)) : Head(w) < s
<1> DEFINE t == Tail(w)
<1>1. /\ Len(w) \in Nat \ {0} /\ DOMAIN w = 1..Len(w) /\ Head(w) = w[1] /\ w[1] \in S
      /\ t \in Seq(S) /\ Len(t) = Len(w) - 1 /\ DOMAIN t = 1..Len(t)
      /\ \A i \in 1..Len(t) : t[i] = w[i + 1]
  OBVIOUS
<1> HIDE DEF t
<1>2. IsInjective(t)
  <2>1. ASSUME NEW i \in DOMAIN t, NEW j \in DOMAIN t, t[i] = t[j] PROVE i = j
    <3>1. i + 1 \in DOMAIN w /\ j + 1 \in DOMAIN w /\ w[i + 1] = w[j + 1] BY <1>1, <2>1
    <3>2. i + 1 = j + 1 BY <3>1 DEF IsInjective
    <3> QED BY <1>1, <3>2
  <2> QED BY <2>1 DEF IsInjective
<1>3. ASSUME NEW s \in Range(t) PROVE s \in Range(w) \ {w[1]}
  <2>1. PICK i \in DOMAIN t : t[i] = s BY DEF Range
  <2>2. i + 1 \in DOMAIN w /\ 1 \in DOMAIN w /\ i + 1 # 1 /\ w[i + 1] = s BY <1>1, <2>1
  <2> QED BY <2>2 DEF Range, IsInjective
<1>4. ASSUME NEW s \in Range(w), s # w[1] PROVE s \in Range(t)
  <2>1. PICK i \in DOMAIN w : w[i] = s BY DEF Range
  <2>2. i - 1 \in DOMAIN t /\ t[i - 1] = s BY <1>1, <1>4, <2>1
  <2> QED BY <2>2 DEF Range
<1>5. w[1] \in Range(w) BY <1>1 DEF Range
<1>6. Range(t) = Range(w) \ {w[1]} BY <1>3, <1>4
<1>7. ASSUME Increasing(w) PROVE Increasing(t)
  <2>1. ASSUME NEW i \in DOMAIN t, NEW j \in DOMAIN t, i < j PROVE t[i] < t[j]
    <3>1. i + 1 \in DOMAIN w /\ j + 1 \in DOMAIN w /\ i + 1 < j + 1 BY <1>1, <2>1
    <3>2. w[i + 1] < w[j + 1] BY <1>7, <3>1 DEF Increasing
    <3> QED BY <1>1, <3>2
  <2> QED BY <2>1 DEF Increasing
<1>8. ASSUME Increasing(w), NEW s \in Range(t) PROVE w[1] < s
  <2>1. PICK i \in DOMAIN t : t[i] = s BY DEF Range
  <2>2. i + 1 \in DOMAIN w /\ 1 \in DOMAIN w /\ 1 < i + 1 /\ w[i + 1] = s BY <1>1, <2>1
  <2> QED BY <1>8, <2>2 DEF Increasing
<1> QED BY <1>1, <1>2, <1>5, <1>6, <1>7, <1>8 DEF t

\* A new one goes to the end.
LEMMA AppendDistinct ==
  ASSUME NEW S, NEW w \in Seq(S), NEW x \in S, IsInjective(w), x \notin Range(w)
  PROVE  /\ Append(w, x) \in Seq(S) /\ IsInjective(Append(w, x))
         /\ Range(Append(w, x)) = Range(w) \cup {x}
         /\ Increasing(w) /\ (\A s \in Range(w) : s < x) => Increasing(Append(w, x))
<1> DEFINE t == Append(w, x)
<1>1. /\ Len(w) \in Nat /\ DOMAIN w = 1..Len(w)
      /\ t \in Seq(S) /\ Len(t) = Len(w) + 1 /\ DOMAIN t = 1..Len(t)
      /\ \A i \in 1..Len(w) : t[i] = w[i]
      /\ t[Len(w) + 1] = x
  OBVIOUS
<1> HIDE DEF t
<1>2. \A i \in 1..Len(w) : w[i] # x BY <1>1 DEF Range
<1>3. ASSUME NEW i \in DOMAIN t, NEW j \in DOMAIN t, t[i] = t[j] PROVE i = j
  <2>1. CASE i \in 1..Len(w) /\ j \in 1..Len(w) BY <1>1, <1>3, <2>1 DEF IsInjective
  <2>2. CASE i = Len(w) + 1 \/ j = Len(w) + 1 BY <1>1, <1>2, <1>3, <2>2
  <2> QED BY <1>1, <2>1, <2>2
<1>4. IsInjective(t) BY <1>3 DEF IsInjective
<1>5. ASSUME NEW s \in Range(t) PROVE s \in Range(w) \cup {x}
  <2>1. PICK i \in DOMAIN t : t[i] = s BY DEF Range
  <2> QED BY <1>1, <2>1 DEF Range
<1>6. ASSUME NEW s \in Range(w) \cup {x} PROVE s \in Range(t)
  <2>1. PICK i \in DOMAIN t : t[i] = s BY <1>1 DEF Range
  <2> QED BY <2>1 DEF Range
<1>7. Range(t) = Range(w) \cup {x} BY <1>5, <1>6
<1>8. ASSUME Increasing(w), \A s \in Range(w) : s < x PROVE Increasing(t)
  <2>1. ASSUME NEW i \in DOMAIN t, NEW j \in DOMAIN t, i < j PROVE t[i] < t[j]
    <3>1. i \in 1..Len(w) /\ t[i] = w[i] BY <1>1, <2>1
    <3>2. CASE j \in 1..Len(w) BY <1>1, <1>8, <2>1, <3>1, <3>2 DEF Increasing
    <3>3. CASE j = Len(w) + 1 BY <1>1, <1>8, <3>1, <3>3 DEF Range
    <3> QED BY <1>1, <3>2, <3>3
  <2> QED BY <2>1 DEF Increasing
<1> QED BY <1>1, <1>4, <1>7, <1>8 DEF t

\* The place, behind the i-th of m, of what comes j-th once the i-th is out.
LEMMA PlaceBehind ==
  ASSUME NEW m \in Nat, NEW i \in 1..m, NEW j \in Nat, j >= i, j <= (i - 1) + (m - i)
  PROVE  j - (i - 1) \in 1..m - i /\ i + (j - (i - 1)) = j + 1 /\ ~(j <= i - 1)
<1>1. i \in Int /\ j - (i - 1) \in Int OBVIOUS
<1>2. j - (i - 1) >= 1 BY <1>1
<1>3. j - (i - 1) <= m - i BY <1>1
<1>4. i + (j - (i - 1)) = j + 1 BY <1>1
<1>5. ~(j <= i - 1) BY <1>1
<1> QED BY <1>1, <1>2, <1>3, <1>4, <1>5

\* One that timed out is removed.
LEMMA RemoveDistinct ==
  ASSUME NEW S, NEW w \in Seq(S), NEW i \in DOMAIN w, IsInjective(w)
  PROVE  /\ RemoveAt(w, i) \in Seq(S) /\ IsInjective(RemoveAt(w, i))
         /\ Range(RemoveAt(w, i)) = Range(w) \ {w[i]}
         /\ Increasing(w) => Increasing(RemoveAt(w, i))
<1> DEFINE t == RemoveAt(w, i)
           old(j) == IF j < i THEN j ELSE j + 1
<1>1. Len(w) \in Nat /\ DOMAIN w = 1..Len(w) /\ i \in 1..Len(w) OBVIOUS
<1>2. /\ t \in Seq(S) /\ Len(t) = Len(w) - 1 /\ DOMAIN t = 1..Len(t)
      /\ \A j \in 1..Len(t) : t[j] = w[old(j)]
  <2> DEFINE u == SubSeq(w, 1, i - 1)
             v == SubSeq(w, i + 1, Len(w))
  <2>1. u \in Seq(S) /\ Len(u) = i - 1 /\ \A j \in 1..i - 1 : u[j] = w[j] BY <1>1
  <2>2. v \in Seq(S) /\ Len(v) = Len(w) - i /\ \A j \in 1..Len(w) - i : v[j] = w[i + j] BY <1>1
  <2>3. t = u \o v BY DEF RemoveAt
  <2> HIDE DEF u, v, t
  <2>4. /\ t \in Seq(S) /\ Len(t) = Len(u) + Len(v)
        /\ \A j \in 1..Len(u) + Len(v) : t[j] = IF j <= Len(u) THEN u[j] ELSE v[j - Len(u)]
    BY <2>1, <2>2, <2>3, ConcatProperties
  <2>5. ASSUME NEW j \in 1..Len(t) PROVE t[j] = w[old(j)]
    <3>1. CASE j < i BY <1>1, <2>1, <2>4, <3>1
    <3>2. CASE j >= i
      <4>1. j - (i - 1) \in 1..Len(w) - i /\ i + (j - (i - 1)) = j + 1 /\ ~(j <= i - 1)
        <5>1. /\ Len(w) \in Nat /\ i \in 1..Len(w) /\ j \in Nat /\ j >= i
              /\ j <= (i - 1) + (Len(w) - i)
          BY <1>1, <2>1, <2>2, <2>4, <3>2
        <5> QED BY <5>1, PlaceBehind
      <4>2. t[j] = v[j - (i - 1)] BY <2>1, <2>4, <4>1
      <4>3. v[j - (i - 1)] = w[i + (j - (i - 1))] BY <2>2, <4>1
      <4> QED BY <3>2, <4>1, <4>2, <4>3, <1>1
    <3> QED BY <1>1, <2>4, <3>1, <3>2
  <2>6. Len(t) = Len(w) - 1 BY <1>1, <2>1, <2>2, <2>4
  <2>7. DOMAIN t = 1..Len(t) BY <2>4
  <2> QED BY <2>4, <2>5, <2>6, <2>7
<1> HIDE DEF t
<1>3. /\ \A j \in DOMAIN t : old(j) \in DOMAIN w /\ old(j) # i /\ t[j] = w[old(j)]
      /\ \A j, k \in DOMAIN t : old(j) = old(k) => j = k
      /\ \A j, k \in DOMAIN t : j < k => old(j) < old(k)
      /\ \A k \in DOMAIN w : k # i => \E j \in DOMAIN t : old(j) = k
  <2>1. ASSUME NEW k \in DOMAIN w, k # i PROVE \E j \in DOMAIN t : old(j) = k
    <3>1. CASE k < i BY <1>1, <1>2, <3>1
    <3>2. CASE k > i
      <4>1. k - 1 \in DOMAIN t /\ old(k - 1) = k BY <1>1, <1>2, <3>2
      <4> QED BY <4>1
    <3> QED BY <1>1, <2>1, <3>1, <3>2
  <2> QED BY <1>1, <1>2, <2>1
<1> HIDE DEF old
<1>4. IsInjective(t)
  <2>1. ASSUME NEW j \in DOMAIN t, NEW k \in DOMAIN t, t[j] = t[k] PROVE j = k
    <3>1. old(j) = old(k) BY <1>3, <2>1 DEF IsInjective
    <3> QED BY <1>3, <3>1
  <2> QED BY <2>1 DEF IsInjective
<1>5. ASSUME NEW s \in Range(t) PROVE s \in Range(w) \ {w[i]}
  <2>1. PICK j \in DOMAIN t : t[j] = s BY DEF Range
  <2>2. old(j) \in DOMAIN w /\ old(j) # i /\ w[old(j)] = s BY <1>3, <2>1
  <2> QED BY <2>2 DEF Range, IsInjective
<1>6. ASSUME NEW s \in Range(w), s # w[i] PROVE s \in Range(t)
  <2>1. PICK k \in DOMAIN w : w[k] = s BY DEF Range
  <2>2. PICK j \in DOMAIN t : old(j) = k BY <1>3, <1>6, <2>1
  <2> QED BY <1>3, <2>1, <2>2 DEF Range
<1>7. Range(t) = Range(w) \ {w[i]} BY <1>5, <1>6
<1>8. ASSUME Increasing(w) PROVE Increasing(t)
  <2>1. ASSUME NEW j \in DOMAIN t, NEW k \in DOMAIN t, j < k PROVE t[j] < t[k]
    <3>1. old(j) \in DOMAIN w /\ old(k) \in DOMAIN w /\ old(j) < old(k) BY <1>3, <2>1
    <3> QED BY <1>3, <1>8, <3>1 DEF Increasing
  <2> QED BY <2>1 DEF Increasing
<1> QED BY <1>2, <1>4, <1>7, <1>8 DEF t

LEMMA NoneOfEmpty == IsInjective(<<>>) /\ Range(<<>>) = {}
BY DEF IsInjective, Range

-----------------------------------------------------------------------------
(* Types, and what leaves the queue.                                        *)

LEMMA TakeTypes ==
  ASSUME TypeOK, NEW n \in Nat, Take(n)
  PROVE  /\ items' \in Seq(Items) /\ taken' \in Seq(Items)
         /\ taken' \o items' = taken \o items
         /\ items = <<>> => items' = <<>>
<1> DEFINE k == IF n <= Len(items) THEN n ELSE Len(items)
           a == SubSeq(items, 1, k)
           b == SubSeq(items, k + 1, Len(items))
<1>1. items \in Seq(Items) /\ taken \in Seq(Items) BY DEF TypeOK
<1>2. Len(items) \in Nat /\ k \in 0..Len(items) BY <1>1
<1>3. items' = b /\ taken' = taken \o a BY DEF Take
<1>4. a \in Seq(Items) /\ b \in Seq(Items) /\ Len(b) = Len(items) - k
  <2> HIDE DEF k
  <2> QED BY <1>1, <1>2
<1>5. a \o b = items
  <2> HIDE DEF k
  <2>1. /\ 1 \in 1..Len(items) + 1 /\ k \in 1 - 1..Len(items)
        /\ Len(items) \in k..Len(items)
    BY <1>2
  <2>2. a \o b = SubSeq(items, 1, Len(items)) BY <1>1, <2>1, ConcatAdjacentSubSeq, Zenon
  <2> QED BY <1>1, <2>2, SubSeqFull
<1>6. items = <<>> => b = <<>>
  <2> HIDE DEF a
  <2>1. items = <<>> => Len(b) = 0 BY <1>1, <1>2, <1>4
  <2> QED BY <1>4, <2>1, EmptySeq
<1> HIDE DEF a, b
<1>7. (taken \o a) \o b = taken \o (a \o b)
  <2>1. taken \in Seq(Items) /\ a \in Seq(Items) /\ b \in Seq(Items) BY <1>1, <1>4
  <2>2. \A s, t, u \in Seq(Items) : (s \o t) \o u = s \o (t \o u)
    BY ConcatAssociative, SMTT(60)
  <2> HIDE DEF k
  <2> QED BY <2>1, <2>2, Zenon
<1>8. taken \o a \in Seq(Items) BY <1>1, <1>4, ConcatProperties
<1> QED BY <1>3, <1>4, <1>5, <1>6, <1>7, <1>8

LEMMA NewTypes ==
  ASSUME TypeOK, NEW n \in 1..MaxItems - Len(accepted)
  PROVE  New(n) \in Seq(Items) /\ New(n) # <<>>
<1>1. Len(accepted) \in Nat /\ n \in Nat \ {0} /\ Len(accepted) + n <= MaxItems
  BY QueueAssumption DEF TypeOK
<1>2. \A i \in 1..n : Len(accepted) + i \in Items BY <1>1, QueueAssumption DEF Items
<1>3. New(n) \in Seq(Items) BY <1>1, <1>2, IsASeq DEF New
<1>4. 1 \in DOMAIN New(n) BY <1>1 DEF New
<1> QED BY <1>3, <1>4

LEMMA TypesInit == Init => TypeOK
<1> SUFFICES ASSUME Init PROVE TypeOK OBVIOUS
<1>1. items \in Seq(Items) /\ accepted \in Seq(Items) /\ taken \in Seq(Items)
      /\ waiters \in Seq(Semas)
  BY DEF Init
<1>2. ready \in [Semas -> BOOLEAN] /\ response \in [Semas -> Int] BY DEF Init
<1>3. polls \in 0..MaxPolls /\ sema \in [Clients -> 0..MaxPolls] BY QueueAssumption DEF Init
<1>4. asked \in [Clients -> Numbers] BY DEF Init
<1>5. pc \in [Clients -> PCs] /\ returned \in [Clients -> Results] BY DEF Init, PCs, Results
<1> QED BY <1>1, <1>2, <1>3, <1>4, <1>5 DEF Init, TypeOK

LEMMA DisposeTypes ==
  ASSUME TypeOK, DisposeQueue
  PROVE  /\ items' = <<>> /\ waiters' = <<>> /\ disposed' /\ lock' = lock /\ polls' = polls
         /\ ready' \in [Semas -> BOOLEAN] /\ response' \in [Semas -> Int]
         /\ items' \in Seq(Items) /\ waiters' \in Seq(Semas)
BY DEF TypeOK, DisposeQueue

LEMMA TypesNext == TypeOK /\ [Next]_vars => TypeOK'
<1> SUFFICES ASSUME TypeOK, [Next]_vars PROVE TypeOK' OBVIOUS
<1>1. CASE UNCHANGED vars BY <1>1 DEF TypeOK, vars, queue, semas
<1> SUFFICES ASSUME NEW c \in Clients,
                    \/ Put(c) \/ Poll(c) \/ TakeUntil(c) \/ Dispose(c) \/ Execute(c)
                    \/ Proceed(c)
                    \/ Timeout(c) \/ Cancel(c) \/ RemoveWaiter(c) \/ ExecuteDisposes(c)
             PROVE  TypeOK'
  BY <1>1 DEF Next
<1> USE DEF Return, Goto, queue, semas, PCs, Results
<1>2. ASSUME NEW n \in Nat, Take(n) PROVE items' \in Seq(Items) /\ taken' \in Seq(Items)
  BY <1>2, TakeTypes
<1>3. Numbers \subseteq Nat BY QueueAssumption
<1>4. CASE Put(c)
  <2>1. CASE disposed BY <1>4, <2>1 DEF Put, TypeOK
  <2>2. CASE ~disposed
    <3>1. PICK n \in 1..MaxItems - Len(accepted) :
            items' = items \o New(n) /\ accepted' = accepted \o New(n)
      BY <1>4, <2>2 DEF Put
    <3>2. accepted' \in Seq(Items) /\ items' \in Seq(Items)
      BY <3>1, NewTypes, ConcatProperties DEF TypeOK
    <3> QED BY <1>4, <2>2, <3>2 DEF Put, TypeOK
  <2> QED BY <2>1, <2>2
<1>5. CASE Poll(c)
  <2>1. CASE disposed BY <1>5, <2>1 DEF Poll, TypeOK
  <2>2. CASE ~disposed /\ items # <<>>
    <3>1. items' \in Seq(Items) /\ taken' \in Seq(Items) BY <1>2, <1>3, <1>5, <2>2 DEF Poll
    <3> QED BY <1>5, <2>2, <3>1 DEF Poll, TypeOK
  <2>3. CASE ~disposed /\ items = <<>>
    <3>1. PICK n \in Numbers :
            /\ polls < MaxPolls /\ polls' = polls + 1
            /\ waiters' = Append(waiters, polls + 1)
            /\ sema' = [sema EXCEPT ![c] = polls + 1]
            /\ asked' = [asked EXCEPT ![c] = n]
            /\ pc' = [pc EXCEPT ![c] = "wait"]
            /\ UNCHANGED <<items, disposed, lock, ready, response, taken, returned, accepted>>
      BY <1>5, <2>3 DEF Poll
    <3>2. polls + 1 \in 1..MaxPolls BY <3>1, QueueAssumption DEF TypeOK
    <3>3. waiters' \in Seq(Semas)
      <4>1. waiters \in Seq(Semas) /\ polls + 1 \in Semas BY <3>2 DEF TypeOK, Semas
      <4> QED BY <3>1, <4>1, AppendProperties
    <3>4. polls' \in 0..MaxPolls /\ sema' \in [Clients -> 0..MaxPolls] BY <3>1, <3>2 DEF TypeOK
    <3>5. asked' \in [Clients -> Numbers] /\ pc' \in [Clients -> PCs] BY <3>1 DEF TypeOK
    <3> QED BY <3>1, <3>3, <3>4, <3>5 DEF TypeOK
  <2> QED BY <1>5, <2>1, <2>2, <2>3 DEF Poll, TypeOK
<1>6. CASE TakeUntil(c)
  <2>1. items' \in Seq(Items) /\ taken' \in Seq(Items)
    <3>1. CASE disposed BY <1>6, <3>1 DEF TakeUntil, TypeOK
    <3>2. CASE ~disposed
      <4>1. PICK n \in 0..Len(items) : Take(n) BY <1>6, <3>2 DEF TakeUntil
      <4>2. n \in Nat BY DEF TypeOK
      <4> QED BY <1>2, <4>1, <4>2
    <3> QED BY <3>1, <3>2
  <2> QED BY <1>6, <2>1 DEF TakeUntil, TypeOK
<1>7. CASE Dispose(c)
  <2>1. taken' \in Seq(Items) BY <1>7, ConcatProperties DEF Dispose, TypeOK
  <2> QED BY <1>7, <2>1, DisposeTypes DEF Dispose, TypeOK
<1>8. CASE ExecuteDisposes(c)
  BY <1>8, DisposeTypes DEF ExecuteDisposes, TypeOK
<1>9. CASE Execute(c) BY <1>9 DEF Execute, TypeOK
<1>10. CASE Executed(c)
  <2>1. Zero \in Items BY QueueAssumption DEF Zero, Items
  <2>2. items' \in Seq(Items)
    <3>1. Len(items) \in Nat /\ DOMAIN items = 1..Len(items) BY DEF TypeOK
    <3>2. items' = [i \in 1..Len(items) |-> Zero] BY <1>10, <3>1 DEF Executed
    <3> QED BY <2>1, <3>1, <3>2, IsASeq
  <2> QED BY <1>10, <2>2 DEF Executed, TypeOK
<1>11. CASE LastHandoff(c) \/ Response(c)
  BY <1>11 DEF LastHandoff, Response, PutReturns, TypeOK
<1>12. CASE Handoff(c)
  <2> DEFINE s == Head(waiters)
  <2>1. waiters # <<>> /\ waiters \in Seq(Semas) BY <1>12 DEF Handoff, TypeOK
  <2>2. s \in Semas /\ waiters' \in Seq(Semas) BY <1>12, <2>1, HeadTailProperties DEF Handoff
  <2>3. response' \in [Semas -> Int]
    <3>1. response' = [response EXCEPT ![s] = @ + 1] BY <1>12 DEF Handoff
    <3> HIDE DEF s
    <3> QED BY <2>2, <3>1 DEF TypeOK
  <2>4. s \in 0..MaxPolls BY <2>2 DEF Semas
  <2>5. UNCHANGED <<items, disposed, polls, asked, accepted, taken>> BY <1>12 DEF Handoff
  <2>6. CASE ready[s]
    <3>1. UNCHANGED <<ready, sema>> /\ (PutReturns(c) \/ UNCHANGED <<lock, pc, returned>>)
      BY <1>12, <2>6 DEF Handoff
    <3> HIDE DEF s
    <3> QED BY <2>2, <2>3, <2>5, <3>1 DEF PutReturns, TypeOK
  <2>7. CASE ~ready[s]
    <3>1. /\ ready' = [ready EXCEPT ![s] = TRUE] /\ sema' = [sema EXCEPT ![c] = s]
          /\ pc' = [pc EXCEPT ![c] = "response"] /\ UNCHANGED <<lock, returned>>
      BY <1>12, <2>7 DEF Handoff
    <3> HIDE DEF s
    <3> QED BY <2>2, <2>3, <2>4, <2>5, <3>1 DEF TypeOK
  <2> QED BY <2>6, <2>7
<1>13. CASE Wake(c) \/ Timeout(c) \/ Cancel(c)
  BY <1>13 DEF Wake, Timeout, Cancel, TypeOK
<1>14. CASE TakeWoken(c)
  <2>1. items' \in Seq(Items) /\ taken' \in Seq(Items)
    <3>1. CASE disposed BY <1>14, <3>1 DEF TakeWoken, TypeOK
    <3>2. CASE ~disposed BY <1>2, <1>3, <1>14, <3>2 DEF TakeWoken, TypeOK
    <3> QED BY <3>1, <3>2
  <2>2. response' \in [Semas -> Int] BY <1>14 DEF TakeWoken, Done, TypeOK
  <2> QED BY <1>14, <2>1, <2>2 DEF TakeWoken, TypeOK
<1>15. CASE TimeoutAnswers(c)
  <2>1. response' \in [Semas -> Int] BY <1>15 DEF TimeoutAnswers, Done, TypeOK
  <2>2. ready' \in [Semas -> BOOLEAN] BY <1>15 DEF TimeoutAnswers, TypeOK
  <2> QED BY <1>15, <2>1, <2>2 DEF TimeoutAnswers, TypeOK
<1>16. CASE RemoveWaiter(c)
  <2>1. ASSUME NEW i \in DOMAIN waiters PROVE RemoveAt(waiters, i) \in Seq(Semas)
    BY DEF TypeOK, RemoveAt
  <2>2. waiters' \in Seq(Semas) BY <1>16, <2>1 DEF RemoveWaiter, TypeOK
  <2> QED BY <1>16, <2>2 DEF RemoveWaiter, TypeOK
<1> QED BY <1>4, <1>5, <1>6, <1>7, <1>8, <1>9, <1>10, <1>11, <1>12, <1>13, <1>14, <1>15, <1>16
        DEF Proceed

-----------------------------------------------------------------------------
(* The hand-off.                                                            *)

\* Polls that have a semaphore of their own.
Waiting == {"wait", "woken", "timeout", "remove"}

\* A poll that is to answer, and the Put that waits for it.
Chosen(c) == pc[c] = "woken" \/ (pc[c] \in {"wait", "timeout"} /\ ready[sema[c]])
Serves(p, c) == lock = p /\ pc[p] = "response" /\ sema[p] = sema[c]

LockHeld ==
  /\ \A c \in Clients : pc[c] \in {"handoff", "response", "execute"} => lock = c
  /\ \A c \in Clients : pc[c] \in {"handoff", "response"} => ~disposed
  /\ \A c \in Clients : pc[c] = "response" => sema[c] \in 1..polls

OwnSemas ==
  /\ \A c \in Clients : pc[c] \in Waiting => sema[c] \in 1..polls
  /\ \A c, d \in Clients :
       pc[c] \in Waiting /\ pc[d] \in Waiting /\ sema[c] = sema[d] => c = d

\* Nobody is to answer for a semaphore that is still queued or not made yet.
Unasked ==
  /\ IsInjective(waiters)
  /\ \A s \in Range(waiters) : s <= polls /\ response[s] = 0
  /\ \A s \in Semas : s > polls => ~ready[s] /\ response[s] = 0
  /\ disposed => waiters = <<>>

\* A chosen poll owes one answer, to a Put that holds the lock until it comes,
\* or to nobody after Dispose.
AskedOnce ==
  \A c \in Clients : Chosen(c) =>
    /\ response[sema[c]] = 1
    /\ disposed \/ \E p \in Clients : Serves(p, c)

Queued ==
  \A c \in Clients :
    pc[c] \in {"wait", "timeout"} /\ ~ready[sema[c]] => sema[c] \in Range(waiters)

\* A Put has items for the poll it wakes.
Offered ==
  /\ \A c \in Clients : pc[c] = "handoff" => items # <<>>
  /\ \A c \in Clients : pc[c] = "response" /\ response[sema[c]] > 0 => items # <<>>

\* While no Put is at work there are items or waiters, not both.
NoneLeftOver ==
  /\ lock = Free /\ items # <<>> => waiters = <<>>
  /\ \A c \in Clients : pc[c] = "execute" => waiters = <<>>

Inv == /\ LockHeld /\ OwnSemas /\ Unasked /\ AskedOnce /\ Queued /\ Offered
       /\ AnswersAsked /\ PollFindsItems /\ NoneLeftOver

IInv == TypeOK /\ Inv

LEMMA InvInit == Init => Inv
<1> SUFFICES ASSUME Init PROVE Inv OBVIOUS
<1>1. \A c \in Clients : pc[c] = "idle" /\ returned[c] = "none" BY DEF Init
<1>2. \A s \in Semas : ~ready[s] /\ response[s] = 0 BY DEF Init
<1>3. waiters = <<>> /\ IsInjective(waiters) /\ Range(waiters) = {} BY NoneOfEmpty DEF Init
<1>4. LockHeld /\ OwnSemas /\ AskedOnce /\ Queued /\ Offered /\ NoneLeftOver /\ PollFindsItems
  BY <1>1, <1>3 DEF LockHeld, OwnSemas, Waiting, AskedOnce, Chosen, Queued, Offered,
                    NoneLeftOver, PollFindsItems
<1>5. Unasked /\ AnswersAsked BY <1>2, <1>3 DEF Unasked, AnswersAsked
<1> QED BY <1>4, <1>5 DEF Inv

\* While the lock is free nobody is to answer a Put.
LEMMA FreeNobody ==
  ASSUME IInv, lock = Free
  PROVE  /\ \A c \in Clients : pc[c] \notin {"handoff", "response", "execute"}
         /\ \A c \in Clients : Chosen(c) => disposed
BY QueueAssumption DEF IInv, Inv, LockHeld, AskedOnce, Serves

LEMMA SemasMade ==
  ASSUME IInv, NEW c \in Clients, pc[c] \in Waiting \cup {"response"}
  PROVE  sema[c] \in Semas /\ sema[c] \in 1..polls
BY QueueAssumption DEF IInv, Inv, TypeOK, LockHeld, OwnSemas, Semas

\* A call returns that was not at work on the hand-off.
LEMMA LeaveKeeps ==
  ASSUME IInv, NEW c \in Clients, NEW r, r # "nothing", pc[c] \in {"idle", "wait"},
         pc' = [pc EXCEPT ![c] = "idle"], returned' = [returned EXCEPT ![c] = r],
         UNCHANGED <<waiters, disposed, lock, semas, sema>>,
         items' = items \/ (lock = Free /\ (items = <<>> => items' = <<>>))
  PROVE  Inv'
<1> USE DEF semas
<1>1. pc \in [Clients -> PCs] /\ returned \in [Clients -> Results] BY DEF IInv, TypeOK
<1>2. /\ pc'[c] = "idle" /\ \A d \in Clients : d # c => pc'[d] = pc[d]
      /\ \A d \in Clients : returned'[d] = returned[d] \/ returned'[d] = r
  BY <1>1
<1>3. \A d \in Clients : Chosen(d)' => Chosen(d) BY <1>2 DEF Chosen
<1>4. \A p, d \in Clients : Serves(p, d) => Serves(p, d)' BY <1>2 DEF Serves, IInv, Inv
<1>5. LockHeld' /\ OwnSemas' BY <1>2 DEF IInv, Inv, LockHeld, OwnSemas, Waiting
<1>6. Unasked' /\ AnswersAsked' BY DEF IInv, Inv, Unasked, AnswersAsked
<1>7. AskedOnce' BY <1>2, <1>3, <1>4 DEF IInv, Inv, AskedOnce
<1>8. Queued' BY <1>2 DEF IInv, Inv, Queued
<1>9. Offered' BY <1>2, FreeNobody DEF IInv, Inv, Offered
<1>10. PollFindsItems' BY <1>2 DEF IInv, Inv, PollFindsItems
<1>11. NoneLeftOver' BY <1>2 DEF IInv, Inv, NoneLeftOver
<1> QED BY <1>5, <1>6, <1>7, <1>8, <1>9, <1>10, <1>11 DEF Inv

LEMMA PutKeeps == ASSUME IInv, NEW c \in Clients, Put(c) PROVE Inv'
<1>1. CASE disposed BY <1>1, LeaveKeeps DEF Put, Return, Goto, queue
<1>2. CASE ~disposed
  <2>1. /\ pc[c] = "idle" /\ lock = Free /\ lock' = c /\ pc' = [pc EXCEPT ![c] = "handoff"]
        /\ UNCHANGED <<waiters, disposed, returned, ready, response, polls, sema>>
    BY <1>2 DEF Put, Goto, semas
  <2>2. items' # <<>>
    <3>1. PICK n \in 1..MaxItems - Len(accepted) : items' = items \o New(n)
      BY <1>2 DEF Put
    <3>2. items \in Seq(Items) /\ New(n) \in Seq(Items) /\ New(n) # <<>>
      BY NewTypes DEF IInv, TypeOK
    <3> HIDE DEF New
    <3> QED BY <3>1, <3>2
  <2>3. /\ pc'[c] = "handoff" /\ \A d \in Clients : d # c => pc'[d] = pc[d]
    BY <2>1 DEF IInv, TypeOK
  <2>4. \A d \in Clients : pc[d] \notin {"handoff", "response", "execute"} /\ ~Chosen(d)
    BY <1>2, <2>1, FreeNobody
  <2>5. \A d \in Clients : ~Chosen(d)' BY <2>1, <2>3, <2>4 DEF Chosen
  <2>6. LockHeld' /\ OwnSemas' BY <1>2, <2>1, <2>3, <2>4 DEF IInv, Inv, LockHeld, OwnSemas, Waiting
  <2>7. Unasked' /\ AnswersAsked' BY <2>1 DEF IInv, Inv, Unasked, AnswersAsked
  <2>8. AskedOnce' BY <2>5 DEF AskedOnce
  <2>9. Queued' BY <2>1, <2>3 DEF IInv, Inv, Queued
  <2>10. Offered' BY <2>2, <2>3, <2>4 DEF IInv, Inv, Offered
  <2>11. PollFindsItems' BY <2>1 DEF IInv, Inv, PollFindsItems
  <2>12. NoneLeftOver' BY <2>1, <2>3, <2>4, QueueAssumption DEF IInv, Inv, NoneLeftOver
  <2> QED BY <2>6, <2>7, <2>8, <2>9, <2>10, <2>11, <2>12 DEF Inv
<1> QED BY <1>1, <1>2

\* A Put that has served all it can returns.
LEMMA PutReturnsKeeps ==
  ASSUME IInv, NEW c \in Clients, PutReturns(c), UNCHANGED <<items, waiters, disposed, semas, sema>>,
         pc[c] = "handoff" \/ (pc[c] = "response" /\ response[sema[c]] = 0),
         items = <<>> \/ waiters = <<>>
  PROVE  Inv'
<1>1. /\ lock = c /\ ~disposed /\ lock' = Free /\ pc' = [pc EXCEPT ![c] = "idle"]
      /\ returned' = [returned EXCEPT ![c] = "none"]
      /\ UNCHANGED <<items, waiters, disposed, ready, response, polls, sema>>
  BY DEF PutReturns, Return, Goto, semas, IInv, Inv, LockHeld
<1>2. /\ pc'[c] = "idle" /\ \A d \in Clients : d # c => pc'[d] = pc[d]
      /\ \A d \in Clients : returned'[d] = returned[d] \/ returned'[d] = "none"
  BY <1>1 DEF IInv, TypeOK
<1>3. \A d \in Clients : pc'[d] \notin {"handoff", "response", "execute"}
  BY <1>1, <1>2 DEF IInv, Inv, LockHeld
<1>4. \A d \in Clients : ~Chosen(d)'
  <2>1. ASSUME NEW d \in Clients, Chosen(d) PROVE FALSE
    <3>1. PICK p \in Clients : Serves(p, d) BY <1>1, <2>1 DEF IInv, Inv, AskedOnce
    <3>2. p = c /\ sema[c] = sema[d] /\ pc[c] = "response" BY <1>1, <3>1 DEF Serves
    <3>3. response[sema[d]] = 1 BY <2>1 DEF IInv, Inv, AskedOnce
    <3> QED BY <3>2, <3>3
  <2> QED BY <1>1, <1>2, <2>1 DEF Chosen
<1>5. LockHeld' BY <1>3 DEF LockHeld
<1>6. OwnSemas' BY <1>1, <1>2 DEF IInv, Inv, OwnSemas, Waiting
<1>7. Unasked' /\ AnswersAsked' BY <1>1 DEF IInv, Inv, Unasked, AnswersAsked
<1>8. AskedOnce' BY <1>4 DEF AskedOnce
<1>9. Queued' BY <1>1, <1>2 DEF IInv, Inv, Queued
<1>10. Offered' BY <1>3 DEF Offered
<1>11. PollFindsItems' BY <1>2 DEF IInv, Inv, PollFindsItems
<1>12. NoneLeftOver' BY <1>1, <1>3 DEF NoneLeftOver
<1> QED BY <1>5, <1>6, <1>7, <1>8, <1>9, <1>10, <1>11, <1>12 DEF Inv

LEMMA ResponseKeeps == ASSUME IInv, NEW c \in Clients, Response(c) PROVE Inv'
<1>1. CASE items = <<>> BY <1>1, PutReturnsKeeps DEF Response
<1>2. CASE items # <<>>
  <2>1. /\ pc[c] = "response" /\ response[sema[c]] = 0 /\ pc' = [pc EXCEPT ![c] = "handoff"]
        /\ UNCHANGED <<items, waiters, disposed, lock, returned, ready, response, polls, sema>>
    BY <1>2 DEF Response, Goto, semas
  <2>2. lock = c /\ ~disposed BY <2>1 DEF IInv, Inv, LockHeld
  <2>3. pc'[c] = "handoff" /\ \A d \in Clients : d # c => pc'[d] = pc[d]
    BY <2>1 DEF IInv, TypeOK
  <2>4. \A d \in Clients : ~Chosen(d)
    <3>1. ASSUME NEW d \in Clients, Chosen(d) PROVE FALSE
      <4>1. PICK p \in Clients : Serves(p, d) BY <2>2, <3>1 DEF IInv, Inv, AskedOnce
      <4>2. sema[c] = sema[d] BY <2>2, <4>1 DEF Serves
      <4>3. response[sema[d]] = 1 BY <3>1 DEF IInv, Inv, AskedOnce
      <4> QED BY <2>1, <4>2, <4>3
    <3> QED BY <3>1
  <2>5. \A d \in Clients : ~Chosen(d)' BY <2>1, <2>3, <2>4 DEF Chosen
  <2>6. LockHeld' /\ OwnSemas' BY <2>1, <2>2, <2>3 DEF IInv, Inv, LockHeld, OwnSemas, Waiting
  <2>7. Unasked' /\ AnswersAsked' BY <2>1 DEF IInv, Inv, Unasked, AnswersAsked
  <2>8. AskedOnce' BY <2>5 DEF AskedOnce
  <2>9. Queued' BY <2>1, <2>3 DEF IInv, Inv, Queued
  <2>10. Offered' BY <1>2, <2>1 DEF Offered
  <2>11. PollFindsItems' BY <2>1 DEF IInv, Inv, PollFindsItems
  <2>12. NoneLeftOver' BY <2>1, <2>2, <2>3, QueueAssumption DEF IInv, Inv, NoneLeftOver
  <2> QED BY <2>6, <2>7, <2>8, <2>9, <2>10, <2>11, <2>12 DEF Inv
<1> QED BY <1>1, <1>2

LEMMA HandoffKeeps == ASSUME IInv, NEW c \in Clients, Handoff(c) PROVE Inv'
<1> DEFINE s == Head(waiters)
<1>1. /\ pc[c] = "handoff" /\ waiters # <<>> /\ waiters' = Tail(waiters)
      /\ response' = [response EXCEPT ![s] = @ + 1]
      /\ UNCHANGED <<items, disposed, polls>>
  BY DEF Handoff
<1>2. lock = c /\ ~disposed /\ items # <<>> BY <1>1 DEF IInv, Inv, LockHeld, Offered
<1>3. /\ s \in Semas /\ s \in Range(waiters)
      /\ IsInjective(waiters') /\ Range(waiters') = Range(waiters) \ {s}
  <2>1. waiters \in Seq(Semas) /\ IsInjective(waiters) BY DEF IInv, Inv, TypeOK, Unasked
  <2> QED BY <1>1, <2>1, TailOfDistinct
<1>4. \/ /\ ready[s] /\ UNCHANGED <<ready, sema, lock, pc, returned>>
      \/ /\ ~ready[s] /\ ready' = [ready EXCEPT ![s] = TRUE] /\ sema' = [sema EXCEPT ![c] = s]
         /\ pc' = [pc EXCEPT ![c] = "response"] /\ UNCHANGED <<lock, returned>>
  BY <1>2 DEF Handoff, Goto
<1> HIDE DEF s
<1>5. /\ response[s] = 0 /\ s \in 1..polls
      /\ response'[s] = 1 /\ \A r \in Semas : r # s => response'[r] = response[r]
  BY <1>1, <1>3 DEF IInv, Inv, TypeOK, Unasked, Semas
<1>6. \A d \in Clients : ~Chosen(d)
  BY <1>1, <1>2 DEF IInv, Inv, AskedOnce, Serves
<1>7. UNCHANGED <<lock, returned>> BY <1>4
<1>8. Unasked'
  <2>1. \A r \in Range(waiters') : r <= polls' /\ response'[r] = 0
    <3>1. waiters \in Seq(Semas) BY DEF IInv, TypeOK
    <3>2. Range(waiters) \subseteq Semas BY <3>1 DEF Range
    <3> QED BY <1>1, <1>3, <1>5, <3>2 DEF IInv, Inv, Unasked
  <2>2. \A r \in Semas : r > polls' => ~ready'[r] /\ response'[r] = 0
    BY <1>1, <1>4, <1>5 DEF IInv, Inv, Unasked, TypeOK
  <2> QED BY <1>1, <1>2, <1>3, <2>1, <2>2 DEF Unasked
<1>9. AnswersAsked' BY <1>5 DEF IInv, Inv, AnswersAsked
<1>10. PollFindsItems' BY <1>7 DEF IInv, Inv, PollFindsItems
<1>11. CASE ready[s] /\ UNCHANGED <<ready, sema, lock, pc, returned>>
  <2>1. LockHeld' /\ OwnSemas' BY <1>1, <1>11 DEF IInv, Inv, LockHeld, OwnSemas
  <2>2. AskedOnce' BY <1>6, <1>11 DEF AskedOnce, Chosen
  <2>3. Queued' BY <1>3, <1>11 DEF IInv, Inv, Queued
  <2>4. Offered' BY <1>1, <1>2 DEF Offered
  <2>5. NoneLeftOver' BY <1>1, <1>2, <1>11, QueueAssumption DEF IInv, Inv, NoneLeftOver, LockHeld
  <2> QED BY <1>8, <1>9, <1>10, <2>1, <2>2, <2>3, <2>4, <2>5 DEF Inv
<1>12. CASE /\ ~ready[s] /\ ready' = [ready EXCEPT ![s] = TRUE] /\ sema' = [sema EXCEPT ![c] = s]
            /\ pc' = [pc EXCEPT ![c] = "response"] /\ UNCHANGED <<lock, returned>>
  <2>1. /\ pc'[c] = "response" /\ sema'[c] = s
        /\ \A d \in Clients : d # c => pc'[d] = pc[d] /\ sema'[d] = sema[d]
        /\ ready'[s] /\ \A r \in Semas : r # s => ready'[r] = ready[r]
    BY <1>3, <1>12 DEF IInv, TypeOK
  <2>2. LockHeld' BY <1>1, <1>2, <1>5, <1>7, <2>1 DEF IInv, Inv, LockHeld
  <2>3. OwnSemas' BY <1>1, <2>1 DEF IInv, Inv, OwnSemas, Waiting
  <2>4. AskedOnce'
    <3>1. Serves(c, c)' BY <1>2, <1>7, <2>1 DEF Serves
    <3>2. ASSUME NEW d \in Clients, Chosen(d)' PROVE response'[sema'[d]] = 1 /\ Serves(c, d)'
      <4>1. d # c /\ pc'[d] = pc[d] /\ sema'[d] = sema[d] BY <2>1, <3>2 DEF Chosen
      <4>2. sema[d] \in Semas BY <3>2, <4>1, SemasMade DEF Chosen, Waiting
      <4>3. sema[d] = s BY <1>6, <2>1, <3>2, <4>1, <4>2 DEF Chosen
      <4> QED BY <1>5, <2>1, <3>1, <4>1, <4>3 DEF Serves
    <3> QED BY <3>2 DEF AskedOnce
  <2>5. Queued'
    <3>1. ASSUME NEW d \in Clients, pc'[d] \in {"wait", "timeout"}, ~ready'[sema'[d]]
          PROVE  sema'[d] \in Range(waiters')
      <4>1. d # c /\ pc'[d] = pc[d] /\ sema'[d] = sema[d] BY <2>1, <3>1
      <4>2. sema[d] \in Semas BY <3>1, <4>1, SemasMade DEF Waiting
      <4>3. sema[d] # s /\ ~ready[sema[d]] BY <2>1, <3>1, <4>1, <4>2
      <4> QED BY <1>3, <3>1, <4>1, <4>3 DEF IInv, Inv, Queued
    <3> QED BY <3>1 DEF Queued
  <2>6. Offered' BY <1>1, <1>2 DEF Offered
  <2>7. NoneLeftOver' BY <1>2, <1>7, <1>1, <2>1, QueueAssumption DEF IInv, Inv, NoneLeftOver, LockHeld
  <2> QED BY <1>8, <1>9, <1>10, <2>2, <2>3, <2>4, <2>5, <2>6, <2>7 DEF Inv
<1> QED BY <1>4, <1>11, <1>12

LEMMA PollKeeps == ASSUME IInv, NEW c \in Clients, Poll(c) PROVE Inv'
<1>1. CASE disposed BY <1>1, LeaveKeeps DEF Poll, Return, Goto, queue
<1>2. CASE ~disposed /\ items # <<>>
  <2>1. PICK n \in Numbers : Take(n) BY <1>2 DEF Poll
  <2>2. /\ lock = Free /\ pc[c] = "idle" /\ Return(c, "items")
        /\ UNCHANGED <<waiters, disposed, lock, semas, sema>>
    BY <1>2 DEF Poll
  <2> QED BY <1>2, <2>2, LeaveKeeps DEF Return, Goto
<1>3. CASE ~disposed /\ items = <<>>
  <2> DEFINE s == polls + 1
  <2>1. /\ pc[c] = "idle" /\ lock = Free /\ polls < MaxPolls /\ polls' = s
        /\ waiters' = Append(waiters, s) /\ sema' = [sema EXCEPT ![c] = s]
        /\ pc' = [pc EXCEPT ![c] = "wait"]
        /\ UNCHANGED <<items, disposed, lock, ready, response, returned>>
    BY <1>3 DEF Poll, Goto
  <2>2. s \in Semas /\ s > polls /\ polls \in Nat BY <2>1, QueueAssumption DEF IInv, TypeOK, Semas
  <2>3. s \notin Range(waiters) /\ waiters \in Seq(Semas) /\ IsInjective(waiters)
    BY <2>2 DEF IInv, Inv, Unasked, TypeOK, Semas
  <2>4. IsInjective(waiters') /\ Range(waiters') = Range(waiters) \cup {s}
    BY <2>1, <2>2, <2>3, AppendDistinct
  <2>5. ~ready[s] /\ response[s] = 0 BY <2>2 DEF IInv, Inv, Unasked
  <2>6. /\ pc'[c] = "wait" /\ sema'[c] = s
        /\ \A d \in Clients : d # c => pc'[d] = pc[d] /\ sema'[d] = sema[d]
    BY <2>1 DEF IInv, TypeOK
  <2>7. \A d \in Clients : pc[d] \notin {"handoff", "response", "execute"} /\ ~Chosen(d)
    BY <1>3, <2>1, FreeNobody
  <2>8. \A d \in Clients : ~Chosen(d)' BY <2>1, <2>5, <2>6, <2>7 DEF Chosen
  <2>9. LockHeld' BY <2>6, <2>7 DEF LockHeld
  <2>10. OwnSemas'
    <3>1. \A d \in Clients : pc[d] \in Waiting => sema[d] \in 1..polls /\ sema[d] # s
      BY <2>2 DEF IInv, Inv, OwnSemas
    <3> QED BY <2>1, <2>2, <2>6, <3>1 DEF IInv, Inv, OwnSemas, Waiting
  <2>11. Unasked'
    <3>1. \A r \in Range(waiters') : r <= polls' /\ response'[r] = 0
      <4>1. Range(waiters) \subseteq Semas BY <2>3 DEF Range
      <4>2. \A r \in Range(waiters) : r \in Nat BY <4>1 DEF Semas
      <4> QED BY <2>1, <2>2, <2>4, <2>5, <4>2 DEF IInv, Inv, Unasked
    <3>2. \A r \in Semas : r > polls' => ~ready'[r] /\ response'[r] = 0
      BY <2>1, <2>2 DEF IInv, Inv, Unasked, Semas
    <3> QED BY <1>3, <2>1, <2>4, <3>1, <3>2 DEF Unasked
  <2>12. AskedOnce' BY <2>8 DEF AskedOnce
  <2>13. Queued' BY <2>1, <2>4, <2>6 DEF IInv, Inv, Queued
  <2>14. Offered' BY <2>6, <2>7 DEF Offered
  <2>15. NoneLeftOver' BY <1>3, <2>1, <2>6, <2>7 DEF NoneLeftOver
  <2>16. AnswersAsked' /\ PollFindsItems' BY <2>1 DEF IInv, Inv, AnswersAsked, PollFindsItems
  <2> QED BY <2>9, <2>10, <2>11, <2>12, <2>13, <2>14, <2>15, <2>16 DEF Inv
<1> QED BY <1>1, <1>2, <1>3 DEF Poll

LEMMA WakeKeeps == ASSUME IInv, NEW c \in Clients, Wake(c) PROVE Inv'
<1> DEFINE s == sema[c]
<1>1. /\ pc[c] = "wait" /\ ready[s] /\ ready' = [ready EXCEPT ![s] = FALSE]
      /\ pc' = [pc EXCEPT ![c] = "woken"]
      /\ UNCHANGED <<items, waiters, disposed, lock, response, polls, sema, returned>>
  BY DEF Wake, Goto, queue
<1>2. s \in Semas /\ s \in 1..polls BY <1>1, SemasMade DEF Waiting
<1>3. /\ pc'[c] = "woken" /\ \A d \in Clients : d # c => pc'[d] = pc[d]
      /\ ~ready'[s] /\ \A r \in Semas : r # s => ready'[r] = ready[r]
  BY <1>1, <1>2 DEF IInv, TypeOK
<1>4. Chosen(c) BY <1>1 DEF Chosen
<1>5. ASSUME NEW d \in Clients, d # c, pc[d] \in Waiting
      PROVE  sema[d] \in Semas /\ ready'[sema[d]] = ready[sema[d]]
  <2>1. sema[d] \in Semas BY <1>5, SemasMade
  <2>2. sema[d] # s BY <1>1, <1>5 DEF IInv, Inv, OwnSemas, Waiting
  <2> QED BY <1>3, <2>1, <2>2
<1>6. \A d \in Clients : Chosen(d)' => Chosen(d) BY <1>1, <1>3, <1>4, <1>5 DEF Chosen, Waiting
<1>7. \A p, d \in Clients : Serves(p, d) => Serves(p, d)' BY <1>1, <1>3 DEF Serves
<1>8. LockHeld' /\ OwnSemas' BY <1>1, <1>3 DEF IInv, Inv, LockHeld, OwnSemas, Waiting
<1>9. Unasked' BY <1>1, <1>2, <1>3 DEF IInv, Inv, Unasked
<1>10. AskedOnce' BY <1>1, <1>6, <1>7 DEF IInv, Inv, AskedOnce
<1>11. Queued' BY <1>1, <1>3, <1>5 DEF IInv, Inv, Queued, Waiting
<1>12. Offered' BY <1>1, <1>3 DEF IInv, Inv, Offered
<1>13. AnswersAsked' /\ PollFindsItems' BY <1>1 DEF IInv, Inv, AnswersAsked, PollFindsItems
<1>14. NoneLeftOver' BY <1>1, <1>3 DEF IInv, Inv, NoneLeftOver
<1> QED BY <1>8, <1>9, <1>10, <1>11, <1>12, <1>13, <1>14 DEF Inv

\* A chosen poll answers and returns.
LEMMA AnswerKeeps ==
  ASSUME IInv, NEW c \in Clients, Chosen(c), Done(sema[c]), NEW r, r # "nothing",
         pc' = [pc EXCEPT ![c] = "idle"], returned' = [returned EXCEPT ![c] = r],
         UNCHANGED <<waiters, disposed, lock, ready, polls, sema>>,
         items' = items \/ (~disposed /\ (items = <<>> => items' = <<>>))
  PROVE  Inv'
<1> DEFINE s == sema[c]
<1>1. pc[c] \in Waiting BY DEF Chosen, Waiting
<1>2. s \in Semas /\ s \in 1..polls BY <1>1, SemasMade
<1>3. response[s] = 1 /\ s \notin Range(waiters) BY DEF IInv, Inv, AskedOnce, Unasked
<1>4. response'[s] = 0 /\ \A q \in Semas : q # s => response'[q] = response[q]
  BY <1>2, <1>3 DEF Done, IInv, TypeOK
<1>5. /\ pc'[c] = "idle" /\ \A d \in Clients : d # c => pc'[d] = pc[d]
      /\ \A d \in Clients : returned'[d] = returned[d] \/ returned'[d] = r
  BY DEF IInv, TypeOK
<1>6. LockHeld' /\ OwnSemas' BY <1>1, <1>5 DEF IInv, Inv, LockHeld, OwnSemas, Waiting
<1>7. Unasked'
  <2>1. waiters \in Seq(Semas) BY DEF IInv, TypeOK
  <2>2. Range(waiters) \subseteq Semas BY <2>1 DEF Range
  <2>3. \A q \in Range(waiters) : q <= polls /\ response'[q] = 0
    BY <1>3, <1>4, <2>2 DEF IInv, Inv, Unasked
  <2>4. \A q \in Semas : q > polls => ~ready[q] /\ response'[q] = 0
    BY <1>2, <1>4 DEF IInv, Inv, Unasked
  <2> QED BY <2>3, <2>4 DEF IInv, Inv, Unasked
<1>8. AskedOnce'
  <2>1. ASSUME NEW d \in Clients, Chosen(d)'
        PROVE  response'[sema[d]] = 1 /\ (disposed \/ \E p \in Clients : Serves(p, d)')
    <3>1. d # c /\ pc[d] = pc'[d] /\ Chosen(d) BY <1>5, <2>1 DEF Chosen
    <3>2. pc[d] \in Waiting BY <3>1 DEF Chosen, Waiting
    <3>3. sema[d] \in Semas /\ sema[d] # s
      BY <1>1, <3>1, <3>2, SemasMade DEF IInv, Inv, OwnSemas
    <3>4. response'[sema[d]] = 1 BY <1>4, <3>1, <3>3 DEF IInv, Inv, AskedOnce
    <3>5. ASSUME NEW p \in Clients, Serves(p, d) PROVE Serves(p, d)'
      <4>1. p # c BY <1>1, <3>5 DEF Serves, Waiting
      <4> QED BY <1>5, <3>5, <4>1 DEF Serves
    <3> QED BY <3>1, <3>4, <3>5 DEF IInv, Inv, AskedOnce
  <2> QED BY <2>1 DEF AskedOnce
<1>9. Queued' BY <1>5 DEF IInv, Inv, Queued
<1>10. Offered'
  <2>1. ASSUME NEW q \in Clients, pc'[q] = "handoff" \/ (pc'[q] = "response" /\ response'[sema[q]] > 0)
        PROVE  items' # <<>>
    <3>1. q # c /\ pc[q] = pc'[q] BY <1>5, <2>1
    <3>2. lock = q /\ ~disposed BY <2>1, <3>1 DEF IInv, Inv, LockHeld
    <3>3. PICK p \in Clients : Serves(p, c) BY <3>2 DEF IInv, Inv, AskedOnce
    <3>4. p = q /\ pc[q] = "response" /\ sema[q] = s BY <3>2, <3>3 DEF Serves
    <3> QED BY <1>4, <2>1, <3>1, <3>4
  <2> QED BY <2>1 DEF Offered
<1>11. AnswersAsked' BY <1>4 DEF IInv, Inv, AnswersAsked
<1>12. PollFindsItems' BY <1>5 DEF IInv, Inv, PollFindsItems
<1>13. NoneLeftOver' BY <1>5 DEF IInv, Inv, NoneLeftOver
<1> QED BY <1>6, <1>7, <1>8, <1>9, <1>10, <1>11, <1>12, <1>13 DEF Inv

LEMMA TakeWokenKeeps == ASSUME IInv, NEW c \in Clients, TakeWoken(c) PROVE Inv'
<1>1. /\ pc[c] = "woken" /\ pc' = [pc EXCEPT ![c] = "idle"]
      /\ UNCHANGED <<waiters, disposed, lock, ready, polls, sema>>
  BY DEF TakeWoken, Return, Goto
<1>2. Chosen(c) BY <1>1 DEF Chosen
<1>3. CASE disposed
  <2>1. /\ returned' = [returned EXCEPT ![c] = "disposed"] /\ UNCHANGED <<items, response>>
    BY <1>3 DEF TakeWoken, Return
  <2>2. /\ pc'[c] = "idle" /\ \A d \in Clients : d # c => pc'[d] = pc[d]
        /\ \A d \in Clients : returned'[d] = returned[d] \/ returned'[d] = "disposed"
    BY <1>1, <2>1 DEF IInv, TypeOK
  <2>3. \A d \in Clients : Chosen(d)' => Chosen(d) BY <1>1, <2>2 DEF Chosen
  <2>4. LockHeld' /\ OwnSemas' BY <1>1, <2>2 DEF IInv, Inv, LockHeld, OwnSemas, Waiting
  <2>5. Unasked' /\ AnswersAsked' BY <1>1, <2>1 DEF IInv, Inv, Unasked, AnswersAsked
  <2>6. AskedOnce' BY <1>1, <1>3, <2>1, <2>3 DEF IInv, Inv, AskedOnce
  <2>7. Queued' BY <1>1, <2>2 DEF IInv, Inv, Queued
  <2>8. Offered' BY <1>1, <2>1, <2>2 DEF IInv, Inv, Offered
  <2>9. PollFindsItems' BY <2>2 DEF IInv, Inv, PollFindsItems
  <2>10. NoneLeftOver' BY <1>1, <2>1, <2>2 DEF IInv, Inv, NoneLeftOver
  <2> QED BY <2>4, <2>5, <2>6, <2>7, <2>8, <2>9, <2>10 DEF Inv
<1>4. CASE ~disposed
  <2>1. PICK p \in Clients : Serves(p, c) BY <1>2, <1>4 DEF IInv, Inv, AskedOnce
  <2>2. response[sema[c]] = 1 BY <1>2 DEF IInv, Inv, AskedOnce
  <2>3. items # <<>> BY <2>1, <2>2 DEF IInv, Inv, Offered, Serves
  <2>4. Take(asked[c]) /\ Done(sema[c]) /\ returned' = [returned EXCEPT ![c] = "items"]
    BY <1>4, <2>3 DEF TakeWoken, Return
  <2> QED BY <1>1, <1>2, <1>4, <2>3, <2>4, AnswerKeeps
<1> QED BY <1>3, <1>4

LEMMA TimeoutKeeps == ASSUME IInv, NEW c \in Clients, Timeout(c) PROVE Inv'
<1>1. /\ pc[c] = "wait" /\ pc' = [pc EXCEPT ![c] = "timeout"]
      /\ UNCHANGED <<items, waiters, disposed, lock, ready, response, polls, sema, returned>>
  BY DEF Timeout, Goto, queue, semas
<1>2. pc'[c] = "timeout" /\ \A d \in Clients : d # c => pc'[d] = pc[d]
  BY <1>1 DEF IInv, TypeOK
<1>3. \A d \in Clients : Chosen(d)' => Chosen(d) BY <1>1, <1>2 DEF Chosen
<1>4. \A p, d \in Clients : Serves(p, d) => Serves(p, d)' BY <1>1, <1>2 DEF Serves
<1>5. LockHeld' /\ OwnSemas' BY <1>1, <1>2 DEF IInv, Inv, LockHeld, OwnSemas, Waiting
<1>6. Unasked' /\ AnswersAsked' BY <1>1 DEF IInv, Inv, Unasked, AnswersAsked
<1>7. AskedOnce' BY <1>1, <1>3, <1>4 DEF IInv, Inv, AskedOnce
<1>8. Queued' BY <1>1, <1>2 DEF IInv, Inv, Queued
<1>9. Offered' BY <1>1, <1>2 DEF IInv, Inv, Offered
<1>10. PollFindsItems' /\ NoneLeftOver' BY <1>1, <1>2 DEF IInv, Inv, PollFindsItems, NoneLeftOver
<1> QED BY <1>5, <1>6, <1>7, <1>8, <1>9, <1>10 DEF Inv

LEMMA TimeoutAnswersKeeps == ASSUME IInv, NEW c \in Clients, TimeoutAnswers(c) PROVE Inv'
<1> DEFINE s == sema[c]
<1>1. pc[c] = "timeout" /\ UNCHANGED <<items, waiters, disposed, lock, polls, sema>>
  BY DEF TimeoutAnswers, queue
<1>2. CASE ready[s]
  <2>1. Chosen(c) BY <1>1, <1>2 DEF Chosen
  <2> QED BY <1>1, <1>2, <2>1, AnswerKeeps DEF TimeoutAnswers, Return, Goto
<1>3. CASE ~ready[s]
  <2>1. /\ ready' = [ready EXCEPT ![s] = TRUE] /\ pc' = [pc EXCEPT ![c] = "remove"]
        /\ UNCHANGED <<response, returned>>
    BY <1>3 DEF TimeoutAnswers, Goto
  <2>2. s \in Semas /\ s \in 1..polls BY <1>1, SemasMade DEF Waiting
  <2>3. /\ pc'[c] = "remove" /\ \A d \in Clients : d # c => pc'[d] = pc[d]
        /\ \A r \in Semas : r # s => ready'[r] = ready[r]
    BY <2>1, <2>2 DEF IInv, TypeOK
  <2>4. ASSUME NEW d \in Clients, d # c, pc[d] \in Waiting
        PROVE  ready'[sema[d]] = ready[sema[d]]
    <3>1. sema[d] \in Semas BY <2>4, SemasMade
    <3>2. sema[d] # s BY <1>1, <2>4 DEF IInv, Inv, OwnSemas, Waiting
    <3> QED BY <2>3, <3>1, <3>2
  <2>5. \A d \in Clients : Chosen(d)' => Chosen(d) BY <1>1, <2>3, <2>4 DEF Chosen, Waiting
  <2>6. \A p, d \in Clients : Serves(p, d) => Serves(p, d)' BY <1>1, <2>3 DEF Serves
  <2>7. LockHeld' /\ OwnSemas' BY <1>1, <2>3 DEF IInv, Inv, LockHeld, OwnSemas, Waiting
  <2>8. Unasked'
    <3>1. \A r \in Semas : r > polls => r # s BY <2>2 DEF Semas, IInv, TypeOK
    <3>2. \A r \in Semas : r > polls => ~ready'[r] BY <2>3, <3>1 DEF IInv, Inv, Unasked
    <3> QED BY <1>1, <2>1, <3>2 DEF IInv, Inv, Unasked
  <2>9. AskedOnce' BY <1>1, <2>1, <2>5, <2>6 DEF IInv, Inv, AskedOnce
  <2>10. Queued' BY <1>1, <2>3, <2>4 DEF IInv, Inv, Queued, Waiting
  <2>11. Offered' BY <1>1, <2>1, <2>3 DEF IInv, Inv, Offered
  <2>12. AnswersAsked' /\ PollFindsItems' BY <2>1 DEF IInv, Inv, AnswersAsked, PollFindsItems
  <2>13. NoneLeftOver' BY <1>1, <2>3 DEF IInv, Inv, NoneLeftOver
  <2> QED BY <2>7, <2>8, <2>9, <2>10, <2>11, <2>12, <2>13 DEF Inv
<1> QED BY <1>2, <1>3

LEMMA RemoveWaiterKeeps == ASSUME IInv, NEW c \in Clients, RemoveWaiter(c) PROVE Inv'
<1> DEFINE s == sema[c]
<1>1. /\ pc[c] = "remove" /\ lock = Free /\ pc' = [pc EXCEPT ![c] = "idle"]
      /\ returned' = [returned EXCEPT ![c] = "timeout"]
      /\ UNCHANGED <<items, disposed, lock, ready, response, polls, sema>>
  BY DEF RemoveWaiter, Return, Goto, semas
<1>2. IsInjective(waiters') /\ Range(waiters') = Range(waiters) \ {s}
  <2>1. waiters \in Seq(Semas) /\ IsInjective(waiters) BY DEF IInv, Inv, TypeOK, Unasked
  <2>2. CASE s \notin Range(waiters) /\ UNCHANGED waiters BY <2>1, <2>2
  <2>3. ASSUME NEW i \in DOMAIN waiters, waiters[i] = s, waiters' = RemoveAt(waiters, i)
        PROVE  IsInjective(waiters') /\ Range(waiters') = Range(waiters) \ {s}
    BY <2>1, <2>3, RemoveDistinct
  <2> QED BY <2>2, <2>3 DEF RemoveWaiter
<1>3. /\ pc'[c] = "idle" /\ \A d \in Clients : d # c => pc'[d] = pc[d]
      /\ \A d \in Clients : returned'[d] = returned[d] \/ returned'[d] = "timeout"
  BY <1>1 DEF IInv, TypeOK
<1>4. waiters = <<>> => waiters' = <<>>
  BY DEF RemoveWaiter
<1>5. \A d \in Clients : d # c /\ pc[d] \in Waiting => sema[d] # s
  BY <1>1 DEF IInv, Inv, OwnSemas, Waiting
<1>6. \A d \in Clients : Chosen(d)' => Chosen(d) BY <1>1, <1>3 DEF Chosen
<1>7. \A d \in Clients : Chosen(d) => disposed BY <1>1, FreeNobody
<1>8. LockHeld' /\ OwnSemas' BY <1>1, <1>3 DEF IInv, Inv, LockHeld, OwnSemas, Waiting
<1>9. Unasked' BY <1>1, <1>2, <1>4 DEF IInv, Inv, Unasked
<1>10. AskedOnce' BY <1>1, <1>6, <1>7 DEF IInv, Inv, AskedOnce
<1>11. Queued' BY <1>1, <1>2, <1>3, <1>5 DEF IInv, Inv, Queued, Waiting
<1>12. Offered' BY <1>1, <1>3 DEF IInv, Inv, Offered
<1>13. AnswersAsked' /\ PollFindsItems' BY <1>1, <1>3 DEF IInv, Inv, AnswersAsked, PollFindsItems
<1>14. NoneLeftOver' BY <1>1, <1>3, <1>4 DEF IInv, Inv, NoneLeftOver
<1> QED BY <1>8, <1>9, <1>10, <1>11, <1>12, <1>13, <1>14 DEF Inv

\* Dispose takes the place of a Put for every waiter.
LEMMA DisposeKeeps ==
  ASSUME IInv, NEW c \in Clients, DisposeQueue, lock = Free, Return(c, "none"), UNCHANGED sema,
         pc[c] \in {"idle", "gap"}
  PROVE  Inv'
<1> DEFINE W == Range(waiters)
<1>1. /\ items' = <<>> /\ waiters' = <<>> /\ disposed' /\ lock' = Free /\ polls' = polls
      /\ \A s \in Semas : ready'[s] <=> ready[s] \/ s \in W
      /\ \A s \in Semas : response'[s] = IF s \in W THEN response[s] + 1 ELSE response[s]
  BY DEF DisposeQueue, IInv, TypeOK
<1>2. \A s \in W : s <= polls /\ response[s] = 0 BY DEF IInv, Inv, Unasked
<1> HIDE DEF W
<1>3. /\ pc'[c] = "idle" /\ \A d \in Clients : d # c => pc'[d] = pc[d]
      /\ \A d \in Clients : returned'[d] = returned[d] \/ returned'[d] = "none"
  BY DEF Return, Goto, IInv, TypeOK
<1>4. \A d \in Clients : pc[d] \notin {"handoff", "response", "execute"} BY FreeNobody
<1>5. LockHeld' /\ Offered' BY <1>3, <1>4 DEF LockHeld, Offered
<1>6. OwnSemas' BY <1>1, <1>3 DEF IInv, Inv, OwnSemas, Waiting
<1>7. Unasked'
  <2>1. \A s \in Semas : s > polls' => ~ready'[s] /\ response'[s] = 0
    <3>1. polls \in Nat BY DEF IInv, TypeOK
    <3>2. ASSUME NEW s \in Semas, s > polls PROVE s \notin W
      BY <1>2, <3>1, <3>2 DEF Semas
    <3> QED BY <1>1, <3>2 DEF IInv, Inv, Unasked
  <2> QED BY <1>1, <2>1, NoneOfEmpty DEF Unasked
<1>8. ASSUME NEW d \in Clients, Chosen(d)' PROVE response'[sema[d]] = 1
  <2>1. d # c /\ pc'[d] = pc[d] BY <1>3, <1>8 DEF Chosen
  <2>2. sema[d] \in Semas BY <1>8, <2>1, SemasMade DEF Chosen, Waiting
  <2>3. Chosen(d) => response[sema[d]] = 1 BY DEF IInv, Inv, AskedOnce
  <2>4. CASE sema[d] \in W BY <1>1, <1>2, <2>2, <2>4
  <2>5. CASE sema[d] \notin W
    <3>1. Chosen(d) BY <1>1, <1>8, <2>1, <2>2, <2>5 DEF Chosen
    <3> QED BY <1>1, <2>2, <2>3, <2>5, <3>1
  <2> QED BY <2>4, <2>5
<1>9. AskedOnce' BY <1>1, <1>8 DEF AskedOnce
<1>10. Queued'
  <2>1. ASSUME NEW d \in Clients, pc'[d] \in {"wait", "timeout"}, ~ready'[sema[d]] PROVE FALSE
    <3>1. d # c /\ pc'[d] = pc[d] BY <1>3, <2>1
    <3>2. sema[d] \in Semas BY <2>1, <3>1, SemasMade DEF Waiting
    <3>3. ~ready[sema[d]] /\ sema[d] \notin W BY <1>1, <2>1, <3>2
    <3> QED BY <2>1, <3>1, <3>3 DEF IInv, Inv, Queued, W
  <2> QED BY <2>1 DEF Queued
<1>11. AnswersAsked'
  <2>1. \A s \in Semas : response[s] >= 0 /\ response[s] \in Int
    BY DEF IInv, Inv, AnswersAsked, TypeOK
  <2> QED BY <1>1, <2>1 DEF AnswersAsked
<1>12. PollFindsItems' /\ NoneLeftOver' BY <1>1, <1>3, <1>4 DEF IInv, Inv, PollFindsItems, NoneLeftOver
<1> QED BY <1>5, <1>6, <1>7, <1>9, <1>10, <1>11, <1>12 DEF Inv

LEMMA ExecuteKeeps == ASSUME IInv, NEW c \in Clients, Execute(c) \/ Executed(c) PROVE Inv'
<1>1. CASE Execute(c)
  <2>1. /\ pc[c] = "idle" /\ lock = Free /\ lock' = c
        /\ pc' = [pc EXCEPT ![c] = IF items = <<>> THEN "idle" ELSE "execute"]
        /\ returned' = returned \/ returned' = [returned EXCEPT ![c] = "none"]
        /\ UNCHANGED <<items, waiters, disposed, ready, response, polls, sema>>
    BY <1>1 DEF Execute, Return, Goto, semas
  <2>2. /\ pc'[c] = IF items = <<>> THEN "idle" ELSE "execute"
        /\ \A d \in Clients : d # c => pc'[d] = pc[d]
        /\ \A d \in Clients : returned'[d] = returned[d] \/ returned'[d] = "none"
    BY <2>1 DEF IInv, TypeOK
  <2>3. \A d \in Clients : /\ pc[d] \notin {"handoff", "response", "execute"}
                           /\ Chosen(d) => disposed
    BY <2>1, FreeNobody
  <2>4. \A d \in Clients : Chosen(d)' => Chosen(d) BY <2>1, <2>2 DEF Chosen
  <2>5. LockHeld' /\ Offered' BY <2>1, <2>2, <2>3 DEF LockHeld, Offered
  <2>6. OwnSemas' BY <2>1, <2>2 DEF IInv, Inv, OwnSemas, Waiting
  <2>7. Unasked' /\ AnswersAsked' BY <2>1 DEF IInv, Inv, Unasked, AnswersAsked
  <2>8. AskedOnce' BY <2>1, <2>3, <2>4 DEF IInv, Inv, AskedOnce
  <2>9. Queued' BY <2>1, <2>2 DEF IInv, Inv, Queued
  <2>10. PollFindsItems' BY <2>2 DEF IInv, Inv, PollFindsItems
  <2>11. NoneLeftOver' BY <2>1, <2>2, <2>3, QueueAssumption DEF IInv, Inv, NoneLeftOver
  <2> QED BY <2>5, <2>6, <2>7, <2>8, <2>9, <2>10, <2>11 DEF Inv
<1>2. CASE Executed(c)
  <2>1. /\ pc[c] = "execute" /\ lock' = Free /\ pc' = [pc EXCEPT ![c] = "gap"]
        /\ UNCHANGED <<waiters, disposed, ready, response, polls, sema, returned>>
    BY <1>2 DEF Executed, Goto, semas
  <2>2. lock = c /\ waiters = <<>> BY <2>1 DEF IInv, Inv, LockHeld, NoneLeftOver
  <2>3. pc'[c] = "gap" /\ \A d \in Clients : d # c => pc'[d] = pc[d] BY <2>1 DEF IInv, TypeOK
  <2>4. \A d \in Clients : pc'[d] \notin {"handoff", "response", "execute"}
    BY <2>2, <2>3 DEF IInv, Inv, LockHeld
  <2>5. \A d \in Clients : Chosen(d) => disposed BY <2>1, <2>2 DEF IInv, Inv, AskedOnce, Serves
  <2>6. \A d \in Clients : Chosen(d)' => Chosen(d) BY <2>1, <2>3 DEF Chosen
  <2>7. LockHeld' /\ Offered' BY <2>4 DEF LockHeld, Offered
  <2>8. OwnSemas' BY <2>1, <2>3 DEF IInv, Inv, OwnSemas, Waiting
  <2>9. Unasked' /\ AnswersAsked' BY <2>1 DEF IInv, Inv, Unasked, AnswersAsked
  <2>10. AskedOnce' BY <2>1, <2>5, <2>6 DEF IInv, Inv, AskedOnce
  <2>11. Queued' BY <2>1, <2>3 DEF IInv, Inv, Queued
  <2>12. PollFindsItems' /\ NoneLeftOver' BY <2>1, <2>2 DEF IInv, Inv, PollFindsItems, NoneLeftOver
  <2> QED BY <2>7, <2>8, <2>9, <2>10, <2>11, <2>12 DEF Inv
<1> QED BY <1>1, <1>2

LEMMA InvNext == IInv /\ [Next]_vars => Inv'
<1> SUFFICES ASSUME IInv, [Next]_vars PROVE Inv' OBVIOUS
<1>1. CASE UNCHANGED vars
  <2>1. UNCHANGED <<items, waiters, disposed, lock, ready, response, polls, pc, sema, returned>>
    BY <1>1 DEF vars, queue, semas
  <2>2. /\ LockHeld' /\ OwnSemas' /\ Unasked' /\ AnswersAsked'
        /\ Queued' /\ Offered' /\ PollFindsItems' /\ NoneLeftOver'
    BY <2>1 DEF IInv, Inv, LockHeld, OwnSemas, Waiting, Unasked, AnswersAsked, Queued, Offered,
                PollFindsItems, NoneLeftOver
  <2>3. AskedOnce' BY <2>1 DEF IInv, Inv, AskedOnce, Chosen, Serves
  <2> QED BY <2>2, <2>3 DEF Inv
<1>2. ASSUME NEW c \in Clients,
             \/ Put(c) \/ Poll(c) \/ TakeUntil(c) \/ Dispose(c) \/ Execute(c)
             \/ Proceed(c)
             \/ Timeout(c) \/ Cancel(c) \/ RemoveWaiter(c) \/ ExecuteDisposes(c)
      PROVE  Inv'
  <2>1. CASE Put(c) BY <2>1, PutKeeps
  <2>2. CASE Poll(c) BY <2>2, PollKeeps
  <2>3. CASE TakeUntil(c)
    <3>1. /\ lock = Free /\ pc[c] = "idle"
          /\ Return(c, "disposed") \/ Return(c, "none")
          /\ UNCHANGED <<waiters, disposed, lock, semas, sema>>
      BY <2>3 DEF TakeUntil
    <3>2. items = <<>> => items' = <<>>
      <4>1. Len(items) \in Nat BY DEF IInv, TypeOK
      <4>2. UNCHANGED items \/ \E n \in Nat : Take(n) BY <2>3, <4>1 DEF TakeUntil
      <4> QED BY <4>2, TakeTypes DEF IInv
    <3> QED BY <3>1, <3>2, LeaveKeeps DEF Return, Goto
  <2>4. CASE Dispose(c) \/ ExecuteDisposes(c)
    BY <2>4, DisposeKeeps DEF Dispose, ExecuteDisposes
  <2>5. CASE Execute(c) \/ Executed(c) BY <2>5, ExecuteKeeps
  <2>6. CASE LastHandoff(c) BY <2>6, PutReturnsKeeps DEF LastHandoff
  <2>7. CASE Handoff(c) BY <2>7, HandoffKeeps
  <2>8. CASE Response(c) BY <2>8, ResponseKeeps
  <2>9. CASE Wake(c) BY <2>9, WakeKeeps
  <2>10. CASE TakeWoken(c) BY <2>10, TakeWokenKeeps
  <2>11. CASE Timeout(c) BY <2>11, TimeoutKeeps
  <2>12. CASE TimeoutAnswers(c) BY <2>12, TimeoutAnswersKeeps
  <2>13. CASE RemoveWaiter(c) BY <2>13, RemoveWaiterKeeps
  <2>14. CASE Cancel(c) BY <2>14, LeaveKeeps DEF Cancel, Return, Goto, queue
  <2> QED BY <1>2, <2>1, <2>2, <2>3, <2>4, <2>5, <2>6, <2>7, <2>8, <2>9, <2>10, <2>11, <2>12,
             <2>13, <2>14 DEF Proceed
<1> QED BY <1>1, <1>2 DEF Next

\* The invariant behind the properties: who holds the lock, who owns which
\* semaphore, and who owes whom an answer.
THEOREM QueueInvariant == Spec => []IInv
<1>1. Init => IInv BY TypesInit, InvInit DEF IInv
<1>2. IInv /\ [Next]_vars => IInv' BY TypesNext, InvNext DEF IInv
<1> QED BY <1>1, <1>2, PTL DEF Spec

-----------------------------------------------------------------------------
(* The order in which polls are served.                                     *)

\* The waiters queue in the order their polls came, behind the one being served.
Served == /\ Increasing(waiters)
          /\ \A p \in Clients : pc[p] = "response" => \A s \in Range(waiters) : sema[p] < s

LEMMA ServedInit == Init => Served
BY NoneOfEmpty DEF Init, Served, Increasing

\* A step that adds no waiter, while no other Put begins to serve one.
LEMMA ServedStays ==
  ASSUME Served, UNCHANGED waiters \/ waiters' = <<>>,
         \A p \in Clients : pc'[p] = "response" => pc[p] = "response" /\ sema'[p] = sema[p]
  PROVE  Served'
BY NoneOfEmpty DEF Served, Increasing

LEMMA ServedNext == IInv /\ Served /\ [Next]_vars => Served'
<1> SUFFICES ASSUME IInv, Served, [Next]_vars PROVE Served' OBVIOUS
<1>1. CASE UNCHANGED vars BY <1>1, ServedStays DEF vars, queue
<1> SUFFICES ASSUME NEW c \in Clients,
                    \/ Put(c) \/ Poll(c) \/ TakeUntil(c) \/ Dispose(c) \/ Execute(c)
                    \/ Proceed(c)
                    \/ Timeout(c) \/ Cancel(c) \/ RemoveWaiter(c) \/ ExecuteDisposes(c)
             PROVE  Served'
  BY <1>1 DEF Next
<1>2. /\ waiters \in Seq(Semas) /\ IsInjective(waiters) /\ Increasing(waiters)
      /\ \A s \in Range(waiters) : s <= polls
      /\ polls \in Nat
      /\ pc \in [Clients -> PCs] /\ sema \in [Clients -> 0..MaxPolls]
  BY DEF IInv, TypeOK, Inv, Unasked, Served
<1>3. CASE Handoff(c)
  <2> DEFINE s == Head(waiters)
  <2>1. waiters # <<>> /\ waiters' = Tail(waiters) BY <1>3 DEF Handoff
  <2>2. /\ s \in Semas /\ Increasing(waiters') /\ Range(waiters') \subseteq Range(waiters)
        /\ \A r \in Range(waiters') : s < r
    BY <1>2, <2>1, TailOfDistinct
  <2>3. \/ UNCHANGED <<pc, sema>>
        \/ pc' = [pc EXCEPT ![c] = "idle"] /\ UNCHANGED sema
        \/ pc' = [pc EXCEPT ![c] = "response"] /\ sema' = [sema EXCEPT ![c] = s]
    BY <1>3 DEF Handoff, PutReturns, Return, Goto
  <2> HIDE DEF s
  <2>4. ASSUME NEW p \in Clients, pc'[p] = "response"
        PROVE  sema'[p] = s \/ (pc[p] = "response" /\ sema'[p] = sema[p])
    BY <1>2, <2>3, <2>4
  <2> QED BY <2>2, <2>4 DEF Served
<1>4. CASE Poll(c)
  <2>1. CASE UNCHANGED waiters
    <3>1. \/ UNCHANGED <<pc, sema>>
          \/ pc' = [pc EXCEPT ![c] = "idle"] /\ UNCHANGED sema
      <4>1. polls + 1 \notin Range(waiters) BY <1>2
      <4>2. Range(Append(waiters, polls + 1)) # Range(waiters) \/ polls >= MaxPolls
        <5>1. polls < MaxPolls => polls + 1 \in Semas BY <1>2, QueueAssumption DEF Semas
        <5> QED BY <1>2, <4>1, <5>1, AppendDistinct, QueueAssumption
      <4> QED BY <1>2, <1>4, <2>1, <4>2, QueueAssumption DEF Poll, Return, Goto
    <3> QED BY <1>2, <2>1, <3>1, ServedStays
  <2>2. CASE ~UNCHANGED waiters
    <3>1. /\ lock = Free /\ polls < MaxPolls /\ waiters' = Append(waiters, polls + 1)
          /\ pc' = [pc EXCEPT ![c] = "wait"]
      BY <1>4, <2>2 DEF Poll, queue, Goto
    <3>2. polls + 1 \in Semas /\ \A s \in Range(waiters) : s < polls + 1
      <4>1. \A i \in DOMAIN waiters : waiters[i] \in Semas BY <1>2
      <4>2. Range(waiters) \subseteq Semas BY <4>1 DEF Range
      <4> QED BY <1>2, <3>1, <4>2, QueueAssumption DEF Semas
    <3>3. polls + 1 \notin Range(waiters) BY <1>2, <3>2
    <3>4. Increasing(waiters') BY <1>2, <3>1, <3>2, <3>3, AppendDistinct
    <3>5. \A p \in Clients : pc'[p] # "response" BY <1>2, <3>1, FreeNobody
    <3> QED BY <3>4, <3>5 DEF Served
  <2> QED BY <2>1, <2>2
<1>5. CASE RemoveWaiter(c)
  <2>1. UNCHANGED sema /\ pc' = [pc EXCEPT ![c] = "idle"]
    BY <1>5 DEF RemoveWaiter, Return, Goto, semas
  <2>2. /\ Increasing(waiters') /\ Range(waiters') \subseteq Range(waiters)
    <3>1. CASE UNCHANGED waiters BY <1>2, <3>1
    <3>2. CASE \E i \in DOMAIN waiters : waiters' = RemoveAt(waiters, i)
      <4>1. PICK i \in DOMAIN waiters : waiters' = RemoveAt(waiters, i) BY <3>2
      <4> QED BY <1>2, <4>1, RemoveDistinct
    <3> QED BY <1>5, <3>1, <3>2 DEF RemoveWaiter
  <2> QED BY <1>2, <2>1, <2>2 DEF Served
<1>6. CASE \/ Put(c) \/ TakeUntil(c) \/ Dispose(c) \/ Execute(c) \/ Executed(c)
           \/ LastHandoff(c) \/ Response(c) \/ Wake(c) \/ TakeWoken(c) \/ TimeoutAnswers(c)
           \/ Timeout(c) \/ Cancel(c) \/ ExecuteDisposes(c)
  <2>1. UNCHANGED waiters \/ waiters' = <<>>
    BY <1>6 DEF Put, TakeUntil, Dispose, DisposeQueue, Execute, Executed, LastHandoff, Response,
                Wake, TakeWoken, TimeoutAnswers, Timeout, Cancel, ExecuteDisposes, queue
  <2>2. /\ UNCHANGED sema
        /\ \/ UNCHANGED pc
           \/ \E l \in PCs \ {"response"} : pc' = [pc EXCEPT ![c] = l]
    BY <1>6 DEF Put, TakeUntil, Dispose, DisposeQueue, Execute, Executed, LastHandoff, Response,
                PutReturns, Wake, TakeWoken, TimeoutAnswers, Timeout, Cancel, ExecuteDisposes,
                Return, Goto, PCs, queue, semas
  <2> QED BY <1>2, <2>1, <2>2, ServedStays
<1> QED BY <1>3, <1>4, <1>5, <1>6 DEF Proceed

\* The one that was woken is the one being served.
LEMMA ServedFirst == IInv /\ Served => EarlierFirst
<1> SUFFICES ASSUME IInv, Served, NEW c \in Clients, pc[c] = "woken"
             PROVE  \A s \in Range(waiters) : sema[c] < s
  BY DEF EarlierFirst
<1>1. CASE disposed BY <1>1, NoneOfEmpty DEF IInv, Inv, Unasked
<1>2. CASE ~disposed
  <2>1. PICK p \in Clients : Serves(p, c) BY <1>2 DEF IInv, Inv, AskedOnce, Chosen
  <2> QED BY <2>1 DEF Served, Serves
<1> QED BY <1>1, <1>2

-----------------------------------------------------------------------------
\* The types of the queue, its semaphores and the goroutines at it.
THEOREM QueueTypes == Spec => []TypeOK
<1>1. IInv => TypeOK BY DEF IInv
<1> QED BY <1>1, QueueInvariant, PTL

\* Whatever times out, is cancelled or disposed: a woken poll takes its items
\* while the Put that woke it holds the lock and waits for it, finds some, and
\* answers once; a disposed queue releases all (queue.go:154-166, 208-227).
THEOREM HandOffWorks == Spec => []HandOff
<1>1. IInv => HandOff
  <2> SUFFICES ASSUME IInv PROVE HandOff OBVIOUS
  <2>1. TakesInsidePut BY DEF IInv, Inv, AskedOnce, Chosen, Serves, TakesInsidePut
  <2>2. DisposeReleases
    BY NoneOfEmpty DEF IInv, Inv, Queued, Unasked, DisposeReleases
  <2> QED BY <2>1, <2>2 DEF HandOff, IInv, Inv
<1> QED BY <1>1, QueueInvariant, PTL

\* While the queue is unlocked no poll waits for items it holds (queue.go:152-166).
THEOREM NoItemsKeptFromPolls == Spec => []NoneWaitsForItems
<1>1. IInv => NoneWaitsForItems
  BY NoneOfEmpty DEF IInv, Inv, NoneLeftOver, NoneWaitsForItems
<1> QED BY <1>1, QueueInvariant, PTL

\* Without ExecuteInParallel, which leaves emptied items in the queue, every item
\* leaves once and in the order it was put, however many a Put adds and however many
\* polls share them, and the polls are served in the order they came
\* (queue.go:58-76, 84-108, 147-162).
THEOREM ItemsInOrder == "execute" \notin Ops => (Spec => []InOrderOnce)
<1> DEFINE Kept == IInv /\ Served /\ accepted = taken \o items
                   /\ \A c \in Clients : pc[c] # "execute" /\ pc[c] # "gap"
<1> SUFFICES ASSUME "execute" \notin Ops PROVE Spec => []InOrderOnce OBVIOUS
<1>1. Init => Kept
  <2> SUFFICES ASSUME Init PROVE Kept OBVIOUS
  <2>1. accepted = <<>> /\ taken \o items = <<>> BY DEF Init
  <2>2. \A c \in Clients : pc[c] = "idle" BY DEF Init
  <2> QED BY <2>1, <2>2, TypesInit, InvInit, ServedInit DEF IInv
<1>2. Kept /\ [Next]_vars => Kept'
  <2> SUFFICES ASSUME Kept, [Next]_vars PROVE Kept' OBVIOUS
  <2>1. TypeOK /\ IInv' /\ Served' BY TypesNext, InvNext, ServedNext DEF IInv
  <2>2. items \in Seq(Items) /\ taken \in Seq(Items) /\ accepted = taken \o items
    BY <2>1 DEF TypeOK
  <2>3. \A d \in Clients : pc'[d] # "execute" /\ pc'[d] # "gap"
    <3>1. CASE UNCHANGED vars BY <3>1 DEF vars
    <3> SUFFICES ASSUME NEW c \in Clients,
                        \/ Put(c) \/ Poll(c) \/ TakeUntil(c) \/ Dispose(c) \/ Execute(c)
                        \/ Proceed(c)
                        \/ Timeout(c) \/ Cancel(c) \/ RemoveWaiter(c) \/ ExecuteDisposes(c)
                 PROVE  \A d \in Clients : pc'[d] # "execute" /\ pc'[d] # "gap"
      BY <3>1 DEF Next
    <3>2. /\ ~Execute(c) /\ ~Executed(c) /\ ~ExecuteDisposes(c)
      BY DEF Execute, Executed, ExecuteDisposes
    <3>3. PICK l \in PCs \ {"execute", "gap"} : pc' = [pc EXCEPT ![c] = l] \/ pc' = pc
      BY <3>2 DEF Put, Poll, TakeUntil, Dispose, Proceed, LastHandoff, Handoff, Response,
                  PutReturns, Wake, TakeWoken, TimeoutAnswers, Timeout, Cancel, RemoveWaiter,
                  Return, Goto, PCs, queue
    <3> QED BY <2>1, <3>3 DEF TypeOK
  <2>4. accepted' = taken' \o items'
    <3>1. CASE UNCHANGED vars BY <2>2, <3>1 DEF vars, queue, semas
    <3> SUFFICES ASSUME NEW c \in Clients,
                        \/ Put(c) \/ Poll(c) \/ TakeUntil(c) \/ Dispose(c) \/ Execute(c)
                        \/ Proceed(c)
                        \/ Timeout(c) \/ Cancel(c) \/ RemoveWaiter(c) \/ ExecuteDisposes(c)
                 PROVE  accepted' = taken' \o items'
      BY <3>1 DEF Next
    <3>3. ASSUME NEW n \in Nat, Take(n), UNCHANGED accepted PROVE accepted' = taken' \o items'
      BY <2>1, <2>2, <3>3, TakeTypes
    <3>4. CASE Put(c)
      <4>1. CASE disposed BY <2>2, <3>4, <4>1 DEF Put, queue
      <4>2. CASE ~disposed
        <5>1. PICK n \in 1..MaxItems - Len(accepted) :
                accepted' = accepted \o New(n) /\ items' = items \o New(n) /\ taken' = taken
          BY <3>4, <4>2 DEF Put
        <5>2. New(n) \in Seq(Items) BY <2>1, NewTypes
        <5>3. (taken \o items) \o New(n) = taken \o (items \o New(n))
          BY <2>2, <5>2, ConcatAssociative
        <5> QED BY <2>2, <5>1, <5>3
      <4> QED BY <4>1, <4>2
    <3>5. CASE Poll(c)
      <4>1. UNCHANGED accepted BY <3>5 DEF Poll
      <4>2. UNCHANGED <<items, taken>> \/ \E n \in Numbers : Take(n) BY <3>5 DEF Poll, queue
      <4> QED BY <2>2, <3>3, <4>1, <4>2, QueueAssumption
    <3>6. CASE TakeUntil(c)
      <4>1. UNCHANGED accepted /\ Len(items) \in Nat BY <2>2, <3>6 DEF TakeUntil
      <4>2. UNCHANGED <<items, taken>> \/ \E n \in Nat : Take(n)
        BY <3>6, <4>1 DEF TakeUntil
      <4> QED BY <2>2, <3>3, <4>1, <4>2
    <3>7. CASE Dispose(c)
      <4>1. items' = <<>> /\ taken' = taken \o items /\ accepted' = accepted
        BY <3>7 DEF Dispose, DisposeQueue
      <4>2. taken \o items \in Seq(Items) BY <2>2, ConcatProperties
      <4> QED BY <2>2, <4>1, <4>2, ConcatEmptySeq
    <3>8. CASE Execute(c) \/ Executed(c) \/ ExecuteDisposes(c)
      BY <3>8 DEF Execute, Executed, ExecuteDisposes
    <3>9. CASE TakeWoken(c)
      <4>1. UNCHANGED accepted BY <3>9 DEF TakeWoken
      <4>2. UNCHANGED <<items, taken>> \/ Take(asked[c]) BY <3>9 DEF TakeWoken
      <4>3. asked[c] \in Nat BY <2>1, QueueAssumption DEF TypeOK
      <4> QED BY <2>2, <3>3, <4>1, <4>2, <4>3
    <3>10. CASE \/ LastHandoff(c) \/ Handoff(c) \/ Response(c) \/ Wake(c) \/ TimeoutAnswers(c)
                \/ Timeout(c) \/ Cancel(c) \/ RemoveWaiter(c)
      <4>1. UNCHANGED <<items, accepted, taken>>
        BY <3>10 DEF LastHandoff, Handoff, Response, Wake, TimeoutAnswers, Timeout, Cancel,
                     RemoveWaiter, queue
      <4> QED BY <2>2, <4>1
    <3> QED BY <3>4, <3>5, <3>6, <3>7, <3>8, <3>9, <3>10 DEF Proceed
  <2> QED BY <2>1, <2>3, <2>4
<1>3. Kept => InOrderOnce BY ServedFirst DEF InOrderOnce
<1> QED BY <1>1, <1>2, <1>3, PTL DEF Spec
=============================================================================
