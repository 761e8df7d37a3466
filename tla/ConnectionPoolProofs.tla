------------------------ MODULE ConnectionPoolProofs ------------------------
(***************************************************************************)
(* Proofs about the connection pool, for any number of threads, hosts,     *)
(* connections, requests, retries and redirects, and any times.            *)
(***************************************************************************)
EXTENDS ConnectionPool, SequenceTheorems, WellFoundedInduction, TLAPS

-----------------------------------------------------------------------------
(* What the pools do to a queue.                                           *)

\* Later entries were put later, and none after the time n.
Ordered(q, n) ==
    \A i \in 1..Len(q) :
        /\ q[i].time <= n
        /\ \A j \in 1..Len(q) : i <= j => q[i].time <= q[j].time

Distinct(q) == \A i, j \in 1..Len(q) : q[i].conn = q[j].conn => i = j

\* Every connection of p is one of q.
Within(p, q) == \A i \in 1..Len(p) : \E j \in 1..Len(q) : p[i].conn = q[j].conn

\* The least-number principle.
LEMMA Least ==
    ASSUME NEW T, T \subseteq Nat, T # {}
    PROVE  \E x \in T : \A y \in T : x <= y
<1> DEFINE R == {p \in Nat \X Nat : p[1] < p[2]}
<1>1. IsWellFoundedOn(R, Nat)
  BY NatLessThanWellFounded DEF OpToRel
<1>2. \E x \in T : \A y \in T : ~(<<y, x>> \in R)
  <2> HIDE DEF R
  <2>1. QED  BY <1>1, WFMin
<1>3. PICK x \in T : \A y \in T : ~(<<y, x>> \in R)
  BY <1>2
<1>4. ASSUME NEW y \in T PROVE x <= y
  <2>1. x \in Nat /\ y \in Nat
    BY <1>4
  <2>2. ~(y < x)
    BY <1>3, <2>1
  <2>3. QED  BY <2>1, <2>2
<1>5. QED  BY <1>3, <1>4

\* What is in a queue.
LEMMA QueueTyped ==
    ASSUME NEW q \in Seq(Entry)
    PROVE  /\ Len(q) \in Nat
           /\ \A i \in 1..Len(q) :
                 q[i] \in Entry /\ q[i].conn \in Ids /\ q[i].time \in Nat
<1>1. Len(q) \in Nat /\ \A i \in 1..Len(q) : q[i] \in Entry
  OBVIOUS
<1>2. QED  BY <1>1 DEF Entry

\* Cleaning keeps a part of the queue, in its order, and leaves nothing stale:
\* what is behind a fresh connection is fresh.
LEMMA CleanEffect ==
    ASSUME NEW q \in Seq(Entry), now \in Nat
    PROVE  /\ Clean(q) \in Seq(Entry)
           /\ Within(Clean(q), q)
           /\ Distinct(q) => Distinct(Clean(q))
           /\ Ordered(q, now) =>
                 /\ Ordered(Clean(q), now)
                 /\ \A i \in 1..Len(Clean(q)) : ~Stale(Clean(q)[i])
<1> DEFINE fresh == {i \in 1..Len(q) : ~Stale(q[i])}
<1>0. Len(q) \in Nat /\ \A i \in 1..Len(q) : q[i] \in Entry /\ q[i].time \in Nat
  BY QueueTyped
<1>1. CASE fresh = {}
  <2>1. Clean(q) = <<>>
    BY <1>1 DEF Clean
  <2>2. Clean(q) \in Seq(Entry) /\ Len(Clean(q)) = 0
    BY <2>1
  <2>3. QED  BY <2>2 DEF Within, Distinct, Ordered
<1>2. CASE fresh # {}
  <2> DEFINE first == CHOOSE i \in fresh : \A j \in fresh : i <= j
  <2>1. first \in fresh /\ \A j \in fresh : first <= j
    <3>1. fresh \subseteq Nat
      BY <1>0
    <3>2. \E i \in fresh : \A j \in fresh : i <= j
      <4> HIDE DEF fresh
      <4>1. QED  BY <3>1, <1>2, Least
    <3>3. QED  BY <3>2
  <2>2. first \in 1..Len(q) /\ ~Stale(q[first])
    BY <2>1
  <2>3. Clean(q) = SubSeq(q, first, Len(q))
    BY <1>2 DEF Clean
  <2> HIDE DEF first, fresh
  <2>4. /\ Clean(q) \in Seq(Entry)
        /\ Len(Clean(q)) = Len(q) - first + 1
        /\ \A i \in 1..Len(Clean(q)) : Clean(q)[i] = q[first + i - 1]
    <3>1. \A i \in first..Len(q) : q[i] \in Entry
      BY <1>0, <2>2
    <3>2. first \in Int /\ Len(q) \in Int /\ first <= Len(q)
      BY <1>0, <2>2
    <3>3. /\ SubSeq(q, first, Len(q)) \in Seq(Entry)
          /\ Len(SubSeq(q, first, Len(q))) = Len(q) - first + 1
          /\ \A i \in 1..Len(q) - first + 1 :
                SubSeq(q, first, Len(q))[i] = q[first + i - 1]
      BY <3>1, <3>2, SubSeqProperties
    <3>4. QED  BY <3>3, <2>3
  <2>5. \A i \in 1..Len(Clean(q)) : first + i - 1 \in 1..Len(q)
    BY <1>0, <2>2, <2>4
  <2>6. Within(Clean(q), q)
    BY <2>4, <2>5 DEF Within
  <2>7. ASSUME Distinct(q),
               NEW i \in 1..Len(Clean(q)), NEW j \in 1..Len(Clean(q)),
               Clean(q)[i].conn = Clean(q)[j].conn
        PROVE  i = j
    <3>1. first + i - 1 = first + j - 1
      BY <2>4, <2>5, <2>7 DEF Distinct
    <3>2. i \in Nat /\ j \in Nat /\ first \in Nat
      BY <1>0, <2>2, <2>4
    <3>3. QED  BY <3>1, <3>2
  <2>8. ASSUME Ordered(q, now) PROVE Ordered(Clean(q), now)
    <3>1. \A i \in 1..Len(Clean(q)) : Clean(q)[i].time <= now
      BY <2>4, <2>5, <2>8 DEF Ordered
    <3>2. ASSUME NEW i \in 1..Len(Clean(q)), NEW j \in 1..Len(Clean(q)), i <= j
          PROVE  Clean(q)[i].time <= Clean(q)[j].time
      <4>1. first + i - 1 <= first + j - 1
        BY <1>0, <2>2, <2>4, <3>2
      <4>2. QED  BY <4>1, <2>4, <2>5, <2>8 DEF Ordered
    <3>3. QED  BY <3>1, <3>2 DEF Ordered
  <2>9. ASSUME Ordered(q, now), NEW i \in 1..Len(Clean(q)) PROVE ~Stale(Clean(q)[i])
    <3> DEFINE k == first + i - 1
    <3>1. k \in 1..Len(q) /\ Clean(q)[i] = q[k]
      BY <2>4, <2>5
    <3>1a. first <= k
      BY <1>0, <2>2, <2>4
    <3> HIDE DEF k
    <3>2. q[first].time <= q[k].time
      BY <3>1, <3>1a, <2>2, <2>9 DEF Ordered
    <3>3. ~Stale(q[k])
      BY <1>0, <2>2, <3>1, <3>2, TimesAssumption DEF Stale
    <3>4. QED  BY <3>1, <3>3
  <2>10. Distinct(q) => Distinct(Clean(q))
    BY <2>7 DEF Distinct
  <2>11. QED  BY <2>4, <2>6, <2>8, <2>9, <2>10
<1>3. QED  BY <1>1, <1>2

\* Entries put back keep their connections, and have the time of now.
LEMMA RequeuedEffect ==
    ASSUME NEW q \in Seq(Entry), now \in Nat, NEW n \in 0..Len(q)
    PROVE  /\ Requeued(q, n) \in Seq(Entry) /\ Len(Requeued(q, n)) = n
           /\ \A i \in 1..n : /\ Requeued(q, n)[i].conn = q[i].conn
                              /\ Requeued(q, n)[i].time = now
<1>1. \A i \in 1..n : [conn |-> q[i].conn, time |-> now] \in Entry
  <2>1. \A i \in 1..n : i \in 1..Len(q)
    BY QueueTyped
  <2>2. QED  BY <2>1, QueueTyped DEF Entry
<1>2. Requeued(q, n) \in [1..n -> Entry]
  BY <1>1 DEF Requeued
<1>3. n \in Nat
  OBVIOUS
<1>4. Requeued(q, n) \in Seq(Entry) /\ Len(Requeued(q, n)) = n
  BY <1>2, <1>3
<1>5. QED  BY <1>4 DEF Requeued

\* Turning the queue up to the connection taken keeps all the others.
LEMMA RestEffect ==
    ASSUME NEW q \in Seq(Entry), now \in Nat, NEW n \in 1..Len(q)
    PROVE  /\ Rest(q, n) \in Seq(Entry)
           /\ Within(Rest(q, n), q)
           /\ Distinct(q) =>
                 /\ Distinct(Rest(q, n))
                 /\ \A i \in 1..Len(Rest(q, n)) : Rest(q, n)[i].conn # q[n].conn
           /\ Ordered(q, now) => Ordered(Rest(q, n), now)
<1> DEFINE a == SubSeq(q, n + 1, Len(q))
           b == Requeued(q, n - 1)
           m == Len(q) - n
<1>0. /\ Len(q) \in Nat /\ n \in Nat /\ m \in Nat /\ n - 1 \in 0..Len(q)
      /\ \A i \in 1..Len(q) : q[i] \in Entry /\ q[i].time \in Nat
  BY QueueTyped
<1>1. a \in Seq(Entry) /\ Len(a) = m /\ \A i \in 1..m : a[i] = q[n + i]
  <2>1. \A i \in n + 1..Len(q) : q[i] \in Entry
    BY <1>0
  <2>2. n + 1 \in Int /\ Len(q) \in Int
    BY <1>0
  <2>3. /\ a \in Seq(Entry)
        /\ Len(a) = IF n + 1 <= Len(q) THEN Len(q) - (n + 1) + 1 ELSE 0
        /\ \A i \in 1..Len(q) - (n + 1) + 1 : a[i] = q[n + 1 + i - 1]
    BY <2>1, <2>2, SubSeqProperties
  <2> HIDE DEF a
  <2>4. QED  BY <2>3, <1>0
<1>2. /\ b \in Seq(Entry) /\ Len(b) = n - 1
      /\ \A i \in 1..n - 1 : b[i].conn = q[i].conn /\ b[i].time = now
  BY <1>0, RequeuedEffect
<1>3. Rest(q, n) = a \o b
  BY DEF Rest
<1> HIDE DEF a, b
<1>4. /\ Rest(q, n) \in Seq(Entry) /\ Len(Rest(q, n)) = m + n - 1
      /\ \A i \in 1..m + n - 1 : Rest(q, n)[i] = IF i <= m THEN a[i] ELSE b[i - m]
  <2>1. Len(a) + Len(b) = m + n - 1
    BY <1>0, <1>1, <1>2
  <2>2. /\ a \o b \in Seq(Entry) /\ Len(a \o b) = Len(a) + Len(b)
        /\ \A i \in 1..Len(a) + Len(b) :
              (a \o b)[i] = IF i <= Len(a) THEN a[i] ELSE b[i - Len(a)]
    BY <1>1, <1>2, ConcatProperties
  <2>3. QED  BY <2>1, <2>2, <1>1, <1>3
<1> HIDE DEF m
<1>m. m \in Nat /\ m + n = Len(q)
  BY <1>0 DEF m
<1> DEFINE from(i) == IF i <= m THEN n + i ELSE i - m
<1>5. \A i \in 1..Len(Rest(q, n)) :
        /\ from(i) \in 1..Len(q) /\ from(i) # n
        /\ Rest(q, n)[i].conn = q[from(i)].conn
        /\ i <= m => Rest(q, n)[i].time = q[n + i].time
        /\ i > m => Rest(q, n)[i].time = now
  <2> TAKE i \in 1..Len(Rest(q, n))
  <2>1. i \in Nat /\ i >= 1 /\ i <= m + n - 1
    BY <1>0, <1>m, <1>4
  <2>2. CASE i <= m
    BY <2>1, <2>2, <1>0, <1>m, <1>1, <1>4
  <2>3. CASE i > m
    <3>1. i - m \in 1..n - 1
      BY <2>1, <2>3, <1>0, <1>m
    <3>2. Rest(q, n)[i] = b[i - m]
      BY <2>1, <2>3, <1>0, <1>m, <1>4
    <3>3. from(i) = i - m /\ i - m \in 1..Len(q) /\ i - m # n
      BY <3>1, <2>1, <2>3, <1>0, <1>m
    <3>4. ~(i <= m)
      BY <2>1, <2>3, <1>m
    <3> HIDE DEF from
    <3>5. QED  BY <3>1, <3>2, <3>3, <3>4, <1>2
  <2>4. QED  BY <2>1, <2>2, <2>3, <1>m
<1>6. \A i, j \in 1..Len(Rest(q, n)) : from(i) = from(j) => i = j
  BY <1>0, <1>m, <1>4
<1>7. Within(Rest(q, n), q)
  BY <1>5 DEF Within
<1>8. ASSUME Distinct(q)
      PROVE  /\ Distinct(Rest(q, n))
             /\ \A i \in 1..Len(Rest(q, n)) : Rest(q, n)[i].conn # q[n].conn
  <2> HIDE DEF from
  <2>1. QED  BY <1>5, <1>6, <1>8 DEF Distinct
<1>9. ASSUME Ordered(q, now) PROVE Ordered(Rest(q, n), now)
  <2>1. \A i \in 1..Len(Rest(q, n)) : i \in Nat /\ (i <= m => n + i \in 1..Len(q))
    BY <1>0, <1>m, <1>4
  <2>2. \A i \in 1..Len(Rest(q, n)) : Rest(q, n)[i].time <= now
    BY <2>1, <1>5, <1>9, <1>m DEF Ordered
  <2>3. ASSUME NEW i \in 1..Len(Rest(q, n)), NEW j \in 1..Len(Rest(q, n)), i <= j
        PROVE  Rest(q, n)[i].time <= Rest(q, n)[j].time
    <3>1. CASE j > m
      BY <3>1, <2>2, <1>5
    <3>2. CASE j <= m
      BY <3>2, <2>1, <2>3, <1>0, <1>5, <1>9, <1>m DEF Ordered
    <3>3. QED  BY <3>1, <3>2, <2>1, <1>m
  <2>4. QED  BY <2>2, <2>3 DEF Ordered
<1>10. QED  BY <1>4, <1>7, <1>8, <1>9

-----------------------------------------------------------------------------
(* The inductive invariant.                                                *)

\* The queues are ordered by time, and nothing happened after now.
Times ==
    /\ \A r \in Remote : Ordered(queue[r], now)
    /\ \A c \in Ids : conns[c].used <= now

\* Only a thread that sends or puts back has a connection.
Holding == \A t \in Threads : th[t].pc \notin {"send", "put"} => th[t].conn = NoConn

PoolInv == TypeOK /\ Times /\ Holding /\ OneUser /\ NeverStale

\* What the type of the state says of a thread.
LEMMA ThreadTyped ==
    ASSUME TypeOK, NEW t \in Threads
    PROVE  /\ th[t] \in Thread
           /\ th[t].to \in Remote /\ <<th[t].to[1], IsSecure>> \in Remote
           /\ th[t].tries \in Nat /\ th[t].hops \in Nat
           /\ th[t].age \in Nat /\ th[t].idle \in Nat
           /\ th[t].pc \in {"send", "put"} => th[t].conn \in Ids
           /\ Resting \in Thread
           /\ Resting.pc = "idle" /\ Resting.conn = NoConn /\ Resting.age = 0
<1>1. th[t] \in Thread
  BY DEF TypeOK
<1>2. th[t].to \in Remote /\ <<th[t].to[1], IsSecure>> \in Remote
  BY <1>1, SetsAssumption DEF Thread, Remote
<1>3. SomeHost \in Hosts
  BY SetsAssumption DEF SomeHost
<1>4. Start(<<SomeHost, IsSecure>>) \in Thread
  BY <1>3, SetsAssumption DEF Start, Thread, Remote
<1>5. Resting \in Thread /\ Resting.pc = "idle" /\ Resting.conn = NoConn /\ Resting.age = 0
  BY <1>4 DEF Resting, Thread, Start
<1>6. QED  BY <1>1, <1>2, <1>5 DEF Thread, TypeOK

\* The queue a connection is taken from, once it is clean.
LEMMA TakenFrom ==
    ASSUME TypeOK, Times, OneUser, NEW t \in Threads, NEW q,
           q = Clean(queue[th[t].to])
    PROVE  /\ q \in Seq(Entry) /\ Len(q) \in Nat
           /\ Within(q, queue[th[t].to]) /\ Distinct(q) /\ Ordered(q, now)
           /\ \A i \in 1..Len(q) : /\ ~Stale(q[i])
                                   /\ q[i].conn \in Ids /\ q[i].time \in Nat
<1>1. /\ queue[th[t].to] \in Seq(Entry) /\ Ordered(queue[th[t].to], now)
      /\ Distinct(queue[th[t].to]) /\ now \in Nat
  <2> DEFINE r == th[t].to
  <2>1. r \in Remote
    BY ThreadTyped
  <2> HIDE DEF r
  <2>2. queue[r] \in Seq(Entry) /\ Ordered(queue[r], now) /\ now \in Nat
    BY <2>1 DEF TypeOK, Times
  <2>3. Distinct(queue[r])
    BY <2>1 DEF OneUser, Distinct
  <2>4. QED  BY <2>2, <2>3 DEF r
<1>2. QED  BY <1>1, CleanEffect, QueueTyped

\* The first ready connection of the queue, or none is ready.
LEMMA FirstReady ==
    ASSUME TypeOK, Times, OneUser, NEW t \in Threads, NEW q,
           q = Clean(queue[th[t].to])
    PROVE  \A i \in ReadyIn(q) :
              /\ i \in 1..Len(q) /\ Ready(q[i].conn)
              /\ q[i].time <= now /\ now - q[i].time \in Nat
              /\ now - q[i].time <= StaleDuration
              /\ q[i].conn \in Ids /\ now - conns[q[i].conn].used \in Nat
<1> TAKE i \in ReadyIn(q)
<1>1. i \in 1..Len(q) /\ Ready(q[i].conn)
  BY DEF ReadyIn
<1>2. /\ q[i].time <= now /\ q[i].time \in Nat /\ now \in Nat
      /\ q[i].conn \in Ids /\ ~Stale(q[i])
  BY <1>1, TakenFrom DEF Ordered, TypeOK
<1>3. conns[q[i].conn].used \in Nat /\ conns[q[i].conn].used <= now
  BY <1>2 DEF TypeOK, Times, Connection
<1>4. now - q[i].time <= StaleDuration
  BY <1>2, TimesAssumption DEF Stale
<1>5. now - q[i].time \in Nat /\ now - conns[q[i].conn].used \in Nat
  BY <1>2, <1>3
<1>6. QED  BY <1>1, <1>2, <1>4, <1>5

-----------------------------------------------------------------------------
(* The queues keep their type and their order.                             *)

\* A queue that did not change is ordered at a later time.
LEMMA OrderedLater ==
    ASSUME NEW q \in Seq(Entry), NEW m \in Nat, NEW n \in Nat, m <= n, Ordered(q, m)
    PROVE  Ordered(q, n)
BY QueueTyped DEF Ordered

\* Every step leaves every queue well typed and ordered by time.
LEMMA QueuesStep ==
    ASSUME TypeOK, Times, OneUser, [Next]_vars
    PROVE  /\ queue' \in [Remote -> Seq(Entry)]
           /\ \A r \in Remote : Ordered(queue'[r], now')
<1> DEFINE Goal == /\ queue' \in [Remote -> Seq(Entry)]
                   /\ \A r \in Remote : Ordered(queue'[r], now')
<1>0. /\ now \in Nat /\ queue \in [Remote -> Seq(Entry)]
      /\ \A r \in Remote : queue[r] \in Seq(Entry) /\ Ordered(queue[r], now)
  BY DEF TypeOK, Times
<1>1. ASSUME UNCHANGED <<now, queue>> PROVE Goal
  BY <1>0, <1>1
<1>2. ASSUME Tick PROVE Goal
  BY <1>0, <1>2, OrderedLater DEF Tick
<1>3. ASSUME NEW t \in Threads, CleanPools(t) PROVE Goal
  <2>1. \A r \in Remote : Clean(queue[r]) \in Seq(Entry) /\ Ordered(Clean(queue[r]), now)
    BY <1>0, CleanEffect
  <2>2. now' = now /\ (queue' = [r \in Remote |-> Clean(queue[r])] \/ queue' = queue)
    BY <1>3 DEF CleanPools
  <2>3. QED  BY <1>0, <2>1, <2>2
<1>4. ASSUME NEW t \in Threads, Reuse(t) PROVE Goal
  <2> DEFINE q == Clean(queue[th[t].to])
  <2>1. PICK i \in ReadyIn(q) : queue' = [queue EXCEPT ![th[t].to] = Rest(q, i)]
    BY <1>4 DEF Reuse
  <2>2. q \in Seq(Entry) /\ Ordered(q, now) /\ i \in 1..Len(q)
    BY <2>1, TakenFrom, FirstReady
  <2> HIDE DEF q
  <2>3. Rest(q, i) \in Seq(Entry) /\ Ordered(Rest(q, i), now)
    BY <1>0, <2>2, RestEffect
  <2>4. now' = now
    BY <1>4 DEF Reuse
  <2>5. QED  BY <1>0, <2>1, <2>3, <2>4
<1>5. ASSUME NEW t \in Threads, GetNew(t) PROVE Goal
  <2> DEFINE q == Clean(queue[th[t].to])
             p == Requeued(q, Len(q))
  <2>1. queue' = [queue EXCEPT ![th[t].to] = p] /\ now' = now
    BY <1>5 DEF GetNew
  <2>2. q \in Seq(Entry) /\ Len(q) \in 0..Len(q)
    BY TakenFrom
  <2>3. p \in Seq(Entry) /\ \A i \in 1..Len(p) : p[i].time = now
    BY <1>0, <2>2, RequeuedEffect
  <2> HIDE DEF p
  <2>4. Ordered(p, now)
    BY <1>0, <2>3 DEF Ordered
  <2>5. QED  BY <1>0, <2>1, <2>3, <2>4
<1>6. ASSUME NEW t \in Threads, Put(t) PROVE Goal
  <2> DEFINE r == <<th[t].to[1], IsSecure>>
             e == [conn |-> th[t].conn, time |-> now]
  <2>1. queue' = [queue EXCEPT ![r] = Append(queue[r], e)] /\ now' = now
    BY <1>6 DEF Put
  <2>2. r \in Remote /\ e \in Entry /\ e.time = now
    BY <1>0, <1>6, ThreadTyped DEF Put, Entry
  <2> HIDE DEF r, e
  <2>3. /\ Append(queue[r], e) \in Seq(Entry)
        /\ Len(Append(queue[r], e)) = Len(queue[r]) + 1
        /\ \A i \in 1..Len(queue[r]) : Append(queue[r], e)[i] = queue[r][i]
        /\ Append(queue[r], e)[Len(queue[r]) + 1] = e
    BY <1>0, <2>2, AppendProperties
  <2>4. Len(queue[r]) \in Nat
    BY <1>0, <2>2, QueueTyped
  <2>5. \A i \in 1..Len(Append(queue[r], e)) : Append(queue[r], e)[i].time <= now
    BY <1>0, <2>2, <2>3, <2>4 DEF Ordered
  <2>6. Ordered(Append(queue[r], e), now)
    <3> SUFFICES ASSUME NEW i \in 1..Len(queue[r]) + 1, NEW j \in 1..Len(queue[r]) + 1,
                        i <= j
                 PROVE  Append(queue[r], e)[i].time <= Append(queue[r], e)[j].time
      BY <2>3, <2>5 DEF Ordered
    <3>1. CASE j = Len(queue[r]) + 1
      BY <3>1, <2>2, <2>3, <2>5
    <3>2. CASE j # Len(queue[r]) + 1
      <4>1. i \in 1..Len(queue[r]) /\ j \in 1..Len(queue[r])
        BY <2>4, <3>2
      <4>2. QED  BY <4>1, <1>0, <2>2, <2>3 DEF Ordered
    <3>3. QED  BY <3>1, <3>2
  <2>7. QED  BY <1>0, <2>1, <2>3, <2>6
<1>7. CASE Next
  <2> HIDE DEF Goal
  <2>1. ASSUME NEW t \in Threads, Request(t) \/ Respond(t) \/ ServerFails(t)
               \/ ConnectionFails(t) \/ RequestRaises(t) \/ Redirect(t)
        PROVE  Goal
    BY <1>1, <2>1
       DEF Request, Respond, ServerFails, ConnectionFails, RequestRaises, Redirect
  <2>2. ASSUME NEW c \in Ids, ReadResponse(c) PROVE Goal
    BY <1>1, <2>2 DEF ReadResponse
  <2>3. Goal
    BY <1>7, <1>2, <1>3, <1>4, <1>5, <1>6, <2>1, <2>2 DEF Next, Step
  <2>4. QED  BY <2>3 DEF Goal
<1>8. CASE UNCHANGED vars
  BY <1>8, <1>1 DEF vars
<1>9. QED  BY <1>7, <1>8

-----------------------------------------------------------------------------
(* The connections keep their type, and were not used after now.           *)

\* Every step leaves the connections well typed and not used after now.
LEMMA ConnsStep ==
    ASSUME TypeOK, Times, [Next]_vars
    PROVE  conns' \in [Ids -> Connection] /\ \A c \in Ids : conns'[c].used <= now'
<1> DEFINE Goal == conns' \in [Ids -> Connection] /\ \A c \in Ids : conns'[c].used <= now'
<1>0. /\ now \in Nat /\ conns \in [Ids -> Connection]
      /\ \A c \in Ids : conns[c] \in Connection /\ conns[c].used <= now
                        /\ conns[c].used \in Nat
  BY DEF TypeOK, Times, Connection
<1>1. ASSUME UNCHANGED <<now, conns>> PROVE Goal
  BY <1>0, <1>1
<1>2. ASSUME Tick PROVE Goal
  BY <1>0, <1>2 DEF Tick
<1>3. ASSUME now' = now,
             NEW c \in Ids, NEW r \in Connection, r.used <= now,
             conns' = [conns EXCEPT ![c] = r]
      PROVE  Goal
  BY <1>0, <1>3
<1>4. ASSUME NEW c \in Ids
      PROVE  /\ [conns[c] EXCEPT !.open = TRUE, !.used = now] \in Connection
             /\ [conns[c] EXCEPT !.used = now] \in Connection
             /\ [conns[c] EXCEPT !.open = FALSE] \in Connection
             /\ [conns[c] EXCEPT !.open = TRUE, !.used = now].used = now
             /\ [conns[c] EXCEPT !.used = now].used = now
             /\ [conns[c] EXCEPT !.open = FALSE].used = conns[c].used
  BY <1>0 DEF Connection
<1>5. ASSUME NEW r \in Remote
      PROVE  [remote |-> r, open |-> FALSE, used |-> now] \in Connection
  BY <1>0 DEF Connection
<1>6. ASSUME NEW t \in Threads, GetNew(t) \/ ConnectionFails(t) PROVE Goal
  <2>1. PICK c \in Ids, r \in Remote :
          conns' = [conns EXCEPT ![c] = [remote |-> r, open |-> FALSE, used |-> now]]
    BY <1>6, ThreadTyped DEF GetNew, New, ConnectionFails, Unused
  <2>2. now' = now
    BY <1>6 DEF GetNew, ConnectionFails
  <2>3. [remote |-> r, open |-> FALSE, used |-> now].used <= now
    BY <1>0
  <2> HIDE DEF Goal
  <2>4. QED  BY <2>1, <2>2, <2>3, <1>3, <1>5
<1>7. ASSUME NEW t \in Threads, Respond(t) PROVE Goal
  <2>1. th[t].conn \in Ids /\ now' = now
    BY <1>7, ThreadTyped DEF Respond, Answered
  <2> DEFINE c == th[t].conn
             r == [conns[c] EXCEPT !.open = TRUE, !.used = now]
  <2>2. conns' = [conns EXCEPT ![th[t].conn] = r]
    BY <1>7 DEF Respond
  <2>3. r \in Connection /\ r.used <= now
    <3> HIDE DEF c
    <3>1. c \in Ids /\ now <= now
      BY <2>1, <1>0 DEF c
    <3>2. r \in Connection /\ r.used = now
      BY <3>1, <1>4
    <3>3. QED  BY <3>1, <3>2
  <2> HIDE DEF Goal, r
  <2>4. QED  BY <2>1, <2>2, <2>3, <1>3
<1>8. ASSUME NEW t \in Threads, ServerFails(t) PROVE Goal
  <2>1. th[t].conn \in Ids /\ now' = now
    BY <1>8, ThreadTyped DEF ServerFails, Answered
  <2> DEFINE c == th[t].conn
             r == [conns[c] EXCEPT !.used = now]
  <2>2. conns' = [conns EXCEPT ![th[t].conn] = r]
    BY <1>8 DEF ServerFails
  <2>3. r \in Connection /\ r.used <= now
    <3> HIDE DEF c
    <3>1. c \in Ids /\ now <= now
      BY <2>1, <1>0 DEF c
    <3>2. r \in Connection /\ r.used = now
      BY <3>1, <1>4
    <3>3. QED  BY <3>1, <3>2
  <2> HIDE DEF Goal, r
  <2>4. QED  BY <2>1, <2>2, <2>3, <1>3
<1>9. ASSUME NEW c \in Ids, ReadResponse(c) PROVE Goal
  <2> HIDE DEF Goal
  <2>1. QED  BY <1>9, <1>0, <1>3, <1>4 DEF ReadResponse
<1>10. ASSUME NEW t \in Threads,
              CleanPools(t) \/ Reuse(t) \/ Request(t) \/ Put(t)
              \/ RequestRaises(t) \/ Redirect(t)
       PROVE  Goal
  <2> HIDE DEF Goal
  <2>1. QED  BY <1>1, <1>10 DEF CleanPools, Reuse, Request, Put, RequestRaises, Redirect
<1>11. Goal
  <2> HIDE DEF Goal
  <2>1. CASE Next
    BY <2>1, <1>2, <1>6, <1>7, <1>8, <1>9, <1>10 DEF Next, Step
  <2>2. CASE UNCHANGED vars
    BY <2>2, <1>1 DEF vars
  <2>3. QED  BY <2>1, <2>2
<1>12. QED  BY <1>11 DEF Goal

-----------------------------------------------------------------------------
(* The threads keep their type; only one that uses a connection has one,   *)
(* and none takes a stale one.                                             *)

\* What may be said of a thread's state on its own.
ThreadOK(r) ==
    /\ r \in Thread
    /\ r.pc \in {"send", "put"} => r.conn \in Ids
    /\ r.pc \notin {"send", "put"} => r.conn = NoConn
    /\ r.age <= StaleDuration

\* Every step leaves every thread in a state of its own that is in order.
LEMMA ThreadsStep ==
    ASSUME PoolInv, [Next]_vars
    PROVE  th' \in [Threads -> Thread] /\ \A t \in Threads : ThreadOK(th'[t])
<1> DEFINE Goal == th' \in [Threads -> Thread] /\ \A t \in Threads : ThreadOK(th'[t])
<1> USE DEF PoolInv
<1>0. th \in [Threads -> Thread] /\ \A t \in Threads : ThreadOK(th[t])
  BY DEF TypeOK, Holding, NeverStale, ThreadOK
<1>n. /\ 0 \in Nat /\ 0 <= StaleDuration /\ NoConn \in Ids \union {NoConn}
      /\ \A t \in Threads : th[t].tries + 1 \in Nat /\ th[t].hops + 1 \in Nat
  <2>1. \A t \in Threads : th[t].tries \in Nat /\ th[t].hops \in Nat
    BY ThreadTyped
  <2>2. \A n \in Nat : n + 1 \in Nat /\ 0 <= n
    OBVIOUS
  <2>3. QED  BY <2>1, <2>2, TimesAssumption
<1>1. ASSUME UNCHANGED th PROVE Goal
  BY <1>0, <1>1
<1>2. ASSUME NEW t \in Threads, NEW r, ThreadOK(r), th' = [th EXCEPT ![t] = r]
      PROVE  Goal
  <2>1. r \in Thread
    BY <1>2 DEF ThreadOK
  <2>2. QED  BY <1>0, <1>2, <2>1
<1>3. ASSUME NEW r \in Remote PROVE ThreadOK(Start(r))
  BY <1>3, TimesAssumption DEF ThreadOK, Start, Thread
<1>4. ASSUME NEW t \in Threads PROVE ThreadOK(Resting)
  BY <1>n, ThreadTyped DEF ThreadOK
<1>5. ASSUME NEW t \in Threads, Request(t) PROVE Goal
  <2>1. \A h \in Hosts : <<h, IsSecure>> \in Remote
    BY SetsAssumption DEF Remote
  <2> HIDE DEF Goal
  <2>2. QED  BY <1>5, <2>1, <1>2, <1>3 DEF Request, Become
<1>6. ASSUME NEW t \in Threads, CleanPools(t) PROVE Goal
  <2>1. ThreadOK([th[t] EXCEPT !.pc = "get"])
    BY <1>0, <1>6 DEF ThreadOK, Thread, CleanPools
  <2> HIDE DEF Goal
  <2>2. QED  BY <1>6, <2>1, <1>2 DEF CleanPools, Become
<1>7. ASSUME NEW t \in Threads, Reuse(t) PROVE Goal
  <2> DEFINE q == Clean(queue[th[t].to])
  <2>1. PICK i \in ReadyIn(q) :
          th' = [th EXCEPT ![t] = [th[t] EXCEPT
                    !.pc = "send", !.conn = q[i].conn, !.age = now - q[i].time,
                    !.idle = now - conns[q[i].conn].used]]
    BY <1>7 DEF Reuse, Become
  <2>2. /\ q[i].conn \in Ids /\ now - q[i].time \in Nat
        /\ now - q[i].time <= StaleDuration /\ now - conns[q[i].conn].used \in Nat
    BY <2>1, FirstReady
  <2> HIDE DEF q
  <2>3. ThreadOK([th[t] EXCEPT
                    !.pc = "send", !.conn = q[i].conn, !.age = now - q[i].time,
                    !.idle = now - conns[q[i].conn].used])
    BY <1>0, <2>2 DEF ThreadOK, Thread
  <2> HIDE DEF Goal
  <2>4. QED  BY <2>1, <2>3, <1>2
<1>8. ASSUME NEW t \in Threads, GetNew(t) PROVE Goal
  <2>1. PICK c \in Ids :
          th' = [th EXCEPT ![t] = [th[t] EXCEPT
                    !.pc = "send", !.conn = c, !.age = 0, !.idle = 0]]
    BY <1>8 DEF GetNew, New, Unused
  <2>2. ThreadOK([th[t] EXCEPT !.pc = "send", !.conn = c, !.age = 0, !.idle = 0])
    BY <1>0, <1>n DEF ThreadOK, Thread
  <2> HIDE DEF Goal
  <2>3. QED  BY <2>1, <2>2, <1>2
<1>9. ASSUME NEW t \in Threads, Respond(t) PROVE Goal
  <2>1. ThreadOK([th[t] EXCEPT !.pc = "put"])
    BY <1>0, <1>9 DEF ThreadOK, Thread, Respond, Answered
  <2> HIDE DEF Goal
  <2>2. QED  BY <1>9, <2>1, <1>2 DEF Respond, Become
<1>10. ASSUME NEW t \in Threads, Put(t) \/ RequestRaises(t) PROVE Goal
  <2> HIDE DEF Goal
  <2>1. QED  BY <1>10, <1>2, <1>4 DEF Put, RequestRaises, Become
<1>11. ASSUME NEW t \in Threads, ServerFails(t) PROVE Goal
  <2>1. ThreadOK([th[t] EXCEPT !.tries = th[t].tries + 1, !.idle = 0])
    BY <1>0, <1>n, <1>11 DEF ThreadOK, Thread, ServerFails, Answered
  <2> HIDE DEF Goal
  <2>2. QED  BY <1>11, <2>1, <1>2, <1>4 DEF ServerFails, Become
<1>12. ASSUME NEW t \in Threads, ConnectionFails(t) PROVE Goal
  <2>1. PICK c \in Ids :
          th' = [th EXCEPT ![t] = [th[t] EXCEPT
                    !.conn = c, !.tries = th[t].tries + 1, !.age = 0, !.idle = 0]]
    BY <1>12 DEF ConnectionFails, Become, Unused
  <2>2. ThreadOK([th[t] EXCEPT
                    !.conn = c, !.tries = th[t].tries + 1, !.age = 0, !.idle = 0])
    BY <1>0, <1>n, <1>12 DEF ThreadOK, Thread, ConnectionFails
  <2> HIDE DEF Goal
  <2>3. QED  BY <2>1, <2>2, <1>2
<1>13. ASSUME NEW t \in Threads, Redirect(t) PROVE Goal
  <2>1. PICK r \in Remote :
          th' = [th EXCEPT ![t] = [th[t] EXCEPT
                    !.pc = "clean", !.to = r, !.conn = NoConn, !.hops = th[t].hops + 1]]
    BY <1>13 DEF Redirect, Become
  <2>2. ThreadOK([th[t] EXCEPT
                    !.pc = "clean", !.to = r, !.conn = NoConn, !.hops = th[t].hops + 1])
    BY <1>0, <1>n DEF ThreadOK, Thread
  <2> HIDE DEF Goal
  <2>3. QED  BY <2>1, <2>2, <1>2
<1>14. Goal
  <2> HIDE DEF Goal
  <2>1. ASSUME Tick \/ \E c \in Ids : ReadResponse(c) PROVE Goal
    BY <2>1, <1>1 DEF Tick, ReadResponse
  <2>2. CASE Next
    BY <2>1, <2>2, <1>5, <1>6, <1>7, <1>8, <1>9, <1>10, <1>11, <1>12, <1>13 DEF Next, Step
  <2>3. CASE UNCHANGED vars
    BY <2>3, <1>1 DEF vars
  <2>4. QED  BY <2>2, <2>3
<1>15. QED  BY <1>14 DEF Goal

-----------------------------------------------------------------------------
(* One user.                                                               *)

NoDuplicates ==
    \A r, s \in Remote : \A i \in 1..Len(queue[r]), j \in 1..Len(queue[s]) :
        queue[r][i].conn = queue[s][j].conn => r = s /\ i = j

Alone(t) ==
    th[t].pc \in {"send", "put"} =>
        /\ \A u \in Threads \ {t} : th[u].conn # th[t].conn
        /\ ~InQueue(th[t].conn)
        /\ th[t].pc = "send" => ~conns[th[t].conn].open

\* A step that takes connections out of the queues, or turns the queues,
\* duplicates none and adds none.
LEMMA QueuesShrink ==
    ASSUME NoDuplicates,
           \A r \in Remote : Within(queue'[r], queue[r]) /\ Distinct(queue'[r])
    PROVE  NoDuplicates' /\ \A c \in Ids : InQueue(c)' => InQueue(c)
<1>1. ASSUME NEW r \in Remote, NEW s \in Remote,
             NEW i \in 1..Len(queue'[r]), NEW j \in 1..Len(queue'[s]),
             queue'[r][i].conn = queue'[s][j].conn
      PROVE  r = s /\ i = j
  <2>1. PICK k \in 1..Len(queue[r]) : queue[r][k].conn = queue'[r][i].conn
    BY DEF Within
  <2>2. PICK l \in 1..Len(queue[s]) : queue[s][l].conn = queue'[s][j].conn
    BY DEF Within
  <2>3. r = s
    BY <1>1, <2>1, <2>2 DEF NoDuplicates
  <2>4. QED  BY <1>1, <2>3 DEF Distinct
<1>2. \A c \in Ids : InQueue(c)' => InQueue(c)
  BY DEF InQueue, Within
<1>3. QED  BY <1>1, <1>2 DEF NoDuplicates

\* The queues shrink when the one of r becomes q.
LEMMA QueueReplaced ==
    ASSUME TypeOK, NoDuplicates, NEW r \in Remote, NEW q,
           Within(q, queue[r]), Distinct(q), queue' = [queue EXCEPT ![r] = q]
    PROVE  \A s \in Remote : Within(queue'[s], queue[s]) /\ Distinct(queue'[s])
<1>1. \A s \in Remote : Within(queue[s], queue[s]) /\ Distinct(queue[s])
  BY DEF NoDuplicates, Within, Distinct
<1>2. \A s \in Remote : queue'[s] = IF s = r THEN q ELSE queue[s]
  BY DEF TypeOK
<1>3. QED  BY <1>1, <1>2

\* A thread that lets go of its connection, or has none, disturbs nobody.
LEMMA LetGo ==
    ASSUME PoolInv, NEW t \in Threads, NEW x, th' = [th EXCEPT ![t] = x],
           x.conn = NoConn, x.pc \notin {"send", "put"},
           \A u \in Threads : th[u].pc = "send" => ~conns'[th[u].conn].open,
           \A c \in Ids : InQueue(c)' => InQueue(c) \/ c = th[t].conn
    PROVE  \A u \in Threads : Alone(u)'
<1> SUFFICES ASSUME NEW u \in Threads, th'[u].pc \in {"send", "put"}
             PROVE  /\ \A v \in Threads \ {u} : th'[v].conn # th'[u].conn
                    /\ ~InQueue(th[u].conn)'
                    /\ th'[u] = th[u]
                    /\ th[u].pc = "send" => ~conns'[th[u].conn].open
  BY DEF Alone, InQueue
<1>1. th'[t] = x /\ \A v \in Threads \ {t} : th'[v] = th[v]
  BY DEF PoolInv, TypeOK
<1>2. u # t /\ th'[u] = th[u] /\ th[u].conn \in Ids
  BY <1>1 DEF PoolInv, TypeOK
<1>3. th[u].conn # NoConn
  BY <1>2, SetsAssumption
<1>4. /\ \A v \in Threads \ {u} : th[v].conn # th[u].conn
      /\ ~InQueue(th[u].conn)
  BY <1>1, <1>2 DEF PoolInv, OneUser
<1>5. QED  BY <1>1, <1>2, <1>3, <1>4

\* A thread that takes a connection nobody uses, or goes on with its own.
LEMMA Takes ==
    ASSUME PoolInv, NEW t \in Threads, NEW x, NEW c \in Ids,
           th' = [th EXCEPT ![t] = x], x.conn = c,
           \A u \in Threads \ {t} : th[u].conn # c,
           ~InQueue(c)', x.pc = "send" => ~conns'[c].open,
           \A d \in Ids : InQueue(d)' => InQueue(d),
           \A d \in Ids \ {c} : conns'[d].open = conns[d].open
    PROVE  \A u \in Threads : Alone(u)'
<1>1. th'[t] = x /\ \A v \in Threads \ {t} : th'[v] = th[v]
  BY DEF PoolInv, TypeOK
<1>2. Alone(t)'
  BY <1>1 DEF Alone, InQueue
<1>3. ASSUME NEW u \in Threads \ {t} PROVE Alone(u)'
  <2> SUFFICES ASSUME th'[u].pc \in {"send", "put"}
               PROVE  /\ \A v \in Threads \ {u} : th'[v].conn # th'[u].conn
                      /\ ~InQueue(th[u].conn)'
                      /\ th'[u] = th[u]
                      /\ th[u].pc = "send" => ~conns'[th[u].conn].open
    BY DEF Alone, InQueue
  <2>1. th'[u] = th[u] /\ th[u].conn \in Ids /\ th[u].conn # c
    BY <1>1 DEF PoolInv, TypeOK
  <2>2. /\ \A v \in Threads \ {u} : th[v].conn # th[u].conn
        /\ ~InQueue(th[u].conn)
        /\ th[u].pc = "send" => ~conns[th[u].conn].open
    BY <2>1 DEF PoolInv, OneUser
  <2>3. QED  BY <1>1, <2>1, <2>2
<1>4. QED  BY <1>2, <1>3

\* Every step leaves every connection to one user.
LEMMA OneUserStep ==
    ASSUME PoolInv, [Next]_vars
    PROVE  NoDuplicates' /\ \A t \in Threads : Alone(t)'
<1> DEFINE Goal == NoDuplicates' /\ \A t \in Threads : Alone(t)'
<1>0. TypeOK /\ Times /\ Holding /\ OneUser
  BY DEF PoolInv
<1>d. NoDuplicates /\ \A t \in Threads : Alone(t)
  BY <1>0 DEF OneUser, NoDuplicates, Alone
<1>s. \A u \in Threads : th[u].pc = "send" => th[u].conn \in Ids /\ ~conns[th[u].conn].open
  BY <1>0 DEF TypeOK, OneUser
<1>1. ASSUME UNCHANGED <<queue, th>>,
             \A u \in Threads : th[u].pc = "send" => ~conns'[th[u].conn].open
      PROVE  Goal
  BY <1>d, <1>1 DEF NoDuplicates, Alone, InQueue
<1>2. ASSUME UNCHANGED queue
      PROVE  NoDuplicates' /\ \A c \in Ids : InQueue(c)' <=> InQueue(c)
  BY <1>d, <1>2 DEF NoDuplicates, InQueue
<1>q. ASSUME NEW t \in Threads, NEW p, Within(p, queue[th[t].to]), Distinct(p),
             queue' = [queue EXCEPT ![th[t].to] = p]
      PROVE  NoDuplicates' /\ \A c \in Ids : InQueue(c)' => InQueue(c)
  BY <1>0, <1>d, <1>q, ThreadTyped, QueueReplaced, QueuesShrink
<1>3. ASSUME NEW t \in Threads,
             Request(t) \/ RequestRaises(t) \/ Redirect(t)
      PROVE  Goal
  <2>1. PICK x : th' = [th EXCEPT ![t] = x] /\ x.conn = NoConn /\ x.pc \notin {"send", "put"}
    <3>1. CASE Request(t)
      <4>1. PICK h \in Hosts : th' = [th EXCEPT ![t] = Start(<<h, IsSecure>>)]
        BY <3>1 DEF Request, Become
      <4>2. Start(<<h, IsSecure>>).conn = NoConn /\ Start(<<h, IsSecure>>).pc = "clean"
        BY DEF Start
      <4>3. QED  BY <4>1, <4>2
    <3>2. CASE RequestRaises(t)
      BY <3>2, <1>0, ThreadTyped DEF RequestRaises, Become
    <3>3. CASE Redirect(t)
      <4>1. PICK r \in Remote :
              th' = [th EXCEPT ![t] = [th[t] EXCEPT
                        !.pc = "clean", !.to = r, !.conn = NoConn, !.hops = th[t].hops + 1]]
        BY <3>3 DEF Redirect, Become
      <4> DEFINE x == [th[t] EXCEPT
                        !.pc = "clean", !.to = r, !.conn = NoConn, !.hops = th[t].hops + 1]
      <4>2. x.conn = NoConn /\ x.pc = "clean"
        BY <1>0, ThreadTyped DEF Thread
      <4>3. QED  BY <4>1, <4>2
    <3>4. QED  BY <1>3, <3>1, <3>2, <3>3
  <2>2. UNCHANGED <<queue, conns>>
    BY <1>3 DEF Request, RequestRaises, Redirect
  <2>3. QED  BY <2>1, <2>2, <1>2, <1>s, LetGo
<1>4. ASSUME NEW t \in Threads, CleanPools(t) PROVE Goal
  <2>1. \A r \in Remote : Within(queue'[r], queue[r]) /\ Distinct(queue'[r])
    <3>1. \A r \in Remote : /\ queue[r] \in Seq(Entry) /\ now \in Nat
                            /\ Within(queue[r], queue[r]) /\ Distinct(queue[r])
      BY <1>0, <1>d DEF TypeOK, NoDuplicates, Within, Distinct
    <3>2. \A r \in Remote : Within(Clean(queue[r]), queue[r]) /\ Distinct(Clean(queue[r]))
      BY <3>1, CleanEffect
    <3>3. queue' = queue \/ queue' = [r \in Remote |-> Clean(queue[r])]
      BY <1>4 DEF CleanPools
    <3>4. QED  BY <3>1, <3>2, <3>3
  <2>2. NoDuplicates' /\ \A c \in Ids : InQueue(c)' => InQueue(c)
    BY <1>d, <2>1, QueuesShrink
  <2>3. PICK x : th' = [th EXCEPT ![t] = x] /\ x.conn = NoConn /\ x.pc \notin {"send", "put"}
    <3>1. th[t].conn = NoConn /\ th[t] \in Thread
      BY <1>4, <1>0 DEF CleanPools, Holding, TypeOK
    <3>2. [th[t] EXCEPT !.pc = "get"].conn = NoConn /\ [th[t] EXCEPT !.pc = "get"].pc = "get"
      BY <3>1 DEF Thread
    <3>3. QED  BY <1>4, <3>2 DEF CleanPools, Become
  <2>4. UNCHANGED conns
    BY <1>4 DEF CleanPools
  <2>5. QED  BY <2>2, <2>3, <2>4, <1>s, LetGo
<1>5. ASSUME NEW t \in Threads, Reuse(t) PROVE Goal
  <2> DEFINE q == Clean(queue[th[t].to])
  <2>1. PICK i, x :
          /\ i \in ReadyIn(q)
          /\ queue' = [queue EXCEPT ![th[t].to] = Rest(q, i)]
          /\ th' = [th EXCEPT ![t] = x] /\ x.conn = q[i].conn
    <3>1. PICK i \in ReadyIn(q) :
            /\ queue' = [queue EXCEPT ![th[t].to] = Rest(q, i)]
            /\ th' = [th EXCEPT ![t] = [th[t] EXCEPT
                  !.pc = "send", !.conn = q[i].conn, !.age = now - q[i].time,
                  !.idle = now - conns[q[i].conn].used]]
      BY <1>5 DEF Reuse, Become
    <3> DEFINE x == [th[t] EXCEPT
                  !.pc = "send", !.conn = q[i].conn, !.age = now - q[i].time,
                  !.idle = now - conns[q[i].conn].used]
    <3>2. x.conn = q[i].conn
      BY <1>0 DEF TypeOK, Thread
    <3>3. QED  BY <3>1, <3>2
  <2>2. /\ q \in Seq(Entry) /\ now \in Nat /\ i \in 1..Len(q)
        /\ Within(q, queue[th[t].to]) /\ Distinct(q)
        /\ q[i].conn \in Ids /\ ~conns[q[i].conn].open
    BY <1>0, <2>1, TakenFrom, FirstReady DEF Ready, TypeOK
  <2>3. /\ Within(Rest(q, i), q) /\ Distinct(Rest(q, i))
        /\ \A k \in 1..Len(Rest(q, i)) : Rest(q, i)[k].conn # q[i].conn
    BY <2>2, RestEffect
  <2>4. PICK c \in Ids : c = q[i].conn
    BY <2>2
  <2>4a. InQueue(c)
    BY <2>2, <2>4, <1>0, ThreadTyped DEF InQueue, Within
  <2>5. PICK k \in 1..Len(queue[th[t].to]) : queue[th[t].to][k].conn = c
    BY <2>2, <2>4 DEF Within
  <2> HIDE DEF q
  <2>6. Within(Rest(q, i), queue[th[t].to])
    BY <2>2, <2>3 DEF Within
  <2>7. NoDuplicates' /\ \A d \in Ids : InQueue(d)' => InQueue(d)
    BY <1>q, <2>1, <2>3, <2>6
  <2>8. ~InQueue(c)'
    <3>1. \A r \in Remote :
            queue'[r] = IF r = th[t].to THEN Rest(q, i) ELSE queue[r]
      BY <2>1, <1>0 DEF TypeOK
    <3>2. ASSUME NEW r \in Remote, r # th[t].to, NEW j \in 1..Len(queue[r])
          PROVE  queue[r][j].conn # c
      <4>1. th[t].to \in Remote
        BY <1>0, ThreadTyped
      <4>2. QED  BY <3>2, <4>1, <2>5, <1>d DEF NoDuplicates
    <3>3. ASSUME NEW r \in Remote, NEW j \in 1..Len(queue'[r])
          PROVE  queue'[r][j].conn # c
      <4>1. CASE r = th[t].to
        BY <3>1, <4>1, <2>3, <2>4
      <4>2. CASE r # th[t].to
        BY <3>1, <3>2, <4>2
      <4>3. QED  BY <4>1, <4>2
    <3>4. QED  BY <3>3 DEF InQueue
  <2>9. \A u \in Threads \ {t} : th[u].conn # c
    <3> TAKE u \in Threads \ {t}
    <3>1. CASE th[u].pc \in {"send", "put"}
      BY <3>1, <2>4a, <1>d DEF Alone
    <3>2. CASE th[u].pc \notin {"send", "put"}
      BY <3>2, <2>2, <1>0, SetsAssumption DEF Holding
    <3>3. QED  BY <3>1, <3>2
  <2>10. UNCHANGED conns
    BY <1>5 DEF Reuse
  <2>11. \A u \in Threads : Alone(u)'
    <3>1. ~conns'[c].open /\ \A d \in Ids : conns'[d].open = conns[d].open
      BY <2>2, <2>4, <2>10
    <3>2. ~InQueue(c)' /\ x.conn = c /\ \A u \in Threads \ {t} : th[u].conn # c
      BY <2>1, <2>4, <2>8, <2>9
    <3>3. QED  BY <2>1, <2>7, <3>1, <3>2, Takes
  <2>12. QED  BY <2>7, <2>11
<1>6. ASSUME NEW t \in Threads, GetNew(t) \/ ConnectionFails(t) PROVE Goal
  <2>1. NoDuplicates' /\ \A c \in Ids : InQueue(c)' => InQueue(c)
    <3>1. CASE GetNew(t)
      <4> DEFINE q == Clean(queue[th[t].to])
                 p == Requeued(q, Len(q))
      <4>1. queue' = [queue EXCEPT ![th[t].to] = p]
        BY <3>1 DEF GetNew
      <4>2. /\ q \in Seq(Entry) /\ Len(q) \in 0..Len(q) /\ now \in Nat
            /\ Within(q, queue[th[t].to]) /\ Distinct(q)
        BY <1>0, TakenFrom DEF TypeOK
      <4> HIDE DEF q
      <4>3. Len(p) = Len(q) /\ \A i \in 1..Len(p) : p[i].conn = q[i].conn
        BY <4>2, RequeuedEffect
      <4> HIDE DEF p
      <4>4. Within(p, queue[th[t].to]) /\ Distinct(p)
        BY <4>2, <4>3 DEF Within, Distinct
      <4>5. QED  BY <4>1, <4>4, <1>q
    <3>2. CASE ConnectionFails(t)
      BY <3>2, <1>2 DEF ConnectionFails
    <3>3. QED  BY <1>6, <3>1, <3>2
  <2>2. PICK c, x :
          /\ c \in Unused(t)
          /\ conns'[c].open = FALSE /\ \A d \in Ids \ {c} : conns'[d] = conns[d]
          /\ th' = [th EXCEPT ![t] = x] /\ x.conn = c
    <3>1. PICK c, x, k :
            /\ c \in Unused(t)
            /\ k.open = FALSE /\ conns' = [conns EXCEPT ![c] = k]
            /\ th' = [th EXCEPT ![t] = x] /\ x.conn = c
      <4>1. CASE GetNew(t)
        <5>1. PICK c \in Unused(t) :
                /\ conns' = [conns EXCEPT ![c] = [remote |-> th[t].to, open |-> FALSE, used |-> now]]
                /\ th' = [th EXCEPT ![t] = [th[t] EXCEPT
                              !.pc = "send", !.conn = c, !.age = 0, !.idle = 0]]
          BY <4>1 DEF GetNew, New
        <5> DEFINE x == [th[t] EXCEPT !.pc = "send", !.conn = c, !.age = 0, !.idle = 0]
                   k == [remote |-> th[t].to, open |-> FALSE, used |-> now]
        <5>2. x.conn = c /\ k.open = FALSE
          BY <1>0, ThreadTyped DEF Thread
        <5>3. QED  BY <5>1, <5>2
      <4>2. CASE ConnectionFails(t)
        <5> DEFINE k == [remote |-> <<th[t].to[1], IsSecure>>, open |-> FALSE, used |-> now]
        <5>1. PICK c \in Unused(t) :
                /\ conns' = [conns EXCEPT ![c] = k]
                /\ th' = [th EXCEPT ![t] = [th[t] EXCEPT
                              !.conn = c, !.tries = th[t].tries + 1, !.age = 0, !.idle = 0]]
          BY <4>2 DEF ConnectionFails, Become
        <5> DEFINE x == [th[t] EXCEPT
                              !.conn = c, !.tries = th[t].tries + 1, !.age = 0, !.idle = 0]
        <5>2. x.conn = c /\ k.open = FALSE
          BY <1>0, ThreadTyped DEF Thread
        <5>3. QED  BY <5>1, <5>2
      <4>3. QED  BY <1>6, <4>1, <4>2
    <3>2. c \in Ids
      BY <3>1 DEF Unused
    <3>3. conns'[c] = k /\ \A d \in Ids \ {c} : conns'[d] = conns[d]
      BY <3>1, <3>2, <1>0 DEF TypeOK
    <3>4. QED  BY <3>1, <3>3
  <2>3. c \in Ids /\ ~InQueue(c) /\ \A u \in Threads \ {t} : th[u].conn # c
    BY <2>2 DEF Unused
  <2>4. QED  BY <2>1, <2>2, <2>3, Takes
<1>7. ASSUME NEW t \in Threads, Respond(t) PROVE Goal
  <2>1. PICK x, k : /\ conns' = [conns EXCEPT ![th[t].conn] = k]
                    /\ th' = [th EXCEPT ![t] = x] /\ x.conn = th[t].conn /\ x.pc = "put"
    <3> DEFINE x == [th[t] EXCEPT !.pc = "put"]
               k == [conns[th[t].conn] EXCEPT !.open = TRUE, !.used = now]
    <3>1. conns' = [conns EXCEPT ![th[t].conn] = k] /\ th' = [th EXCEPT ![t] = x]
      BY <1>7 DEF Respond, Become
    <3>2. x.conn = th[t].conn /\ x.pc = "put"
      BY <1>0, ThreadTyped DEF Thread
    <3>3. QED  BY <3>1, <3>2
  <2>2. /\ UNCHANGED queue /\ th[t].conn \in Ids /\ ~InQueue(th[t].conn)
        /\ \A u \in Threads \ {t} : th[u].conn # th[t].conn
    BY <1>7, <1>0, <1>d DEF Respond, Answered, TypeOK, Alone
  <2>3. \A d \in Ids \ {th[t].conn} : conns'[d] = conns[d]
    BY <2>1, <2>2, <1>0 DEF TypeOK
  <2>4. QED  BY <2>1, <2>2, <2>3, <1>2, Takes
<1>8. ASSUME NEW t \in Threads, ServerFails(t) PROVE Goal
  <2>1. /\ UNCHANGED queue /\ th[t].conn \in Ids /\ ~InQueue(th[t].conn)
        /\ \A u \in Threads \ {t} : th[u].conn # th[t].conn
    BY <1>8, <1>0, <1>d DEF ServerFails, Answered, TypeOK, Alone
  <2>2. \A d \in Ids : conns'[d].open = conns[d].open
    BY <1>8, <1>0, <2>1 DEF ServerFails, TypeOK, Connection
  <2>3. PICK x : /\ th' = [th EXCEPT ![t] = x]
                 /\ \/ x.conn = th[t].conn
                    \/ x.conn = NoConn /\ x.pc \notin {"send", "put"}
    <3> DEFINE y == [th[t] EXCEPT !.tries = th[t].tries + 1, !.idle = 0]
    <3>1. th' = [th EXCEPT ![t] = y] \/ th' = [th EXCEPT ![t] = Resting]
      BY <1>8 DEF ServerFails, Become
    <3>2. y.conn = th[t].conn /\ Resting.conn = NoConn /\ Resting.pc = "idle"
      BY <1>0, ThreadTyped DEF Thread
    <3>3. QED  BY <3>1, <3>2
  <2>4. ~conns'[th[t].conn].open
    BY <1>8, <1>s, <2>1, <2>2 DEF ServerFails, Answered
  <2>5. CASE x.conn = th[t].conn
    BY <2>1, <2>2, <2>3, <2>4, <2>5, <1>2, Takes
  <2>6. CASE x.conn = NoConn /\ x.pc \notin {"send", "put"}
    BY <2>1, <2>2, <2>3, <2>6, <1>2, <1>s, LetGo
  <2>7. QED  BY <2>3, <2>5, <2>6
<1>9. ASSUME NEW t \in Threads, Put(t) PROVE Goal
  <2> DEFINE c == th[t].conn
             r == <<th[t].to[1], IsSecure>>
             e == [conn |-> c, time |-> now]
  <2>1. /\ queue' = [queue EXCEPT ![r] = Append(queue[r], e)]
        /\ th' = [th EXCEPT ![t] = Resting] /\ UNCHANGED conns
    BY <1>9 DEF Put, Become
  <2>2. /\ r \in Remote /\ e \in Entry /\ c \in Ids /\ ~InQueue(c)
        /\ queue[r] \in Seq(Entry)
        /\ Resting.conn = NoConn /\ Resting.pc = "idle"
    BY <1>9, <1>0, <1>d, ThreadTyped DEF Put, Alone, TypeOK, Entry
  <2>2a. e.conn = c
    OBVIOUS
  <2> HIDE DEF c, r, e
  <2>3. /\ Len(queue'[r]) = Len(queue[r]) + 1 /\ Len(queue[r]) \in Nat
        /\ \A i \in 1..Len(queue[r]) : queue'[r][i].conn = queue[r][i].conn
        /\ queue'[r][Len(queue[r]) + 1].conn = c
        /\ \A s \in Remote \ {r} : queue'[s] = queue[s]
    BY <2>1, <2>2, <2>2a, <1>0, AppendProperties, QueueTyped DEF TypeOK
  <2>4. ASSUME NEW s \in Remote, NEW i \in 1..Len(queue'[s])
        PROVE  \/ i \in 1..Len(queue[s]) /\ queue'[s][i].conn = queue[s][i].conn
               \/ s = r /\ i = Len(queue[r]) + 1 /\ queue'[s][i].conn = c
    <3>1. CASE s = r /\ i = Len(queue[r]) + 1
      BY <3>1, <2>3
    <3>2. CASE s = r /\ i # Len(queue[r]) + 1
      <4>1. i \in 1..Len(queue[r])
        BY <3>2, <2>3
      <4>2. QED  BY <4>1, <3>2, <2>3
    <3>3. CASE s # r
      BY <3>3, <2>3
    <3>4. QED  BY <3>1, <3>2, <3>3
  <2>5. \A d \in Ids : InQueue(d)' => InQueue(d) \/ d = th[t].conn
    BY <2>4 DEF InQueue, c
  <2>6. ASSUME NEW s \in Remote, NEW i \in 1..Len(queue[s]) PROVE queue[s][i].conn # c
    BY <2>2 DEF InQueue
  <2>7. NoDuplicates'
    <3> SUFFICES ASSUME NEW s \in Remote, NEW u \in Remote,
                        NEW i \in 1..Len(queue'[s]), NEW j \in 1..Len(queue'[u]),
                        queue'[s][i].conn = queue'[u][j].conn
                 PROVE  s = u /\ i = j
      BY DEF NoDuplicates
    <3>1. CASE queue'[s][i].conn = c
      BY <3>1, <2>4, <2>6
    <3>2. CASE queue'[s][i].conn # c
      BY <3>2, <2>4, <1>d DEF NoDuplicates
    <3>3. QED  BY <3>1, <3>2
  <2>8. \A u \in Threads : Alone(u)'
    BY <2>1, <2>2, <2>5, <1>s, LetGo
  <2>9. QED  BY <2>7, <2>8
<1>10. ASSUME NEW c \in Ids, ReadResponse(c) PROVE Goal
  <2>1. \A d \in Ids : conns'[d].open => conns[d].open
    BY <1>10, <1>0 DEF ReadResponse, TypeOK, Connection
  <2>2. UNCHANGED <<queue, th>>
    BY <1>10 DEF ReadResponse
  <2> HIDE DEF Goal
  <2>3. QED  BY <2>1, <2>2, <1>1, <1>s
<1>11. Goal
  <2> HIDE DEF Goal
  <2>1. CASE Tick \/ UNCHANGED vars
    BY <2>1, <1>1, <1>s DEF Tick, vars
  <2>2. CASE Next
    BY <2>1, <2>2, <1>3, <1>4, <1>5, <1>6, <1>7, <1>8, <1>9, <1>10 DEF Next, Step
  <2>3. QED  BY <2>1, <2>2
<1>12. QED  BY <1>11 DEF Goal

-----------------------------------------------------------------------------
(* The theorems.                                                           *)

\* The invariant holds when the pools are empty.
LEMMA PoolInvInit == Init => PoolInv
<1> SUFFICES ASSUME Init PROVE PoolInv
  OBVIOUS
<1>1. SomeHost \in Hosts
  BY SetsAssumption DEF SomeHost
<1>2. Start(<<SomeHost, IsSecure>>) \in Thread
  BY <1>1, SetsAssumption DEF Start, Thread, Remote
<1>3. Resting \in Thread /\ Resting.pc = "idle" /\ Resting.conn = NoConn /\ Resting.age = 0
  BY <1>2 DEF Resting, Thread, Start
<1>4. /\ \A r \in Remote : queue[r] = <<>> /\ queue[r] \in Seq(Entry) /\ Len(queue[r]) = 0
      /\ \A t \in Threads : th[t] = Resting
      /\ now = 0 /\ requests = 0
  BY DEF Init
<1>5. TypeOK
  <2>1. queue \in [Remote -> Seq(Entry)]
    BY <1>4 DEF Init
  <2>2. conns \in [Ids -> Connection]
    BY <1>1, SetsAssumption DEF Init, Connection, Remote
  <2>3. th \in [Threads -> Thread]
    BY <1>3 DEF Init
  <2>4. cleaned \in Int /\ now \in Nat /\ requests \in Nat
    BY <1>4, TimesAssumption DEF Init
  <2>5. \A t \in Threads : th[t].pc \notin {"send", "put"}
    BY <1>3, <1>4
  <2>6. QED  BY <2>1, <2>2, <2>3, <2>4, <2>5 DEF TypeOK
<1>6. Times
  <2>1. \A c \in Ids : conns[c].used = 0
    BY DEF Init
  <2>2. QED  BY <2>1, <1>4 DEF Times, Ordered
<1>7. Holding /\ NeverStale
  BY <1>3, <1>4, TimesAssumption DEF Holding, NeverStale
<1>8. OneUser
  <2>1. \A t \in Threads : th[t].pc \notin {"send", "put"}
    BY <1>3, <1>4
  <2>2. \A r \in Remote : 1..Len(queue[r]) = {}
    BY <1>4
  <2>3. QED  BY <2>1, <2>2 DEF OneUser
<1>9. QED  BY <1>5, <1>6, <1>7, <1>8 DEF PoolInv

\* The invariant is inductive.
LEMMA PoolInvStep == PoolInv /\ [Next]_vars => PoolInv'
<1> SUFFICES ASSUME PoolInv, [Next]_vars PROVE PoolInv'
  OBVIOUS
<1>0. TypeOK /\ Times /\ Holding /\ OneUser /\ NeverStale
  BY DEF PoolInv
<1>1. /\ queue' \in [Remote -> Seq(Entry)]
      /\ \A r \in Remote : Ordered(queue'[r], now')
  BY <1>0, QueuesStep
<1>2. conns' \in [Ids -> Connection] /\ \A c \in Ids : conns'[c].used <= now'
  BY <1>0, ConnsStep
<1>3. th' \in [Threads -> Thread] /\ \A t \in Threads : ThreadOK(th'[t])
  BY ThreadsStep
<1>4a. now \in Nat /\ cleaned \in Int /\ requests \in Nat /\ now \in Int
       /\ now + 1 \in Nat /\ requests + 1 \in Nat
  BY <1>0 DEF TypeOK
<1>4. now' \in Nat /\ cleaned' \in Int /\ requests' \in Nat
  BY <1>4a DEF Next, Step, vars, Tick, Request, CleanPools, Reuse, GetNew,
              Respond, Put, ServerFails, ConnectionFails, RequestRaises, Redirect,
              ReadResponse
<1>5. TypeOK'
  BY <1>1, <1>2, <1>3, <1>4 DEF TypeOK, ThreadOK
<1>6. Times' /\ Holding' /\ NeverStale'
  BY <1>1, <1>2, <1>3 DEF Times, Holding, NeverStale, ThreadOK
<1>7. OneUser'
  BY OneUserStep DEF OneUser, NoDuplicates, Alone
<1>8. QED  BY <1>5, <1>6, <1>7 DEF PoolInv

\* The inductive invariant holds of every run.
THEOREM PoolCorrect == Spec => []PoolInv
BY PoolInvInit, PoolInvStep, PTL DEF Spec

\* The pools, the connections and the threads are well typed, and a thread
\* that sends or puts back has a connection.
THEOREM TypeCorrect == Spec => []TypeOK
<1>1. PoolInv => TypeOK
  BY DEF PoolInv
<1>2. QED  BY <1>1, PoolCorrect, PTL

\* No connection is used by two threads, or taken while its response is unread.
THEOREM OneUserAlways == Spec => []OneUser
<1>1. PoolInv => OneUser
  BY DEF PoolInv
<1>2. QED  BY <1>1, PoolCorrect, PTL

\* No connection is taken that has been in the queue for too long.
THEOREM NeverStaleAlways == Spec => []NeverStale
<1>1. PoolInv => NeverStale
  BY DEF PoolInv
<1>2. QED  BY <1>1, PoolCorrect, PTL
=============================================================================
