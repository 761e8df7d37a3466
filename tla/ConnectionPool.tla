--------------------------- MODULE ConnectionPool ---------------------------
(***************************************************************************)
(* HTTP connections: ConnectionPool, HostConnectionPool and _mexe of       *)
(* src/boto/connection.py.                                                 *)
(*                                                                         *)
(* The threads of a process share a connection object.  A request takes a  *)
(* connection from the pool of its host, or a new one, retries on errors,  *)
(* follows redirects, and returns the connection as soon as the headers of *)
(* the response are read: the caller may read the body much later, or      *)
(* never, and until then the connection is not ready for another request.  *)
(* Connections that are not used are discarded before the server would     *)
(* close them.  A pool that is empty stands for one that was removed.      *)
(***************************************************************************)
EXTENDS Integers, Sequences

CONSTANTS
    Threads, Hosts,
    Ids,             \* names of connections, reused when one is dropped
    IsSecure,        \* is_secure of the connection object
    NumRetries,      \* num_retries
    CleanInterval,   \* CLEAN_INTERVAL
    StaleDuration,   \* STALE_DURATION
    IdleTimeout,     \* after how long the server closes an idle connection
    NoConn,
    MaxTime,         \* bound: the clock
    MaxRequests,     \* bound: requests
    MaxRedirects     \* bound: redirects of a request

VARIABLES
    now,
    queue,           \* the queue of (connection, time) pairs of each pool
    cleaned,         \* last_clean_time
    conns,           \* the connections
    th,              \* what each thread is doing
    requests

vars == <<now, queue, cleaned, conns, th, requests>>

ASSUME SetsAssumption ==
    /\ Ids \subseteq Nat /\ NoConn \notin Nat
    /\ IsSecure \in BOOLEAN /\ Hosts # {}
ASSUME TimesAssumption ==
    /\ CleanInterval \in Nat /\ StaleDuration \in Nat /\ IdleTimeout \in Nat
    /\ StaleDuration < IdleTimeout
ASSUME BoundsAssumption ==
    NumRetries \in Nat /\ {MaxTime, MaxRequests, MaxRedirects} \subseteq Nat

\* A remote (host, is_secure).
Remote == Hosts \X BOOLEAN
Entry == [conn: Ids, time: Nat]

\* open: a response is attached that has not been read to its end; used: the
\* server's clock when it last sent or received something.
Connection == [remote: Remote, open: BOOLEAN, used: Nat]

\* to is request.host with the scheme asked for; age and idle are history: how
\* long a connection taken from the pool was in the queue, and unused.
Thread == [pc: {"idle", "clean", "get", "send", "put"}, to: Remote,
           conn: Ids \union {NoConn}, tries: Nat, hops: Nat, age: Nat, idle: Nat]

Start(remote) == [pc |-> "clean", to |-> remote, conn |-> NoConn, tries |-> 0,
                  hops |-> 0, age |-> 0, idle |-> 0]
SomeHost == CHOOSE h \in Hosts : TRUE
Resting == [Start(<<SomeHost, IsSecure>>) EXCEPT !.pc = "idle"]

Init ==
    /\ now = 0
    /\ queue = [r \in Remote |-> <<>>]
    /\ cleaned = -CleanInterval - 1
    /\ conns = [c \in Ids |-> [remote |-> <<SomeHost, IsSecure>>,
                               open |-> FALSE, used |-> 0]]
    /\ th = [t \in Threads |-> Resting]
    /\ requests = 0

Become(t, r) == th' = [th EXCEPT ![t] = r]

\* The clock, and the network's delays.
Tick ==
    /\ now < MaxTime
    /\ now' = now + 1
    /\ UNCHANGED <<queue, cleaned, conns, th, requests>>

-----------------------------------------------------------------------------
(* The pools.                                                              *)

Stale(entry) == entry.time + StaleDuration < now

\* Faulty: one stale connection is discarded, not all.
CleanOne(q) == IF q # <<>> /\ Stale(Head(q)) THEN Tail(q) ELSE q

\* HostConnectionPool.clean: discard stale connections from the front.
Clean(q) ==
    LET fresh == {i \in 1..Len(q) : ~Stale(q[i])}
    IN  IF fresh = {} THEN <<>>
        ELSE SubSeq(q, CHOOSE i \in fresh : \A j \in fresh : i <= j, Len(q))

\* Faulty: any connection will do.
AnyReady(c) == TRUE
\* _conn_ready: no response is attached that has not been read.
Ready(c) == ~conns[c].open

\* HostConnectionPool.get turns the queue until a connection is ready: the
\* ones before it go to the end as if they were put now.
Requeued(q, n) == [i \in 1..n |-> [conn |-> q[i].conn, time |-> now]]
ReadyIn(q) == {i \in 1..Len(q) : Ready(q[i].conn)}
Rest(q, i) == SubSeq(q, i + 1, Len(q)) \o Requeued(q, i - 1)

InQueue(c) == \E r \in Remote : \E i \in 1..Len(queue[r]) : queue[r][i].conn = c

\* Connections nobody uses: the first of them names the next new one.
Unused(t) == {c \in Ids : ~InQueue(c) /\ \A u \in Threads \ {t} : th[u].conn # c}

\* new_http_connection
New(t, remote) ==
    \E c \in Unused(t) :
        /\ \A d \in Unused(t) : c <= d
        /\ conns' = [conns EXCEPT ![c] =
                        [remote |-> remote, open |-> FALSE, used |-> now]]
        /\ th' = [th EXCEPT ![t] = [th[t] EXCEPT
                        !.pc = "send", !.conn = c, !.age = 0, !.idle = 0]]

\* ConnectionPool.clean, at most every CleanInterval.
CleanPools(t) ==
    /\ th[t].pc = "clean"
    /\ IF cleaned + CleanInterval < now
       THEN /\ queue' = [r \in Remote |-> Clean(queue[r])]
            /\ cleaned' = now
       ELSE UNCHANGED <<queue, cleaned>>
    /\ Become(t, [th[t] EXCEPT !.pc = "get"])
    /\ UNCHANGED <<now, conns, requests>>

\* get_http_connection: a ready connection of the pool, or a new one.
Reuse(t) ==
    /\ th[t].pc = "get"
    /\ LET q == Clean(queue[th[t].to]) IN
        \E i \in ReadyIn(q) :
            /\ \A j \in ReadyIn(q) : i <= j
            /\ queue' = [queue EXCEPT ![th[t].to] = Rest(q, i)]
            /\ Become(t, [th[t] EXCEPT
                  !.pc = "send", !.conn = q[i].conn, !.age = now - q[i].time,
                  !.idle = now - conns[q[i].conn].used])
    /\ UNCHANGED <<now, cleaned, conns, requests>>

GetNew(t) ==
    /\ th[t].pc = "get"
    /\ LET q == Clean(queue[th[t].to]) IN
        /\ ReadyIn(q) = {}
        /\ queue' = [queue EXCEPT ![th[t].to] = Requeued(q, Len(q))]
    /\ New(t, th[t].to)
    /\ UNCHANGED <<now, cleaned, requests>>

-----------------------------------------------------------------------------
(* _mexe.                                                                  *)

Request(t) ==
    /\ th[t].pc = "idle"
    /\ requests < MaxRequests
    /\ requests' = requests + 1
    /\ \E h \in Hosts : Become(t, Start(<<h, IsSecure>>))
    /\ UNCHANGED <<now, queue, cleaned, conns>>

\* The server answers unless it has closed the connection, long unused.
Answered(t) == th[t].pc = "send" /\ th[t].idle <= IdleTimeout

\* The headers of a response, which is open until the caller has read it.
Respond(t) ==
    /\ Answered(t)
    /\ conns' = [conns EXCEPT ![th[t].conn] =
                    [conns[th[t].conn] EXCEPT !.open = TRUE, !.used = now]]
    /\ Become(t, [th[t] EXCEPT !.pc = "put"])
    /\ UNCHANGED <<now, queue, cleaned, requests>>

\* The connection is put back under the is_secure of the connection object.
Put(t) ==
    /\ th[t].pc = "put"
    /\ LET r == <<th[t].to[1], IsSecure>> IN
        queue' = [queue EXCEPT ![r] = Append(queue[r], [conn |-> th[t].conn, time |-> now])]
    /\ Become(t, Resting)
    /\ UNCHANGED <<now, cleaned, conns, requests>>

\* Status 500 or 503: the body is read and the request sent again on the same
\* connection, which is dropped when the retries are used up.
ServerFails(t) ==
    /\ Answered(t)
    /\ conns' = [conns EXCEPT ![th[t].conn] = [conns[th[t].conn] EXCEPT !.used = now]]
    /\ Become(t, IF th[t].tries < NumRetries
                 THEN [th[t] EXCEPT !.tries = th[t].tries + 1, !.idle = 0]
                 ELSE Resting)
    /\ UNCHANGED <<now, queue, cleaned, requests>>

\* An exception of http_exceptions: a new connection, also after a redirect of
\* the security of the connection object.
ConnectionFails(t) ==
    /\ th[t].pc = "send" /\ th[t].tries < NumRetries
    /\ \E c \in Unused(t) :
        /\ \A d \in Unused(t) : c <= d
        /\ conns' = [conns EXCEPT ![c] = [remote |-> <<th[t].to[1], IsSecure>>,
                                           open |-> FALSE, used |-> now]]
        /\ Become(t, [th[t] EXCEPT !.conn = c, !.tries = th[t].tries + 1,
                                   !.age = 0, !.idle = 0])
    /\ UNCHANGED <<now, queue, cleaned, requests>>

\* An exception when the retries are used up, or one that is not retryable.
RequestRaises(t) ==
    /\ th[t].pc = "send"
    /\ Become(t, Resting)
    /\ UNCHANGED <<now, queue, cleaned, conns, requests>>

\* Faulty: the request is sent without waiting for the new connection.
RedirectAtOnce(t) ==
    /\ Answered(t) /\ th[t].hops < MaxRedirects
    /\ \E r \in Remote :
          Become(t, [th[t] EXCEPT !.to = r, !.conn = NoConn, !.hops = th[t].hops + 1])
    /\ UNCHANGED <<now, queue, cleaned, conns, requests>>

\* A redirect: the connection is dropped and the loop goes on, uncounted, with
\* one for the new host and scheme.
Redirect(t) ==
    /\ Answered(t) /\ th[t].hops < MaxRedirects
    /\ \E r \in Remote :
          Become(t, [th[t] EXCEPT !.pc = "clean", !.to = r, !.conn = NoConn,
                                  !.hops = th[t].hops + 1])
    /\ UNCHANGED <<now, queue, cleaned, conns, requests>>

\* A caller has read a response to its end.  The server was done with it when
\* it sent the headers; a body that takes longer makes the connection younger.
ReadResponse(c) ==
    /\ conns[c].open /\ InQueue(c)
    /\ conns' = [conns EXCEPT ![c] = [conns[c] EXCEPT !.open = FALSE]]
    /\ UNCHANGED <<now, queue, cleaned, th, requests>>

Step(t) ==
    \/ CleanPools(t) \/ Reuse(t) \/ GetNew(t) \/ Respond(t) \/ Put(t)
    \/ ServerFails(t) \/ ConnectionFails(t) \/ RequestRaises(t) \/ Redirect(t)

Next ==
    \/ Tick
    \/ \E t \in Threads : Request(t) \/ Step(t)
    \/ \E c \in Ids : ReadResponse(c)

Spec == Init /\ [][Next]_vars

-----------------------------------------------------------------------------
(* Properties.                                                             *)

\* Every variable has its type, and a thread that uses a connection has one.
TypeOK ==
    /\ now \in Nat /\ cleaned \in Int /\ requests \in Nat
    /\ queue \in [Remote -> Seq(Entry)]
    /\ conns \in [Ids -> Connection]
    /\ th \in [Threads -> Thread]
    /\ \A t \in Threads : th[t].pc \in {"send", "put"} => th[t].conn \in Ids

\* "This class is thread-safe": no two threads use a connection, none that a
\* thread uses can be taken from a pool, none is in the pools twice, and a
\* request is only sent when the response to the one before has been read.
OneUser ==
    /\ \A t \in Threads : th[t].pc \in {"send", "put"} =>
          /\ \A u \in Threads \ {t} : th[u].conn # th[t].conn
          /\ ~InQueue(th[t].conn)
          /\ th[t].pc = "send" => ~conns[th[t].conn].open
    /\ \A r, s \in Remote : \A i \in 1..Len(queue[r]), j \in 1..Len(queue[s]) :
          queue[r][i].conn = queue[s][j].conn => r = s /\ i = j

\* STALE_DURATION: no connection is taken from the pool that has been there,
\* without a reader, for longer, whatever is queued before it.
NeverStale == \A t \in Threads : th[t].age <= StaleDuration
=============================================================================
