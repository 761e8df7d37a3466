----------------------------- MODULE TokenCache -----------------------------
(***************************************************************************)
(* The OAuth2 access token cache: src/oauth2_plugin/oauth2_client.py.      *)
(*                                                                         *)
(* The threads of several gsutil processes need the access token of one    *)
(* refresh token.  GetAccessToken runs under token_exchange_lock, which    *)
(* the threads of one process share and different processes do not.  The   *)
(* cache is a dictionary of the process (InMemoryTokenCache) or a file     *)
(* that all processes share (FileSystemTokenCache), which PutToken         *)
(* replaces by unlinking the old file, creating a new one exclusively and  *)
(* writing it, three system calls between which anything may happen.       *)
(***************************************************************************)
EXTENDS Integers, FiniteSets, Sequences

CONSTANTS
    Processes, Threads,
    ProcOf,      \* the process of each thread
    CacheKind,   \* "memory" or "file": the cache each process is configured with
    Lifetimes,   \* values of expires_in
    Margin,      \* time_delta of ShouldRefresh
    NoToken,     \* None, and the content of a file not written yet
    Free,        \* holder of a lock nobody holds
    MaxTime,     \* bound: the clock
    MaxCalls,    \* bound: calls of the client's operations
    MaxFaults    \* bound: failing system calls and killed processes

VARIABLES
    now,         \* the clock, shared by the client and the server
    lock,        \* holder of the token_exchange_lock of each process
    th,          \* what each thread is doing
    mem,         \* the InMemoryTokenCache of each process
    entry,       \* inode the cache file's name is linked to, 0 if none
    data,        \* content of each inode
    calls, faults,
    clean        \* history: a file was created, with no fault since then

vars == <<now, lock, th, mem, entry, data, calls, faults, clean>>

ASSUME ThreadsAssumption ==
    /\ ProcOf \in [Threads -> Processes]
    /\ Free \notin Threads
    /\ CacheKind \in [Processes -> {"memory", "file"}]
ASSUME TimesAssumption ==
    /\ Lifetimes \subseteq Nat /\ Margin \in Nat
    /\ {MaxTime, MaxCalls, MaxFaults} \subseteq Nat

Never == -1      \* no expires_in in the response: the token has no expiry

\* sent is history: the server's clock when it issued the token.
Token == [life: Lifetimes \union {Never}, sent: Nat, expiry: Nat \union {Never}]
ASSUME NoTokenAssumption == NoToken \notin Token

Fetching == {"fetch", "wait"}
Putting == {"put", "unlink", "create", "write"}
Steps == {"idle", "lock", "get", "read", "check", "release"}
            \union Fetching \union Putting

\* tok is the local access_token, fd the open file; cached and at are
\* history: whether and when the token was taken from the cache.
Thread == [pc: Steps, op: {"get", "exchange"}, tok: Token \union {NoToken},
           fd: Nat, cached: BOOLEAN, at: Nat]

At(pc, op) == [pc |-> pc, op |-> op, tok |-> NoToken, fd |-> 0,
               cached |-> FALSE, at |-> 0]
Resting == At("idle", "get")

\* What earlier processes left in the file: a token whose response was as
\* late as the margin allows, or nothing, if one was killed before it wrote.
Leftover == {NoToken} \union
    {[life |-> life, sent |-> 0, expiry |-> Margin + life] : life \in Lifetimes}

Init ==
    /\ now = Margin
    /\ lock = [p \in Processes |-> Free]
    /\ th = [t \in Threads |-> Resting]
    /\ mem = [p \in Processes |-> NoToken]
    /\ \/ entry = 0 /\ data = <<>>
       \/ entry = 1 /\ data \in {<<c>> : c \in Leftover}
    /\ calls = 0
    /\ faults = 0
    /\ clean = FALSE

\* Thread t goes on as r.
Become(t, r) == th' = [th EXCEPT ![t] = r]
Goto(t, pc) == Become(t, [th[t] EXCEPT !.pc = pc])

\* A system call or a request fails: at most MaxFaults times.
Fault ==
    /\ faults < MaxFaults
    /\ faults' = faults + 1
    /\ clean' = FALSE
NoFault == UNCHANGED <<faults, clean>>

Tick ==
    /\ now < MaxTime
    /\ now' = now + 1
    /\ UNCHANGED <<lock, th, mem, entry, data, calls, faults, clean>>

-----------------------------------------------------------------------------
(* GetAccessToken.                                                         *)

\* The approval flow of 'gsutil config' runs alone in its process.
Exchanging(p) ==
    \E t \in Threads : ProcOf[t] = p /\ th[t].op = "exchange" /\ th[t].pc # "idle"

CallGetAccessToken(t) ==
    /\ th[t].pc = "idle"
    /\ ~Exchanging(ProcOf[t])
    /\ calls < MaxCalls
    /\ calls' = calls + 1
    /\ Become(t, At("lock", "get"))
    /\ UNCHANGED <<now, lock, mem, entry, data, faults, clean>>

\* Faulty: the lock is taken whoever holds it.
AcquireHeld(t) ==
    /\ th[t].pc = "lock"
    /\ lock' = [lock EXCEPT ![ProcOf[t]] = t]
    /\ Goto(t, "get")
    /\ UNCHANGED <<now, mem, entry, data, calls, faults, clean>>

Acquire(t) ==
    /\ th[t].pc = "lock"
    /\ lock[ProcOf[t]] = Free
    /\ lock' = [lock EXCEPT ![ProcOf[t]] = t]
    /\ Goto(t, "get")
    /\ UNCHANGED <<now, mem, entry, data, calls, faults, clean>>

\* InMemoryTokenCache.GetToken
GetFromMemory(t) ==
    /\ th[t].pc = "get"
    /\ CacheKind[ProcOf[t]] = "memory"
    /\ Become(t, [th[t] EXCEPT !.tok = mem[ProcOf[t]], !.pc = "check"])
    /\ UNCHANGED <<now, lock, mem, entry, data, calls, faults, clean>>

\* FileSystemTokenCache.GetToken: open, then read and UnSerialize.  A file
\* that is missing, unreadable or empty (KeyError) yields None.
OpenToRead(t) ==
    /\ th[t].pc = "get"
    /\ CacheKind[ProcOf[t]] = "file"
    /\ Become(t, [th[t] EXCEPT
          !.fd = entry, !.pc = IF entry = 0 THEN "check" ELSE "read"])
    /\ UNCHANGED <<now, lock, mem, entry, data, calls, faults, clean>>

ReadToken(t) ==
    /\ th[t].pc = "read"
    /\ Become(t, [th[t] EXCEPT !.tok = data[th[t].fd], !.pc = "check"])
    /\ UNCHANGED <<now, lock, mem, entry, data, calls, faults, clean>>

ReadFails(t) ==
    /\ \/ th[t].pc = "get" /\ CacheKind[ProcOf[t]] = "file"
       \/ th[t].pc = "read"
    /\ Goto(t, "check")
    /\ Fault
    /\ UNCHANGED <<now, lock, mem, entry, data, calls>>

\* Faulty: a token is used until it expires.
ShouldRefreshLate(token) == token.expiry # Never /\ now > token.expiry
ShouldRefresh(token) == token.expiry # Never /\ now + Margin > token.expiry

CheckToken(t) ==
    /\ th[t].pc = "check"
    /\ IF th[t].tok = NoToken \/ ShouldRefresh(th[t].tok)
       THEN Become(t, [th[t] EXCEPT !.pc = "fetch", !.tok = NoToken])
       ELSE Become(t, [th[t] EXCEPT !.pc = "release",
                                     !.cached = TRUE, !.at = now])
    /\ UNCHANGED <<now, lock, mem, entry, data, calls, faults, clean>>

-----------------------------------------------------------------------------
(* FetchAccessToken and ExchangeAuthorizationCode: a request to the token  *)
(* endpoint.  The server's lifetime runs from the time it issues the       *)
(* token, the client's from the time it has read the response.             *)

CallExchange(t) ==
    /\ \A u \in Threads : ProcOf[u] = ProcOf[t] => th[u].pc = "idle"
    /\ calls < MaxCalls
    /\ calls' = calls + 1
    /\ Become(t, At("fetch", "exchange"))
    /\ UNCHANGED <<now, lock, mem, entry, data, faults, clean>>

IssueToken(t) ==
    /\ th[t].pc = "fetch"
    /\ \E life \in Lifetimes \union {Never} :
          Become(t, [th[t] EXCEPT !.pc = "wait",
             !.tok = [life |-> life, sent |-> now, expiry |-> Never]])
    /\ UNCHANGED <<now, lock, mem, entry, data, calls, faults, clean>>

ReceiveToken(t) ==
    /\ th[t].pc = "wait"
    /\ LET tok == th[t].tok
           expiry == IF tok.life = Never THEN Never ELSE now + tok.life
       IN  Become(t, [th[t] EXCEPT
             !.tok = [tok EXCEPT !.expiry = expiry],
             !.pc = IF CacheKind[ProcOf[t]] = "memory" THEN "put" ELSE "unlink"])
    /\ UNCHANGED <<now, lock, mem, entry, data, calls, faults, clean>>

\* The response to an exchange has no refresh token: nothing is cached, and
\* the approval flow drops the access token.
ReceiveNoRefreshToken(t) ==
    /\ th[t].pc = "wait"
    /\ th[t].op = "exchange"
    /\ Become(t, [th[t] EXCEPT !.pc = "release", !.tok = NoToken])
    /\ UNCHANGED <<now, lock, mem, entry, data, calls, faults, clean>>

\* Faulty: an error goes on to put what was not received.
RequestFailsPuts(t) ==
    /\ th[t].pc \in Fetching
    /\ Become(t, [th[t] EXCEPT !.pc = "unlink", !.tok = NoToken])
    /\ UNCHANGED <<now, lock, mem, entry, data, calls, faults, clean>>

\* An HTTP error, a response that is not JSON or has no token: the error is
\* raised through GetAccessToken, whose finally releases the lock.
RequestFails(t) ==
    /\ th[t].pc \in Fetching
    /\ Become(t, [th[t] EXCEPT !.pc = "release", !.tok = NoToken])
    /\ UNCHANGED <<now, lock, mem, entry, data, calls, faults, clean>>

-----------------------------------------------------------------------------
(* PutToken.                                                               *)

\* InMemoryTokenCache.PutToken
PutInMemory(t) ==
    /\ th[t].pc = "put"
    /\ mem' = [mem EXCEPT ![ProcOf[t]] = th[t].tok]
    /\ Goto(t, "release")
    /\ UNCHANGED <<now, lock, entry, data, calls, faults, clean>>

Unlink(t) ==
    /\ th[t].pc = "unlink"
    /\ entry' = 0
    /\ Goto(t, "create")
    /\ UNCHANGED <<now, lock, mem, data, calls, faults, clean>>

\* A failure to unlink is ignored.
UnlinkFails(t) ==
    /\ th[t].pc = "unlink"
    /\ Goto(t, "create")
    /\ Fault
    /\ UNCHANGED <<now, lock, mem, entry, data, calls>>

\* Faulty: a failed exclusive creation removes the other's file.
CreateRemoves(t) ==
    /\ th[t].pc = "create"
    /\ IF entry # 0
       THEN /\ Goto(t, "release")
            /\ entry' = 0
            /\ UNCHANGED <<data, clean>>
       ELSE /\ data' = Append(data, NoToken)
            /\ entry' = Len(data) + 1
            /\ Become(t, [th[t] EXCEPT !.fd = Len(data) + 1, !.pc = "write"])
            /\ clean' = TRUE
    /\ UNCHANGED <<now, lock, mem, calls, faults>>

\* os.open with O_CREAT | O_EXCL; if the file exists PutToken gives up.
Create(t) ==
    /\ th[t].pc = "create"
    /\ IF entry # 0
       THEN /\ Goto(t, "release")
            /\ UNCHANGED <<entry, data, clean>>
       ELSE /\ data' = Append(data, NoToken)
            /\ entry' = Len(data) + 1
            /\ Become(t, [th[t] EXCEPT !.fd = Len(data) + 1, !.pc = "write"])
            /\ clean' = TRUE
    /\ UNCHANGED <<now, lock, mem, calls, faults>>

CreateFails(t) ==
    /\ th[t].pc = "create"
    /\ Goto(t, "release")
    /\ Fault
    /\ UNCHANGED <<now, lock, mem, entry, data, calls>>

\* write and close: the serialized token is shorter than the buffer, so it
\* is written whole or not at all, to an inode that may be unlinked by now.
WriteToken(t) ==
    /\ th[t].pc = "write"
    /\ data' = [data EXCEPT ![th[t].fd] = th[t].tok]
    /\ Goto(t, "release")
    /\ UNCHANGED <<now, lock, mem, entry, calls, faults, clean>>

\* An exception of write or close is not caught by PutToken: the caller gets
\* it instead of the token.
WriteFails(t) ==
    /\ th[t].pc = "write"
    /\ Become(t, [th[t] EXCEPT !.pc = "release", !.tok = NoToken])
    /\ Fault
    /\ UNCHANGED <<now, lock, mem, entry, data, calls>>

-----------------------------------------------------------------------------

\* Faulty: the error path keeps the lock (no finally).
ReleaseOnSuccess(t) ==
    /\ th[t].pc = "release"
    /\ lock' = IF th[t].op = "get" /\ th[t].tok # NoToken
               THEN [lock EXCEPT ![ProcOf[t]] = Free] ELSE lock
    /\ Goto(t, "idle")
    /\ UNCHANGED <<now, mem, entry, data, calls, faults, clean>>

\* The finally of GetAccessToken; ExchangeAuthorizationCode holds no lock.
Release(t) ==
    /\ th[t].pc = "release"
    /\ lock' = IF th[t].op = "get"
               THEN [lock EXCEPT ![ProcOf[t]] = Free] ELSE lock
    /\ Goto(t, "idle")
    /\ UNCHANGED <<now, mem, entry, data, calls, faults, clean>>

\* A process is killed, and may be started again.
Crash(p) ==
    /\ th' = [t \in Threads |-> IF ProcOf[t] = p THEN Resting ELSE th[t]]
    /\ lock' = [lock EXCEPT ![p] = Free]
    /\ mem' = [mem EXCEPT ![p] = NoToken]
    /\ Fault
    /\ UNCHANGED <<now, entry, data, calls>>

Step(t) ==
    \/ Acquire(t) \/ GetFromMemory(t) \/ OpenToRead(t) \/ ReadToken(t)
    \/ ReadFails(t) \/ CheckToken(t)
    \/ IssueToken(t) \/ ReceiveToken(t) \/ ReceiveNoRefreshToken(t)
    \/ RequestFails(t)
    \/ PutInMemory(t) \/ Unlink(t) \/ UnlinkFails(t)
    \/ Create(t) \/ CreateFails(t) \/ WriteToken(t) \/ WriteFails(t)
    \/ Release(t)

Next ==
    \/ Tick
    \/ \E t \in Threads : CallGetAccessToken(t) \/ CallExchange(t) \/ Step(t)
    \/ \E p \in Processes : Crash(p)

Spec == Init /\ [][Next]_vars

\* A thread that can go on does, and a request is answered or fails.  A lock
\* that is released again and again is obtained in the end, because each
\* thread makes finitely many calls.
FairSpec == Spec /\ \A t \in Threads : WF_vars(Step(t))

-----------------------------------------------------------------------------
(* Properties.                                                             *)

\* Every variable has its type, every open file and the file's name refer to
\* an inode that exists, and a thread that puts a token has one.
TypeOK ==
    /\ now \in Nat /\ calls \in Nat /\ faults \in Nat /\ clean \in BOOLEAN
    /\ lock \in [Processes -> Threads \union {Free}]
    /\ th \in [Threads -> Thread]
    /\ mem \in [Processes -> Token \union {NoToken}]
    /\ data \in Seq(Token \union {NoToken})
    /\ entry \in 0..Len(data)
    /\ \A t \in Threads : /\ th[t].fd \in 0..Len(data)
                          /\ th[t].pc \in {"read", "write"} => th[t].fd # 0
                          /\ th[t].pc \in {"wait"} \union Putting =>
                                th[t].tok # NoToken

\* PutToken: if processes race, one of the two will win and write the token.
\* Once a file has been created, and with no fault since, the name is linked
\* to a complete token whenever nobody is between unlink and write.
OneWriterWins ==
    clean /\ (\A t \in Threads : th[t].pc \notin {"create", "write"})
        => entry # 0 /\ data[entry] # NoToken

\* A token taken from the cache was still valid at the server when it was
\* taken, if its response took no longer than the refresh margin.
CachedTokenValid ==
    \A t \in Threads : LET tok == th[t].tok IN
        th[t].cached /\ tok.life # Never /\ tok.expiry - tok.life - tok.sent <= Margin
            => th[t].at <= tok.sent + tok.life

\* token_exchange_lock: no thread refreshes a token that another thread of
\* its process has just refreshed.
RefreshOnlyWhenNeeded ==
    \A t \in Threads :
        CacheKind[ProcOf[t]] = "memory" /\ th[t].pc = "fetch" /\ th[t].op = "get" =>
            LET tok == mem[ProcOf[t]] IN tok = NoToken \/ ShouldRefresh(tok)

\* Every call of GetAccessToken ends, whatever fails on the way.
EveryCallEnds ==
    \A t \in Threads : th[t].pc = "lock" ~> th[t].pc = "idle"

=============================================================================
