-------------------------- MODULE TokenCacheProofs --------------------------
(***************************************************************************)
(* Proofs about the token cache, for any processes, threads, lifetimes and *)
(* margin, and any number of calls and faults.                             *)
(***************************************************************************)
EXTENDS TokenCache, SequenceTheorems, TLAPS

\* An open file refers to an inode that exists, and there is a token to put.
Holding == {"wait"} \union Putting
LocalOK(r, n) ==
    /\ r.fd \in 0..n
    /\ r.pc \in {"read", "write"} => r.fd # 0
    /\ r.pc \in Holding => r.tok # NoToken

\* A fresh call has the type of a thread.
LEMMA AtTyped ==
    ASSUME NEW pc \in Steps \ ({"read", "write"} \union Holding), NEW op \in {"get", "exchange"},
           NEW n \in Nat
    PROVE  At(pc, op) \in Thread /\ LocalOK(At(pc, op), n)
BY DEF At, Thread, LocalOK

\* The updates of a thread's program counter, token and file keep its type.
LEMMA ThreadTyped ==
    ASSUME NEW r \in Thread, NEW pc \in Steps, NEW tok \in Token \union {NoToken},
           NEW fd \in Nat, NEW at \in Nat
    PROVE  /\ [r EXCEPT !.pc = pc] \in Thread
           /\ [r EXCEPT !.tok = tok, !.pc = pc] \in Thread
           /\ [r EXCEPT !.pc = pc, !.tok = tok] \in Thread
           /\ [r EXCEPT !.fd = fd, !.pc = pc] \in Thread
           /\ [r EXCEPT !.pc = pc, !.cached = TRUE, !.at = at] \in Thread
<1>1. [r EXCEPT !.pc = pc] \in Thread
  BY DEF Thread
<1>2. [r EXCEPT !.tok = tok, !.pc = pc] \in Thread
  BY DEF Thread
<1>3. [r EXCEPT !.pc = pc, !.tok = tok] \in Thread
  BY DEF Thread
<1>4. [r EXCEPT !.fd = fd, !.pc = pc] \in Thread
  BY DEF Thread
<1>5. [r EXCEPT !.pc = pc, !.cached = TRUE, !.at = at] \in Thread
  BY DEF Thread
<1>6. QED  BY <1>1, <1>2, <1>3, <1>4, <1>5

\* What Become does to each thread.
LEMMA BecomeEffect ==
    ASSUME th \in [Threads -> Thread], NEW t \in Threads, NEW r, Become(t, r)
    PROVE  /\ th'[t] = r
           /\ \A u \in Threads : u # t => th'[u] = th[u]
           /\ r \in Thread => th' \in [Threads -> Thread]
BY DEF Become

LEMMA TypeStep == TypeOK /\ [Next]_vars => TypeOK'
<1> SUFFICES ASSUME TypeOK, [Next]_vars PROVE TypeOK'
  OBVIOUS
<1> DEFINE Files(n) == \A u \in Threads : LocalOK(th'[u], n)
<1>t. th \in [Threads -> Thread] /\ \A u \in Threads : LocalOK(th[u], Len(data))
  BY DEF TypeOK, LocalOK, Holding
<1>d. Len(data) \in Nat
  BY DEF TypeOK
<1>s. /\ {"idle", "lock", "get", "read", "check", "release", "fetch", "wait",
          "put", "unlink", "create", "write"} \subseteq Steps
  BY DEF Steps, Fetching, Putting
\* one thread becomes r while no inode is made
<1>b. ASSUME NEW t \in Threads, NEW r \in Thread, Become(t, r),
             LocalOK(r, Len(data))
      PROVE  th' \in [Threads -> Thread] /\ Files(Len(data))
  BY <1>b, <1>t, BecomeEffect
<1>h. {"idle", "lock", "get", "check", "release", "fetch"}
         \subseteq Steps \ ({"read", "write"} \union Holding)
  BY DEF Steps, Fetching, Putting, Holding
<1>g. ASSUME NEW t \in Threads, NEW pc \in Steps \ {"read", "write"}, Goto(t, pc),
             th[t].pc \in Holding \/ pc \notin Holding
      PROVE  th' \in [Threads -> Thread] /\ Files(Len(data))
  <2>1. th[t] \in Thread /\ LocalOK(th[t], Len(data))
    BY <1>t
  <2>2. [th[t] EXCEPT !.pc = pc] \in Thread
    BY <2>1 DEF Thread
  <2>3. LocalOK([th[t] EXCEPT !.pc = pc], Len(data))
    BY <1>g, <2>1 DEF Thread, LocalOK
  <2>4. QED  BY <1>g, <1>b, <2>2, <2>3 DEF Goto
<1>i. ASSUME UNCHANGED data, th' \in [Threads -> Thread], Files(Len(data)),
             entry' \in 0..Len(data),
             now' \in Nat, calls' \in Nat, faults' \in Nat, clean' \in BOOLEAN,
             lock' \in [Processes -> Threads \union {Free}],
             mem' \in [Processes -> Token \union {NoToken}]
      PROVE  TypeOK'
  BY <1>i DEF TypeOK, LocalOK, Holding
<1>f. ASSUME Fault PROVE faults' \in Nat /\ clean' \in BOOLEAN
  <2>1. faults' \in Nat
    BY <1>f DEF Fault, TypeOK
  <2>2. clean' \in BOOLEAN
    BY <1>f DEF Fault
  <2>3. QED  BY <2>1, <2>2
<1>1. CASE Tick
  BY <1>1 DEF Tick, TypeOK
<1>2. ASSUME NEW t \in Threads, CallGetAccessToken(t) PROVE TypeOK'
  <2>2. th' \in [Threads -> Thread] /\ Files(Len(data))
    BY <1>2, <1>b, <1>d, <1>h, AtTyped DEF CallGetAccessToken
  <2>3. QED  BY <1>2, <2>2, <1>i DEF CallGetAccessToken, TypeOK
<1>3. ASSUME NEW t \in Threads, CallExchange(t) PROVE TypeOK'
  <2>1. th' \in [Threads -> Thread] /\ Files(Len(data))
    BY <1>3, <1>b, <1>d, <1>h, AtTyped DEF CallExchange
  <2>2. QED  BY <1>3, <2>1, <1>i DEF CallExchange, TypeOK
<1>4. ASSUME NEW t \in Threads, Acquire(t) PROVE TypeOK'
  <2>1. th' \in [Threads -> Thread] /\ Files(Len(data))
    BY <1>4, <1>g, <1>s, <1>h DEF Acquire
  <2>2. QED  BY <1>4, <2>1, <1>i, ThreadsAssumption DEF Acquire, TypeOK
<1>5. ASSUME NEW t \in Threads, GetFromMemory(t) PROVE TypeOK'
  <2>1. mem[ProcOf[t]] \in Token \union {NoToken} /\ th[t] \in Thread
    BY ThreadsAssumption DEF TypeOK
  <2> DEFINE r == [th[t] EXCEPT !.tok = mem[ProcOf[t]], !.pc = "check"]
  <2>2. r \in Thread
    BY <2>1, <1>s DEF Thread
  <2>3. LocalOK(r, Len(data))
    BY <2>1, <1>t DEF LocalOK, Thread, Holding, Putting
  <2>4. th' \in [Threads -> Thread] /\ Files(Len(data))
    BY <1>5, <1>b, <2>2, <2>3 DEF GetFromMemory
  <2>5. QED  BY <1>5, <2>4, <1>i DEF GetFromMemory, TypeOK
<1>6. ASSUME NEW t \in Threads, OpenToRead(t) PROVE TypeOK'
  <2> DEFINE r == [th[t] EXCEPT !.fd = entry,
                      !.pc = IF entry = 0 THEN "check" ELSE "read"]
  <2>1. entry \in 0..Len(data) /\ entry \in Nat /\ th[t] \in Thread
    BY <1>d DEF TypeOK
  <2>2. r \in Thread
    BY <2>1, <1>s DEF Thread
  <2>3. LocalOK(r, Len(data))
    BY <2>1 DEF LocalOK, Thread, Holding, Putting
  <2>4. th' \in [Threads -> Thread] /\ Files(Len(data))
    BY <1>6, <1>b, <2>2, <2>3 DEF OpenToRead
  <2>5. QED  BY <1>6, <2>4, <1>i DEF OpenToRead, TypeOK
<1>7. ASSUME NEW t \in Threads, ReadToken(t) PROVE TypeOK'
  <2> DEFINE r == [th[t] EXCEPT !.tok = data[th[t].fd], !.pc = "check"]
  <2>1. th[t].fd \in 1..Len(data) /\ th[t] \in Thread
    BY <1>7, <1>t, <1>d DEF ReadToken, LocalOK
  <2>2. data[th[t].fd] \in Token \union {NoToken}
    BY <2>1 DEF TypeOK
  <2>3. r \in Thread
    BY <2>1, <2>2, <1>s DEF Thread
  <2>4. LocalOK(r, Len(data))
    BY <2>1, <1>t DEF LocalOK, Thread, Holding, Putting
  <2>5. th' \in [Threads -> Thread] /\ Files(Len(data))
    BY <1>7, <1>b, <2>3, <2>4 DEF ReadToken
  <2>6. QED  BY <1>7, <2>5, <1>i DEF ReadToken, TypeOK
<1>8. ASSUME NEW t \in Threads, ReadFails(t) PROVE TypeOK'
  <2>1. th' \in [Threads -> Thread] /\ Files(Len(data))
    BY <1>8, <1>g, <1>s, <1>h DEF ReadFails
  <2>2. QED  BY <1>8, <2>1, <1>i, <1>f DEF ReadFails, TypeOK
<1>9. ASSUME NEW t \in Threads, CheckToken(t) PROVE TypeOK'
  <2> DEFINE fetch == [th[t] EXCEPT !.pc = "fetch", !.tok = NoToken]
             use == [th[t] EXCEPT !.pc = "release", !.cached = TRUE, !.at = now]
  <2>1. th[t] \in Thread /\ now \in Nat
    BY DEF TypeOK
  <2>2. fetch \in Thread /\ use \in Thread
    BY <2>1, <1>s DEF Thread
  <2>3. LocalOK(fetch, Len(data)) /\ LocalOK(use, Len(data))
    BY <2>1, <1>t DEF LocalOK, Thread, Holding, Putting
  <2>4. Become(t, fetch) \/ Become(t, use)
    BY <1>9 DEF CheckToken
  <2>5. th' \in [Threads -> Thread] /\ Files(Len(data))
    BY <2>2, <2>3, <2>4, <1>b
  <2>6. QED  BY <1>9, <2>5, <1>i DEF CheckToken, TypeOK
<1>10. ASSUME NEW t \in Threads, IssueToken(t) PROVE TypeOK'
  <2>1. PICK life \in Lifetimes \union {Never} :
          Become(t, [th[t] EXCEPT !.pc = "wait",
                   !.tok = [life |-> life, sent |-> now, expiry |-> Never]])
    BY <1>10 DEF IssueToken
  <2> DEFINE tok == [life |-> life, sent |-> now, expiry |-> Never]
             r == [th[t] EXCEPT !.pc = "wait", !.tok = tok]
  <2>2. tok \in Token
    BY DEF Token, TypeOK
  <2>3. th[t] \in Thread
    BY DEF TypeOK
  <2>4. r \in Thread
    <3> HIDE DEF tok
    <3>1. QED  BY <2>2, <2>3, <1>s DEF Thread
  <2>5. LocalOK(r, Len(data))
    <3> HIDE DEF tok
    <3>1. QED  BY <2>2, <2>3, <1>t, NoTokenAssumption DEF LocalOK, Thread
  <2>6. th' \in [Threads -> Thread] /\ Files(Len(data))
    BY <2>1, <1>b, <2>4, <2>5
  <2>7. QED  BY <1>10, <2>6, <1>i DEF IssueToken, TypeOK
<1>11. ASSUME NEW t \in Threads, ReceiveToken(t) PROVE TypeOK'
  <2> DEFINE old == th[t].tok
             expiry == IF old.life = Never THEN Never ELSE now + old.life
             tok == [old EXCEPT !.expiry = expiry]
             pc == IF CacheKind[ProcOf[t]] = "memory" THEN "put" ELSE "unlink"
             r == [th[t] EXCEPT !.tok = tok, !.pc = pc]
  <2>0. old # NoToken
    BY <1>11, <1>t DEF ReceiveToken, LocalOK, Holding
  <2>1. th[t] \in Thread /\ old \in Token /\ now \in Nat
    BY <2>0 DEF TypeOK, Thread
  <2>2. expiry \in Nat \union {Never}
    <3>1. CASE old.life = Never
      BY <3>1
    <3>2. CASE old.life # Never
      <4>1. old.life \in Nat
        BY <3>2, <2>1, TimesAssumption DEF Token
      <4>2. expiry = now + old.life
        BY <3>2
      <4> HIDE DEF old, expiry
      <4>3. QED  BY <4>1, <4>2, <2>1
    <3>3. QED  BY <3>1, <3>2
  <2>3. tok \in Token
    <3> HIDE DEF expiry, old
    <3>1. QED  BY <2>1, <2>2 DEF Token
  <2>4. pc \in Steps \ {"read", "write"}
    BY <1>s
  <2>5. r \in Thread /\ LocalOK(r, Len(data))
    <3> HIDE DEF tok, pc
    <3>1. r \in Thread
      BY <2>1, <2>3, <2>4 DEF Thread
    <3>2. LocalOK(r, Len(data))
      BY <2>1, <2>3, <2>4, <1>t, NoTokenAssumption DEF LocalOK, Thread
    <3>3. QED  BY <3>1, <3>2
  <2>6. Become(t, r)
    BY <1>11 DEF ReceiveToken
  <2>7. th' \in [Threads -> Thread] /\ Files(Len(data))
    <3> HIDE DEF r
    <3>1. QED  BY <2>5, <2>6, <1>b
  <2>8. QED  BY <1>11, <2>7, <1>i DEF ReceiveToken, TypeOK
\* a request, or a write, that ends in an exception
<1>r. ASSUME NEW t \in Threads,
             Become(t, [th[t] EXCEPT !.pc = "release", !.tok = NoToken])
      PROVE  th' \in [Threads -> Thread] /\ Files(Len(data))
  <2> DEFINE r == [th[t] EXCEPT !.pc = "release", !.tok = NoToken]
  <2>1. th[t] \in Thread
    BY <1>t
  <2>2. r \in Thread
    BY <2>1, <1>s DEF Thread
  <2>3. LocalOK(r, Len(data))
    BY <2>1, <1>t DEF LocalOK, Thread, Holding, Putting
  <2>4. QED  BY <1>r, <1>b, <2>2, <2>3
<1>12. ASSUME NEW t \in Threads, ReceiveNoRefreshToken(t) PROVE TypeOK'
  BY <1>12, <1>r, <1>i DEF ReceiveNoRefreshToken, TypeOK
<1>13. ASSUME NEW t \in Threads, RequestFails(t) PROVE TypeOK'
  BY <1>13, <1>r, <1>i DEF RequestFails, TypeOK
<1>14. ASSUME NEW t \in Threads, PutInMemory(t) PROVE TypeOK'
  <2>1. th' \in [Threads -> Thread] /\ Files(Len(data))
    BY <1>14, <1>g, <1>s, <1>h DEF PutInMemory
  <2>2. mem' \in [Processes -> Token \union {NoToken}]
    BY <1>14 DEF PutInMemory, TypeOK, Thread
  <2>3. QED  BY <1>14, <2>1, <2>2, <1>i DEF PutInMemory, TypeOK
<1>15. ASSUME NEW t \in Threads, Unlink(t) PROVE TypeOK'
  <2>1. th' \in [Threads -> Thread] /\ Files(Len(data))
    BY <1>15, <1>g, <1>s, <1>h DEF Unlink, Holding, Putting
  <2>2. entry' \in 0..Len(data)
    BY <1>15, <1>d DEF Unlink
  <2>3. QED  BY <1>15, <2>1, <2>2, <1>i DEF Unlink, TypeOK
<1>16. ASSUME NEW t \in Threads, UnlinkFails(t) \/ CreateFails(t)
       PROVE  TypeOK'
  <2>1. th' \in [Threads -> Thread] /\ Files(Len(data))
    BY <1>16, <1>g, <1>s, <1>h DEF UnlinkFails, CreateFails, Holding, Putting
  <2>2. QED  BY <1>16, <2>1, <1>i, <1>f DEF UnlinkFails, CreateFails, TypeOK
<1>17. ASSUME NEW t \in Threads, Create(t) PROVE TypeOK'
  <2>1. CASE entry # 0
    <3>1. th' \in [Threads -> Thread] /\ Files(Len(data))
      BY <1>17, <2>1, <1>g, <1>s, <1>h DEF Create
    <3>2. QED  BY <1>17, <2>1, <3>1, <1>i DEF Create, TypeOK
  <2>2. CASE entry = 0
    <3> DEFINE r == [th[t] EXCEPT !.fd = Len(data) + 1, !.pc = "write"]
    <3>1. /\ Become(t, r) /\ data' = Append(data, NoToken)
          /\ entry' = Len(data) + 1 /\ clean' = TRUE
          /\ UNCHANGED <<now, lock, mem, calls, faults>>
      BY <1>17, <2>2 DEF Create
    <3>2. th[t] \in Thread /\ Len(data) + 1 \in Nat /\ th[t].tok # NoToken
      BY <1>17, <1>t, <1>d DEF Create, LocalOK, Holding, Putting
    <3>3. r \in Thread
      <4> DEFINE n == Len(data) + 1
      <4> HIDE DEF n
      <4>1. [th[t] EXCEPT !.fd = n, !.pc = "write"] \in Thread
        BY <3>2, <1>s DEF Thread, n
      <4>2. QED  BY <4>1 DEF n
    <3>4. LocalOK(r, Len(data) + 1)
      BY <3>2, <1>d DEF LocalOK, Thread
    <3>5. data' \in Seq(Token \union {NoToken}) /\ Len(data') = Len(data) + 1
      BY <3>1 DEF TypeOK
    <3>6. ASSUME NEW u \in Threads PROVE LocalOK(th'[u], Len(data'))
      <4>1. th'[u] = r \/ th'[u] = th[u]
        BY <3>1, <1>t, BecomeEffect
      <4>2. LocalOK(th[u], Len(data)) /\ th[u] \in Thread
        BY <1>t
      <4>3. LocalOK(th[u], Len(data'))
        BY <4>2, <3>5, <1>d DEF LocalOK
      <4> HIDE DEF r
      <4>4. QED  BY <4>1, <4>3, <3>4, <3>5
    <3>7. th' \in [Threads -> Thread]
      <4> HIDE DEF r
      <4>1. QED  BY <3>1, <3>3, <1>t, BecomeEffect
    <3>8. entry' \in 0..Len(data')
      BY <3>1, <3>5, <1>d
    <3>9. /\ now' \in Nat /\ calls' \in Nat /\ faults' \in Nat
          /\ lock' \in [Processes -> Threads \union {Free}]
          /\ mem' \in [Processes -> Token \union {NoToken}]
      BY <3>1 DEF TypeOK
    <3>10. clean' \in BOOLEAN
      BY <3>1
    <3>11. QED  BY <3>5, <3>6, <3>7, <3>8, <3>9, <3>10 DEF TypeOK, LocalOK, Holding
  <2>3. QED  BY <2>1, <2>2
<1>18. ASSUME NEW t \in Threads, WriteToken(t) PROVE TypeOK'
  <2>1. th' \in [Threads -> Thread] /\ Files(Len(data))
    BY <1>18, <1>g, <1>s, <1>h DEF WriteToken
  <2>2. data' = [data EXCEPT ![th[t].fd] = th[t].tok]
    BY <1>18 DEF WriteToken
  <2>3. th[t].tok \in Token \union {NoToken}
    BY <1>t DEF Thread
  <2>4. data' \in Seq(Token \union {NoToken}) /\ Len(data') = Len(data)
    <3> DEFINE S == Token \union {NoToken}
               tok == th[t].tok
               k == th[t].fd
    <3>1. data \in Seq(S) /\ tok \in S /\ data' = [data EXCEPT ![k] = tok]
      BY <2>2, <2>3 DEF TypeOK
    <3>2. k \in 1..Len(data)
      BY <1>18, <1>t DEF WriteToken, LocalOK
    <3> HIDE DEF S, tok, k
    <3>3. data' \in Seq(S) /\ Len(data') = Len(data)
      BY <3>1, <3>2
    <3>4. QED  BY <3>3 DEF S
  <2>5. QED  BY <1>18, <2>1, <2>4 DEF WriteToken, TypeOK, LocalOK, Holding
<1>19. ASSUME NEW t \in Threads, WriteFails(t) PROVE TypeOK'
  BY <1>19, <1>r, <1>i, <1>f DEF WriteFails, TypeOK
<1>20. ASSUME NEW t \in Threads, Release(t) PROVE TypeOK'
  <2>1. th' \in [Threads -> Thread] /\ Files(Len(data))
    BY <1>20, <1>g, <1>s, <1>h DEF Release
  <2>2. lock' \in [Processes -> Threads \union {Free}]
    BY <1>20 DEF Release, TypeOK
  <2>3. QED  BY <1>20, <2>1, <2>2, <1>i DEF Release, TypeOK
<1>21. ASSUME NEW p \in Processes, Crash(p) PROVE TypeOK'
  <2>1. Resting \in Thread /\ LocalOK(Resting, Len(data))
    BY <1>d, <1>h, AtTyped DEF Resting
  <2>2. th' \in [Threads -> Thread] /\ Files(Len(data))
    BY <1>21, <2>1, <1>t DEF Crash
  <2>3. /\ lock' \in [Processes -> Threads \union {Free}]
        /\ mem' \in [Processes -> Token \union {NoToken}]
    BY <1>21 DEF Crash, TypeOK
  <2>4. QED  BY <1>21, <2>2, <2>3, <1>i, <1>f DEF Crash, TypeOK
<1>22. CASE UNCHANGED vars
  BY <1>22 DEF vars, TypeOK
<1>23. QED
  BY <1>1, <1>2, <1>3, <1>4, <1>5, <1>6, <1>7, <1>8, <1>9, <1>10, <1>11,
     <1>12, <1>13, <1>14, <1>15, <1>16, <1>17, <1>18, <1>19, <1>20, <1>21,
     <1>22 DEF Next, Step

\* Every state of the cache is well typed.
THEOREM TypeCorrect == Spec => []TypeOK
<1>1. Init => TypeOK
  <2> SUFFICES ASSUME Init PROVE TypeOK
    OBVIOUS
  <2>1. Leftover \subseteq Token \union {NoToken}
    BY TimesAssumption DEF Leftover, Token
  <2>2. /\ data \in Seq(Token \union {NoToken}) /\ Len(data) \in Nat
        /\ entry \in 0..Len(data)
    <3>1. CASE entry = 0 /\ data = <<>>
      BY <3>1
    <3>2. CASE entry = 1 /\ data \in {<<c>> : c \in Leftover}
      <4>1. PICK c \in Leftover : data = <<c>>
        BY <3>2
      <4>2. QED  BY <2>1, <3>2, <4>1
    <3>3. QED  BY <3>1, <3>2 DEF Init
  <2>3. \A t \in Threads : LocalOK(th[t], Len(data))
    BY <2>2, AtTyped DEF Init, Resting, Steps, Holding, Putting
  <2>4. th \in [Threads -> Thread]
    BY AtTyped DEF Init, Resting, Steps, Holding, Putting
  <2>5. now \in Nat /\ clean \in BOOLEAN
    BY TimesAssumption DEF Init
  <2>6. QED
    BY <2>2, <2>3, <2>4, <2>5 DEF Init, TypeOK, LocalOK, Holding
<1>2. QED
  BY <1>1, TypeStep, PTL DEF Spec

-----------------------------------------------------------------------------
(* One of the racing writers wins.                                         *)

\* After a creation and with no fault since then, either a thread is about to
\* create a file where there is none, or the file's name is linked to a file
\* that is complete or is still held open by the thread that will write it.
Creating(t) == th[t].pc = "create"
WritingTo(t, k) == th[t].pc = "write" /\ th[t].fd = k
WinInv ==
    clean => IF entry = 0 THEN \E t \in Threads : Creating(t)
             ELSE data[entry] # NoToken \/ \E t \in Threads : WritingTo(t, entry)

\* Every step that does not fail keeps a winner.
LEMMA WinStep == TypeOK /\ TypeOK' /\ WinInv /\ [Next]_vars => WinInv'
<1> SUFFICES ASSUME TypeOK, TypeOK', WinInv, [Next]_vars, clean' PROVE WinInv'
  BY DEF WinInv
<1>t. th \in [Threads -> Thread]
  BY DEF TypeOK
\* a thread that neither creates nor writes becomes r
<1>k. ASSUME NEW t \in Threads, NEW r, Become(t, r),
             th[t].pc \notin {"create", "write"}, UNCHANGED <<entry, data, clean>>
      PROVE  WinInv'
  <2>1. \A u \in Threads : u # t => th'[u] = th[u]
    BY <1>k, <1>t, BecomeEffect
  <2>2. \A u \in Threads : Creating(u) => Creating(u)'
    BY <2>1, <1>k DEF Creating
  <2>3. \A u \in Threads : \A k : WritingTo(u, k) => WritingTo(u, k)'
    BY <2>1, <1>k DEF WritingTo
  <2>4. QED  BY <1>k, <2>2, <2>3 DEF WinInv
<1>f. ASSUME Fault PROVE FALSE
  BY <1>f DEF Fault
<1>1. CASE Tick
  BY <1>1 DEF Tick, WinInv, Creating, WritingTo
<1>2. ASSUME NEW t \in Threads, CallGetAccessToken(t) PROVE WinInv'
  BY <1>2, <1>k DEF CallGetAccessToken
<1>3. ASSUME NEW t \in Threads, CallExchange(t) PROVE WinInv'
  BY <1>3, <1>k DEF CallExchange
<1>4. ASSUME NEW t \in Threads,
             Acquire(t) \/ GetFromMemory(t) \/ OpenToRead(t) \/ ReadToken(t)
      PROVE WinInv'
  BY <1>4, <1>k DEF Acquire, GetFromMemory, OpenToRead, ReadToken, Goto
<1>5. ASSUME NEW t \in Threads, CheckToken(t) PROVE WinInv'
  BY <1>5, <1>k DEF CheckToken
<1>6. ASSUME NEW t \in Threads, IssueToken(t) PROVE WinInv'
  BY <1>6, <1>k DEF IssueToken
<1>7. ASSUME NEW t \in Threads, ReceiveToken(t) PROVE WinInv'
  BY <1>7, <1>k DEF ReceiveToken
<1>8. ASSUME NEW t \in Threads,
             ReceiveNoRefreshToken(t) \/ RequestFails(t) \/ PutInMemory(t)
             \/ Release(t)
      PROVE WinInv'
  BY <1>8, <1>k DEF ReceiveNoRefreshToken, RequestFails, PutInMemory, Release,
     Goto, Fetching
<1>9. ASSUME NEW t \in Threads, Unlink(t) PROVE WinInv'
  <2>1. th'[t].pc = "create" /\ entry' = 0
    BY <1>9, <1>t DEF Unlink, Goto, Become, Thread
  <2>2. QED  BY <2>1 DEF WinInv, Creating
<1>10. ASSUME NEW t \in Threads, Create(t) PROVE WinInv'
  <2>1. CASE entry # 0
    <3>1. /\ Become(t, [th[t] EXCEPT !.pc = "release"])
          /\ UNCHANGED <<entry, data, clean>> /\ th[t].pc = "create"
      BY <1>10, <2>1 DEF Create, Goto
    <3>2. \A u \in Threads : u # t => th'[u] = th[u]
      BY <3>1, <1>t, BecomeEffect
    <3>3. \A u \in Threads : \A k : WritingTo(u, k) => WritingTo(u, k)'
      BY <3>1, <3>2 DEF WritingTo
    <3>4. QED  BY <2>1, <3>1, <3>3 DEF WinInv
  <2>2. CASE entry = 0
    <3> DEFINE n == Len(data) + 1
               r == [th[t] EXCEPT !.fd = n, !.pc = "write"]
    <3>1. Become(t, r) /\ entry' = n
      BY <1>10, <2>2 DEF Create
    <3>2. n # 0
      BY DEF TypeOK
    <3>3. th'[t] = r /\ th[t] \in Thread
      BY <3>1, <1>t, BecomeEffect
    <3>4. WritingTo(t, entry)'
      <4> HIDE DEF n
      <4>1. QED  BY <3>1, <3>3 DEF WritingTo, Thread
    <3>5. QED  BY <3>1, <3>2, <3>4 DEF WinInv
  <2>3. QED  BY <2>1, <2>2
<1>11. ASSUME NEW t \in Threads, WriteToken(t) PROVE WinInv'
  <2> DEFINE k == th[t].fd
             tok == th[t].tok
  <2>1. /\ Become(t, [th[t] EXCEPT !.pc = "release"])
        /\ data' = [data EXCEPT ![k] = tok]
        /\ UNCHANGED <<entry, clean>> /\ th[t].pc = "write"
    BY <1>11 DEF WriteToken, Goto
  <2>2. k \in 1..Len(data) /\ tok # NoToken
    BY <2>1 DEF TypeOK, Putting
  <2>3. \A u \in Threads : u # t => th'[u] = th[u]
    BY <2>1, <1>t, BecomeEffect
  <2>4. CASE entry = 0
    <3>1. \A u \in Threads : Creating(u) => Creating(u)'
      BY <2>1, <2>3 DEF Creating
    <3>2. QED  BY <2>1, <2>4, <3>1 DEF WinInv
  <2>5. CASE entry = k
    <3>1. data'[entry] = tok
      BY <2>1, <2>2, <2>5 DEF TypeOK
    <3>2. QED  BY <2>1, <2>2, <2>5, <3>1 DEF WinInv
  <2>6. CASE entry # 0 /\ entry # k
    <3>1. data'[entry] = data[entry]
      BY <2>1, <2>2, <2>6 DEF TypeOK
    <3>2. \A u \in Threads : WritingTo(u, entry) => WritingTo(u, entry)'
      BY <2>1, <2>3, <2>6 DEF WritingTo
    <3>3. QED  BY <2>1, <2>6, <3>1, <3>2 DEF WinInv
  <2>7. QED  BY <2>4, <2>5, <2>6
<1>12. ASSUME NEW t \in Threads,
              ReadFails(t) \/ UnlinkFails(t) \/ CreateFails(t) \/ WriteFails(t)
       PROVE  WinInv'
  BY <1>12, <1>f DEF ReadFails, UnlinkFails, CreateFails, WriteFails
<1>13. ASSUME NEW p \in Processes, Crash(p) PROVE WinInv'
  BY <1>13, <1>f DEF Crash
<1>14. CASE UNCHANGED vars
  BY <1>14 DEF vars, WinInv, Creating, WritingTo
<1>15. QED
  BY <1>1, <1>2, <1>3, <1>4, <1>5, <1>6, <1>7, <1>8, <1>9, <1>10, <1>11,
     <1>12, <1>13, <1>14 DEF Next, Step

\* PutToken: of processes that race, one wins and writes its token.
THEOREM OneWriterWinsAlways == Spec => []OneWriterWins
<1>1. Init => WinInv
  BY DEF Init, WinInv
<1>2. WinInv => OneWriterWins
  BY DEF WinInv, OneWriterWins, Creating, WritingTo
<1>3. QED
  BY <1>1, <1>2, WinStep, TypeCorrect, PTL DEF Spec

-----------------------------------------------------------------------------
(* A cached token is valid when it is taken.                               *)

\* A token with a lifetime has an expiry once its response has been read.
Dated(tok) == tok # NoToken /\ tok.life # Never => tok.expiry # Never
Valid(r) ==
    r.cached => /\ r.pc \in {"release", "idle"} /\ r.tok # NoToken
                /\ r.tok.life # Never
                   /\ r.tok.expiry - r.tok.life - r.tok.sent <= Margin
                      => r.at <= r.tok.sent + r.tok.life
DateOK(r) == Valid(r) /\ (r.pc # "wait" => Dated(r.tok))
DateInv ==
    /\ \A p \in Processes : Dated(mem[p])
    /\ \A k \in 1..Len(data) : Dated(data[k])
    /\ \A t \in Threads : DateOK(th[t])

\* Every step keeps the tokens dated and the cached ones valid.
LEMMA DateStep == TypeOK /\ TypeOK' /\ DateInv /\ [Next]_vars => DateInv'
<1> SUFFICES ASSUME TypeOK, TypeOK', DateInv, [Next]_vars PROVE DateInv'
  OBVIOUS
<1>t. th \in [Threads -> Thread]
  BY DEF TypeOK
<1>o. ASSUME NEW t \in Threads
      PROVE  th[t] \in Thread /\ Valid(th[t]) /\ DateOK(th[t])
             /\ (th[t].pc \notin {"release", "idle"} => ~th[t].cached)
  BY <1>o, <1>t DEF DateInv, DateOK, Valid
\* a thread becomes r, which is in order
<1>k. ASSUME NEW t \in Threads, NEW r, Become(t, r), UNCHANGED <<mem, data>>,
             DateOK(r)
      PROVE  DateInv'
  <2>1. \A u \in Threads : DateOK(th'[u])
    BY <1>k, <1>t, <1>o, BecomeEffect
  <2>2. QED  BY <1>k, <2>1 DEF DateInv
<1>n. DateOK(Resting) /\ \A op : DateOK(At("lock", op)) /\ DateOK(At("fetch", op))
  BY DEF Resting, At, DateOK, Valid, Dated
\* a thread that has a settled token goes on with it
<1>g. ASSUME NEW t \in Threads, NEW pc, th[t].pc # "wait",
             pc \in {"release", "idle"} \/ ~th[t].cached
      PROVE  DateOK([th[t] EXCEPT !.pc = pc])
  <2>1. th[t] \in Thread /\ DateOK(th[t])
    BY <1>o
  <2>2. QED  BY <1>g, <2>1 DEF DateOK, Valid, Thread
\* a thread takes a token, or none
<1>x. ASSUME NEW t \in Threads, NEW pc, ~th[t].cached, NEW tok, Dated(tok)
      PROVE  /\ DateOK([th[t] EXCEPT !.tok = tok, !.pc = pc])
             /\ DateOK([th[t] EXCEPT !.pc = pc, !.tok = tok])
  <2>1. th[t] \in Thread
    BY <1>o
  <2>2. QED  BY <1>x, <2>1 DEF DateOK, Valid, Thread
<1>z. Dated(NoToken)
  BY DEF Dated
<1>1. CASE Tick
  BY <1>1 DEF Tick, DateInv
<1>2. ASSUME NEW t \in Threads, CallGetAccessToken(t) PROVE DateInv'
  BY <1>2, <1>k, <1>n DEF CallGetAccessToken
<1>3. ASSUME NEW t \in Threads, CallExchange(t) PROVE DateInv'
  BY <1>3, <1>k, <1>n DEF CallExchange
<1>4. ASSUME NEW t \in Threads, Acquire(t) \/ ReadFails(t) \/ Unlink(t)
                                \/ UnlinkFails(t) \/ CreateFails(t) \/ Release(t)
      PROVE DateInv'
  <2>1. PICK pc : Goto(t, pc) /\ (pc \in {"release", "idle"} \/ ~th[t].cached)
    BY <1>4, <1>o DEF Acquire, ReadFails, Unlink, UnlinkFails, CreateFails, Release
  <2>2. th[t].pc # "wait" /\ UNCHANGED <<mem, data>>
    BY <1>4 DEF Acquire, ReadFails, Unlink, UnlinkFails, CreateFails, Release
  <2>3. QED  BY <2>1, <2>2, <1>g, <1>k DEF Goto
<1>5. ASSUME NEW t \in Threads, GetFromMemory(t) PROVE DateInv'
  <2>1. Dated(mem[ProcOf[t]]) /\ ~th[t].cached
    BY <1>5, <1>o, ThreadsAssumption DEF GetFromMemory, DateInv
  <2>2. QED  BY <1>5, <2>1, <1>x, <1>k DEF GetFromMemory
<1>6. ASSUME NEW t \in Threads, OpenToRead(t) PROVE DateInv'
  <2> DEFINE r == [th[t] EXCEPT !.fd = entry,
                      !.pc = IF entry = 0 THEN "check" ELSE "read"]
  <2>1. DateOK(r)
    <3>1. th[t] \in Thread /\ DateOK(th[t]) /\ ~th[t].cached /\ th[t].pc # "wait"
      BY <1>6, <1>o DEF OpenToRead
    <3>2. QED  BY <3>1 DEF DateOK, Valid, Thread
  <2>2. QED  BY <1>6, <2>1, <1>k DEF OpenToRead
<1>7. ASSUME NEW t \in Threads, ReadToken(t) PROVE DateInv'
  <2>1. th[t].fd \in 1..Len(data)
    BY <1>7 DEF ReadToken, TypeOK
  <2>2. Dated(data[th[t].fd]) /\ ~th[t].cached
    BY <1>7, <2>1, <1>o DEF ReadToken, DateInv
  <2>3. QED  BY <1>7, <2>2, <1>x, <1>k DEF ReadToken
<1>8. ASSUME NEW t \in Threads, CheckToken(t) PROVE DateInv'
  <2>1. ~th[t].cached /\ th[t].pc = "check"
    BY <1>8, <1>o DEF CheckToken
  <2>2. CASE th[t].tok = NoToken \/ ShouldRefresh(th[t].tok)
    BY <1>8, <2>1, <2>2, <1>x, <1>z, <1>k DEF CheckToken
  <2>3. CASE ~(th[t].tok = NoToken \/ ShouldRefresh(th[t].tok))
    <3> DEFINE tok == th[t].tok
               r == [th[t] EXCEPT !.pc = "release", !.cached = TRUE, !.at = now]
    <3>1. tok \in Token /\ Dated(tok) /\ th[t] \in Thread
      BY <2>1, <2>3, <1>o DEF Thread, DateOK
    <3>2. ASSUME tok.life # Never, tok.expiry - tok.life - tok.sent <= Margin
          PROVE  now <= tok.sent + tok.life
      <4>1. tok.expiry # Never /\ tok # NoToken
        BY <2>3, <3>1, <3>2 DEF Dated
      <4>2. ~(now + Margin > tok.expiry)
        BY <2>3, <4>1 DEF ShouldRefresh
      <4>3. /\ tok.life \in Nat /\ tok.sent \in Nat /\ tok.expiry \in Nat
            /\ now \in Nat /\ Margin \in Nat
        BY <3>1, <3>2, <4>1, TimesAssumption DEF Token, TypeOK
      <4> HIDE DEF tok
      <4>4. QED  BY <3>2, <4>2, <4>3
    <3>3. r.tok = tok /\ r.at = now /\ r.pc = "release"
      BY <3>1 DEF Thread
    <3>4. DateOK(r)
      <4> HIDE DEF r
      <4>1. QED  BY <2>3, <3>1, <3>2, <3>3 DEF DateOK, Valid
    <3>5. QED  BY <1>8, <2>3, <3>4, <1>k DEF CheckToken
  <2>4. QED  BY <2>2, <2>3
<1>9. ASSUME NEW t \in Threads, IssueToken(t) PROVE DateInv'
  <2>1. PICK tok : Become(t, [th[t] EXCEPT !.pc = "wait", !.tok = tok])
    BY <1>9 DEF IssueToken
  <2> DEFINE r == [th[t] EXCEPT !.pc = "wait", !.tok = tok]
  <2>2. ~th[t].cached /\ th[t] \in Thread
    BY <1>9, <1>o DEF IssueToken
  <2>3. DateOK(r)
    BY <2>2 DEF DateOK, Valid, Thread
  <2>4. QED  BY <1>9, <2>1, <2>3, <1>k DEF IssueToken
<1>10. ASSUME NEW t \in Threads, ReceiveToken(t) PROVE DateInv'
  <2> DEFINE old == th[t].tok
             expiry == IF old.life = Never THEN Never ELSE now + old.life
             tok == [old EXCEPT !.expiry = expiry]
             pc == IF CacheKind[ProcOf[t]] = "memory" THEN "put" ELSE "unlink"
  <2>1. old \in Token /\ ~th[t].cached /\ now \in Nat
    BY <1>10, <1>o DEF ReceiveToken, TypeOK, Thread
  <2>2. expiry = Never => old.life = Never
    <3>1. CASE old.life # Never
      <4>1. old.life \in Nat /\ expiry = now + old.life
        BY <2>1, <3>1, TimesAssumption DEF Token
      <4> HIDE DEF old, expiry
      <4>2. QED  BY <2>1, <4>1 DEF Never
    <3>2. QED  BY <3>1
  <2>3. Dated(tok)
    <3> HIDE DEF old, expiry
    <3>1. tok.life = old.life /\ tok.expiry = expiry
      BY <2>1 DEF Token
    <3>2. QED  BY <2>2, <3>1 DEF Dated
  <2>4. DateOK([th[t] EXCEPT !.tok = tok, !.pc = pc])
    <3> HIDE DEF tok, pc
    <3>1. QED  BY <2>1, <2>3, <1>x
  <2>5. QED  BY <1>10, <2>4, <1>k DEF ReceiveToken
<1>11. ASSUME NEW t \in Threads, ReceiveNoRefreshToken(t) \/ RequestFails(t)
       PROVE  DateInv'
  <2>1. /\ Become(t, [th[t] EXCEPT !.pc = "release", !.tok = NoToken])
        /\ UNCHANGED <<mem, data>> /\ ~th[t].cached
    BY <1>11, <1>o DEF ReceiveNoRefreshToken, RequestFails, Fetching
  <2>2. QED  BY <2>1, <1>x, <1>z, <1>k
<1>12. ASSUME NEW t \in Threads, PutInMemory(t) PROVE DateInv'
  <2>1. th[t].pc = "put" /\ Dated(th[t].tok) /\ ~th[t].cached
    BY <1>12, <1>o DEF PutInMemory, DateOK
  <2>2. DateOK([th[t] EXCEPT !.pc = "release"])
    BY <2>1, <1>g
  <2>3. \A u \in Threads : DateOK(th'[u])
    BY <1>12, <1>t, <1>o, <2>2, BecomeEffect DEF PutInMemory, Goto
  <2>4. \A p \in Processes : Dated(mem'[p])
    BY <1>12, <2>1 DEF PutInMemory, DateInv, TypeOK
  <2>5. QED  BY <1>12, <2>3, <2>4 DEF PutInMemory, DateInv
<1>13. ASSUME NEW t \in Threads, Create(t) PROVE DateInv'
  <2>1. ~th[t].cached /\ th[t].pc = "create" /\ th[t] \in Thread /\ DateOK(th[t])
    BY <1>13, <1>o DEF Create
  <2>2. CASE entry # 0
    BY <1>13, <2>1, <2>2, <1>g, <1>k DEF Create, Goto
  <2>3. CASE entry = 0
    <3> DEFINE n == Len(data) + 1
               r == [th[t] EXCEPT !.fd = n, !.pc = "write"]
    <3>1. Become(t, r) /\ data' = Append(data, NoToken) /\ UNCHANGED mem
      BY <1>13, <2>3 DEF Create
    <3>2. DateOK(r)
      <4> HIDE DEF n
      <4>1. QED  BY <2>1 DEF DateOK, Valid, Thread
    <3>3. \A u \in Threads : DateOK(th'[u])
      <4> HIDE DEF r
      <4>1. QED  BY <3>1, <3>2, <1>t, <1>o, BecomeEffect
    <3>4. \A k \in 1..Len(data') : Dated(data'[k])
      <4>1. \A k \in 1..Len(data') :
               data'[k] = NoToken \/ (k \in 1..Len(data) /\ data'[k] = data[k])
        <5> DEFINE S == Token \union {NoToken}
        <5>1. data \in Seq(S) /\ NoToken \in S
          BY DEF TypeOK
        <5> HIDE DEF S
        <5>2. /\ Len(data') = Len(data) + 1 /\ data'[Len(data) + 1] = NoToken
              /\ \A k \in 1..Len(data) : data'[k] = data[k]
          BY <5>1, <3>1, AppendProperties
        <5>3. Len(data) \in Nat
          BY <5>1
        <5>4. ASSUME NEW k \in 1..Len(data')
              PROVE  data'[k] = NoToken \/ (k \in 1..Len(data) /\ data'[k] = data[k])
          <6>1. k = Len(data) + 1 \/ k \in 1..Len(data)
            BY <5>2, <5>3
          <6>2. QED  BY <5>2, <6>1
        <5>5. QED  BY <5>4
      <4>2. QED  BY <4>1, <1>z DEF DateInv
    <3>5. QED  BY <3>1, <3>3, <3>4 DEF DateInv
  <2>4. QED  BY <2>2, <2>3
<1>14. ASSUME NEW t \in Threads, WriteToken(t) PROVE DateInv'
  <2> DEFINE k == th[t].fd
             tok == th[t].tok
  <2>1. th[t].pc = "write" /\ Dated(tok) /\ ~th[t].cached
    BY <1>14, <1>o DEF WriteToken, DateOK
  <2>2. /\ Become(t, [th[t] EXCEPT !.pc = "release"]) /\ UNCHANGED mem
        /\ data' = [data EXCEPT ![k] = tok]
    BY <1>14 DEF WriteToken, Goto
  <2>3. \A u \in Threads : DateOK(th'[u])
    <3>1. DateOK([th[t] EXCEPT !.pc = "release"])
      BY <2>1, <1>g
    <3>2. QED  BY <2>2, <3>1, <1>t, <1>o, BecomeEffect
  <2>4. \A j \in 1..Len(data') : Dated(data'[j])
    <3> HIDE DEF k, tok
    <3>1. Len(data') = Len(data)
          /\ \A j \in 1..Len(data) : data'[j] = tok \/ data'[j] = data[j]
      BY <2>2 DEF TypeOK
    <3>2. QED  BY <3>1, <2>1 DEF DateInv
  <2>5. QED  BY <2>2, <2>3, <2>4 DEF DateInv
<1>15. ASSUME NEW t \in Threads, WriteFails(t) PROVE DateInv'
  <2>1. /\ Become(t, [th[t] EXCEPT !.pc = "release", !.tok = NoToken])
        /\ UNCHANGED <<mem, data>> /\ ~th[t].cached
    BY <1>15, <1>o DEF WriteFails
  <2>2. QED  BY <2>1, <1>x, <1>z, <1>k
<1>16. ASSUME NEW p \in Processes, Crash(p) PROVE DateInv'
  <2>1. \A u \in Threads : DateOK(th'[u])
    BY <1>16, <1>n, <1>o DEF Crash
  <2>2. \A q \in Processes : Dated(mem'[q])
    BY <1>16, <1>z DEF Crash, DateInv, TypeOK
  <2>3. QED  BY <1>16, <2>1, <2>2 DEF Crash, DateInv
<1>17. CASE UNCHANGED vars
  BY <1>17 DEF vars, DateInv
<1>18. QED
  BY <1>1, <1>2, <1>3, <1>4, <1>5, <1>6, <1>7, <1>8, <1>9, <1>10, <1>11,
     <1>12, <1>13, <1>14, <1>15, <1>16, <1>17 DEF Next, Step

\* A token taken from the cache was valid at the server when it was taken,
\* if its response had taken no longer than the refresh margin.
THEOREM CachedTokenValidAlways == Spec => []CachedTokenValid
<1>1. Init => DateInv
  <2> SUFFICES ASSUME Init PROVE DateInv
    OBVIOUS
  <2>1. \A c \in Leftover : Dated(c)
    BY TimesAssumption DEF Init, Leftover, Dated, Never
  <2>2. \A i \in 1..Len(data) : Dated(data[i])
    BY <2>1 DEF Init
  <2>3. (\A t \in Threads : DateOK(th[t])) /\ \A p \in Processes : Dated(mem[p])
    BY DEF Init, DateOK, Valid, Dated, Resting, At
  <2>4. QED
    BY <2>2, <2>3 DEF DateInv
<1>2. DateInv => CachedTokenValid
  BY DEF DateInv, DateOK, Valid, CachedTokenValid
<1>3. QED
  BY <1>1, <1>2, DateStep, TypeCorrect, PTL DEF Spec

-----------------------------------------------------------------------------
(* A thread refreshes only what needs it.  It checks the token of its       *)
(* process before it asks for a new one; that nobody has replaced it since  *)
(* is what the lock is for.                                                 *)

Stale(p) == mem[p] = NoToken \/ ShouldRefresh(mem[p])

\* A call of GetAccessToken past its first line holds the lock.
OwnsLock(t) ==
    th[t].op = "get" /\ th[t].pc \notin {"idle", "lock"} => lock[ProcOf[t]] = t

\* The approval flow has its process to itself.
AloneInProcess(t) ==
    th[t].op = "exchange" /\ th[t].pc # "idle" =>
        \A u \in Threads : u # t /\ ProcOf[u] = ProcOf[t] => th[u].pc = "idle"

\* What a call with the cache in memory has seen of it is still there.
SeesCache(t) ==
    CacheKind[ProcOf[t]] = "memory" /\ th[t].op = "get" =>
        /\ th[t].pc # "read"
        /\ th[t].pc = "check" => th[t].tok = mem[ProcOf[t]]
        /\ th[t].pc = "fetch" => Stale(ProcOf[t])
RefreshInv == \A t \in Threads : OwnsLock(t) /\ AloneInProcess(t) /\ SeesCache(t)


\* A step of thread t between the lock and its release.
Onward(t) ==
    /\ \A u \in Threads : u # t => th'[u] = th[u]
    /\ UNCHANGED <<now, lock>> /\ th'[t].op = th[t].op
    /\ th[t].pc \notin {"idle", "lock"} /\ th'[t].pc \notin {"idle", "lock"}
    /\ th'[t].pc = "read" => CacheKind[ProcOf[t]] = "file"
    /\ th'[t].pc = "check" =>
          \/ th[t].pc = "read" \/ CacheKind[ProcOf[t]] = "file"
          \/ th'[t].tok = mem[ProcOf[t]]
    /\ th'[t].pc = "fetch" =>
          th[t].pc = "check" /\ (th[t].tok = NoToken \/ ShouldRefresh(th[t].tok))

LEMMA StepsOnward ==
    ASSUME TypeOK, NEW t \in Threads, Step(t), ~Acquire(t), ~Release(t)
    PROVE  Onward(t) /\ (UNCHANGED mem \/ PutInMemory(t))
<1>t. th \in [Threads -> Thread] /\ th[t] \in Thread
  BY DEF TypeOK
<1> USE <1>t DEF Onward, Goto, Become, Thread
<1>1. CASE GetFromMemory(t)
  BY <1>1 DEF GetFromMemory
<1>2. CASE OpenToRead(t)
  BY <1>2 DEF OpenToRead
<1>3. CASE ReadToken(t)
  BY <1>3 DEF ReadToken
<1>4. CASE ReadFails(t)
  BY <1>4 DEF ReadFails
<1>5. CASE CheckToken(t)
  <2> DEFINE old == th[t].tok = NoToken \/ ShouldRefresh(th[t].tok)
  <2>1. th[t].pc = "check" /\ UNCHANGED <<now, lock, mem>>
    BY <1>5 DEF CheckToken
  <2>2. CASE old
    <3>1. th' = [th EXCEPT ![t] = [th[t] EXCEPT !.pc = "fetch", !.tok = NoToken]]
      BY <1>5, <2>2 DEF CheckToken
    <3> HIDE DEF old
    <3>2. th'[t].pc = "fetch" /\ th'[t].op = th[t].op
      BY <3>1
    <3>3. QED  BY <2>1, <2>2, <3>1, <3>2 DEF old
  <2>3. CASE ~old
    <3>1. th' = [th EXCEPT ![t] = [th[t] EXCEPT !.pc = "release", !.cached = TRUE, !.at = now]]
      BY <1>5, <2>3 DEF CheckToken
    <3> HIDE DEF old
    <3>2. th'[t].pc = "release" /\ th'[t].op = th[t].op
      BY <3>1
    <3>3. QED  BY <2>1, <3>1, <3>2
  <2>4. QED  BY <2>2, <2>3
<1>6. CASE IssueToken(t)
  BY <1>6 DEF IssueToken
<1>7. CASE ReceiveToken(t)
  BY <1>7 DEF ReceiveToken
<1>8. CASE ReceiveNoRefreshToken(t) \/ RequestFails(t)
  BY <1>8 DEF ReceiveNoRefreshToken, RequestFails, Fetching
<1>9. CASE PutInMemory(t)
  BY <1>9 DEF PutInMemory
<1>10. CASE Unlink(t) \/ UnlinkFails(t)
  BY <1>10 DEF Unlink, UnlinkFails
<1>11. CASE Create(t)
  BY <1>11 DEF Create
<1>12. CASE CreateFails(t) \/ WriteToken(t)
  BY <1>12 DEF CreateFails, WriteToken
<1>13. CASE WriteFails(t)
  BY <1>13 DEF WriteFails
<1>14. QED
  BY <1>1, <1>2, <1>3, <1>4, <1>5, <1>6, <1>7, <1>8, <1>9, <1>10, <1>11, <1>12, <1>13 DEF Step

LEMMA RefreshStep == TypeOK /\ RefreshInv /\ [Next]_vars => RefreshInv'
<1> SUFFICES ASSUME TypeOK, RefreshInv, [Next]_vars PROVE RefreshInv'
  OBVIOUS
<1>t. /\ th \in [Threads -> Thread] /\ now \in Nat
      /\ lock \in [Processes -> Threads \union {Free}]
      /\ mem \in [Processes -> Token \union {NoToken}]
      /\ \A t \in Threads : ProcOf[t] \in Processes /\ th[t] \in Thread
  BY ThreadsAssumption DEF TypeOK
<1>1. CASE Tick
  <2>1. UNCHANGED <<lock, th, mem>> /\ now' = now + 1
    BY <1>1 DEF Tick
  <2>2. ASSUME NEW p \in Processes, Stale(p) PROVE Stale(p)'
    <3>1. mem[p] # NoToken => mem[p].expiry \in Int
      BY <1>t DEF Token, Never
    <3>2. Margin \in Nat
      BY TimesAssumption
    <3>3. QED  BY <1>t, <2>1, <2>2, <3>1, <3>2 DEF Stale, ShouldRefresh
  <2>3. QED  BY <1>t, <2>1, <2>2 DEF RefreshInv, OwnsLock, AloneInProcess, SeesCache
<1>2. ASSUME NEW t \in Threads, CallGetAccessToken(t) PROVE RefreshInv'
  <2>1. /\ th'[t] = At("lock", "get") /\ \A u \in Threads : u # t => th'[u] = th[u]
        /\ UNCHANGED <<now, lock, mem>> /\ ~Exchanging(ProcOf[t])
    BY <1>2, <1>t DEF CallGetAccessToken, Become
  <2>2. QED  BY <2>1 DEF At, RefreshInv, OwnsLock, AloneInProcess, SeesCache, Stale, ShouldRefresh, Exchanging
<1>3. ASSUME NEW t \in Threads, CallExchange(t) PROVE RefreshInv'
  <2>1. /\ th'[t] = At("fetch", "exchange") /\ \A u \in Threads : u # t => th'[u] = th[u]
        /\ UNCHANGED <<now, lock, mem>>
        /\ \A u \in Threads : ProcOf[u] = ProcOf[t] => th[u].pc = "idle"
    BY <1>3, <1>t DEF CallExchange, Become
  <2>2. QED  BY <2>1 DEF At, RefreshInv, OwnsLock, AloneInProcess, SeesCache, Stale, ShouldRefresh
<1>4. ASSUME NEW t \in Threads, Acquire(t) PROVE RefreshInv'
  <2>1. /\ th'[t].pc = "get" /\ th'[t].op = th[t].op /\ th[t].pc = "lock"
        /\ \A u \in Threads : u # t => th'[u] = th[u]
        /\ UNCHANGED <<now, mem>> /\ lock[ProcOf[t]] = Free
    BY <1>4, <1>t DEF Acquire, Goto, Become, Thread
  <2>2. /\ lock'[ProcOf[t]] = t /\ \A p \in Processes : p # ProcOf[t] => lock'[p] = lock[p]
    BY <1>4, <1>t DEF Acquire
  <2>3. ASSUME NEW u \in Threads PROVE OwnsLock(u)'
    BY <1>t, <2>1, <2>2, ThreadsAssumption DEF RefreshInv, OwnsLock
  <2>4. ASSUME NEW u \in Threads PROVE AloneInProcess(u)' /\ SeesCache(u)'
    BY <2>1 DEF RefreshInv, AloneInProcess, SeesCache, Stale, ShouldRefresh
  <2>5. QED  BY <2>3, <2>4 DEF RefreshInv
<1>5. ASSUME NEW t \in Threads, Release(t) PROVE RefreshInv'
  <2>1. /\ th'[t].pc = "idle" /\ th'[t].op = th[t].op /\ th[t].pc = "release"
        /\ \A u \in Threads : u # t => th'[u] = th[u]
        /\ UNCHANGED <<now, mem>>
    BY <1>5, <1>t DEF Release, Goto, Become, Thread
  <2>2. /\ \A p \in Processes : p # ProcOf[t] => lock'[p] = lock[p]
        /\ th[t].op # "get" => lock' = lock
    BY <1>5, <1>t DEF Release
  <2>3. ASSUME NEW u \in Threads PROVE OwnsLock(u)'
    BY <1>t, <2>1, <2>2 DEF RefreshInv, OwnsLock
  <2>4. ASSUME NEW u \in Threads PROVE AloneInProcess(u)' /\ SeesCache(u)'
    BY <2>1 DEF RefreshInv, AloneInProcess, SeesCache, Stale, ShouldRefresh
  <2>5. QED  BY <2>3, <2>4 DEF RefreshInv
<1>6. ASSUME NEW t \in Threads, Onward(t) PROVE \A u \in Threads : OwnsLock(u)' /\ AloneInProcess(u)'
  BY <1>6 DEF Onward, RefreshInv, OwnsLock, AloneInProcess
<1>7. ASSUME NEW t \in Threads, Onward(t), UNCHANGED mem PROVE RefreshInv'
  <2>1. ASSUME NEW u \in Threads, u # t PROVE SeesCache(u)'
    BY <1>7, <2>1 DEF Onward, RefreshInv, SeesCache, Stale, ShouldRefresh
  <2>2. SeesCache(t)'
    BY <1>7 DEF Onward, RefreshInv, SeesCache, Stale, ShouldRefresh
  <2>3. QED  BY <1>6, <1>7, <2>1, <2>2 DEF RefreshInv
\* who puts a token has the lock or the process to itself
<1>8. ASSUME NEW t \in Threads, Onward(t), PutInMemory(t) PROVE RefreshInv'
  <2>1. /\ th[t].pc = "put" /\ th'[t].pc = "release"
        /\ \A p \in Processes : p # ProcOf[t] => mem'[p] = mem[p]
    BY <1>8, <1>t DEF PutInMemory, Goto, Become, Thread
  <2>2. ASSUME NEW u \in Threads, u # t, ProcOf[u] = ProcOf[t], th[u].op = "get"
        PROVE  th[u].pc \in {"idle", "lock"}
    <3>1. th[t].op \in {"get", "exchange"}
      BY <1>t DEF Thread
    <3>2. QED  BY <2>1, <2>2, <3>1 DEF RefreshInv, OwnsLock, AloneInProcess
  <2>3. ASSUME NEW u \in Threads PROVE SeesCache(u)'
    <3>1. CASE u = t
      BY <2>1, <3>1 DEF SeesCache
    <3>2. CASE u # t /\ ProcOf[u] = ProcOf[t]
      BY <1>8, <2>2, <3>2 DEF Onward, SeesCache
    <3>3. CASE ProcOf[u] # ProcOf[t]
      BY <1>t, <1>8, <2>1, <3>3 DEF Onward, RefreshInv, SeesCache, Stale, ShouldRefresh
    <3>4. QED  BY <3>1, <3>2, <3>3
  <2>4. QED  BY <1>6, <1>8, <2>3 DEF RefreshInv
<1>9. ASSUME NEW p \in Processes, Crash(p) PROVE RefreshInv'
  <2>1. /\ \A t \in Threads : th'[t] = IF ProcOf[t] = p THEN Resting ELSE th[t]
        /\ \A q \in Processes : q # p => lock'[q] = lock[q] /\ mem'[q] = mem[q]
        /\ UNCHANGED now
    BY <1>9, <1>t DEF Crash
  <2>2. Resting.pc = "idle"
    BY DEF Resting, At
  <2>3. QED  BY <1>t, <2>1, <2>2 DEF RefreshInv, OwnsLock, AloneInProcess, SeesCache, Stale, ShouldRefresh
<1>10. CASE UNCHANGED vars
  BY <1>10 DEF vars, RefreshInv, OwnsLock, AloneInProcess, SeesCache, Stale, ShouldRefresh
<1>11. ASSUME NEW t \in Threads, Step(t) PROVE RefreshInv'
  BY <1>4, <1>5, <1>7, <1>8, <1>11, StepsOnward
<1>12. QED  BY <1>1, <1>2, <1>3, <1>9, <1>10, <1>11 DEF Next

\* No thread refreshes a token that another of its process has refreshed
\* since it looked, for any number of threads that share a process.
THEOREM RefreshOnlyWhenNeededAlways == Spec => []RefreshOnlyWhenNeeded
<1>1. Init => RefreshInv
  BY DEF Init, RefreshInv, OwnsLock, AloneInProcess, SeesCache, Resting, At
<1>2. RefreshInv => RefreshOnlyWhenNeeded
  BY DEF RefreshInv, SeesCache, Stale, RefreshOnlyWhenNeeded
<1>3. QED  BY <1>1, <1>2, RefreshStep, TypeCorrect, PTL DEF Spec
-----------------------------------------------------------------------------
(* No lock is left behind: the converse of OwnsLock.                        *)

HeldByCall(p) ==
    lock[p] # Free =>
        /\ ProcOf[lock[p]] = p
        /\ th[lock[p]].op = "get"
        /\ th[lock[p]].pc \notin {"idle", "lock"}
LockHeldByCall == \A p \in Processes : HeldByCall(p)

\* Only GetAccessToken waits for the lock.
WaitsToGet == \A t \in Threads : th[t].pc = "lock" => th[t].op = "get"

LEMMA WaitsStep == TypeOK /\ WaitsToGet /\ [Next]_vars => WaitsToGet'
<1> SUFFICES ASSUME TypeOK, WaitsToGet, [Next]_vars,
                    NEW u \in Threads, th'[u].pc = "lock"
             PROVE  th'[u].op = "get"
  BY DEF WaitsToGet
<1>t. th \in [Threads -> Thread] /\ \A t \in Threads : th[t] \in Thread
  BY DEF TypeOK
<1>w. th[u].pc = "lock" => th[u].op = "get"
  BY DEF WaitsToGet
<1>1. CASE Tick \/ UNCHANGED vars
  BY <1>1, <1>w DEF Tick, vars
<1>2. ASSUME NEW t \in Threads, CallGetAccessToken(t) \/ CallExchange(t) PROVE th'[u].op = "get"
  BY <1>2, <1>t, <1>w DEF CallGetAccessToken, CallExchange, Become, At
<1>3. ASSUME NEW t \in Threads, Acquire(t) \/ Release(t) PROVE th'[u].op = "get"
  BY <1>3, <1>t, <1>w DEF Acquire, Release, Goto, Become, Thread
<1>4. ASSUME NEW t \in Threads, Onward(t) PROVE th'[u].op = "get"
  BY <1>4, <1>w DEF Onward
<1>5. ASSUME NEW q \in Processes, Crash(q) PROVE th'[u].op = "get"
  BY <1>5, <1>t, <1>w DEF Crash, Resting, At
<1>6. ASSUME NEW t \in Threads, Step(t) PROVE th'[u].op = "get"
  BY <1>3, <1>4, <1>6, StepsOnward
<1>7. QED  BY <1>1, <1>2, <1>5, <1>6 DEF Next

LEMMA HeldStep ==
    TypeOK /\ WaitsToGet /\ LockHeldByCall /\ [Next]_vars => LockHeldByCall'
<1> SUFFICES ASSUME TypeOK, WaitsToGet, LockHeldByCall, [Next]_vars,
                    NEW p \in Processes
             PROVE  HeldByCall(p)'
  BY DEF LockHeldByCall
<1>t. /\ th \in [Threads -> Thread]
      /\ lock \in [Processes -> Threads \union {Free}]
      /\ \A t \in Threads : ProcOf[t] \in Processes /\ th[t] \in Thread
  BY ThreadsAssumption DEF TypeOK
<1>p. lock[p] # Free =>
         /\ lock[p] \in Threads /\ ProcOf[lock[p]] = p
         /\ th[lock[p]].op = "get" /\ th[lock[p]].pc \notin {"idle", "lock"}
  BY <1>t DEF LockHeldByCall, HeldByCall
<1>1. CASE Tick \/ UNCHANGED vars
  BY <1>1, <1>p DEF Tick, vars, HeldByCall
\* a thread that is idle holds no lock
<1>2. ASSUME NEW t \in Threads, CallGetAccessToken(t) \/ CallExchange(t)
      PROVE  HeldByCall(p)'
  <2>1. lock' = lock /\ lock[p] # t /\ \A u \in Threads : u # t => th'[u] = th[u]
    <3>1. th[t].pc = "idle"
      BY <1>2 DEF CallGetAccessToken, CallExchange
    <3>2. lock' = lock /\ \A u \in Threads : u # t => th'[u] = th[u]
      BY <1>2, <1>t DEF CallGetAccessToken, CallExchange, Become
    <3>3. QED  BY <3>1, <3>2, <1>p, ThreadsAssumption
  <2>2. QED  BY <2>1, <1>p DEF HeldByCall
<1>3. ASSUME NEW t \in Threads, Acquire(t) PROVE HeldByCall(p)'
  <2>1. /\ th'[t].pc = "get" /\ th'[t].op = "get" /\ th[t].pc = "lock"
        /\ \A u \in Threads : u # t => th'[u] = th[u]
        /\ lock' = [lock EXCEPT ![ProcOf[t]] = t]
    BY <1>3, <1>t DEF Acquire, Goto, Become, Thread, WaitsToGet
  <2>2. CASE p = ProcOf[t]
    <3>1. lock'[p] = t
      BY <2>1, <2>2, <1>t
    <3>2. QED  BY <2>1, <2>2, <3>1 DEF HeldByCall
  <2>3. CASE p # ProcOf[t]
    <3>1. lock'[p] = lock[p]
      BY <2>1, <2>3, <1>t
    <3>2. QED  BY <2>1, <2>3, <3>1, <1>p DEF HeldByCall
  <2>4. QED  BY <2>2, <2>3
<1>4. ASSUME NEW t \in Threads, Release(t) PROVE HeldByCall(p)'
  <2>1. /\ \A u \in Threads : u # t => th'[u] = th[u]
        /\ lock' = IF th[t].op = "get" THEN [lock EXCEPT ![ProcOf[t]] = Free] ELSE lock
    BY <1>4, <1>t DEF Release, Goto, Become
  <2>2. CASE lock[p] = t
    BY <2>1, <2>2, <1>t, <1>p, ThreadsAssumption DEF HeldByCall
  <2>3. CASE lock[p] # t
    <3>1. lock'[p] = Free \/ lock'[p] = lock[p]
      BY <2>1, <1>t
    <3>2. QED  BY <2>1, <2>3, <3>1, <1>p DEF HeldByCall
  <2>4. QED  BY <2>2, <2>3
<1>5. ASSUME NEW t \in Threads, Onward(t) PROVE HeldByCall(p)'
  BY <1>5, <1>p DEF Onward, HeldByCall
<1>6. ASSUME NEW q \in Processes, Crash(q) PROVE HeldByCall(p)'
  <2>1. CASE p = q
    BY <1>6, <2>1, <1>t DEF Crash, HeldByCall
  <2>2. CASE p # q
    <3>1. lock'[p] = lock[p]
      BY <1>6, <2>2, <1>t DEF Crash
    <3>2. lock[p] # Free => th'[lock[p]] = th[lock[p]]
      BY <1>6, <2>2, <1>t, <1>p DEF Crash
    <3>3. QED  BY <3>1, <3>2, <1>p DEF HeldByCall
  <2>3. QED  BY <2>1, <2>2
<1>7. ASSUME NEW t \in Threads, Step(t) PROVE HeldByCall(p)'
  BY <1>3, <1>4, <1>5, <1>7, StepsOnward
<1>8. QED  BY <1>1, <1>2, <1>6, <1>7 DEF Next

\* The refresh lock is never left behind: whatever fails, times out or is
\* killed, a lock that is taken belongs to a GetAccessToken of a thread of
\* that process that is still between the lock and its finally.
THEOREM LockHeldByCallAlways == Spec => []LockHeldByCall
<1>1. Init => WaitsToGet /\ LockHeldByCall
  BY DEF Init, WaitsToGet, LockHeldByCall, HeldByCall, Resting, At
<1>2. QED  BY <1>1, WaitsStep, HeldStep, TypeCorrect, PTL DEF Spec
=============================================================================
