--------------------------- MODULE SequenceProofs ---------------------------
(***************************************************************************)
(* Proofs about Sequence: its clients implement Counter, and what next     *)
(* returns to a client rises from call to call.                            *)
(***************************************************************************)
EXTENDS Sequence, TLAPS

Steps == {"off", "init_get", "init_put", "ready", "get", "put", "put_again", "get_again"}

\* Until the id is known only its creator has an object, which it constructs;
\* the item is not there or holds the initial value.
Founding ==
    ~Known => /\ \A c \in Clients : c # Creator => pc[c] = "off"
              /\ pc[Creator] \in {"off", "init_get", "init_put"}
              /\ val[Creator] = None \/ pc[Creator] # "init_put"
              /\ current \in {None, initVal}
              /\ current # None => pc[Creator] = "init_put"

\* The value never falls below the initial one, nor below what a client has
\* read.
Risen ==
    /\ current # None => current >= initVal
    /\ \A c \in Clients : val[c] # None => current # None /\ val[c] <= current

\* What the control of a client says of what it has read.
Held ==
    \A c \in Clients :
        /\ pc[c] = "init_put" /\ Known => val[c] = 0
        /\ pc[c] \in {"put", "put_again"} => val[c] # None
        /\ pc[c] = "put_again" => val[c] < current

\* What was returned is not above the value, and below it once a client has
\* written for its next call.
Answered ==
    \A c \in Clients :
        answer[c] # None =>
            /\ Known /\ answer[c] <= current
            /\ pc[c] \in {"put", "put_again"} => answer[c] <= val[c]
            /\ pc[c] = "get_again" => answer[c] < current

IInv == TypeOK /\ Founding /\ Risen /\ Held /\ Answered

-----------------------------------------------------------------------------
(* The invariant.                                                          *)

USE CreatorAssumption, NoneAssumption, InitsAssumption, BoundsAssumption

\* The value that follows is greater, and is what Counter calls Following.
LEMMA FollowingRises ==
    ASSUME NEW f \in {"increment_by_one", "double"}, NEW v \in Nat,
           f = "double" => v > 0
    PROVE  /\ Next1(f, v) \in Nat /\ Next1(f, v) > v
           /\ Next1(f, v) = Abstract!Following(f, v)
  BY DEF Next1, Abstract!Following

LEMMA InitInvariant == Init => IInv
  BY DEF Known, Init, IInv, TypeOK, Founding, Risen, Held, Answered, Next1

\* An object whose condition holds, in a call of next, has read the value,
\* and its write is the first of the call.
LEMMA WriteRises ==
    ASSUME IInv, NEW c \in Clients, pc[c] \in {"put", "put_again"}, Expected(c)
    PROVE  /\ Known /\ pc[c] = "put" /\ current \in Nat /\ val[c] = current
           /\ Next1(fnc, val[c]) \in Nat /\ Next1(fnc, val[c]) > current
           /\ Next1(fnc, val[c]) = Abstract!Following(fnc, current)
<1>1. Known /\ current \in Nat /\ val[c] = current /\ pc[c] = "put"
  BY DEF Known, IInv, TypeOK, Founding, Held, Expected
<1>2. fnc = "double" => current > 0
  BY <1>1 DEF Known, IInv, TypeOK, Risen
<1>3. QED
  BY <1>1, <1>2, FollowingRises DEF Known, IInv, TypeOK

\* The first value is only written where there is none but it.
LEMMA BootstrapKeeps ==
    ASSUME IInv, NEW c \in Clients, pc[c] = "init_put", Expected(c)
    PROVE  current \in {None, initVal} /\ (~Known => c = Creator)
  BY DEF Known, IInv, TypeOK, Founding, Risen, Held, Expected

LEMMA ConstructKeeps ==
    ASSUME IInv, NEW c \in Clients, Construct(c)
    PROVE  IInv'
<1>1. TypeOK'
  BY DEF Known, IInv, TypeOK, Founding, Risen, Held, Answered, Construct, Goto, GetValue, Got, Fault
<1>2. Founding'
  BY <1>1 DEF Known, IInv, TypeOK, Founding, Risen, Held, Answered, Construct, Goto, GetValue, Got, Fault
<1>3. Risen'
  BY <1>1 DEF Known, IInv, TypeOK, Founding, Risen, Held, Answered, Construct, Goto, GetValue, Got, Fault
<1>4. Held'
  BY <1>1 DEF Known, IInv, TypeOK, Founding, Risen, Held, Answered, Construct, Goto, GetValue, Got, Fault
<1>5. Answered'
  BY <1>1 DEF Known, IInv, TypeOK, Founding, Risen, Held, Answered, Construct, Goto, GetValue, Got, Fault
<1>6. QED
  BY <1>1, <1>2, <1>3, <1>4, <1>5 DEF Known, IInv

LEMMA InitGetKeeps ==
    ASSUME IInv, NEW c \in Clients, InitGet(c)
    PROVE  IInv'
<1>1. TypeOK'
  BY DEF Known, IInv, TypeOK, Founding, Risen, Held, Answered, InitGet, Goto, GetValue, Got, Fault
<1>2. Founding'
  BY <1>1 DEF Known, IInv, TypeOK, Founding, Risen, Held, Answered, InitGet, Goto, GetValue, Got, Fault
<1>3. Risen'
  BY <1>1 DEF Known, IInv, TypeOK, Founding, Risen, Held, Answered, InitGet, Goto, GetValue, Got, Fault
<1>4. Held'
  BY <1>1 DEF Known, IInv, TypeOK, Founding, Risen, Held, Answered, InitGet, Goto, GetValue, Got, Fault
<1>5. Answered'
  BY <1>1 DEF Known, IInv, TypeOK, Founding, Risen, Held, Answered, InitGet, Goto, GetValue, Got, Fault
<1>6. QED
  BY <1>1, <1>2, <1>3, <1>4, <1>5 DEF Known, IInv

LEMMA InitPutKeeps ==
    ASSUME IInv, NEW c \in Clients, InitPut(c)
    PROVE  IInv'
<1>1. TypeOK'
  BY BootstrapKeeps DEF Known, IInv, TypeOK, Founding, Risen, Held, Answered, InitPut, Goto, GetValue, Got, Fault
<1>2. Founding'
  BY BootstrapKeeps, <1>1 DEF Known, IInv, TypeOK, Founding, Risen, Held, Answered, InitPut, Goto, GetValue, Got, Fault
<1>3. Risen'
  BY BootstrapKeeps, <1>1 DEF Known, IInv, TypeOK, Founding, Risen, Held, Answered, InitPut, Goto, GetValue, Got, Fault
<1>4. Held'
  BY BootstrapKeeps, <1>1 DEF Known, IInv, TypeOK, Founding, Risen, Held, Answered, InitPut, Goto, GetValue, Got, Fault
<1>5. Answered'
  BY BootstrapKeeps, <1>1 DEF Known, IInv, TypeOK, Founding, Risen, Held, Answered, InitPut, Goto, GetValue, Got, Fault
<1>6. QED
  BY <1>1, <1>2, <1>3, <1>4, <1>5 DEF Known, IInv

LEMMA CallNextKeeps ==
    ASSUME IInv, NEW c \in Clients, CallNext(c)
    PROVE  IInv'
<1>1. TypeOK'
  BY DEF Known, IInv, TypeOK, Founding, Risen, Held, Answered, CallNext, Goto, GetValue, Got, Fault
<1>2. Founding'
  BY <1>1 DEF Known, IInv, TypeOK, Founding, Risen, Held, Answered, CallNext, Goto, GetValue, Got, Fault
<1>3. Risen'
  BY <1>1 DEF Known, IInv, TypeOK, Founding, Risen, Held, Answered, CallNext, Goto, GetValue, Got, Fault
<1>4. Held'
  BY <1>1 DEF Known, IInv, TypeOK, Founding, Risen, Held, Answered, CallNext, Goto, GetValue, Got, Fault
<1>5. Answered'
  BY <1>1 DEF Known, IInv, TypeOK, Founding, Risen, Held, Answered, CallNext, Goto, GetValue, Got, Fault
<1>6. QED
  BY <1>1, <1>2, <1>3, <1>4, <1>5 DEF Known, IInv

LEMMA GetKeeps ==
    ASSUME IInv, NEW c \in Clients, Get(c)
    PROVE  IInv'
<1>1. TypeOK'
  BY DEF Known, IInv, TypeOK, Founding, Risen, Held, Answered, Get, Goto, GetValue, Got, Fault
<1>2. Founding'
  BY <1>1 DEF Known, IInv, TypeOK, Founding, Risen, Held, Answered, Get, Goto, GetValue, Got, Fault
<1>3. Risen'
  BY <1>1 DEF Known, IInv, TypeOK, Founding, Risen, Held, Answered, Get, Goto, GetValue, Got, Fault
<1>4. Held'
  BY <1>1 DEF Known, IInv, TypeOK, Founding, Risen, Held, Answered, Get, Goto, GetValue, Got, Fault
<1>5. Answered'
  BY <1>1 DEF Known, IInv, TypeOK, Founding, Risen, Held, Answered, Get, Goto, GetValue, Got, Fault
<1>6. QED
  BY <1>1, <1>2, <1>3, <1>4, <1>5 DEF Known, IInv

LEMMA PutKeeps ==
    ASSUME IInv, NEW c \in Clients, Put(c)
    PROVE  IInv'
<1>1. TypeOK'
  BY WriteRises DEF Known, IInv, TypeOK, Founding, Risen, Held, Answered, Put, Goto, GetValue, Got, Fault
<1>2. Founding'
  BY WriteRises, <1>1 DEF Known, IInv, TypeOK, Founding, Risen, Held, Answered, Put, Goto, GetValue, Got, Fault
<1>3. Risen'
  BY WriteRises, <1>1 DEF Known, IInv, TypeOK, Founding, Risen, Held, Answered, Put, Goto, GetValue, Got, Fault
<1>4. Held'
  BY WriteRises, <1>1 DEF Known, IInv, TypeOK, Founding, Risen, Held, Answered, Put, Goto, GetValue, Got, Fault
<1>5. Answered'
  BY WriteRises, <1>1 DEF Known, IInv, TypeOK, Founding, Risen, Held, Answered, Put, Goto, GetValue, Got, Fault
<1>6. QED
  BY <1>1, <1>2, <1>3, <1>4, <1>5 DEF Known, IInv

LEMMA ConflictKeeps ==
    ASSUME IInv, NEW c \in Clients, Conflict(c)
    PROVE  IInv'
<1>1. TypeOK'
  BY DEF Known, IInv, TypeOK, Founding, Risen, Held, Answered, Conflict, Expected, Goto, GetValue, Got, Fault
<1>2. Founding'
  BY <1>1 DEF Known, IInv, TypeOK, Founding, Risen, Held, Answered, Conflict, Expected, Goto, GetValue, Got, Fault
<1>3. Risen'
  BY <1>1 DEF Known, IInv, TypeOK, Founding, Risen, Held, Answered, Conflict, Expected, Goto, GetValue, Got, Fault
<1>4. Held'
  BY <1>1 DEF Known, IInv, TypeOK, Founding, Risen, Held, Answered, Conflict, Expected, Goto, GetValue, Got, Fault
<1>5. Answered'
  BY <1>1 DEF Known, IInv, TypeOK, Founding, Risen, Held, Answered, Conflict, Expected, Goto, GetValue, Got, Fault
<1>6. QED
  BY <1>1, <1>2, <1>3, <1>4, <1>5 DEF Known, IInv

LEMMA GetAgainKeeps ==
    ASSUME IInv, NEW c \in Clients, GetAgain(c)
    PROVE  IInv'
<1>1. TypeOK'
  BY DEF Known, IInv, TypeOK, Founding, Risen, Held, Answered, GetAgain, Goto, GetValue, Got, Fault
<1>2. Founding'
  BY <1>1 DEF Known, IInv, TypeOK, Founding, Risen, Held, Answered, GetAgain, Goto, GetValue, Got, Fault
<1>3. Risen'
  BY <1>1 DEF Known, IInv, TypeOK, Founding, Risen, Held, Answered, GetAgain, Goto, GetValue, Got, Fault
<1>4. Held'
  BY <1>1 DEF Known, IInv, TypeOK, Founding, Risen, Held, Answered, GetAgain, Goto, GetValue, Got, Fault
<1>5. Answered'
  BY <1>1 DEF Known, IInv, TypeOK, Founding, Risen, Held, Answered, GetAgain, Goto, GetValue, Got, Fault
<1>6. QED
  BY <1>1, <1>2, <1>3, <1>4, <1>5 DEF Known, IInv

LEMMA AnswerLostKeeps ==
    ASSUME IInv, NEW c \in Clients, AnswerLost(c)
    PROVE  IInv'
<1>1. TypeOK'
  BY WriteRises, BootstrapKeeps DEF Known, IInv, TypeOK, Founding, Risen, Held, Answered, AnswerLost, Goto, GetValue, Got, Fault
<1>2. Founding'
  BY WriteRises, BootstrapKeeps, <1>1 DEF Known, IInv, TypeOK, Founding, Risen, Held, Answered, AnswerLost, Goto, GetValue, Got, Fault
<1>3. Risen'
  BY WriteRises, BootstrapKeeps, <1>1 DEF Known, IInv, TypeOK, Founding, Risen, Held, Answered, AnswerLost, Goto, GetValue, Got, Fault
<1>4. Held'
  BY WriteRises, BootstrapKeeps, <1>1 DEF Known, IInv, TypeOK, Founding, Risen, Held, Answered, AnswerLost, Goto, GetValue, Got, Fault
<1>5. Answered'
  BY WriteRises, BootstrapKeeps, <1>1 DEF Known, IInv, TypeOK, Founding, Risen, Held, Answered, AnswerLost, Goto, GetValue, Got, Fault
<1>6. QED
  BY <1>1, <1>2, <1>3, <1>4, <1>5 DEF Known, IInv

LEMMA RequestFailsKeeps ==
    ASSUME IInv, NEW c \in Clients, RequestFails(c)
    PROVE  IInv'
<1>1. TypeOK'
  BY DEF Known, IInv, TypeOK, Founding, Risen, Held, Answered, RequestFails, Goto, GetValue, Got, Fault
<1>2. Founding'
  BY <1>1 DEF Known, IInv, TypeOK, Founding, Risen, Held, Answered, RequestFails, Goto, GetValue, Got, Fault
<1>3. Risen'
  BY <1>1 DEF Known, IInv, TypeOK, Founding, Risen, Held, Answered, RequestFails, Goto, GetValue, Got, Fault
<1>4. Held'
  BY <1>1 DEF Known, IInv, TypeOK, Founding, Risen, Held, Answered, RequestFails, Goto, GetValue, Got, Fault
<1>5. Answered'
  BY <1>1 DEF Known, IInv, TypeOK, Founding, Risen, Held, Answered, RequestFails, Goto, GetValue, Got, Fault
<1>6. QED
  BY <1>1, <1>2, <1>3, <1>4, <1>5 DEF Known, IInv

LEMMA CrashKeeps ==
    ASSUME IInv, NEW c \in Clients, Crash(c)
    PROVE  IInv'
<1>1. TypeOK'
  BY DEF Known, IInv, TypeOK, Founding, Risen, Held, Answered, Crash, Goto, GetValue, Got, Fault
<1>2. Founding'
  BY <1>1 DEF Known, IInv, TypeOK, Founding, Risen, Held, Answered, Crash, Goto, GetValue, Got, Fault
<1>3. Risen'
  BY <1>1 DEF Known, IInv, TypeOK, Founding, Risen, Held, Answered, Crash, Goto, GetValue, Got, Fault
<1>4. Held'
  BY <1>1 DEF Known, IInv, TypeOK, Founding, Risen, Held, Answered, Crash, Goto, GetValue, Got, Fault
<1>5. Answered'
  BY <1>1 DEF Known, IInv, TypeOK, Founding, Risen, Held, Answered, Crash, Goto, GetValue, Got, Fault
<1>6. QED
  BY <1>1, <1>2, <1>3, <1>4, <1>5 DEF Known, IInv

\* Every step keeps the invariant.
LEMMA StepInvariant == IInv /\ [Next]_vars => IInv'
<1> SUFFICES ASSUME IInv, [Next]_vars PROVE IInv'
  OBVIOUS
<1>1. CASE UNCHANGED vars
  BY <1>1 DEF vars, Known, IInv, TypeOK, Founding, Risen, Held, Answered
<1>2. CASE Next
  <2>1. PICK c \in Clients :
          \/ Construct(c) \/ CallNext(c) \/ Call(c)
          \/ AnswerLost(c) \/ RequestFails(c) \/ Crash(c)
    BY <1>2 DEF Next
  <2>2. QED
    BY <2>1, ConstructKeeps, CallNextKeeps, InitGetKeeps, InitPutKeeps, GetKeeps,
       PutKeeps, ConflictKeeps, GetAgainKeeps, AnswerLostKeeps, RequestFailsKeeps,
       CrashKeeps DEF Call
<1>3. QED
  BY <1>1, <1>2

LEMMA Invariant == Spec => []IInv
<1>1. QED
  BY InitInvariant, StepInvariant, PTL DEF Spec

\* The item and the objects of the clients keep their types, and what is past
\* its constructor finds the item.
THEOREM TypeCorrect == Spec => []TypeOK
<1>1. IInv => TypeOK
  BY DEF IInv
<1>2. QED
  BY Invariant, <1>1, PTL

-----------------------------------------------------------------------------
(* The refinement.                                                         *)

LEMMA AbstractInit == Init => Abstract!Init
  BY DEF Init, Abstract!Init, Turn, Next1

\* What the steps of one client are to the counter.
LEMMA PutTakes ==
    ASSUME IInv, NEW c \in Clients, Put(c) \/ (AnswerLost(c) /\ pc[c] = "put")
    PROVE  Abstract!Take(c)
<1>1. Expected(c) /\ pc[c] \in {"put", "put_again"}
  BY DEF Put, AnswerLost
<1>2. /\ Known /\ pc[c] = "put" /\ current \in Nat
      /\ current' = Abstract!Following(fnc, current) /\ current' \in Nat
  BY <1>1, WriteRises DEF Put, AnswerLost
<1>3. pc' = [pc EXCEPT ![c] = "get_again"] \/ pc' = [pc EXCEPT ![c] = "put_again"]
  BY <1>2 DEF Put, AnswerLost, Goto
<1>4. UNCHANGED <<fnc, answer>>
  BY DEF Put, AnswerLost
<1>5. QED
  BY <1>2, <1>3, <1>4 DEF Abstract!Take, Turn, IInv, TypeOK

LEMMA BootstrapStutters ==
    ASSUME IInv, NEW c \in Clients,
           InitPut(c) \/ (AnswerLost(c) /\ pc[c] = "init_put")
    PROVE  UNCHANGED Abstract!vars
<1>1. current \in {None, initVal} /\ current' = initVal
  BY BootstrapKeeps DEF InitPut, AnswerLost
<1>2. pc' = [pc EXCEPT ![c] = "ready"] \/ pc' = pc
  BY DEF InitPut, AnswerLost, Goto, IInv, TypeOK
<1>3. pc[c] = "init_put" /\ UNCHANGED <<fnc, initVal, answer>>
  BY DEF InitPut, AnswerLost
<1>4. [d \in Clients |-> Turn(d)]' = [d \in Clients |-> Turn(d)]
  BY <1>2, <1>3 DEF Turn, IInv, TypeOK
<1>5. QED
  BY <1>1, <1>3, <1>4 DEF Abstract!vars, IInv, TypeOK

LEMMA GetAgainAnswers ==
    ASSUME IInv, NEW c \in Clients, GetAgain(c)
    PROVE  Abstract!Answer(c)
<1>1. current # None /\ current' = current
  BY DEF GetAgain, IInv, TypeOK, Founding, Known
<1>2. QED
  BY <1>1 DEF GetAgain, GetValue, Got, Goto, Abstract!Answer, Turn, IInv, TypeOK

LEMMA QuietStutters ==
    ASSUME IInv, NEW c \in Clients, Construct(c) \/ InitGet(c) \/ Get(c)
    PROVE  UNCHANGED Abstract!vars
<1>1. [d \in Clients |-> Turn(d)]' = [d \in Clients |-> Turn(d)]
  BY DEF Construct, InitGet, Get, Goto, Turn, IInv, TypeOK
<1>2. QED
  BY <1>1 DEF Construct, InitGet, Get, Abstract!vars

LEMMA CallAsks ==
    ASSUME IInv, NEW c \in Clients, CallNext(c)
    PROVE  Abstract!Ask(c)
  BY DEF CallNext, Goto, Abstract!Ask, Turn, IInv, TypeOK

LEMMA FailureGivesUp ==
    ASSUME IInv, NEW c \in Clients, Conflict(c) \/ RequestFails(c) \/ Crash(c)
    PROVE  Abstract!GiveUp(c) \/ UNCHANGED Abstract!vars
<1>1. /\ UNCHANGED <<fnc, initVal, current, answer>>
      /\ pc' = [pc EXCEPT ![c] = "ready"] \/ pc' = [pc EXCEPT ![c] = "off"]
  BY DEF Conflict, RequestFails, Crash, Goto
<1>2. CASE pc[c] \in {"get", "put", "put_again", "get_again"}
  BY <1>1, <1>2 DEF Abstract!GiveUp, Turn, IInv, TypeOK
<1>3. CASE pc[c] \notin {"get", "put", "put_again", "get_again"}
  <2>1. [d \in Clients |-> Turn(d)]' = [d \in Clients |-> Turn(d)]
    BY <1>1, <1>3 DEF Turn, IInv, TypeOK
  <2>2. QED
    BY <1>1, <2>1 DEF Abstract!vars
<1>4. QED
  BY <1>2, <1>3

LEMMA AbstractStep == IInv /\ [Next]_vars => [Abstract!Next]_(Abstract!vars)
<1> SUFFICES ASSUME IInv, [Next]_vars PROVE [Abstract!Next]_(Abstract!vars)
  OBVIOUS
<1>1. CASE UNCHANGED vars
  BY <1>1 DEF vars, Abstract!vars, Turn
<1>2. CASE Next
  <2>1. PICK c \in Clients :
          \/ Construct(c) \/ CallNext(c) \/ Call(c)
          \/ AnswerLost(c) \/ RequestFails(c) \/ Crash(c)
    BY <1>2 DEF Next
  <2>2. AnswerLost(c) => pc[c] \in {"put", "init_put"}
    BY DEF AnswerLost
  <2>3. QED
    BY <2>1, <2>2, PutTakes, BootstrapStutters, GetAgainAnswers, QuietStutters,
       CallAsks, FailureGivesUp DEF Call, Abstract!Next
<1>3. QED
  BY <1>1, <1>2

\* The clients of a sequence implement Counter, for any number of clients,
\* calls and faults: every write moves the value to the one that follows.
THEOREM ClientsCount == Spec => IsCounter
<1>1. QED
  BY Invariant, AbstractInit, AbstractStep, PTL DEF Spec, IsCounter, Abstract!Spec

\* Each time next returns, it returns more to the client than the time before.
THEOREM AnswersRise == Spec => StrictlyRising
<1>1. ASSUME IInv, NEW c \in Clients, GetAgain(c), answer[c] # None
      PROVE  answer'[c] > answer[c]
  <2>1. answer'[c] = Got(c)
    BY <1>1 DEF GetAgain, IInv, TypeOK
  <2>2. Known /\ current \in Nat /\ answer[c] \in Nat /\ answer[c] < current
    BY <1>1 DEF GetAgain, IInv, TypeOK, Answered
  <2>3. QED
    BY <2>1, <2>2 DEF Got
<1>2. IInv =>
        [\A c \in Clients : GetAgain(c) /\ answer[c] # None => answer'[c] > answer[c]]_vars
  BY <1>1
<1>3. QED
  BY Invariant, <1>2, PTL DEF Spec, StrictlyRising
=============================================================================
