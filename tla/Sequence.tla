------------------------------ MODULE Sequence ------------------------------
(***************************************************************************)
(* Sequence of src/boto/sdb/db/sequence.py: clients that count with one    *)
(* item of SimpleDB, which they read consistently and write on the         *)
(* condition that its value is the one they read.                          *)
(*                                                                         *)
(* The sequence has a random id: the client that creates it has done so    *)
(* before others learn the id and construct theirs, with the same function *)
(* and initial value.  Requests fail, and their answers get lost, after    *)
(* which the connection sends them again.                                  *)
(***************************************************************************)
EXTENDS Integers

CONSTANTS
    Clients,
    Creator,      \* the client that made up the id
    None,
    GivenInits,   \* values of init_val that callers pass
    MaxCalls, MaxFaults

ASSUME CreatorAssumption == Creator \in Clients
ASSUME NoneAssumption == None \notin Nat
ASSUME InitsAssumption == GivenInits \subseteq Nat \ {0}
ASSUME BoundsAssumption == MaxCalls \in Nat /\ MaxFaults \in Nat

VARIABLES
    fnc, initVal, \* the arguments of the constructor
    current,      \* current_value of the item, None without the item
    id,           \* whether others know the id, or it is new
    pc,           \* each client's control
    val,          \* each object's _value
    answer,       \* what next returned last to each client
    calls, faults

vars == <<fnc, initVal, current, id, pc, val, answer, calls, faults>>

\* increment_by_one and double.
Next1(f, cv) ==
    IF cv = None THEN IF f = "double" THEN 1 ELSE 0
    ELSE IF f = "double" THEN 2 * cv ELSE cv + 1

Known == id = "known"

Init ==
    /\ fnc \in {"increment_by_one", "double"}
    /\ initVal \in {Next1(fnc, None)} \union GivenInits
    /\ current = None /\ id = "new"
    /\ pc = [c \in Clients |-> "off"]
    /\ val = [c \in Clients |-> None]
    /\ answer = [c \in Clients |-> None]
    /\ calls = 0 /\ faults = 0

Goto(c, step) == pc' = [pc EXCEPT ![c] = step]

\* Sequence(id): the constructor begins.
Construct(c) ==
    /\ pc[c] = "off"
    /\ Known \/ c = Creator
    /\ Goto(c, "init_get")
    /\ val' = [val EXCEPT ![c] = None]
    /\ UNCHANGED <<fnc, initVal, current, id, answer, calls, faults>>

\* Faulty: the id is given out before the first value is set.
InitGetKnown(c) ==
    /\ pc[c] = "init_get"
    /\ val' = [val EXCEPT ![c] = IF current # None THEN current ELSE val[c]]
    /\ Goto(c, IF current \in {None, 0} THEN "init_put" ELSE "ready")
    /\ id' = "known"
    /\ UNCHANGED <<fnc, initVal, current, answer, calls, faults>>

\* get: a consistent read; without the item _value stays as it is.
Got(c) == IF current # None THEN current ELSE val[c]
GetValue(c) == val' = [val EXCEPT ![c] = Got(c)]

\* The constructor sets the first value if there is none, or if it is 0.
InitGet(c) ==
    /\ pc[c] = "init_get"
    /\ GetValue(c)
    /\ Goto(c, IF Got(c) \in {None, 0} THEN "init_put" ELSE "ready")
    /\ UNCHANGED <<fnc, initVal, current, id, answer, calls, faults>>

\* The condition of a write: the value the object has read, if any.
Expected(c) == val[c] = None \/ val[c] = current

InitPut(c) ==
    /\ pc[c] = "init_put" /\ Expected(c)
    /\ current' = initVal
    /\ id' = "known"
    /\ Goto(c, "ready")
    /\ UNCHANGED <<fnc, initVal, val, answer, calls, faults>>

\* next: the value is read, and the object's control is before the write.
CallNext(c) ==
    /\ pc[c] = "ready" /\ calls < MaxCalls
    /\ calls' = calls + 1
    /\ Goto(c, "get")
    /\ UNCHANGED <<fnc, initVal, current, id, val, answer, faults>>

Get(c) ==
    /\ pc[c] = "get"
    /\ GetValue(c)
    /\ Goto(c, "put")
    /\ UNCHANGED <<fnc, initVal, current, id, answer, calls, faults>>

\* Faulty: a write without its condition.
PutAlways(c) ==
    /\ pc[c] \in {"put", "put_again"}
    /\ current' = Next1(fnc, val[c])
    /\ Goto(c, "get_again")
    /\ UNCHANGED <<fnc, initVal, id, val, answer, calls, faults>>

Put(c) ==
    /\ pc[c] \in {"put", "put_again"} /\ Expected(c)
    /\ current' = Next1(fnc, val[c])
    /\ Goto(c, "get_again")
    /\ UNCHANGED <<fnc, initVal, id, val, answer, calls, faults>>

\* Faulty: the write is tried again with the same value.
ConflictRetried(c) ==
    /\ pc[c] \in {"init_put", "put", "put_again"} /\ ~Expected(c)
    /\ UNCHANGED vars

\* 409: ValueError, out of next or out of the constructor.
Conflict(c) ==
    /\ pc[c] \in {"init_put", "put", "put_again"} /\ ~Expected(c)
    /\ Goto(c, IF pc[c] = "init_put" THEN "off" ELSE "ready")
    /\ UNCHANGED <<fnc, initVal, current, id, val, answer, calls, faults>>

\* Faulty: next reads without asking for consistency.
GetAgainStale(c) ==
    /\ pc[c] = "get_again"
    /\ \E v \in {initVal, current} :
          /\ val' = [val EXCEPT ![c] = v]
          /\ answer' = [answer EXCEPT ![c] = v]
    /\ Goto(c, "ready")
    /\ UNCHANGED <<fnc, initVal, current, id, calls, faults>>

\* next returns the value as it is by now.
GetAgain(c) ==
    /\ pc[c] = "get_again"
    /\ GetValue(c)
    /\ answer' = [answer EXCEPT ![c] = Got(c)]
    /\ Goto(c, "ready")
    /\ UNCHANGED <<fnc, initVal, current, id, calls, faults>>

Fault == faults < MaxFaults /\ faults' = faults + 1

\* A write is done but its answer lost: the connection sends it again.
AnswerLost(c) ==
    /\ pc[c] \in {"init_put", "put"} /\ Expected(c) /\ Fault
    /\ current' = IF pc[c] = "put" THEN Next1(fnc, val[c]) ELSE initVal
    /\ Goto(c, IF pc[c] = "put" THEN "put_again" ELSE pc[c])
    /\ UNCHANGED <<fnc, initVal, id, val, answer, calls>>

\* A request fails for good: the exception leaves next or the constructor.
RequestFails(c) ==
    /\ pc[c] \in {"init_get", "init_put", "get", "put", "put_again", "get_again"}
    /\ Fault
    /\ Known \/ pc[c] \notin {"init_get", "init_put"}
    /\ Goto(c, IF pc[c] \in {"init_get", "init_put"} THEN "off" ELSE "ready")
    /\ UNCHANGED <<fnc, initVal, current, id, val, answer, calls>>

\* A client's process dies; another constructs its object anew.
Crash(c) ==
    /\ Known /\ pc[c] # "off" /\ Fault
    /\ Goto(c, "off")
    /\ UNCHANGED <<fnc, initVal, current, id, val, answer, calls>>

Call(c) == InitGet(c) \/ InitPut(c) \/ Get(c) \/ Put(c) \/ Conflict(c) \/ GetAgain(c)
Next ==
    \E c \in Clients :
        \/ Construct(c) \/ CallNext(c) \/ Call(c)
        \/ AnswerLost(c) \/ RequestFails(c) \/ Crash(c)

\* Every request is answered or fails; no one has to call next.
Fairness == \A c \in Clients : WF_vars(Call(c))
Spec == Init /\ [][Next]_vars /\ Fairness

-----------------------------------------------------------------------------
(* What the clients see of it.                                             *)

Turn(c) ==
    CASE pc[c] \in {"get", "put"} -> "asked"
      [] pc[c] \in {"put_again", "get_again"} -> "took"
      [] OTHER -> "none"

Abstract == INSTANCE Counter WITH
    value <- IF current = None THEN initVal ELSE current,
    turn <- [c \in Clients |-> Turn(c)]

\* The types of the item and of the clients' objects; an object that is past
\* its constructor finds the item there.
TypeOK ==
    /\ fnc \in {"increment_by_one", "double"}
    /\ initVal \in Nat /\ (fnc = "double" => initVal > 0)
    /\ current \in Nat \union {None} /\ id \in {"new", "known"}
    /\ Known => current # None
    /\ pc \in [Clients -> {"off", "init_get", "init_put", "ready", "get", "put",
                            "put_again", "get_again"}]
    /\ val \in [Clients -> Nat \union {None}]
    /\ answer \in [Clients -> Nat \union {None}]
    /\ calls \in Nat /\ faults \in Nat

\* The clients implement a counter: the value only ever moves to the one that
\* follows, once per call, whatever clients start, fail, die or write again
\* what was already written; and no constructor sets it back.
IsCounter == Abstract!Spec

\* What next returns to a client is more than what it returned to it before,
\* never less and never the same again, also across calls that failed and
\* after the client has started anew.
StrictlyRising ==
    [][\A c \in Clients : GetAgain(c) /\ answer[c] # None => answer'[c] > answer[c]]_vars

\* Every constructor and every call of next ends, with a value or an error:
\* no client waits for another.
EveryCallEnds == \A c \in Clients : pc[c] \notin {"off", "ready"} ~> pc[c] \in {"off", "ready"}
=============================================================================
