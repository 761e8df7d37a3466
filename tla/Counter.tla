------------------------------- MODULE Counter -------------------------------
(***************************************************************************)
(* What a sequence promises to the clients that share it: a value that     *)
(* only ever moves to the one that follows it.  Each call of next takes    *)
(* one step of the value, and the answer is the value at some moment       *)
(* between that step and the end of the call, which may be another         *)
(* client's.  A call may fail before or after its step.                    *)
(***************************************************************************)
EXTENDS Integers

CONSTANTS
    Clients,
    None          \* a client that has had no answer

VARIABLES
    fnc,          \* the function that gives the following value
    value,
    turn,         \* where each client's call is
    answer        \* the last answer each client had

vars == <<fnc, value, turn, answer>>

\* increment_by_one and double, for a value that is there.
Following(f, v) == IF f = "double" THEN 2 * v ELSE v + 1

Init ==
    /\ fnc \in {"increment_by_one", "double"}
    /\ value \in Nat /\ (fnc = "double" => value > 0)
    /\ turn = [c \in Clients |-> "none"]
    /\ answer = [c \in Clients |-> None]

Ask(c) ==
    /\ turn[c] = "none"
    /\ turn' = [turn EXCEPT ![c] = "asked"]
    /\ UNCHANGED <<fnc, value, answer>>

Take(c) ==
    /\ turn[c] = "asked"
    /\ value' = Following(fnc, value)
    /\ turn' = [turn EXCEPT ![c] = "took"]
    /\ UNCHANGED <<fnc, answer>>

Answer(c) ==
    /\ turn[c] = "took"
    /\ answer' = [answer EXCEPT ![c] = value]
    /\ turn' = [turn EXCEPT ![c] = "none"]
    /\ UNCHANGED <<fnc, value>>

GiveUp(c) ==
    /\ turn[c] \in {"asked", "took"}
    /\ turn' = [turn EXCEPT ![c] = "none"]
    /\ UNCHANGED <<fnc, value, answer>>

Next == \E c \in Clients : Ask(c) \/ Take(c) \/ Answer(c) \/ GiveUp(c)
Spec == Init /\ [][Next]_vars
=============================================================================
