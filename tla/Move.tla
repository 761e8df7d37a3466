-------------------------------- MODULE Move --------------------------------
(***************************************************************************)
(* gsutil mv with a wildcard, of src/gslib/commands/mv.py: it lists the    *)
(* source bucket (BucketLister), runs cp and then rm over the keys it      *)
(* found (ParallelApply twice), in other processes and threads if -m says  *)
(* so, while other clients change the bucket and calls fail.               *)
(*                                                                         *)
(* The destination is a container in another bucket: cp names each object  *)
(* there by the last component of its source's name.                       *)
(***************************************************************************)
EXTENDS BucketLister, ParallelApply, SequencesExt

CONSTANT Name     \* the last component of each key's name

ASSUME UrisAreKeys == Uris = Keys
ASSUME NameAssumption == Name \in [Keys -> Nat]

VARIABLES
    cmd,          \* the command that runs, or mv's outcome
    dst,          \* source last copied to each name of the destination, or NoKey
    copied,       \* history: keys that arrived at the destination
    removed       \* history: keys that rm took from the bucket

moveVars == <<cmd, dst, copied, removed>>
vars == <<listVars, applyVars, moveVars>>

Names == {Name[x] : x \in Keys}

Init ==
    /\ ListInit /\ ApplyInit
    /\ cmd = "list"
    /\ dst = [n \in Names |-> NoKey]
    /\ copied = {} /\ removed = {}

List == ListStep /\ cmd = "list" /\ UNCHANGED <<applyVars, moveVars>>

Others == ChangeBucket /\ UNCHANGED <<applyVars, moveVars>>

ListingFails ==
    /\ cmd = "list" /\ lpc = "failed"
    /\ cmd' = "error"
    /\ UNCHANGED <<listVars, applyVars, dst, copied, removed>>

\* The URIs that were listed are the keys of a dictionary: in any order.
Expansion == SetToSeqs({listed[i] : i \in 1..Len(listed)})

StartCp ==
    /\ cmd = "list" /\ lpc = "listed"
    /\ \E uris \in Expansion : StartApply(uris, TRUE)
    /\ cmd' = "cp"
    /\ UNCHANGED <<listVars, dst, copied, removed>>

\* cp raises if a call raised, or if everything_copied_okay says so; with
\* several processes, its own has not changed.
Reported == Alone /\ (main[1] = "raised" \/ ~okay[1])

\* Faulty: mv goes on to rm whatever cp's outcome.
CpEndsAnyway ==
    /\ cmd = "cp" /\ Joined
    /\ \E uris \in Expansion : StartApply(uris, FALSE)
    /\ cmd' = "rm"
    /\ UNCHANGED <<listVars, dst, copied, removed>>

CpEnds ==
    /\ cmd = "cp" /\ Joined
    /\ IF Reported
       THEN cmd' = "error" /\ UNCHANGED applyVars
       ELSE cmd' = "rm" /\ \E uris \in Expansion : StartApply(uris, FALSE)
    /\ UNCHANGED <<listVars, dst, copied, removed>>

RmEnds ==
    /\ cmd = "rm" /\ Joined
    /\ cmd' = IF Reported THEN "error" ELSE "ok"
    /\ UNCHANGED <<listVars, applyVars, dst, copied, removed>>

\* A call of the function, by a thread or by the main thread.
Call(p, u, ok) ==
    \/ RunsHere(p, u, ok)
    \/ \E w \in Threads : Runs(p, w, u, ok)

\* _CopyFunc: the source has to be there.
CopyFunc(p, u, ok) ==
    /\ cmd = "cp" /\ Call(p, u, ok)
    /\ IF ok
       THEN /\ u \in bucket
            /\ dst' = [dst EXCEPT ![Name[u]] = u]
            /\ copied' = copied \union {u}
       ELSE UNCHANGED <<dst, copied>>
    /\ UNCHANGED <<listVars, cmd, removed>>

\* _RemoveFunc: removing what is not there succeeds or fails, as the
\* provider sees it.
RemoveFunc(p, u, ok) ==
    /\ cmd = "rm" /\ Call(p, u, ok)
    /\ IF ok
       THEN /\ bucket' = bucket \ {u} /\ stayed' = stayed \ {u}
            /\ removed' = removed \union (bucket \intersect {u})
       ELSE UNCHANGED <<bucket, stayed, removed>>
    /\ UNCHANGED <<lpc, marker, k, page, nextMarker, moreResults, listed, changes,
                   cmd, dst, copied>>

\* The processes' steps between the calls.
Steps(p) == ApplyStep(p) /\ UNCHANGED <<listVars, moveVars>>

KillChild(p) == Kill(p) /\ UNCHANGED <<listVars, moveVars>>

Calls(p) == \E u \in Uris, ok \in BOOLEAN : CopyFunc(p, u, ok) \/ RemoveFunc(p, u, ok)

Gsutil == List \/ ListingFails \/ StartCp \/ CpEnds \/ RmEnds

Next ==
    \/ Gsutil
    \/ \E p \in Procs : Steps(p) \/ Calls(p) \/ KillChild(p)
    \/ Others

\* Processes and threads are scheduled, and every request is answered or
\* fails.
Fairness == WF_vars(Gsutil) /\ \A p \in Procs : WF_vars(Steps(p)) /\ WF_vars(Calls(p))
Spec == Init /\ [][Next]_vars /\ Fairness

-----------------------------------------------------------------------------
(* Properties.                                                             *)

\* The types of the listing, of the processes and of mv, at every point: a
\* queue never holds more than a task for each thread.
TypeOK ==
    /\ ListTypeOK /\ ApplyTypeOK
    /\ \A p \in Procs : Len(tasks[p]) <= config[2]
    /\ cmd \in {"list", "cp", "rm", "ok", "error"}
    /\ dst \in [Names -> Keys \union {NoKey}]
    /\ copied \subseteq Keys /\ removed \subseteq copied \union Keys

\* mv in one process takes no object from the source before that object has
\* arrived at the destination; and what arrived is still there unless the
\* destination's name is that of another source too.
NoLoss ==
    Alone => /\ removed \subseteq copied
             /\ \A x \in copied : dst[Name[x]] = x \/ \E y \in copied \ {x} : dst[Name[x]] = y /\ Name[y] = Name[x]

\* Each URI is dealt to exactly one process and task: the function is called
\* for it at most once, and if no process died, exactly once by the time all
\* have ended.
CalledOnce ==
    /\ \A u \in Uris : tries[u] <= 1
    /\ (cmd \in {"cp", "rm"} /\ Joined /\ \A p \in Procs : main[p] # "raised")
          => \A i \in 1..Len(listed) : tries[listed[i]] = 1

\* The bytes that cp reports are never more than what arrived.  What several
\* processes add to the shared integer may get lost, but not all of it: the
\* integer shows a sum, as far as a C int can, that is honest and no less than
\* what one of them copied.
CountHonest ==
    (cmd = "cp" /\ Joined) =>
        IF Alone THEN total[1] <= Cardinality(copied)
        ELSE \E sum \in 0..Cardinality(copied) :
                /\ count = Wrapped(sum)
                /\ (\E p \in Procs : main[p] = "done") =>
                      \E p \in Procs : main[p] = "done" /\ sum >= total[p]

\* mv ends, whatever fails, dies or changes: the threads take the exit values
\* and none waits for ever at a queue.
MoveEnds == <>(cmd \in {"ok", "error"})

\* mv takes an object from the source only after it has arrived at the
\* destination, in every mode: CopyObjsCommand "Used to track if any files
\* failed to copy over" raises if one did not.
MovedIsCopied == removed \subseteq copied
=============================================================================
