---------------------------- MODULE ParallelApply ----------------------------
(***************************************************************************)
(* Running a function for many URIs: Command.Apply and ApplyThreads of     *)
(* src/gslib/command.py, and ThreadPool of src/gslib/thread_pool.py.       *)
(*                                                                         *)
(* The URIs are dealt out to processes.  In each, the main thread feeds a  *)
(* bounded queue from which threads take tasks; an exception is passed to  *)
(* a handler, which sets a flag of its own process.  What the function     *)
(* does is left to the module that uses this one: Runs and RunsHere are    *)
(* the steps in which it is called.                                        *)
(***************************************************************************)
EXTENDS Integers, FiniteSets, Sequences

CONSTANTS
    Uris,         \* URIs to process
    Configs,      \* pairs of process_count and thread_count
    MaxProcs, MaxThreads,
    Idle,         \* a thread without a task
    Exit,         \* _THREAD_EXIT_MAGIC, and a thread that took it
    IntSize,      \* values of a C int: the shared integer has no others
    MaxKills      \* bound: processes that are killed

ASSUME ConfigsAssumption ==
    /\ MaxProcs \in Nat /\ MaxThreads \in Nat /\ MaxKills \in Nat
    /\ Configs \subseteq (1..MaxProcs) \X (1..MaxThreads)
ASSUME IntAssumption == IntSize \in Nat \ {0}
ASSUME TaskNames == Idle \notin Uris /\ Exit \notin Uris /\ Idle # Exit

VARIABLES
    config,       \* the pair in use
    counted,      \* the command keeps total_bytes_transferred
    main,         \* control of the main thread of each process
    todo,         \* assigned_uris of each process, not handed out yet
    tasks,        \* the queue of each ThreadPool
    unfinished,   \* tasks put and not yet done, of each queue
    worker,       \* what each thread works on
    magics,       \* exit values Shutdown has yet to put
    okay,         \* everything_copied_okay of each process
    total,        \* total_bytes_transferred of each process
    count,        \* the shared integer, multiprocessing.Value('i')
    register,     \* count.value as a process has read it
    kills,
    tries         \* history: how often the function was called for a URI

applyVars == <<config, counted, main, todo, tasks, unfinished, worker, magics,
               okay, total, count, register, kills, tries>>

Procs == 1..MaxProcs
Threads == 1..MaxThreads
Threaded == config[2] > 1
\* Only one OS process: the calling one, number 1.
Alone == config[1] = 1
Pool == 1..config[2]

Running == {"feed", "join", "shutdown", "reap", "count", "store"}

ApplyInit ==
    /\ config \in Configs /\ counted = FALSE
    /\ main = [p \in Procs |-> "off"]
    /\ todo = [p \in Procs |-> <<>>]
    /\ tasks = [p \in Procs |-> <<>>]
    /\ unfinished = [p \in Procs |-> 0]
    /\ worker = [p \in Procs |-> [w \in Threads |-> Exit]]
    /\ magics = [p \in Procs |-> 0]
    /\ okay = [p \in Procs |-> TRUE]
    /\ total = [p \in Procs |-> 0]
    /\ count = 0 /\ register = [p \in Procs |-> 0]
    /\ kills = 0
    /\ tries = [u \in Uris |-> 0]

\* Faulty: the last round of the deal is left out.
AssignedRounds(uris, p) ==
    LET n == config[1]
        size == Len(uris) \div n
    IN  IF p > n THEN <<>> ELSE [i \in 1..size |-> uris[(i - 1) * n + p]]

\* assigned_uris: the URIs in turn, to one process after the other.
Assigned(uris, p) ==
    LET n == config[1]
        size == (Len(uris) + n - p) \div n
    IN  IF p > n THEN <<>> ELSE [i \in 1..size |-> uris[(i - 1) * n + p]]

\* Apply starts a process for each shard that has URIs, each with a pool.
StartApply(uris, counts) ==
    /\ todo' = [p \in Procs |-> Assigned(uris, p)]
    /\ main' = [p \in Procs |-> IF Assigned(uris, p) = <<>> THEN "off" ELSE "feed"]
    /\ worker' = [p \in Procs |-> [w \in Threads |->
                    IF Threaded /\ w \in Pool THEN Idle ELSE Exit]]
    /\ magics' = [p \in Procs |-> IF Threaded THEN config[2] ELSE 0]
    /\ tasks' = [p \in Procs |-> <<>>]
    /\ unfinished' = [p \in Procs |-> 0]
    /\ okay' = [p \in Procs |-> TRUE]
    /\ total' = [p \in Procs |-> 0]
    /\ counted' = counts
    /\ count' = 0 /\ register' = [p \in Procs |-> 0]
    /\ tries' = [u \in Uris |-> 0]
    /\ UNCHANGED <<config, kills>>

MainGoto(p, step) == main' = [main EXCEPT ![p] = step]

-----------------------------------------------------------------------------
(* The main thread of process p.                                           *)

\* Faulty: the queue has no bound.
AddTaskUnbounded(p) ==
    /\ main[p] = "feed" /\ Threaded
    /\ todo[p] # <<>>
    /\ tasks' = [tasks EXCEPT ![p] = Append(@, Head(todo[p]))]
    /\ unfinished' = [unfinished EXCEPT ![p] = @ + 1]
    /\ todo' = [todo EXCEPT ![p] = Tail(@)]
    /\ UNCHANGED <<config, counted, main, worker, magics, okay, total, count,
                   register, kills, tries>>

\* AddTask: put blocks while the queue holds as many tasks as there are
\* threads.
AddTask(p) ==
    /\ main[p] = "feed" /\ Threaded
    /\ todo[p] # <<>> /\ Len(tasks[p]) < config[2]
    /\ tasks' = [tasks EXCEPT ![p] = Append(@, Head(todo[p]))]
    /\ unfinished' = [unfinished EXCEPT ![p] = @ + 1]
    /\ todo' = [todo EXCEPT ![p] = Tail(@)]
    /\ UNCHANGED <<config, counted, main, worker, magics, okay, total, count,
                   register, kills, tries>>

\* Without threads the main thread calls the function; an exception ends the
\* process, or the command if there is but one.
RunsHere(p, u, ok) ==
    /\ main[p] = "feed" /\ ~Threaded
    /\ todo[p] # <<>> /\ u = Head(todo[p])
    /\ tries' = [tries EXCEPT ![u] = @ + 1]
    /\ todo' = [todo EXCEPT ![p] = Tail(@)]
    /\ total' = [total EXCEPT ![p] = IF ok THEN @ + 1 ELSE @]
    /\ IF ok THEN UNCHANGED main ELSE MainGoto(p, "raised")
    /\ UNCHANGED <<config, counted, tasks, unfinished, worker, magics, okay,
                   count, register, kills>>

FeedEnds(p) ==
    /\ main[p] = "feed" /\ todo[p] = <<>>
    /\ MainGoto(p, IF Threaded THEN "join" ELSE "count")
    /\ UNCHANGED <<config, counted, todo, tasks, unfinished, worker, magics, okay,
                   total, count, register, kills, tries>>

WaitCompletion(p) ==
    /\ main[p] = "join" /\ unfinished[p] = 0
    /\ MainGoto(p, "shutdown")
    /\ UNCHANGED <<config, counted, todo, tasks, unfinished, worker, magics, okay,
                   total, count, register, kills, tries>>

\* Faulty: one exit value is put for all threads.
ShutdownOnce(p) ==
    /\ main[p] = "shutdown" /\ Len(tasks[p]) < config[2]
    /\ tasks' = [tasks EXCEPT ![p] = Append(@, Exit)]
    /\ unfinished' = [unfinished EXCEPT ![p] = @ + 1]
    /\ magics' = [magics EXCEPT ![p] = 0]
    /\ MainGoto(p, "reap")
    /\ UNCHANGED <<config, counted, todo, worker, okay, total, count, register,
                   kills, tries>>

\* Shutdown puts an exit value for each thread, then joins the threads.
Shutdown(p) ==
    /\ main[p] = "shutdown" /\ Len(tasks[p]) < config[2]
    /\ tasks' = [tasks EXCEPT ![p] = Append(@, Exit)]
    /\ unfinished' = [unfinished EXCEPT ![p] = @ + 1]
    /\ magics' = [magics EXCEPT ![p] = @ - 1]
    /\ MainGoto(p, IF magics[p] = 1 THEN "reap" ELSE "shutdown")
    /\ UNCHANGED <<config, counted, todo, worker, okay, total, count, register,
                   kills, tries>>

JoinThreads(p) ==
    /\ main[p] = "reap" /\ \A w \in Pool : worker[p][w] = Exit
    /\ MainGoto(p, "count")
    /\ UNCHANGED <<config, counted, todo, tasks, unfinished, worker, magics, okay,
                   total, count, register, kills, tries>>

\* count.value += total: the wrapper locks the read and the write, each for
\* itself.
ReadCount(p) ==
    /\ main[p] = "count"
    /\ IF counted /\ ~Alone
       THEN MainGoto(p, "store") /\ register' = [register EXCEPT ![p] = count]
       ELSE MainGoto(p, "done") /\ UNCHANGED register
    /\ UNCHANGED <<config, counted, todo, tasks, unfinished, worker, magics, okay,
                   total, count, kills, tries>>

\* A number as a C int holds it: past the greatest come the negative ones.
Wrapped(n) == ((n + (IntSize \div 2)) % IntSize) - (IntSize \div 2)

WriteCount(p) ==
    /\ main[p] = "store"
    /\ count' = Wrapped(register[p] + total[p])
    /\ MainGoto(p, "done")
    /\ UNCHANGED <<config, counted, todo, tasks, unfinished, worker, magics, okay,
                   total, register, kills, tries>>

-----------------------------------------------------------------------------
(* Thread w of process p: Worker.run.                                      *)

GetTask(p, w) ==
    /\ main[p] \in Running
    /\ worker[p][w] = Idle /\ tasks[p] # <<>>
    /\ worker' = [worker EXCEPT ![p][w] = Head(tasks[p])]
    /\ tasks' = [tasks EXCEPT ![p] = Tail(@)]
    /\ UNCHANGED <<config, counted, main, todo, unfinished, magics, okay, total,
                   count, register, kills, tries>>

\* Faulty: the bytes are counted before the copy is made.
RunsCountsFirst(p, w, u, ok) ==
    /\ main[p] \in Running
    /\ u \in Uris /\ worker[p][w] = u
    /\ tries' = [tries EXCEPT ![u] = @ + 1]
    /\ total' = [total EXCEPT ![p] = @ + 1]
    /\ okay' = [okay EXCEPT ![p] = @ /\ ok]
    /\ worker' = [worker EXCEPT ![p][w] = Idle]
    /\ unfinished' = [unfinished EXCEPT ![p] = @ - 1]
    /\ UNCHANGED <<config, counted, main, todo, tasks, magics, count, register,
                   kills>>

\* The function is called; an exception is passed to the handler, and in the
\* finally the task is done.
Runs(p, w, u, ok) ==
    /\ main[p] \in Running
    /\ u \in Uris /\ worker[p][w] = u
    /\ tries' = [tries EXCEPT ![u] = @ + 1]
    /\ total' = [total EXCEPT ![p] = IF ok THEN @ + 1 ELSE @]
    /\ okay' = [okay EXCEPT ![p] = @ /\ ok]
    /\ worker' = [worker EXCEPT ![p][w] = Idle]
    /\ unfinished' = [unfinished EXCEPT ![p] = @ - 1]
    /\ UNCHANGED <<config, counted, main, todo, tasks, magics, count, register,
                   kills>>

\* A child process is killed: join returns whatever its exit code.
Kill(p) ==
    /\ ~Alone /\ main[p] \in Running
    /\ kills < MaxKills
    /\ kills' = kills + 1
    /\ MainGoto(p, "raised")
    /\ UNCHANGED <<config, counted, todo, tasks, unfinished, worker, magics, okay,
                   total, count, register, tries>>

\* What the threads do between the calls of the function.
ApplyStep(p) ==
    \/ AddTask(p) \/ FeedEnds(p) \/ WaitCompletion(p) \/ Shutdown(p)
    \/ JoinThreads(p) \/ ReadCount(p) \/ WriteCount(p)
    \/ \E w \in Threads : GetTask(p, w)

Joined == \A p \in Procs : main[p] \in {"off", "done", "raised"}
-----------------------------------------------------------------------------
(* Properties.                                                             *)

ApplyTypeOK ==
    /\ config \in Configs /\ counted \in BOOLEAN
    /\ main \in [Procs -> Running \union {"off", "done", "raised"}]
    /\ todo \in [Procs -> Seq(Uris)]
    /\ tasks \in [Procs -> Seq(Uris \union {Exit})]
    /\ unfinished \in [Procs -> Nat] /\ magics \in [Procs -> Nat]
    /\ worker \in [Procs -> [Threads -> Uris \union {Idle, Exit}]]
    /\ okay \in [Procs -> BOOLEAN]
    /\ total \in [Procs -> Nat] /\ register \in [Procs -> Int]
    /\ count \in Int /\ kills \in Nat
    /\ tries \in [Uris -> Nat]
=============================================================================
