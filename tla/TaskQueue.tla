------------------------------ MODULE TaskQueue ------------------------------
(***************************************************************************)
(* A repeating task of src/boto/manage/task.py, carried by a message of a  *)
(* queue: pollers on any number of servers read the message, run the       *)
(* task's command if it is due, write the message of the next run, save    *)
(* the task and delete the message; start gives the task its message.      *)
(*                                                                         *)
(* The queue (src/boto/sqs) and the store of tasks are external: a message *)
(* that was read is hidden from readers for a while and then comes back,   *)
(* and a read of the store may miss what was saved last.  Each server has  *)
(* a clock of its own.  One task is modelled; others share nothing but the *)
(* queue.  The unit of time is the five seconds that _run sleeps, and a    *)
(* clock that wraps keeps the times finite: each is kept as the time since *)
(* then.                                                                   *)
(***************************************************************************)
EXTENDS Integers, FiniteSets

CONSTANTS
    Pollers,
    Msgs,         \* ids of messages: bound, one that is out of use comes again
    NoMsg,        \* None
    Hours,        \* hours that tasks are given: Every, or one of the day
    Every,        \* '*'
    Never,        \* None, of last_executed
    Hour, HoursPerDay,
    Wait, VTimeout,  \* of poll
    Fresh,        \* whether the task may be one that was never started
    Verbose,      \* whether a command may print more than a pipe holds
    Drift,        \* bound: how far the clocks of the servers are apart
    MaxStale,     \* bound: versions of the task that may be read besides the last
    MaxRun,       \* bound: time a command takes that ends
    MaxFaults     \* bound: calls of start, deaths, and calls, reads of the store
                  \* and of the queue that fall behind

Day == HoursPerDay * Hour

ASSUME TimesAssumption ==
    /\ Hour \in Nat \ {0} /\ HoursPerDay \in Nat \ {0, 1}
    /\ Wait \in Nat \ {0} /\ VTimeout \in Nat \ {0} /\ MaxFaults \in Nat
    /\ Drift \in 0..Day /\ MaxStale \in Nat \ {0} /\ MaxRun \in 0..Day - 1
ASSUME HoursAssumption == Hours \subseteq (0..HoursPerDay - 1) \union {Every}
ASSUME NamesAssumption ==
    /\ NoMsg \notin Msgs /\ Msgs # {} /\ Every \notin Nat /\ Never \notin Int
    /\ Fresh \in BOOLEAN /\ Verbose \in BOOLEAN

VARIABLES
    hour,         \* the task's hour
    clock,        \* time of day, of the slowest clock
    message_id, age,  \* the task as saved: its message, and the time since
                      \* last_executed
    stale,        \* what was saved before, and may still be read
    queue,        \* the messages: the time until each is visible again, and
                  \* who read it last
    poller,       \* what each poller does
    starter,      \* the process that calls start
    starts, late, lags, crashes, misses

taskVars == <<hour, message_id, age, stale>>
boundVars == <<starts, late, lags, crashes, misses>>
vars == <<clock, taskVars, queue, poller, starter, boundVars>>

InQueue == DOMAIN queue
Visible == {m \in InQueue : queue[m].hidden = 0}
Daily == hour # Every

\* A time since then: past two days only the time of day matters.
Since(t) == IF t < 3 * Day THEN t ELSE 2 * Day + (t % Day)
Older(t) == IF t = Never THEN Never ELSE Since(t + 1)

\* A poller: its control, the message it holds and the one it has written,
\* how long it sleeps or hides the message, the time since it loaded the task
\* and how far its clock was ahead then (its now), and current_timeout.
Polling == [pc |-> "poll", msg |-> NoMsg, new_msg |-> NoMsg, delay |-> 0,
            since |-> 0, skew |-> 0, timeout |-> 0]
NotStarting == [pc |-> "idle", age |-> Never, msg |-> NoMsg]
Unread == [hidden |-> 0, holder |-> "none"]

Init ==
    /\ hour \in Hours
    /\ clock \in IF Daily THEN {h * Hour : h \in 0..HoursPerDay - 1} ELSE {0}
    /\ age = Never
    /\ \/ message_id = (CHOOSE m \in Msgs : TRUE) /\ queue = [m \in {message_id} |-> Unread]
       \/ Fresh /\ message_id = NoMsg /\ queue = [m \in {} |-> Unread]
    /\ poller = [p \in Pollers |-> Polling]
    /\ starter = NotStarting
    /\ stale = {}
    /\ starts = 0 /\ late = 0 /\ lags = 0 /\ crashes = 0 /\ misses = 0

Spent == starts + late + lags + crashes + misses

\* A read of the store is eventually consistent: it may still find a version
\* that a save has replaced.
Saved == [msg |-> message_id, age |-> age]
Versions == stale \union {Saved}
Save(m, t) ==
    /\ message_id' = m /\ age' = t
    /\ stale' = IF Cardinality(Versions) <= MaxStale THEN Versions ELSE {Saved}

\* An id that the queue gives to a message that is written.
Unused == Msgs \ (InQueue \union {message_id, starter.msg} \union {v.msg : v \in stale}
                  \union {poller[p].msg : p \in Pollers} \union {poller[p].new_msg : p \in Pollers})
NewId == CHOOSE m \in Unused : TRUE
Sent(q) == [m \in DOMAIN q \union {NewId} |-> IF m = NewId THEN Unread ELSE q[m]]
Without(q, m) == [x \in DOMAIN q \ {m} |-> q[x]]

\* Only who read a message last can change its visibility, while it is hidden.
Holds(p, m) == m = poller[p].msg /\ queue[m].holder = p /\ queue[m].hidden > 0
Becomes(p, state) == poller' = [poller EXCEPT ![p] = state]

-----------------------------------------------------------------------------
(* TaskPoller.poll and Task.run.                                           *)

Read(p) ==
    /\ poller[p].pc = "poll"
    /\ \E m \in Visible :
          /\ queue' = [queue EXCEPT ![m] = [hidden |-> VTimeout, holder |-> p]]
          /\ Becomes(p, [Polling EXCEPT !.pc = "load", !.msg = m])
    /\ UNCHANGED <<clock, taskVars, starter, boundVars>>

\* Nothing is read, although the queue may have a message, and poll sleeps.
EmptyRead(p) ==
    /\ poller[p].pc = "poll"
    /\ misses' = IF Visible = {} THEN misses ELSE misses + 1
    /\ UNCHANGED <<starts, late, lags, crashes>> /\ Spent' <= MaxFaults
    /\ Becomes(p, [Polling EXCEPT !.pc = "sleep", !.delay = Wait])
    /\ UNCHANGED <<clock, taskVars, queue, starter>>

\* Faulty: the difference between the hours has a sign.
CheckSigned(last, skew) ==
    IF Daily THEN ((clock \div Hour) - hour) * Hour
    ELSE IF last = Never THEN 0 ELSE Hour - ((last + skew) % Hour)

\* check, by a clock that is skew ahead: delta.seconds leaves the days out, also
\* when delta is negative, and the wait for an hour is the difference to it,
\* whether it is later or earlier than now.
Check(last, skew) ==
    LET delta == last + skew
        seconds == delta % Day
        now == ((clock + skew) % Day) \div Hour
        far == IF hour > now THEN hour - now ELSE now - hour
    IN  IF ~Daily
        THEN IF last = Never \/ seconds >= Hour THEN 0 ELSE Hour - seconds
        ELSE IF hour # now THEN far * Hour
        ELSE IF last = Never \/ delta >= Day THEN 0 ELSE (HoursPerDay - 1) * Hour

\* A command ends in time, or waits for ever to have its output read: _run
\* reads the pipes after it.
Commands == {"run"} \union (IF Verbose THEN {"hung"} ELSE {})

\* run, up to the command: nothing but the visibility changes if it is not due.
Checked(m, delay, skew, command) ==
    IF delay = 0
    THEN [Polling EXCEPT !.pc = command, !.msg = m, !.skew = skew, !.timeout = VTimeout]
    ELSE [Polling EXCEPT !.pc = "hide", !.msg = m, !.delay = delay]

\* Faulty: a message that is not the task's is taken for it.
LoadAny(p) ==
    /\ poller[p].pc = "load"
    /\ \E v \in Versions, skew \in 0..Drift, command \in Commands :
          Becomes(p, Checked(poller[p].msg, Check(v.age, skew), skew, command))
    /\ UNCHANGED <<clock, taskVars, queue, starter, boundVars>>

\* The task is loaded: a message that is not its own is left alone.
Load(p) ==
    /\ poller[p].pc = "load"
    /\ \E v \in Versions, skew \in 0..Drift, command \in Commands :
          Becomes(p, IF v.msg \in {NoMsg, poller[p].msg}
                     THEN Checked(poller[p].msg, Check(v.age, skew), skew, command)
                     ELSE Polling)
    /\ UNCHANGED <<clock, taskVars, queue, starter, boundVars>>

Hide(p) ==
    /\ poller[p].pc = "hide"
    /\ queue' = [m \in InQueue |-> IF Holds(p, m) THEN [queue[m] EXCEPT !.hidden = poller[p].delay]
                                   ELSE queue[m]]
    /\ Becomes(p, Polling)
    /\ UNCHANGED <<clock, taskVars, starter, boundVars>>

CommandEnds(p) ==
    /\ poller[p].pc = "run"
    /\ Becomes(p, [poller[p] EXCEPT !.pc = "write", !.timeout = 0])
    /\ UNCHANGED <<clock, taskVars, queue, starter, boundVars>>

\* Faulty: the message is deleted before the next one is written.
WriteLast(p) ==
    /\ poller[p].pc = "write" /\ Unused # {}
    /\ queue' = Sent(Without(queue, poller[p].msg))
    /\ Becomes(p, [poller[p] EXCEPT !.pc = "put", !.new_msg = NewId])
    /\ UNCHANGED <<clock, taskVars, starter, boundVars>>

Write(p) ==
    /\ poller[p].pc = "write" /\ Unused # {}
    /\ queue' = Sent(queue)
    /\ Becomes(p, [poller[p] EXCEPT !.pc = "put", !.new_msg = NewId])
    /\ UNCHANGED <<clock, taskVars, starter, boundVars>>

\* Faulty: the task is saved without the id of the message that was written.
PutOldId(p) ==
    /\ poller[p].pc = "put"
    /\ Save(message_id, Since(poller[p].since - poller[p].skew))
    /\ Becomes(p, [Polling EXCEPT !.pc = "delete", !.msg = poller[p].msg])
    /\ UNCHANGED <<clock, hour, queue, starter, boundVars>>

Put(p) ==
    /\ poller[p].pc = "put"
    /\ Save(poller[p].new_msg, Since(poller[p].since - poller[p].skew))
    /\ Becomes(p, [Polling EXCEPT !.pc = "delete", !.msg = poller[p].msg])
    /\ UNCHANGED <<clock, hour, queue, starter, boundVars>>

\* A message that another has read since may stay.
Delete(p) ==
    /\ poller[p].pc = "delete"
    /\ \/ queue' = Without(queue, poller[p].msg)
       \/ poller[p].msg \in InQueue /\ queue[poller[p].msg].holder # p /\ UNCHANGED queue
    /\ Becomes(p, Polling)
    /\ UNCHANGED <<clock, taskVars, starter, boundVars>>

-----------------------------------------------------------------------------
(* Task.start, of a task that was loaded by start_all.                     *)

StartLoad ==
    /\ starter.pc = "idle" /\ Spent < MaxFaults
    /\ starts' = starts + 1
    /\ \E v \in Versions : starter' = [pc |-> "write", age |-> v.age, msg |-> NoMsg]
    /\ UNCHANGED <<clock, taskVars, queue, poller, late, lags, crashes, misses>>

StartWrite ==
    /\ starter.pc = "write" /\ Unused # {}
    /\ queue' = Sent(queue)
    /\ starter' = [starter EXCEPT !.pc = "put", !.msg = NewId]
    /\ UNCHANGED <<clock, taskVars, poller, boundVars>>

\* put saves every property of the copy.
StartPut ==
    /\ starter.pc = "put"
    /\ Save(starter.msg, starter.age)
    /\ starter' = NotStarting
    /\ UNCHANGED <<clock, hour, queue, poller, boundVars>>

-----------------------------------------------------------------------------
(* Time and faults.                                                        *)

\* The calls of the pollers and of start take no time, unless one is late.
Prompt ==
    /\ \A p \in Pollers : poller[p].pc \in {"sleep", "run", "hung"}
    /\ starter.pc = "idle"

\* nsecs is one ahead of the time that _run has run; when it reaches the
\* timeout, the timeout grows.
Expires(p) == poller[p].pc \in {"run", "hung"} /\ poller[p].since + 1 >= poller[p].timeout
Grown(p) == poller[p].timeout + VTimeout

\* A unit of time for a poller.  One that hangs is followed for MaxRun: then its
\* times are kept from growing.
Aged(p) ==
    LET r == poller[p]
    IN  CASE r.pc = "sleep" -> IF r.delay = 1 THEN Polling ELSE [r EXCEPT !.delay = @ - 1]
          [] Expires(p) /\ r.since < MaxRun -> [r EXCEPT !.since = @ + 1, !.timeout = Grown(p)]
          [] Expires(p) /\ r.since >= MaxRun -> [r EXCEPT !.since = @ + 1 - VTimeout]
          [] r.pc \in {"run", "hung", "write", "put"} /\ ~Expires(p) -> [r EXCEPT !.since = @ + 1]
          [] OTHER -> r

\* Faulty: _run does not extend the visibility timeout of its message.
ExtendedNot(m) == queue[m].hidden

\* The visibility timeout of a message, set anew for who runs its task.
Extended(m) ==
    IF \E p \in Pollers : Expires(p) /\ Holds(p, m)
    THEN Grown(CHOOSE p \in Pollers : Expires(p) /\ Holds(p, m))
    ELSE queue[m].hidden

\* A unit of time passes, and with it a turn of the loop of each _run; the store
\* shows what was saved, unless it lags.
Tick ==
    /\ \A p \in Pollers : poller[p].pc = "run" => poller[p].since < MaxRun
    /\ UNCHANGED <<hour, message_id, starts, crashes, misses>>
    /\ late' = IF Prompt THEN late ELSE late + 1
    /\ \/ stale' = {} /\ lags' = lags
       \/ stale # {} /\ stale' = {[v EXCEPT !.age = Older(@)] : v \in stale} /\ lags' = lags + 1
    /\ Spent' <= MaxFaults
    /\ clock' = IF Daily THEN (clock + 1) % Day ELSE clock
    /\ age' = Older(age)
    /\ starter' = [starter EXCEPT !.age = Older(@)]
    /\ poller' = [p \in Pollers |-> Aged(p)]
    /\ queue' = [m \in InQueue |-> [queue[m] EXCEPT
                    !.hidden = IF Extended(m) = 0 THEN 0 ELSE Extended(m) - 1]]

\* A server dies; its place is taken by another poller.
Crash(p) ==
    /\ poller[p].pc # "poll" /\ Spent < MaxFaults
    /\ crashes' = crashes + 1
    /\ Becomes(p, Polling)
    /\ UNCHANGED <<clock, taskVars, queue, starter, starts, late, lags, misses>>

StartCrash ==
    /\ starter.pc # "idle"
    /\ starter' = NotStarting
    /\ UNCHANGED <<clock, taskVars, queue, poller, boundVars>>

Poll(p) ==
    \/ Read(p) \/ EmptyRead(p) \/ Load(p) \/ Hide(p)
    \/ CommandEnds(p) \/ Write(p) \/ Put(p) \/ Delete(p)
Start == StartWrite \/ StartPut

Next ==
    \/ \E p \in Pollers : Poll(p) \/ Crash(p)
    \/ StartLoad \/ Start \/ StartCrash
    \/ Tick

\* Pollers run, calls are answered, commands that do not hang end and time
\* passes.
Fairness == WF_vars(Tick) /\ WF_vars(Start) /\ \A p \in Pollers : WF_vars(Poll(p))
Spec == Init /\ [][Next]_vars /\ Fairness

-----------------------------------------------------------------------------
(* Properties.                                                             *)

\* Times since a clock that may be ahead.
Ages == {Never} \union (-Drift..3 * Day - 1)

\* The types; a poller that is past reading holds a message, and none is
\* hidden for longer than a day, two timeouts and a run.
TypeOK ==
    /\ hour \in Hours /\ clock \in 0..Day - 1
    /\ message_id \in Msgs \union {NoMsg} /\ age \in Ages
    /\ stale \subseteq [msg: Msgs \union {NoMsg}, age: Ages]
    /\ InQueue \subseteq Msgs
    /\ \A m \in InQueue : queue[m].hidden \in 0..(Day + 2 * VTimeout + MaxRun)
    /\ \A p \in Pollers : poller[p].pc \notin {"poll", "sleep"} => poller[p].msg \in Msgs
    /\ \A p \in Pollers : poller[p].since \in Nat /\ poller[p].delay \in 0..Day + Wait

\* A task that was started stays in the queue: unless a start is under way,
\* its message_id names a message that is there to be read again, whoever
\* dies, falls behind, reads an old version or starts it a second time.
StaysQueued ==
    (starter.pc = "idle" /\ message_id # NoMsg) => message_id \in InQueue

\* Calls take less than a unit of time, nobody starts the task again, and the
\* store does not lag for longer in a behaviour where pollers die.
Calm == late = 0 /\ starts = 0 /\ (lags = 0 \/ crashes = 0)

\* A task is then not run by two pollers at a time, however long its command
\* takes, whatever their clocks and versions say, and whoever sleeps or dies.
OneAtATime ==
    Calm =>
        \A p, q \in Pollers :
            /\ poller[p].pc \in {"run", "hung", "write", "put"}
            /\ poller[q].pc \in {"run", "hung", "write", "put"}
            => p = q

\* Then no run is recorded that began within an hour, or a day if the task
\* is a daily one, of the one recorded before, by the clocks of the two: but
\* one whose clock was behind the record runs an hourly task at once.
RunsApart ==
    [][\A p \in Pollers : (Put(p) /\ Calm /\ age # Never)
          => LET apart == age - poller[p].since + poller[p].skew
             IN  \/ apart >= (IF Daily THEN Day ELSE Hour)
                 \/ ~Daily /\ apart \in -Drift..-1]_vars

\* The command of an hourly task ends again and again, also after pollers died
\* at any point or messages came back, or else one hangs for ever.
KeepsRunning ==
    ~Daily => \/ []<>(\E p \in Pollers : poller[p].pc = "write")
              \/ <>[](\E p \in Pollers : poller[p].pc = "hung")

\* "hour='3' - the task would be executed at 3AM GMT each day": a daily task
\* is run again and again.
RunsDaily == Daily => []<>(\E p \in Pollers : poller[p].pc = "run")
=============================================================================
