-------------------------- MODULE TaskQueueProofs --------------------------
(***************************************************************************)
(* Proofs about TaskQueue, for any number of pollers, any length of the    *)
(* hour and the day, and any number of faults.                             *)
(***************************************************************************)
EXTENDS TaskQueue, TLAPS

Steps == {"poll", "sleep", "load", "hide", "run", "hung", "write", "put", "delete"}
Idle == {"poll", "sleep"}
Running == {"run", "hung"}
Timeouts == 0..VTimeout + MaxRun
Delays == 0..Day + Wait
Skews == 0..Drift
PollerState == [pc: Steps, msg: Msgs \union {NoMsg}, new_msg: Msgs \union {NoMsg},
                delay: Delays, since: Nat, skew: Skews, timeout: Timeouts]
StarterState == [pc: {"idle", "write", "put"}, age: Ages, msg: Msgs \union {NoMsg}]
Message == [hidden: 0..Day + 2 * VTimeout + MaxRun, holder: Pollers \union {"none"}]
Version == [msg: Msgs \union {NoMsg}, age: Ages]

\* The parts of the types: what is stored, the queue, and the processes.
StoredOK ==
    /\ hour \in Hours /\ clock \in 0..Day - 1
    /\ message_id \in Msgs \union {NoMsg} /\ age \in Ages /\ stale \subseteq Version
QueueOK == InQueue \subseteq Msgs /\ queue \in [InQueue -> Message]
StateOK(r) ==
    /\ r \in PollerState
    /\ r.pc \notin Idle => r.msg \in Msgs
    /\ r.pc = "sleep" => r.delay > 0
    /\ r.pc = "hide" => r.delay \in 1..Day
    /\ r.pc \in Running => r.timeout >= VTimeout
PollersOK == poller \in [Pollers -> PollerState] /\ \A p \in Pollers : StateOK(poller[p])
StarterOK == starter \in StarterState /\ {starts, late, lags, crashes, misses} \subseteq Nat
Types == StoredOK /\ QueueOK /\ PollersOK /\ StarterOK

-----------------------------------------------------------------------------
(* Arithmetic.                                                             *)

LEMMA Multiply == \A i, j, h \in Nat : i <= j => i * h <= j * h
OBVIOUS

LEMMA DayFacts ==
    /\ Day \in Nat /\ Hour \in Nat /\ 0 < Hour /\ Hour <= Day /\ MaxRun < Day
    /\ VTimeout \in Nat /\ 0 < VTimeout /\ MaxRun \in Nat /\ MaxFaults \in Nat
    /\ Wait \in Nat /\ 0 < Wait /\ Drift \in Nat /\ Drift <= Day
    /\ \A d \in 0..HoursPerDay - 1 : d * Hour \in 0..Day - 1
<1>1. HoursPerDay \in Nat /\ Hour \in Nat /\ Hour > 0 /\ HoursPerDay > 1
  BY TimesAssumption
<1>2. 1 * Hour <= HoursPerDay * Hour
  BY <1>1, Multiply
<1>3. ASSUME NEW d \in 0..HoursPerDay - 1 PROVE d * Hour \in 0..Day - 1
  <2>1. (d + 1) * Hour <= HoursPerDay * Hour /\ 0 * Hour <= d * Hour
    BY <1>1, Multiply
  <2>2. (d + 1) * Hour = d * Hour + Hour
    BY <1>1
  <2>3. d * Hour \in Nat /\ HoursPerDay * Hour \in Nat
    BY <1>1
  <2>4. QED  BY <1>1, <2>1, <2>2, <2>3 DEF Day
<1>4. QED  BY <1>1, <1>2, <1>3, TimesAssumption DEF Day

LEMMA Bounds ==
    /\ Day \in Nat /\ Hour \in Nat /\ 0 < Hour /\ Hour <= Day /\ MaxRun < Day
    /\ VTimeout \in Nat /\ 0 < VTimeout /\ MaxRun \in Nat /\ MaxFaults \in Nat
    /\ Wait \in Nat /\ 0 < Wait /\ Drift \in Nat /\ Drift <= Day
BY DayFacts

\* The hour of the day.
LEMMA NowHour == ASSUME NEW t \in 0..Day - 1
                 PROVE  t \div Hour \in 0..HoursPerDay - 1
<1>1. HoursPerDay \in Nat /\ Hour \in Nat /\ Hour > 0 /\ HoursPerDay > 1
  BY TimesAssumption
<1> DEFINE d == t \div Hour
<1>2. d \in Nat /\ d * Hour <= t
  BY <1>1 DEF Day
<1>3. ASSUME d >= HoursPerDay PROVE FALSE
  <2>1. HoursPerDay * Hour <= d * Hour
    BY <1>1, <1>2, <1>3, Multiply
  <2>2. QED  BY <1>1, <1>2, <2>1 DEF Day
<1>4. QED  BY <1>1, <1>2, <1>3

\* The hour of the day by a clock that is ahead.
LEMMA LocalHour == ASSUME clock \in 0..Day - 1, NEW skew \in Skews
                   PROVE  ((clock + skew) % Day) \div Hour \in 0..HoursPerDay - 1
<1>1. (clock + skew) % Day \in 0..Day - 1
  BY Bounds DEF Skews
<1>2. QED  BY <1>1, NowHour

\* A time that is kept as the time since then.
LEMMA SinceTyped == ASSUME NEW t \in Int, t >= -Drift
                    PROVE  /\ Since(t) \in -Drift..3 * Day - 1
                           /\ t < 3 * Day => Since(t) = t
                           /\ t >= 3 * Day => Since(t) >= 2 * Day
<1>1. Day \in Nat /\ 0 < Day /\ Drift \in Nat
  BY Bounds
<1>2. t % Day \in 0..Day - 1
  BY <1>1
<1>3. QED  BY <1>1, <1>2 DEF Since

LEMMA OlderTyped == ASSUME NEW t \in Ages PROVE Older(t) \in Ages
<1>1. CASE t = Never
  BY <1>1 DEF Older, Ages
<1>2. CASE t # Never
  <2>1. t + 1 \in Int /\ t + 1 >= -Drift
    BY <1>2, Bounds DEF Ages
  <2>2. QED  BY <1>2, <2>1, SinceTyped DEF Older, Ages
<1>3. QED  BY <1>1, <1>2

\* check: the delay is at most a day.
LEMMA CheckType == ASSUME StoredOK, NEW last \in Ages, NEW skew \in Skews
                   PROVE  Check(last, skew) \in 0..Day
<1> USE DayFacts
<1> DEFINE now == ((clock + skew) % Day) \div Hour
           far == IF hour > now THEN hour - now ELSE now - hour
<1>1. CASE Daily
  <2>1. hour \in 0..HoursPerDay - 1 /\ now \in 0..HoursPerDay - 1
    BY <1>1, LocalHour, HoursAssumption DEF StoredOK, Daily
  <2>2. HoursPerDay \in Nat /\ HoursPerDay - 1 \in 0..HoursPerDay - 1
    BY TimesAssumption
  <2> HIDE DEF now
  <2>3. far \in 0..HoursPerDay - 1
    BY <2>1, <2>2
  <2>4. far * Hour \in 0..Day /\ (HoursPerDay - 1) * Hour \in 0..Day
    <3> HIDE DEF far
    <3> QED  BY <2>2, <2>3
  <2> HIDE DEF far
  <2>5. \/ Check(last, skew) = far * Hour \/ Check(last, skew) = 0
        \/ Check(last, skew) = (HoursPerDay - 1) * Hour
    BY <1>1 DEF Check, far, now
  <2>6. QED  BY <2>4, <2>5
<1>2. CASE ~Daily /\ last # Never
  <2>1. last + skew \in Int
    BY <1>2 DEF Ages, Skews
  <2>2. (last + skew) % Day \in 0..Day - 1
    BY <2>1
  <2>3. QED  BY <1>2, <2>2 DEF Check
<1>3. CASE ~Daily /\ last = Never
  BY <1>3 DEF Check
<1>4. QED  BY <1>1, <1>2, <1>3

\* A task that is due was run an hour ago, or a day, by the clock of who looks
\* at it; or it is an hourly task and that clock is behind the record.
Apart == IF Daily THEN Day ELSE Hour
Due(delta) == delta >= Apart \/ (~Daily /\ delta \in -Drift..-1)
LEMMA CheckDue == ASSUME StoredOK, NEW last \in Ages, NEW skew \in Skews,
                         Check(last, skew) = 0, last # Never
                  PROVE  Due(last + skew)
<1> USE DayFacts
<1>1. last \in Int /\ last + skew \in Int /\ last + skew >= -Drift
  BY DEF Ages, Skews
<1>2. CASE Daily
  <2> DEFINE now == ((clock + skew) % Day) \div Hour
             far == IF hour > now THEN hour - now ELSE now - hour
  <2>1. now \in 0..HoursPerDay - 1 /\ hour \in 0..HoursPerDay - 1
    BY <1>2, LocalHour, HoursAssumption DEF StoredOK, Daily
  <2>2. HoursPerDay \in Nat /\ HoursPerDay > 1
    BY TimesAssumption
  <2>3. \A d \in 1..HoursPerDay - 1 : d * Hour # 0
    <3> TAKE d \in 1..HoursPerDay - 1
    <3>1. 1 * Hour <= d * Hour
      BY <2>2, Multiply
    <3>2. QED  BY <2>2, <3>1
  <2> HIDE DEF now
  <2>4. hour = now
    <3>1. hour # now => far \in 1..HoursPerDay - 1
      BY <2>1, <2>2
    <3> HIDE DEF far
    <3>2. hour # now => far * Hour = 0
      BY <1>2 DEF Check, now, far
    <3>3. QED  BY <2>3, <3>1, <3>2
  <2>5. (HoursPerDay - 1) * Hour # 0
    BY <2>2, <2>3
  <2>6. last + skew >= Day
    BY <1>2, <2>4, <2>5 DEF Check, now
  <2>7. QED  BY <1>2, <2>6 DEF Due, Apart
<1>3. CASE ~Daily
  <2> DEFINE delta == last + skew
  <2>1. delta % Day >= Hour
    BY <1>1, <1>3 DEF Check
  <2> HIDE DEF delta
  <2>2. delta \in Int /\ delta >= -Drift
    BY <1>1 DEF delta
  <2>3. delta >= 0 => delta % Day <= delta
    BY <2>2
  <2>4. delta % Day \in 0..Day - 1
    BY <2>2
  <2>5. QED  BY <1>3, <2>1, <2>2, <2>3, <2>4 DEF Due, Apart, delta
<1>4. QED  BY <1>2, <1>3

-----------------------------------------------------------------------------
(* Types.                                                                  *)

\* A new id is none that is in the queue, saved, or held by anybody.
LEMMA NewIdFresh ==
    ASSUME Unused # {}
    PROVE  /\ NewId \in Msgs \ InQueue
           /\ NewId # message_id /\ NewId # starter.msg
           /\ \A v \in stale : NewId # v.msg
           /\ \A p \in Pollers : NewId # poller[p].msg /\ NewId # poller[p].new_msg
BY DEF Unused, NewId

\* A poller that changes its state keeps the types.
LEMMA BecomesTyped ==
    ASSUME PollersOK, NEW p \in Pollers, NEW state, StateOK(state), Becomes(p, state)
    PROVE  PollersOK'
BY DEF PollersOK, Becomes, StateOK

LEMMA Times == 0 \in Timeouts /\ VTimeout \in Timeouts /\ 0 \in Delays /\ Wait \in Delays /\ 0 \in Skews
BY Bounds DEF Timeouts, Delays, Skews

LEMMA PollingTyped ==
    /\ StateOK(Polling) /\ Polling \in PollerState /\ Polling.pc = "poll" /\ Polling.msg = NoMsg
    /\ Polling.new_msg = NoMsg
BY Times DEF Polling, PollerState, Steps, StateOK, Idle, Running

\* A poller that has loaded the task, from what was saved or an older version.
LEMMA VersionsTyped == ASSUME StoredOK PROVE Versions \subseteq Version
BY DEF StoredOK, Versions, Saved, Version

LEMMA CheckedTyped ==
    ASSUME NEW m \in Msgs, NEW delay \in 0..Day, NEW skew \in Skews, NEW command \in Commands
    PROVE  LET r == Checked(m, delay, skew, command)
           IN  /\ StateOK(r) /\ r.msg = m /\ r.new_msg = NoMsg
               /\ r.pc \in {"run", "hung", "hide"}
               /\ r.pc \in Running => delay = 0 /\ r.since = 0 /\ r.skew = skew /\ r.timeout = VTimeout
<1>1. command \in {"run", "hung"}
  BY DEF Commands
<1>2. CASE delay = 0
  <2>1. Checked(m, delay, skew, command) =
          [Polling EXCEPT !.pc = command, !.msg = m, !.skew = skew, !.timeout = VTimeout]
    BY <1>2 DEF Checked
  <2> DEFINE r == [Polling EXCEPT !.pc = command, !.msg = m, !.skew = skew, !.timeout = VTimeout]
  <2>2. r \in PollerState
    BY <1>1, PollingTyped, Times DEF PollerState, Steps
  <2>3. /\ r.pc = command /\ r.msg = m /\ r.new_msg = NoMsg
        /\ r.since = 0 /\ r.skew = skew /\ r.timeout = VTimeout
    BY DEF Polling
  <2> HIDE DEF r
  <2>4. StateOK(r)
    BY <1>1, <2>2, <2>3, Bounds DEF StateOK, Running
  <2>5. QED  BY <1>1, <1>2, <2>1, <2>3, <2>4 DEF r
<1>3. CASE delay # 0
  <2>1. Checked(m, delay, skew, command) = [Polling EXCEPT !.pc = "hide", !.msg = m, !.delay = delay]
    BY <1>3 DEF Checked
  <2>2. delay \in Delays /\ delay \in 1..Day
    BY <1>3, Bounds DEF Delays
  <2>3. QED  BY <2>1, <2>2, PollingTyped DEF PollerState, Steps, StateOK, Idle, Running
<1>4. QED  BY <1>2, <1>3

LEMMA TypesInit == Init => Types
<1> SUFFICES ASSUME Init PROVE Types
  OBVIOUS
<1> USE Bounds
<1>1. StoredOK
  <2>1. clock \in 0..Day - 1
    <3>1. 0 \in 0..HoursPerDay - 1
      BY TimesAssumption
    <3>2. QED  BY <3>1, DayFacts DEF Init
  <2>2. message_id \in Msgs \union {NoMsg}
    BY NamesAssumption DEF Init
  <2>3. age \in Ages /\ stale = {}
    BY DEF Init, Ages
  <2>4. QED  BY <2>1, <2>2, <2>3 DEF Init, StoredOK
<1>2. QueueOK
  <2>1. Unread \in Message
    BY DEF Unread, Message
  <2>2. CASE /\ message_id = (CHOOSE m \in Msgs : TRUE)
             /\ queue = [m \in {message_id} |-> Unread]
    <3>1. message_id \in Msgs
      BY <2>2, NamesAssumption
    <3>2. QED  BY <2>1, <2>2, <3>1 DEF QueueOK, InQueue
  <2>3. CASE queue = [m \in {} |-> Unread]
    BY <2>3 DEF QueueOK, InQueue
  <2>4. QED  BY <2>2, <2>3 DEF Init
<1>3. PollersOK
  BY PollingTyped DEF Init, PollersOK
<1>4. StarterOK
  BY DEF Init, StarterOK, StarterState, NotStarting, Ages
<1>5. QED  BY <1>1, <1>2, <1>3, <1>4 DEF Types

\* A task that is saved keeps the types.
LEMMA SaveTyped ==
    ASSUME StoredOK, NEW m \in Msgs \union {NoMsg}, NEW t \in Ages, Save(m, t), UNCHANGED <<hour, clock>>
    PROVE  StoredOK' /\ stale' \subseteq Versions /\ message_id' = m
<1>1. Saved \in Version /\ Versions = stale \union {Saved}
  BY DEF StoredOK, Saved, Version, Versions
<1>2. stale' = Versions \/ stale' = {Saved}
  BY DEF Save
<1>3. QED  BY <1>1, <1>2 DEF StoredOK, Save

\* Versions that a tick leaves to be read are older ones.
LEMMA StaleTicks ==
    ASSUME StoredOK, Tick
    PROVE  stale' \subseteq Version /\ \A w \in stale' : \E v \in stale : w.msg = v.msg
<1>1. stale' = {} \/ stale' = {[v EXCEPT !.age = Older(v.age)] : v \in stale}
  BY DEF Tick
<1>2. ASSUME NEW v \in stale
      PROVE  [v EXCEPT !.age = Older(v.age)] \in Version /\ [v EXCEPT !.age = Older(v.age)].msg = v.msg
  <2>1. v \in Version
    BY DEF StoredOK
  <2>2. Older(v.age) \in Ages
    BY <2>1, OlderTyped DEF Version
  <2>3. QED  BY <2>1, <2>2 DEF Version
<1>3. QED  BY <1>1, <1>2

LEMMA StoredStep == Types /\ [Next]_vars => StoredOK'
<1> SUFFICES ASSUME Types, [Next]_vars PROVE StoredOK'
  OBVIOUS
<1> USE Bounds
<1>0. StoredOK /\ PollersOK /\ StarterOK
  BY DEF Types
<1>1. ASSUME NEW p \in Pollers, Put(p) PROVE StoredOK'
  <2>1. poller[p] \in PollerState
    BY <1>0 DEF PollersOK
  <2>2. poller[p].since - poller[p].skew \in Int /\ poller[p].since - poller[p].skew >= -Drift
    BY <2>1 DEF PollerState, Skews
  <2>3. Since(poller[p].since - poller[p].skew) \in Ages
    BY <2>2, SinceTyped DEF Ages
  <2>4. QED  BY <1>0, <1>1, <2>1, <2>3, SaveTyped DEF Put, PollerState
<1>2. CASE StartPut
  BY <1>0, <1>2, SaveTyped DEF StartPut, StarterOK, StarterState
<1>3. CASE Tick
  <2>1. clock' \in 0..Day - 1
    <3>1. clock + 1 \in Nat
      BY <1>0 DEF StoredOK
    <3>2. (clock + 1) % Day \in 0..Day - 1
      BY <3>1
    <3>3. clock' = (clock + 1) % Day \/ clock' = clock
      BY <1>3 DEF Tick
    <3>4. QED  BY <1>0, <3>2, <3>3 DEF StoredOK
  <2>2. age' \in Ages
    BY <1>0, <1>3, OlderTyped DEF Tick, StoredOK
  <2>3. stale' \subseteq Version
    BY <1>0, <1>3, StaleTicks
  <2>4. QED  BY <1>0, <1>3, <2>1, <2>2, <2>3 DEF Tick, StoredOK
<1>4. ASSUME NEW p \in Pollers, Poll(p), ~Put(p) PROVE StoredOK'
  BY <1>0, <1>4 DEF Poll, Read, EmptyRead, Load, Hide, CommandEnds, Write, Delete, taskVars, StoredOK
<1>5. ASSUME NEW p \in Pollers, Crash(p) PROVE StoredOK'
  BY <1>0, <1>5 DEF Crash, taskVars, StoredOK
<1>6. CASE StartLoad \/ StartWrite \/ StartCrash
  BY <1>0, <1>6 DEF StartLoad, StartWrite, StartCrash, taskVars, StoredOK
<1>7. CASE UNCHANGED vars
  BY <1>0, <1>7 DEF vars, taskVars, StoredOK
<1>8. QED  BY <1>1, <1>2, <1>3, <1>4, <1>5, <1>6, <1>7 DEF Next, Start

\* A message that is written is a new one.
LEMMA SentTyped ==
    ASSUME QueueOK, Unused # {}, NEW q, q \in [DOMAIN q -> Message], DOMAIN q \subseteq InQueue,
           queue' = Sent(q)
    PROVE  QueueOK' /\ InQueue' = DOMAIN q \union {NewId}
BY NewIdFresh, Bounds DEF QueueOK, InQueue, Sent, Unread, Message

\* What a tick does to the messages: the pollers' timeouts bound them.
LEMMA ExtendedTyped ==
    ASSUME Types, NEW m \in InQueue
    PROVE  Extended(m) \in 0..Day + 2 * VTimeout + MaxRun
<1> USE Bounds
<1>1. CASE \E p \in Pollers : Expires(p) /\ Holds(p, m)
  <2>1. PICK p \in Pollers : Expires(p) /\ p = (CHOOSE x \in Pollers : Expires(x) /\ Holds(x, m))
    BY <1>1
  <2>2. Extended(m) = poller[p].timeout + VTimeout
    BY <1>1, <2>1 DEF Extended, Grown
  <2>3. poller[p].timeout \in 0..VTimeout + MaxRun
    BY DEF Types, PollersOK, PollerState, Timeouts
  <2>4. QED  BY <2>2, <2>3
<1>2. CASE ~\E p \in Pollers : Expires(p) /\ Holds(p, m)
  BY <1>2 DEF Extended, Types, QueueOK, Message
<1>3. QED  BY <1>1, <1>2

LEMMA QueueStep == Types /\ [Next]_vars => QueueOK'
<1> SUFFICES ASSUME Types, [Next]_vars PROVE QueueOK'
  OBVIOUS
<1> USE Bounds
<1>0. QueueOK
  BY DEF Types
<1>1. ASSUME NEW p \in Pollers, Read(p) PROVE QueueOK'
  <2>1. PICK m \in Visible : queue' = [queue EXCEPT ![m] = [hidden |-> VTimeout, holder |-> p]]
    BY <1>1 DEF Read
  <2>2. [hidden |-> VTimeout, holder |-> p] \in Message
    BY DEF Message
  <2>3. QED  BY <1>0, <2>1, <2>2 DEF QueueOK, InQueue, Visible
<1>2. ASSUME NEW p \in Pollers, Hide(p) PROVE QueueOK'
  <2>1. poller[p].delay \in 0..Day
    BY <1>2 DEF Types, PollersOK, StateOK, Hide
  <2>2. ASSUME NEW m \in InQueue PROVE [queue[m] EXCEPT !.hidden = poller[p].delay] \in Message
    BY <1>0, <2>1 DEF QueueOK, Message
  <2>3. QED  BY <1>0, <1>2, <2>2 DEF Hide, QueueOK, InQueue
<1>3. ASSUME NEW p \in Pollers, Write(p) PROVE QueueOK'
  BY <1>0, <1>3, SentTyped DEF Write, QueueOK, InQueue
<1>4. ASSUME NEW p \in Pollers, Delete(p) PROVE QueueOK'
  BY <1>0, <1>4 DEF Delete, Without, QueueOK, InQueue
<1>5. CASE StartWrite
  BY <1>0, <1>5, SentTyped DEF StartWrite, QueueOK, InQueue
<1>6. CASE Tick
  <2>1. ASSUME NEW m \in InQueue
        PROVE  [queue[m] EXCEPT !.hidden = IF Extended(m) = 0 THEN 0 ELSE Extended(m) - 1] \in Message
    <3>1. Extended(m) \in 0..Day + 2 * VTimeout + MaxRun
      BY ExtendedTyped
    <3>2. QED  BY <1>0, <3>1 DEF QueueOK, Message
  <2>2. QED  BY <1>0, <1>6, <2>1 DEF Tick, QueueOK, InQueue
<1>7. ASSUME NEW p \in Pollers, EmptyRead(p) \/ Load(p) \/ CommandEnds(p) \/ Put(p) \/ Crash(p)
      PROVE  QueueOK'
  BY <1>0, <1>7 DEF EmptyRead, Load, CommandEnds, Put, Crash, QueueOK, InQueue
<1>8. CASE StartLoad \/ StartPut \/ StartCrash
  BY <1>0, <1>8 DEF StartLoad, StartPut, StartCrash, QueueOK, InQueue
<1>9. CASE UNCHANGED vars
  BY <1>0, <1>9 DEF vars, QueueOK, InQueue
<1>10. QED  BY <1>1, <1>2, <1>3, <1>4, <1>5, <1>6, <1>7, <1>8, <1>9 DEF Next, Poll, Start

\* A tick ages the state of a poller; one that sleeps may wake up.
LEMMA AgedCases ==
    ASSUME Types, NEW p \in Pollers
    PROVE  LET r == poller[p]
           IN  \/ r.pc = "sleep" /\ Aged(p) \in {Polling, [r EXCEPT !.delay = r.delay - 1]}
                  /\ (r.delay = 1 => Aged(p) = Polling)
               \/ /\ Expires(p) /\ r.since < MaxRun
                  /\ Aged(p) = [r EXCEPT !.since = r.since + 1, !.timeout = Grown(p)]
               \/ /\ Expires(p) /\ r.since >= MaxRun
                  /\ Aged(p) = [r EXCEPT !.since = r.since + 1 - VTimeout]
               \/ /\ r.pc \in {"run", "hung", "write", "put"} /\ ~Expires(p)
                  /\ Aged(p) = [r EXCEPT !.since = r.since + 1]
               \/ r.pc \notin {"sleep", "run", "hung", "write", "put"} /\ Aged(p) = r
<1> DEFINE r == poller[p]
<1>1. CASE r.pc = "sleep"
  BY <1>1 DEF Aged, Expires
<1>2. CASE Expires(p) /\ r.since < MaxRun
  BY <1>2 DEF Aged, Expires
<1>3. CASE Expires(p) /\ ~(r.since < MaxRun) /\ r.since >= MaxRun
  BY <1>3 DEF Aged, Expires
<1>4. CASE ~Expires(p) /\ r.pc \in {"run", "hung", "write", "put"}
  BY <1>4 DEF Aged
<1>5. CASE ~Expires(p) /\ r.pc \notin {"sleep", "run", "hung", "write", "put"}
  BY <1>5 DEF Aged
<1>6. Expires(p) => r.since < MaxRun \/ (~(r.since < MaxRun) /\ r.since >= MaxRun)
  BY Bounds DEF Types, PollersOK, PollerState
<1>7. QED  BY <1>1, <1>2, <1>3, <1>4, <1>5, <1>6

LEMMA TickedTyped ==
    ASSUME Types, Tick, NEW p \in Pollers
    PROVE  /\ poller'[p] = Aged(p) /\ StateOK(Aged(p))
           /\ \/ poller[p].pc = "sleep" /\ poller'[p].pc \in Idle
              \/ /\ poller'[p].pc = poller[p].pc /\ poller'[p].msg = poller[p].msg
                 /\ poller'[p].new_msg = poller[p].new_msg /\ poller'[p].skew = poller[p].skew
<1> USE Bounds
<1> DEFINE r == poller[p]
<1>1. StateOK(r) /\ r \in PollerState
  BY DEF Types, PollersOK
<1>2. poller'[p] = Aged(p)
  BY DEF Tick
<1>3. CASE r.pc = "sleep" /\ Aged(p) \in {Polling, [r EXCEPT !.delay = r.delay - 1]}
           /\ (r.delay = 1 => Aged(p) = Polling)
  <2>1. CASE Aged(p) = Polling
    BY <1>2, <1>3, <2>1, PollingTyped DEF Idle
  <2>2. CASE Aged(p) = [r EXCEPT !.delay = r.delay - 1] /\ Aged(p) # Polling
    <3>1. r.delay - 1 \in Delays /\ r.delay - 1 > 0
      BY <1>1, <1>3, <2>2 DEF StateOK, PollerState, Delays
    <3> HIDE DEF r
    <3>2. StateOK(Aged(p)) /\ Aged(p).pc = "sleep"
      BY <1>1, <1>3, <2>2, <3>1 DEF StateOK, PollerState, Idle, Running
    <3>3. QED  BY <1>2, <1>3, <3>2 DEF Idle, r
  <2>3. QED  BY <1>3, <2>1, <2>2
<1>4. CASE /\ Expires(p) /\ r.since < MaxRun
           /\ Aged(p) = [r EXCEPT !.since = r.since + 1, !.timeout = Grown(p)]
  <2>1. r.timeout <= MaxRun /\ r.since + 1 \in Nat /\ r.timeout \in Nat /\ r.pc \in Running
    BY <1>1, <1>4 DEF Expires, PollerState, Timeouts, Running
  <2>2. Grown(p) \in Timeouts /\ Grown(p) >= VTimeout
    BY <2>1 DEF Grown, Timeouts
  <2> HIDE DEF r
  <2>3. QED  BY <1>1, <1>2, <1>4, <2>1, <2>2 DEF StateOK, PollerState, Idle, Running, r
<1>5. CASE Expires(p) /\ r.since >= MaxRun /\ Aged(p) = [r EXCEPT !.since = r.since + 1 - VTimeout]
  <2>1. r.since + 1 - VTimeout \in Nat /\ r.pc \in Running
    BY <1>1, <1>5 DEF Expires, StateOK, PollerState, Timeouts, Running
  <2> HIDE DEF r
  <2>2. QED  BY <1>1, <1>2, <1>5, <2>1 DEF StateOK, PollerState, Idle, Running, r
<1>6. CASE r.pc \in {"run", "hung", "write", "put"} /\ Aged(p) = [r EXCEPT !.since = r.since + 1]
  <2>1. r.since + 1 \in Nat
    BY <1>1 DEF PollerState
  <2> HIDE DEF r
  <2>2. QED  BY <1>1, <1>2, <1>6, <2>1 DEF StateOK, PollerState, Idle, Running, r
<1>7. CASE Aged(p) = r
  BY <1>1, <1>2, <1>7
<1> HIDE DEF r
<1>8. QED  BY <1>3, <1>4, <1>5, <1>6, <1>7, AgedCases DEF r

LEMMA PollersStep == Types /\ [Next]_vars => PollersOK'
<1> SUFFICES ASSUME Types, [Next]_vars PROVE PollersOK'
  OBVIOUS
<1>0. PollersOK /\ StoredOK /\ QueueOK
  BY DEF Types
<1>1. ASSUME NEW p \in Pollers, Read(p) PROVE PollersOK'
  <2>1. PICK m \in Visible : Becomes(p, [Polling EXCEPT !.pc = "load", !.msg = m])
    BY <1>1 DEF Read
  <2>2. m \in Msgs
    BY <1>0 DEF Visible, QueueOK
  <2>3. StateOK([Polling EXCEPT !.pc = "load", !.msg = m])
    BY <2>2, PollingTyped DEF PollerState, Steps, StateOK, Running
  <2>4. QED  BY <1>0, <2>1, <2>3, BecomesTyped
<1>2. ASSUME NEW p \in Pollers, EmptyRead(p) PROVE PollersOK'
  <2>1. StateOK([Polling EXCEPT !.pc = "sleep", !.delay = Wait])
    BY PollingTyped, Times, Bounds DEF PollerState, Steps, StateOK, Running, Idle
  <2>2. QED  BY <1>0, <1>2, <2>1, BecomesTyped DEF EmptyRead
<1>3. ASSUME NEW p \in Pollers, Load(p) PROVE PollersOK'
  <2>1. poller[p].msg \in Msgs
    BY <1>0, <1>3 DEF Load, PollersOK, StateOK, Idle
  <2>2. PICK v \in Versions, skew \in Skews, command \in Commands :
           Becomes(p, IF v.msg \in {NoMsg, poller[p].msg}
                      THEN Checked(poller[p].msg, Check(v.age, skew), skew, command)
                      ELSE Polling)
    BY <1>3 DEF Load, Skews
  <2>3. Check(v.age, skew) \in 0..Day
    BY <1>0, VersionsTyped, CheckType DEF Version
  <2>4. StateOK(Checked(poller[p].msg, Check(v.age, skew), skew, command))
    BY <2>1, <2>3, CheckedTyped
  <2>5. QED  BY <1>0, <2>2, <2>4, PollingTyped, BecomesTyped
<1>4. ASSUME NEW p \in Pollers, Hide(p) \/ Delete(p) \/ Crash(p) PROVE PollersOK'
  <2>1. Becomes(p, Polling)
    BY <1>4 DEF Hide, Delete, Crash
  <2>2. QED  BY <1>0, <2>1, PollingTyped, BecomesTyped
<1>5. ASSUME NEW p \in Pollers, CommandEnds(p) PROVE PollersOK'
  <2>1. StateOK([poller[p] EXCEPT !.pc = "write", !.timeout = 0])
    BY <1>0, <1>5, Times DEF CommandEnds, PollersOK, PollerState, Steps, StateOK, Idle, Running
  <2>2. QED  BY <1>0, <1>5, <2>1, BecomesTyped DEF CommandEnds
<1>6. ASSUME NEW p \in Pollers, Write(p) PROVE PollersOK'
  <2>1. NewId \in Msgs
    BY <1>6, NewIdFresh DEF Write
  <2>2. StateOK([poller[p] EXCEPT !.pc = "put", !.new_msg = NewId])
    BY <1>0, <1>6, <2>1 DEF Write, PollersOK, PollerState, Steps, StateOK, Idle, Running
  <2>3. QED  BY <1>0, <1>6, <2>2, BecomesTyped DEF Write
<1>7. ASSUME NEW p \in Pollers, Put(p) PROVE PollersOK'
  <2>1. poller[p].msg \in Msgs
    BY <1>0, <1>7 DEF Put, PollersOK, StateOK, Idle
  <2>2. StateOK([Polling EXCEPT !.pc = "delete", !.msg = poller[p].msg])
    BY <2>1, PollingTyped DEF PollerState, Steps, StateOK, Running
  <2>3. QED  BY <1>0, <1>7, <2>2, BecomesTyped DEF Put
<1>8. CASE Tick
  <2>1. poller' = [p \in Pollers |-> Aged(p)]
    BY <1>8 DEF Tick
  <2>2. \A p \in Pollers : StateOK(Aged(p))
    BY <1>8, TickedTyped
  <2>3. QED  BY <2>1, <2>2 DEF PollersOK, StateOK
<1>9. CASE StartLoad \/ StartWrite \/ StartPut \/ StartCrash
  BY <1>0, <1>9 DEF StartLoad, StartWrite, StartPut, StartCrash, PollersOK
<1>10. CASE UNCHANGED vars
  BY <1>0, <1>10 DEF vars, PollersOK
<1>11. QED  BY <1>1, <1>2, <1>3, <1>4, <1>5, <1>6, <1>7, <1>8, <1>9, <1>10 DEF Next, Poll, Start

LEMMA StarterStep == Types /\ [Next]_vars => StarterOK'
<1> SUFFICES ASSUME Types, [Next]_vars PROVE StarterOK'
  OBVIOUS
<1> USE Bounds DEF StarterOK
<1>0. StarterOK /\ StoredOK
  BY DEF Types
<1>1. ASSUME NEW p \in Pollers, Poll(p) PROVE StarterOK'
  <2>1. CASE EmptyRead(p)
    <3>1. misses \in Nat /\ (misses' = misses \/ misses' = misses + 1)
      BY <1>0, <2>1 DEF EmptyRead
    <3>2. QED  BY <1>0, <2>1, <3>1 DEF EmptyRead
  <2>2. CASE ~EmptyRead(p)
    BY <1>0, <1>1, <2>2 DEF Poll, Read, Load, Hide, CommandEnds, Write, Put, Delete, boundVars
  <2>3. QED  BY <2>1, <2>2
<1>2. ASSUME NEW p \in Pollers, Crash(p) PROVE StarterOK'
  BY <1>0, <1>2 DEF Crash
<1>3. CASE StartLoad
  <2>1. \A v \in Versions : [pc |-> "write", age |-> v.age, msg |-> NoMsg] \in StarterState
    BY <1>0, VersionsTyped DEF StarterState, Version
  <2>2. QED  BY <1>0, <1>3, <2>1 DEF StartLoad
<1>4. CASE StartWrite
  <2>1. [starter EXCEPT !.pc = "put", !.msg = NewId] \in StarterState
    BY <1>0, <1>4, NewIdFresh DEF StarterState, StartWrite
  <2>2. QED  BY <1>0, <1>4, <2>1 DEF StartWrite, boundVars
<1>5. CASE StartPut \/ StartCrash
  <2>1. NotStarting \in StarterState
    BY DEF StarterState, NotStarting, Ages
  <2>2. QED  BY <1>0, <1>5, <2>1 DEF StartPut, StartCrash, boundVars
<1>6. CASE Tick
  <2>1. Older(starter.age) \in Ages
    BY <1>0, OlderTyped DEF StarterState
  <2>2. [starter EXCEPT !.age = Older(starter.age)] \in StarterState
    BY <1>0, <2>1 DEF StarterState
  <2>3. /\ starter' \in StarterState /\ UNCHANGED <<starts, crashes, misses>>
        /\ (late' = late \/ late' = late + 1) /\ (lags' = lags \/ lags' = lags + 1)
    BY <1>6, <2>2 DEF Tick
  <2>4. QED  BY <1>0, <2>3
<1>7. CASE UNCHANGED vars
  BY <1>0, <1>7 DEF vars, boundVars
<1>8. QED  BY <1>1, <1>2, <1>3, <1>4, <1>5, <1>6, <1>7 DEF Next, Start

LEMMA TypesStep == Types /\ [Next]_vars => Types'
BY StoredStep, QueueStep, PollersStep, StarterStep DEF Types

\* TypeOK: every state of the queue, the task and its pollers is well typed,
\* and no message is hidden for longer than a day and a run.
THEOREM TypeCorrect == Spec => []TypeOK
<1>1. Types => TypeOK
  BY Bounds DEF Types, StoredOK, QueueOK, PollersOK, StarterOK, PollerState, StateOK, Message,
         Version, Idle, Delays, TypeOK
<1>2. Init => Types
  BY TypesInit
<1>3. Types /\ [Next]_vars => Types'
  BY TypesStep
<1>4. QED  BY <1>1, <1>2, <1>3, PTL DEF Spec

-----------------------------------------------------------------------------
(* A task that was started stays in the queue.                             *)

Taken == {"hide", "run", "hung", "write", "put", "delete"}
Writing(p) == poller[p].pc = "put"
Starting == starter.pc = "put"

\* The messages written but not yet saved with the task are in the queue, each
\* is of one writer, none is the task's, and nobody past loading holds one.
PendingKept ==
    /\ \A p \in Pollers : Writing(p) => poller[p].new_msg \in InQueue \ {message_id}
    /\ Starting => starter.msg \in InQueue \ {message_id}
PendingApart ==
    \A p, q \in Pollers : Writing(p) =>
        /\ Starting => starter.msg # poller[p].new_msg
        /\ Writing(q) /\ p # q => poller[q].new_msg # poller[p].new_msg
PendingNotTaken ==
    \A p \in Pollers : poller[p].pc \in Taken =>
        /\ Starting => starter.msg # poller[p].msg
        /\ \A q \in Pollers : Writing(q) => poller[q].new_msg # poller[p].msg
\* No version that may still be read names one of them.
PendingNotStale ==
    \A v \in stale :
        /\ v.msg # NoMsg
        /\ Starting => starter.msg # v.msg
        /\ \A p \in Pollers : Writing(p) => poller[p].new_msg # v.msg
\* What is deleted is not the task's message.
DeletedOld == \A p \in Pollers : poller[p].pc = "delete" => poller[p].msg # message_id
Kept ==
    /\ message_id \in InQueue /\ DeletedOld
    /\ PendingKept /\ PendingApart /\ PendingNotTaken /\ PendingNotStale

LEMMA KeptInit == ASSUME ~Fresh PROVE Init => Kept
BY DEF Init, Kept, PendingKept, PendingApart, PendingNotTaken, PendingNotStale, DeletedOld, Polling,
       NotStarting,
       InQueue, Taken, Writing, Starting

\* A poller that goes on without writing or deleting anything.
LEMMA KeptMoves ==
    ASSUME Types, Kept, NEW p \in Pollers, NEW state, Becomes(p, state),
           state.pc \in {"poll", "sleep", "load", "hide", "run", "hung", "write"},
           state.pc \in Taken => \/ poller[p].pc \in Taken /\ state.msg = poller[p].msg
                                 \/ \E v \in Versions : state.msg = v.msg,
           InQueue' = InQueue, UNCHANGED <<message_id, stale, starter>>
    PROVE  Kept'
<1>1. \A q \in Pollers : poller'[q] = IF q = p THEN state ELSE poller[q]
  BY DEF Becomes, Types, PollersOK
<1> USE <1>1 DEF Kept, Writing, Starting
<1>2. PendingKept' /\ PendingApart' /\ DeletedOld'
  BY DEF PendingKept, PendingApart, DeletedOld
<1>3. PendingNotTaken'
  <2>1. \A v \in Versions : v.msg = message_id \/ v \in stale
    BY DEF Versions, Saved
  <2>2. QED  BY <2>1 DEF PendingNotTaken, PendingKept, PendingNotStale
<1>4. PendingNotStale'
  BY DEF PendingNotStale
<1>5. QED  BY <1>2, <1>3, <1>4

LEMMA KeptStep == Types /\ Kept /\ [Next]_vars => Kept'
<1> SUFFICES ASSUME Types, Kept, [Next]_vars PROVE Kept'
  OBVIOUS
<1>0. QueueOK /\ PollersOK /\ StoredOK /\ StarterOK
  BY DEF Types
<1>1. ASSUME NEW p \in Pollers, Read(p) PROVE Kept'
  <2>1. PICK m \in Visible : /\ queue' = [queue EXCEPT ![m] = [hidden |-> VTimeout, holder |-> p]]
                             /\ Becomes(p, [Polling EXCEPT !.pc = "load", !.msg = m])
    BY <1>1 DEF Read
  <2>2. InQueue' = InQueue /\ UNCHANGED <<message_id, stale, starter>>
    BY <1>0, <1>1, <2>1 DEF Read, QueueOK, InQueue, taskVars
  <2> DEFINE s == [Polling EXCEPT !.pc = "load", !.msg = m]
  <2>3. s.pc = "load"
    BY DEF Polling
  <2>4. QED  BY <2>1, <2>2, <2>3, KeptMoves DEF Taken
<1>2. ASSUME NEW p \in Pollers, Load(p) PROVE Kept'
  <2>1. InQueue' = InQueue /\ UNCHANGED <<message_id, stale, starter>>
    BY <1>2 DEF Load, InQueue, taskVars
  <2>2. poller[p].msg \in Msgs
    BY <1>0, <1>2 DEF Load, PollersOK, StateOK, Idle
  <2>3. PICK v \in Versions, skew \in Skews, command \in Commands :
           Becomes(p, IF v.msg \in {NoMsg, poller[p].msg}
                      THEN Checked(poller[p].msg, Check(v.age, skew), skew, command)
                      ELSE Polling)
    BY <1>2 DEF Load, Skews
  <2>4. v.msg # NoMsg
    <3>1. message_id # NoMsg
      BY <1>0, NamesAssumption DEF Kept, QueueOK
    <3>2. QED  BY <3>1 DEF Kept, PendingNotStale, Versions, Saved
  <2>5. CASE v.msg = poller[p].msg
    <3> DEFINE r == Checked(poller[p].msg, Check(v.age, skew), skew, command)
    <3>1. Check(v.age, skew) \in 0..Day
      BY <1>0, VersionsTyped, CheckType DEF Version
    <3>2. Becomes(p, r)
      BY <2>3, <2>5
    <3>3. r.msg = v.msg /\ r.pc \in {"run", "hung", "hide"}
      BY <2>2, <2>5, <3>1, CheckedTyped
    <3> HIDE DEF r
    <3>4. QED  BY <2>1, <3>2, <3>3, KeptMoves
  <2>6. CASE v.msg # poller[p].msg
    BY <2>1, <2>3, <2>4, <2>6, PollingTyped, KeptMoves DEF Taken
  <2>7. QED  BY <2>5, <2>6
<1>3. ASSUME NEW p \in Pollers, Hide(p) \/ Crash(p) PROVE Kept'
  <2>1. Becomes(p, Polling) /\ InQueue' = InQueue /\ UNCHANGED <<message_id, stale, starter>>
    BY <1>3 DEF Hide, Crash, InQueue, taskVars
  <2>2. QED  BY <2>1, PollingTyped, KeptMoves DEF Taken
<1>3a. ASSUME NEW p \in Pollers, EmptyRead(p) PROVE Kept'
  <2> DEFINE s == [Polling EXCEPT !.pc = "sleep", !.delay = Wait]
  <2>1. Becomes(p, s) /\ InQueue' = InQueue /\ UNCHANGED <<message_id, stale, starter>>
    BY <1>3a DEF EmptyRead, InQueue, taskVars
  <2>2. s.pc = "sleep"
    BY DEF Polling
  <2> HIDE DEF s
  <2>3. QED  BY <2>1, <2>2, KeptMoves DEF Taken
<1>4. ASSUME NEW p \in Pollers, CommandEnds(p) PROVE Kept'
  <2> DEFINE s == [poller[p] EXCEPT !.pc = "write", !.timeout = 0]
  <2>1. /\ Becomes(p, s) /\ InQueue' = InQueue /\ UNCHANGED <<message_id, stale, starter>>
        /\ poller[p].pc = "run"
    BY <1>4 DEF CommandEnds, InQueue, taskVars
  <2>2. s.pc = "write" /\ s.msg = poller[p].msg
    BY <1>0 DEF PollersOK, PollerState
  <2> HIDE DEF s
  <2>3. QED  BY <2>1, <2>2, KeptMoves DEF Taken
<1>5. ASSUME NEW p \in Pollers, Write(p) PROVE Kept'
  <2> DEFINE s == [poller[p] EXCEPT !.pc = "put", !.new_msg = NewId]
  <2>1. /\ Becomes(p, s) /\ queue' = Sent(queue) /\ Unused # {}
        /\ UNCHANGED <<message_id, stale, starter>> /\ poller[p].pc = "write"
    BY <1>5 DEF Write, taskVars
  <2>2. s.pc = "put" /\ s.msg = poller[p].msg /\ s.new_msg = NewId
    BY <1>0 DEF PollersOK, PollerState
  <2> HIDE DEF s
  <2>3. \A q \in Pollers : poller'[q] = IF q = p THEN s ELSE poller[q]
    BY <1>0, <2>1 DEF Becomes, PollersOK
  <2>4. InQueue' = InQueue \union {NewId}
    BY <2>1 DEF Sent, InQueue
  <2> USE <2>1, <2>2, <2>3, <2>4, NewIdFresh DEF Kept, Writing, Starting
  <2>5. PendingKept'
    BY DEF PendingKept
  <2>6. PendingApart'
    BY DEF PendingApart
  <2>7. PendingNotTaken'
    BY DEF PendingNotTaken, Taken
  <2>8. DeletedOld'
    BY DEF DeletedOld
  <2>10. PendingNotStale'
    BY DEF PendingNotStale
  <2>9. QED  BY <2>5, <2>6, <2>7, <2>8, <2>10
<1>6. ASSUME NEW p \in Pollers, Put(p) PROVE Kept'
  <2> DEFINE s == [Polling EXCEPT !.pc = "delete", !.msg = poller[p].msg]
  <2>1. /\ Becomes(p, s) /\ UNCHANGED starter /\ InQueue' = InQueue
        /\ message_id' = poller[p].new_msg /\ poller[p].pc = "put"
    BY <1>6 DEF Put, Save, InQueue
  <2>10. \A v \in stale' : v \in stale \/ v.msg = message_id
    BY <1>6 DEF Put, Save, Versions, Saved
  <2>2. s.pc = "delete" /\ s.msg = poller[p].msg
    BY DEF Polling
  <2> HIDE DEF s
  <2>3. \A q \in Pollers : poller'[q] = IF q = p THEN s ELSE poller[q]
    BY <1>0, <2>1 DEF Becomes, PollersOK
  <2> USE <2>1, <2>2, <2>3 DEF Kept, Writing, Starting
  <2>4. PendingKept'
    BY DEF PendingKept, PendingApart
  <2>5. PendingApart'
    BY DEF PendingApart
  <2>6. PendingNotTaken'
    BY DEF PendingNotTaken, Taken
  <2>7. DeletedOld'
    BY DEF DeletedOld, PendingNotTaken, Taken
  <2>8. message_id' \in InQueue'
    BY DEF PendingKept
  <2>11. PendingNotStale'
    <3>1. message_id # NoMsg
      BY <1>0, NamesAssumption DEF QueueOK
    <3>2. QED  BY <2>10, <3>1 DEF PendingNotStale, PendingKept
  <2>9. QED  BY <2>4, <2>5, <2>6, <2>7, <2>8, <2>11
<1>7. ASSUME NEW p \in Pollers, Delete(p) PROVE Kept'
  <2>1. Becomes(p, Polling) /\ UNCHANGED <<message_id, stale, starter>> /\ poller[p].pc = "delete"
    BY <1>7 DEF Delete, taskVars
  <2>2. InQueue' = InQueue \/ InQueue' = InQueue \ {poller[p].msg}
    BY <1>7 DEF Delete, Without, InQueue
  <2>3. \A q \in Pollers : poller'[q] = IF q = p THEN Polling ELSE poller[q]
    BY <1>0, <2>1 DEF Becomes, PollersOK
  <2> USE <2>1, <2>3, PollingTyped DEF Kept, Writing, Starting
  <2>4. message_id' \in InQueue'
    BY <2>2 DEF DeletedOld
  <2>5. PendingKept'
    BY <2>2 DEF PendingKept, PendingNotTaken, Taken
  <2>6. PendingApart'
    BY DEF PendingApart
  <2>7. PendingNotTaken'
    BY DEF PendingNotTaken, Taken
  <2>8. DeletedOld'
    BY DEF DeletedOld
  <2>9. PendingNotStale'
    BY DEF PendingNotStale
  <2>10. QED  BY <2>4, <2>5, <2>6, <2>7, <2>8, <2>9
<1>8. CASE StartWrite
  <2>1. /\ queue' = Sent(queue) /\ Unused # {} /\ UNCHANGED <<message_id, stale, poller>>
        /\ starter' = [starter EXCEPT !.pc = "put", !.msg = NewId]
    BY <1>8 DEF StartWrite, taskVars
  <2>2. starter'.msg = NewId
    BY <1>0, <2>1 DEF StarterOK, StarterState
  <2>3. InQueue' = InQueue \union {NewId}
    BY <2>1 DEF Sent, InQueue
  <2>4. QED  BY <2>1, <2>2, <2>3, NewIdFresh
             DEF Kept, PendingKept, PendingApart, PendingNotTaken, PendingNotStale,
                 DeletedOld, Writing, Starting
<1>9. CASE StartPut
  <2>1. /\ UNCHANGED <<queue, poller>> /\ Starting /\ message_id' = starter.msg
        /\ starter' = NotStarting
    BY <1>9 DEF StartPut, Save, Starting
  <2>2. ~Starting'
    BY <2>1 DEF Starting, NotStarting
  <2>3. \A v \in stale' : v \in stale \/ v.msg = message_id
    BY <1>9 DEF StartPut, Save, Versions, Saved
  <2>4. message_id # NoMsg
    BY <1>0, NamesAssumption DEF Kept, QueueOK
  <2>5. PendingNotStale'
    BY <2>1, <2>2, <2>3, <2>4 DEF Kept, PendingNotStale, PendingKept, Writing
  <2>6. QED  BY <2>1, <2>2, <2>5
             DEF Kept, PendingKept, PendingApart, PendingNotTaken, DeletedOld, Writing, InQueue, Taken
<1>10. CASE StartLoad \/ StartCrash
  <2>1. UNCHANGED <<message_id, stale, queue, poller>> /\ ~Starting'
    BY <1>10 DEF StartLoad, StartCrash, Starting, NotStarting, taskVars
  <2>2. QED  BY <2>1
             DEF Kept, PendingKept, PendingApart, PendingNotTaken, PendingNotStale,
                 DeletedOld, Writing, InQueue
<1>11. CASE Tick
  <2>1. InQueue' = InQueue /\ UNCHANGED message_id
    BY <1>11 DEF Tick, InQueue
  <2>2. starter'.pc = starter.pc /\ starter'.msg = starter.msg
    BY <1>0, <1>11 DEF Tick, StarterOK, StarterState
  <2>3. \A p \in Pollers : \/ poller'[p].pc \in Idle
                           \/ /\ poller'[p].pc = poller[p].pc /\ poller'[p].msg = poller[p].msg
                              /\ poller'[p].new_msg = poller[p].new_msg
    BY <1>11, TickedTyped
  <2>4. \A w \in stale' : \E v \in stale : w.msg = v.msg
    BY <1>0, <1>11, StaleTicks
  <2>5. PendingNotStale'
    BY <2>2, <2>3, <2>4 DEF Kept, PendingNotStale, Writing, Starting, Idle
  <2>6. QED  BY <2>1, <2>2, <2>3, <2>5
             DEF Kept, PendingKept, PendingApart, PendingNotTaken, DeletedOld, Writing, Starting, Idle, Taken
<1>12. CASE UNCHANGED vars
  BY <1>12 DEF vars, taskVars, Kept, PendingKept, PendingApart, PendingNotTaken, PendingNotStale,
               DeletedOld, Writing, Starting, InQueue
<1>13. QED  BY <1>1, <1>2, <1>3, <1>4, <1>5, <1>6, <1>7, <1>8, <1>9, <1>10, <1>11, <1>12, <1>3a
            DEF Next, Poll, Start

\* A task that was once started names a message that is in the queue, whatever
\* number of pollers die, fall behind or start it again.
THEOREM StaysQueuedAlways == ASSUME ~Fresh PROVE Spec => []StaysQueued
<1>1. Init => Types /\ Kept
  BY TypesInit, KeptInit
<1>2. Types /\ Kept /\ [Next]_vars => (Types /\ Kept)'
  BY TypesStep, KeptStep
<1>3. Kept => StaysQueued
  BY DEF Kept, StaysQueued
<1>4. QED  BY <1>1, <1>2, <1>3, PTL DEF Spec

-----------------------------------------------------------------------------
(* A task whose pollers are prompt and that is not started again.          *)

Working == {"run", "hung", "write", "put"}

\* A poller that is past reading hides its message from the others,
Owns(p) == poller[p].pc \notin Idle =>
    /\ poller[p].msg \in InQueue
    /\ queue[poller[p].msg].holder = p /\ queue[poller[p].msg].hidden > 0
\* for as long as current_timeout says,
InTime(p) ==
    /\ poller[p].pc = "load" => queue[poller[p].msg].hidden = VTimeout
    /\ poller[p].pc \in Running =>
         /\ poller[p].since < poller[p].timeout
         /\ poller[p].timeout - poller[p].since <= queue[poller[p].msg].hidden
\* and runs the task for the task's own message, when it is due.
WasDue(p) == poller[p].pc \in Working =>
    /\ poller[p].msg = message_id
    /\ poller[p].pc # "hung" => age = Never \/ Due(age - poller[p].since + poller[p].skew)
WritesNew(p) == poller[p].pc = "put" => poller[p].new_msg \in Msgs
Orderly(p) == Owns(p) /\ InTime(p) /\ WasDue(p) /\ WritesNew(p)

\* A task that was never started has no messages.
NothingLost == message_id = NoMsg => InQueue = {}
NotStarted == starts = 0 => starter.pc = "idle"
\* The message of a version that may still be read is gone, or it is hidden and
\* about to be deleted, if its poller lives; nobody loads the task for it.
Outdated(v) ==
    /\ v.msg # NoMsg
    /\ v.msg \in InQueue =>
         /\ queue[v.msg].hidden > 0
         /\ crashes = 0 => \E p \in Pollers : poller[p].pc = "delete" /\ poller[p].msg = v.msg
    /\ \A p \in Pollers : poller[p].pc = "load" => poller[p].msg # v.msg
AllOutdated == \A v \in stale : Outdated(v)
Together == NothingLost /\ AllOutdated /\ \A p \in Pollers : Orderly(p)
Alone == NotStarted /\ (Calm => Together)

\* A poller that reads or sleeps holds nothing.
LEMMA IdleOrderly == ASSUME NEW p \in Pollers, poller[p].pc \in Idle PROVE Orderly(p)
BY DEF Orderly, Owns, InTime, WasDue, WritesNew, Working, Running, Idle

LEMMA AloneInit == Init => Alone
<1> SUFFICES ASSUME Init PROVE Alone
  OBVIOUS
<1>1. \A p \in Pollers : poller[p].pc \in Idle
  BY DEF Init, Polling, Idle
<1>2. NotStarted
  BY DEF Init, NotStarted, NotStarting
<1>3. NothingLost
  <2>1. (CHOOSE m \in Msgs : TRUE) \in Msgs
    BY NamesAssumption
  <2>2. QED  BY <2>1, NamesAssumption DEF Init, NothingLost, InQueue
<1>4. AllOutdated
  BY DEF Init, AllOutdated
<1>5. QED  BY <1>1, <1>2, <1>3, <1>4, IdleOrderly DEF Alone, Together

\* Two pollers hold two messages.
LEMMA HeldApart ==
    ASSUME NEW p \in Pollers, NEW q \in Pollers, p # q, Orderly(p), Orderly(q),
           poller[p].pc \notin Idle, poller[q].pc \notin Idle
    PROVE  poller[p].msg # poller[q].msg
BY DEF Orderly, Owns

\* A poller whose message and task nobody touches.
LEMMA OrderlyStays ==
    ASSUME NEW q \in Pollers, Orderly(q), poller'[q] = poller[q],
           poller[q].pc \notin Idle => /\ poller[q].msg \in InQueue'
                                       /\ queue'[poller[q].msg] = queue[poller[q].msg],
           poller[q].pc \in Working => UNCHANGED <<message_id, age, hour>>
    PROVE  Orderly(q)'
<1>1. Owns(q)' /\ InTime(q)' /\ WritesNew(q)'
  BY DEF Orderly, Owns, InTime, WritesNew, Running, Idle
<1>2. WasDue(q)'
  BY DEF Orderly, WasDue, Due, Apart, Daily
<1>3. QED  BY <1>1, <1>2 DEF Orderly

\* A version whose message nobody reads, and nobody who lives lets go.
LEMMA OutdatedStays ==
    ASSUME NEW v, Outdated(v), NEW p \in Pollers, NEW state, PollersOK, Becomes(p, state),
           state.pc # "load" \/ state.msg # v.msg,
           poller[p].pc = "delete" /\ v.msg = poller[p].msg => v.msg \notin InQueue' \/ crashes' > 0,
           v.msg \in InQueue' => v.msg \in InQueue /\ queue'[v.msg].hidden > 0,
           crashes' = 0 => crashes = 0
    PROVE  Outdated(v)'
<1>1. poller'[p] = state /\ \A q \in Pollers \ {p} : poller'[q] = poller[q]
  BY DEF Becomes, PollersOK
<1>2. \A q \in Pollers : poller'[q].pc = "load" => poller'[q].msg # v.msg
  BY <1>1 DEF Outdated
<1>3. ASSUME v.msg \in InQueue', crashes' = 0
      PROVE  \E q \in Pollers : poller'[q].pc = "delete" /\ poller'[q].msg = v.msg
  <2>1. PICK q \in Pollers : poller[q].pc = "delete" /\ poller[q].msg = v.msg
    BY <1>3 DEF Outdated
  <2>2. q # p
    BY <1>3, <2>1
  <2>3. QED  BY <1>1, <2>1, <2>2
<1>4. QED  BY <1>2, <1>3 DEF Outdated

\* What a tick leaves of a message that a poller is at work with.
LEMMA RunTicks ==
    ASSUME Types, Tick, NEW p \in Pollers, Orderly(p), poller[p].pc \in Running
    PROVE  Orderly(p)'
<1> USE Bounds
<1> DEFINE m == poller[p].msg
           r == poller[p]
<1>0. r.pc \in {"run", "hung"}
  BY DEF Running
<1>1. /\ m \in InQueue /\ queue[m].holder = p /\ queue[m].hidden > 0
      /\ r.since < r.timeout /\ r.timeout - r.since <= queue[m].hidden
      /\ m = message_id /\ (r.pc = "run" => age = Never \/ Due(age - r.since + r.skew))
  BY DEF Orderly, Owns, InTime, WasDue, Working, Running, Idle
<1>2. /\ r \in PollerState /\ r.since \in Nat /\ r.timeout \in Nat /\ r.timeout >= VTimeout
      /\ r.skew \in Skews /\ (r.pc = "run" => r.since < MaxRun)
  BY DEF Types, PollersOK, PollerState, StateOK, Timeouts, Tick
<1>3. queue[m].hidden \in Nat /\ queue[m] \in Message
  BY <1>1 DEF Types, QueueOK, Message
<1>4. InQueue' = InQueue /\ UNCHANGED <<message_id, hour>>
  BY DEF Tick, InQueue
<1>5. /\ queue'[m].holder = p
      /\ queue'[m].hidden = IF Extended(m) = 0 THEN 0 ELSE Extended(m) - 1
  <2>1. queue'[m] = [queue[m] EXCEPT !.hidden = IF Extended(m) = 0 THEN 0 ELSE Extended(m) - 1]
    BY <1>1 DEF Tick
  <2>2. QED  BY <1>1, <1>3, <2>1 DEF Message
<1>6. /\ poller'[p].pc = r.pc /\ poller'[p].msg = m /\ poller'[p].skew = r.skew
      /\ poller'[p] = Aged(p)
  BY TickedTyped DEF Running
<1>7. Extended(m) = IF Expires(p) THEN r.timeout + VTimeout ELSE queue[m].hidden
  <2>1. Holds(p, m)
    BY <1>1 DEF Holds
  <2>2. \A q \in Pollers : Holds(q, m) => q = p
    BY <1>1 DEF Holds
  <2>3. QED  BY <2>1, <2>2 DEF Extended, Grown
<1>8. \/ /\ Expires(p) /\ poller'[p].since = r.since + 1 /\ poller'[p].timeout = r.timeout + VTimeout
      \/ /\ Expires(p) /\ poller'[p].since = r.since + 1 - VTimeout /\ poller'[p].timeout = r.timeout
         /\ r.pc = "hung"
      \/ /\ ~Expires(p) /\ poller'[p].since = r.since + 1 /\ poller'[p].timeout = r.timeout
  <2>1. CASE /\ Expires(p) /\ r.since < MaxRun
             /\ Aged(p) = [r EXCEPT !.since = r.since + 1, !.timeout = Grown(p)]
    BY <1>2, <1>6, <2>1 DEF PollerState, Grown
  <2>2. CASE Expires(p) /\ r.since >= MaxRun /\ Aged(p) = [r EXCEPT !.since = r.since + 1 - VTimeout]
    <3>1. r.pc = "hung"
      BY <1>2, <2>2 DEF Running
    <3>2. QED  BY <1>2, <1>6, <2>2, <3>1 DEF PollerState
  <2>3. CASE ~Expires(p) /\ Aged(p) = [r EXCEPT !.since = r.since + 1]
    BY <1>2, <1>6, <2>3 DEF PollerState
  <2> HIDE DEF r
  <2>4. QED  BY <2>1, <2>2, <2>3, AgedCases DEF r, Running
<1>9. Owns(p)' /\ InTime(p)'
  <2>1. CASE Expires(p)
    <3>1. r.timeout = r.since + 1
      BY <1>1, <1>2, <2>1 DEF Expires
    <3> HIDE DEF r, m
    <3>2. QED  BY <1>0, <1>1, <1>2, <1>4, <1>5, <1>6, <1>7, <1>8, <2>1, <3>1 DEF Owns, InTime, Running
  <2>2. CASE ~Expires(p)
    <3>1. r.since + 1 < r.timeout
      BY <1>0, <1>2, <2>2 DEF Expires
    <3> HIDE DEF r, m
    <3>2. QED  BY <1>0, <1>1, <1>2, <1>3, <1>4, <1>5, <1>6, <1>7, <1>8, <2>2, <3>1 DEF Owns, InTime, Running
  <2>3. QED  BY <2>1, <2>2
<1>10. WasDue(p)'
  <2>1. Apart' = Apart /\ Daily' = Daily /\ Apart \in Nat /\ Apart <= Day
    BY <1>4 DEF Apart, Daily
  <2>2. ASSUME r.pc = "run" PROVE age' = Never \/ Due(age' - (r.since + 1) + r.skew)
    <3>1. age' = IF age = Never THEN Never ELSE Since(age + 1)
      BY DEF Tick, Older
    <3>2. CASE age # Never
      <4>1. age \in Int /\ age + 1 \in Int /\ age + 1 >= -Drift /\ Due(age - r.since + r.skew)
        BY <1>1, <2>2, <3>2 DEF Types, StoredOK, Ages
      <4>2. CASE age + 1 < 3 * Day
        <5>1. age' = age + 1
          BY <3>1, <3>2, <4>1, <4>2, SinceTyped
        <5>2. age' - (r.since + 1) + r.skew = age - r.since + r.skew
          BY <1>2, <4>1, <5>1 DEF Skews
        <5>3. QED  BY <4>1, <5>2
      <4>3. CASE age + 1 >= 3 * Day
        <5>1. age' >= 2 * Day /\ age' \in Int
          BY <3>1, <3>2, <4>1, <4>3, SinceTyped
        <5>2. r.since + 1 <= Day /\ r.skew \in Nat
          BY <1>2, <2>2 DEF Skews
        <5>3. age' - (r.since + 1) + r.skew >= Apart
          BY <1>2, <2>1, <5>1, <5>2
        <5>4. QED  BY <5>3 DEF Due
      <4>4. QED  BY <4>1, <4>2, <4>3
    <3>3. QED  BY <3>1, <3>2
  <2>3. r.pc = "run" => poller'[p].since = r.since + 1
    BY <1>8
  <2>4. \A d : Due(d)' <=> Due(d)
    BY <2>1 DEF Due
  <2>5. ASSUME r.pc = "run" PROVE (age = Never \/ Due(age - poller[p].since + poller[p].skew))'
    BY <1>6, <2>1, <2>2, <2>3, <2>5 DEF Due
  <2>6. QED  BY <1>1, <1>4, <1>6, <2>5 DEF WasDue, Working, Running
<1>11. QED  BY <1>6, <1>9, <1>10 DEF Orderly, WritesNew, Running

\* Faults are never forgotten.
LEMMA CalmBefore == Types /\ [Next]_vars /\ Calm' => Calm
<1> SUFFICES ASSUME Types, [Next]_vars, Calm' PROVE Calm
  OBVIOUS
<1>1. {starts, late, lags, crashes} \subseteq Nat
  BY DEF Types, StarterOK
<1>2. starts <= starts' /\ late <= late' /\ lags <= lags' /\ crashes <= crashes'
  <2>1. ASSUME NEW p \in Pollers, Poll(p) PROVE UNCHANGED <<starts, late, lags, crashes>>
    BY <2>1 DEF Poll, Read, EmptyRead, Load, Hide, CommandEnds, Write, Put, Delete, boundVars
  <2>2. ASSUME NEW p \in Pollers, Crash(p)
        PROVE  UNCHANGED <<starts, late, lags>> /\ crashes' = crashes + 1
    BY <2>2 DEF Crash
  <2>3. CASE StartWrite \/ StartPut \/ StartCrash
    BY <1>1, <2>3 DEF StartWrite, StartPut, StartCrash, boundVars
  <2>4. CASE StartLoad
    BY <1>1, <2>4 DEF StartLoad
  <2>5. CASE Tick
    <3>1. /\ UNCHANGED <<starts, crashes>> /\ (late' = late \/ late' = late + 1)
          /\ (lags' = lags \/ lags' = lags + 1)
      BY <2>5 DEF Tick
    <3>2. QED  BY <1>1, <3>1
  <2>6. CASE UNCHANGED vars
    BY <1>1, <2>6 DEF vars, boundVars
  <2>7. QED  BY <1>1, <2>1, <2>2, <2>3, <2>4, <2>5, <2>6 DEF Next, Start
<1>3. QED  BY <1>1, <1>2 DEF Calm

LEMMA AloneStep == Types /\ Alone /\ [Next]_vars => Alone'
<1> SUFFICES ASSUME Types, Alone, [Next]_vars PROVE Alone'
  OBVIOUS
<1> USE Bounds
<1>0. QueueOK /\ PollersOK /\ StoredOK /\ StarterOK
  BY DEF Types
<1>1. NotStarted'
  <2>1. ASSUME NEW p \in Pollers, Poll(p) \/ Crash(p) PROVE UNCHANGED <<starts, starter>>
    BY <2>1 DEF Poll, Read, EmptyRead, Load, Hide, CommandEnds, Write, Put, Delete, Crash, boundVars
  <2>2. CASE StartLoad \/ StartWrite \/ StartPut \/ StartCrash
    BY <1>0, <2>2 DEF Alone, NotStarted, StarterOK, StartLoad, StartWrite, StartPut, StartCrash,
                NotStarting, boundVars
  <2>3. CASE Tick
    BY <1>0, <2>3 DEF Alone, NotStarted, StarterOK, StarterState, Tick
  <2>4. CASE UNCHANGED vars
    BY <2>4 DEF Alone, NotStarted, vars, boundVars
  <2>5. QED  BY <2>1, <2>2, <2>3, <2>4 DEF Next, Start, Alone, NotStarted
<1> SUFFICES ASSUME Calm' PROVE Together'
  BY <1>1 DEF Alone
<1>2. Calm /\ starter.pc = "idle" /\ Together
  BY CalmBefore DEF Calm, Alone, NotStarted
<1>3. NothingLost /\ AllOutdated /\ \A q \in Pollers : Orderly(q)
  BY <1>2 DEF Together
<1>4. \A q \in Pollers : poller[q].pc \notin Idle =>
         poller[q].msg \in InQueue /\ queue[poller[q].msg].hidden > 0
  BY <1>3 DEF Orderly, Owns
<1>5. ASSUME NEW p \in Pollers, Read(p) PROVE Together'
  <2> DEFINE s(m) == [Polling EXCEPT !.pc = "load", !.msg = m]
  <2>1. PICK m \in Visible : /\ queue' = [queue EXCEPT ![m] = [hidden |-> VTimeout, holder |-> p]]
                             /\ Becomes(p, s(m))
    BY <1>5 DEF Read
  <2>2. s(m).pc = "load" /\ s(m).msg = m /\ poller[p].pc = "poll"
    BY <1>5 DEF Polling, Read
  <2> HIDE DEF s
  <2>3. m \in InQueue /\ queue[m].hidden = 0
    BY DEF Visible
  <2>4. InQueue' = InQueue /\ UNCHANGED <<message_id, age, hour, stale, crashes>>
    BY <1>0, <1>5, <2>1 DEF Read, QueueOK, InQueue, taskVars, boundVars
  <2>5. /\ poller'[p] = s(m) /\ \A q \in Pollers \ {p} : poller'[q] = poller[q]
        /\ queue'[m] = [hidden |-> VTimeout, holder |-> p]
        /\ \A x \in InQueue \ {m} : queue'[x] = queue[x]
    BY <1>0, <2>1, <2>3 DEF Becomes, PollersOK, QueueOK, InQueue
  <2>6. Orderly(p)'
    BY <2>2, <2>3, <2>4, <2>5 DEF Orderly, Owns, InTime, WasDue, WritesNew, Working, Running
  <2>7. ASSUME NEW q \in Pollers, q # p PROVE Orderly(q)'
    <3>1. poller[q].pc \notin Idle => poller[q].msg # m
      BY <1>4, <2>3
    <3>2. QED  BY <1>3, <1>4, <2>4, <2>5, <2>7, <3>1, OrderlyStays
  <2>8. ASSUME NEW v \in stale PROVE Outdated(v)'
    <3>1. Outdated(v)
      BY <1>3 DEF AllOutdated
    <3>2. v.msg # m
      BY <2>3, <3>1 DEF Outdated
    <3>3. v.msg \in InQueue' => v.msg \in InQueue /\ queue'[v.msg].hidden > 0
      BY <2>4, <2>5, <3>1, <3>2 DEF Outdated
    <3>4. QED  BY <1>0, <2>1, <2>2, <2>4, <3>1, <3>2, <3>3, OutdatedStays
  <2>9. QED  BY <1>3, <2>4, <2>6, <2>7, <2>8 DEF Together, NothingLost, AllOutdated
<1>6. ASSUME NEW p \in Pollers, EmptyRead(p) \/ CommandEnds(p) \/ Load(p) PROVE Together'
  <2>1. /\ UNCHANGED <<queue, message_id, age, hour, stale, crashes>> /\ InQueue' = InQueue
        /\ poller[p].pc # "delete"
    BY <1>6 DEF EmptyRead, CommandEnds, Load, InQueue, taskVars, boundVars
  <2>2. PICK state : /\ Becomes(p, state) /\ state.pc # "load"
                     /\ (poller'[p] = state => Orderly(p)')
    <3>1. CASE EmptyRead(p)
      <4> DEFINE s == [Polling EXCEPT !.pc = "sleep", !.delay = Wait]
      <4>1. Becomes(p, s) /\ s.pc = "sleep"
        BY <3>1 DEF EmptyRead, Polling
      <4> HIDE DEF s
      <4>2. poller'[p] = s => Orderly(p)'
        BY <4>1 DEF Orderly, Owns, InTime, WasDue, WritesNew, Working, Running, Idle
      <4>3. QED  BY <4>1, <4>2
    <3>2. CASE CommandEnds(p)
      <4> DEFINE s == [poller[p] EXCEPT !.pc = "write", !.timeout = 0]
      <4>1. Becomes(p, s) /\ poller[p].pc = "run"
        BY <3>2 DEF CommandEnds
      <4>2. /\ s.pc = "write" /\ s.msg = poller[p].msg /\ s.since = poller[p].since
            /\ s.skew = poller[p].skew
        BY <1>0 DEF PollersOK, PollerState
      <4> HIDE DEF s
      <4>3. poller'[p] = s => Orderly(p)'
        BY <1>3, <2>1, <4>1, <4>2 DEF Orderly, Owns, InTime, WasDue, WritesNew, Working, Running, Idle,
           Due, Apart, Daily
      <4>4. QED  BY <4>1, <4>2, <4>3
    <3>3. CASE Load(p)
      <4> DEFINE m == poller[p].msg
      <4>1. poller[p].pc = "load"
        BY <3>3 DEF Load
      <4>2. m \in InQueue /\ queue[m].holder = p /\ queue[m].hidden = VTimeout /\ m \in Msgs
        BY <1>0, <1>3, <4>1 DEF Orderly, Owns, InTime, QueueOK, Idle
      <4>3. PICK v \in Versions, skew \in Skews, command \in Commands :
               Becomes(p, IF v.msg \in {NoMsg, m} THEN Checked(m, Check(v.age, skew), skew, command)
                          ELSE Polling)
        BY <3>3 DEF Load, Skews
      <4>4. CASE v.msg \notin {NoMsg, m}
        <5>1. Becomes(p, Polling)
          BY <4>3, <4>4
        <5>2. poller'[p] = Polling => Orderly(p)'
          BY PollingTyped DEF Orderly, Owns, InTime, WasDue, WritesNew, Working, Running, Idle
        <5>3. QED  BY <5>1, <5>2, PollingTyped
      <4>5. CASE v.msg \in {NoMsg, m}
        <5>1. v = Saved /\ message_id = m
          <6>1. message_id # NoMsg
            BY <1>3, <4>2 DEF NothingLost
          <6>2. v \notin stale
            BY <1>3, <4>1, <4>5 DEF AllOutdated, Outdated
          <6>3. QED  BY <4>5, <6>1, <6>2 DEF Versions, Saved
        <5>2. v.age = age /\ age \in Ages
          BY <1>0, <5>1 DEF Saved, StoredOK
        <5> DEFINE r == Checked(m, Check(age, skew), skew, command)
        <5>3. Becomes(p, r)
          BY <4>3, <4>5, <5>2
        <5>4. Check(age, skew) \in 0..Day
          BY <1>0, <5>2, CheckType
        <5>5. /\ r.msg = m /\ r.pc \in {"run", "hung", "hide"}
              /\ r.pc \in Running =>
                   Check(age, skew) = 0 /\ r.since = 0 /\ r.skew = skew /\ r.timeout = VTimeout
          BY <4>2, <5>4, CheckedTyped
        <5> HIDE DEF r
        <5>6. r.pc \in Running => age = Never \/ Due(age - r.since + r.skew)
          <6>1. CASE r.pc \in Running /\ age # Never
            <7>1. Due(age + skew)
              BY <1>0, <5>2, <5>5, <6>1, CheckDue
            <7>2. age - 0 + skew = age + skew
              BY <5>2, <6>1 DEF Ages, Skews
            <7>3. QED  BY <5>5, <6>1, <7>1, <7>2
          <6>2. QED  BY <6>1
        <5>7. ASSUME poller'[p] = r PROVE Orderly(p)'
          <6>1. Owns(p)' /\ InTime(p)' /\ WritesNew(p)'
            BY <2>1, <4>2, <5>5, <5>7 DEF Owns, InTime, WritesNew, Running, Idle
          <6>2. WasDue(p)'
            BY <2>1, <5>1, <5>5, <5>6, <5>7 DEF WasDue, Working, Running, Due, Apart, Daily
          <6>3. QED  BY <6>1, <6>2 DEF Orderly
        <5>8. QED  BY <5>3, <5>5, <5>7
      <4>6. QED  BY <4>4, <4>5
    <3>4. QED  BY <1>6, <3>1, <3>2, <3>3
  <2>3. poller'[p] = state /\ \A q \in Pollers \ {p} : poller'[q] = poller[q]
    BY <1>0, <2>2 DEF Becomes, PollersOK
  <2>4. ASSUME NEW q \in Pollers PROVE Orderly(q)'
    BY <1>3, <1>4, <2>1, <2>2, <2>3, OrderlyStays
  <2>5. ASSUME NEW v \in stale PROVE Outdated(v)'
    <3>1. Outdated(v)
      BY <1>3 DEF AllOutdated
    <3>2. v.msg \in InQueue' => v.msg \in InQueue /\ queue'[v.msg].hidden > 0
      BY <2>1, <3>1 DEF Outdated
    <3>3. QED  BY <1>0, <2>1, <2>2, <3>1, <3>2, OutdatedStays
  <2>6. QED  BY <1>3, <2>1, <2>4, <2>5 DEF Together, NothingLost, AllOutdated
<1>7. ASSUME NEW p \in Pollers, Hide(p) \/ Delete(p) \/ Crash(p) PROVE Together'
  <2>1. /\ Becomes(p, Polling) /\ UNCHANGED <<message_id, age, hour, stale>> /\ poller[p].pc # "poll"
        /\ InQueue' \subseteq InQueue /\ crashes' \in {crashes, crashes + 1}
        /\ \A x \in InQueue \ {poller[p].msg} : x \in InQueue' /\ queue'[x] = queue[x]
    BY <1>7 DEF Hide, Delete, Crash, Without, Holds, InQueue, taskVars, boundVars
  <2>2. poller'[p].pc \in Idle /\ \A q \in Pollers \ {p} : poller'[q] = poller[q]
    BY <1>0, <2>1, PollingTyped DEF Becomes, PollersOK, Idle
  <2>3. Orderly(p)'
    BY <2>2 DEF Orderly, Owns, InTime, WasDue, WritesNew, Working, Running, Idle
  <2>4. ASSUME NEW q \in Pollers, q # p PROVE Orderly(q)'
    <3>1. poller[q].pc \notin Idle /\ poller[p].pc \notin Idle => poller[q].msg # poller[p].msg
      BY <1>3, <2>4, HeldApart
    <3>2. poller[p].pc \in Idle => UNCHANGED queue /\ InQueue' = InQueue
      BY <1>7 DEF Hide, Delete, Crash, Idle, InQueue
    <3>3. QED  BY <1>3, <1>4, <2>1, <2>2, <2>4, <3>1, <3>2, OrderlyStays
  <2>5. ASSUME NEW v \in stale PROVE Outdated(v)'
    <3>1. Outdated(v) /\ crashes \in Nat
      BY <1>0, <1>3 DEF AllOutdated, StarterOK
    <3>2. v.msg \in InQueue' => v.msg \in InQueue /\ queue'[v.msg].hidden > 0
      <4>1. CASE Hide(p)
        <5>1. poller[p].delay > 0
          BY <1>0, <4>1 DEF Hide, PollersOK, StateOK
        <5>2. \A x \in InQueue : queue[x] \in Message
          BY <1>0 DEF QueueOK
        <5>3. \A x \in InQueue : x \in InQueue' /\ (queue'[x].hidden = queue[x].hidden \/ queue'[x].hidden > 0)
          BY <4>1, <5>1, <5>2 DEF Hide, InQueue, Message
        <5>4. QED  BY <2>1, <3>1, <5>3 DEF Outdated
      <4>2. CASE Delete(p) \/ Crash(p)
        BY <2>1, <3>1, <4>2 DEF Delete, Crash, Without, Outdated, InQueue
      <4>3. QED  BY <1>7, <4>1, <4>2
    <3>3. poller[p].pc = "delete" /\ v.msg = poller[p].msg => v.msg \notin InQueue' \/ crashes' > 0
      <4>1. CASE Delete(p)
        <5>1. queue[poller[p].msg].holder = p
          BY <1>3, <4>1 DEF Delete, Orderly, Owns, Idle
        <5>2. InQueue' = InQueue \ {poller[p].msg}
          BY <4>1, <5>1 DEF Delete, Without, InQueue
        <5>3. QED  BY <5>2
      <4>2. CASE Crash(p)
        BY <3>1, <4>2 DEF Crash
      <4>3. CASE Hide(p)
        BY <4>3 DEF Hide
      <4>4. QED  BY <1>7, <4>1, <4>2, <4>3
    <3>4. crashes' = 0 => crashes = 0
      BY <2>1, <3>1
    <3>5. QED  BY <1>0, <2>1, <3>1, <3>2, <3>3, <3>4, PollingTyped, OutdatedStays
  <2>6. QED  BY <1>3, <2>1, <2>3, <2>4, <2>5 DEF Together, NothingLost, AllOutdated
<1>8. ASSUME NEW p \in Pollers, Write(p) PROVE Together'
  <2> DEFINE s == [poller[p] EXCEPT !.pc = "put", !.new_msg = NewId]
  <2>1. /\ Becomes(p, s) /\ UNCHANGED <<message_id, age, hour, stale, crashes>> /\ poller[p].pc = "write"
        /\ queue' = Sent(queue) /\ NewId \in Msgs \ InQueue
        /\ \A v \in stale : v.msg # NewId
    BY <1>8, NewIdFresh DEF Write, taskVars, boundVars
  <2>2. /\ s.pc = "put" /\ s.msg = poller[p].msg /\ s.since = poller[p].since
        /\ s.skew = poller[p].skew /\ s.new_msg = NewId
    BY <1>0 DEF PollersOK, PollerState
  <2> HIDE DEF s
  <2>3. poller'[p] = s /\ \A q \in Pollers \ {p} : poller'[q] = poller[q]
    BY <1>0, <2>1 DEF Becomes, PollersOK
  <2>4. InQueue' = InQueue \union {NewId} /\ \A x \in InQueue : queue'[x] = queue[x]
    BY <2>1 DEF Sent, InQueue
  <2>5. Orderly(p)'
    BY <1>3, <2>1, <2>2, <2>3, <2>4
    DEF Orderly, Owns, InTime, WasDue, WritesNew, Working, Running, Idle, Due, Apart, Daily
  <2>6. \A q \in Pollers \ {p} : Orderly(q)'
    BY <1>3, <1>4, <2>1, <2>3, <2>4, OrderlyStays
  <2>7. NothingLost'
    BY <1>3, <1>4, <2>1 DEF NothingLost, Idle
  <2>8. ASSUME NEW v \in stale PROVE Outdated(v)'
    <3>1. Outdated(v)
      BY <1>3 DEF AllOutdated
    <3>2. v.msg \in InQueue' => v.msg \in InQueue /\ queue'[v.msg].hidden > 0
      BY <2>1, <2>4, <3>1 DEF Outdated
    <3>3. QED  BY <1>0, <2>1, <2>2, <3>1, <3>2, OutdatedStays
  <2>9. QED  BY <2>1, <2>5, <2>6, <2>7, <2>8 DEF Together, AllOutdated
<1>9. ASSUME NEW p \in Pollers, Put(p) PROVE Together'
  <2> DEFINE s == [Polling EXCEPT !.pc = "delete", !.msg = poller[p].msg]
  <2>1. /\ Becomes(p, s) /\ UNCHANGED <<queue, crashes>> /\ InQueue' = InQueue
        /\ message_id' = poller[p].new_msg /\ poller[p].pc = "put"
        /\ stale' \subseteq stale \union {Saved}
    BY <1>9 DEF Put, Save, Versions, InQueue, boundVars
  <2>2. s.pc = "delete" /\ s.msg = poller[p].msg
    BY DEF Polling
  <2> HIDE DEF s
  <2>3. poller'[p] = s /\ \A q \in Pollers \ {p} : poller'[q] = poller[q]
    BY <1>0, <2>1 DEF Becomes, PollersOK
  <2>4. Orderly(p)'
    BY <1>3, <2>1, <2>2, <2>3 DEF Orderly, Owns, InTime, WasDue, WritesNew, Working, Running, Idle
  <2>5. poller[p].msg = message_id /\ poller[p].pc \notin Idle
    BY <1>3, <2>1 DEF Orderly, WasDue, Working, Idle
  <2>6. ASSUME NEW q \in Pollers, q # p PROVE Orderly(q)'
    <3>1. poller[q].pc \notin Working
      <4>1. poller[q].pc \in Working => poller[q].msg = message_id /\ poller[q].pc \notin Idle
        BY <1>3 DEF Orderly, WasDue, Working, Idle
      <4>2. QED  BY <1>3, <2>5, <2>6, <4>1, HeldApart
    <3>2. QED  BY <1>3, <1>4, <2>1, <2>3, <2>6, <3>1, OrderlyStays
  <2>7. NothingLost'
    BY <1>3, <2>1, NamesAssumption DEF NothingLost, Orderly, WritesNew
  <2>8. ASSUME NEW v \in stale PROVE Outdated(v)'
    <3>1. Outdated(v)
      BY <1>3 DEF AllOutdated
    <3>2. v.msg \in InQueue' => v.msg \in InQueue /\ queue'[v.msg].hidden > 0
      BY <2>1, <3>1 DEF Outdated
    <3>3. QED  BY <1>0, <2>1, <2>2, <3>1, <3>2, OutdatedStays
  <2>9. ASSUME NEW v, v = Saved PROVE Outdated(v)'
    <3>1. v.msg = poller[p].msg
      BY <2>5, <2>9 DEF Saved
    <3>2. v.msg # NoMsg /\ (v.msg \in InQueue' => queue'[v.msg].hidden > 0)
      BY <1>0, <1>4, <2>1, <2>5, <3>1, NamesAssumption DEF PollersOK, StateOK
    <3>3. \A q \in Pollers : poller'[q].pc = "load" => poller'[q].msg # v.msg
      <4>1. ASSUME NEW q \in Pollers, q # p, poller[q].pc = "load" PROVE poller[q].msg # v.msg
        BY <1>3, <2>5, <3>1, <4>1, HeldApart DEF Idle
      <4>2. QED  BY <2>2, <2>3, <4>1
    <3>4. poller'[p].pc = "delete" /\ poller'[p].msg = v.msg
      BY <2>2, <2>3, <3>1
    <3>5. QED  BY <3>2, <3>3, <3>4 DEF Outdated
  <2>10. ASSUME NEW v \in stale' PROVE Outdated(v)'
    BY <2>1, <2>8, <2>9
  <2>11. QED  BY <2>4, <2>6, <2>7, <2>10 DEF Together, AllOutdated
<1>10. CASE StartLoad \/ StartWrite \/ StartPut \/ StartCrash
  <2>1. ~StartWrite /\ ~StartPut /\ ~StartCrash
    BY <1>2 DEF StartWrite, StartPut, StartCrash
  <2>2. StartLoad => starts' # 0
    BY <1>2, <1>0 DEF StartLoad, Calm
  <2>3. QED  BY <1>10, <2>1, <2>2 DEF Calm
<1>11. CASE Tick
  <2>1. Prompt
    <3>1. late' # late + 1
      BY <1>2 DEF Calm
    <3>2. QED  BY <1>11, <3>1 DEF Tick
  <2>2. InQueue' = InQueue /\ UNCHANGED <<message_id, crashes>>
    BY <1>11 DEF Tick, InQueue
  <2>3. ASSUME NEW q \in Pollers PROVE Orderly(q)'
    <3>1. CASE poller[q].pc \in Running
      BY <1>3, <1>11, <3>1, RunTicks
    <3>2. CASE poller[q].pc = "sleep"
      <4>1. poller'[q].pc \in Idle
        BY <1>11, <3>2, TickedTyped DEF Idle
      <4>2. QED  BY <4>1 DEF Orderly, Owns, InTime, WasDue, WritesNew, Working, Running, Idle
    <3>3. QED  BY <2>1, <3>1, <3>2 DEF Prompt, Running
  <2>4. ASSUME NEW w \in stale' PROVE Outdated(w)'
    <3>1. PICK v \in stale : w.msg = v.msg
      BY <1>0, <1>11, StaleTicks
    <3>2. Outdated(v)
      BY <1>3 DEF AllOutdated
    <3>3. crashes = 0
      <4>1. lags' = lags + 1 /\ lags \in Nat
        BY <1>0, <1>11 DEF Tick, StarterOK
      <4>2. QED  BY <2>2, <4>1 DEF Calm
    <3>4. v.msg \notin InQueue
      BY <2>1, <3>2, <3>3 DEF Outdated, Prompt
    <3>5. \A q \in Pollers : poller'[q].pc # "load"
      BY <1>11, <2>1, TickedTyped DEF Prompt, Idle
    <3>6. QED  BY <2>2, <3>1, <3>2, <3>4, <3>5 DEF Outdated
  <2>5. QED  BY <1>3, <2>2, <2>3, <2>4 DEF Together, NothingLost, AllOutdated
<1>12. CASE UNCHANGED vars
  <2>1. UNCHANGED <<poller, queue, message_id, age, hour, stale, crashes>> /\ InQueue' = InQueue
    BY <1>12 DEF vars, taskVars, boundVars, InQueue
  <2>2. AllOutdated'
    BY <1>3, <2>1 DEF AllOutdated, Outdated
  <2>3. QED  BY <1>3, <1>4, <2>1, <2>2, OrderlyStays DEF Together, NothingLost
<1>13. QED  BY <1>5, <1>6, <1>7, <1>8, <1>9, <1>10, <1>11, <1>12 DEF Next, Poll, Start

\* Two pollers never run a task at a time, if calls are prompt, nobody starts it
\* a second time and the store does not lag while pollers die: _run hides the
\* message for as long as it runs, and no version names a message that is there.
THEOREM OneAtATimeAlways == Spec => []OneAtATime
<1>1. Init => Types /\ Alone
  BY TypesInit, AloneInit
<1>2. Types /\ Alone /\ [Next]_vars => (Types /\ Alone)'
  BY TypesStep, AloneStep
<1>3. Alone => OneAtATime
  BY HeldApart DEF Alone, Together, Orderly, WasDue, Working, Idle, OneAtATime
<1>4. QED  BY <1>1, <1>2, <1>3, PTL DEF Spec

\* Then the runs that put records began an hour, or a day, after the one
\* recorded before, or by a clock that is behind that one by no more than Drift:
\* nothing is run twice for one time it was due.
THEOREM RunsApartAlways == Spec => RunsApart
<1>1. Init => Types /\ Alone
  BY TypesInit, AloneInit
<1>2. Types /\ Alone /\ [Next]_vars => (Types /\ Alone)'
  BY TypesStep, AloneStep
<1>3. Types /\ Alone => [\A p \in Pollers : (Put(p) /\ Calm /\ age # Never)
                            => LET apart == age - poller[p].since + poller[p].skew
                               IN  \/ apart >= (IF Daily THEN Day ELSE Hour)
                                   \/ ~Daily /\ apart \in -Drift..-1]_vars
  BY DEF Alone, Together, Orderly, WasDue, Working, Put, Due, Apart
<1>4. QED  BY <1>1, <1>2, <1>3, PTL DEF Spec, RunsApart
=============================================================================
