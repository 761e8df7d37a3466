----------------------- MODULE ResumableDownloadProofs -----------------------
(***************************************************************************)
(* Proofs about resumable downloads, for any objects, destinations, number *)
(* of retries, runs, overwritten objects and faults.                       *)
(***************************************************************************)
EXTENDS ResumableDownload, SequenceTheorems, TLAPS

-----------------------------------------------------------------------------
(* Type correctness.                                                       *)

\* The body that the server sends is a response that is still to be read.
LEMMA BodyTyped == TypeOK => Body \in Response /\ Body # NoResp
<1> SUFFICES ASSUME TypeOK PROVE Body \in Response /\ Body # NoResp
  OBVIOUS
<1>1. object \in Seq(Byte) /\ key \in Seq(Byte) /\ start \in Nat
  BY ContentsAssumption DEF TypeOK
<1>2. Len(object) \in Nat /\ Len(key) \in Nat
  BY <1>1
<1>3. Body \in Response
  BY <1>1, <1>2 DEF TypeOK, Body, Response
<1>4. QED  BY <1>3, NoRespAssumption

\* The parts of TypeOK that an inspection of every action shows to be kept.
ControlOK == pc \in Working \union {"idle"} /\ result \in Results
FlagsOK ==
    /\ nested \in BOOLEAN /\ calm \in BOOLEAN /\ mine \in BOOLEAN
    /\ flaws \subseteq {"pipe", "early", "kill"}
NamesOK ==
    /\ object \in Contents /\ key \in Contents /\ seen \subseteq Contents
    /\ etag \in Contents \union {NoEtag} /\ tracker \in Contents \union {NoEtag, Torn}
    /\ dest \in Dests
NumbersOK ==
    /\ start \in Nat /\ before \in Nat /\ less \in Nat
    /\ runs \in Nat /\ edits \in Nat

LEMMA ControlStep == ControlOK /\ [Next]_vars => ControlOK'
BY DEF ControlOK, Working, Results, Next, Step, Goto, Finish, DiskFails, Weakness, Raise,
         vars, disk, handler, bounds, history,
         Run, Attempt, OpenTracker, OpenTrackerFails, WriteTracker, PrepareFails,
         TruncateFile, Request, ReuseResponse, RequestRefused, RequestLost, BrokenPipe,
         ReadBuffer, ReadFails, EarlyEnd, ReadEnd, Retry, CloseKey, CloseFails,
         RemoveTracker, RemoveTrackerFails, CheckFinalMd5, Crash, EditObject

LEMMA FlagsStep == FlagsOK /\ [Next]_vars => FlagsOK'
BY DEF FlagsOK, Next, Step, Goto, Finish, DiskFails, Weakness, Raise,
         vars, disk, handler, bounds, history,
         Run, Attempt, OpenTracker, OpenTrackerFails, WriteTracker, PrepareFails,
         TruncateFile, Request, ReuseResponse, RequestRefused, RequestLost, BrokenPipe,
         ReadBuffer, ReadFails, EarlyEnd, ReadEnd, Retry, CloseKey, CloseFails,
         RemoveTracker, RemoveTrackerFails, CheckFinalMd5, Crash, EditObject

LEMMA NamesStep == NamesOK /\ [Next]_vars => NamesOK'
BY DEF NamesOK, Next, Step, Goto, Finish, DiskFails, Weakness, Raise,
         vars, disk, handler, bounds, history,
         Run, Attempt, OpenTracker, OpenTrackerFails, WriteTracker, PrepareFails,
         TruncateFile, Request, ReuseResponse, RequestRefused, RequestLost, BrokenPipe,
         ReadBuffer, ReadFails, EarlyEnd, ReadEnd, Retry, CloseKey, CloseFails,
         RemoveTracker, RemoveTrackerFails, CheckFinalMd5, Crash, EditObject

LEMMA NumbersStep ==
    NumbersOK /\ Len(file[dest]) \in Nat /\ [Next]_vars => NumbersOK'
<1> SUFFICES ASSUME NumbersOK, Len(file[dest]) \in Nat, [Next]_vars PROVE NumbersOK'
  OBVIOUS
<1> USE DEF NumbersOK
<1>1. CASE Run
  BY <1>1 DEF Run, disk
<1>2. CASE Attempt
  BY <1>2 DEF Attempt, bounds
<1>3. CASE BrokenPipe
  BY <1>3 DEF BrokenPipe, Weakness, bounds
<1>4. CASE Retry
  BY <1>4 DEF Retry, bounds
<1>5. CASE EditObject
  BY <1>5 DEF EditObject, handler
<1>6. UNCHANGED <<start, before, less, runs, edits>> => NumbersOK'
  OBVIOUS
<1>7. QED
  BY <1>1, <1>2, <1>3, <1>4, <1>5, <1>6
     DEF Next, Step, DiskFails, Weakness, vars, handler, bounds, history,
         OpenTracker, OpenTrackerFails, WriteTracker, PrepareFails,
         TruncateFile, Request, ReuseResponse, RequestRefused, RequestLost,
         ReadBuffer, ReadFails, EarlyEnd, ReadEnd, CloseKey, CloseFails,
         RemoveTracker, RemoveTrackerFails, CheckFinalMd5, Crash

\* The server does not promise bytes that the object does not have.
Within == resp # NoResp => resp.end <= Len(resp.data)

\* The files stay sequences of buffers.
LEMMA FilesStep ==
    ASSUME TypeOK, Within, [Next]_vars PROVE file' \in [Dests -> Seq(Byte)]
<1>1. /\ file[dest] \in Seq(Byte) /\ dest \in Dests /\ file \in [Dests -> Seq(Byte)]
      /\ <<>> \in Seq(Byte)
  BY DEF TypeOK
<1>2. ASSUME NEW c \in Seq(Byte), Store(c) PROVE file' \in [Dests -> Seq(Byte)]
  BY <1>1, <1>2 DEF Store
<1>3. CASE TruncateFile
  BY <1>1, <1>2, <1>3 DEF TruncateFile
<1>4. CASE ReadBuffer
  <2>1. resp.data[resp.pos + 1] \in Byte
    <3>1. resp \in Response /\ resp.pos < resp.end /\ resp.end <= Len(resp.data)
      BY <1>4 DEF ReadBuffer, TypeOK, Within
    <3>2. resp.data \in Seq(Byte) /\ resp.pos \in Nat /\ resp.end \in Nat
      BY <3>1, ContentsAssumption DEF Response
    <3>3. resp.pos + 1 \in 1..Len(resp.data)
      BY <3>1, <3>2
    <3>4. QED  BY <3>2, <3>3, ElementOfSeq
  <2>2. Append(file[dest], resp.data[resp.pos + 1]) \in Seq(Byte)
    BY <1>1, <2>1
  <2>3. QED  BY <1>2, <1>4, <2>2 DEF ReadBuffer
<1>5. CASE CheckFinalMd5
  BY <1>1, <1>2, <1>5 DEF CheckFinalMd5
<1>6. CASE Crash
  <2>1. ASSUME file[dest] # <<>> PROVE SubSeq(file[dest], 1, Len(file[dest]) - 1) \in Seq(Byte)
    <3> DEFINE n == Len(file[dest]) - 1
    <3>1. n \in Int /\ \A i \in 1..n : i \in 1..Len(file[dest])
      BY <1>1
    <3>2. \A i \in 1..n : file[dest][i] \in Byte
      BY <1>1, <3>1, ElementOfSeq
    <3> HIDE DEF n
    <3>3. SubSeq(file[dest], 1, n) \in Seq(Byte)
      BY <3>1, <3>2, SubSeqProperties
    <3>4. QED  BY <3>3 DEF n
  <2>2. QED  BY <1>1, <1>2, <1>6, <2>1 DEF Crash
<1>7. QED
  BY <1>1, <1>3, <1>4, <1>5, <1>6
     DEF Next, Step, Goto, Finish, DiskFails, Weakness, Raise, vars, disk, handler, bounds, history,
         Run, Attempt, OpenTracker, OpenTrackerFails, WriteTracker, PrepareFails,
         TruncateFile, Request, ReuseResponse, RequestRefused, RequestLost, BrokenPipe,
         ReadBuffer, ReadFails, EarlyEnd, ReadEnd, Retry, CloseKey, CloseFails,
         RemoveTracker, RemoveTrackerFails, CheckFinalMd5, Crash, EditObject

\* The response stays one, and is there when it is read.
LEMMA ResponseStep ==
    ASSUME TypeOK, [Next]_vars
    PROVE  resp' \in Response \union {NoResp} /\ (pc' = "read" => resp' # NoResp)
<1>1. resp \in Response \union {NoResp} /\ (pc = "read" => resp # NoResp)
  BY DEF TypeOK
<1>2. ASSUME resp \in Response, NEW state \in {"live", "dead", "closed"}
      PROVE  [resp EXCEPT !.state = state] \in Response
  BY <1>2 DEF Response
<1>3. CASE Request
  BY <1>3, BodyTyped DEF Request
<1>4. CASE ReadBuffer
  <2>1. resp \in Response /\ resp.pos + 1 \in Nat
    BY <1>1, <1>4 DEF ReadBuffer, Response
  <2>2. resp' \in Response
    BY <1>4, <2>1 DEF ReadBuffer, Response
  <2>3. QED  BY <2>2, NoRespAssumption
<1>5. CASE ReadFails
  BY <1>1, <1>2, <1>5, NoRespAssumption DEF ReadFails, Raise, Goto, Finish
<1>6. CASE EarlyEnd
  BY <1>1, <1>2, <1>6, NoRespAssumption DEF EarlyEnd, Raise, Goto, Finish
<1>7. CASE CloseKey
  BY <1>1, <1>2, <1>7, NoRespAssumption DEF CloseKey, Goto
<1>8. CASE ReadEnd
  BY <1>8 DEF ReadEnd, Goto
<1>9. QED
  BY <1>1, <1>3, <1>4, <1>5, <1>6, <1>7, <1>8
     DEF Next, Step, Goto, Finish, DiskFails, Weakness, Raise, vars, disk, handler, bounds, history,
         Run, Attempt, OpenTracker, OpenTrackerFails, WriteTracker, PrepareFails,
         TruncateFile, Request, ReuseResponse, RequestRefused, RequestLost, BrokenPipe,
         ReadBuffer, ReadFails, EarlyEnd, ReadEnd, Retry, CloseKey, CloseFails,
         RemoveTracker, RemoveTrackerFails, CheckFinalMd5, Crash, EditObject

LEMMA WithinStep == TypeOK /\ Within /\ [Next]_vars => Within'
<1> SUFFICES ASSUME TypeOK, Within, [Next]_vars PROVE Within'
  OBVIOUS
<1>1. resp # NoResp => resp \in Response /\ resp.end <= Len(resp.data)
  BY DEF TypeOK, Within
<1>2. ASSUME NEW state \in {"live", "dead", "closed"}, resp # NoResp,
             resp' = [resp EXCEPT !.state = state]
      PROVE  resp'.end = resp.end /\ resp'.data = resp.data
  BY <1>1, <1>2 DEF Response
<1>3. CASE Request
  <2>1. Len(object) \in Nat /\ Len(key) \in Nat
    BY ContentsAssumption DEF TypeOK
  <2>2. QED  BY <1>3, <2>1 DEF Request, Body, Within
<1>4. CASE ReadBuffer
  <2>1. resp'.end = resp.end /\ resp'.data = resp.data /\ resp # NoResp
    BY <1>1, <1>4 DEF ReadBuffer, Response, TypeOK
  <2>2. QED  BY <1>1, <2>1 DEF Within
<1>5. CASE ReadFails
  BY <1>1, <1>2, <1>5 DEF ReadFails, Within, TypeOK
<1>6. CASE EarlyEnd
  BY <1>1, <1>2, <1>6 DEF EarlyEnd, Within, TypeOK
<1>7. CASE CloseKey
  BY <1>1, <1>2, <1>7 DEF CloseKey, Within
<1>8. CASE resp' = resp \/ resp' = NoResp
  BY <1>1, <1>8 DEF Within
<1>9. QED
  BY <1>3, <1>4, <1>5, <1>6, <1>7, <1>8
     DEF Next, Step, vars,
         Run, Attempt, OpenTracker, OpenTrackerFails, WriteTracker, PrepareFails,
         TruncateFile, ReuseResponse, RequestRefused, RequestLost, BrokenPipe,
         ReadEnd, Retry, CloseFails,
         RemoveTracker, RemoveTrackerFails, CheckFinalMd5, Crash, EditObject

\* Every step keeps the types.
LEMMA TypeStep == TypeOK /\ Within /\ [Next]_vars => TypeOK'
<1>1. TypeOK => ControlOK /\ FlagsOK /\ NamesOK /\ NumbersOK /\ Len(file[dest]) \in Nat
  BY DEF TypeOK, ControlOK, FlagsOK, NamesOK, NumbersOK
<1>2. /\ ControlOK' /\ FlagsOK' /\ NamesOK' /\ NumbersOK'
      /\ file' \in [Dests -> Seq(Byte)]
      /\ resp' \in Response \union {NoResp} /\ (pc' = "read" => resp' # NoResp)
      => TypeOK'
  BY DEF TypeOK, ControlOK, FlagsOK, NamesOK, NumbersOK
<1>3. QED
  BY <1>1, <1>2, ControlStep, FlagsStep, NamesStep, NumbersStep, FilesStep, ResponseStep

LEMMA TypeAlways == Spec => [](TypeOK /\ Within)
<1>1. Init => TypeOK /\ Within
  <2>1. Init => ControlOK /\ FlagsOK /\ NamesOK /\ NumbersOK
    <3>1. Init => ControlOK
      BY DEF Init, ControlOK, Working, Results
    <3>2. Init => FlagsOK
      BY DEF Init, FlagsOK
    <3>3. Init => NumbersOK
      BY DEF Init, NumbersOK
    <3>4. Init => NamesOK
      BY DEF Init, NamesOK
    <3>5. QED  BY <3>1, <3>2, <3>3, <3>4
  <2>2. Init => file \in [Dests -> Seq(Byte)] /\ resp = NoResp /\ pc = "idle"
    BY ContentsAssumption DEF Init
  <2>3. /\ ControlOK /\ FlagsOK /\ NamesOK /\ NumbersOK
        /\ file \in [Dests -> Seq(Byte)]
        /\ resp \in Response \union {NoResp} /\ (pc = "read" => resp # NoResp)
        => TypeOK
    BY DEF TypeOK, ControlOK, FlagsOK, NamesOK, NumbersOK
  <2>4. Init => TypeOK
    BY <2>1, <2>2, <2>3
  <2>5. QED  BY <2>2, <2>4 DEF Within
<1>2. QED  BY <1>1, TypeStep, WithinStep, PTL DEF Spec

\* The handler, the files, the tracker file and the response are well typed,
\* and a response is read only when there is one.
THEOREM TypeCorrect == Spec => []TypeOK
BY TypeAlways, PTL

-----------------------------------------------------------------------------
(* A file that is kept is one version of the object.                       *)

\* The etag and the size that are compared in the end are those of a content
\* that the object had in this run.
SeenInv ==
    /\ pc # "idle" => key \in seen /\ result # "ok"
    /\ OkIsOneVersion

LEMMA SeenStep == TypeOK /\ SeenInv /\ [Next]_vars => SeenInv'
<1> SUFFICES ASSUME TypeOK, SeenInv, [Next]_vars PROVE SeenInv'
  OBVIOUS
<1> USE DEF SeenInv, OkIsOneVersion, disk, handler, bounds, history, Goto, Finish, DiskFails,
            Weakness, Raise
<1>1. CASE Run
  BY <1>1 DEF Run
<1>2. CASE Request
  BY <1>2 DEF Request
<1>3. CASE CheckFinalMd5
  BY <1>3 DEF CheckFinalMd5
<1>4. CASE Crash
  BY <1>4 DEF Crash
<1>5. CASE EditObject
  BY <1>5 DEF EditObject
<1>6. CASE Retry
  BY <1>6 DEF Retry
<1>7. CASE pc # "idle" /\ result' # "ok" /\ key' = key /\ seen' = seen
  BY <1>7
<1>8. CASE UNCHANGED vars
  BY <1>8 DEF vars
<1>9. QED
  BY <1>1, <1>2, <1>3, <1>4, <1>5, <1>6, <1>7, <1>8
     DEF Next, Step,
         Attempt, OpenTracker, OpenTrackerFails, WriteTracker, PrepareFails,
         TruncateFile, ReuseResponse, RequestRefused, RequestLost, BrokenPipe,
         ReadBuffer, ReadFails, EarlyEnd, ReadEnd, CloseKey, CloseFails,
         RemoveTracker, RemoveTrackerFails

\* When a run ends well, the file is one version that the object had during
\* the run, however often it was overwritten.
THEOREM OneVersionAlways == Spec => []OkIsOneVersion
<1>1. Init => SeenInv
  BY DEF Init, SeenInv, OkIsOneVersion
<1>2. SeenInv => OkIsOneVersion
  BY DEF SeenInv
<1>3. QED  BY <1>1, <1>2, SeenStep, TypeCorrect, PTL DEF Spec

-----------------------------------------------------------------------------
(* Downloads that nothing disturbs.                                        *)

\* A file that holds the first buffers of the object.
PartOf(f, s) == Len(f) <= Len(s) /\ \A i \in 1..Len(f) : f[i] = s[i]

\* The handler goes by the object as it is, and has its etag in the tracker
\* file before anything is read into the file.
Current ==
    /\ key = object /\ tracker \in {NoEtag, Torn, object}
    /\ pc \in {"open", "write", "truncate", "request", "read", "retry", "close", "remove",
                "abort"} => etag = object
    /\ pc \in {"truncate", "request", "read", "retry", "close", "remove", "abort"}
          => tracker = object
    /\ pc = "attempt" /\ etag = object => tracker = object

\* A download that has begun is known from its tracker file, so that only an
\* empty one is started over.
Known ==
    /\ mine => /\ tracker # NoEtag
               /\ file[dest] # <<>> => tracker = object /\ (pc # "idle" => etag = object)
    /\ pc \in {"open", "write", "truncate"} /\ mine => file[dest] = <<>>

KeepInv == calm => Current /\ Known

\* What is kept is a part of the object.
Begun ==
    /\ mine => PartOf(file[dest], object)
    /\ pc \in {"request", "read", "retry", "close", "remove"} => mine
    /\ pc = "check" => ~mine
    /\ pc # "abort" /\ result \notin {"changed", "abort"}

\* The tracker file does not claim what another destination's file holds.
Unclaimed ==
    ~mine => /\ tracker = object /\ pc # "truncate" => file[dest] = <<>>
             /\ pc = "attempt" /\ etag = object => file[dest] = <<>>

\* What is requested and read begins where the file ends.
Aligned ==
    /\ pc \in {"open", "write", "truncate"} => start = 0
    /\ pc = "request" /\ resp = NoResp => start = Len(file[dest])
    /\ pc \in Working \ {"check"} /\ resp # NoResp =>
          /\ resp.data = object /\ resp.end = Len(object) /\ resp.pos = Len(file[dest])
          /\ mine
    /\ pc \in {"remove", "check"} => file[dest] = object

CalmInv == calm /\ flaws = {} => Begun /\ Unclaimed /\ Aligned

\* A calm history stays calm only in steps that leave the object alone.
LEMMA CalmBefore == FlagsOK /\ [Next]_vars /\ calm' => calm /\ UNCHANGED object
BY DEF FlagsOK, Next, Step, DiskFails, Weakness, vars, disk, handler, bounds, history,
         Run, Attempt, OpenTracker, OpenTrackerFails, WriteTracker, PrepareFails,
         TruncateFile, Request, ReuseResponse, RequestRefused, RequestLost, BrokenPipe,
         ReadBuffer, ReadFails, EarlyEnd, ReadEnd, Retry, CloseKey, CloseFails,
         RemoveTracker, RemoveTrackerFails, CheckFinalMd5, Crash, EditObject

\* What cost a download is forgotten only when a run finds no tracker file.
LEMMA FlawsBefore ==
    FlagsOK /\ [Next]_vars /\ flaws' = {} => flaws = {} \/ (Run /\ tracker = NoEtag)
BY DEF FlagsOK, Next, Step, DiskFails, Weakness, vars, disk, handler, bounds, history,
         Run, Attempt, OpenTracker, OpenTrackerFails, WriteTracker, PrepareFails,
         TruncateFile, Request, ReuseResponse, RequestRefused, RequestLost, BrokenPipe,
         ReadBuffer, ReadFails, EarlyEnd, ReadEnd, Retry, CloseKey, CloseFails,
         RemoveTracker, RemoveTrackerFails, CheckFinalMd5, Crash, EditObject

\* Every step keeps KeepInv: the tracker file goes with the download.
LEMMA KeepStep == TypeOK /\ KeepInv /\ [Next]_vars => KeepInv'
<1> SUFFICES ASSUME TypeOK, KeepInv, [Next]_vars, calm' PROVE Current' /\ Known'
  BY DEF KeepInv
<1>c. calm /\ object' = object
  BY CalmBefore DEF TypeOK, FlagsOK
<1>i. Current /\ Known
  BY <1>c DEF KeepInv
<1>f. /\ dest \in Dests /\ file \in [Dests -> Seq(Byte)] /\ object \in Contents
      /\ object # NoEtag /\ object # Torn
  BY NamesAssumption DEF TypeOK
<1>s. \A c : Store(c) => file'[dest] = c
  BY <1>f DEF Store
<1> USE <1>c, <1>i, <1>f, NamesAssumption
    DEF disk, handler, bounds, history, Goto, Finish, DiskFails, Weakness, Raise,
        Current, Known
<1>1. CASE Run
  BY <1>1 DEF Run
<1>2. CASE Attempt
  <2>1. CASE ~Resumable /\ etag' = key /\ pc' = "open"
    BY <1>2, <2>1 DEF Attempt, Resumable
  <2>2. CASE Resumable /\ pc' \in {"request", "remove", "abort"} /\ UNCHANGED etag
    <3>1. etag = object /\ tracker = object
      BY <1>2, <2>2 DEF Attempt, Resumable
    <3>2. QED  BY <1>2, <2>2, <3>1 DEF Attempt
  <2>3. QED  BY <1>2, <2>1, <2>2 DEF Attempt
<1>3. CASE OpenTracker
  BY <1>3 DEF OpenTracker
<1>4. CASE OpenTrackerFails \/ PrepareFails \/ EditObject
  BY <1>4 DEF OpenTrackerFails, PrepareFails, EditObject
<1>5. CASE WriteTracker
  BY <1>5 DEF WriteTracker
<1>6. CASE TruncateFile
  BY <1>6, <1>s DEF TruncateFile
<1>7. CASE Request
  BY <1>7 DEF Request
<1>8. CASE ReadBuffer
  BY <1>8 DEF ReadBuffer
<1>9. CASE ReuseResponse \/ RequestRefused \/ RequestLost \/ BrokenPipe
  BY <1>9 DEF ReuseResponse, RequestRefused, RequestLost, BrokenPipe
<1>10. CASE ReadFails \/ EarlyEnd \/ ReadEnd
  BY <1>10 DEF ReadFails, EarlyEnd, ReadEnd
<1>11. CASE Retry \/ CloseKey \/ CloseFails
  BY <1>11 DEF Retry, CloseKey, CloseFails
<1>12. CASE RemoveTracker \/ RemoveTrackerFails
  BY <1>12 DEF RemoveTracker, RemoveTrackerFails
<1>13. CASE CheckFinalMd5
  BY <1>13, <1>s DEF CheckFinalMd5
<1>14. CASE Crash
  BY <1>14 DEF Crash
<1>15. CASE UNCHANGED vars
  BY <1>15 DEF vars
<1>16. QED
  BY <1>1, <1>2, <1>3, <1>4, <1>5, <1>6, <1>7, <1>8, <1>9, <1>10, <1>11, <1>12, <1>13,
     <1>14, <1>15 DEF Next, Step

\* Every step keeps CalmInv: the handler resumes where the file ends.
LEMMA CalmStep == TypeOK /\ KeepInv /\ CalmInv /\ [Next]_vars => CalmInv'
<1> SUFFICES ASSUME TypeOK, KeepInv, CalmInv, [Next]_vars, calm', flaws' = {}
             PROVE  Begun' /\ Unclaimed' /\ Aligned'
  BY DEF CalmInv
<1>c. calm /\ object' = object
  BY CalmBefore DEF TypeOK, FlagsOK
<1>k. Current /\ Known
  BY <1>c DEF KeepInv
<1>r. CASE flaws # {}
  <2>1. Run /\ tracker = NoEtag
    BY <1>r, FlawsBefore DEF TypeOK, FlagsOK
  <2>2. ~mine' /\ etag' = NoEtag /\ pc' = "attempt" /\ resp' = NoResp /\ tracker' = NoEtag
        /\ result' = "none" /\ object' # NoEtag
    BY <1>c, <1>k, <2>1, NamesAssumption DEF Run, disk, Known, TypeOK
  <2>3. QED
    BY <2>2 DEF Begun, Unclaimed, Aligned
<1> SUFFICES ASSUME flaws = {} PROVE Begun' /\ Unclaimed' /\ Aligned'
  BY <1>r
<1>i. Begun /\ Unclaimed /\ Aligned
  BY <1>c DEF CalmInv
<1>f. /\ dest \in Dests /\ file \in [Dests -> Seq(Byte)]
      /\ file[dest] \in Seq(Byte) /\ Len(file[dest]) \in Nat
      /\ object \in Seq(Byte) /\ Len(object) \in Nat /\ object \in Contents
      /\ Len(<<>>) = 0 /\ (Len(file[dest]) = 0 <=> file[dest] = <<>>)
  BY ContentsAssumption DEF TypeOK
<1>s. \A c : Store(c) => file'[dest] = c
  BY <1>f DEF Store
<1>w. PartOf(file[dest], object) /\ Len(file[dest]) = Len(object) => file[dest] = object
  BY <1>f, SeqEqual DEF PartOf
<1> USE <1>c, <1>k, <1>i, NamesAssumption
    DEF Working, disk, handler, bounds, history, Goto, Finish, DiskFails, Weakness, Raise
<1>1. CASE Run
  BY <1>1, <1>f DEF Run, Current, Known, Begun, Unclaimed, Aligned
<1>2. CASE Attempt
  <2>1. key = object /\ etag' \in {etag, object}
    BY <1>2 DEF Attempt, Current
  <2>2. CASE Len(file[dest]) = Len(object) /\ pc' = "remove"
    <3>1. mine
      BY <1>2, <2>1, <2>2 DEF Attempt, Resumable, Unclaimed
    <3>2. file[dest] = object
      BY <1>w, <2>2, <3>1 DEF Begun
    <3>3. QED
      BY <1>2, <2>2, <3>1, <3>2 DEF Attempt, Current, Known, Begun, Unclaimed, Aligned, Resumable
  <2>3. QED
    BY <1>2, <1>f DEF Attempt, Current, Known, Begun, Unclaimed, Aligned, Resumable, PartOf
<1>3. CASE OpenTracker
  BY <1>3, <1>f DEF OpenTracker, Current, Known, Begun, Unclaimed, Aligned
<1>4. CASE OpenTrackerFails \/ PrepareFails
  BY <1>4 DEF OpenTrackerFails, PrepareFails
<1>5. CASE WriteTracker
  BY <1>5, <1>f DEF WriteTracker, Current, Known, Begun, Unclaimed, Aligned
<1>6. CASE TruncateFile
  <2>1. file'[dest] = <<>> /\ PartOf(<<>>, object) /\ dest' = dest
    BY <1>6, <1>f, <1>s DEF TruncateFile, PartOf
  <2>2. QED
    BY <1>6, <1>f, <2>1 DEF TruncateFile, Current, Known, Begun, Unclaimed, Aligned
<1>7. CASE Request
  BY <1>7, <1>f DEF Request, Body, Current, Known, Begun, Unclaimed, Aligned
<1>8. CASE ReuseResponse
  BY <1>8 DEF ReuseResponse, Current, Known, Begun, Unclaimed, Aligned
<1>9. CASE RequestRefused \/ RequestLost
  BY <1>9 DEF RequestRefused, RequestLost, Current, Known, Begun, Unclaimed, Aligned
<1>10. CASE BrokenPipe
  BY <1>10, <1>f DEF BrokenPipe, Current, Known, Begun, Unclaimed, Aligned
<1>11. CASE ReadBuffer
  <2> DEFINE b == resp.data[resp.pos + 1]
             t == file[dest]
  <2>1. /\ resp.data = object /\ resp.pos = Len(t) /\ resp.end = Len(object)
        /\ Len(t) < Len(object) /\ mine /\ PartOf(t, object) /\ pc = "read"
    BY <1>11 DEF ReadBuffer, TypeOK, Aligned, Begun
  <2>2. b = object[Len(t) + 1] /\ b \in Byte
    BY <1>f, <2>1, ElementOfSeq
  <2>3. /\ Append(t, b) \in Seq(Byte) /\ Len(Append(t, b)) = Len(t) + 1
        /\ Append(t, b)[Len(t) + 1] = b /\ \A i \in 1..Len(t) : Append(t, b)[i] = t[i]
    BY <1>f, <2>2
  <2>4. PartOf(Append(t, b), object)
    BY <1>f, <2>1, <2>2, <2>3 DEF PartOf
  <2>5. file'[dest] = Append(t, b) /\ dest' = dest
    BY <1>11, <1>s DEF ReadBuffer
  <2>6. resp' # NoResp =>
          resp'.data = resp.data /\ resp'.end = resp.end /\ resp'.pos = resp.pos + 1
    BY <1>11, <1>f DEF ReadBuffer, TypeOK, Response
  <2> HIDE DEF t, b
  <2>7. Aligned'
    BY <1>11, <2>1, <2>3, <2>5, <2>6 DEF ReadBuffer, Aligned
  <2>8. Unclaimed'
    BY <1>11, <2>1 DEF ReadBuffer, Current, Known, Unclaimed
  <2>9. Begun'
    <3>1. tracker = object /\ etag = object /\ tracker # NoEtag
      BY <1>f, <2>1 DEF Current
    <3>2. QED  BY <1>11, <2>1, <2>4, <2>5, <3>1 DEF ReadBuffer, Begun
  <2>10. QED  BY <2>7, <2>8, <2>9
<1>12. CASE ReadFails
  BY <1>12 DEF ReadFails, Current, Known, Begun, Unclaimed, Aligned, TypeOK, Response
<1>13. CASE EarlyEnd
  BY <1>13 DEF EarlyEnd, Current, Known, Begun, Unclaimed, Aligned, TypeOK, Response
<1>14. CASE ReadEnd
  <2>1. resp # NoResp /\ pc = "read" /\ mine /\ (resp.pos = resp.end \/ nested)
    BY <1>14 DEF ReadEnd, TypeOK, Begun
  <2>2. CASE resp.pos = resp.end
    <3>1. file[dest] = object
      BY <1>w, <2>1, <2>2 DEF Aligned, Begun
    <3>2. QED
      BY <1>14, <2>1, <3>1 DEF ReadEnd, Current, Known, Begun, Unclaimed, Aligned
  <2>3. CASE nested
    BY <1>14, <2>1, <2>3 DEF ReadEnd, Current, Known, Begun, Unclaimed, Aligned
  <2>4. QED  BY <2>1, <2>2, <2>3
<1>15. CASE Retry
  BY <1>15 DEF Retry, Current, Known, Begun, Unclaimed, Aligned
<1>16. CASE CloseKey
  BY <1>16 DEF CloseKey, Current, Known, Begun, Unclaimed, Aligned, TypeOK, Response
<1>17. CASE CloseFails
  BY <1>17 DEF CloseFails, Current, Known, Begun, Unclaimed, Aligned
<1>18. CASE RemoveTracker
  BY <1>18 DEF RemoveTracker, Current, Known, Begun, Unclaimed, Aligned
<1>19. CASE RemoveTrackerFails
  BY <1>19 DEF RemoveTrackerFails, Current, Known, Begun, Unclaimed, Aligned
<1>20. CASE CheckFinalMd5
  BY <1>20 DEF CheckFinalMd5, Current, Known, Begun, Unclaimed, Aligned
<1>21. CASE Crash
  <2>1. pc' = "idle" /\ result' = "crash" /\ UNCHANGED <<object, tracker, handler, mine>>
    BY <1>21 DEF Crash
  <2>2. pc # "truncate" \/ file[dest] = <<>>
    BY <1>21 DEF Crash
  <2>3. CASE UNCHANGED file
    BY <1>f, <2>1, <2>2, <2>3 DEF Current, Known, Begun, Unclaimed, Aligned
  <2>4. CASE pc = "read" /\ file[dest] # <<>> /\ ~UNCHANGED file
    <3> DEFINE n == Len(file[dest]) - 1
               c == SubSeq(file[dest], 1, n)
    <3>1. file'[dest] = c /\ mine
      BY <1>21, <1>s, <2>4 DEF Crash, Begun
    <3>2. n \in Int /\ n >= 0 /\ \A i \in 1..n : file[dest][i] \in Byte
      BY <1>f, <2>4, ElementOfSeq
    <3> HIDE DEF n
    <3>3. Len(c) = n /\ \A i \in 1..n : c[i] = file[dest][i]
      BY <3>2, SubSeqProperties
    <3> HIDE DEF c
    <3>4. PartOf(c, object)
      BY <1>f, <3>1, <3>2, <3>3 DEF n, PartOf, Begun
    <3>5. tracker = object /\ tracker # NoEtag
      BY <2>4, <3>1 DEF Known
    <3>6. QED
      BY <2>1, <2>4, <3>1, <3>4, <3>5 DEF Current, Known, Begun, Unclaimed, Aligned
  <2>5. QED  BY <1>21, <2>3, <2>4 DEF Crash
<1>22. CASE EditObject
  BY <1>22 DEF EditObject
<1>23. CASE UNCHANGED vars
  BY <1>23 DEF vars, Current, Known, Begun, Unclaimed, Aligned
<1>24. QED
  BY <1>1, <1>2, <1>3, <1>4, <1>5, <1>6, <1>7, <1>8, <1>9, <1>10, <1>11, <1>12, <1>13,
     <1>14, <1>15, <1>16, <1>17, <1>18, <1>19, <1>20, <1>21, <1>22, <1>23 DEF Next, Step

LEMMA CalmAlways == Spec => [](KeepInv /\ CalmInv)
<1>1. Init => KeepInv /\ CalmInv
  BY NamesAssumption DEF Init, KeepInv, CalmInv, Current, Known, Begun, Unclaimed,
                         Aligned, Working
<1>2. QED  BY <1>1, KeepStep, CalmStep, TypeCorrect, PTL DEF Spec

\* While the object and the destination stay the same and the tracker file
\* can be read and written, a download is given up as changed or aborted only
\* after one of the three weaknesses of the handler that FailureHasCause names
\* has bitten, whatever other requests are lost and runs killed.
THEOREM FailureNeedsCause == Spec => []FailureHasCause
<1>1. CalmInv => FailureHasCause
  BY DEF CalmInv, Begun, FailureHasCause
<1>2. QED  BY <1>1, CalmAlways, PTL

\* Under the same conditions a download that has begun is never started over,
\* whatever weakness has bitten.
THEOREM KeepsBytesAlways == Spec => []KeepsBytes
<1>1. KeepInv => KeepsBytes
  BY DEF KeepInv, Known, KeepsBytes
<1>2. QED  BY <1>1, CalmAlways, PTL
=============================================================================
