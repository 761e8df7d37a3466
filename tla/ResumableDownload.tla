-------------------------- MODULE ResumableDownload --------------------------
(***************************************************************************)
(* Resumable downloads: src/boto/s3/resumable_download_handler.py, the     *)
(* reading of a key in src/boto/s3/key.py, and the caller in               *)
(* src/gslib/commands/cp.py that checks the md5 in the end.                *)
(*                                                                         *)
(* The destination file is the record of the progress; a tracker file      *)
(* keeps the etag of the object it belongs to, and is named after the      *)
(* object, whatever the destination.  Connections break, runs are killed   *)
(* and the object is overwritten at any time.  The server and the response *)
(* of httplib are external: they do what the handler relies on.            *)
(***************************************************************************)
EXTENDS Integers, Sequences

CONSTANTS
    Dests,        \* destination files
    Contents,     \* contents of the object; a content stands for its etag
    Foreign,      \* contents a destination may have from elsewhere
    Byte,         \* buffers of a file
    NumRetries,   \* num_retries
    EofCloses,    \* whether httplib closes a response at an early end: build
    NoEtag,       \* None, and no tracker file
    Torn,         \* a tracker file without a valid etag
    NoResp,       \* key.resp is None
    MaxRuns,      \* bound: runs of gsutil
    MaxEdits      \* bound: new contents of the object

VARIABLES
    object,       \* the object's content
    file,         \* content of each destination
    tracker,      \* the tracker file of the object
    pc, result,   \* the handler's control, and how the last run ended
    dest,         \* destination of this run
    key,          \* key.etag, which also stands for key.size
    etag,         \* etag_value_for_current_download
    resp,         \* key.resp
    start,        \* first buffer of the request's Range, less one
    nested,       \* the request was made by the handler of a broken pipe
    before, less, \* had_file_bytes_before_attempt, progress_less_iterations
    runs, edits,
    calm,         \* history: nobody touched the object or another destination,
                  \* and the tracker file could be read and written
    flaws,        \* history: what the handler did since that costs a download
    mine,         \* history: the file holds a part of the download
    seen          \* history: contents the object had in this run

ASSUME SizesAssumption ==
    NumRetries \in Nat /\ {MaxRuns, MaxEdits} \subseteq Nat
ASSUME ContentsAssumption ==
    /\ Contents \subseteq Seq(Byte) \ {<<>>} /\ Contents # {}
    /\ Foreign \subseteq Seq(Byte) /\ Foreign # {}
    /\ Dests # {}
ASSUME BuildAssumption == EofCloses \subseteq BOOLEAN /\ EofCloses # {}
ASSUME NamesAssumption ==
    /\ NoEtag \notin Contents /\ Torn \notin Contents /\ NoEtag # Torn

\* The body of the response to a GET: the buffers from pos to end of data.
\* It is live until its last byte is read; when the connection breaks before,
\* it is dead until httplib closes it.
Response == [data: Contents, pos: Nat, end: Nat, state: {"live", "dead", "closed"}]
ASSUME NoRespAssumption == NoResp \notin Response

disk == <<file, tracker>>
handler == <<dest, key, etag, start, nested, before, less>>
bounds == <<runs, edits>>
history == <<calm, flaws, mine, seen>>
vars == <<object, disk, pc, result, handler, resp, bounds, history>>

Working == {"attempt", "open", "write", "truncate", "request", "read", "remove",
            "check", "abort", "retry", "close"}
Results == {"none", "ok", "changed", "later", "abort", "error", "crash"}

Init ==
    /\ object \in Contents
    /\ file \in [Dests -> Foreign]
    /\ tracker = NoEtag
    /\ pc = "idle" /\ result = "none"
    /\ dest \in Dests /\ key = object /\ etag = NoEtag /\ resp = NoResp
    /\ start = 0 /\ nested = FALSE /\ before = 0 /\ less = 0
    /\ runs = 0 /\ edits = 0
    /\ calm = TRUE /\ flaws = {} /\ mine = FALSE /\ seen = {}

Goto(step) == pc' = step /\ UNCHANGED result
Finish(r) == pc' = "idle" /\ result' = r

\* The file of this run becomes c.
Store(c) == file' = [file EXCEPT ![dest] = c]

\* A disk fails: a cause from outside.
DiskFails == calm' = FALSE /\ UNCHANGED <<bounds, flaws, mine, seen>>

\* If it bites, the handler's own weakness has cost the download.
Weakness(flaw, bites) ==
    /\ flaws' = IF bites THEN flaws \union {flaw} ELSE flaws
    /\ UNCHANGED <<bounds, calm, mine, seen>>

\* A retryable exception of the attempt, or one in the handler of a broken
\* pipe, which nothing catches.
Raise == IF nested THEN Finish("error") ELSE Goto("retry")

-----------------------------------------------------------------------------
(* The start of a run and of an attempt.                                   *)

\* _PerformCopy gets the key, and the handler loads the tracker file, which
\* is as good as none if it is torn or cannot be read.
Run ==
    /\ pc = "idle" /\ runs < MaxRuns
    /\ runs' = runs + 1
    /\ dest' \in Dests
    /\ key' = object /\ seen' = {object}
    /\ flaws' = IF tracker = NoEtag THEN {} ELSE flaws
    /\ \/ /\ etag' = IF tracker = Torn THEN NoEtag ELSE tracker
          /\ calm' = (calm /\ (tracker = NoEtag \/ dest' = dest))
       \/ tracker # NoEtag /\ etag' = NoEtag /\ calm' = FALSE
    /\ pc' = "attempt" /\ result' = "none" /\ resp' = NoResp
    /\ less' = 0 /\ nested' = FALSE
    /\ UNCHANGED <<object, disk, start, before, edits, mine>>

Resumable == file[dest] # <<>> /\ etag = key

\* Faulty: the handler resumes whatever the file holds.
AttemptResumesAll ==
    /\ pc = "attempt"
    /\ before' = Len(file[dest]) /\ nested' = FALSE
    /\ \/ /\ ~Resumable
          /\ etag' = key
          /\ start' = Len(file[dest])
          /\ Goto("request")
       \/ /\ Resumable /\ Len(file[dest]) < Len(key)
          /\ start' = Len(file[dest])
          /\ Goto("request")
          /\ UNCHANGED etag
       \/ /\ Resumable /\ Len(file[dest]) >= Len(key)
          /\ Goto(IF Len(file[dest]) = Len(key) THEN "remove" ELSE "abort")
          /\ UNCHANGED <<etag, start>>
    /\ UNCHANGED <<object, disk, dest, key, less, resp, bounds, history>>

\* _attempt_resumable_download: start over, resume with a Range, find the
\* file complete, or larger than the object.
Attempt ==
    /\ pc = "attempt"
    /\ before' = Len(file[dest]) /\ nested' = FALSE
    /\ \/ /\ ~Resumable
          /\ etag' = key
          /\ start' = 0
          /\ Goto("open")
       \/ /\ Resumable /\ Len(file[dest]) < Len(key)
          /\ start' = Len(file[dest])
          /\ Goto("request")
          /\ UNCHANGED etag
       \/ /\ Resumable /\ Len(file[dest]) >= Len(key)
          /\ Goto(IF Len(file[dest]) = Len(key) THEN "remove" ELSE "abort")
          /\ UNCHANGED <<etag, start>>
    /\ UNCHANGED <<object, disk, dest, key, less, resp, bounds, history>>

\* _save_tracker_info: open truncates the tracker file, close writes it.
OpenTracker ==
    /\ pc = "open"
    /\ tracker' = Torn
    /\ Goto("write")
    /\ UNCHANGED <<object, file, handler, resp, bounds, history>>

OpenTrackerFails ==
    /\ pc = "open"
    /\ Goto("abort")
    /\ DiskFails
    /\ UNCHANGED <<object, disk, handler, resp>>

WriteTracker ==
    /\ pc = "write"
    /\ tracker' = etag
    /\ Goto("truncate")
    /\ UNCHANGED <<object, file, handler, resp, bounds, history>>

\* The close of the tracker file, or the truncation, fails with an IOError,
\* which is retried.
PrepareFails ==
    /\ pc \in {"write", "truncate"}
    /\ Goto("retry")
    /\ DiskFails
    /\ UNCHANGED <<object, disk, handler, resp>>

TruncateFile ==
    /\ pc = "truncate"
    /\ Store(<<>>)
    /\ mine' = TRUE
    /\ Goto("request")
    /\ UNCHANGED <<object, tracker, handler, resp, bounds, calm, flaws, seen>>

-----------------------------------------------------------------------------
(* Key.get_file: open_read, then a buffer at a time.                       *)

\* The object's bytes from start on; the Range ends with key.size.
Body == [data |-> object, pos |-> start, state |-> "live",
         end |-> IF start = 0 \/ Len(object) < Len(key) THEN Len(object)
                 ELSE Len(key)]

\* open_read sends a request only if there is no response left, and takes
\* the etag and the size from the new one.
Request ==
    /\ pc = "request" /\ resp = NoResp
    /\ start < Len(object)
    /\ resp' = Body
    /\ key' = object
    /\ seen' = seen \union {object}
    /\ Goto("read")
    /\ UNCHANGED <<object, disk, dest, etag, start, nested, before, less,
                   bounds, calm, flaws, mine>>

\* Faulty: the key is taken for open although it was closed.
ReuseNoResponse ==
    /\ pc = "request"
    /\ Goto("read")
    /\ UNCHANGED <<object, disk, handler, resp, bounds, history>>

ReuseResponse ==
    /\ pc = "request" /\ resp # NoResp
    /\ Goto("read")
    /\ UNCHANGED <<object, disk, handler, resp, bounds, history>>

\* An error status, among them 416 when the object has become shorter than
\* the file, raises what the handler does not catch.
RequestRefused ==
    /\ pc = "request" /\ resp = NoResp
    /\ Finish("error")
    /\ UNCHANGED <<object, disk, handler, resp, bounds, history>>

\* The request is sent but not answered.
RequestLost ==
    /\ pc = "request" /\ resp = NoResp
    /\ Raise
    /\ UNCHANGED <<object, disk, handler, resp, bounds, history>>

\* EPIPE: the handler gets the whole object, behind what the file has.
BrokenPipe ==
    /\ pc = "request" /\ resp = NoResp /\ ~nested
    /\ nested' = TRUE
    /\ start' = 0
    /\ Weakness("pipe", file[dest] # <<>>)
    /\ Goto("request")
    /\ UNCHANGED <<object, disk, dest, key, etag, before, less, resp>>

ReadBuffer ==
    /\ pc = "read" /\ resp.state = "live" /\ resp.pos < resp.end
    /\ Store(Append(file[dest], resp.data[resp.pos + 1]))
    /\ resp' = [resp EXCEPT !.pos = @ + 1]
    /\ UNCHANGED <<object, tracker, pc, result, handler, bounds, history>>

\* fp.write or recv raises an IOError; the connection may be broken.
ReadFails ==
    /\ pc = "read" /\ resp.state = "live" /\ resp.pos < resp.end
    /\ \E state \in {"live", "dead"} : resp' = [resp EXCEPT !.state = state]
    /\ Raise
    /\ UNCHANGED <<object, disk, handler, bounds, history>>

\* The server closes the connection early.  An older httplib raises an
\* IncompleteRead when the key is closed, and keeps the dead response.
EarlyEnd ==
    /\ pc = "read" /\ resp.state # "closed" /\ resp.pos < resp.end
    /\ FALSE \in EofCloses
    /\ resp' = [resp EXCEPT !.state = "dead"]
    /\ Raise
    /\ UNCHANGED <<object, disk, handler, bounds, history>>

\* get_file returns: at the end of the body, or when a newer httplib finds
\* that the server has closed the connection.
ReadEnd ==
    /\ pc = "read"
    /\ \/ resp.pos = resp.end \/ resp.state = "closed"
       \/ TRUE \in EofCloses
    /\ resp' = NoResp
    /\ Goto(IF nested THEN "retry" ELSE "remove")
    /\ Weakness("early", resp.pos # resp.end /\ ~nested)
    /\ UNCHANGED <<object, disk, handler>>

-----------------------------------------------------------------------------
(* The end of an attempt and of a run.                                     *)

\* Faulty: an attempt without progress is not counted.
RetryForever ==
    /\ pc = "retry"
    /\ less' = IF Len(file[dest]) >= before THEN 0 ELSE less + 1
    /\ IF less' > NumRetries THEN Finish("later") ELSE Goto("close")
    /\ UNCHANGED <<object, disk, dest, key, etag, start, nested, before, resp,
                   bounds, history>>

\* Faulty: giving up removes the tracker file.
RetryRemovesTracker ==
    /\ pc = "retry"
    /\ less' = IF Len(file[dest]) > before THEN 0 ELSE less + 1
    /\ IF less' > NumRetries
       THEN Finish("later") /\ tracker' = NoEtag
       ELSE Goto("close") /\ UNCHANGED tracker
    /\ UNCHANGED <<object, file, dest, key, etag, start, nested, before, resp,
                   bounds, history>>

\* After NumRetries attempts without progress the tracker file is kept for a
\* later run: ABORT_CUR_PROCESS.
Retry ==
    /\ pc = "retry"
    /\ less' = IF Len(file[dest]) > before THEN 0 ELSE less + 1
    /\ IF less' > NumRetries THEN Finish("later") ELSE Goto("close")
    /\ UNCHANGED <<object, disk, dest, key, etag, start, nested, before, resp,
                   bounds, history>>

\* Key.close reads what is left of the response; if that is an IncompleteRead
\* the handler goes on, with the response still set.
CloseKey ==
    /\ pc = "close"
    /\ IF resp = NoResp \/ resp.state # "dead"
       THEN resp' = NoResp
       ELSE \E closes \in EofCloses :
               resp' = IF closes THEN [resp EXCEPT !.state = "closed"] ELSE resp
    /\ Goto("attempt")
    /\ UNCHANGED <<object, disk, handler, bounds, history>>

\* Reading the rest raises a socket.error, which the handler lets through.
CloseFails ==
    /\ pc = "close" /\ resp # NoResp /\ resp.state # "closed"
    /\ Finish("error")
    /\ UNCHANGED <<object, disk, handler, resp, bounds, history>>

RemoveTracker ==
    /\ pc \in {"remove", "abort"}
    /\ tracker' = NoEtag
    /\ mine' = FALSE
    /\ IF pc = "remove" THEN Goto("check") ELSE Finish("abort")
    /\ UNCHANGED <<object, file, handler, resp, bounds, calm, flaws, seen>>

\* os.unlink raises an OSError, which the handler does not catch.
RemoveTrackerFails ==
    /\ pc \in {"remove", "abort"} /\ tracker # NoEtag
    /\ Finish("error")
    /\ UNCHANGED <<object, disk, handler, resp, bounds, history>>

\* Faulty: a download that was resumed is not checked.
CheckFinalMd5Fresh ==
    /\ pc = "check"
    /\ IF file[dest] = key \/ start > 0
       THEN Finish("ok") /\ UNCHANGED file
       ELSE Finish("changed") /\ Store(<<>>)
    /\ UNCHANGED <<object, tracker, handler, resp, bounds, history>>

\* check_final_md5 of gsutil compares with the etag of the last response, and
\* deletes a file that differs.
CheckFinalMd5 ==
    /\ pc = "check"
    /\ IF file[dest] = key
       THEN Finish("ok") /\ UNCHANGED file
       ELSE Finish("changed") /\ Store(<<>>)
    /\ UNCHANGED <<object, tracker, handler, resp, bounds, history>>

-----------------------------------------------------------------------------
(* What happens around the handler.                                        *)

\* The run is killed; the last buffer may not have reached the disk.
Crash ==
    /\ pc # "idle"
    /\ Finish("crash")
    /\ \/ UNCHANGED file
       \/ /\ pc = "read" /\ file[dest] # <<>> /\ Len(file[dest]) > start
          /\ Store(SubSeq(file[dest], 1, Len(file[dest]) - 1))
    /\ Weakness("kill", pc = "truncate" /\ file[dest] # <<>>)
    /\ UNCHANGED <<object, tracker, handler, resp>>

EditObject ==
    /\ edits < MaxEdits
    /\ edits' = edits + 1
    /\ object' \in Contents \ {object}
    /\ calm' = FALSE
    /\ UNCHANGED <<disk, pc, result, handler, resp, runs, flaws, mine, seen>>

Step ==
    \/ Attempt \/ OpenTracker \/ OpenTrackerFails \/ WriteTracker \/ PrepareFails
    \/ TruncateFile
    \/ Request \/ ReuseResponse \/ RequestRefused \/ RequestLost \/ BrokenPipe
    \/ ReadBuffer \/ ReadFails \/ EarlyEnd \/ ReadEnd
    \/ Retry \/ CloseKey \/ CloseFails
    \/ RemoveTracker \/ RemoveTrackerFails \/ CheckFinalMd5

Next == Run \/ Step \/ Crash \/ EditObject

Spec == Init /\ [][Next]_vars

\* A run that is not killed goes on: its requests are answered or fail.
FairSpec == Spec /\ WF_vars(Step)

-----------------------------------------------------------------------------
(* Properties.                                                             *)

\* Every variable has its type; a response is read only when there is one.
TypeOK ==
    /\ object \in Contents /\ file \in [Dests -> Seq(Byte)]
    /\ tracker \in Contents \union {NoEtag, Torn}
    /\ pc \in Working \union {"idle"} /\ result \in Results
    /\ dest \in Dests /\ key \in Contents /\ etag \in Contents \union {NoEtag}
    /\ resp \in Response \union {NoResp}
    /\ pc = "read" => resp # NoResp
    /\ {start, before, less, runs, edits} \subseteq Nat
    /\ {nested, calm, mine} \subseteq BOOLEAN /\ flaws \subseteq {"pipe", "early", "kill"}
    /\ seen \subseteq Contents

\* check_final_md5: when a run ends well, the file is one version that the
\* object had during the run, never a mixture, however the file was pieced
\* together from attempts, runs and overwritten objects.
OkIsOneVersion == result = "ok" => file[dest] \in seen

\* While the object and the destination stay the same and the tracker file's
\* disk works, a download is given up as changed or aborted for one of three
\* reasons only, all of them the handler's: since the tracker file was begun, a
\* broken pipe had the whole object appended to a file with bytes in it, an
\* early end of the body was taken for its end, or a kill between the writing
\* of the tracker file and the truncation left an old file to be resumed.
\* Kills elsewhere, lost requests, broken connections, and early ends and
\* broken pipes that do not bite resume exactly where the file ends.
FailureHasCause == result \in {"changed", "abort"} /\ calm => flaws # {}

\* ABORT_CUR_PROCESS and kills keep the bytes: while the object, the
\* destination and the tracker file stay, a download that has begun is never
\* started over, those that the handler's weaknesses spoil included.
KeepsBytes == calm /\ mine /\ pc = "truncate" => file[dest] = <<>>

\* num_retries: a run ends, even if requests never stop to fail.
EveryRunEnds == pc = "attempt" ~> pc = "idle"

\* The handler closes the key after a failure, in case it left data in the
\* underlying buffer; an IncompleteRead, it says, can be safely ignored: the
\* next attempt sends its request and reads a response of its own.
RetryAsksServer == pc = "request" => resp = NoResp
=============================================================================
