--------------------------- MODULE ResumableUpload ---------------------------
(***************************************************************************)
(* Resumable uploads: src/boto/gs/resumable_upload_handler.py.             *)
(*                                                                         *)
(* A run of gsutil uploads a file to an object through an upload session   *)
(* of the storage server.  The handler asks the server which bytes it has, *)
(* sends the rest and retries; a tracker file on disk keeps the session's  *)
(* URI, so that a later run can go on where this one stopped.  Requests    *)
(* are lost, sessions go stale, runs are killed, and the file may be       *)
(* edited between and during the runs.  One run at a time uses a tracker   *)
(* file.  The server is external: the session answers as the handler's     *)
(* comments say it does.                                                   *)
(***************************************************************************)
EXTENDS Integers, Sequences

CONSTANTS
    Files,        \* contents the file may have
    Byte,         \* buffers of a file
    NumRetries,   \* num_retries
    NoUri,        \* tracker_uri is None, no tracker file
    Torn,         \* a tracker file without a valid URI
    NoObject, NoStart,
    MaxRuns,      \* bound: runs of gsutil
    MaxEdits,     \* bound: edits of the file
    MaxSessions   \* bound: upload sessions

VARIABLES
    file,         \* the file's content, a sequence of buffers
    tracker,      \* the tracker file: NoUri, Torn or a session
    sessions,     \* sessions of the server: bytes received, announced length
    object,       \* content of the stored object
    pc, result,   \* the handler's control, and how the last run ended
    md5, length,  \* key.md5 and file_length of this run
    uri, has,     \* tracker_uri, server_has_bytes
    before, less, \* server_had_bytes_before_attempt, progress_less_iterations
    start,        \* upload_start_point
    end, pos,     \* server_end, total_bytes_uploaded
    accepted,     \* the server takes the request that is being sent
    err, etag,    \* disposition of the pending exception, etag of the response
    runs, edits,
    calm,         \* history: nothing happened that may cost the upload
    oks           \* history: uploads whose tracker file was removed when complete

ASSUME SizesAssumption ==
    NumRetries \in Nat /\ {MaxRuns, MaxEdits, MaxSessions} \subseteq Nat
ASSUME FilesAssumption == Files \subseteq Seq(Byte) /\ Files # {}
ASSUME NamesAssumption ==
    /\ NoObject \notin Seq(Byte) /\ NoStart \notin Int
    /\ NoUri \notin Nat /\ Torn \notin Nat /\ NoUri # Torn

disk == <<file, tracker>>
store == <<sessions, object>>
hashed == <<md5, length>>
handler == <<uri, has, before, less, start>>
transfer == <<end, pos, accepted, err, etag>>
bounds == <<runs, edits>>
history == <<calm, oks>>
vars == <<disk, store, pc, result, hashed, handler, transfer, bounds, history>>

Unknown == -1    \* no request has told the server the length yet
Session == [data: Seq(Byte), total: Nat \union {Unknown}, alive: BOOLEAN]
Complete(s) == s.total = Len(s.data)

Requesting == {"query", "start", "requery"}
Steps == {"idle", "hash", "length", "attempt", "open", "write", "seek", "send",
          "respond", "remove", "check", "delete", "abort", "retry"} \union Requesting
Results == {"none", "ok", "later", "abort", "error", "crash"}

Init ==
    /\ file \in Files
    /\ tracker = NoUri
    /\ sessions = <<>> /\ object = NoObject
    /\ pc = "idle" /\ result = "none"
    /\ md5 = <<>> /\ length = 0
    /\ uri = NoUri /\ has = 0 /\ before = 0 /\ less = 0 /\ start = NoStart
    /\ end = -1 /\ pos = 0 /\ accepted = FALSE /\ err = "wait" /\ etag = <<>>
    /\ runs = 0 /\ edits = 0
    /\ calm = TRUE /\ oks = 0

Goto(step) == pc' = step /\ UNCHANGED result
Finish(r) == pc' = "idle" /\ result' = r

\* A request or a system call fails, as often as it likes; unless harmless it
\* may cost the upload.
Fault(harmless) ==
    /\ calm' = (calm /\ harmless)
    /\ UNCHANGED <<bounds, oks>>

-----------------------------------------------------------------------------
(* The start of a run.                                                     *)

\* __init__ and _load_tracker_uri_from_file: a tracker file that is torn or
\* cannot be read is as good as none.
Run ==
    /\ pc = "idle"
    /\ runs < MaxRuns
    /\ runs' = runs + 1
    /\ pc' = "hash" /\ result' = "none"
    /\ \/ /\ uri' = IF tracker = Torn THEN NoUri ELSE tracker
          /\ UNCHANGED calm
       \/ tracker # NoUri /\ uri' = NoUri /\ calm' = FALSE
    /\ has' = 0 /\ before' = 0 /\ less' = 0 /\ start' = NoStart
    /\ UNCHANGED <<disk, store, hashed, transfer, edits, oks>>

\* set_contents_from_file: the md5 is computed before the upload.  It tells
\* contents apart, so the content stands for its digest.
HashFile ==
    /\ pc = "hash"
    /\ md5' = file
    /\ Goto("length")
    /\ UNCHANGED <<disk, store, length, handler, transfer, bounds, history>>

MeasureFile ==
    /\ pc = "length"
    /\ length' = Len(file)
    /\ Goto("attempt")
    /\ UNCHANGED <<disk, store, md5, handler, transfer, bounds, history>>

Attempt ==
    /\ pc = "attempt"
    /\ before' = has
    /\ Goto(IF uri = NoUri THEN "start" ELSE "query")
    /\ UNCHANGED <<disk, store, hashed, uri, has, less, start, transfer, bounds,
                   calm, oks>>

-----------------------------------------------------------------------------
(* _query_server_pos and _start_new_resumable_upload.                      *)

\* The server does not know a stale session, and refuses another length.
Known(s) == s.alive /\ (Complete(s) \/ s.total \in {Unknown, length})

\* Status 200 for a complete upload, else 308 with the inclusive range of
\* the bytes received, which starts at byte 0; without a range they are none.
Query ==
    /\ pc = "query"
    /\ LET s == sessions[uri] IN
        IF Known(s)
        THEN /\ end' = IF Complete(s) THEN length ELSE Len(s.data) - 1
             /\ has' = 0
             /\ Goto("seek")
        ELSE /\ end' = -1
             /\ Goto("start")
             /\ UNCHANGED has
    /\ UNCHANGED <<disk, store, hashed, uri, before, less, start, pos, accepted,
                   err, etag, bounds, history>>

\* An unexpected status or range: START_OVER.
QueryUnclear ==
    /\ pc = "query"
    /\ end' = -1
    /\ Goto("start")
    /\ Fault(FALSE)
    /\ UNCHANGED <<disk, store, hashed, handler, pos, accepted, err, etag>>

\* Faulty: the new session's URI is not remembered.
StartNewForgetsUri ==
    /\ pc = "start"
    /\ Len(sessions) < MaxSessions
    /\ sessions' = Append(sessions, [data |-> <<>>, total |-> Unknown, alive |-> TRUE])
    /\ has' = 0
    /\ end' = -1
    /\ Goto("open")
    /\ UNCHANGED <<disk, object, hashed, uri, before, less, start, pos, accepted, err,
                   etag, bounds, history>>

\* The POST is answered with the URI of a new session.
StartNew ==
    /\ pc = "start"
    /\ Len(sessions) < MaxSessions
    /\ sessions' = Append(sessions, [data |-> <<>>, total |-> Unknown, alive |-> TRUE])
    /\ uri' = Len(sessions) + 1
    /\ has' = 0
    /\ end' = -1
    /\ Goto("open")
    /\ UNCHANGED <<disk, object, hashed, before, less, start, pos, accepted, err,
                   etag, bounds, history>>

\* No Location in the response: WAIT_BEFORE_RETRY.
StartWithoutLocation ==
    /\ pc = "start"
    /\ has' = 0
    /\ Goto("retry")
    /\ Fault(TRUE)
    /\ UNCHANGED <<disk, store, hashed, uri, before, less, start, transfer>>

\* Any status but 200, 201, 500 and 503: ABORT.
StartRefused ==
    /\ pc = "start"
    /\ has' = 0
    /\ Goto("abort")
    /\ Fault(FALSE)
    /\ UNCHANGED <<disk, store, hashed, uri, before, less, start, transfer>>

\* make_request gives up retrying on a failed connection, with an exception
\* of RETRYABLE_EXCEPTIONS.
RequestLost ==
    /\ pc \in Requesting
    /\ Goto("retry")
    /\ has' = IF pc = "start" THEN 0 ELSE has
    /\ Fault(TRUE)
    /\ UNCHANGED <<disk, store, hashed, uri, before, less, start, transfer>>

\* make_request gives up retrying on status 500 or 503, with a
\* BotoServerError, which send_file does not catch.
ServerError ==
    /\ pc \in Requesting
    /\ Finish("error")
    /\ has' = IF pc = "start" THEN 0 ELSE has
    /\ Fault(TRUE)
    /\ UNCHANGED <<disk, store, hashed, uri, before, less, start, transfer>>

\* _save_tracker_uri_to_file: open truncates the file, close writes it.
OpenTracker ==
    /\ pc = "open"
    /\ tracker' = Torn
    /\ Goto("write")
    /\ UNCHANGED <<file, store, hashed, handler, transfer, bounds, history>>

OpenTrackerFails ==
    /\ pc = "open"
    /\ Goto("abort")
    /\ Fault(FALSE)
    /\ UNCHANGED <<disk, store, hashed, handler, transfer>>

WriteTracker ==
    /\ pc = "write"
    /\ tracker' = uri
    /\ Goto("seek")
    /\ UNCHANGED <<file, store, hashed, handler, transfer, bounds, history>>

\* A URI is shorter than a buffer, so the disk's error comes from the close
\* in the finally, outside of the try: an IOError, which is retried.
WriteTrackerFails ==
    /\ pc = "write"
    /\ Goto("retry")
    /\ Fault(FALSE)
    /\ UNCHANGED <<disk, store, hashed, handler, transfer>>

-----------------------------------------------------------------------------
(* _upload_file_bytes.                                                     *)

\* Faulty: the inclusive end of the server's range is taken for its length.
ResumePointInclusive == IF end = -1 THEN 0 ELSE end
ResumePoint == IF end = length THEN end ELSE end + 1

\* The server's session with one more buffer, or none; an upload whose last
\* byte arrives replaces the object.
Received(bytes, total) ==
    LET s == [sessions[uri] EXCEPT !.data = @ \o bytes, !.total = total] IN
    /\ sessions' = [sessions EXCEPT ![uri] = s]
    /\ object' = IF Complete(s) THEN s.data ELSE object

\* Seek, and send the headers of the PUT.  The server takes the bytes if they
\* start where it stopped, and answers the PUT for a complete upload again.
SeekFile ==
    /\ pc = "seek"
    /\ pos' = ResumePoint
    /\ start' = IF start = NoStart THEN end ELSE start
    /\ LET s == sessions[uri]
           takes == Known(s) /\ (Complete(s) \/ pos' = Len(s.data))
       IN  /\ accepted' = takes
           /\ IF takes /\ ~Complete(s)
              THEN Received(<<>>, length) ELSE UNCHANGED store
    /\ Goto("send")
    /\ UNCHANGED <<disk, hashed, uri, has, before, less, end, err, etag, bounds,
                   calm, oks>>

\* The next buffer, of which the server reads no more than it was announced.
SendBytes ==
    /\ pc = "send" /\ pos < Len(file)
    /\ pos' = pos + 1
    /\ LET s == sessions[uri] IN
        IF accepted /\ s.alive /\ ~Complete(s)
        THEN Received(<<file[pos + 1]>>, s.total)
        ELSE UNCHANGED store
    /\ UNCHANGED <<disk, pc, result, hashed, handler, end, accepted, err, etag,
                   bounds, calm, oks>>

\* At the end of the file its length must be the announced one.
EndOfFile ==
    /\ pc = "send" /\ pos >= Len(file)
    /\ IF pos = length
       THEN Goto("respond") /\ UNCHANGED err
       ELSE Goto("requery") /\ err' = "abort"
    /\ UNCHANGED <<disk, store, hashed, handler, end, pos, accepted, etag, bounds,
                   history>>

\* fp.read fails: an IOError that _attempt_resumable_upload lets through.
ReadFails ==
    /\ pc = "send"
    /\ Goto("retry")
    /\ Fault(TRUE)
    /\ UNCHANGED <<disk, store, hashed, handler, transfer>>

\* The response to the PUT.
Respond ==
    /\ pc = "respond"
    /\ IF accepted /\ sessions[uri].alive
       THEN Goto("remove") /\ etag' = sessions[uri].data /\ UNCHANGED err
       ELSE Goto("requery") /\ err' = "abort" /\ UNCHANGED etag
    /\ UNCHANGED <<disk, store, hashed, handler, end, pos, accepted, bounds, history>>

\* The connection breaks while bytes are sent or the response is awaited, or
\* the status is 408, 500 or 503.
SendFails ==
    /\ pc \in {"send", "respond"}
    /\ err' = "wait"
    /\ Goto("requery")
    /\ Fault(TRUE)
    /\ UNCHANGED <<disk, store, hashed, handler, end, pos, accepted, etag>>

\* An HTTPException, which is retried without asking the server again.
ResponseUnclear ==
    /\ pc = "respond"
    /\ Goto("retry")
    /\ Fault(TRUE)
    /\ UNCHANGED <<disk, store, hashed, handler, transfer>>

\* Any other status: ABORT.
ResponseRefused ==
    /\ pc = "respond"
    /\ err' = "abort"
    /\ Goto("requery")
    /\ Fault(FALSE)
    /\ UNCHANGED <<disk, store, hashed, handler, end, pos, accepted, etag>>

\* The except clause of _attempt_resumable_upload: status 400 aborts, any
\* other raises the pending exception again.
Requery ==
    /\ pc = "requery"
    /\ LET s == sessions[uri]
           bad == s.alive /\ ~Known(s)
       IN  Goto(IF bad \/ err = "abort" THEN "abort" ELSE "retry")
    /\ UNCHANGED <<disk, store, hashed, handler, transfer, bounds, history>>

-----------------------------------------------------------------------------
(* The end of an attempt: the loop of send_file.                           *)

RemoveTracker ==
    /\ pc = "remove"
    /\ tracker' = NoUri
    /\ oks' = oks + 1
    /\ Goto("check")
    /\ UNCHANGED <<file, store, hashed, handler, transfer, bounds, calm>>

\* os.unlink raises an OSError, which send_file does not catch.
RemoveTrackerFails ==
    /\ pc \in {"remove", "abort"} /\ tracker # NoUri
    /\ Finish("error")
    /\ Fault(TRUE)
    /\ UNCHANGED <<disk, store, hashed, handler, transfer>>

\* Faulty: an upload that was resumed is not checked.
CheckFinalMd5Fresh ==
    /\ pc = "check"
    /\ IF etag = md5 \/ start > 0 THEN Finish("ok") ELSE Goto("delete")
    /\ UNCHANGED <<disk, store, hashed, handler, transfer, bounds, history>>

CheckFinalMd5 ==
    /\ pc = "check"
    /\ IF etag = md5 THEN Finish("ok") ELSE Goto("delete")
    /\ UNCHANGED <<disk, store, hashed, handler, transfer, bounds, history>>

DeleteObject ==
    /\ pc = "delete"
    /\ object' = NoObject
    /\ Goto("abort")
    /\ UNCHANGED <<disk, sessions, hashed, handler, transfer, bounds, history>>

\* A lost request is retried with the whole upload; a response with an error
\* status ends the run.
DeleteFails ==
    /\ pc = "delete"
    /\ Goto("retry") \/ Finish("error")
    /\ Fault(TRUE)
    /\ UNCHANGED <<disk, store, hashed, handler, transfer>>

\* Disposition ABORT: the tracker file goes, so that a new run starts over.
Abort ==
    /\ pc = "abort"
    /\ tracker' = NoUri
    /\ Finish("abort")
    /\ UNCHANGED <<file, store, hashed, handler, transfer, bounds, history>>

\* Faulty: a failed attempt is not counted unless the server lost bytes.
RetryForever ==
    /\ pc = "retry"
    /\ less' = IF has >= before THEN 0 ELSE less + 1
    /\ IF less' > NumRetries THEN Finish("later") ELSE Goto("attempt")
    /\ UNCHANGED <<disk, store, hashed, uri, has, before, start, transfer, bounds,
                   calm, oks>>

\* Faulty: giving up removes the tracker file.
RetryRemovesTracker ==
    /\ pc = "retry"
    /\ less' = IF has > before THEN 0 ELSE less + 1
    /\ IF less' > NumRetries
       THEN Finish("later") /\ tracker' = NoUri
       ELSE Goto("attempt") /\ UNCHANGED tracker
    /\ UNCHANGED <<file, store, hashed, uri, has, before, start, transfer, bounds,
                   calm, oks>>

\* Count the attempts without progress; after NumRetries of them raise
\* ABORT_CUR_PROCESS, which keeps the tracker file.
Retry ==
    /\ pc = "retry"
    /\ less' = IF has > before THEN 0 ELSE less + 1
    /\ IF less' > NumRetries THEN Finish("later") ELSE Goto("attempt")
    /\ UNCHANGED <<disk, store, hashed, uri, has, before, start, transfer, bounds,
                   calm, oks>>

-----------------------------------------------------------------------------
(* What happens around the handler.                                        *)

\* The run is killed.  A session whose URI was not written is lost.
Crash ==
    /\ pc # "idle"
    /\ Finish("crash")
    /\ Fault(pc \notin {"open", "write"})
    /\ UNCHANGED <<disk, store, hashed, handler, transfer>>

\* The file is edited, in place, or another file is uploaded to the object.
EditFile ==
    /\ edits < MaxEdits
    /\ edits' = edits + 1
    /\ file' \in Files \ {file}
    /\ calm' = FALSE
    /\ UNCHANGED <<tracker, store, pc, result, hashed, handler, transfer, runs,
                   oks>>

\* The server forgets a session.
Expire ==
    /\ \E id \in 1..Len(sessions) :
          /\ sessions[id].alive
          /\ sessions' = [sessions EXCEPT ![id] = [sessions[id] EXCEPT !.alive = FALSE]]
    /\ calm' = FALSE
    /\ UNCHANGED <<disk, object, pc, result, hashed, handler, transfer, bounds,
                   oks>>

Step ==
    \/ HashFile \/ MeasureFile \/ Attempt
    \/ Query \/ QueryUnclear \/ StartNew \/ StartWithoutLocation \/ StartRefused
    \/ RequestLost \/ ServerError
    \/ OpenTracker \/ OpenTrackerFails \/ WriteTracker \/ WriteTrackerFails
    \/ SeekFile \/ SendBytes \/ EndOfFile \/ ReadFails
    \/ Respond \/ SendFails \/ ResponseUnclear \/ ResponseRefused \/ Requery
    \/ RemoveTracker \/ RemoveTrackerFails \/ CheckFinalMd5
    \/ DeleteObject \/ DeleteFails \/ Abort \/ Retry

Next == Run \/ Step \/ Crash \/ EditFile \/ Expire

Spec == Init /\ [][Next]_vars

\* A run that is not killed goes on: its requests are answered or fail.
FairSpec == Spec /\ WF_vars(Step)

-----------------------------------------------------------------------------
(* Properties.                                                             *)

ControlOK ==
    /\ pc \in Steps /\ result \in Results /\ err \in {"wait", "abort"}
    /\ pc \notin {"idle", "hash", "length", "attempt", "start", "abort", "retry"}
          => uri # NoUri
NumbersOK ==
    /\ length \in Nat /\ has \in Nat /\ before \in Nat /\ less \in Nat
    /\ pos \in Nat /\ end \in Nat \union {-1}
    /\ start \in Nat \union {-1, NoStart}
    /\ runs \in Nat /\ edits \in Nat
    /\ oks \in Nat
FlagsOK == accepted \in BOOLEAN /\ calm \in BOOLEAN
ContentsOK ==
    /\ file \in Seq(Byte) /\ md5 \in Seq(Byte) /\ etag \in Seq(Byte)
    /\ object \in Seq(Byte) \union {NoObject}
    /\ sessions \in Seq(Session)
UrisOK ==
    /\ tracker \in (1..Len(sessions)) \union {NoUri, Torn}
    /\ uri \in (1..Len(sessions)) \union {NoUri}

\* Every variable has its type; the tracker file and the handler name
\* sessions that were started, and a handler that asks, sends or waits for a
\* response has one.
TypeOK == ControlOK /\ NumbersOK /\ FlagsOK /\ ContentsOK /\ UrisOK

\* _check_final_md5: when a run ends well, the stored object is the file as
\* it was hashed when the run began, however many runs and edits it took.
SuccessStoresHashedFile == result = "ok" => object = md5

\* The inclusive ranges of the protocol: while the file is not edited and no
\* session is lost, every retry and every run resumes exactly where the
\* server stopped, so no upload is aborted, at the last byte or elsewhere.
AbortHasCause == result = "abort" => ~calm

\* ABORT_CUR_PROCESS and kills keep the tracker file: without a cause an
\* object is never uploaded through a second session, whenever runs end.
UploadStartsOnce == calm => Len(sessions) <= oks + 1

\* num_retries: a run ends, even if requests never stop to fail.
EveryRunEnds == pc = "attempt" ~> pc = "idle"
=============================================================================
