# A verification project for gamme-2.7

The repository is the status viewer of a mail migration service, together with
the tools it is built on: `boto` (the storage and cloud client library), `gslib`
(the `gsutil` command line) and the OAuth2 plugin both of them use.  This
directory keeps TLA+ models of the parts that have state, concurrency or
failures, the TLC configurations that check them on small instances, and TLAPS
proofs of the properties that matter most.

| module | models | proofs |
| --- | --- | --- |
| `StatusViewer` | the viewer: `main.py`, `gscloud.py`, `helpers.py`, `config.py` | `StatusViewerProofs` |
| `TokenCache` | the OAuth2 client and its caches: `oauth2_plugin/oauth2_client.py` | `TokenCacheProofs` |
| `ResumableUpload` | the upload handler: `boto/gs/resumable_upload_handler.py` | `ResumableUploadProofs` |
| `ConnectionPool` | the pools and the request loop: `boto/connection.py` | `ConnectionPoolProofs` |
| `ResumableDownload` | the download handler and the reading of a key: `boto/s3/resumable_download_handler.py`, `boto/s3/key.py` | `ResumableDownloadProofs` |
| `BucketLister` | listing page by page: `boto/s3/bucketlistresultset.py` | `MoveProofs` |
| `ParallelApply` | processes and threads of a command: `gslib/command.py`, `gslib/thread_pool.py` | `MoveProofs` |
| `Move` | `gsutil mv`, which lists, copies and removes: composes `BucketLister` and `ParallelApply` | `MoveProofs` |
| `Counter` | abstract: what a sequence promises | |
| `Sequence` | clients of a SimpleDB sequence: `boto/sdb/db/sequence.py`; implements `Counter` | `SequenceProofs` |
| `TaskQueue` | repeating tasks carried by a queue: `boto/manage/task.py` | `TaskQueueProofs` |

Each that is run has an `MC` module with the values TLC gives to its constants.
`PROJECT.json` maps every definition to its lines, lists the runs, the hazards
and the theorems, and names for each checked property a mutation of the code
that violates it; the operators marked "Faulty" in the modules are those
mutations and are used by nothing else.

To run: `tlc -config StatusViewer.cfg MCStatusViewer` (and so on for each `.cfg`),
`tlapm StatusViewerProofs.tla` (and so on for each proof module).

## 1. Inventory

### How the parts interact

A request to the viewer lists and fetches logs through gsutil's storage library.
Every request of that library goes through `AWSAuthConnection._mexe`, which takes
a connection from `ConnectionPool`, and is signed by an auth handler; the OAuth2
handler asks `OAuth2Client.GetAccessToken` for a token.  gsutil's copies run in
several processes, each with several threads (`Command.Apply`): the threads share
the connection pool and the token lock of their process, the processes share only
the token cache file and the tracker files on disk.  A copy of a large file goes
through `ResumableUploadHandler` or `ResumableDownloadHandler`, whose requests are
again those of `_mexe`.  The modules of these layers are separate because their
interfaces are narrow: what a caller sees of the layer below (an answer, a
retryable exception, a fatal one) is in each module as a choice of outcomes.  Where
one part's outcome decides what another does, they are composed: `Move` runs the
listing, the copies and the removals of `gsutil mv` one after the other over the
same bucket.  The sequence and the tasks are parts of `boto` that several machines
use at once; they share a SimpleDB item, and a message queue.

### Modelled components

**Migration status viewer.**  State: the bucket menu of an App Engine instance
(`config.Buckets`) and the request it serves; outside it, the buckets and the logs
in the store.  Operations: `MainPage.get`, `QueryUser.get` with
`get_userobjects`, the parser's `set_dict`, `insert_with_priority`.  Hard: every
listing and every fetch is a remote call, and the migration tool writes the logs
meanwhile; one class of error is swallowed in the middle of a loop; the result
must not depend on the order in which the store returns the logs.  Correct when:
the overall status is the worst of the runs, totals count each log once, a page
is made from all logs there are, every query is answered.

**OAuth2 token cache.**  State: the lock of each process, its in-memory cache, the
cache file (its name, its inode, the content), what each thread has read.
Operations: `GetAccessToken`, `FetchAccessToken`, `ExchangeAuthorizationCode`,
`GetToken` and `PutToken` of both caches, `ShouldRefresh`.  Hard: the lock covers
one process only, and the file is replaced in three system calls; the client
dates a token when it reads the response.  Correct when: a race of writers leaves
a whole file, a cached token is valid when used, a token is refreshed only when
that is needed, every call ends and leaves the lock free.

**Resumable upload.**  State: `tracker_uri`, `server_has_bytes`,
`progress_less_iterations`, the tracker file, the sessions of the server.
Operations: `send_file` and its helpers, from hashing to the check of the etag.
Hard: requests fail before or after the server has acted, runs are killed
anywhere, sessions go stale, the file changes under the upload.  Correct when: a
successful run has stored the file that was hashed, a resumption continues
exactly where the server stopped, an upload is given up only for a cause, a run
ends.

**HTTP connections.**  State: a queue of (connection, time) for each remote,
`last_clean_time`, the response attached to each connection.  Operations: `clean`,
`get` and `put` of both pool classes, `_mexe`.  Hard: a connection is put back
while its response is still being read; cleaning stops at the first fresh entry;
a redirect changes host and scheme in the middle of a request.  Correct when: a
connection has one user at a time, a stale one is not reused, a pool holds
connections of its own remote.

**Resumable download.**  State: the destination file, whose length is the progress,
the tracker file with the etag, `key.resp`, the attempts without progress.
Operations: `get_file` of the handler and its helpers, `open_read`, `next`, `close`
and `get_file` of a key, gsutil's check of the md5.  Hard: the object is overwritten
and the connection breaks between any two buffers; the tracker file and the
destination change in two steps; an exception of `close` leaves a dead response.
Correct when: a file that gsutil calls complete is one version of the object, a
download is given up or started over only for a cause, a run ends.

**Parallel copying of gsutil.**  State: the URIs dealt to each process, the bounded
queue, the unfinished count and the threads of each pool, `everything_copied_okay`
and the byte count of each process, the count they share.  Operations: `Apply`,
`ApplyThreads`, `ThreadPool`'s `AddTask`, `WaitCompletion`, `Shutdown` and the worker
loop, `CopyFunc` with its exception handler.  Hard: threads and the feeder meet at
a full queue and at the exit values; a child's flag is not its parent's; two
processes add to one integer.  Correct when: the function is called once for each
URI, the pool shuts down, the count is honest, a failure is reported.

**Bucket listings.**  State: the generator's marker, the page, the next marker.
Operations: `bucket_lister` under the wildcard iterator.  Hard: the bucket changes
between pages.  Correct when: a key that stays is listed, none is listed twice.

**gsutil mv and rm.**  State: the outcome each command passes to the next.  Correct
when: no object is removed that did not arrive.

**Sequence of SimpleDB.**  State: the value of an item, the `_value` of each client's
object.  Operations: the constructor, `get`, `set`, `next`.  Hard: the item is read,
then written on a condition; the answer of a write gets lost and it is sent again.
Correct when: the clients together do what one atomic counter does.

**Task scheduler.**  State: `message_id` and `last_executed` of the saved task, the
messages with the time they stay hidden, and what each poller holds.  Operations:
`poll`, `check`, `run`, `_run`, `start`.  Hard: pollers die or are late between
writing the next message, saving its id and deleting the old one; a command outlasts
its message's timeout, or hangs; a read of the task may miss what was saved last, and
its times are of several servers' clocks; `start` saves the whole task while pollers
do.  Correct when: the task's message stays in the queue, one poller runs it at a time,
runs are an hour or a day apart, it is run for ever.

### Components without a module

gsutil's other commands, the S3/GS object and bucket classes, file storage, the
clients of the other services, the SimpleDB object mapper and the command-line
frameworks keep no state between requests: they build a request and parse its
response.  Signing and plugin choice are pure functions of the configuration.
Machine start-up scripts run once, in order.  Cloudauth and `fancy_urllib` are
third-party code.  `PROJECT.json` lists each with its reason, and section 6 what is
left out of the parts that are modelled.

## 2. Plan

The order in which the modules were written, the most important first:
`StatusViewer` (what the repository is for), `TokenCache` and `ResumableUpload` (the
hardest interleavings and recoveries), `ConnectionPool` (under everything); then
`ResumableDownload`, the listing, the parallel copies and their composition in
`Move`, `Sequence` with its abstract `Counter`, and `TaskQueue`.

Every safety property that a passing run checks is also proved.  What is left to TLC is
liveness, for the reason given at the end of section 5.

## 3. The models

### StatusViewer

One request at a time per instance (`app.yaml`: `threadsafe: false`).  A remote
call is an action: `GetAllBuckets`, `ListBucket` (one bucket), `ParseLog` (one log
fetched, parsed and added to the page's dictionary).  `ListingFails` is the
`S3ResponseError` that `get_userobjects` turns into a partial result;
`RequestFails` is any exception nobody catches.  `WriteLog`, `CreateBucket` and
`DeleteBucket` are other programs.  The content of a log is what its parsing
yields; a user id is its sequence of dash-separated parts, because the only thing
the name pattern tells apart is whether one id continues another.  `seen` and
`touched` are history variables.

*Bounds.*  One instance (instances share only the store, which others change
anyway), two buckets, one user, one process id, so up to two logs per page; five
contents, chosen to have each status, an unknown status, no message at all, and a
percentage of 99.5; two changes of the store, enough to change one log twice or
both once, or to delete a log and then its bucket.

*Fairness.*  `WF_vars(Serve(i))`: App Engine runs a request to its end, and every
remote call answers or fails.  Deadlock is checked.

### TokenCache

One action per system call of `PutToken` and `GetToken`, one for each half of a
request to the token endpoint (the server issues a token, the client reads it
later).  A file is a name (`entry`) and inodes (`data`): a writer may be writing an
inode that another has unlinked.  `Crash` kills a process and frees its lock; the
file stays.  Token times are integers of one clock that client and server share.

*Bounds.*  One instance for both caches: two threads of a process that caches in
memory, and two processes of a thread each that share the file, which starts absent,
empty or with a token.  Tokens of lifetime 1 with margin 1 and one tick: one can be
used before the tick, or read late, found too old and replaced after it.  Two calls, so that two writers, or
a writer and a reader, meet in every order; one fault.

*Fairness.*  `WF_vars(Step(t))` for every thread: a runnable thread runs, a request
is answered or fails.  The lock needs no strong fairness because each call holds it
for finitely many steps and the calls are finitely many.  Deadlock is not checked:
when the calls are used up the system rests.

### ResumableUpload

`pc` follows `send_file` through its helpers; each request, each read or write of
the tracker file and each buffer sent is an action, so that a kill, an edit or a
lost session can come between any two.  A failed request has the outcomes the code
distinguishes: an exception that `send_file` retries (`RequestLost`, `SendFails`,
`ResponseUnclear`, `ReadFails`), one that aborts (`StartRefused`,
`ResponseRefused`), one that leaves `send_file` (`ServerError`,
`RemoveTrackerFails`).  The last is worth knowing: `make_request` raises
`BotoServerError` after its own retries of status 500 or 503, so the branch of
`_start_new_resumable_upload` for these two never sees them and the run ends.  The
server's side is external: a session keeps the bytes it received in order, answers
a query with an inclusive range from byte 0, replaces the object when the last
byte arrives, and refuses a request whose announced length differs.  A content
stands for its own digest.

*Bounds.*  Files of zero and two buffers, two of them of the same length and with a
common suffix (so that a mixture of versions is a possible object); two runs with
one retry each; one edit; two sessions; failures and kills without bound.

*Fairness.*  `WF_vars(Step)`: a run that is not killed goes on, its requests are
answered or fail.  It is not assumed that any of them succeeds.  Deadlock is not
checked: when the runs are used up the system rests, and a run that needs a third
session cannot go on in this instance other than by failing.

### ConnectionPool

The mutex makes `clean` and `get` of `ConnectionPool` atomic, each on its own:
`get_http_connection` is two actions (`CleanPools`, then `Reuse` or `GetNew`).
`_mexe` is the loop over the outcomes of a request.  A connection is `open` from
the headers of a response until the caller has read the body (`ReadResponse`, at
any time or never).  Pools that are empty and pools that were removed are the same
here, since the next `get` creates what is missing.  Proxies, certificates, senders,
signing and the `retry_handler` are left out.

*Bounds.*  Two threads, one host with both schemes (two remotes), one retry, one
redirect, three requests, two ticks with stale and clean durations of one tick.
Each request holds or queues at most one connection, so as many names as requests
suffice.  Threads are symmetric.  The uncounted redirects of the code are bounded
by `MaxRedirects`.  No liveness is claimed; deadlock is not checked, because the
requests are used up.

### ResumableDownload

`pc` follows `get_file` of the handler; a request, each buffer that is read and
written, each change of the tracker file is an action, so that a kill or a new
version of the object can come between any two.  `resp` is `key.resp`: live, dead
after the connection broke in the middle of the body, or closed, if this build's
httplib closes a response at an early end (`EofCloses` has both).  A broken pipe is
answered inside its exception handler with a `get_file` of the whole object into the
same file (`nested`).  Content stands for its digest and its etag.  `mine`, `calm`,
`flaws` and `seen` are history.  `calm` is about the surroundings: the object was not
overwritten, no other destination used the tracker file, and the tracker file could be
read and written.  `flaws` names the three weaknesses of the handler itself that cost a
download in calm surroundings, once they have bitten: the broken pipe on a file that has
bytes in it (`pipe`), the early end of a body that a newer httplib does not report
(`early`), and the kill between the tracker file and the truncation (`kill`); a run
that finds no tracker file starts with none.  `FailureHasCause` says that there is no
fourth; each of the three alone does lead to a failed download.

*Bounds.*  The object has two or three buffers and is overwritten once; two
destinations, each with nothing, one buffer or three of something else in it before;
two runs with one retry; breaks, kills and failures without bound.

*Fairness.*  `WF_vars(Step)`, as for uploads.  Deadlock is not checked: the system
rests when the runs are used up.

### BucketLister, ParallelApply, Move

`BucketLister` is the generator: a page is a request for the keys after a marker, and
another client adds and removes keys between requests.  Keys are positive numbers, in
the order in which the server lists them, and finitely many.  `ParallelApply` is
`Command.Apply`: the deal of the URIs, and in each process `AddTask` (which waits
while the queue is full), the threads that take a task or an exit value, the
exception handler, `WaitCompletion`, `Shutdown`.  What the function does is left open:
`Runs` (in a thread) and `RunsHere` (in the main thread) are its steps for a URI.
`total` is a process's own count, where each copy counts for one; `count` is the
integer that processes share: adding is a read and a write, and the integer is
`multiprocessing.Value('i')`, a C int, which takes a number it cannot hold without an
error and shows it modulo its size (`Wrapped`, `IntSize`).  `CountHonest` says what is
left of the count: the integer shows *some* honest sum in this way.  `Move` takes both and makes the function the copy of `cp`, then
the deletion of `rm`, and passes on the outcomes as `mv` does.  Each copy is one
step: what happens within a copy is in `ResumableUpload`.

*Bounds.*  Four keys of which three match, two with the same last component; pages
of two; one change by others, one killed child; one process with one or two threads,
or two processes of one thread; an `IntSize` of four, so that the integer wraps at the
second copy.  Two processes of two threads each are left out: the
processes share nothing but the integer and the outcome, and threads nothing but
their process's queue, so their steps only interleave.

*Fairness.*  Weak, of gsutil's main process, of the steps of every process and of the
calls of the function: processes and threads are scheduled and calls return or
raise.  `MoveEnds` rests on it.  Deadlock is not checked because the system rests
when `mv` has ended; a deadlock before that violates `MoveEnds`.

### Counter and Sequence

`Counter` is what a sequence promises: a call of `next` moves the value to the one
that follows, once, and the answer is the value at some moment between that step and
the call's end.  `Sequence` has the constructor, `get`, `set` and the two reads of
`next` as requests; a write is conditional on the value that was read.  Faults: a
request fails, the answer of a write that was done is lost and the connection sends
it again, a client dies.  `Abstract` maps the item to the value and each client's
control to its turn (`Turn`); the run checks `IsCounter`, the proof shows it for any
number of clients, calls and faults.

Counting by one and doubling are modelled.  What `Sequence` does not promise:
`fib` repeats its value (1 follows 1), so the condition does not tell a client that
its value is stale; two clients that construct a sequence of one given name at the
same time both write the first value without a condition, so the second may set back
what was counted in between (the model has the creation of a sequence with a random
id, which others learn afterwards); and the second read of `next` may return another
client's newer value, so that two calls may have the same answer.

*Bounds.*  Three clients, three calls between them, two faults, initial values 0, 1
and 3.  *Fairness.*  `WF_vars(Call(c))`: requests are answered or fail.  Deadlock is
not checked: the calls are used up.

### TaskQueue

A poller's record has its step and what it holds; `Read`, `EmptyRead`, `Load`, `Hide`,
`CommandEnds`, `Write`, `Put` and `Delete` are the calls of `poll` and `run`, and
`StartLoad`, `StartWrite`, `StartPut` those of `start`.  After an empty read a poller
sleeps for `Wait`; a message that is visible may then stay there unread, and no call
is late for that.  The queue and the store are external: a message that was read is
hidden for its timeout, then comes back; only who read it last can change its timeout.

`Model.__consistent__` is False, so a load may find a version that a save has replaced
(`stale`, `Versions`), and so may the query of `start_all`.  Such a version can be read
until a unit of time has passed; if it lasts for longer, that is counted (`lags`).
Times are times since: `age` since `last_executed`, `since` since the poller's `now`.
Each load takes its time from a clock that is ahead of the slowest by up to `Drift`
(`skew`), and `age` is counted from what such a clock recorded, so it may be negative.
`check` has the code's arithmetic: `delta.seconds` leaves out the days, is close to a
day for a negative difference, and the wait for another hour is the difference of the
two hours.  The unit of time is the sleep of `_run`, whose counter is one turn ahead of
the time that has passed, so the timeout is extended before it runs out.  A tick while
a call is under way makes that call late (`late`), which is counted as a fault.

`_run` reads the command's pipes after the command has ended: one that prints more than
a pipe holds waits for ever.  A load chooses whether the command is such a one (`hung`);
then `CommandEnds` is not enabled, and the poller goes on to extend the timeout.

`OneAtATime` and `RunsApart` hold when calls take less than a unit of time, nobody starts
the task a second time, and the store does not lag for more than a unit in a behaviour
where a poller dies (`Calm`).  The last condition is needed: after a death between `put`
and `delete` the old message comes back, and a load that finds the old version then runs
the task for it beside the next one.  While no poller dies the store may lag.

*Bounds.*  Two pollers; a task that is hourly or daily; days of three hours of two
units; an idle sleep and a visibility timeout of one, and commands of up to one unit or
that hang, so that the timeout is extended in every run that takes time; clocks that
differ by one unit; one earlier version that may be read; one fault, which is a death at
any point, one late unit, one lag of the store, one read that misses a message, or a
call of `start`; four message ids, which are used again.  The times of a poller that
hangs are followed up to `MaxRun`, and its timeout then grows no more.  An hour, the
sleep and the difference of the clocks are together less than a day, without which an
hourly task may be looked at only when the seconds of the difference are few.
`TaskQueueDaily` has days of 24 hours.

*Fairness.*  `WF_vars(Tick)`, `WF_vars(Poll(p))`, `WF_vars(Start)`: time passes, pollers
run, calls are answered, and commands end unless they hang.  `KeepsRunning` says that a
command ends again and again or that one hangs for ever: a run that hangs does not
count as the task being run.  Deadlock is checked.

## 4. Runs

| run | shows |
| --- | --- |
| `viewer` | `MainStatusIsWorst`, `TotalsMatchLogs`, `PercentageHonest`, `CompleteUnlessSwallowed` and `EveryQueryAnswered` hold while logs and buckets come and go and calls fail |
| `tokens` | `OneWriterWins`, `CachedTokenValid`, `RefreshOnlyWhenNeeded` and `EveryCallEnds` hold for racing processes and threads while tokens expire, a call fails or a process is killed |
| `upload` | `SuccessStoresHashedFile`, `AbortHasCause`, `UploadStartsOnce`, `EveryRunEnds` hold over two runs |
| `pool` | `OneUser` and `NeverStale` hold with slow readers, errors and redirects |
| `download` | `OkIsOneVersion`, `FailureHasCause`, `KeepsBytes`, `EveryRunEnds` hold over two runs and two destinations |
| `download_retry` | *violation*: a retry reads the dead response of the attempt before |
| `move` | `ListedOnce`, `StayersListed`, `NoLoss`, `CalledOnce`, `CountHonest`, `MoveEnds` hold in every mode, `NoLoss` as long as there is one process |
| `move_loss` | *violation*: with several processes, `mv` removes what was not copied |
| `sequence` | `IsCounter` (the refinement), `StrictlyRising`, `EveryCallEnds` hold with lost answers and deaths |
| `tasks` | `StaysQueued`, `OneAtATime`, `RunsApart`, `KeepsRunning` hold with a death, a late call, a stale read, clocks that differ, or a second start |
| `tasks_lost` | *violation*: the first start of a task races a poller, and the task is lost |
| `tasks_daily` | *violation*: a task for 3 o'clock may never run |

What the violations mean:

- **Retry of a download.**  `key.close()` reads the rest of the body before it clears
  `key.resp`; on a broken connection that read raises, and the handler ignores it as
  harmless.  `open_read` then finds a response and sends no request: the retries read
  the dead response until they are used up.
- **`mv` with `-m`.**  A failed copy sets `everything_copied_okay` in the child process;
  `cp`'s own flag stays true, so `cp` ends well and `mv` removes the source.
- **First start.**  `start` writes a message, then saves the task with its id.  A task
  without `message_id` is run for any message, so a poller may run it and replace the
  message before `start` saves: the task then names a message that is gone, and its real
  one is dropped as extraneous for ever.
- **Daily tasks.**  A task for 3 o'clock that is read at 11 waits 8 hours, at 19 16 hours,
  and so on.  (A queue that refuses to hide a message for 16 hours would make the
  poller fail instead; the code itself asks for 23 hours after a run.)

Other disagreements between the code and its comments that the modelling met, which no
run shows:

- `get_userobjects` returns what it found before an `S3ResponseError`, and `QueryUser.get`
  ignores the error when something was found: a run whose bucket failed to list is left
  out, and the page may show "Completed" where `config.py:11` promises "Failed".
- The pattern `Status-<user>-(.*)-p(.*).log` for `amw` also matches the logs of
  `amw-wrong`, and the page counts them; `main.py:130` says this should not arise.
- `server_has_bytes` of the upload handler is the start of the server's range, always 0:
  progress is never seen and the retries never reset
  (`resumable_upload_handler.py:79` says they are).
- `upload_start_point` is the inclusive end of the server's range, one less than the
  first byte sent.
- After a broken pipe the download handler does not "close and reopen the key before
  resuming the download" (`resumable_download_handler.py:281`): it gets the whole object
  and appends it to what the file has, and the download ends as aborted or changed.
- `_attempt_resumable_download` writes the tracker file before it truncates the
  destination; a run killed in between leaves a file of other content that the next run
  resumes, and gives up.
- `get` of the connection pool re-queues a connection that is being read with the
  present time; read late, it looks fresh when the server has long closed it, although
  `connection.py:218` says that cannot happen.
- After a redirect to the other scheme a connection is put back under the `is_secure` of
  the connection object, into the pool of another remote.
- `cp -m` shares its count of bytes as a C int (`command.py:480`): past 2^31-1 bytes
  the total and the throughput it prints are wrong and may be negative, though the code
  calls it "shared integer for tracking total bytes transferred" (`command.py:514`).
- `check` of a task takes the seconds of a difference without its days: an hourly task
  that was last run a day and a minute ago waits 59 minutes.
- A server whose clock is behind the one that recorded `last_executed` has a negative
  difference, whose seconds are close to a day: it runs an hourly task at once, a moment
  after the last run (`task.py:86-89`), where `task.py:45` says "each hour".
- `_run` waits for the command with its pipes unread: a command that prints more than a
  pipe holds never ends, and its message stays hidden for as long as the poller lives.
- After a death between `put` and `delete`, a read of the store that is older than the
  death runs the old message's task a second time, beside the next one.

## 5. Proofs

Each theorem below is checked by `tlapm` for all values of the constants that
satisfy the module's assumptions; TLC evaluates these assumptions in every run.

**StatusViewer** (`TypeCorrect`, `MainStatusCorrect`, `PageComplete`,
`PercentageHonestAlways`, `TotalsMatchAlways`).
`MainInv` says that the status so far summarises the logs parsed so far, and that a
request with a status has parsed one; `MainStep` needs only that
`insert_with_priority` takes the minimum of the ranks (`MainParsed`).
`CompleteInv` adds what the final page does not show: a log in scope that nobody
touched is in a bucket still to be listed, or was found and is to be parsed, or is
among those parsed (`Accounted`); and a log's bucket exists (`StoreInBuckets`),
without which `GetAllBuckets` could miss it.  `CountInv` says that no log a request
has parsed counts more than the request's totals, which makes the dash honest; that the
rounded share is 100 only if it is all is `ShareRoundedDown`, for any counts.
`TotalsInv` says that the totals are the sums over the logs parsed so far, and that
none of these is still to be parsed: a log parsed twice would be one element of the
set and count twice.  A sum over a set is a recursion over its subsets
(`SumFunction`); instead of an induction, `SumIsUnits` shows that it equals the size
of a set of points (`Units`), which is the one solution of the recursion's equation by
a smallest subset where another would differ, and `SumAdds` then follows from what is
known of the sizes of unions.

**TokenCache** (`TypeCorrect`, `OneWriterWinsAlways`, `CachedTokenValidAlways`,
`RefreshOnlyWhenNeededAlways`, `LockHeldByCallAlways`).
The type is proved thread by thread (`LocalOK`: what a thread at each step has open
and holds).  `OneWriterWins` alone is not inductive: `WinInv` adds that, since the last
creation without a fault, a name without content has a writer that is about to fill
exactly that inode, and a missing name a thread about to create.  `DateInv` says
that a token with a lifetime has an expiry once its response is read, in the
caches, in the inodes of the file and in the threads; then the test of
`ShouldRefresh`, and the margin, bound the time at which a cached token is taken.
`RefreshInv` says that a call between the lock and its release owns
`token_exchange_lock`, that the approval flow, which puts a token without it, has its
process to itself, and that what a call saw in its process's cache is still there.
`LockHeldByCall` is the converse, and the safety half of `EveryCallEnds`: a lock that is
taken belongs to a `GetAccessToken` of that process which has not reached its
`finally`.  It needs that only `GetAccessToken` waits for the lock (`WaitsToGet`), and
fails when the error path keeps the lock (`ReleaseOnSuccess`).

**ResumableUpload** (`TypeCorrect`, `SuccessCorrect`, `AbortNeedsCause`,
`StartsOnce`).  `TypeOK` is proved in the parts `ControlOK`, `NumbersOK`, `FlagsOK`,
`ContentsOK`, `UrisOK`.  `SuccessStoresHashedFile` needs to know that the etag the
handler compares is that of the stored object.  `UploadInv` gets there: a complete session that the tracker
file or the handler names is the stored object (`Stored`); the two never name
different sessions once the tracker file is written; while a request is sent the
server has exactly the bytes before the handler's position (`InStep`); from the
response to the check the etag is the object.  Edits, expiries and kills disturb none
of these.  `CalmInv`, for histories without a cause, says that every session holds a
part of the file from its first byte on (`Whole`), that the handler sends from the
byte where its session stopped (`Exact`), and that a session is started only where
neither the handler nor the tracker file knows one (`Counted`).

**ConnectionPool** (`TypeCorrect`, `OneUserAlways`, `NeverStaleAlways`, from
`PoolCorrect`).  `PoolInv` adds `Times` (queues are ordered by time and no time is
in the future) and `Holding` (only a thread that sends or puts back has a
connection) to the three invariants.  The order is the point: `clean` stops at the first fresh entry, which
discards all stale ones only because `get` puts what it turns over at the end with
the present time.  `Init` states the choice of the first host with `CHOOSE`, hence the
assumption that there is a host.

**Sequence** (`TypeCorrect`, `ClientsCount`, `AnswersRise`).  `ClientsCount` is the
refinement: the initial states of `Sequence` are states of `Counter`'s, and each step
is a step of `Counter` under the mapping or leaves it unchanged.  What makes the
conditional write the abstract `Take` is that a successful one finds in the item the
value the client read, which is never absent once others know the sequence
(`Founding`); the inductive invariant `IInv` adds
that the value never falls below what a client has read (`Risen`), what a client must
have read at each step (`Held`), and that the answers given so far are not above the
value, and below it once the client has written again (`Answered`), from which
`AnswersRise` follows: each time `next` returns to a client, it returns more than the
time before, across failed calls and new objects.

**ResumableDownload** (`TypeCorrect`, `OneVersionAlways`, `FailureNeedsCause`,
`KeepsBytesAlways`).  The type needs `Within`: a response ends no later than the object
it comes from.  `SeenInv` says that the etag compared in the end is that of a content
seen in this run.  `KeepInv`, for calm surroundings, says that the handler goes by the
object and its etag (`Current`), and that a download that has begun has its etag in the
tracker file before anything is read into it, so that only an empty file is started
over (`Known`): `KeepsBytes` follows whatever else happens.  `CalmInv`, while no weakness
has bitten, says that the file is a part of the object (`Begun`); that the tracker file
does not claim what another destination holds (`Unclaimed`); and that requests and
responses, those left over from a broken connection included, begin where the file ends
(`Aligned`).  `FailureNeedsCause` follows: as long as that is so, nothing is given up.

**TaskQueue** (`TypeCorrect`, `StaysQueuedAlways`, `OneAtATimeAlways`,
`RunsApartAlways`).  `Kept` says of a task that was started before the pollers that its
message is in the queue, that whoever is about to save a new message has put it,
that no two of these are the same, and that what is deleted is not the task's message;
the pollers may die, fall behind and read each other's messages.  `StaysQueuedAlways`
assumes ~Fresh: for a task that is started while the pollers run, the run `tasks_lost`
shows it wrong.  Versions that may still be read name none of the messages that are
about to be saved (`PendingNotStale`), so a stale read deletes nothing that is needed.
`Alone` says, under `Calm`, which poller owns the message and until when it is hidden
(`Orderly`), and of every version that may still be read that its message is gone, or is
hidden and, if nobody has died, held by the poller that is about to delete it
(`Outdated`): so no load runs the task for it.  `Due` is what `check` established when
it returned 0 (`CheckDue`), also for a negative difference.  The assumptions on the
constants: a command that ends takes less than a day (`MaxRun < Day`), and clocks differ
by no more than a day (`Drift`).

**Move** with **BucketLister** and **ParallelApply** (`TypeCorrect`, `ListedOnceAlways`,
`StayersListedAlways`, `CalledOnceAlways`, `NoLossAlways`, `CountHonestAlways`, from
`InvAlways`; `NeverStuckAlways`).  The inductive invariant `Inv` is a conjunction of one part for each
question:
- *The listing.*  `OrderInv`: what was listed, the last key, the page and the marker
  follow one another in the order of keys.  `StayInv`: a key that was there all the time
  has been listed, is on the page, or is beyond where the next request starts
  (`Beyond`).  That a page is the sorted list of its keys is `OrderedProperties`; the rank
  of a key among finitely many is a bijection (`RankOnto`), which counting shows.
- *The processes.*  `StageInv`: what the main thread knows when it goes on; in
  particular its unfinished count is the queue and the busy threads together.
  `ApartInv`: a URI is in one place (to be dealt, queued, with a thread) of one process.
  It starts from `DealtOnce`: round by round every URI is dealt, to one process and one
  place there (`PlacesDiffer`, `PlaceOnto`: quotient and remainder).  `OnceInv`: the
  function was called for exactly those listed URIs that are in no such place; when all
  processes have ended nothing is pending (`NothingLeft`).
- *The command.*  `PhaseInv`: nothing is removed before `rm`.  `CopiedInv`: a single
  process whose flag is still true has copied all it was called for, so `rm` starts only
  when everything listed has arrived.  `ArrivedInv`: what is under a copied key's name
  is it or a namesake.
- *The count.*  `CountInv`: there is a way of telling which process copied each key, and
  there are sums that the integer and the values read from it stand for, for
  which the `Books` are in order: no process has counted more than its own copies, the
  sums hold no more than the copies of processes that are done, the integers
  are the sums as a C int shows them, and the last process to write left its own total in
  the sum, so not everything is lost.  That adding to a wrapped number and wrapping again
  gives the wrapped sum (`WrapAdds`) holds for every size of the integer.

`NeverStuckAlways` is the safety half of `MoveEnds`: whatever a process waits for (room in
the queue, the tasks to be done, the exit values to be taken), one of its threads or its
main thread can take a step.  `ExitsInv` is the balance that makes it true: no thread
has left while tasks are fed or waited for; then as many exit values are queued
or yet to be put as there are threads left.  That the steps do happen is fairness, which
only the run `move` uses.

The proofs about steps treat a process alone (`Elsewhere`, `ProcStep`) before they put
the processes together.

**Only model-checked.**  The liveness properties: they rest on fairness and on
ENABLED, which the prover does not treat.  No module uses RECURSIVE operators.

## 6. Not modelled

Of the parts with a module:

- *Viewer*: the wording and the layout of the pages, the menu's staleness.  The
  Calendar, Contact and Email lines show the log that was parsed last; the code
  promises nothing about them.  TLC's instance has one user id.
- *Tokens*: the serialised form, URIs, the dialogue of the first authorisation.
- *Upload*: two runs that share a tracker file at the same time (its name encodes the
  destination only), and bytes still in flight when the handler asks the server how
  many it has.
- *Connections*: proxies, certificates, senders, signing, DynamoDB's `retry_handler`.
  Uncounted redirects are cut off by `MaxRedirects`.
- *Download*: progress callbacks, torrents, versions of objects.
- *Listing and copying*: the listers of versions and of multipart uploads, which have
  the same loop; the expansion of containers and the naming of copied trees, which
  are string functions.
- *Sequence*: `delete`, `fib`, `SequenceGenerator`, two constructors of one given name.
- *Tasks*: a task that is deleted while its message is in the queue; a write of the queue or of the task that is repeated after its answer was
  lost, the queue's own limits on retention and on timeouts, and the deletion of
  `last_executed` as a request apart when `start` saves a task that was never run.
- *Services* (`boto/services`): the same loop of reading, processing, writing and
  deleting, without an extension of the timeout or a saved id; a message that takes too
  long is processed twice, and the code promises nothing against it.
