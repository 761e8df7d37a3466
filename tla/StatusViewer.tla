---------------------------- MODULE StatusViewer ----------------------------
(***************************************************************************)
(* The migration status viewer: src/main.py, src/gscloud.py,               *)
(* src/helpers.py and src/config.py.                                       *)
(*                                                                         *)
(* An App Engine instance serves one request at a time (app.yaml has       *)
(* threadsafe: false), several instances run side by side, and the         *)
(* migration tool writes its status logs while requests are being served.  *)
(* A query lists the searched buckets one remote call at a time, then      *)
(* fetches and parses the matching logs one remote call at a time, so the  *)
(* store may change, and a call may fail, between any two of those calls.  *)
(*                                                                         *)
(* A user id is the sequence of its dash-separated parts.  A log is named  *)
(* Status-<user>-<time>-p<pid>.log and the pattern built from a queried    *)
(* id is not closed on its right: it matches the logs of every user id     *)
(* that the queried id is a prefix of, part by part.                       *)
(***************************************************************************)
EXTENDS Integers, FiniteSets, Sequences, SequencesExt

CONSTANTS
    Instances,   \* App Engine instances
    Buckets,     \* bucket names
    Users,       \* user ids that have, or may be asked for, status logs
    Pids,        \* process ids of migration runs
    Contents,    \* well-formed status logs
    Malformed,   \* a log whose parsing raises
    Absent,      \* no object under this name
    AllBuckets,  \* the empty choice of the bucket menu
    MaxWrites    \* bound: changes made to the store in a behaviour

VARIABLES
    existing,    \* buckets that exist
    store,       \* the log under each name, or Absent
    writes,      \* number of changes made to the store
    menu,        \* config.Buckets of each instance
    req          \* the request each instance serves, or its last one

vars == <<existing, store, writes, menu, req>>

Status_priority == <<"Failed", "In Progress", "Completed">>
Known == {"Failed", "In Progress", "Completed"}
Statuses == Known \union {"unknown"}
NoStatus == "none"              \* 'main_status' not in the dictionary yet
Migration_categories == {"Calendar", "Contact", "Email"}
MessageKinds == {"large", "disallowed", "other", "nosubject"}
ErrorCategories == {"large", "disallowed", "other"}

Names == [bucket: Buckets, user: Users, pid: Pids]

\* What parsing a well-formed log yields.
Content == [main: Statuses, cat: [Migration_categories -> Statuses],
            success: Nat, failed: Nat, messages: [MessageKinds -> Nat]]

ASSUME ContentsAssumption == Contents \subseteq Content
ASSUME AbsentAssumption == Absent \notin Content /\ Malformed \notin Content
                           /\ Absent # Malformed
ASSUME UsersAssumption == Users \subseteq Seq(STRING) /\ <<>> \notin Users
ASSUME MaxWritesAssumption == MaxWrites \in Nat
ASSUME AllBucketsAssumption == AllBuckets \notin Buckets

Running == {"buckets", "list", "parse"}
Pages == {"fresh", "main", "empty_user", "not_found", "status", "error500"}

\* seen, touched and start are history: what was parsed, and what others
\* changed since the request began.
Request(user, bucket, pc) ==
    [pc |-> pc, user |-> user, bucket |-> bucket, toList |-> {},
     found |-> {}, todo |-> {}, swallowed |-> FALSE,
     main |-> NoStatus, cat |-> [c \in Migration_categories |-> NoStatus],
     success |-> 0, failed |-> 0, rows |-> [c \in ErrorCategories |-> 0],
     seen |-> {}, touched |-> {}]

Init ==
    /\ existing \in SUBSET Buckets
    /\ store \in [Names -> Contents \union {Malformed, Absent}]
    /\ \A n \in Names : store[n] # Absent => n.bucket \in existing
    /\ writes = 0
    /\ menu = [i \in Instances |-> {}]
    /\ req = [i \in Instances |-> Request(<<>>, AllBuckets, "fresh")]

Idle(i) == req[i].pc \in Pages

-----------------------------------------------------------------------------
(* The migration tool and the bucket owners, outside src.                  *)

Touch(names) ==
    req' = [i \in Instances |-> [req[i] EXCEPT !.touched = @ \union names]]

WriteLog(n) ==
    /\ writes < MaxWrites
    /\ n.bucket \in existing
    /\ \E c \in (Contents \union {Malformed, Absent}) \ {store[n]} :
           store' = [store EXCEPT ![n] = c]
    /\ Touch({n})
    /\ writes' = writes + 1
    /\ UNCHANGED <<existing, menu>>

CreateBucket(b) ==
    /\ writes < MaxWrites
    /\ b \notin existing
    /\ existing' = existing \union {b}
    /\ writes' = writes + 1
    /\ UNCHANGED <<store, menu, req>>

\* A bucket is deleted only when it is empty.
DeleteBucket(b) ==
    /\ writes < MaxWrites
    /\ b \in existing
    /\ \A n \in Names : n.bucket = b => store[n] = Absent
    /\ existing' = existing \ {b}
    /\ writes' = writes + 1
    /\ UNCHANGED <<store, menu, req>>

-----------------------------------------------------------------------------
(* MainPage.get: the bucket menu of the instance is refreshed; a failure   *)
(* of the listing is not caught.                                           *)

MainPage(i) ==
    /\ Idle(i)
    /\ \/ /\ menu' = [menu EXCEPT ![i] = existing]
          /\ req' = [req EXCEPT ![i] = Request(<<>>, AllBuckets, "main")]
       \/ /\ req' = [req EXCEPT ![i] = Request(<<>>, AllBuckets, "error500")]
          /\ UNCHANGED menu
    /\ UNCHANGED <<existing, store, writes>>

-----------------------------------------------------------------------------
(* QueryUser.get.                                                          *)

QueryUser(i, user, bucket) ==
    /\ Idle(i)
    /\ req' = [req EXCEPT ![i] =
          IF user = <<>> THEN Request(user, bucket, "empty_user")
          ELSE IF bucket = AllBuckets THEN Request(user, bucket, "buckets")
          ELSE [Request(user, bucket, "list") EXCEPT !.toList = {bucket}]]
    /\ UNCHANGED <<existing, store, writes, menu>>

\* gscloud.get_userobjects without a chosen bucket: every bucket is searched.
GetAllBuckets(i) ==
    /\ req[i].pc = "buckets"
    /\ req' = [req EXCEPT ![i] = [req[i] EXCEPT !.toList = existing, !.pc = "list"]]
    /\ UNCHANGED <<existing, store, writes, menu>>

\* re.match of the pattern built from the queried id with a log's name.
Matches(user, n) == IsPrefix(user, n.user)

\* The logs that the listing of bucket b yields now.
Listed(user, b) ==
    {n \in Names : n.bucket = b /\ store[n] # Absent /\ Matches(user, n)}

\* Faulty: a return inside the loop, so that only one bucket is searched.
ListBucketOnly(i, b) ==
    /\ req[i].pc = "list"
    /\ b \in req[i].toList
    /\ b \in existing
    /\ req' = [req EXCEPT ![i] = [req[i] EXCEPT
          !.toList = {},
          !.found = @ \union Listed(req[i].user, b)]]
    /\ UNCHANGED <<existing, store, writes, menu>>

\* One iteration of the loop over buckets.
ListBucket(i, b) ==
    /\ req[i].pc = "list"
    /\ b \in req[i].toList
    /\ b \in existing
    /\ req' = [req EXCEPT ![i] = [req[i] EXCEPT
          !.toList = @ \ {b},
          !.found = @ \union Listed(req[i].user, b)]]
    /\ UNCHANGED <<existing, store, writes, menu>>

\* An S3ResponseError from any of the listing calls (a bucket that is gone
\* always answers with one) ends the search; what was found so far is kept
\* and the error text is returned beside it.
ListingFails(i) ==
    /\ \/ req[i].pc = "buckets"
       \/ req[i].pc = "list" /\ req[i].toList # {}
    /\ req' = [req EXCEPT ![i] =
          [req[i] EXCEPT !.pc = "list", !.toList = {}, !.swallowed = TRUE]]
    /\ UNCHANGED <<existing, store, writes, menu>>

\* Any other exception of a remote call, or any exception of a fetch, is
\* caught by nobody and ends the request.
RequestFails(i) ==
    /\ \/ req[i].pc = "buckets"
       \/ req[i].pc = "list" /\ req[i].toList # {}
       \/ req[i].pc = "parse" /\ req[i].todo # {}
    /\ req' = [req EXCEPT ![i] = [req[i] EXCEPT !.pc = "error500"]]
    /\ UNCHANGED <<existing, store, writes, menu>>

\* Faulty: a search that found nothing is started again.
SearchDoneAgain(i) ==
    /\ req[i].pc = "list"
    /\ req[i].toList = {}
    /\ req' = [req EXCEPT ![i] = [req[i] EXCEPT
          !.todo = req[i].found,
          !.pc = IF req[i].found = {} THEN "buckets" ELSE "parse"]]
    /\ UNCHANGED <<existing, store, writes, menu>>

\* result_bunch.error is not looked at: no result means no such user.
SearchDone(i) ==
    /\ req[i].pc = "list"
    /\ req[i].toList = {}
    /\ req' = [req EXCEPT ![i] = [req[i] EXCEPT
          !.todo = req[i].found,
          !.pc = IF req[i].found = {} THEN "not_found" ELSE "parse"]]
    /\ UNCHANGED <<existing, store, writes, menu>>

Rank(s) == CASE s = "Failed" -> 0
             [] s = "In Progress" -> 1
             [] s = "Completed" -> 2
             [] OTHER -> 3

\* helpers.insert_with_priority: list.index raises for a status that is not
\* in the list, but a first value is taken without a look.
InsertRaises(current, val) ==
    current # NoStatus /\ {current, val} \ Known # {}
\* Faulty: the last run wins.
InsertLast(current, val) == val
InsertWithPriority(current, val) ==
    IF current = NoStatus \/ Rank(current) > Rank(val) THEN val ELSE current

\* Faulty: the table starts without its header row.
AddMessagesNoHeader(rows, messages) ==
    [c \in ErrorCategories |-> rows[c] + messages[c]]
\* Faulty: the header row is discounted on every call.
AddMessagesLessHeader(rows, messages) ==
    [c \in ErrorCategories |-> rows[c] + messages[c] - 1]

\* GammeParserHelper.set_dict, once per message: the first message of a
\* category also brings the header row.
AddMessages(rows, messages) ==
    [c \in ErrorCategories |->
        IF messages[c] = 0 THEN rows[c]
        ELSE IF rows[c] = 0 THEN 1 + messages[c]
        ELSE rows[c] + messages[c]]

\* One iteration of the loop over the logs found: fetch, parse, aggregate.
ParseLog(i, n) ==
    /\ req[i].pc = "parse"
    /\ n \in req[i].todo
    /\ LET r == req[i]
           c == store[n]
       IN  req' = [req EXCEPT ![i] =
             IF c \in {Absent, Malformed} \/ InsertRaises(r.main, c.main)
             THEN [r EXCEPT !.pc = "error500"]
             ELSE [r EXCEPT
                     !.todo = @ \ {n},
                     !.main = InsertWithPriority(@, c.main),
                     !.cat = c.cat,
                     !.success = @ + c.success,
                     !.failed = @ + c.failed,
                     !.rows = AddMessages(@, c.messages),
                     !.seen = @ \union {[name |-> n, content |-> c]}]]
    /\ UNCHANGED <<existing, store, writes, menu>>

Render(i) ==
    /\ req[i].pc = "parse"
    /\ req[i].todo = {}
    /\ req' = [req EXCEPT ![i] = [req[i] EXCEPT !.pc = "status"]]
    /\ UNCHANGED <<existing, store, writes, menu>>

\* Faulty: rounded up.
PercentageUp(r) ==
    IF r.success + r.failed = 0 THEN -1
    ELSE (r.success * 100 + r.success + r.failed - 1) \div (r.success + r.failed)

\* The percentage shown, -1 standing for the dash shown for no message.
Percentage(r) ==
    IF r.success + r.failed = 0 THEN -1
    ELSE (r.success * 100) \div (r.success + r.failed)

-----------------------------------------------------------------------------

Serve(i) ==
    \/ GetAllBuckets(i)
    \/ \E b \in Buckets : ListBucket(i, b)
    \/ ListingFails(i)
    \/ RequestFails(i)
    \/ SearchDone(i)
    \/ \E n \in Names : ParseLog(i, n)
    \/ Render(i)

Next ==
    \/ \E n \in Names : WriteLog(n)
    \/ \E b \in Buckets : CreateBucket(b) \/ DeleteBucket(b)
    \/ \E i \in Instances :
          \/ MainPage(i)
          \/ \E user \in Users \union {<<>>}, b \in Buckets \union {AllBuckets} :
                QueryUser(i, user, b)
          \/ Serve(i)

Spec == Init /\ [][Next]_vars

\* An instance goes on with the request it serves: each of its remote calls
\* answers or fails.
FairSpec == Spec /\ \A i \in Instances : WF_vars(Serve(i))

-----------------------------------------------------------------------------
(* Properties.                                                             *)

\* Every variable has its type; a request under way has not been answered.
TypeOK ==
    /\ existing \in SUBSET Buckets
    /\ store \in [Names -> Contents \union {Malformed, Absent}]
    /\ writes \in 0..MaxWrites
    /\ menu \in [Instances -> SUBSET Buckets]
    /\ req \in [Instances ->
          [pc: Running \union Pages, user: Users \union {<<>>},
           bucket: Buckets \union {AllBuckets}, toList: SUBSET Buckets,
           found: SUBSET Names, todo: SUBSET Names, swallowed: BOOLEAN,
           main: Statuses \union {NoStatus},
           cat: [Migration_categories -> Statuses \union {NoStatus}],
           success: Nat, failed: Nat, rows: [ErrorCategories -> Nat],
           seen: SUBSET [name: Names, content: Contents],
           touched: SUBSET Names]]

\* config.Status_priority: the overall status of a page is that of one of the
\* runs parsed for it, and no parsed run has a status of higher priority,
\* whatever the order in which the store returned the logs.
MainStatusIsWorst ==
    \A i \in Instances : req[i].pc = "status" =>
        /\ \E s \in req[i].seen : s.content.main = req[i].main
        /\ \A s \in req[i].seen : Rank(req[i].main) <= Rank(s.content.main)

\* The totals of a page count every parsed log once, and the number beside
\* an error category, which main.py computes as the length of its table less
\* the header row, is the number of messages of that category.
TotalsMatchLogs ==
    \A i \in Instances : LET r == req[i] IN r.pc = "status" =>
        /\ r.success = SumFunction([s \in r.seen |-> s.content.success])
        /\ r.failed = SumFunction([s \in r.seen |-> s.content.failed])
        /\ \A c \in ErrorCategories :
              LET n == SumFunction([s \in r.seen |-> s.content.messages[c]])
              IN  r.rows[c] = IF n = 0 THEN 0 ELSE n + 1

\* The logs a request is about, and those of them that nobody changed while
\* it was being served.
InScope(r, n) ==
    /\ r.bucket \in {AllBuckets, n.bucket}
    /\ Matches(r.user, n)
Stable(r, n) == InScope(r, n) /\ n \notin r.touched /\ store[n] # Absent

\* Unless the search swallowed an error, a page (the not-found page too) was
\* made from every log in scope that was there, unchanged, all along.
CompleteUnlessSwallowed ==
    \A i \in Instances : LET r == req[i] IN
        r.pc \in {"status", "not_found"} /\ ~r.swallowed =>
            \A n \in Names : Stable(r, n) =>
                [name |-> n, content |-> store[n]] \in r.seen

\* The percentage is 100 only when no message failed, 0 to 100 otherwise,
\* and the dash only when there was no message at all.
PercentageHonest ==
    \A i \in Instances : LET r == req[i] IN r.pc = "status" =>
        /\ Percentage(r) \in -1..100
        /\ Percentage(r) = 100 => r.failed = 0 /\ r.success > 0
        /\ Percentage(r) = -1 => \A s \in r.seen :
              s.content.success = 0 /\ s.content.failed = 0

\* Every query is answered by some page.
EveryQueryAnswered ==
    \A i \in Instances : req[i].pc \in Running ~> req[i].pc \in Pages

=============================================================================
