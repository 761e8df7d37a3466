------------------------ MODULE StatusViewerProofs -------------------------
(***************************************************************************)
(* Proofs about the status viewer, for any instances, buckets, users, logs *)
(* and any number of changes to the store.                                 *)
(***************************************************************************)
EXTENDS StatusViewer, FiniteSetTheorems, TLAPS

RequestType ==
    [pc: Running \union Pages, user: Users \union {<<>>},
     bucket: Buckets \union {AllBuckets}, toList: SUBSET Buckets,
     found: SUBSET Names, todo: SUBSET Names, swallowed: BOOLEAN,
     main: Statuses \union {NoStatus},
     cat: [Migration_categories -> Statuses \union {NoStatus}],
     success: Nat, failed: Nat, rows: [ErrorCategories -> Nat],
     seen: SUBSET [name: Names, content: Contents],
     touched: SUBSET Names]

\* A new request has the type of a request.
LEMMA RequestTyped ==
    ASSUME NEW user \in Users \union {<<>>},
           NEW bucket \in Buckets \union {AllBuckets},
           NEW pc \in Running \union Pages
    PROVE  Request(user, bucket, pc) \in RequestType
BY DEF Request, RequestType, NoStatus, Migration_categories, ErrorCategories

\* Aggregating a log keeps the tables within their type.
LEMMA AddMessagesTyped ==
    ASSUME NEW rows \in [ErrorCategories -> Nat],
           NEW messages \in [MessageKinds -> Nat]
    PROVE  AddMessages(rows, messages) \in [ErrorCategories -> Nat]
BY DEF AddMessages, ErrorCategories, MessageKinds

\* One step of parsing keeps the type of a request.
LEMMA ParsedTyped ==
    ASSUME NEW r \in RequestType, NEW n \in Names, NEW c \in Contents,
           NEW seen \in SUBSET [name: Names, content: Contents]
    PROVE  [r EXCEPT !.todo = @ \ {n},
                     !.main = InsertWithPriority(@, c.main),
                     !.cat = c.cat,
                     !.success = @ + c.success,
                     !.failed = @ + c.failed,
                     !.rows = AddMessages(@, c.messages),
                     !.seen = @ \union seen] \in RequestType
<1>1. c \in Content
  BY ContentsAssumption
<1>2. AddMessages(r.rows, c.messages) \in [ErrorCategories -> Nat]
  BY <1>1, AddMessagesTyped DEF Content, RequestType
<1>3. InsertWithPriority(r.main, c.main) \in Statuses \union {NoStatus}
  BY <1>1 DEF InsertWithPriority, Content, RequestType
<1>4. c.cat \in [Migration_categories -> Statuses \union {NoStatus}]
  BY <1>1 DEF Content
<1>5. r.success + c.success \in Nat /\ r.failed + c.failed \in Nat
  BY <1>1 DEF Content, RequestType
<1>6. QED
  BY <1>2, <1>3, <1>4, <1>5 DEF RequestType

\* The updates that the search makes to a request keep its type.
LEMMA SearchTyped ==
    ASSUME NEW r \in RequestType,
           NEW pc \in Running \union Pages,
           NEW toList \in SUBSET Buckets,
           NEW names \in SUBSET Names
    PROVE  /\ [r EXCEPT !.pc = pc] \in RequestType
           /\ [r EXCEPT !.toList = toList, !.pc = pc] \in RequestType
           /\ [r EXCEPT !.pc = pc, !.toList = toList, !.swallowed = TRUE]
                 \in RequestType
           /\ [r EXCEPT !.toList = toList, !.found = @ \union names]
                 \in RequestType
           /\ [r EXCEPT !.todo = r.found, !.pc = pc] \in RequestType
           /\ [r EXCEPT !.touched = @ \union names] \in RequestType
           /\ [r EXCEPT !.toList = toList] \in RequestType
<1>1. [r EXCEPT !.pc = pc] \in RequestType
  BY DEF RequestType
<1>2. [r EXCEPT !.toList = toList, !.pc = pc] \in RequestType
  BY DEF RequestType
<1>3. [r EXCEPT !.pc = pc, !.toList = toList, !.swallowed = TRUE] \in RequestType
  BY DEF RequestType
<1>4. [r EXCEPT !.toList = toList, !.found = @ \union names] \in RequestType
  BY DEF RequestType
<1>5. [r EXCEPT !.todo = r.found, !.pc = pc] \in RequestType
  BY DEF RequestType
<1>6. [r EXCEPT !.touched = @ \union names] \in RequestType
  BY DEF RequestType
<1>7. [r EXCEPT !.toList = toList] \in RequestType
  BY DEF RequestType
<1>8. QED
  BY <1>1, <1>2, <1>3, <1>4, <1>5, <1>6, <1>7

\* Every step keeps the type.
LEMMA TypeStep == TypeOK /\ [Next]_vars => TypeOK'
<1> SUFFICES ASSUME TypeOK, [Next]_vars PROVE TypeOK'
  OBVIOUS
<1>t. req \in [Instances -> RequestType]
  BY DEF TypeOK, RequestType
<1>g. ASSUME UNCHANGED <<existing, store, writes, menu>>,
             req' \in [Instances -> RequestType]
      PROVE  TypeOK'
  BY <1>g DEF TypeOK, RequestType
<1>u. ASSUME NEW i \in Instances, NEW r \in RequestType
      PROVE  [req EXCEPT ![i] = r] \in [Instances -> RequestType]
  BY <1>t
<1>p. {"list", "parse", "not_found", "status", "error500"}
         \subseteq Running \union Pages
  BY DEF Running, Pages
<1>1. ASSUME NEW n \in Names, WriteLog(n) PROVE TypeOK'
  <2>0. \A j \in Instances : [req[j] EXCEPT !.touched = @ \union {n}] \in RequestType
    <3>1. ASSUME NEW j \in Instances
          PROVE  [req[j] EXCEPT !.touched = @ \union {n}] \in RequestType
      <4> DEFINE r == req[j]
                 names == {n}
      <4>1. r \in RequestType /\ names \in SUBSET Names
        BY <1>t
      <4> HIDE DEF r, names
      <4>2. [r EXCEPT !.touched = @ \union names] \in RequestType
        BY <4>1, SearchTyped, <1>p
      <4>3. QED  BY <4>2 DEF r, names
    <3>2. QED  BY <3>1
  <2>1. req' \in [Instances -> RequestType]
    BY <1>1, <2>0 DEF WriteLog, Touch
  <2>2. store' \in [Names -> Contents \union {Malformed, Absent}]
    BY <1>1 DEF WriteLog, TypeOK
  <2>3. writes' \in 0..MaxWrites
    BY <1>1, MaxWritesAssumption DEF WriteLog, TypeOK
  <2>4. QED
    BY <1>1, <2>1, <2>2, <2>3 DEF WriteLog, TypeOK, RequestType
<1>2. ASSUME NEW b \in Buckets, CreateBucket(b) \/ DeleteBucket(b)
      PROVE TypeOK'
  BY <1>2, MaxWritesAssumption DEF CreateBucket, DeleteBucket, TypeOK
<1>3. ASSUME NEW i \in Instances, MainPage(i) PROVE TypeOK'
  <2>1. req' \in [Instances -> RequestType]
    <3>1. /\ Request(<<>>, AllBuckets, "main") \in RequestType
          /\ Request(<<>>, AllBuckets, "error500") \in RequestType
      BY RequestTyped DEF Pages
    <3>2. QED  BY <1>3, <1>u, <3>1 DEF MainPage
  <2>2. menu' \in [Instances -> SUBSET Buckets]
    BY <1>3 DEF MainPage, TypeOK
  <2>3. QED
    BY <1>3, <2>1, <2>2 DEF MainPage, TypeOK, RequestType
<1>4. ASSUME NEW i \in Instances, NEW user \in Users \union {<<>>},
             NEW b \in Buckets \union {AllBuckets}, QueryUser(i, user, b)
      PROVE TypeOK'
  <2>1. Request(user, b, "empty_user") \in RequestType
    BY RequestTyped DEF Pages
  <2>2. Request(user, b, "buckets") \in RequestType
    BY RequestTyped DEF Running
  <2>3. Request(user, b, "list") \in RequestType
    BY RequestTyped DEF Running
  <2>4. ASSUME b # AllBuckets
        PROVE [Request(user, b, "list") EXCEPT !.toList = {b}] \in RequestType
    BY <2>3, <2>4 DEF RequestType
  <2>5. req' \in [Instances -> RequestType]
    BY <1>4, <1>t, <2>1, <2>2, <2>4 DEF QueryUser
  <2>6. QED
    BY <1>4, <1>g, <2>5 DEF QueryUser
<1>5. ASSUME NEW i \in Instances, Serve(i) PROVE TypeOK'
  <2>1. CASE GetAllBuckets(i)
    <3>1. [req[i] EXCEPT !.toList = existing, !.pc = "list"] \in RequestType
      BY <1>t, <1>p, SearchTyped DEF TypeOK
    <3>2. req' \in [Instances -> RequestType]
      BY <2>1, <3>1, <1>u DEF GetAllBuckets
    <3>3. QED  BY <2>1, <3>2, <1>g DEF GetAllBuckets
  <2>2. ASSUME NEW b \in Buckets, ListBucket(i, b) PROVE TypeOK'
    <3> DEFINE rest == req[i].toList \ {b}
               names == Listed(req[i].user, b)
    <3>0. rest \in SUBSET Buckets /\ names \in SUBSET Names
      BY <1>t DEF RequestType, Listed
    <3>1. [req[i] EXCEPT !.toList = rest, !.found = @ \union names]
            \in RequestType
      <4> HIDE DEF rest, names
      <4>1. req[i] \in RequestType  BY <1>t
      <4>2. QED  BY <4>1, <3>0, <1>p, SearchTyped
    <3>2. req' \in [Instances -> RequestType]
      BY <2>2, <3>1, <1>u DEF ListBucket
    <3>3. QED  BY <2>2, <3>2, <1>g DEF ListBucket
  <2>3. CASE ListingFails(i)
    <3>1. [req[i] EXCEPT !.pc = "list", !.toList = {},
                 !.swallowed = TRUE] \in RequestType
      BY <1>t, <1>p, SearchTyped
    <3>2. req' \in [Instances -> RequestType]
      BY <2>3, <3>1, <1>u DEF ListingFails
    <3>3. QED  BY <2>3, <3>2, <1>g DEF ListingFails
  <2>4. CASE RequestFails(i)
    <3>1. [req[i] EXCEPT !.pc = "error500"] \in RequestType
      BY <1>t, <1>p, SearchTyped
    <3>2. req' \in [Instances -> RequestType]
      BY <2>4, <3>1, <1>u DEF RequestFails
    <3>3. QED  BY <2>4, <3>2, <1>g DEF RequestFails
  <2>5. CASE SearchDone(i)
    <3>1. [req[i] EXCEPT !.todo = req[i].found,
           !.pc = IF req[i].found = {} THEN "not_found" ELSE "parse"]
          \in RequestType
      BY <1>t, <1>p, SearchTyped
    <3>2. req' \in [Instances -> RequestType]
      BY <2>5, <3>1, <1>u DEF SearchDone
    <3>3. QED  BY <2>5, <3>2, <1>g DEF SearchDone
  <2>6. ASSUME NEW n \in Names, ParseLog(i, n) PROVE TypeOK'
    <3>1. req' \in [Instances -> RequestType]
      <4>1. CASE store[n] \in {Absent, Malformed}
                 \/ InsertRaises(req[i].main, store[n].main)
        <5>1. [req[i] EXCEPT !.pc = "error500"] \in RequestType
          BY <1>t, <1>p, SearchTyped
        <5>2. req' = [req EXCEPT ![i] = [req[i] EXCEPT !.pc = "error500"]]
          BY <4>1, <2>6 DEF ParseLog
        <5>3. QED  BY <5>1, <5>2, <1>t
      <4>2. CASE ~(store[n] \in {Absent, Malformed}
                   \/ InsertRaises(req[i].main, store[n].main))
        <5> DEFINE c == store[n]
                   new == {[name |-> n, content |-> c]}
                   r == [req[i] EXCEPT !.todo = @ \ {n},
                           !.main = InsertWithPriority(@, c.main),
                           !.cat = c.cat,
                           !.success = @ + c.success,
                           !.failed = @ + c.failed,
                           !.rows = AddMessages(@, c.messages),
                           !.seen = @ \union new]
        <5>1. c \in Contents
          BY <4>2 DEF TypeOK
        <5>2. new \in SUBSET [name: Names, content: Contents]
          BY <5>1
        <5>3. r \in RequestType
          <6> HIDE DEF c, new
          <6>1. req[i] \in RequestType  BY <1>t
          <6>2. QED  BY <5>1, <5>2, <6>1, ParsedTyped
        <5>4. req' = [req EXCEPT ![i] = r]
          BY <4>2, <2>6 DEF ParseLog
        <5>5. QED
          <6> HIDE DEF r
          <6>1. QED  BY <5>3, <5>4, <1>t
      <4>3. QED  BY <4>1, <4>2
    <3>2. QED  BY <2>6, <3>1, <1>g DEF ParseLog
  <2>7. CASE Render(i)
    <3>1. [req[i] EXCEPT !.pc = "status"] \in RequestType
      BY <1>t, <1>p, SearchTyped
    <3>2. req' \in [Instances -> RequestType]
      BY <2>7, <3>1, <1>u DEF Render
    <3>3. QED  BY <2>7, <3>2, <1>g DEF Render
  <2>8. QED  BY <1>5, <2>1, <2>2, <2>3, <2>4, <2>5, <2>6, <2>7 DEF Serve
<1>6. CASE UNCHANGED vars
  BY <1>6 DEF vars, TypeOK
<1>7. QED
  BY <1>1, <1>2, <1>3, <1>4, <1>5, <1>6 DEF Next

\* Every state of the viewer is well typed.
THEOREM TypeCorrect == Spec => []TypeOK
<1>1. Init => TypeOK
  <2> SUFFICES ASSUME Init PROVE TypeOK
    OBVIOUS
  <2>1. req \in [Instances -> RequestType]
    BY RequestTyped DEF Init, Pages
  <2>2. QED
    BY <2>1, MaxWritesAssumption DEF Init, TypeOK, RequestType
<1>2. QED
  BY <1>1, TypeStep, PTL DEF Spec
-----------------------------------------------------------------------------
(* The overall status.                                                     *)

\* The overall status of a request summarises the logs parsed so far, and a
\* request that is being parsed, or is answered with a status page, has some.
MainSummarises(r) ==
    \/ r.seen = {} /\ r.main = NoStatus
    \/ /\ \E s \in r.seen : s.content.main = r.main
       /\ \A s \in r.seen : Rank(r.main) <= Rank(s.content.main)
HasLogs(r) ==
    /\ r.pc = "parse" => r.seen # {} \/ r.todo # {}
    /\ r.pc = "status" => r.seen # {}
MainInv == \A i \in Instances : MainSummarises(req[i]) /\ HasLogs(req[i])

\* Inserting a status of another log keeps the summary.
LEMMA MainParsed ==
    ASSUME NEW r \in RequestType, MainSummarises(r), NEW q \in RequestType,
           NEW s, s.content \in Contents,
           q.main = InsertWithPriority(r.main, s.content.main),
           q.seen = r.seen \union {s}
    PROVE  MainSummarises(q) /\ q.seen # {}
<1> DEFINE val == s.content.main
<1>1. val \in Statuses /\ val # NoStatus
  BY ContentsAssumption DEF Content, Statuses, Known, NoStatus
<1>2. \A x : Rank(x) \in 0..3
  BY DEF Rank
<1>3. CASE r.seen = {} /\ r.main = NoStatus
  <2>1. q.main = val /\ q.seen = {s}
    BY <1>3 DEF InsertWithPriority
  <2>2. QED  BY <2>1, <1>2 DEF MainSummarises
<1>4. CASE /\ \E t \in r.seen : t.content.main = r.main
           /\ \A t \in r.seen : Rank(r.main) <= Rank(t.content.main)
  <2>1. r.main # NoStatus
    <3>1. PICK t \in r.seen : t.content.main = r.main
      BY <1>4
    <3>2. t.content \in Content
      BY ContentsAssumption DEF RequestType
    <3>3. QED  BY <3>1, <3>2 DEF Content, Statuses, Known, NoStatus
  <2>2. CASE Rank(r.main) > Rank(val)
    <3>1. q.main = val
      BY <2>2 DEF InsertWithPriority
    <3>2. \A t \in q.seen : Rank(val) <= Rank(t.content.main)
      BY <1>2, <1>4, <2>2
    <3>3. QED  BY <3>1, <3>2 DEF MainSummarises
  <2>3. CASE ~(Rank(r.main) > Rank(val))
    <3>1. q.main = r.main
      BY <2>1, <2>3 DEF InsertWithPriority
    <3>2. Rank(r.main) <= Rank(val)
      BY <1>2, <2>3
    <3>3. \A t \in q.seen : Rank(q.main) <= Rank(t.content.main)
      BY <3>1, <3>2, <1>4
    <3>4. QED  BY <1>4, <3>1, <3>3 DEF MainSummarises
  <2>4. QED  BY <2>2, <2>3
<1>5. QED  BY <1>3, <1>4 DEF MainSummarises

\* What a successful step of parsing does to a request.
LEMMA ParseLogEffect ==
    ASSUME TypeOK, TypeOK', NEW i \in Instances, NEW n \in Names, ParseLog(i, n)
    PROVE  \/ /\ req'[i].pc = "error500"
              /\ req'[i].main = req[i].main
              /\ req'[i].seen = req[i].seen
              /\ req'[i].success = req[i].success /\ req'[i].failed = req[i].failed
              /\ req'[i].rows = req[i].rows
           \/ /\ store[n] \in Contents
              /\ req'[i].pc = "parse"
              /\ req'[i].todo = req[i].todo \ {n}
              /\ req'[i].main = InsertWithPriority(req[i].main, store[n].main)
              /\ req'[i].seen = req[i].seen
                                  \union {[name |-> n, content |-> store[n]]}
              /\ req'[i].user = req[i].user
              /\ req'[i].bucket = req[i].bucket
              /\ req'[i].touched = req[i].touched
              /\ req'[i].swallowed = req[i].swallowed
              /\ req'[i].success = req[i].success + store[n].success
              /\ req'[i].failed = req[i].failed + store[n].failed
              /\ req'[i].rows = AddMessages(req[i].rows, store[n].messages)
<1>t. req \in [Instances -> RequestType]
  BY DEF TypeOK, RequestType
<1>1. CASE store[n] \in {Absent, Malformed}
             \/ InsertRaises(req[i].main, store[n].main)
  <2>1. req' = [req EXCEPT ![i] = [req[i] EXCEPT !.pc = "error500"]]
    BY <1>1 DEF ParseLog
  <2>2. QED  BY <2>1, <1>t DEF RequestType
<1>2. CASE ~(store[n] \in {Absent, Malformed}
              \/ InsertRaises(req[i].main, store[n].main))
  <2>1. store[n] \in Contents
    BY <1>2 DEF TypeOK
  <2>2. req' = [req EXCEPT ![i] =
                  [req[i] EXCEPT
                     !.todo = @ \ {n},
                     !.main = InsertWithPriority(@, store[n].main),
                     !.cat = store[n].cat,
                     !.success = @ + store[n].success,
                     !.failed = @ + store[n].failed,
                     !.rows = AddMessages(@, store[n].messages),
                     !.seen = @ \union {[name |-> n, content |-> store[n]]}]]
    BY <1>2 DEF ParseLog
  <2>3. req[i].pc = "parse"
    BY DEF ParseLog
  <2>4. QED  BY <2>1, <2>2, <2>3, <1>t DEF RequestType
<1>3. QED  BY <1>1, <1>2

\* A change of the store leaves all of a request alone but what it is told
\* to have been touched.
LEMMA TouchEffect ==
    ASSUME TypeOK, NEW names, Touch(names), NEW j \in Instances
    PROVE  /\ req'[j].touched = req[j].touched \union names
           /\ req'[j].pc = req[j].pc /\ req'[j].todo = req[j].todo
           /\ req'[j].main = req[j].main /\ req'[j].seen = req[j].seen
           /\ req'[j].user = req[j].user /\ req'[j].bucket = req[j].bucket
           /\ req'[j].toList = req[j].toList /\ req'[j].found = req[j].found
           /\ req'[j].swallowed = req[j].swallowed
           /\ req'[j].success = req[j].success /\ req'[j].failed = req[j].failed
           /\ req'[j].rows = req[j].rows
<1> DEFINE r == req[j]
           q == req'[j]
<1>1. r \in RequestType
  BY DEF TypeOK, RequestType
<1>2. q = [r EXCEPT !.touched = @ \union names]
  BY DEF Touch
<1> HIDE DEF r, q
<1>3. /\ q.touched = r.touched \union names
      /\ q.pc = r.pc /\ q.todo = r.todo /\ q.main = r.main /\ q.seen = r.seen
      /\ q.user = r.user /\ q.bucket = r.bucket /\ q.toList = r.toList
      /\ q.found = r.found /\ q.swallowed = r.swallowed
      /\ q.success = r.success /\ q.failed = r.failed /\ q.rows = r.rows
  BY <1>1, <1>2 DEF RequestType
<1>4. QED  BY <1>3 DEF r, q

\* Serving one request leaves the others and the store alone.
LEMMA ServeEffect ==
    ASSUME TypeOK, NEW i \in Instances, Serve(i)
    PROVE  /\ UNCHANGED <<existing, store>>
           /\ \A j \in Instances : j # i => req'[j] = req[j]
<1>t. req \in [Instances -> RequestType]
  BY DEF TypeOK, RequestType
<1>f. ASSUME NEW r, req' = [req EXCEPT ![i] = r]
      PROVE  \A j \in Instances : j # i => req'[j] = req[j]
  BY <1>f, <1>t
<1>1. CASE GetAllBuckets(i)
  BY <1>1, <1>f DEF GetAllBuckets
<1>2. CASE \E b \in Buckets : ListBucket(i, b)
  BY <1>2, <1>f DEF ListBucket
<1>3. CASE ListingFails(i)
  BY <1>3, <1>f DEF ListingFails
<1>4. CASE RequestFails(i)
  BY <1>4, <1>f DEF RequestFails
<1>5. CASE SearchDone(i)
  BY <1>5, <1>f DEF SearchDone
<1>6. CASE \E n \in Names : ParseLog(i, n)
  BY <1>6, <1>f DEF ParseLog
<1>7. CASE Render(i)
  BY <1>7, <1>f DEF Render
<1>8. QED  BY <1>1, <1>2, <1>3, <1>4, <1>5, <1>6, <1>7 DEF Serve

\* What the other steps of a request do to it.
Kept(q, r) ==
    /\ q.user = r.user /\ q.bucket = r.bucket /\ q.touched = r.touched
    /\ q.main = r.main /\ q.seen = r.seen
    /\ q.success = r.success /\ q.failed = r.failed /\ q.rows = r.rows

LEMMA SearchEffect ==
    ASSUME TypeOK, NEW i \in Instances
    PROVE  /\ GetAllBuckets(i) =>
                 /\ Kept(req'[i], req[i]) /\ req'[i].pc = "list"
                 /\ req'[i].toList = existing
                 /\ req'[i].swallowed = req[i].swallowed
           /\ \A b \in Buckets : ListBucket(i, b) =>
                 /\ Kept(req'[i], req[i]) /\ req'[i].pc = "list"
                 /\ req'[i].toList = req[i].toList \ {b}
                 /\ req'[i].found = req[i].found \union Listed(req[i].user, b)
                 /\ req'[i].swallowed = req[i].swallowed
           /\ ListingFails(i) =>
                 /\ Kept(req'[i], req[i]) /\ req'[i].pc = "list"
                 /\ req'[i].swallowed
           /\ RequestFails(i) =>
                 Kept(req'[i], req[i]) /\ req'[i].pc = "error500"
           /\ SearchDone(i) =>
                 /\ Kept(req'[i], req[i]) /\ req'[i].todo = req[i].found
                 /\ req'[i].pc = IF req[i].found = {} THEN "not_found" ELSE "parse"
                 /\ req'[i].swallowed = req[i].swallowed
           /\ Render(i) =>
                 /\ Kept(req'[i], req[i]) /\ req'[i].pc = "status"
                 /\ req'[i].swallowed = req[i].swallowed
<1>t. req \in [Instances -> RequestType]
  BY DEF TypeOK, RequestType
<1>r. req[i] \in RequestType
  BY <1>t
<1>f. ASSUME NEW r, req' = [req EXCEPT ![i] = r] PROVE req'[i] = r
  BY <1>f, <1>t
<1>1. ASSUME GetAllBuckets(i)
      PROVE  /\ Kept(req'[i], req[i]) /\ req'[i].pc = "list"
             /\ req'[i].toList = existing
             /\ req'[i].swallowed = req[i].swallowed
  <2>1. req'[i] = [req[i] EXCEPT !.toList = existing, !.pc = "list"]
    BY <1>1, <1>f DEF GetAllBuckets
  <2>2. QED  BY <2>1, <1>r DEF RequestType, Kept
<1>2. ASSUME NEW b \in Buckets, ListBucket(i, b)
      PROVE  /\ Kept(req'[i], req[i]) /\ req'[i].pc = "list"
             /\ req'[i].toList = req[i].toList \ {b}
             /\ req'[i].found = req[i].found \union Listed(req[i].user, b)
             /\ req'[i].swallowed = req[i].swallowed
  <2>1. req'[i] = [req[i] EXCEPT !.toList = @ \ {b},
                                 !.found = @ \union Listed(req[i].user, b)]
    BY <1>2, <1>f DEF ListBucket
  <2>2. req[i].pc = "list"
    BY <1>2 DEF ListBucket
  <2>3. QED  BY <2>1, <2>2, <1>r DEF RequestType, Kept
<1>3. ASSUME ListingFails(i)
      PROVE  Kept(req'[i], req[i]) /\ req'[i].pc = "list" /\ req'[i].swallowed
  <2>1. req'[i] = [req[i] EXCEPT !.pc = "list", !.toList = {},
                                 !.swallowed = TRUE]
    BY <1>3, <1>f DEF ListingFails
  <2>2. QED  BY <2>1, <1>r DEF RequestType, Kept
<1>4. ASSUME RequestFails(i)
      PROVE  Kept(req'[i], req[i]) /\ req'[i].pc = "error500"
  <2>1. req'[i] = [req[i] EXCEPT !.pc = "error500"]
    BY <1>4, <1>f DEF RequestFails
  <2>2. QED  BY <2>1, <1>r DEF RequestType, Kept
<1>5. ASSUME SearchDone(i)
      PROVE  /\ Kept(req'[i], req[i]) /\ req'[i].todo = req[i].found
             /\ req'[i].pc = IF req[i].found = {} THEN "not_found" ELSE "parse"
             /\ req'[i].swallowed = req[i].swallowed
  <2>1. req'[i] = [req[i] EXCEPT !.todo = req[i].found,
                     !.pc = IF req[i].found = {} THEN "not_found" ELSE "parse"]
    BY <1>5, <1>f DEF SearchDone
  <2>2. QED  BY <2>1, <1>r DEF RequestType, Kept
<1>6. ASSUME Render(i)
      PROVE  /\ Kept(req'[i], req[i]) /\ req'[i].pc = "status"
             /\ req'[i].swallowed = req[i].swallowed
  <2>1. req'[i] = [req[i] EXCEPT !.pc = "status"]
    BY <1>6, <1>f DEF Render
  <2>2. QED  BY <2>1, <1>r DEF RequestType, Kept
<1>7. QED  BY <1>1, <1>2, <1>3, <1>4, <1>5, <1>6

\* Every step keeps the summary.
LEMMA MainStep == TypeOK /\ TypeOK' /\ MainInv /\ [Next]_vars => MainInv'
<1> SUFFICES ASSUME TypeOK, TypeOK', MainInv, [Next]_vars PROVE MainInv'
  OBVIOUS
<1>t. req \in [Instances -> RequestType] /\ req' \in [Instances -> RequestType]
  BY DEF TypeOK, RequestType
\* a step that leaves what was parsed alone
<1>k. ASSUME NEW i \in Instances,
             req'[i].main = req[i].main, req'[i].seen = req[i].seen,
             \/ req'[i].pc = req[i].pc /\ req'[i].todo = req[i].todo
             \/ req'[i].pc \notin {"parse", "status"}
             \/ req'[i].pc = "parse" /\ req'[i].todo # {}
             \/ req'[i].pc = "status" /\ req[i].seen # {}
      PROVE  MainSummarises(req'[i]) /\ HasLogs(req'[i])
  BY <1>k DEF MainInv, MainSummarises, HasLogs
\* a new request
<1>n. ASSUME NEW user, NEW b, NEW pc, pc \notin {"parse", "status"}
      PROVE  LET q == Request(user, b, pc)
             IN  MainSummarises(q) /\ HasLogs(q)
  BY <1>n DEF Request, MainSummarises, HasLogs
<1>1. ASSUME NEW n \in Names, WriteLog(n) PROVE MainInv'
  <2>1. ASSUME NEW j \in Instances
        PROVE  /\ req'[j].main = req[j].main /\ req'[j].seen = req[j].seen
               /\ req'[j].pc = req[j].pc /\ req'[j].todo = req[j].todo
    BY <1>1, TouchEffect DEF WriteLog
  <2>2. QED  BY <2>1, <1>k DEF MainInv
<1>2. ASSUME NEW b \in Buckets, CreateBucket(b) \/ DeleteBucket(b)
      PROVE MainInv'
  BY <1>2 DEF CreateBucket, DeleteBucket, MainInv
<1>f. ASSUME NEW i \in Instances, NEW r, req' = [req EXCEPT ![i] = r],
             MainSummarises(r) /\ HasLogs(r)
      PROVE  MainInv'
  BY <1>f, <1>t DEF MainInv
<1>3. ASSUME NEW i \in Instances, MainPage(i) PROVE MainInv'
  BY <1>3, <1>n, <1>f DEF MainPage
<1>4. ASSUME NEW i \in Instances, NEW user \in Users \union {<<>>},
             NEW b \in Buckets \union {AllBuckets}, QueryUser(i, user, b)
      PROVE MainInv'
  <2> DEFINE q == [Request(user, b, "list") EXCEPT !.toList = {b}]
  <2>1. MainSummarises(q) /\ HasLogs(q)
    BY DEF Request, MainSummarises, HasLogs
  <2>2. \/ req' = [req EXCEPT ![i] = Request(user, b, "empty_user")]
        \/ req' = [req EXCEPT ![i] = Request(user, b, "buckets")]
        \/ req' = [req EXCEPT ![i] = q]
    BY <1>4 DEF QueryUser
  <2> HIDE DEF q
  <2>3. QED  BY <2>1, <2>2, <1>n, <1>f
<1>5. ASSUME NEW i \in Instances, Serve(i) PROVE MainInv'
  <2>o. ASSUME NEW j \in Instances, j # i PROVE req'[j] = req[j]
    BY <1>5, <2>o, ServeEffect
  <2>q. ASSUME MainSummarises(req'[i]) /\ HasLogs(req'[i]) PROVE MainInv'
    BY <2>q, <2>o DEF MainInv
  <2>1. CASE GetAllBuckets(i) \/ (\E b \in Buckets : ListBucket(i, b))
              \/ ListingFails(i) \/ RequestFails(i)
    <3>1. /\ req'[i].main = req[i].main /\ req'[i].seen = req[i].seen
          /\ req'[i].pc \notin {"parse", "status"}
      BY <2>1, SearchEffect DEF Kept
    <3>2. QED  BY <3>1, <1>k, <2>q
  <2>2. CASE SearchDone(i)
    <3>1. /\ req'[i].main = req[i].main /\ req'[i].seen = req[i].seen
          /\ req'[i].todo = req[i].found
          /\ req'[i].pc = IF req[i].found = {} THEN "not_found" ELSE "parse"
      BY <2>2, SearchEffect DEF Kept
    <3>2. QED  BY <3>1, <1>k, <2>q
  <2>3. ASSUME NEW n \in Names, ParseLog(i, n) PROVE MainInv'
    <3>1. CASE /\ req'[i].pc = "error500" /\ req'[i].main = req[i].main
               /\ req'[i].seen = req[i].seen
      BY <3>1, <1>k, <2>q
    <3>2. CASE /\ store[n] \in Contents /\ req'[i].pc = "parse"
               /\ req'[i].main = InsertWithPriority(req[i].main, store[n].main)
               /\ req'[i].seen = req[i].seen
                                   \union {[name |-> n, content |-> store[n]]}
      <4> DEFINE s == [name |-> n, content |-> store[n]]
      <4>1. s.content = store[n]
        OBVIOUS
      <4>2. req[i] \in RequestType /\ req'[i] \in RequestType
        BY <1>t
      <4>3. MainSummarises(req[i])
        BY DEF MainInv
      <4>4. MainSummarises(req'[i]) /\ req'[i].seen # {}
        <5> HIDE DEF s
        <5>1. QED  BY <4>1, <4>2, <4>3, <3>2, MainParsed DEF s
      <4>5. QED  BY <4>4, <3>2, <2>q DEF HasLogs
    <3>3. QED  BY <2>3, <3>1, <3>2, ParseLogEffect
  <2>4. CASE Render(i)
    <3>1. /\ req'[i].main = req[i].main /\ req'[i].seen = req[i].seen
          /\ req'[i].pc = "status"
      BY <2>4, SearchEffect DEF Kept
    <3>2. req[i].seen # {}
      BY <2>4 DEF Render, MainInv, HasLogs
    <3>3. QED  BY <3>1, <3>2, <1>k, <2>q
  <2>5. QED  BY <1>5, <2>1, <2>2, <2>3, <2>4 DEF Serve
<1>6. CASE UNCHANGED vars
  BY <1>6 DEF vars, MainInv
<1>7. QED
  BY <1>1, <1>2, <1>3, <1>4, <1>5, <1>6 DEF Next

\* The overall status of a page is attained by one of its logs and none of
\* them has a higher priority, whatever the order of parsing.
THEOREM MainStatusCorrect == Spec => []MainStatusIsWorst
<1>1. Init => MainInv
  BY DEF Init, MainInv, Request, MainSummarises, HasLogs
<1>2. MainInv => MainStatusIsWorst
  BY DEF MainInv, MainStatusIsWorst, MainSummarises, HasLogs
<1>3. QED
  BY <1>1, <1>2, MainStep, TypeCorrect, PTL DEF Spec
-----------------------------------------------------------------------------
(* Completeness of a page.                                                 *)

\* Where a log that nobody touches is, while the request about it goes on.
Accounted(r, n) ==
    /\ r.pc = "list" => n.bucket \in r.toList \/ n \in r.found
    /\ r.pc = "parse" =>
          n \in r.todo \/ [name |-> n, content |-> store[n]] \in r.seen
    /\ r.pc \in {"status", "not_found"} =>
          [name |-> n, content |-> store[n]] \in r.seen
StoreInBuckets == \A n \in Names : store[n] # Absent => n.bucket \in existing
CompleteInv ==
    /\ StoreInBuckets
    /\ \A i \in Instances : ~req[i].swallowed =>
          \A n \in Names : Stable(req[i], n) => Accounted(req[i], n)

\* No step puts a log where there is no bucket.
LEMMA StoreStep == TypeOK /\ StoreInBuckets /\ [Next]_vars => StoreInBuckets'
<1> SUFFICES ASSUME TypeOK, StoreInBuckets, [Next]_vars PROVE StoreInBuckets'
  OBVIOUS
<1>1. ASSUME NEW n \in Names, WriteLog(n) PROVE StoreInBuckets'
  BY <1>1 DEF WriteLog, StoreInBuckets, TypeOK
<1>2. ASSUME NEW b \in Buckets, CreateBucket(b) PROVE StoreInBuckets'
  BY <1>2 DEF CreateBucket, StoreInBuckets
<1>3. ASSUME NEW b \in Buckets, DeleteBucket(b) PROVE StoreInBuckets'
  BY <1>3 DEF DeleteBucket, StoreInBuckets
<1>4. ASSUME UNCHANGED <<existing, store>> PROVE StoreInBuckets'
  BY <1>4 DEF StoreInBuckets
<1>5. QED
  BY <1>1, <1>2, <1>3, <1>4, ServeEffect
     DEF Next, MainPage, QueryUser, vars

\* Every step keeps the untouched logs accounted for.
LEMMA CompleteStep ==
    TypeOK /\ TypeOK' /\ CompleteInv /\ [Next]_vars => CompleteInv'
<1> SUFFICES ASSUME TypeOK, TypeOK', CompleteInv, [Next]_vars
             PROVE  CompleteInv'
  OBVIOUS
<1>s. StoreInBuckets'
  BY StoreStep DEF CompleteInv
<1>t. req \in [Instances -> RequestType]
  BY DEF TypeOK, RequestType
\* what is to be shown of one request
<1> DEFINE Goal(j) == ~req'[j].swallowed =>
               \A n \in Names : Stable(req[j], n)' => Accounted(req[j], n)'
<1>a. ASSUME \A j \in Instances : Goal(j) PROVE CompleteInv'
  BY <1>a, <1>s DEF CompleteInv
<1>b. ASSUME NEW j \in Instances, NEW n \in Names, ~req[j].swallowed,
             Stable(req[j], n)
      PROVE  Accounted(req[j], n)
  BY <1>b DEF CompleteInv
<1>k. ASSUME NEW j \in Instances, req'[j] = req[j], UNCHANGED store
      PROVE  Goal(j)
  BY <1>k, <1>b DEF Stable, InScope, Accounted
<1>1. ASSUME NEW m \in Names, WriteLog(m) PROVE CompleteInv'
  <2> SUFFICES ASSUME NEW j \in Instances PROVE Goal(j)
    BY <1>a
  <2> SUFFICES ASSUME ~req'[j].swallowed, NEW n \in Names, Stable(req[j], n)'
               PROVE  Accounted(req[j], n)'
    OBVIOUS
  <2>1. Touch({m})
    BY <1>1 DEF WriteLog
  <2>2. n # m /\ store'[n] = store[n]
    BY <1>1, <2>1, TouchEffect DEF Stable, WriteLog, TypeOK
  <2>3. ~req[j].swallowed /\ Stable(req[j], n)
    BY <2>1, <2>2, TouchEffect DEF Stable, InScope
  <2>4. Accounted(req[j], n)
    BY <2>3, <1>b
  <2>5. QED  BY <2>1, <2>2, <2>4, TouchEffect DEF Accounted
<1>2. ASSUME NEW b \in Buckets, CreateBucket(b) \/ DeleteBucket(b)
      PROVE CompleteInv'
  BY <1>2, <1>a, <1>k DEF CreateBucket, DeleteBucket
<1>o. ASSUME NEW i \in Instances, NEW r, req' = [req EXCEPT ![i] = r],
             UNCHANGED store, Goal(i)
      PROVE  CompleteInv'
  <2>1. ASSUME NEW j \in Instances, j # i PROVE req'[j] = req[j]
    BY <1>o, <2>1, <1>t
  <2>2. QED  BY <2>1, <1>o, <1>k, <1>a
<1>3. ASSUME NEW i \in Instances, MainPage(i) PROVE CompleteInv'
  <2>0. /\ Request(<<>>, AllBuckets, "main").pc = "main"
        /\ Request(<<>>, AllBuckets, "error500").pc = "error500"
    BY DEF Request
  <2>1. PICK r : /\ req' = [req EXCEPT ![i] = r]
                 /\ r.pc \in {"main", "error500"}
    BY <1>3, <2>0 DEF MainPage
  <2>2. req'[i] = r
    BY <2>1, <1>t
  <2>3. Goal(i)
    BY <2>1, <2>2 DEF Accounted
  <2>4. QED  BY <2>1, <2>3, <1>o, <1>3 DEF MainPage
<1>4. ASSUME NEW i \in Instances, NEW user \in Users \union {<<>>},
             NEW b \in Buckets \union {AllBuckets}, QueryUser(i, user, b)
      PROVE CompleteInv'
  <2> DEFINE q == [Request(user, b, "list") EXCEPT !.toList = {b}]
  <2>1. CASE user = <<>> \/ b = AllBuckets
    <3>0. /\ Request(user, b, "empty_user").pc = "empty_user"
          /\ Request(user, b, "buckets").pc = "buckets"
      BY DEF Request
    <3>1. PICK r : /\ req' = [req EXCEPT ![i] = r]
                   /\ r.pc \in {"empty_user", "buckets"}
      BY <1>4, <2>1, <3>0 DEF QueryUser
    <3>2. req'[i] = r
      BY <3>1, <1>t
    <3>3. Goal(i)
      BY <3>1, <3>2 DEF Accounted
    <3>4. QED  BY <3>1, <3>3, <1>o, <1>4 DEF QueryUser
  <2>2. CASE ~(user = <<>> \/ b = AllBuckets)
    <3>1. req' = [req EXCEPT ![i] = q]
      BY <1>4, <2>2 DEF QueryUser
    <3>2. req'[i] = q
      BY <3>1, <1>t
    <3>3. q.pc = "list" /\ q.bucket = b /\ q.toList = {b}
      BY DEF Request
    <3>4. Goal(i)
      <4> HIDE DEF q
      <4>1. QED  BY <2>2, <3>2, <3>3 DEF Stable, InScope, Accounted
    <3>5. QED
      <4> HIDE DEF q
      <4>1. QED  BY <3>1, <3>4, <1>o, <1>4 DEF QueryUser
  <2>3. QED  BY <2>1, <2>2
<1>5. ASSUME NEW i \in Instances, Serve(i) PROVE CompleteInv'
  <2>1. UNCHANGED <<existing, store>>
    BY <1>5, ServeEffect
  <2>2. ASSUME Goal(i) PROVE CompleteInv'
    <3>1. ASSUME NEW j \in Instances PROVE Goal(j)
      <4>1. CASE j = i
        BY <4>1, <2>2
      <4>2. CASE j # i
        BY <4>2, <1>5, <2>1, <1>k, ServeEffect
      <4>3. QED  BY <4>1, <4>2
    <3>2. QED  BY <3>1, <1>a
  <2> SUFFICES ASSUME ~req'[i].swallowed, NEW n \in Names,
                      Stable(req[i], n)'
               PROVE  Accounted(req[i], n)'
    BY <2>2
  \* a step that keeps what the request is about
  <2>3. ASSUME Kept(req'[i], req[i]) PROVE Stable(req[i], n)
    BY <2>1, <2>3 DEF Kept, Stable, InScope
  <2>4. CASE GetAllBuckets(i)
    <3>1. /\ Kept(req'[i], req[i]) /\ req'[i].pc = "list"
          /\ req'[i].toList = existing
      BY <2>4, SearchEffect
    <3>2. n.bucket \in existing
      BY <3>1, <2>3 DEF Stable, CompleteInv, StoreInBuckets
    <3>3. QED  BY <3>1, <3>2 DEF Accounted
  <2>5. ASSUME NEW b \in Buckets, ListBucket(i, b)
        PROVE  Accounted(req[i], n)'
    <3>1. /\ Kept(req'[i], req[i]) /\ req'[i].pc = "list"
          /\ req'[i].toList = req[i].toList \ {b}
          /\ req'[i].found = req[i].found \union Listed(req[i].user, b)
          /\ req'[i].swallowed = req[i].swallowed
      BY <2>5, SearchEffect
    <3>2. Stable(req[i], n) /\ Accounted(req[i], n) /\ req[i].pc = "list"
      BY <3>1, <2>3, <1>b, <2>5 DEF ListBucket
    <3>3. n.bucket \in req[i].toList \/ n \in req[i].found
      BY <3>2 DEF Accounted
    <3>4. n.bucket = b => n \in Listed(req[i].user, b)
      BY <3>2 DEF Listed, Stable, InScope
    <3>5. QED  BY <3>1, <3>3, <3>4 DEF Accounted
  <2>6. CASE ListingFails(i)
    BY <2>6, SearchEffect
  <2>7. CASE RequestFails(i)
    <3>1. req'[i].pc = "error500"
      BY <2>7, SearchEffect
    <3>2. QED  BY <3>1 DEF Accounted
  <2>8. CASE SearchDone(i)
    <3>1. /\ Kept(req'[i], req[i]) /\ req'[i].todo = req[i].found
          /\ req'[i].pc = IF req[i].found = {} THEN "not_found" ELSE "parse"
          /\ req'[i].swallowed = req[i].swallowed
      BY <2>8, SearchEffect
    <3>2. /\ Stable(req[i], n) /\ Accounted(req[i], n)
          /\ req[i].pc = "list" /\ req[i].toList = {}
      BY <3>1, <2>3, <1>b, <2>8 DEF SearchDone
    <3>3. n \in req[i].found
      BY <3>2 DEF Accounted
    <3>4. req'[i].pc = "parse" /\ n \in req'[i].todo
      BY <3>1, <3>3
    <3>5. QED  BY <3>4 DEF Accounted
  <2>9. ASSUME NEW m \in Names, ParseLog(i, m)
        PROVE  Accounted(req[i], n)'
    <3>1. CASE req'[i].pc = "error500"
      BY <3>1 DEF Accounted
    <3>2. CASE req'[i].pc # "error500"
      <4>1. /\ req'[i].pc = "parse" /\ req'[i].todo = req[i].todo \ {m}
            /\ req'[i].seen = req[i].seen
                                \union {[name |-> m, content |-> store[m]]}
            /\ req'[i].user = req[i].user /\ req'[i].bucket = req[i].bucket
            /\ req'[i].touched = req[i].touched
            /\ req'[i].swallowed = req[i].swallowed
        BY <3>2, <2>9, ParseLogEffect
      <4>2. Stable(req[i], n)
        BY <4>1, <2>1 DEF Stable, InScope
      <4>3. n \in req[i].todo \/ [name |-> n, content |-> store[n]] \in req[i].seen
        BY <4>1, <4>2, <1>b, <2>9 DEF ParseLog, Accounted
      <4>4. n \in req'[i].todo
            \/ [name |-> n, content |-> store[n]] \in req'[i].seen
        BY <4>1, <4>3
      <4>5. QED  BY <4>1, <4>4, <2>1 DEF Accounted
    <3>3. QED  BY <3>1, <3>2
  <2>10. CASE Render(i)
    <3>1. /\ Kept(req'[i], req[i]) /\ req'[i].pc = "status"
          /\ req'[i].swallowed = req[i].swallowed
      BY <2>10, SearchEffect
    <3>2. /\ Stable(req[i], n) /\ Accounted(req[i], n)
          /\ req[i].pc = "parse" /\ req[i].todo = {}
      BY <3>1, <2>3, <1>b, <2>10 DEF Render
    <3>3. [name |-> n, content |-> store[n]] \in req[i].seen
      BY <3>2 DEF Accounted
    <3>4. QED  BY <3>1, <3>3, <2>1 DEF Accounted, Kept
  <2>11. QED
    BY <1>5, <2>4, <2>5, <2>6, <2>7, <2>8, <2>9, <2>10 DEF Serve
<1>6. CASE UNCHANGED vars
  BY <1>6, <1>a, <1>k DEF vars
<1>7. QED
  BY <1>1, <1>2, <1>3, <1>4, <1>5, <1>6 DEF Next

\* Unless the search swallowed an error, a page was made from every log in
\* scope that was there, unchanged, while the request was served.
THEOREM PageComplete == Spec => []CompleteUnlessSwallowed
<1>1. Init => CompleteInv
  BY DEF Init, CompleteInv, StoreInBuckets, Request, Accounted
<1>2. TypeOK /\ CompleteInv => CompleteUnlessSwallowed
  BY DEF CompleteInv, CompleteUnlessSwallowed, Accounted
<1>3. QED
  BY <1>1, <1>2, CompleteStep, TypeCorrect, PTL DEF Spec

-----------------------------------------------------------------------------
(* The percentage.                                                         *)

\* No log parsed so far has more messages than the totals.
Counts(r) ==
    \A s \in r.seen : s.content.success <= r.success /\ s.content.failed <= r.failed
CountInv == \A i \in Instances : Counts(req[i])

\* Adding the messages of another log keeps the totals above each.
LEMMA CountParsed ==
    ASSUME NEW r \in RequestType, Counts(r), NEW q \in RequestType, NEW s,
           s.content \in Contents,
           q.success = r.success + s.content.success,
           q.failed = r.failed + s.content.failed, q.seen = r.seen \union {s}
    PROVE  Counts(q)
<1>1. /\ s.content.success \in Nat /\ s.content.failed \in Nat
      /\ r.success \in Nat /\ r.failed \in Nat
  BY ContentsAssumption DEF Content, RequestType
<1>2. ASSUME NEW t \in r.seen PROVE t.content.success \in Nat /\ t.content.failed \in Nat
  BY <1>2, ContentsAssumption DEF Content, RequestType
<1>3. QED  BY <1>1, <1>2 DEF Counts

LEMMA CountStep == TypeOK /\ TypeOK' /\ CountInv /\ [Next]_vars => CountInv'
<1> SUFFICES ASSUME TypeOK, TypeOK', CountInv, [Next]_vars PROVE CountInv'
  OBVIOUS
<1>t. req \in [Instances -> RequestType] /\ req' \in [Instances -> RequestType]
  BY DEF TypeOK, RequestType
<1>n. \A user, b, pc : Counts(Request(user, b, pc))
  BY DEF Request, Counts
<1>k. ASSUME NEW j \in Instances, req'[j].seen = req[j].seen,
             req'[j].success = req[j].success, req'[j].failed = req[j].failed
      PROVE  Counts(req'[j])
  BY <1>k DEF CountInv, Counts
<1>1. ASSUME NEW n \in Names, WriteLog(n) PROVE CountInv'
  <2>1. ASSUME NEW j \in Instances
        PROVE  /\ req'[j].seen = req[j].seen
               /\ req'[j].success = req[j].success /\ req'[j].failed = req[j].failed
    BY <1>1, TouchEffect DEF WriteLog
  <2>2. QED  BY <2>1, <1>k DEF CountInv
<1>2. ASSUME NEW b \in Buckets, CreateBucket(b) \/ DeleteBucket(b) PROVE CountInv'
  BY <1>2 DEF CreateBucket, DeleteBucket, CountInv
<1>f. ASSUME NEW i \in Instances, NEW r, req' = [req EXCEPT ![i] = r], Counts(r)
      PROVE  CountInv'
  BY <1>f, <1>t DEF CountInv
<1>3. ASSUME NEW i \in Instances, MainPage(i) PROVE CountInv'
  BY <1>3, <1>n, <1>f DEF MainPage
<1>4. ASSUME NEW i \in Instances, NEW user \in Users \union {<<>>},
             NEW b \in Buckets \union {AllBuckets}, QueryUser(i, user, b)
      PROVE CountInv'
  <2> DEFINE q == [Request(user, b, "list") EXCEPT !.toList = {b}]
  <2>1. Counts(q)
    BY DEF Request, Counts
  <2>2. \/ req' = [req EXCEPT ![i] = Request(user, b, "empty_user")]
        \/ req' = [req EXCEPT ![i] = Request(user, b, "buckets")]
        \/ req' = [req EXCEPT ![i] = q]
    BY <1>4 DEF QueryUser
  <2> HIDE DEF q
  <2>3. QED  BY <2>1, <2>2, <1>n, <1>f
<1>5. ASSUME NEW i \in Instances, Serve(i) PROVE CountInv'
  <2>1. ASSUME NEW n \in Names, ParseLog(i, n) PROVE Counts(req'[i])
    <3> DEFINE s == [name |-> n, content |-> store[n]]
    <3>1. CASE req'[i].seen = req[i].seen /\ req'[i].success = req[i].success
               /\ req'[i].failed = req[i].failed
      BY <3>1, <1>k
    <3>2. CASE /\ store[n] \in Contents
               /\ req'[i].seen = req[i].seen \union {s}
               /\ req'[i].success = req[i].success + store[n].success
               /\ req'[i].failed = req[i].failed + store[n].failed
      <4>1. s.content = store[n] /\ Counts(req[i])
        BY DEF CountInv
      <4>2. req[i] \in RequestType /\ req'[i] \in RequestType
        BY <1>t
      <4> HIDE DEF s
      <4>3. QED  BY <3>2, <4>1, <4>2, CountParsed
    <3>3. QED  BY <2>1, <3>1, <3>2, ParseLogEffect
  <2>2. ASSUME Kept(req'[i], req[i]) PROVE Counts(req'[i])
    BY <2>2, <1>k DEF Kept
  <2>3. Counts(req'[i])
    BY <1>5, <2>1, <2>2, SearchEffect DEF Serve
  <2>4. ASSUME NEW j \in Instances PROVE Counts(req'[j])
    <3>1. j # i => req'[j] = req[j]
      BY <1>5, ServeEffect
    <3>2. QED  BY <2>3, <3>1 DEF CountInv
  <2>5. QED  BY <2>4 DEF CountInv
<1>6. CASE UNCHANGED vars
  BY <1>6 DEF vars, CountInv
<1>7. QED  BY <1>1, <1>2, <1>3, <1>4, <1>5, <1>6 DEF Next

\* A share rounded down, in hundredths.
LEMMA ShareRoundedDown ==
    ASSUME NEW a \in Nat, NEW n \in Nat, n > 0, a <= n
    PROVE  (a * 100) \div n \in 0..100 /\ ((a * 100) \div n = 100 => a = n)
<1> DEFINE q == (a * 100) \div n
<1>1. q \in Nat /\ q * n <= a * 100 /\ a * 100 < (q + 1) * n
  OBVIOUS
<1> HIDE DEF q
<1>2. ASSUME NEW k \in Nat, q >= k PROVE k * n <= a * 100
  <2>1. k * n <= q * n
    BY <1>1, <1>2
  <2>2. QED  BY <1>1, <2>1
<1>3. ~(q >= 101)
  <2>1. ~(101 * n <= a * 100)
    OBVIOUS
  <2>2. QED  BY <1>2, <2>1
<1>4. q = 100 => a = n
  <2>1. q = 100 => 100 * n <= a * 100
    BY <1>2
  <2>2. QED  BY <2>1
<1>5. QED  BY <1>1, <1>3, <1>4 DEF q

\* A page shows 100 per cent only if no message failed, although the share is
\* rounded, and the dash only if no parsed log had a message.
THEOREM PercentageHonestAlways == Spec => []PercentageHonest
<1>1. Init => CountInv
  BY DEF Init, CountInv, Counts, Request
<1>2. TypeOK /\ CountInv => PercentageHonest
  <2> SUFFICES ASSUME TypeOK, CountInv, NEW i \in Instances
               PROVE  /\ Percentage(req[i]) \in -1..100
                      /\ Percentage(req[i]) = 100 => req[i].failed = 0 /\ req[i].success > 0
                      /\ Percentage(req[i]) = -1 => \A s \in req[i].seen :
                            s.content.success = 0 /\ s.content.failed = 0
    BY DEF PercentageHonest
  <2> DEFINE r == req[i]
             n == r.success + r.failed
  <2>1. r \in RequestType /\ r.success \in Nat /\ r.failed \in Nat /\ n \in Nat /\ Counts(r)
    BY DEF TypeOK, RequestType, CountInv
  <2>2. CASE n = 0
    <3>1. r.success = 0 /\ r.failed = 0 /\ Percentage(r) = -1
      BY <2>1, <2>2 DEF Percentage
    <3>2. ASSUME NEW s \in r.seen PROVE s.content.success = 0 /\ s.content.failed = 0
      <4>1. s.content.success \in Nat /\ s.content.failed \in Nat
        BY <2>1, ContentsAssumption DEF RequestType, Content
      <4>2. QED  BY <2>1, <3>1, <4>1 DEF Counts
    <3>3. QED  BY <3>1, <3>2
  <2>3. CASE n # 0
    <3>1. Percentage(r) = (r.success * 100) \div n
      BY <2>3 DEF Percentage
    <3>2. Percentage(r) \in 0..100 /\ (Percentage(r) = 100 => r.success = n)
      <4>1. n > 0 /\ r.success <= n
        BY <2>1, <2>3
      <4> DEFINE a == r.success
      <4>2. a \in Nat /\ n \in Nat /\ n > 0 /\ a <= n
        BY <2>1, <4>1
      <4> HIDE DEF a, n
      <4>3. (a * 100) \div n \in 0..100 /\ ((a * 100) \div n = 100 => a = n)
        BY <4>2, ShareRoundedDown
      <4>4. Percentage(r) = (a * 100) \div n
        BY <3>1 DEF a
      <4>5. Percentage(r) \in 0..100 /\ (Percentage(r) = 100 => a = n)
        <5> HIDE DEF r
        <5>1. QED  BY <4>3, <4>4
      <4>6. QED  BY <4>5 DEF a
    <3>3. QED  BY <2>1, <2>3, <3>2
  <2>4. QED  BY <2>2, <2>3
<1>3. QED  BY <1>1, <1>2, CountStep, TypeCorrect, PTL DEF Spec

-----------------------------------------------------------------------------
(* Sums.  SumFunction is defined by recursion over the subsets of a set;   *)
(* its value is the number of points when each element of the domain is    *)
(* drawn as as many points as the function says, and numbers of points add *)
(* up by what the library proves about finite sets.                        *)

\* A finite function of naturals drawn as one point for each unit.
Units(w, S) == UNION {{x} \X (1..w[x]) : x \in S}

\* The units of an element.
LEMMA UnitsOne ==
    ASSUME NEW w, NEW x, w[x] \in Nat
    PROVE  IsFiniteSet({x} \X (1..w[x])) /\ Cardinality({x} \X (1..w[x])) = w[x]
<1>1. IsFiniteSet({x}) /\ Cardinality({x}) = 1
  BY FS_Singleton
<1>2. IsFiniteSet(1..w[x]) /\ Cardinality(1..w[x]) = w[x]
  <2>1. 1 \in Int /\ w[x] \in Int
    OBVIOUS
  <2>2. /\ IsFiniteSet(1..w[x])
        /\ Cardinality(1..w[x]) = IF 1 > w[x] THEN 0 ELSE w[x] - 1 + 1
    BY <2>1, FS_Interval
  <2>3. QED  BY <2>2
<1> DEFINE n == w[x]
<1> HIDE DEF n
<1>3. /\ IsFiniteSet({x} \X (1..n))
      /\ Cardinality({x} \X (1..n)) = Cardinality({x}) * Cardinality(1..n)
  <2>1. IsFiniteSet({x}) /\ IsFiniteSet(1..n)
    BY <1>1, <1>2 DEF n
  <2> DEFINE S == {x}
             T == 1..n
  <2> HIDE DEF S, T
  <2>2. IsFiniteSet(S \X T) /\ Cardinality(S \X T) = Cardinality(S) * Cardinality(T)
    BY <2>1, FS_Product DEF S, T
  <2>3. QED  BY <2>2 DEF S, T
<1>4. QED  BY <1>1, <1>2, <1>3 DEF n

\* Finitely many elements have finitely many units.
LEMMA UnitsFinite ==
    ASSUME NEW S, IsFiniteSet(S), NEW w, \A x \in S : w[x] \in Nat
    PROVE  IsFiniteSet(Units(w, S))
<1> DEFINE B == {{x} \X (1..w[x]) : x \in S}
           f == [x \in S |-> {x} \X (1..w[x])]
<1>1. f \in Surjection(S, B)
  BY DEF Surjection
<1>2. IsFiniteSet(B)
  <2> HIDE DEF f, B
  <2>1. QED  BY <1>1, FS_Surjection
<1>3. \A b \in B : IsFiniteSet(b)
  BY UnitsOne
<1>4. IsFiniteSet(UNION B)
  <2> HIDE DEF B
  <2>1. QED  BY <1>2, <1>3, FS_UNION
<1>5. QED  BY <1>4 DEF Units

\* Taking an element away takes its units away.
LEMMA UnitsLess ==
    ASSUME NEW S, IsFiniteSet(S), NEW w, \A x \in S : w[x] \in Nat, NEW x \in S
    PROVE  Cardinality(Units(w, S)) = w[x] + Cardinality(Units(w, S \ {x}))
<1> DEFINE U == Units(w, S \ {x})
           V == {x} \X (1..w[x])
<1>1. Units(w, S) = U \union V /\ U \intersect V = {}
  BY DEF Units
<1>2. IsFiniteSet(S \ {x})
  BY FS_RemoveElement
<1>3. IsFiniteSet(U)
  BY <1>2, UnitsFinite
<1>4. IsFiniteSet(V) /\ Cardinality(V) = w[x]
  BY UnitsOne
<1>5. Cardinality(U) \in Nat
  BY <1>3, FS_CardinalityType
<1> HIDE DEF U, V
<1>6. Cardinality(U \union V) = Cardinality(U) + Cardinality(V) - Cardinality({})
  BY <1>1, <1>3, <1>4, FS_Union
<1>7. QED  BY <1>1, <1>4, <1>5, <1>6, FS_EmptySet DEF U

\* The equation by which a sum is computed.
SumsUp(w, D, h) ==
    h = [s \in SUBSET D |-> IF s = {} THEN 0
                            ELSE w[CHOOSE x \in s : TRUE] + h[s \ {CHOOSE x \in s : TRUE}]]

\* It has at most one solution, the number of units.
LEMMA SumUnique ==
    ASSUME NEW D, IsFiniteSet(D), NEW w \in [D -> Nat], NEW h, SumsUp(w, D, h)
    PROVE  \A s \in SUBSET D : h[s] = Cardinality(Units(w, s))
<1> DEFINE Bad == {s \in SUBSET D : h[s] # Cardinality(Units(w, s))}
           R == StrictSubsetOrdering(D)
<1>1. SUFFICES ASSUME Bad # {} PROVE FALSE
  OBVIOUS
<1>2. IsWellFoundedOn(R, SUBSET D)
  BY FS_StrictSubsetOrderingWellFounded, FS_FiniteSubsetsOfFinite
<1>3. PICK s \in Bad : \A t \in Bad : ~ (<<t, s>> \in R)
  <2>1. Bad \subseteq SUBSET D
    OBVIOUS
  <2> HIDE DEF Bad, R
  <2>2. QED  BY <1>1, <1>2, <2>1, WFMin
<1>4. s # {}
  <2>1. h[{}] = 0
    BY DEF SumsUp
  <2>2. Units(w, {}) = {}
    BY DEF Units
  <2>3. QED  BY <2>1, <2>2, FS_EmptySet
<1> DEFINE x == CHOOSE y \in s : TRUE
           t == s \ {x}
<1>5. x \in s
  BY <1>4
<1>6. h[s] = w[x] + h[t]
  BY <1>4 DEF SumsUp
<1>7. t \in SUBSET D /\ <<t, s>> \in R
  BY <1>5 DEF StrictSubsetOrdering
<1>8. h[t] = Cardinality(Units(w, t))
  BY <1>3, <1>7
<1>9. Cardinality(Units(w, s)) = w[x] + Cardinality(Units(w, t))
  <2> HIDE DEF x
  <2>1. IsFiniteSet(s) /\ \A y \in s : w[y] \in Nat
    BY FS_Subset
  <2>2. QED  BY <1>5, <2>1, UnitsLess
<1>10. QED  BY <1>6, <1>8, <1>9

\* It has a solution.
LEMMA SumExists ==
    ASSUME NEW D, IsFiniteSet(D), NEW w \in [D -> Nat]
    PROVE  \E h : SumsUp(w, D, h)
<1> DEFINE g == [s \in SUBSET D |-> Cardinality(Units(w, s))]
<1>1. ASSUME NEW s \in SUBSET D
      PROVE  g[s] = IF s = {} THEN 0
                    ELSE w[CHOOSE x \in s : TRUE] + g[s \ {CHOOSE x \in s : TRUE}]
  <2>1. CASE s = {}
    <3>1. Units(w, {}) = {}
      BY DEF Units
    <3>2. QED  BY <2>1, <3>1, FS_EmptySet
  <2>2. CASE s # {}
    <3> DEFINE x == CHOOSE y \in s : TRUE
    <3>1. x \in s
      BY <2>2
    <3>2. Cardinality(Units(w, s)) = w[x] + Cardinality(Units(w, s \ {x}))
      <4> HIDE DEF x
      <4>1. IsFiniteSet(s) /\ \A y \in s : w[y] \in Nat
        BY FS_Subset
      <4>2. QED  BY <3>1, <4>1, UnitsLess
    <3>3. s \ {x} \in SUBSET D
      OBVIOUS
    <3>4. QED  BY <2>2, <3>2, <3>3
  <2>3. QED  BY <2>1, <2>2
<1>2. g = [s \in SUBSET D |-> IF s = {} THEN 0
                 ELSE w[CHOOSE x \in s : TRUE] + g[s \ {CHOOSE x \in s : TRUE}]]
  <2> DEFINE e == [s \in SUBSET D |-> IF s = {} THEN 0
                 ELSE w[CHOOSE x \in s : TRUE] + g[s \ {CHOOSE x \in s : TRUE}]]
  <2>1. \A s \in SUBSET D : g[s] = e[s]
    BY <1>1
  <2>2. g = e
    <3>1. g = [s \in SUBSET D |-> g[s]] /\ e = [s \in SUBSET D |-> e[s]]
      OBVIOUS
    <3> HIDE DEF g, e
    <3>2. QED  BY <2>1, <3>1
  <2>3. QED  BY <2>2
<1>3. SumsUp(w, D, g)
  <2> HIDE DEF g
  <2>1. QED  BY <1>2 DEF SumsUp
<1>4. QED  BY <1>3

\* The sum of a function is the number of its units.
LEMMA SumIsUnits ==
    ASSUME NEW D, IsFiniteSet(D), NEW w \in [D -> Nat]
    PROVE  SumFunction(w) = Cardinality(Units(w, D))
<1> DEFINE h == CHOOSE h : SumsUp(w, D, h)
<1>1. SumsUp(w, D, h)
  BY SumExists
<1>2. SumFunction(w) = h[D]
  BY DEF SumFunction, SumFunctionOnSet, FoldFunctionOnSet, MapThenFoldSet, SumsUp
<1>3. QED
  <2> HIDE DEF h
  <2>1. QED  BY <1>1, <1>2, SumUnique

\* Nothing sums up to nothing.
LEMMA SumEmpty == ASSUME NEW w \in [{} -> Nat] PROVE SumFunction(w) = 0
<1>1. Units(w, {}) = {}
  BY DEF Units
<1>2. QED  BY <1>1, SumIsUnits, FS_EmptySet

\* A further element adds its value.
LEMMA SumAdds ==
    ASSUME NEW D, IsFiniteSet(D), NEW x, x \notin D, NEW w \in [D -> Nat],
           NEW v \in [D \union {x} -> Nat], \A y \in D : v[y] = w[y]
    PROVE  SumFunction(v) = SumFunction(w) + v[x] /\ SumFunction(w) \in Nat
<1> DEFINE E == D \union {x}
<1>1. IsFiniteSet(E)
  BY FS_AddElement
<1>2. SumFunction(v) = Cardinality(Units(v, E)) /\ SumFunction(w) = Cardinality(Units(w, D))
  BY <1>1, SumIsUnits
<1>3. Cardinality(Units(v, E)) = v[x] + Cardinality(Units(v, E \ {x}))
  <2>1. \A y \in E : v[y] \in Nat
    OBVIOUS
  <2>2. x \in E
    OBVIOUS
  <2> HIDE DEF E
  <2>3. QED  BY <1>1, <2>1, <2>2, UnitsLess
<1>4. E \ {x} = D /\ Units(v, D) = Units(w, D)
  BY DEF Units
<1>5. Cardinality(Units(w, D)) \in Nat
  BY UnitsFinite, FS_CardinalityType
<1>6. v[x] \in Nat
  <2>1. x \in E
    OBVIOUS
  <2>2. QED  BY <2>1
<1>7. SumFunction(v) = v[x] + SumFunction(w)
  BY <1>2, <1>3, <1>4
<1> DEFINE n == SumFunction(w)
<1>8. SumFunction(v) = v[x] + n /\ n \in Nat
  BY <1>2, <1>5, <1>7
<1> HIDE DEF n
<1>9. SumFunction(v) = n + v[x]
  BY <1>6, <1>8
<1>10. QED  BY <1>8, <1>9 DEF n

-----------------------------------------------------------------------------
(* The totals.                                                             *)

Successes(r) == [s \in r.seen |-> s.content.success]
Failures(r) == [s \in r.seen |-> s.content.failed]
MessagesOf(r, c) == [s \in r.seen |-> s.content.messages[c]]

\* The length of a table of n messages, under their header row.
Table(n) == IF n = 0 THEN 0 ELSE n + 1

\* The totals are those of the logs parsed so far.
TotalsMatch(r) ==
    /\ r.success = SumFunction(Successes(r))
    /\ r.failed = SumFunction(Failures(r))
    /\ \A c \in ErrorCategories : r.rows[c] = Table(SumFunction(MessagesOf(r, c)))

\* None of these is still to be parsed, so that none is added twice.
Totals(r) ==
    /\ IsFiniteSet(r.seen) /\ TotalsMatch(r)
    /\ r.pc \in {"buckets", "list"} => r.seen = {}
    /\ r.pc = "parse" => \A s \in r.seen : s.name \notin r.todo
TotalsInv == \A i \in Instances : Totals(req[i])

\* The values that are summed up are natural numbers.
LEMMA CountsTyped ==
    ASSUME NEW r \in RequestType
    PROVE  /\ Successes(r) \in [r.seen -> Nat] /\ Failures(r) \in [r.seen -> Nat]
           /\ \A c \in ErrorCategories : MessagesOf(r, c) \in [r.seen -> Nat]
<1>1. \A s \in r.seen : s.content \in Content
  BY ContentsAssumption DEF RequestType
<1>2. QED
  BY <1>1 DEF Successes, Failures, MessagesOf, Content, ErrorCategories, MessageKinds

\* A request that has parsed nothing has the totals of nothing.
LEMMA TotalsEmpty ==
    ASSUME NEW r, r.seen = {}, r.success = 0, r.failed = 0,
           r.rows = [c \in ErrorCategories |-> 0]
    PROVE  Totals(r)
<1>1. /\ Successes(r) \in [{} -> Nat] /\ Failures(r) \in [{} -> Nat]
      /\ \A c \in ErrorCategories : MessagesOf(r, c) \in [{} -> Nat]
  BY DEF Successes, Failures, MessagesOf
<1>2. /\ SumFunction(Successes(r)) = 0 /\ SumFunction(Failures(r)) = 0
      /\ \A c \in ErrorCategories : SumFunction(MessagesOf(r, c)) = 0
  BY <1>1, SumEmpty
<1>3. IsFiniteSet(r.seen)
  BY FS_EmptySet
<1>4. QED  BY <1>2, <1>3 DEF Totals, TotalsMatch, Table

\* Parsing a log that was not parsed before adds its counts to the totals.
LEMMA TotalsParsed ==
    ASSUME NEW r \in RequestType, Totals(r), NEW q \in RequestType, NEW s,
           s.content \in Contents, r.pc = "parse", s.name \in r.todo,
           q.seen = r.seen \union {s}, q.todo = r.todo \ {s.name},
           q.pc = "parse",
           q.success = r.success + s.content.success,
           q.failed = r.failed + s.content.failed,
           q.rows = AddMessages(r.rows, s.content.messages)
    PROVE  Totals(q)
<1>1. s \notin r.seen /\ IsFiniteSet(r.seen)
  BY DEF Totals
<1>2. \A t \in q.seen : t.name \notin q.todo
  BY DEF Totals
<1>3. IsFiniteSet(q.seen)
  BY <1>1, FS_AddElement
<1>4. /\ Successes(r) \in [r.seen -> Nat] /\ Successes(q) \in [r.seen \union {s} -> Nat]
      /\ Failures(r) \in [r.seen -> Nat] /\ Failures(q) \in [r.seen \union {s} -> Nat]
      /\ \A c \in ErrorCategories : /\ MessagesOf(r, c) \in [r.seen -> Nat]
                                    /\ MessagesOf(q, c) \in [r.seen \union {s} -> Nat]
  BY CountsTyped
<1>5. q.success = SumFunction(Successes(q))
  <2>1. \A t \in r.seen : Successes(q)[t] = Successes(r)[t]
    BY DEF Successes
  <2>2. SumFunction(Successes(q)) = SumFunction(Successes(r)) + Successes(q)[s]
    BY <1>1, <1>4, <2>1, SumAdds
  <2>3. Successes(q)[s] = s.content.success
    BY DEF Successes
  <2>4. QED  BY <2>2, <2>3 DEF Totals, TotalsMatch
<1>6. q.failed = SumFunction(Failures(q))
  <2>1. \A t \in r.seen : Failures(q)[t] = Failures(r)[t]
    BY DEF Failures
  <2>2. SumFunction(Failures(q)) = SumFunction(Failures(r)) + Failures(q)[s]
    BY <1>1, <1>4, <2>1, SumAdds
  <2>3. Failures(q)[s] = s.content.failed
    BY DEF Failures
  <2>4. QED  BY <2>2, <2>3 DEF Totals, TotalsMatch
<1>7. ASSUME NEW c \in ErrorCategories
      PROVE  q.rows[c] = Table(SumFunction(MessagesOf(q, c)))
  <2> DEFINE n == SumFunction(MessagesOf(r, c))
             m == s.content.messages[c]
  <2>1. \A t \in r.seen : MessagesOf(q, c)[t] = MessagesOf(r, c)[t]
    BY DEF MessagesOf
  <2>2. SumFunction(MessagesOf(q, c)) = n + MessagesOf(q, c)[s] /\ n \in Nat
    <3> DEFINE w == MessagesOf(r, c)
               v == MessagesOf(q, c)
    <3>1. w \in [r.seen -> Nat] /\ v \in [r.seen \union {s} -> Nat]
      BY <1>4
    <3> HIDE DEF w, v
    <3>2. \A t \in r.seen : v[t] = w[t]
      BY <2>1 DEF v, w
    <3>3. SumFunction(v) = SumFunction(w) + v[s] /\ SumFunction(w) \in Nat
      BY <1>1, <3>1, <3>2, SumAdds
    <3>4. QED  BY <3>3 DEF v, w
  <2>3. MessagesOf(q, c)[s] = m
    BY DEF MessagesOf
  <2>4. m \in Nat
    BY <1>4, <2>3
  <2>5. r.rows[c] = Table(n)
    BY DEF Totals, TotalsMatch
  <2>6. q.rows[c] = IF m = 0 THEN r.rows[c]
                    ELSE IF r.rows[c] = 0 THEN 1 + m ELSE r.rows[c] + m
    BY DEF AddMessages
  <2> HIDE DEF n, m
  <2>7. q.rows[c] = Table(n + m)
    BY <2>2, <2>4, <2>5, <2>6 DEF Table
  <2>8. QED  BY <2>2, <2>3, <2>7
<1>8. QED  BY <1>2, <1>3, <1>5, <1>6, <1>7 DEF Totals, TotalsMatch

\* Totals depend on these parts of a request.
LEMMA TotalsKept ==
    ASSUME NEW r, Totals(r), NEW q, q.seen = r.seen, q.success = r.success,
           q.failed = r.failed, q.rows = r.rows,
           q.pc \in {"buckets", "list"} => r.pc \in {"buckets", "list"},
           q.pc = "parse" => \/ r.pc \in {"buckets", "list"}
                             \/ r.pc = "parse" /\ q.todo = r.todo
    PROVE  Totals(q)
<1>1. /\ Successes(q) = Successes(r) /\ Failures(q) = Failures(r)
      /\ \A c : MessagesOf(q, c) = MessagesOf(r, c)
  BY DEF Successes, Failures, MessagesOf
<1>2. TotalsMatch(q)
  BY <1>1 DEF Totals, TotalsMatch
<1>3. QED  BY <1>2 DEF Totals

\* Every step keeps the totals those of the logs parsed.
LEMMA TotalsStep == TypeOK /\ TypeOK' /\ TotalsInv /\ [Next]_vars => TotalsInv'
<1> SUFFICES ASSUME TypeOK, TypeOK', TotalsInv, [Next]_vars PROVE TotalsInv'
  OBVIOUS
<1>t. req \in [Instances -> RequestType] /\ req' \in [Instances -> RequestType]
  BY DEF TypeOK, RequestType
<1>n. \A user, b, pc : Totals(Request(user, b, pc))
  <2>1. ASSUME NEW user, NEW b, NEW pc PROVE Totals(Request(user, b, pc))
    <3> DEFINE r == Request(user, b, pc)
    <3>1. /\ r.seen = {} /\ r.success = 0 /\ r.failed = 0
          /\ r.rows = [c \in ErrorCategories |-> 0]
      BY DEF Request
    <3> HIDE DEF r
    <3>2. Totals(r)
      BY <3>1, TotalsEmpty
    <3>3. QED  BY <3>2 DEF r
  <2>2. QED  BY <2>1
<1>1. ASSUME NEW n \in Names, WriteLog(n) PROVE TotalsInv'
  <2>1. ASSUME NEW j \in Instances PROVE Totals(req'[j])
    <3>1. Totals(req[j])
      BY DEF TotalsInv
    <3>2. /\ req'[j].seen = req[j].seen /\ req'[j].success = req[j].success
          /\ req'[j].failed = req[j].failed /\ req'[j].rows = req[j].rows
          /\ req'[j].pc = req[j].pc /\ req'[j].todo = req[j].todo
      BY <1>1, TouchEffect DEF WriteLog
    <3>3. PICK r, q : r = req[j] /\ q = req'[j]
      OBVIOUS
    <3>4. Totals(q)
      <4>1. q.pc = "parse" => r.pc = "parse" /\ q.todo = r.todo
        BY <3>2, <3>3
      <4>2. QED  BY <3>1, <3>2, <3>3, <4>1, TotalsKept
    <3>5. QED  BY <3>3, <3>4
  <2>2. QED  BY <2>1 DEF TotalsInv
<1>2. ASSUME NEW b \in Buckets, CreateBucket(b) \/ DeleteBucket(b) PROVE TotalsInv'
  BY <1>2 DEF CreateBucket, DeleteBucket, TotalsInv
<1>f. ASSUME NEW i \in Instances, NEW r, req' = [req EXCEPT ![i] = r], Totals(r)
      PROVE  TotalsInv'
  BY <1>f, <1>t DEF TotalsInv
<1>3. ASSUME NEW i \in Instances, MainPage(i) PROVE TotalsInv'
  BY <1>3, <1>n, <1>f DEF MainPage
<1>4. ASSUME NEW i \in Instances, NEW user \in Users \union {<<>>},
             NEW b \in Buckets \union {AllBuckets}, QueryUser(i, user, b)
      PROVE TotalsInv'
  <2> DEFINE q == [Request(user, b, "list") EXCEPT !.toList = {b}]
  <2>1. Totals(q)
    <3>1. /\ q.seen = {} /\ q.success = 0 /\ q.failed = 0
          /\ q.rows = [c \in ErrorCategories |-> 0]
      BY DEF Request
    <3> HIDE DEF q
    <3>2. QED  BY <3>1, TotalsEmpty
  <2>2. \/ req' = [req EXCEPT ![i] = Request(user, b, "empty_user")]
        \/ req' = [req EXCEPT ![i] = Request(user, b, "buckets")]
        \/ req' = [req EXCEPT ![i] = q]
    BY <1>4 DEF QueryUser
  <2> HIDE DEF q
  <2>3. QED  BY <2>1, <2>2, <1>n, <1>f
<1>5. ASSUME NEW i \in Instances, Serve(i) PROVE TotalsInv'
  <2>1. PICK r, q : r = req[i] /\ q = req'[i]
    OBVIOUS
  <2>2. r \in RequestType /\ q \in RequestType /\ Totals(r)
    BY <2>1, <1>t DEF TotalsInv
  <2>3. ASSUME NEW n \in Names, ParseLog(i, n) PROVE Totals(q)
    <3> DEFINE s == [name |-> n, content |-> store[n]]
    <3>0. s.name = n /\ s.content = store[n]
      OBVIOUS
    <3>1. r.pc = "parse" /\ n \in r.todo
      BY <2>1, <2>3 DEF ParseLog
    <3> HIDE DEF s
    <3>2. CASE /\ q.pc = "error500" /\ q.seen = r.seen /\ q.rows = r.rows
               /\ q.success = r.success /\ q.failed = r.failed
      BY <2>2, <3>2, TotalsKept
    <3>3. CASE /\ store[n] \in Contents /\ q.pc = "parse"
               /\ q.seen = r.seen \union {s} /\ q.todo = r.todo \ {n}
               /\ q.success = r.success + store[n].success
               /\ q.failed = r.failed + store[n].failed
               /\ q.rows = AddMessages(r.rows, store[n].messages)
      BY <2>2, <3>0, <3>1, <3>3, TotalsParsed
    <3>4. QED  BY <2>1, <2>3, <3>2, <3>3, ParseLogEffect DEF s
  <2>4. ASSUME Kept(q, r), q.pc \in {"buckets", "list"} => r.pc \in {"buckets", "list"},
               q.pc = "parse" => r.pc \in {"buckets", "list"}
        PROVE  Totals(q)
    BY <2>2, <2>4, TotalsKept DEF Kept
  <2>5. Totals(q)
    <3>1. ASSUME NEW b \in Buckets, ListBucket(i, b) PROVE Totals(q)
      BY <2>1, <2>4, <3>1, SearchEffect DEF ListBucket
    <3>2. CASE GetAllBuckets(i)
      BY <2>1, <2>4, <3>2, SearchEffect DEF GetAllBuckets
    <3>3. CASE ListingFails(i)
      BY <2>1, <2>4, <3>3, SearchEffect DEF ListingFails
    <3>4. CASE RequestFails(i)
      BY <2>1, <2>4, <3>4, SearchEffect
    <3>5. CASE SearchDone(i)
      BY <2>1, <2>4, <3>5, SearchEffect DEF SearchDone
    <3>6. CASE Render(i)
      BY <2>1, <2>4, <3>6, SearchEffect
    <3>7. QED
      BY <1>5, <2>3, <3>1, <3>2, <3>3, <3>4, <3>5, <3>6 DEF Serve
  <2>6. ASSUME NEW j \in Instances PROVE Totals(req'[j])
    <3>1. j # i => req'[j] = req[j]
      BY <1>5, ServeEffect
    <3>2. QED  BY <2>1, <2>5, <3>1 DEF TotalsInv
  <2>7. QED  BY <2>6 DEF TotalsInv
<1>6. CASE UNCHANGED vars
  BY <1>6 DEF vars, TotalsInv
<1>7. QED  BY <1>1, <1>2, <1>3, <1>4, <1>5, <1>6 DEF Next

\* The totals of a page count every parsed log once, and the length of each
\* table less its header row is the number of its messages.
THEOREM TotalsMatchAlways == Spec => []TotalsMatchLogs
<1>1. Init => TotalsInv
  <2>1. ASSUME NEW user, NEW b, NEW pc PROVE Totals(Request(user, b, pc))
    <3> DEFINE r == Request(user, b, pc)
    <3>1. /\ r.seen = {} /\ r.success = 0 /\ r.failed = 0
          /\ r.rows = [c \in ErrorCategories |-> 0]
      BY DEF Request
    <3> HIDE DEF r
    <3>2. Totals(r)
      BY <3>1, TotalsEmpty
    <3>3. QED  BY <3>2 DEF r
  <2>2. QED  BY <2>1 DEF Init, TotalsInv
<1>2. TotalsInv => TotalsMatchLogs
  BY DEF TotalsInv, TotalsMatchLogs, Totals, TotalsMatch, Table, Successes,
         Failures, MessagesOf
<1>3. QED  BY <1>1, <1>2, TotalsStep, TypeCorrect, PTL DEF Spec
=============================================================================
