----------------------------- MODULE MoveProofs -----------------------------
(***************************************************************************)
(* Proofs about gsutil mv, for any keys, page sizes, numbers of processes  *)
(* and threads, failing calls, killed processes and changes of the bucket. *)
(* The parts are those of the model: the listing, the processes with their *)
(* queues and threads, and the command that composes them.                 *)
(***************************************************************************)
EXTENDS Move, FiniteSetTheorems, SequenceTheorems, TLAPS

-----------------------------------------------------------------------------
(* The elements of a sequence.                                             *)

Elems(s) == {s[i] : i \in 1..Len(s)}

\* No element of S occurs twice in s.
DistinctIn(s, S) == \A i, j \in 1..Len(s) : s[i] = s[j] /\ s[i] \in S => i = j

Rising(s) == \A i, j \in 1..Len(s) : i < j => s[i] < s[j]

-----------------------------------------------------------------------------
(* The listing: what the keys that were yielded, the page and the marker   *)
(* have to do with one another.                                            *)

\* Keys are yielded in order: those listed are not above k, those of the page
\* are above it, and the marker is never behind.
OrderInv ==
    /\ Rising(listed) /\ Rising(page)
    /\ \A x \in Elems(listed) : k # NoKey /\ x <= k
    /\ k # NoKey => \A x \in Elems(page) : k < x
    /\ lpc = "page" => IF k = NoKey THEN marker = 0 ELSE k <= marker
    /\ k = NoKey => marker = 0
    /\ lpc = "yield" /\ nextMarker # NoKey =>
          IF page = <<>> THEN k = nextMarker ELSE nextMarker = page[Len(page)]

\* What the next request will be made for.
Beyond(x) ==
    /\ moreResults
    /\ k # NoKey => k < x
    /\ nextMarker # NoKey => nextMarker < x
    /\ \A y \in Elems(page) : y < x

\* A matching key that has been in the bucket all the time was listed, or is
\* still to come.
StayInv ==
    /\ stayed \subseteq bucket
    /\ lpc = "page" => \A x \in stayed \intersect Matches : x \in Elems(listed) \/ marker < x
    /\ lpc = "yield" => \A x \in stayed \intersect Matches :
                           x \in Elems(listed) \/ x \in Elems(page) \/ Beyond(x)
    /\ lpc = "listed" => stayed \intersect Matches \subseteq Elems(listed)

-----------------------------------------------------------------------------
(* The processes: where a task is.                                         *)

Busy(p) == {w \in Threads : worker[p][w] \in Uris}

\* What the main thread of p knows of its queue and threads.
Stage(p) ==
    /\ main[p] \in {"feed", "join"} =>
          /\ unfinished[p] = Len(tasks[p]) + Cardinality(Busy(p))
          /\ tasks[p] \in Seq(Uris)
          /\ Threaded => magics[p] = config[2]
    /\ main[p] \notin {"feed", "raised"} => todo[p] = <<>>
    /\ main[p] \notin {"feed", "join", "raised"} => Busy(p) = {} /\ Elems(tasks[p]) \subseteq {Exit}
    /\ main[p] \in {"join", "shutdown"} => Threaded
    /\ main[p] = "shutdown" => magics[p] \in Nat \ {0}
    /\ ~Threaded => tasks[p] = <<>> /\ Busy(p) = {} /\ \A w \in Threads : worker[p][w] = Exit
    /\ p > config[1] => main[p] = "off"
    /\ Len(tasks[p]) <= config[2]
StageInv == \A p \in Procs : Stage(p)

\* The threads that have not taken an exit value yet.
Live(p) == {w \in Threads : worker[p][w] # Exit}

\* As many exit values are in the queue or to be put as there are threads to
\* take them.
Exits(p) ==
    /\ Live(p) \subseteq Pool /\ (~Threaded => magics[p] = 0)
    /\ main[p] \in {"feed", "join"} /\ Threaded => Live(p) = Pool
    /\ main[p] \in {"shutdown", "reap", "count", "store", "done"} =>
          Cardinality(Live(p)) = magics[p] + Len(tasks[p])
    /\ main[p] \in {"reap", "count", "store", "done"} => magics[p] = 0
    /\ main[p] \in {"count", "store", "done"} => Live(p) = {}
ExitsInv == \A p \in Procs : Exits(p)

Todo(p) == Elems(todo[p])
Queued(p) == Elems(tasks[p]) \intersect Uris
At(p) == {worker[p][w] : w \in Threads} \intersect Uris
Pending(p) == Todo(p) \union Queued(p) \union At(p)

\* A URI is in one place of a process, and of one process.
ApartIn(p) ==
    /\ DistinctIn(todo[p], Uris) /\ DistinctIn(tasks[p], Uris)
    /\ \A v, w \in Threads : worker[p][v] = worker[p][w] /\ worker[p][v] \in Uris => v = w
    /\ Todo(p) \intersect Queued(p) = {} /\ Todo(p) \intersect At(p) = {}
    /\ Queued(p) \intersect At(p) = {}

ApartInv ==
    /\ \A p \in Procs : ApartIn(p)
    /\ \A p, q \in Procs : p # q => Pending(p) \intersect Pending(q) = {}

\* The function is called for those that are no longer pending, and for no
\* others.
OnceInv ==
    /\ \A p \in Procs : Pending(p) \subseteq Elems(listed)
    /\ \A p \in Procs : \A u \in Pending(p) : tries[u] = 0
    /\ \A u \in Uris : tries[u] <= 1
    /\ cmd \in {"cp", "rm"} =>
          \A u \in Elems(listed) : tries[u] = 1 \/ \E p \in Procs : u \in Pending(p)

-----------------------------------------------------------------------------
(* The command.                                                            *)

PhaseInv ==
    /\ cmd \in {"list", "cp"} => removed = {}
    /\ cmd = "list" => copied = {}
    /\ cmd = "cp" => counted /\ \A u \in copied : tries[u] = 1

\* The only process knows of each copy that failed.
CopiedInv ==
    Alone =>
        /\ cmd = "cp" /\ main[1] # "raised" /\ okay[1] =>
              \A u \in Uris : tries[u] = 1 => u \in copied
        /\ cmd \in {"rm", "ok"} => Elems(listed) \subseteq copied
        /\ removed \subseteq copied

\* What is at the destination under a copied key's name.
ArrivedInv == \A x \in copied : dst[Name[x]] \in copied /\ Name[dst[Name[x]]] = Name[x]

Of(owner, p) == {u \in copied : owner[u] = p}
Settled(owner) == {u \in copied : main[owner[u]] = "done"}

\* The books of cp, for a way of telling which process copied each key, and
\* for the sums that the shared integer and the registers stand for: a process
\* has counted no more than its keys, the sums hold no key of a process that
\* has not added its total, and the total of the last to write is in its sum.
Books(owner, sum, read) ==
    /\ \A p \in Procs : total[p] <= Cardinality(Of(owner, p))
    /\ count = Wrapped(sum) /\ sum <= Cardinality(Settled(owner))
    /\ \A p \in Procs : main[p] = "store" =>
          register[p] = Wrapped(read[p]) /\ read[p] <= Cardinality(Settled(owner))
    /\ ~Alone /\ (\E p \in Procs : main[p] = "done") =>
          \E p \in Procs : main[p] = "done" /\ sum >= total[p]

CountInv ==
    cmd = "cp" =>
        \E owner \in [copied -> Procs], sum \in Nat, read \in [Procs -> Nat] :
            Books(owner, sum, read)

-----------------------------------------------------------------------------
(* Arithmetic of the C int.                                                *)

\* Two numbers that are equal up to multiples of the size have one remainder.
LEMMA SameRemainder ==
    ASSUME NEW x \in Int, NEW y \in Int, NEW j \in Int, y = x + j * IntSize
    PROVE  x % IntSize = y % IntSize
<1> DEFINE q == x \div IntSize
           r == x % IntSize
           s == y \div IntSize
           t == y % IntSize
<1>1. /\ q \in Int /\ r \in 0..IntSize - 1 /\ x = q * IntSize + r
      /\ s \in Int /\ t \in 0..IntSize - 1 /\ y = s * IntSize + t
  BY IntAssumption
<1> HIDE DEF q, r, s, t
<1>2. (q + j - s) * IntSize = t - r
  BY <1>1, IntAssumption
<1>3. q + j - s = 0
  <2>1. \A i \in Int : i >= 1 => i * IntSize >= IntSize
    BY IntAssumption
  <2>2. \A i \in Int : i <= -1 => i * IntSize <= -IntSize
    BY IntAssumption
  <2>3. t - r < IntSize /\ t - r > -IntSize
    BY <1>1, IntAssumption
  <2>4. QED
    BY <1>1, <1>2, <2>1, <2>2, <2>3, IntAssumption
<1>4. t = r
  BY <1>1, <1>2, <1>3, IntAssumption
<1>5. QED
  BY <1>4 DEF r, t

LEMMA WrappedZero == Wrapped(0) = 0
<1>1. IntSize \div 2 \in 0..IntSize - 1
  BY IntAssumption
<1>2. (0 + (IntSize \div 2)) % IntSize = IntSize \div 2
  BY <1>1, IntAssumption
<1>3. QED
  BY <1>1, <1>2 DEF Wrapped

LEMMA WrappedInt == \A n \in Int : Wrapped(n) \in Int
BY IntAssumption DEF Wrapped

\* What is added to a wrapped number is added to the number.
LEMMA WrapAdds ==
    ASSUME NEW n \in Int, NEW m \in Int
    PROVE  Wrapped(Wrapped(n) + m) = Wrapped(n + m)
<1> DEFINE h == IntSize \div 2
           q == (n + h) \div IntSize
           r == (n + h) % IntSize
<1>1. h \in Int /\ q \in Int /\ r \in Int /\ n + h = q * IntSize + r
  BY IntAssumption
<1>2. Wrapped(n) = r - h
  BY DEF Wrapped
<1> HIDE DEF h, q, r
<1>3. (Wrapped(n) + m) + h \in Int /\ (n + m) + h \in Int
  BY <1>1, <1>2
<1>4. (n + m) + h = ((Wrapped(n) + m) + h) + q * IntSize
  BY <1>1, <1>2, IntAssumption
<1>5. ((Wrapped(n) + m) + h) % IntSize = ((n + m) + h) % IntSize
  BY <1>1, <1>3, <1>4, SameRemainder
<1>6. QED
  BY <1>5 DEF Wrapped, h

-----------------------------------------------------------------------------
(* Lemmas about sequences and finite sets.                                 *)

\* The empty sequence has no elements.
LEMMA ElemsEmpty == Elems(<<>>) = {}
BY DEF Elems

\* Taking the head off a sequence.
LEMMA ElemsTail ==
    ASSUME NEW T, NEW s \in Seq(T), s # <<>>
    PROVE  /\ Elems(s) = Elems(Tail(s)) \union {Head(s)}
           /\ Head(s) \in T /\ Tail(s) \in Seq(T) /\ Len(Tail(s)) = Len(s) - 1
           /\ Len(s) \in Nat \ {0} /\ Head(s) = s[1]
           /\ \A i \in 1..Len(Tail(s)) : Tail(s)[i] = s[i + 1] /\ i + 1 \in 1..Len(s)
<1>1. /\ Head(s) \in T /\ Tail(s) \in Seq(T) /\ Len(Tail(s)) = Len(s) - 1
      /\ \A i \in 1..Len(Tail(s)) : Tail(s)[i] = s[i + 1]
  BY HeadTailProperties
<1>2. Len(s) \in Nat \ {0} /\ Head(s) = s[1]
  BY EmptySeq
<1>3. \A i \in 1..Len(Tail(s)) : i + 1 \in 1..Len(s)
  BY <1>1, <1>2
<1>4. ASSUME NEW x \in Elems(s) PROVE x \in Elems(Tail(s)) \union {Head(s)}
  <2>1. PICK i \in 1..Len(s) : x = s[i]
    BY DEF Elems
  <2>2. CASE i = 1
    BY <1>2, <2>1, <2>2
  <2>3. CASE i # 1
    <3>1. i - 1 \in 1..Len(Tail(s)) /\ i - 1 + 1 = i
      BY <1>1, <1>2, <2>3
    <3>2. Tail(s)[i - 1] = s[i]
      BY <1>1, <3>1
    <3>3. QED  BY <2>1, <3>1, <3>2 DEF Elems
  <2>4. QED  BY <2>2, <2>3
<1>5. Elems(Tail(s)) \union {Head(s)} \subseteq Elems(s)
  BY <1>1, <1>2, <1>3 DEF Elems
<1>6. QED  BY <1>1, <1>2, <1>3, <1>4, <1>5

\* If the head occurs once it is gone.
LEMMA DistinctTail ==
    ASSUME NEW T, NEW s \in Seq(T), s # <<>>, NEW S, DistinctIn(s, S)
    PROVE  /\ DistinctIn(Tail(s), S)
           /\ Head(s) \in S => Head(s) \notin Elems(Tail(s))
<1>1. /\ Len(s) \in Nat \ {0} /\ Len(Tail(s)) = Len(s) - 1 /\ Head(s) = s[1]
      /\ \A i \in 1..Len(Tail(s)) : Tail(s)[i] = s[i + 1] /\ i + 1 \in 1..Len(s)
  BY ElemsTail
<1>2. DistinctIn(Tail(s), S)
  <2> SUFFICES ASSUME NEW i \in 1..Len(Tail(s)), NEW j \in 1..Len(Tail(s)),
                      Tail(s)[i] = Tail(s)[j], Tail(s)[i] \in S
               PROVE  i = j
    BY DEF DistinctIn
  <2>1. i + 1 = j + 1
    BY <1>1 DEF DistinctIn
  <2>2. QED  BY <1>1, <2>1
<1>3. ASSUME NEW i \in 1..Len(Tail(s)), Tail(s)[i] = Head(s), Head(s) \in S PROVE FALSE
  <2>1. i + 1 = 1
    BY <1>1, <1>3 DEF DistinctIn
  <2>2. QED  BY <1>1, <2>1
<1>4. QED  BY <1>2, <1>3 DEF Elems

\* Putting an element at the end.
LEMMA ElemsAppend ==
    ASSUME NEW T, NEW s \in Seq(T), NEW x \in T
    PROVE  /\ Elems(Append(s, x)) = Elems(s) \union {x}
           /\ Append(s, x) \in Seq(T) /\ Len(Append(s, x)) = Len(s) + 1
           /\ Len(s) \in Nat /\ Append(s, x)[Len(s) + 1] = x
           /\ \A i \in 1..Len(s) : Append(s, x)[i] = s[i]
<1>1. /\ Append(s, x) \in Seq(T) /\ Len(Append(s, x)) = Len(s) + 1 /\ Len(s) \in Nat
      /\ Append(s, x)[Len(s) + 1] = x /\ \A i \in 1..Len(s) : Append(s, x)[i] = s[i]
  OBVIOUS
<1>2. 1..(Len(s) + 1) = (1..Len(s)) \union {Len(s) + 1}
  BY <1>1
<1>3. QED  BY <1>1, <1>2 DEF Elems

\* An element that is new, or need not be distinct, leaves the others distinct.
LEMMA DistinctAppend ==
    ASSUME NEW T, NEW s \in Seq(T), NEW x \in T, NEW S, DistinctIn(s, S),
           x \in S => x \notin Elems(s)
    PROVE  DistinctIn(Append(s, x), S)
<1>1. /\ Len(Append(s, x)) = Len(s) + 1 /\ Len(s) \in Nat
      /\ Append(s, x)[Len(s) + 1] = x /\ \A i \in 1..Len(s) : Append(s, x)[i] = s[i]
  BY ElemsAppend
<1>2. ASSUME NEW i \in 1..(Len(s) + 1) PROVE i \in 1..Len(s) \/ i = Len(s) + 1
  BY <1>1
<1>3. ASSUME NEW i \in 1..Len(s), s[i] = x, x \in S PROVE FALSE
  BY <1>3 DEF Elems
<1>4. QED  BY <1>1, <1>2, <1>3 DEF DistinctIn

\* A rising sequence that is continued with a greater element.
LEMMA RisingAppend ==
    ASSUME NEW s \in Seq(Keys), NEW x \in Keys, Rising(s), \A y \in Elems(s) : y < x
    PROVE  Rising(Append(s, x))
<1>1. /\ Len(Append(s, x)) = Len(s) + 1 /\ Len(s) \in Nat
      /\ Append(s, x)[Len(s) + 1] = x /\ \A i \in 1..Len(s) : Append(s, x)[i] = s[i]
  BY ElemsAppend
<1>2. \A i \in 1..Len(s) : s[i] < x
  BY DEF Elems
<1>3. \A i, j \in 1..(Len(s) + 1) : i < j => i \in 1..Len(s) /\ (j \in 1..Len(s) \/ j = Len(s) + 1)
  BY <1>1
<1>4. QED  BY <1>1, <1>2, <1>3 DEF Rising

\* The tail of a rising sequence rises, above the head.
LEMMA RisingTail ==
    ASSUME NEW s \in Seq(Keys), s # <<>>, Rising(s)
    PROVE  /\ Rising(Tail(s)) /\ \A y \in Elems(Tail(s)) : Head(s) < y
           /\ Tail(s) # <<>> => Tail(s)[Len(Tail(s))] = s[Len(s)]
           /\ Tail(s) = <<>> => s[Len(s)] = Head(s)
<1>1. /\ Len(s) \in Nat \ {0} /\ Len(Tail(s)) = Len(s) - 1 /\ Head(s) = s[1]
      /\ \A i \in 1..Len(Tail(s)) : Tail(s)[i] = s[i + 1] /\ i + 1 \in 1..Len(s)
      /\ Tail(s) \in Seq(Keys)
  BY ElemsTail
<1>2. \A i \in 1..Len(Tail(s)) : s[1] < s[i + 1]
  BY <1>1 DEF Rising
<1>3. Rising(Tail(s))
  <2> SUFFICES ASSUME NEW i \in 1..Len(Tail(s)), NEW j \in 1..Len(Tail(s)), i < j
               PROVE  Tail(s)[i] < Tail(s)[j]
    BY DEF Rising
  <2>1. i + 1 < j + 1
    BY <1>1
  <2>2. QED  BY <1>1, <2>1 DEF Rising
<1>4. Tail(s) # <<>> => Len(Tail(s)) \in 1..Len(Tail(s)) /\ Len(Tail(s)) + 1 = Len(s)
  BY <1>1, EmptySeq
<1>5. Tail(s) = <<>> => Len(s) = 1
  <2>1. Tail(s) = <<>> => Len(Tail(s)) = 0
    OBVIOUS
  <2>2. QED  BY <1>1, <2>1
<1>6. QED  BY <1>1, <1>2, <1>3, <1>4, <1>5 DEF Elems

-----------------------------------------------------------------------------
(* The order of the keys in a page.                                        *)

Below(S, x) == {y \in S : y < x}
Rank(S, x) == Cardinality(Below(S, x))

\* Sets of keys are finite and their keys are numbers.
LEMMA FiniteKeys ==
    ASSUME NEW S \in SUBSET Keys
    PROVE  IsFiniteSet(S) /\ Cardinality(S) \in Nat /\ \A x \in S : x \in Nat \ {0}
BY KeysAssumption, FS_Subset, FS_CardinalityType

\* Ranks are below the size of the set and grow with the keys.
LEMMA RankGrows ==
    ASSUME NEW S \in SUBSET Keys, NEW x \in S
    PROVE  /\ Rank(S, x) \in 0..(Cardinality(S) - 1)
           /\ \A y \in S : x < y => Rank(S, x) < Rank(S, y)
<1>1. IsFiniteSet(S) /\ Cardinality(S) \in Nat /\ \A y \in S : y \in Nat
  BY FiniteKeys
<1>2. \A y \in S : IsFiniteSet(Below(S, y)) /\ Rank(S, y) \in Nat
  BY FiniteKeys, <1>1 DEF Below, Rank
<1>3. ASSUME NEW y \in S, NEW T \in SUBSET S, Below(S, y) \union {y} \subseteq T
      PROVE  Rank(S, y) + 1 <= Cardinality(T)
  <2>1. y \notin Below(S, y)
    BY <1>1 DEF Below
  <2>2. IsFiniteSet(T)
    BY <1>1, FS_Subset
  <2>3. Cardinality(Below(S, y) \union {y}) = Rank(S, y) + 1
    BY <1>2, <2>1, FS_AddElement DEF Rank
  <2>4. QED  BY <1>3, <2>2, <2>3, FS_Subset
<1>4. Rank(S, x) + 1 <= Cardinality(S)
  BY <1>3 DEF Below
<1>5. ASSUME NEW y \in S, x < y PROVE Rank(S, x) < Rank(S, y)
  <2>1. Below(S, x) \union {x} \subseteq Below(S, y) /\ Below(S, y) \in SUBSET S
    BY <1>1, <1>5 DEF Below
  <2>2. Rank(S, x) + 1 <= Rank(S, y)
    BY <1>3, <2>1 DEF Rank
  <2>3. QED  BY <1>2, <2>2
<1>6. QED  BY <1>1, <1>2, <1>4, <1>5

\* Hence every number below the size is the rank of a key.
LEMMA RankOnto ==
    ASSUME NEW S \in SUBSET Keys, NEW i \in 1..Cardinality(S)
    PROVE  \E x \in S : Rank(S, x) = i - 1
<1> DEFINE n == Cardinality(S)
           f == [x \in S |-> Rank(S, x) + 1]
<1>1. IsFiniteSet(S) /\ n \in Nat /\ \A x \in S : x \in Nat
  BY FiniteKeys
<1>2. f \in [S -> 1..n]
  BY <1>1, RankGrows
<1>3. \A x, y \in S : f[x] = f[y] => x = y
  <2> SUFFICES ASSUME NEW x \in S, NEW y \in S, f[x] = f[y], x # y PROVE FALSE
    OBVIOUS
  <2>1. Rank(S, x) = Rank(S, y) /\ Rank(S, x) \in Int
    BY <1>1, RankGrows
  <2>2. x < y \/ y < x
    BY <1>1
  <2>3. QED  BY <2>1, <2>2, RankGrows
<1>4. f \in Injection(S, 1..n)
  BY <1>2, <1>3 DEF Injection, IsInjective
<1>5. IsFiniteSet(1..n) /\ Cardinality(1..n) = n
  BY <1>1, FS_Interval
<1>6. f \in Surjection(S, 1..n)
  BY <1>4, <1>5, FS_Injection
<1>7. PICK x \in S : f[x] = i
  BY <1>6 DEF Surjection
<1>8. Rank(S, x) \in Int
  BY <1>1, RankGrows
<1>9. QED  BY <1>7, <1>8

\* A page has the keys of its set, in order.
LEMMA OrderedProperties ==
    ASSUME NEW S \in SUBSET Keys
    PROVE  /\ Ordered(S) \in Seq(S) /\ Rising(Ordered(S)) /\ Elems(Ordered(S)) = S
           /\ Len(Ordered(S)) = Cardinality(S)
<1> DEFINE n == Cardinality(S)
           s == Ordered(S)
<1>1. n \in Nat /\ \A x \in S : x \in Nat
  BY FiniteKeys
<1>2. s = [i \in 1..n |-> CHOOSE x \in S : Rank(S, x) = i - 1]
  BY DEF Ordered, Rank, Below
<1>3. \A i \in 1..n : s[i] \in S /\ Rank(S, s[i]) = i - 1
  BY <1>2, RankOnto
<1>4. s \in Seq(S) /\ Len(s) = n
  BY <1>1, <1>2, <1>3
<1>5. Rising(s)
  <2> SUFFICES ASSUME NEW i \in 1..n, NEW j \in 1..n, i < j PROVE s[i] < s[j]
    BY <1>4 DEF Rising
  <2>1. Rank(S, s[i]) < Rank(S, s[j])
    BY <1>1, <1>3
  <2>2. ~(s[j] < s[i]) /\ s[i] # s[j]
    BY <1>1, <1>3, <2>1, RankGrows
  <2>3. QED  BY <1>1, <1>3, <2>2
<1>6. ASSUME NEW x \in S PROVE x \in Elems(s)
  <2> DEFINE i == Rank(S, x) + 1
  <2>1. i \in 1..n /\ Rank(S, x) \in Nat
    BY <1>1, RankGrows
  <2>2. s[i] \in S /\ Rank(S, s[i]) = Rank(S, x)
    BY <1>1, <1>3, <2>1
  <2>3. ~(s[i] < x) /\ ~(x < s[i])
    BY <2>1, <2>2, RankGrows
  <2>4. s[i] = x
    BY <1>1, <2>2, <2>3
  <2>5. QED  BY <1>4, <2>1, <2>4 DEF Elems
<1>7. QED  BY <1>3, <1>4, <1>5, <1>6 DEF Elems

\* The first n keys: there is one if there are keys, and the others are above.
LEMMA FirstProperties ==
    ASSUME NEW S \in SUBSET Keys, NEW n \in Nat \ {0}
    PROVE  /\ First(S, n) \subseteq S
           /\ S # {} => First(S, n) # {}
           /\ \A x \in S \ First(S, n) : \A y \in First(S, n) : y < x
<1>1. First(S, n) = {x \in S : Rank(S, x) < n} /\ \A x \in S : x \in Nat
  BY FiniteKeys DEF First, Rank, Below
<1>2. ASSUME S # {} PROVE First(S, n) # {}
  <2>1. Cardinality(S) \in Nat \ {0}
    BY <1>2, FiniteKeys, FS_EmptySet
  <2>2. \E x \in S : Rank(S, x) = 1 - 1
    BY <2>1, RankOnto
  <2>3. QED  BY <1>1, <2>2
<1>3. ASSUME NEW x \in S \ First(S, n), NEW y \in First(S, n) PROVE y < x
  <2>1. Rank(S, y) < n /\ ~(Rank(S, x) < n) /\ Rank(S, x) \in Int /\ Rank(S, y) \in Int
    BY <1>1, FiniteKeys, RankGrows
  <2>2. ~(x < y) /\ x # y
    BY <1>1, <2>1, RankGrows
  <2>3. QED  BY <1>1, <2>2
<1>4. QED  BY <1>1, <1>2, <1>3

-----------------------------------------------------------------------------
(* The listing keeps its types, its order and what stays.                  *)

KeyOrder == \A x \in Keys : x \in Nat /\ x > 0 /\ x # NoKey

\* Keys are positive numbers, so that the marker 0 is before all of them.
LEMMA KeysOrdered == KeyOrder
BY KeysAssumption DEF KeyOrder

\* A page has the first keys after the marker, and is followed by others only
\* if the server says so.
LEMMA PageEffect ==
    ASSUME ListTypeOK, GetPage
    PROVE  /\ page' \in Seq(Keys) /\ Rising(page') /\ moreResults' \in BOOLEAN
           /\ nextMarker' \in Keys \union {NoKey}
           /\ \A x \in Elems(page') : x \in Keys /\ marker < x
           /\ nextMarker' # NoKey =>
                 page' # <<>> /\ nextMarker' = page'[Len(page')] /\ nextMarker' \in Elems(page')
           /\ \A x \in bucket : marker < x =>
                 x \in Elems(page') \/ (moreResults' /\ \A y \in Elems(page') : y < x)
<1> DEFINE rest == {x \in bucket : x > marker}
           keys == First(rest, PageSize)
<1>0. bucket \subseteq Keys /\ marker \in Nat
  <2>1. bucket \subseteq Keys /\ marker \in Keys \union {0}
    BY DEF ListTypeOK
  <2>2. QED  BY <2>1, KeysOrdered DEF KeyOrder
<1>1. rest \in SUBSET Keys /\ bucket \subseteq Keys /\ marker \in Nat
  BY <1>0
<1>2. /\ keys \subseteq rest /\ keys \in SUBSET Keys
      /\ \A x \in rest \ keys : \A y \in keys : y < x
  BY <1>1, PageAssumption, FirstProperties
<1>3. /\ page' = Ordered(keys) /\ moreResults' = (keys # rest)
      /\ nextMarker' \in {NoKey} \union {x \in keys : \A y \in keys : y <= x}
  BY DEF GetPage
<1> HIDE DEF keys
<1>4. /\ page' \in Seq(keys) /\ Rising(page') /\ Elems(page') = keys /\ page' \in Seq(Keys)
  BY <1>2, <1>3, OrderedProperties, SeqMonotonic
<1>5. ASSUME nextMarker' # NoKey
      PROVE  page' # <<>> /\ nextMarker' = page'[Len(page')] /\ nextMarker' \in Elems(page')
  <2>1. nextMarker' \in Elems(page') /\ \A y \in Elems(page') : y <= nextMarker'
    BY <1>3, <1>4, <1>5
  <2>2. PICK i \in 1..Len(page') : page'[i] = nextMarker'
    BY <2>1 DEF Elems
  <2>3. Len(page') \in Nat /\ page' # <<>>
    BY <1>4, <2>1, ElemsEmpty
  <2>4. Len(page') \in 1..Len(page')
    BY <2>2, <2>3
  <2>5. page'[Len(page')] <= nextMarker'
    BY <2>1, <2>4 DEF Elems
  <2>6. i < Len(page') => nextMarker' < page'[Len(page')]
    BY <1>4, <2>2, <2>4 DEF Rising
  <2>7. nextMarker' \in Nat /\ page'[Len(page')] \in Nat
    BY <1>2, <1>4, <2>1, <2>4, KeysOrdered DEF Elems, KeyOrder
  <2>8. i = Len(page')
    BY <2>2, <2>3, <2>5, <2>6, <2>7
  <2>9. QED  BY <2>1, <2>2, <2>3, <2>8
<1>6. \A x \in bucket : marker < x =>
         x \in Elems(page') \/ (moreResults' /\ \A y \in Elems(page') : y < x)
  BY <1>1, <1>2, <1>3, <1>4, KeysOrdered DEF KeyOrder
<1>7. moreResults' \in BOOLEAN /\ nextMarker' \in Keys \union {NoKey}
  BY <1>2, <1>3
<1>8. \A x \in Elems(page') : x \in Keys /\ marker < x
  BY <1>1, <1>2, <1>4, KeysOrdered DEF KeyOrder
<1>9. QED  BY <1>4, <1>5, <1>6, <1>7, <1>8

\* The head of the page is yielded; it is listed if it matches.
LEMMA YieldEffect ==
    ASSUME ListTypeOK, YieldKey
    PROVE  /\ lpc = "yield" /\ page # <<>> /\ k' = Head(page) /\ page' = Tail(page)
           /\ k' \in Keys /\ page' \in Seq(Keys)
           /\ Elems(page) = Elems(page') \union {k'}
           /\ listed' \in Seq(Keys)
           /\ Elems(listed') \subseteq Elems(listed) \union {k'}
           /\ Elems(listed) \subseteq Elems(listed') /\ (k' \in Matches => k' \in Elems(listed'))
           /\ listed' = listed \/ listed' = Append(listed, k')
<1>1. /\ lpc = "yield" /\ page # <<>> /\ k' = Head(page) /\ page' = Tail(page)
      /\ listed' = IF k' \in Matches THEN Append(listed, k') ELSE listed
  BY DEF YieldKey
<1>2. page \in Seq(Keys) /\ listed \in Seq(Keys)
  BY DEF ListTypeOK
<1>3. k' \in Keys /\ page' \in Seq(Keys) /\ Elems(page) = Elems(page') \union {k'}
  BY <1>1, <1>2, ElemsTail
<1>4. Elems(Append(listed, k')) = Elems(listed) \union {k'} /\ Append(listed, k') \in Seq(Keys)
  BY <1>2, <1>3, ElemsAppend
<1>5. QED  BY <1>1, <1>2, <1>3, <1>4

\* What others do to the bucket.
Shrinks ==
    /\ bucket' \subseteq Keys /\ stayed' \subseteq stayed
    /\ stayed \subseteq bucket => stayed' \subseteq bucket'
    /\ UNCHANGED <<lpc, marker, k, page, nextMarker, moreResults, listed>>
    /\ changes' \in Nat

\* Other clients add keys that did not stay, and remove keys.
LEMMA ChangeShrinks == ListTypeOK /\ ChangeBucket => Shrinks
BY DEF ListTypeOK, ChangeBucket, Shrinks

\* The types of the listing are kept.
LEMMA ListTypeStep == ListTypeOK /\ (ListStep \/ Shrinks) => ListTypeOK'
<1> SUFFICES ASSUME ListTypeOK, ListStep \/ Shrinks PROVE ListTypeOK'
  OBVIOUS
<1>1. CASE GetPage
  BY <1>1, PageEffect DEF GetPage, ListTypeOK
<1>2. CASE GetPageFails
  BY <1>2 DEF GetPageFails, ListTypeOK
<1>3. CASE YieldKey
  <2>1. UNCHANGED <<bucket, lpc, marker, nextMarker, moreResults, changes, stayed>>
    BY <1>3 DEF YieldKey
  <2>2. QED  BY <1>3, <2>1, YieldEffect DEF ListTypeOK
<1>4. CASE NextPage
  BY <1>4 DEF NextPage, Ended, ListTypeOK
<1>5. CASE Shrinks
  BY <1>5 DEF Shrinks, ListTypeOK
<1>6. QED  BY <1>1, <1>2, <1>3, <1>4, <1>5 DEF ListStep

\* The order is kept.
LEMMA OrderStep == ListTypeOK /\ OrderInv /\ (ListStep \/ Shrinks) => OrderInv'
<1> SUFFICES ASSUME ListTypeOK, OrderInv, ListStep \/ Shrinks PROVE OrderInv'
  OBVIOUS
<1>0. /\ page \in Seq(Keys) /\ listed \in Seq(Keys) /\ k \in Keys \union {NoKey}
      /\ marker \in Nat /\ nextMarker \in Keys \union {NoKey}
  BY KeysAssumption DEF ListTypeOK
<1> USE KeysOrdered DEF KeyOrder
<1>1. CASE GetPage
  <2>1. UNCHANGED <<listed, k, marker>> /\ lpc = "page" /\ lpc' = "yield"
    BY <1>1 DEF GetPage
  <2>2. k # NoKey => \A x \in Elems(page') : k < x
    BY <1>0, <1>1, <2>1, PageEffect DEF OrderInv
  <2>3. QED  BY <1>1, <2>1, <2>2, PageEffect DEF OrderInv
<1>2. CASE GetPageFails
  BY <1>2 DEF GetPageFails, OrderInv
<1>3. CASE YieldKey
  <2>1. UNCHANGED <<lpc, marker, nextMarker>> /\ lpc = "yield"
    BY <1>3 DEF YieldKey
  <2>2. /\ page # <<>> /\ k' = Head(page) /\ page' = Tail(page) /\ k' \in Keys
        /\ Elems(page) = Elems(page') \union {k'}
        /\ Elems(listed') \subseteq Elems(listed) \union {k'}
        /\ listed' = listed \/ listed' = Append(listed, k')
    BY <1>3, YieldEffect
  <2>3. \A y \in Elems(listed) : y \in Keys /\ k \in Keys /\ y <= k /\ k < k'
    BY <1>0, <2>2 DEF OrderInv, Elems
  <2>4. Rising(listed')
    <3>1. Rising(listed) /\ \A y \in Elems(listed) : y < k'
      <4>1. ASSUME NEW y \in Elems(listed) PROVE y < k'
        <5>1. y \in Nat /\ k \in Nat /\ k' \in Nat /\ y <= k /\ k < k'
          BY <2>2, <2>3
        <5>2. QED  BY <5>1
      <4>2. QED  BY <4>1 DEF OrderInv
    <3>2. Rising(Append(listed, k'))
      BY <1>0, <2>2, <3>1, RisingAppend
    <3>3. QED  BY <2>2, <3>1, <3>2
  <2>5. /\ Rising(page') /\ \A y \in Elems(page') : k' < y
        /\ page' # <<>> => page'[Len(page')] = page[Len(page)]
        /\ page' = <<>> => page[Len(page)] = k'
    BY <1>0, <2>2, RisingTail DEF OrderInv
  <2>6. \A x \in Elems(listed') : k' # NoKey /\ x <= k'
    BY <2>2, <2>3
  <2>7. lpc' = "yield" /\ nextMarker' # NoKey =>
          IF page' = <<>> THEN k' = nextMarker' ELSE nextMarker' = page'[Len(page')]
    BY <2>1, <2>2, <2>5 DEF OrderInv
  <2>8. QED  BY <2>1, <2>2, <2>4, <2>5, <2>6, <2>7 DEF OrderInv
<1>4. CASE NextPage
  <2>1. /\ UNCHANGED <<k, page, listed, nextMarker>> /\ lpc = "yield" /\ page = <<>>
        /\ lpc' # "yield"
        /\ marker' = IF k = NoKey THEN marker ELSE IF nextMarker # NoKey THEN nextMarker ELSE k
    BY <1>4 DEF NextPage, Ended
  <2>2. QED  BY <1>0, <2>1 DEF OrderInv
<1>5. CASE Shrinks
  BY <1>5 DEF Shrinks, OrderInv
<1>6. QED  BY <1>1, <1>2, <1>3, <1>4, <1>5 DEF ListStep

\* So is that a key which stays is listed or still to come.
LEMMA StayStep ==
    ListTypeOK /\ OrderInv /\ StayInv /\ (ListStep \/ Shrinks) => StayInv'
<1> SUFFICES ASSUME ListTypeOK, OrderInv, StayInv, ListStep \/ Shrinks PROVE StayInv'
  OBVIOUS
<1>0. /\ page \in Seq(Keys) /\ listed \in Seq(Keys) /\ k \in Keys \union {NoKey}
      /\ marker \in Nat /\ nextMarker \in Keys \union {NoKey} /\ stayed \subseteq Keys
  BY KeysAssumption DEF ListTypeOK
<1> USE KeysOrdered DEF KeyOrder
<1>1. CASE GetPage
  <2>1. UNCHANGED <<bucket, stayed, listed, k, marker>> /\ lpc = "page" /\ lpc' = "yield"
    BY <1>1 DEF GetPage
  <2>2. ASSUME NEW x \in stayed \intersect Matches, x \notin Elems(listed), x \notin Elems(page')
        PROVE  Beyond(x)'
    <3>1. x \in bucket /\ marker < x /\ x \in Nat
      BY <1>0, <2>1, <2>2 DEF StayInv
    <3>2. moreResults' /\ \A y \in Elems(page') : y < x
      BY <1>1, <2>2, <3>1, PageEffect
    <3>3. k' # NoKey => k' < x
      BY <1>0, <2>1, <3>1 DEF OrderInv
    <3>4. nextMarker' # NoKey => nextMarker' < x
      BY <1>1, <3>2, PageEffect
    <3>5. QED  BY <3>2, <3>3, <3>4 DEF Beyond
  <2>3. QED  BY <2>1, <2>2 DEF StayInv
<1>2. CASE GetPageFails
  BY <1>2 DEF GetPageFails, StayInv
<1>3. CASE YieldKey
  <2>1. /\ UNCHANGED <<bucket, stayed, lpc, nextMarker, moreResults>> /\ lpc = "yield"
    BY <1>3 DEF YieldKey
  <2>2. /\ Elems(page) = Elems(page') \union {k'}
        /\ Elems(listed) \subseteq Elems(listed') /\ (k' \in Matches => k' \in Elems(listed'))
    BY <1>3, YieldEffect
  <2>3. \A x : Beyond(x) => Beyond(x)'
    BY <2>1, <2>2 DEF Beyond
  <2>4. QED  BY <2>1, <2>2, <2>3 DEF StayInv
<1>4. CASE NextPage
  <2>1. /\ UNCHANGED <<bucket, stayed, k, listed>> /\ lpc = "yield" /\ page = <<>>
        /\ marker' = IF k = NoKey THEN marker ELSE IF nextMarker # NoKey THEN nextMarker ELSE k
        /\ lpc' = IF moreResults THEN "page" ELSE Ended
    BY <1>4 DEF NextPage
  <2>2. ASSUME NEW x \in stayed \intersect Matches
        PROVE  x \in Elems(listed) \/ (moreResults /\ marker' < x)
    <3>1. x \in Elems(listed) \/ Beyond(x)
      BY <2>1, ElemsEmpty DEF StayInv
    <3>2. x \in Nat /\ x > 0
      BY <1>0
    <3>3. QED  BY <1>0, <2>1, <3>1, <3>2 DEF Beyond, OrderInv
  <2>3. QED  BY <2>1, <2>2 DEF StayInv, Ended
<1>5. CASE Shrinks
  <2>1. \A x : Beyond(x)' <=> Beyond(x)
    BY <1>5 DEF Shrinks, Beyond
  <2>2. QED  BY <1>5, <2>1 DEF Shrinks, StayInv
<1>6. QED  BY <1>1, <1>2, <1>3, <1>4, <1>5 DEF ListStep

-----------------------------------------------------------------------------
(* The deal: every URI goes to one process.                                *)

\* Multiples of n are at least n apart.
LEMMA Times ==
    ASSUME NEW n \in Nat \ {0}, NEW i \in Int, NEW j \in Int, i < j
    PROVE  i * n + n <= j * n /\ i * n \in Int /\ j * n \in Int
<1>1. i * n \in Int /\ j * n \in Int
  OBVIOUS
<1>2. (j - i - 1) * n >= 0
  OBVIOUS
<1>3. (j - i - 1) * n = j * n - i * n - n
  OBVIOUS
<1>4. QED  BY <1>1, <1>2, <1>3

\* Division with a remainder.
LEMMA Divides ==
    ASSUME NEW n \in Nat \ {0}, NEW m \in Nat
    PROVE  /\ m \div n \in Nat /\ m % n \in 0..(n - 1)
           /\ m = (m \div n) * n + (m % n)
<1>1. m \div n \in Int /\ m % n \in 0..(n - 1)
  OBVIOUS
<1>2. m = n * (m \div n) + (m % n)
  OBVIOUS
<1>3. m \div n >= 0
  BY <1>1, <1>2
<1>4. QED  BY <1>1, <1>2, <1>3

\* The place in a list of a process's i-th URI.
Place(n, p, i) == (i - 1) * n + p

\* Two processes, or two rounds, have two places.
LEMMA PlacesDiffer ==
    ASSUME NEW n \in Nat \ {0}, NEW p \in 1..n, NEW q \in 1..n, NEW i \in Int, NEW j \in Int,
           Place(n, p, i) = Place(n, q, j)
    PROVE  p = q /\ i = j
<1>1. ~(i - 1 < j - 1)
  BY Times DEF Place
<1>2. ~(j - 1 < i - 1)
  BY Times DEF Place
<1>3. i = j
  BY <1>1, <1>2
<1>4. (i - 1) * n \in Int
  OBVIOUS
<1>5. QED  BY <1>3, <1>4 DEF Place

\* The rounds of a process stay in the list.
LEMMA PlaceInside ==
    ASSUME NEW n \in Nat \ {0}, NEW p \in 1..n, NEW size \in Nat,
           NEW i \in 1..((size + n - p) \div n)
    PROVE  Place(n, p, i) \in 1..size
<1> DEFINE m == size + n - p
           d == m \div n
<1>1. m \in Nat /\ d \in Nat /\ d * n <= m /\ d * n \in Int
  BY Divides
<1>2. (i - 1) * n + n <= d * n /\ (i - 1) * n \in Int
  BY <1>1, Times
<1>3. (i - 1) * n >= 0
  OBVIOUS
<1>4. QED  BY <1>1, <1>2, <1>3 DEF Place

\* Every place of the list is in a round of a process.
LEMMA PlaceOnto ==
    ASSUME NEW n \in Nat \ {0}, NEW size \in Nat, NEW x \in 1..size
    PROVE  \E p \in 1..n : \E i \in 1..((size + n - p) \div n) : Place(n, p, i) = x
<1> DEFINE p == ((x - 1) % n) + 1
           i == ((x - 1) \div n) + 1
           m == size + n - p
           d == m \div n
<1>1. /\ (x - 1) \div n \in Nat /\ (x - 1) % n \in 0..(n - 1)
      /\ x - 1 = ((x - 1) \div n) * n + ((x - 1) % n)
  BY Divides
<1>2. p \in 1..n /\ i \in Nat \ {0} /\ Place(n, p, i) = x /\ (i - 1) * n = x - p
  BY <1>1 DEF Place
<1> HIDE DEF p, i
<1>3. m \in Nat /\ d \in Nat /\ m % n \in 0..(n - 1) /\ m = d * n + (m % n) /\ d * n \in Int
  <2>1. m \in Nat
    BY <1>2
  <2> HIDE DEF m
  <2>2. QED  BY <2>1, Divides
<1> HIDE DEF m, d
<1>4. ~(d < i)
  <2> SUFFICES ASSUME d < i PROVE FALSE
    OBVIOUS
  <2>1. d * n + n <= i * n
    BY <1>2, <1>3, Times
  <2>2. i * n = (i - 1) * n + n
    BY <1>2
  <2>3. m = size + n - p
    BY DEF m
  <2>4. QED  BY <1>2, <1>3, <2>1, <2>2, <2>3
<1>5. i \in 1..d
  BY <1>2, <1>3, <1>4
<1>6. QED  BY <1>2, <1>5 DEF d, m

\* The numbers of processes and threads that were chosen are in range.
LEMMA ConfigType ==
    ASSUME ApplyTypeOK
    PROVE  /\ config[1] \in Nat \ {0} /\ config[2] \in Nat \ {0}
           /\ config[1] \in Procs /\ config[2] \in Threads
           /\ 1 \in Procs /\ Pool \subseteq Threads
           /\ \A p \in Procs : p \in Nat \ {0}
<1>1. config \in (1..MaxProcs) \X (1..MaxThreads) /\ MaxProcs \in Nat /\ MaxThreads \in Nat
  BY ConfigsAssumption DEF ApplyTypeOK
<1>2. config[1] \in 1..MaxProcs /\ config[2] \in 1..MaxThreads
  BY <1>1
<1>3. QED  BY <1>1, <1>2 DEF Procs, Threads, Pool

\* assigned_uris deals out every URI of a list, each to one process.
LEMMA DealtOnce ==
    ASSUME ApplyTypeOK, NEW uris \in Seq(Uris), DistinctIn(uris, Uris)
    PROVE  /\ \A p \in Procs :
                 /\ Assigned(uris, p) \in Seq(Uris) /\ DistinctIn(Assigned(uris, p), Uris)
                 /\ Elems(Assigned(uris, p)) \subseteq Elems(uris)
                 /\ p > config[1] => Assigned(uris, p) = <<>>
           /\ \A p, q \in Procs :
                 p # q => Elems(Assigned(uris, p)) \intersect Elems(Assigned(uris, q)) = {}
           /\ \A u \in Elems(uris) : \E p \in Procs : u \in Elems(Assigned(uris, p))
<1> DEFINE n == config[1]
           size == Len(uris)
           Rounds(p) == (size + n - p) \div n
<1>1. n \in Nat \ {0} /\ n \in Procs /\ (\A p \in Procs : p \in Nat \ {0}) /\ size \in Nat
  BY ConfigType
<1>2. \A p \in Procs : (p > n => Assigned(uris, p) = <<>>)
                       /\ (p <= n => Assigned(uris, p) = [i \in 1..Rounds(p) |-> uris[Place(n, p, i)]])
  BY <1>1 DEF Assigned, Place
<1>3. ASSUME NEW p \in Procs, p <= n
      PROVE  /\ p \in 1..n /\ Rounds(p) \in Nat
             /\ \A i \in 1..Rounds(p) : Place(n, p, i) \in 1..size
  <2>1. p \in 1..n
    BY <1>1, <1>3
  <2>2. size + n - p \in Nat
    BY <1>1, <2>1
  <2>3. Rounds(p) \in Nat
    BY <1>1, <2>2, Divides
  <2>4. QED  BY <1>1, <2>1, <2>3, PlaceInside
<1>4. \A i, j \in 1..size : uris[i] = uris[j] => i = j
  BY DEF DistinctIn
<1>5. ASSUME NEW p \in Procs, p <= n
      PROVE  /\ Assigned(uris, p) \in Seq(Uris) /\ Len(Assigned(uris, p)) = Rounds(p)
             /\ \A i \in 1..Rounds(p) : Assigned(uris, p)[i] = uris[Place(n, p, i)]
  <2>1. \A i \in 1..Rounds(p) : uris[Place(n, p, i)] \in Uris
    BY <1>3, <1>5
  <2> HIDE DEF Rounds
  <2>2. QED  BY <1>2, <1>3, <1>5, <2>1
<1> HIDE DEF Rounds, size, n
<1>6. ASSUME NEW p \in Procs, NEW q \in Procs, p <= n, q <= n,
             NEW i \in 1..Rounds(p), NEW j \in 1..Rounds(q),
             Assigned(uris, p)[i] = Assigned(uris, q)[j]
      PROVE  p = q /\ i = j
  <2>1. Place(n, p, i) = Place(n, q, j)
    BY <1>3, <1>4, <1>5, <1>6
  <2>2. QED  BY <1>1, <1>3, <1>6, <2>1, PlacesDiffer
<1>7. ASSUME NEW p \in Procs
      PROVE  /\ Assigned(uris, p) \in Seq(Uris) /\ DistinctIn(Assigned(uris, p), Uris)
             /\ Elems(Assigned(uris, p)) \subseteq Elems(uris)
  <2>1. CASE p > n
    <3>1. Assigned(uris, p) = <<>> /\ 1..Len(<<>>) = {}
      BY <1>2, <2>1
    <3>2. QED  BY <3>1, ElemsEmpty DEF DistinctIn
  <2>2. CASE p <= n
    <3>1. DistinctIn(Assigned(uris, p), Uris)
      BY <1>5, <1>6, <2>2 DEF DistinctIn
    <3>2. \A i \in 1..Rounds(p) : Assigned(uris, p)[i] \in Elems(uris)
      BY <1>3, <1>5, <2>2 DEF Elems, size
    <3>3. QED  BY <1>5, <2>2, <3>1, <3>2 DEF Elems
  <2>3. QED  BY <1>1, <2>1, <2>2
<1>8. ASSUME NEW p \in Procs, NEW q \in Procs, p # q
      PROVE  Elems(Assigned(uris, p)) \intersect Elems(Assigned(uris, q)) = {}
  <2>1. CASE p > n \/ q > n
    BY <1>2, <2>1, ElemsEmpty
  <2>2. CASE p <= n /\ q <= n
    BY <1>5, <1>6, <1>8, <2>2 DEF Elems
  <2>3. QED  BY <1>1, <2>1, <2>2
<1>9. ASSUME NEW u \in Elems(uris) PROVE \E p \in Procs : u \in Elems(Assigned(uris, p))
  <2>1. PICK x \in 1..size : uris[x] = u
    BY DEF Elems, size
  <2>2. PICK p \in 1..n : \E i \in 1..Rounds(p) : Place(n, p, i) = x
    BY <1>1, PlaceOnto DEF Rounds
  <2>3. p \in Procs /\ p <= n
    BY <1>1, ConfigsAssumption DEF Procs
  <2>4. QED  BY <1>5, <2>1, <2>2, <2>3 DEF Elems
<1>10. QED  BY <1>2, <1>7, <1>8, <1>9 DEF n

\* The lists that are dealt have the keys that were listed.
LEMMA ExpansionProperties ==
    ASSUME ListTypeOK, NEW uris \in Expansion
    PROVE  uris \in Seq(Uris) /\ DistinctIn(uris, Uris) /\ Elems(uris) = Elems(listed)
<1> DEFINE S == Elems(listed)
           n == Cardinality(S)
<1>1. S \in SUBSET Keys
  BY DEF ListTypeOK, Elems
<1>2. IsFiniteSet(S) /\ n \in Nat
  BY <1>1, FiniteKeys
<1>3. uris \in [1..n -> S] /\ \A i, j \in 1..n : i # j => uris[i] # uris[j]
  BY DEF Expansion, SetToSeqs, Elems
<1>4. uris \in Injection(1..n, S)
  BY <1>3 DEF Injection, IsInjective
<1>5. Cardinality(1..n) = n
  BY <1>2, FS_Interval
<1>6. uris \in Surjection(1..n, S)
  BY <1>2, <1>4, <1>5, FS_Injection
<1>7. uris \in Seq(S) /\ Len(uris) = n
  BY <1>2, <1>3
<1>8. Elems(uris) = S
  BY <1>3, <1>6, <1>7 DEF Elems, Surjection
<1>9. uris \in Seq(Uris)
  BY <1>1, <1>7, UrisAreKeys
<1>10. QED  BY <1>3, <1>7, <1>8, <1>9 DEF DistinctIn

\* No thread of p has a URI exactly if none is at a thread.
LEMMA NotBusy == \A p : Busy(p) = {} <=> At(p) = {}
BY DEF Busy, At

\* What holds when cp or rm begins: all of the listed URIs are pending, each
\* in one process, and no call was made.
Fresh ==
    /\ \A p \in Procs : Pending(p) \subseteq Elems(listed)
    /\ \A u \in Elems(listed) : \E p \in Procs : u \in Pending(p)
    /\ tries = [u \in Uris |-> 0]
    /\ okay = [p \in Procs |-> TRUE]
    /\ total = [p \in Procs |-> 0] /\ count = 0
    /\ \A p \in Procs : main[p] \in {"off", "feed"}

\* Apply deals out the list and resets the counts and the flags.
LEMMA StartEffect ==
    ASSUME ListTypeOK, ApplyTypeOK, NEW uris \in Expansion, NEW c \in BOOLEAN,
           StartApply(uris, c), listed' = listed
    PROVE  ApplyTypeOK' /\ StageInv' /\ ApartInv' /\ Fresh' /\ counted' = c
<1>1. /\ todo' = [p \in Procs |-> Assigned(uris, p)]
      /\ main' = [p \in Procs |-> IF Assigned(uris, p) = <<>> THEN "off" ELSE "feed"]
      /\ worker' = [p \in Procs |-> [w \in Threads |->
                      IF Threaded /\ w \in Pool THEN Idle ELSE Exit]]
      /\ magics' = [p \in Procs |-> IF Threaded THEN config[2] ELSE 0]
      /\ tasks' = [p \in Procs |-> <<>>]
      /\ unfinished' = [p \in Procs |-> 0]
      /\ okay' = [p \in Procs |-> TRUE]
      /\ total' = [p \in Procs |-> 0]
      /\ counted' = c
      /\ count' = 0 /\ register' = [p \in Procs |-> 0]
      /\ tries' = [u \in Uris |-> 0]
      /\ config' = config /\ kills' = kills
  BY DEF StartApply
<1>2. uris \in Seq(Uris) /\ DistinctIn(uris, Uris) /\ Elems(uris) = Elems(listed)
  BY ExpansionProperties
<1>3. /\ \A p \in Procs :
            /\ Assigned(uris, p) \in Seq(Uris) /\ DistinctIn(Assigned(uris, p), Uris)
            /\ Elems(Assigned(uris, p)) \subseteq Elems(uris)
            /\ p > config[1] => Assigned(uris, p) = <<>>
      /\ \A p, q \in Procs :
            p # q => Elems(Assigned(uris, p)) \intersect Elems(Assigned(uris, q)) = {}
      /\ \A u \in Elems(uris) : \E p \in Procs : u \in Elems(Assigned(uris, p))
  BY <1>2, DealtOnce
<1>4. config[2] \in Nat \ {0} /\ config \in Configs /\ kills \in Nat
  BY ConfigType DEF ApplyTypeOK
<1>5. ApplyTypeOK'
  BY <1>1, <1>3, <1>4 DEF ApplyTypeOK, Running
<1>6. ASSUME NEW p \in Procs
      PROVE  /\ Todo(p)' = Elems(Assigned(uris, p)) /\ Queued(p)' = {} /\ At(p)' = {}
             /\ Busy(p)' = {} /\ Pending(p)' = Elems(Assigned(uris, p))
  <2>1. todo'[p] = Assigned(uris, p) /\ tasks'[p] = <<>>
    BY <1>1
  <2>2. \A w \in Threads : worker'[p][w] \notin Uris
    BY <1>1, TaskNames
  <2>3. Busy(p)' = {} /\ At(p)' = {}
    BY <2>2 DEF Busy, At
  <2>4. Queued(p)' = {}
    BY <2>1, ElemsEmpty DEF Queued
  <2>5. Todo(p)' = Elems(Assigned(uris, p))
    BY <2>1 DEF Todo
  <2>6. QED  BY <2>3, <2>4, <2>5 DEF Pending
<1>7. ASSUME NEW p \in Procs PROVE Stage(p)'
  <2>1. /\ todo'[p] = Assigned(uris, p) /\ tasks'[p] = <<>> /\ unfinished'[p] = 0
        /\ main'[p] = IF Assigned(uris, p) = <<>> THEN "off" ELSE "feed"
        /\ magics'[p] = IF Threaded THEN config[2] ELSE 0
        /\ Threaded' = Threaded
        /\ ~Threaded => \A w \in Threads : worker'[p][w] = Exit
    BY <1>1 DEF Threaded
  <2>2. Busy(p)' = {} /\ Cardinality({}) = 0 /\ Elems(<<>>) = {} /\ Len(<<>>) = 0 /\ <<>> \in Seq(Uris)
    BY <1>6, FS_EmptySet, ElemsEmpty
  <2>3. p > config[1] => main'[p] = "off"
    BY <1>3, <2>1
  <2>4. QED  BY <1>1, <1>4, <2>1, <2>2, <2>3 DEF Stage
<1>8. ApartInv'
  <2>1. ASSUME NEW p \in Procs
        PROVE  /\ DistinctIn(todo'[p], Uris) /\ DistinctIn(tasks'[p], Uris)
               /\ \A w \in Threads : worker'[p][w] \notin Uris
    <3>1. 1..Len(<<>>) = {}
      OBVIOUS
    <3>2. QED  BY <1>1, <1>3, <3>1, TaskNames DEF DistinctIn
  <2>2. QED  BY <1>3, <1>6, <2>1 DEF ApartInv, ApartIn
<1>9. Fresh'
  BY <1>1, <1>2, <1>3, <1>6 DEF Fresh
<1>10. QED  BY <1>1, <1>5, <1>7, <1>8, <1>9 DEF StageInv

-----------------------------------------------------------------------------
(* What a step of process p leaves alone.                                  *)

Elsewhere(p) ==
    \A q \in Procs \ {p} :
        UNCHANGED <<main[q], todo[q], tasks[q], unfinished[q], worker[q], magics[q],
                    okay[q], total[q], register[q]>>

ProcStep(p) ==
    ApplyStep(p) \/ Kill(p) \/ \E u \in Uris, ok \in BOOLEAN : Call(p, u, ok)

\* A step of a process leaves the others' parts of the state alone.
LEMMA StepElsewhere ==
    ASSUME ApplyTypeOK, NEW p \in Procs, ProcStep(p)
    PROVE  Elsewhere(p) /\ UNCHANGED <<config, counted>>
<1>0. /\ main = [q \in Procs |-> main[q]] /\ todo = [q \in Procs |-> todo[q]]
      /\ tasks = [q \in Procs |-> tasks[q]] /\ unfinished = [q \in Procs |-> unfinished[q]]
      /\ worker = [q \in Procs |-> worker[q]] /\ magics = [q \in Procs |-> magics[q]]
      /\ okay = [q \in Procs |-> okay[q]] /\ total = [q \in Procs |-> total[q]]
      /\ register = [q \in Procs |-> register[q]]
  BY DEF ApplyTypeOK
<1> USE DEF MainGoto, Elsewhere
<1>1. CASE AddTask(p)
  BY <1>0, <1>1 DEF AddTask
<1>2. CASE FeedEnds(p)
  BY <1>0, <1>2 DEF FeedEnds
<1>3. CASE WaitCompletion(p)
  BY <1>0, <1>3 DEF WaitCompletion
<1>4. CASE Shutdown(p)
  BY <1>0, <1>4 DEF Shutdown
<1>5. CASE JoinThreads(p)
  BY <1>0, <1>5 DEF JoinThreads
<1>6. CASE ReadCount(p)
  BY <1>0, <1>6 DEF ReadCount
<1>7. CASE WriteCount(p)
  BY <1>0, <1>7 DEF WriteCount
<1>8. CASE \E w \in Threads : GetTask(p, w)
  BY <1>0, <1>8 DEF GetTask
<1>9. CASE Kill(p)
  BY <1>0, <1>9 DEF Kill
<1>10. CASE \E u \in Uris, ok \in BOOLEAN : RunsHere(p, u, ok)
  BY <1>0, <1>10 DEF RunsHere
<1>11. CASE \E u \in Uris, ok \in BOOLEAN : \E w \in Threads : Runs(p, w, u, ok)
  BY <1>0, <1>11 DEF Runs
<1>12. QED
  BY <1>1, <1>2, <1>3, <1>4, <1>5, <1>6, <1>7, <1>8, <1>9, <1>10, <1>11
     DEF ProcStep, ApplyStep, Call

\* What is said of a process depends on its own part of the state.
LEMMA StageLocal ==
    ASSUME NEW q, Stage(q), config' = config,
           UNCHANGED <<main[q], todo[q], tasks[q], unfinished[q], worker[q], magics[q]>>
    PROVE  Stage(q)'
BY DEF Stage, Busy, Threaded

\* Where a URI is in a process depends on the process's own part of the state.
LEMMA PlacesLocal ==
    ASSUME NEW q, UNCHANGED <<todo[q], tasks[q], worker[q]>>
    PROVE  /\ Todo(q)' = Todo(q) /\ Queued(q)' = Queued(q) /\ At(q)' = At(q)
           /\ Pending(q)' = Pending(q)
           /\ ApartIn(q) => ApartIn(q)'
<1>1. Todo(q)' = Todo(q) /\ Queued(q)' = Queued(q) /\ At(q)' = At(q)
  BY DEF Todo, Queued, At
<1>2. Pending(q)' = Pending(q)
  BY <1>1 DEF Pending
<1>3. ApartIn(q) => ApartIn(q)'
  BY <1>1 DEF ApartIn
<1>4. QED  BY <1>1, <1>2, <1>3

-----------------------------------------------------------------------------
(* The types of the processes and what the main thread knows are kept.     *)

\* There are finitely many threads, so those that are busy can be counted.
LEMMA BusyFinite ==
    ASSUME ApplyTypeOK, NEW p
    PROVE  IsFiniteSet(Busy(p)) /\ Cardinality(Busy(p)) \in Nat
<1>1. IsFiniteSet(Threads)
  BY ConfigsAssumption, FS_Interval DEF Threads
<1>2. QED  BY <1>1, FS_Subset, FS_CardinalityType DEF Busy

\* A main thread that only waits changes no more than its own control.
LEMMA MainStep ==
    ASSUME ApplyTypeOK, NEW p \in Procs, Stage(p),
           FeedEnds(p) \/ WaitCompletion(p) \/ JoinThreads(p) \/ ReadCount(p) \/ WriteCount(p) \/ Kill(p)
    PROVE  ApplyTypeOK' /\ Stage(p)'
<1>0. /\ config[2] \in Nat \ {0} /\ Len(tasks[p]) \in Nat /\ Cardinality(Busy(p)) \in Nat
      /\ IsFiniteSet(Busy(p)) /\ main[p] \in Running \union {"off", "done", "raised"}
      /\ main = [q \in Procs |-> main[q]] /\ tasks[p] \in Seq(Uris \union {Exit})
      /\ Elems(<<>>) = {}
  <2>1. main[p] \in Running \union {"off", "done", "raised"} /\ main = [q \in Procs |-> main[q]]
        /\ tasks[p] \in Seq(Uris \union {Exit})
    BY DEF ApplyTypeOK
  <2>2. QED  BY <2>1, ConfigType, BusyFinite, ElemsEmpty
<1>1. CASE FeedEnds(p)
  <2>1. /\ main' = [main EXCEPT ![p] = IF Threaded THEN "join" ELSE "count"] /\ main[p] = "feed"
        /\ todo[p] = <<>>
        /\ UNCHANGED <<config, counted, todo, tasks, unfinished, worker, magics, okay,
                       total, count, register, kills, tries>>
    BY <1>1 DEF FeedEnds, MainGoto
  <2>2. ApplyTypeOK'
    BY <2>1 DEF ApplyTypeOK, Running
  <2>3. Busy(p)' = Busy(p) /\ Threaded' = Threaded
        /\ main'[p] = IF Threaded THEN "join" ELSE "count"
    BY <1>0, <2>1 DEF Busy, Threaded
  <2>4. QED  BY <1>0, <2>1, <2>2, <2>3 DEF Stage
<1>2. CASE WaitCompletion(p)
  <2>1. /\ main' = [main EXCEPT ![p] = "shutdown"] /\ main[p] = "join" /\ unfinished[p] = 0
        /\ UNCHANGED <<config, counted, todo, tasks, unfinished, worker, magics, okay,
                       total, count, register, kills, tries>>
    BY <1>2 DEF WaitCompletion, MainGoto
  <2>2. ApplyTypeOK'
    BY <2>1 DEF ApplyTypeOK, Running
  <2>3. Busy(p)' = Busy(p) /\ Threaded' = Threaded /\ main'[p] = "shutdown"
    BY <1>0, <2>1 DEF Busy, Threaded
  <2>4. Len(tasks[p]) = 0 /\ Cardinality(Busy(p)) = 0
    BY <1>0, <2>1 DEF Stage
  <2>5. tasks[p] = <<>> /\ Busy(p) = {}
    BY <1>0, <2>4, FS_EmptySet, EmptySeq
  <2>6. QED  BY <1>0, <2>1, <2>2, <2>3, <2>5 DEF Stage
<1>3. CASE JoinThreads(p) \/ ReadCount(p) \/ WriteCount(p) \/ Kill(p)
  <2>1. /\ main[p] \in Running
        /\ main' \in {[main EXCEPT ![p] = "count"], [main EXCEPT ![p] = "store"],
                      [main EXCEPT ![p] = "done"], [main EXCEPT ![p] = "raised"]}
        /\ main' # [main EXCEPT ![p] = "raised"] => main[p] \notin {"feed", "join"}
        /\ UNCHANGED <<config, counted, todo, tasks, unfinished, worker, magics, okay,
                       total, tries>>
        /\ register' = register \/ register' = [register EXCEPT ![p] = count]
        /\ count' = count \/ count' = Wrapped(register[p] + total[p])
        /\ kills' = kills \/ kills' = kills + 1
    BY <1>3 DEF JoinThreads, ReadCount, WriteCount, Kill, MainGoto, Running
  <2>2. ApplyTypeOK'
    <3>1. main' \in [Procs -> Running \union {"off", "done", "raised"}]
      BY <2>1 DEF ApplyTypeOK, Running
    <3>2. register \in [Procs -> Int] /\ total \in [Procs -> Nat] /\ count \in Int /\ kills \in Nat
      BY DEF ApplyTypeOK
    <3>3. register' \in [Procs -> Int]
      BY <2>1, <3>2
    <3>4. count' \in Int /\ kills' \in Nat
      BY <2>1, <3>2, WrappedInt
    <3>5. QED  BY <2>1, <3>1, <3>3, <3>4 DEF ApplyTypeOK
  <2>3. Busy(p)' = Busy(p) /\ Threaded' = Threaded /\ main'[p] \in {"count", "store", "done", "raised"}
    BY <1>0, <2>1 DEF Busy, Threaded
  <2>4. main'[p] # "raised" => main[p] \notin {"feed", "join", "raised", "off"}
    BY <1>0, <2>1 DEF Running
  <2>5. p > config[1] => FALSE
    BY <1>0, <2>1 DEF Stage, Running
  <2>6. QED  BY <1>0, <2>1, <2>2, <2>3, <2>4, <2>5 DEF Stage
<1>4. QED  BY <1>1, <1>2, <1>3

\* A task or an exit value is put into the queue.
LEMMA PutStep ==
    ASSUME ApplyTypeOK, NEW p \in Procs, Stage(p), AddTask(p) \/ Shutdown(p)
    PROVE  ApplyTypeOK' /\ Stage(p)'
<1>0. /\ config[2] \in Nat \ {0} /\ Len(tasks[p]) \in Nat /\ Cardinality(Busy(p)) \in Nat
      /\ tasks[p] \in Seq(Uris \union {Exit}) /\ todo[p] \in Seq(Uris)
      /\ unfinished[p] \in Nat /\ magics[p] \in Nat
      /\ main = [q \in Procs |-> main[q]] /\ todo = [q \in Procs |-> todo[q]]
      /\ tasks = [q \in Procs |-> tasks[q]] /\ unfinished = [q \in Procs |-> unfinished[q]]
      /\ magics = [q \in Procs |-> magics[q]]
  <2>1. /\ tasks[p] \in Seq(Uris \union {Exit}) /\ todo[p] \in Seq(Uris)
        /\ unfinished[p] \in Nat /\ magics[p] \in Nat
        /\ main = [q \in Procs |-> main[q]] /\ todo = [q \in Procs |-> todo[q]]
        /\ tasks = [q \in Procs |-> tasks[q]] /\ unfinished = [q \in Procs |-> unfinished[q]]
        /\ magics = [q \in Procs |-> magics[q]]
    BY DEF ApplyTypeOK
  <2>2. QED  BY <2>1, ConfigType, BusyFinite
<1>1. CASE AddTask(p)
  <2> DEFINE h == Head(todo[p])
  <2>1. /\ main[p] = "feed" /\ Threaded /\ todo[p] # <<>> /\ Len(tasks[p]) < config[2]
        /\ tasks' = [tasks EXCEPT ![p] = Append(@, h)]
        /\ unfinished' = [unfinished EXCEPT ![p] = @ + 1]
        /\ todo' = [todo EXCEPT ![p] = Tail(@)]
        /\ UNCHANGED <<config, counted, main, worker, magics, okay, total, count,
                       register, kills, tries>>
    BY <1>1 DEF AddTask
  <2>2. h \in Uris /\ Tail(todo[p]) \in Seq(Uris)
    BY <1>0, <2>1, ElemsTail
  <2>3. tasks[p] \in Seq(Uris) /\ unfinished[p] = Len(tasks[p]) + Cardinality(Busy(p))
        /\ magics[p] = config[2]
    BY <2>1 DEF Stage
  <2>4. Append(tasks[p], h) \in Seq(Uris) /\ Len(Append(tasks[p], h)) = Len(tasks[p]) + 1
        /\ Append(tasks[p], h) \in Seq(Uris \union {Exit})
    BY <1>0, <2>2, <2>3
  <2>5. ApplyTypeOK'
    <3>1. tasks' \in [Procs -> Seq(Uris \union {Exit})]
      BY <1>0, <2>1, <2>4 DEF ApplyTypeOK
    <3>2. todo' \in [Procs -> Seq(Uris)] /\ unfinished' \in [Procs -> Nat]
      BY <1>0, <2>1, <2>2 DEF ApplyTypeOK
    <3>3. QED  BY <2>1, <3>1, <3>2 DEF ApplyTypeOK
  <2>6. Busy(p)' = Busy(p) /\ Threaded' = Threaded /\ tasks'[p] = Append(tasks[p], h)
        /\ unfinished'[p] = unfinished[p] + 1
    BY <1>0, <2>1 DEF Busy, Threaded
  <2> HIDE DEF h
  <2>7. QED  BY <1>0, <2>1, <2>3, <2>4, <2>5, <2>6 DEF Stage
<1>2. CASE Shutdown(p)
  <2>1. /\ main[p] = "shutdown" /\ Len(tasks[p]) < config[2]
        /\ tasks' = [tasks EXCEPT ![p] = Append(@, Exit)]
        /\ unfinished' = [unfinished EXCEPT ![p] = @ + 1]
        /\ magics' = [magics EXCEPT ![p] = @ - 1]
        /\ main' = [main EXCEPT ![p] = IF magics[p] = 1 THEN "reap" ELSE "shutdown"]
        /\ UNCHANGED <<config, counted, todo, worker, okay, total, count, register,
                       kills, tries>>
    BY <1>2 DEF Shutdown, MainGoto
  <2>2. Threaded /\ magics[p] \in Nat \ {0} /\ Busy(p) = {} /\ Elems(tasks[p]) \subseteq {Exit}
        /\ todo[p] = <<>> /\ ~(p > config[1])
    BY <2>1 DEF Stage
  <2>3. /\ Append(tasks[p], Exit) \in Seq(Uris \union {Exit})
        /\ Len(Append(tasks[p], Exit)) = Len(tasks[p]) + 1
        /\ Elems(Append(tasks[p], Exit)) = Elems(tasks[p]) \union {Exit}
    BY <1>0, ElemsAppend
  <2>4. ApplyTypeOK'
    <3>1. tasks' \in [Procs -> Seq(Uris \union {Exit})]
      BY <1>0, <2>1, <2>3 DEF ApplyTypeOK
    <3>2. unfinished' \in [Procs -> Nat] /\ magics' \in [Procs -> Nat]
      BY <1>0, <2>1, <2>2 DEF ApplyTypeOK
    <3>3. main' \in [Procs -> Running \union {"off", "done", "raised"}]
      BY <2>1 DEF ApplyTypeOK, Running
    <3>4. QED  BY <2>1, <3>1, <3>2, <3>3 DEF ApplyTypeOK
  <2>5. Busy(p)' = Busy(p) /\ Threaded' = Threaded /\ tasks'[p] = Append(tasks[p], Exit)
        /\ magics'[p] = magics[p] - 1
        /\ main'[p] = IF magics[p] = 1 THEN "reap" ELSE "shutdown"
    BY <1>0, <2>1 DEF Busy, Threaded
  <2>6. QED  BY <1>0, <2>1, <2>2, <2>3, <2>4, <2>5 DEF Stage
<1>3. QED  BY <1>1, <1>2

\* A thread takes a task or an exit value.
LEMMA GetStep ==
    ASSUME ApplyTypeOK, NEW p \in Procs, Stage(p), NEW w \in Threads, GetTask(p, w)
    PROVE  ApplyTypeOK' /\ Stage(p)'
<1> DEFINE x == Head(tasks[p])
<1>1. /\ main[p] \in Running /\ worker[p][w] = Idle /\ tasks[p] # <<>>
      /\ worker' = [worker EXCEPT ![p][w] = x]
      /\ tasks' = [tasks EXCEPT ![p] = Tail(@)]
      /\ UNCHANGED <<config, counted, main, todo, unfinished, magics, okay, total,
                     count, register, kills, tries>>
  BY DEF GetTask
<1>2. /\ tasks[p] \in Seq(Uris \union {Exit}) /\ tasks = [q \in Procs |-> tasks[q]]
      /\ worker \in [Procs -> [Threads -> Uris \union {Idle, Exit}]]
      /\ tasks \in [Procs -> Seq(Uris \union {Exit})]
  BY DEF ApplyTypeOK
<1>3. /\ config[2] \in Nat /\ IsFiniteSet(Busy(p)) /\ Cardinality(Busy(p)) \in Nat
  BY ConfigType, BusyFinite
<1>4. /\ x \in Uris \union {Exit} /\ Tail(tasks[p]) \in Seq(Uris \union {Exit})
      /\ Len(Tail(tasks[p])) = Len(tasks[p]) - 1 /\ Len(tasks[p]) \in Nat \ {0}
      /\ Elems(tasks[p]) = Elems(Tail(tasks[p])) \union {x}
  BY <1>1, <1>2, ElemsTail
<1> HIDE DEF x
<1>5. ApplyTypeOK'
  <2>1. worker' \in [Procs -> [Threads -> Uris \union {Idle, Exit}]]
    BY <1>1, <1>2, <1>4
  <2>2. tasks' \in [Procs -> Seq(Uris \union {Exit})]
    BY <1>1, <1>2, <1>4
  <2>3. QED  BY <1>1, <2>1, <2>2 DEF ApplyTypeOK
<1>6. /\ tasks'[p] = Tail(tasks[p]) /\ Threaded' = Threaded /\ Threaded
      /\ worker'[p][w] = x /\ \A v \in Threads : v # w => worker'[p][v] = worker[p][v]
  BY <1>1, <1>2 DEF Threaded, Stage
<1>7. w \notin Busy(p)
  BY <1>1, TaskNames DEF Busy
<1>8. CASE main[p] \in {"feed", "join"}
  <2>1. /\ unfinished[p] = Len(tasks[p]) + Cardinality(Busy(p)) /\ tasks[p] \in Seq(Uris)
        /\ magics[p] = config[2]
    BY <1>6, <1>8 DEF Stage
  <2>2. x \in Uris /\ Tail(tasks[p]) \in Seq(Uris)
    BY <1>1, <2>1, ElemsTail DEF x
  <2>3. Busy(p)' = Busy(p) \union {w}
    BY <1>6, <2>2 DEF Busy
  <2>4. Cardinality(Busy(p)') = Cardinality(Busy(p)) + 1
    BY <1>3, <1>7, <2>3, FS_AddElement
  <2>5. /\ unfinished'[p] = Len(tasks'[p]) + Cardinality(Busy(p)')
        /\ tasks'[p] \in Seq(Uris) /\ magics'[p] = config'[2]
    <3>1. unfinished' = unfinished /\ magics' = magics /\ config' = config
      BY <1>1
    <3>2. Len(tasks'[p]) + Cardinality(Busy(p)') = Len(tasks[p]) + Cardinality(Busy(p))
      BY <1>3, <1>4, <1>6, <2>4
    <3>3. QED  BY <1>6, <2>1, <2>2, <3>1, <3>2
  <2>6. Len(tasks'[p]) <= config'[2]
    BY <1>1, <1>3, <1>4, <1>6 DEF Stage
  <2>7. QED  BY <1>1, <1>5, <1>6, <1>8, <2>5, <2>6 DEF Stage
<1>9. CASE main[p] \notin {"feed", "join"}
  <2>1. Busy(p) = {} /\ Elems(tasks[p]) \subseteq {Exit}
    BY <1>1, <1>9 DEF Stage, Running
  <2>2. x \notin Uris /\ Elems(Tail(tasks[p])) \subseteq {Exit}
    BY <1>4, <2>1, TaskNames
  <2>3. Busy(p)' = {}
    BY <1>6, <2>1, <2>2 DEF Busy
  <2>4. QED  BY <1>1, <1>3, <1>4, <1>5, <1>6, <1>9, <2>2, <2>3 DEF Stage, Running
<1>10. QED  BY <1>8, <1>9

\* The function is called by a thread, which is then free.
LEMMA RunsStep ==
    ASSUME ApplyTypeOK, NEW p \in Procs, Stage(p), NEW w \in Threads, NEW u \in Uris,
           NEW ok \in BOOLEAN, Runs(p, w, u, ok)
    PROVE  ApplyTypeOK' /\ Stage(p)'
<1>1. /\ main[p] \in Running /\ worker[p][w] = u
      /\ tries' = [tries EXCEPT ![u] = @ + 1]
      /\ total' = [total EXCEPT ![p] = IF ok THEN @ + 1 ELSE @]
      /\ okay' = [okay EXCEPT ![p] = @ /\ ok]
      /\ worker' = [worker EXCEPT ![p][w] = Idle]
      /\ unfinished' = [unfinished EXCEPT ![p] = @ - 1]
      /\ UNCHANGED <<config, counted, main, todo, tasks, magics, count, register, kills>>
  BY DEF Runs
<1>2. /\ worker \in [Procs -> [Threads -> Uris \union {Idle, Exit}]]
      /\ unfinished \in [Procs -> Nat] /\ tries \in [Uris -> Nat] /\ total \in [Procs -> Nat]
      /\ okay \in [Procs -> BOOLEAN] /\ Len(tasks[p]) \in Nat
  <2>1. tasks[p] \in Seq(Uris \union {Exit})
    BY DEF ApplyTypeOK
  <2>2. QED  BY <2>1 DEF ApplyTypeOK
<1>3. IsFiniteSet(Busy(p)) /\ Cardinality(Busy(p)) \in Nat
  BY BusyFinite
<1>4. w \in Busy(p)
  BY <1>1 DEF Busy
<1>5. main[p] \in {"feed", "join"} /\ Threaded
  BY <1>1, <1>4 DEF Stage, Running
<1>6. unfinished[p] = Len(tasks[p]) + Cardinality(Busy(p)) /\ tasks[p] \in Seq(Uris) /\ magics[p] = config[2]
  BY <1>5 DEF Stage
<1>7. Cardinality(Busy(p)) # 0
  BY <1>3, <1>4, FS_EmptySet
<1>8. ApplyTypeOK'
  <2>1. worker' \in [Procs -> [Threads -> Uris \union {Idle, Exit}]]
    BY <1>1, <1>2
  <2>2. unfinished' \in [Procs -> Nat]
    BY <1>1, <1>2, <1>3, <1>6, <1>7
  <2>3. tries' \in [Uris -> Nat]
    BY <1>1, <1>2
  <2>4. total' \in [Procs -> Nat]
    BY <1>1, <1>2
  <2>5. okay' \in [Procs -> BOOLEAN]
    BY <1>1, <1>2
  <2>6. QED  BY <1>1, <2>1, <2>2, <2>3, <2>4, <2>5 DEF ApplyTypeOK
<1>9. /\ Threaded' = Threaded /\ unfinished'[p] = unfinished[p] - 1
      /\ worker'[p][w] = Idle /\ \A v \in Threads : v # w => worker'[p][v] = worker[p][v]
  BY <1>1, <1>2 DEF Threaded
<1>10. Busy(p)' = Busy(p) \ {w}
  BY <1>9, TaskNames DEF Busy
<1>11. Cardinality(Busy(p)') = Cardinality(Busy(p)) - 1
  BY <1>3, <1>4, <1>10, FS_RemoveElement
<1>12. QED  BY <1>1, <1>2, <1>3, <1>5, <1>6, <1>8, <1>9, <1>11 DEF Stage

\* Or by the main thread.
LEMMA RunsHereStep ==
    ASSUME ApplyTypeOK, NEW p \in Procs, Stage(p), NEW u \in Uris,
           NEW ok \in BOOLEAN, RunsHere(p, u, ok)
    PROVE  ApplyTypeOK' /\ Stage(p)'
<1>1. /\ main[p] = "feed" /\ ~Threaded /\ todo[p] # <<>>
      /\ tries' = [tries EXCEPT ![u] = @ + 1]
      /\ todo' = [todo EXCEPT ![p] = Tail(@)]
      /\ total' = [total EXCEPT ![p] = IF ok THEN @ + 1 ELSE @]
      /\ main' = main \/ main' = [main EXCEPT ![p] = "raised"]
      /\ UNCHANGED <<config, counted, tasks, unfinished, worker, magics, okay,
                     count, register, kills>>
  BY DEF RunsHere, MainGoto
<1>2. /\ tries \in [Uris -> Nat] /\ total \in [Procs -> Nat]
      /\ todo \in [Procs -> Seq(Uris)]
      /\ main \in [Procs -> Running \union {"off", "done", "raised"}]
  BY DEF ApplyTypeOK
<1>3. Tail(todo[p]) \in Seq(Uris)
  BY <1>1, <1>2, ElemsTail
<1>4. ApplyTypeOK'
  <2>1. main' \in [Procs -> Running \union {"off", "done", "raised"}]
    BY <1>1, <1>2
  <2>2. todo' \in [Procs -> Seq(Uris)]
    BY <1>1, <1>2, <1>3
  <2>3. tries' \in [Uris -> Nat]
    BY <1>1, <1>2
  <2>4. total' \in [Procs -> Nat]
    BY <1>1, <1>2
  <2>5. QED  BY <1>1, <2>1, <2>2, <2>3, <2>4 DEF ApplyTypeOK
<1>5. Busy(p)' = Busy(p) /\ Threaded' = Threaded /\ main'[p] \in {"feed", "raised"}
  BY <1>1, <1>2 DEF Busy, Threaded
<1>6. QED  BY <1>1, <1>4, <1>5 DEF Stage

\* Every step of a process keeps the types and the stages of all.
LEMMA StepStage ==
    ASSUME ApplyTypeOK, StageInv, NEW p \in Procs, ProcStep(p)
    PROVE  ApplyTypeOK' /\ StageInv'
<1>1. Stage(p)
  BY DEF StageInv
<1>2. ApplyTypeOK' /\ Stage(p)'
  BY <1>1, MainStep, PutStep, GetStep, RunsStep, RunsHereStep DEF ProcStep, ApplyStep, Call
<1>3. ASSUME NEW q \in Procs, q # p PROVE Stage(q)'
  <2>1. Stage(q)
    BY DEF StageInv
  <2>2. config' = config
        /\ UNCHANGED <<main[q], todo[q], tasks[q], unfinished[q], worker[q], magics[q]>>
    BY <1>3, StepElsewhere DEF Elsewhere
  <2>3. QED  BY <2>1, <2>2, StageLocal
<1>4. QED  BY <1>2, <1>3 DEF StageInv

-----------------------------------------------------------------------------
(* A task moves from the list to the queue to a thread, and is called for. *)

\* If a process's URIs are apart and none was added to them, all are.
LEMMA ApartFrame ==
    ASSUME ApartInv, NEW p \in Procs, Elsewhere(p), ApartIn(p)', Pending(p)' \subseteq Pending(p)
    PROVE  /\ ApartInv'
           /\ \A q \in Procs \ {p} : Pending(q)' = Pending(q)
<1>1. ASSUME NEW q \in Procs \ {p} PROVE ApartIn(q)' /\ Pending(q)' = Pending(q)
  <2>1. UNCHANGED <<todo[q], tasks[q], worker[q]>> /\ ApartIn(q)
    BY DEF Elsewhere, ApartInv
  <2>2. QED  BY <2>1, PlacesLocal
<1>2. \A q \in Procs : Pending(q)' \subseteq Pending(q)
  BY <1>1
<1>3. QED  BY <1>1, <1>2 DEF ApartInv

\* AddTask: from the list to the queue.
LEMMA AddKeeps ==
    ASSUME ApplyTypeOK, NEW p \in Procs, ApartIn(p), AddTask(p)
    PROVE  ApartIn(p)' /\ Pending(p)' = Pending(p)
<1> DEFINE h == Head(todo[p])
<1>1. /\ todo[p] # <<>> /\ tasks' = [tasks EXCEPT ![p] = Append(@, h)]
      /\ todo' = [todo EXCEPT ![p] = Tail(@)] /\ worker' = worker
  BY DEF AddTask
<1>2. /\ tasks \in [Procs -> Seq(Uris \union {Exit})] /\ todo \in [Procs -> Seq(Uris)]
      /\ tasks[p] \in Seq(Uris \union {Exit}) /\ todo[p] \in Seq(Uris)
  BY DEF ApplyTypeOK
<1>3. tasks'[p] = Append(tasks[p], h) /\ todo'[p] = Tail(todo[p])
  BY <1>1, <1>2
<1>4. h \in Uris /\ Elems(todo[p]) = Elems(Tail(todo[p])) \union {h}
  BY <1>1, <1>2, ElemsTail
<1>5. DistinctIn(Tail(todo[p]), Uris) /\ h \notin Elems(Tail(todo[p]))
  BY <1>1, <1>2, <1>4, DistinctTail DEF ApartIn
<1>6. Elems(Append(tasks[p], h)) = Elems(tasks[p]) \union {h}
  BY <1>2, <1>4, ElemsAppend
<1>7. h \notin Elems(tasks[p]) /\ h \notin At(p)
  BY <1>4 DEF ApartIn, Todo, Queued
<1>8. DistinctIn(Append(tasks[p], h), Uris)
  BY <1>2, <1>4, <1>7, DistinctAppend DEF ApartIn
<1> HIDE DEF h
<1>9. At(p)' = At(p) /\ Todo(p) = Todo(p)' \union {h} /\ Queued(p)' = Queued(p) \union {h}
      /\ h \notin Todo(p)'
  BY <1>1, <1>3, <1>4, <1>5, <1>6 DEF At, Todo, Queued
<1>10. QED  BY <1>1, <1>3, <1>5, <1>7, <1>8, <1>9 DEF ApartIn, Pending

\* Shutdown: an exit value is no task.
LEMMA ShutdownKeeps ==
    ASSUME ApplyTypeOK, NEW p \in Procs, ApartIn(p), Shutdown(p)
    PROVE  ApartIn(p)' /\ Pending(p)' = Pending(p)
<1>1. tasks' = [tasks EXCEPT ![p] = Append(@, Exit)] /\ todo' = todo /\ worker' = worker
  BY DEF Shutdown
<1>2. tasks \in [Procs -> Seq(Uris \union {Exit})] /\ tasks[p] \in Seq(Uris \union {Exit})
  BY DEF ApplyTypeOK
<1>3. tasks'[p] = Append(tasks[p], Exit)
  BY <1>1, <1>2
<1>4. Elems(Append(tasks[p], Exit)) = Elems(tasks[p]) \union {Exit}
  BY <1>2, ElemsAppend
<1>5. DistinctIn(Append(tasks[p], Exit), Uris)
  BY <1>2, TaskNames, DistinctAppend DEF ApartIn
<1>6. At(p)' = At(p) /\ Todo(p)' = Todo(p) /\ Queued(p)' = Queued(p)
  BY <1>1, <1>3, <1>4, TaskNames DEF At, Todo, Queued
<1>7. QED  BY <1>1, <1>3, <1>5, <1>6 DEF ApartIn, Pending

\* GetTask: from the queue to a thread.
LEMMA GetKeeps ==
    ASSUME ApplyTypeOK, NEW p \in Procs, ApartIn(p), NEW w \in Threads, GetTask(p, w)
    PROVE  ApartIn(p)' /\ Pending(p)' = Pending(p)
<1> DEFINE x == Head(tasks[p])
<1>1. /\ worker[p][w] = Idle /\ tasks[p] # <<>>
      /\ worker' = [worker EXCEPT ![p][w] = x]
      /\ tasks' = [tasks EXCEPT ![p] = Tail(@)] /\ todo' = todo
  BY DEF GetTask
<1>2. /\ tasks \in [Procs -> Seq(Uris \union {Exit})] /\ tasks[p] \in Seq(Uris \union {Exit})
      /\ worker \in [Procs -> [Threads -> Uris \union {Idle, Exit}]]
  BY DEF ApplyTypeOK
<1>3. /\ tasks'[p] = Tail(tasks[p])
      /\ worker'[p][w] = x /\ \A v \in Threads : v # w => worker'[p][v] = worker[p][v]
  BY <1>1, <1>2
<1>4. Elems(tasks[p]) = Elems(Tail(tasks[p])) \union {x}
  BY <1>1, <1>2, ElemsTail
<1>5. DistinctIn(Tail(tasks[p]), Uris) /\ (x \in Uris => x \notin Elems(Tail(tasks[p])))
  BY <1>1, <1>2, DistinctTail DEF ApartIn
<1> HIDE DEF x
<1>6. /\ Todo(p)' = Todo(p)
      /\ Queued(p) = Queued(p)' \union ({x} \intersect Uris) /\ x \notin Queued(p)'
  BY <1>1, <1>3, <1>4, <1>5 DEF Todo, Queued
<1>7. worker[p][w] \notin Uris
  BY <1>1, TaskNames
<1>8. At(p)' = At(p) \union ({x} \intersect Uris)
  BY <1>3, <1>7 DEF At
<1>9. x \in Uris => x \notin At(p) /\ x \notin Todo(p)
  BY <1>6 DEF ApartIn
<1>10. \A v \in Threads : x \in Uris => worker[p][v] # x
  BY <1>9 DEF At
<1>11. \A v, t \in Threads : worker'[p][v] = worker'[p][t] /\ worker'[p][v] \in Uris => v = t
  BY <1>3, <1>10 DEF ApartIn
<1>12. QED  BY <1>1, <1>3, <1>5, <1>6, <1>8, <1>9, <1>11 DEF ApartIn, Pending

\* Between the calls nothing is lost and nothing is added.
LEMMA QuietKeeps ==
    ASSUME ApplyTypeOK, ApartInv, NEW p \in Procs, ApplyStep(p) \/ Kill(p)
    PROVE  ApartInv' /\ (\A q \in Procs : Pending(q)' = Pending(q)) /\ tries' = tries
<1>1. ApartIn(p) /\ Elsewhere(p)
  BY StepElsewhere DEF ApartInv, ProcStep
<1>2. CASE FeedEnds(p) \/ WaitCompletion(p) \/ JoinThreads(p) \/ ReadCount(p) \/ WriteCount(p) \/ Kill(p)
  <2>1. UNCHANGED <<todo, tasks, worker>>
    BY <1>2 DEF FeedEnds, WaitCompletion, JoinThreads, ReadCount, WriteCount, Kill
  <2>2. UNCHANGED <<todo[p], tasks[p], worker[p]>>
    BY <2>1
  <2>3. ApartIn(p)' /\ Pending(p)' = Pending(p)
    BY <1>1, <2>2, PlacesLocal
  <2>4. tries' = tries
    BY <1>2 DEF FeedEnds, WaitCompletion, JoinThreads, ReadCount, WriteCount, Kill
  <2>5. QED  BY <1>1, <2>3, <2>4, ApartFrame
<1>3. CASE AddTask(p) \/ Shutdown(p) \/ \E w \in Threads : GetTask(p, w)
  <2>1. ApartIn(p)' /\ Pending(p)' = Pending(p)
    BY <1>1, <1>3, AddKeeps, ShutdownKeeps, GetKeeps
  <2>2. tries' = tries
    BY <1>3 DEF AddTask, Shutdown, GetTask
  <2>3. QED  BY <1>1, <2>1, <2>2, ApartFrame
<1>4. QED  BY <1>2, <1>3 DEF ApplyStep

\* A call takes its URI from what is pending in its process.
LEMMA CallTakes ==
    ASSUME ApplyTypeOK, StageInv, ApartInv, NEW p \in Procs, NEW u \in Uris,
           NEW ok \in BOOLEAN, Call(p, u, ok)
    PROVE  /\ ApartInv' /\ u \in Pending(p) /\ Pending(p)' = Pending(p) \ {u}
           /\ \A q \in Procs \ {p} : Pending(q)' = Pending(q) /\ u \notin Pending(q)
           /\ tries' = [tries EXCEPT ![u] = @ + 1]
           /\ total' = [total EXCEPT ![p] = IF ok THEN @ + 1 ELSE @]
           /\ main[p] \in {"feed", "join"} /\ UNCHANGED <<count, register>>
<1>1. ApartIn(p) /\ Elsewhere(p)
  BY StepElsewhere DEF ApartInv, ProcStep
<1>2. /\ todo \in [Procs -> Seq(Uris)] /\ todo[p] \in Seq(Uris)
      /\ worker \in [Procs -> [Threads -> Uris \union {Idle, Exit}]]
  BY DEF ApplyTypeOK
<1>3. ApartIn(p)' /\ u \in Pending(p) /\ Pending(p)' = Pending(p) \ {u}
  <2>1. CASE RunsHere(p, u, ok)
    <3>1. todo[p] # <<>> /\ u = Head(todo[p]) /\ todo' = [todo EXCEPT ![p] = Tail(@)]
          /\ tasks' = tasks /\ worker' = worker
      BY <2>1 DEF RunsHere
    <3>2. todo'[p] = Tail(todo[p]) /\ Elems(todo[p]) = Elems(Tail(todo[p])) \union {u}
      BY <1>2, <3>1, ElemsTail
    <3>3. DistinctIn(Tail(todo[p]), Uris) /\ u \notin Elems(Tail(todo[p]))
      BY <1>1, <1>2, <3>1, DistinctTail DEF ApartIn
    <3>4. Todo(p) = Todo(p)' \union {u} /\ u \notin Todo(p)' /\ Queued(p)' = Queued(p) /\ At(p)' = At(p)
      BY <3>1, <3>2, <3>3 DEF Todo, Queued, At
    <3>5. QED  BY <1>1, <3>1, <3>2, <3>3, <3>4 DEF ApartIn, Pending
  <2>2. CASE \E w \in Threads : Runs(p, w, u, ok)
    <3>1. PICK w \in Threads : worker[p][w] = u /\ worker' = [worker EXCEPT ![p][w] = Idle]
                               /\ tasks' = tasks /\ todo' = todo
      BY <2>2 DEF Runs
    <3>2. worker'[p][w] = Idle /\ \A v \in Threads : v # w => worker'[p][v] = worker[p][v]
      BY <1>2, <3>1
    <3>3. \A v \in Threads : v # w => worker[p][v] # u
      BY <1>1, <3>1 DEF ApartIn
    <3>4. At(p)' = At(p) \ {u} /\ u \in At(p)
      BY <3>1, <3>2, <3>3, TaskNames DEF At
    <3>5. Todo(p)' = Todo(p) /\ Queued(p)' = Queued(p)
      BY <3>1 DEF Todo, Queued
    <3>6. u \notin Todo(p) /\ u \notin Queued(p)
      BY <1>1, <3>4 DEF ApartIn
    <3>7. \A v, t \in Threads : worker'[p][v] = worker'[p][t] /\ worker'[p][v] \in Uris => v = t
      BY <1>1, <3>2, TaskNames DEF ApartIn
    <3>8. QED  BY <1>1, <3>1, <3>4, <3>5, <3>6, <3>7 DEF ApartIn, Pending
  <2>3. QED  BY <2>1, <2>2 DEF Call
<1>4. ApartInv' /\ \A q \in Procs \ {p} : Pending(q)' = Pending(q)
  BY <1>1, <1>3, ApartFrame
<1>5. \A q \in Procs \ {p} : u \notin Pending(q)
  BY <1>3 DEF ApartInv
<1>6. /\ tries' = [tries EXCEPT ![u] = @ + 1]
      /\ total' = [total EXCEPT ![p] = IF ok THEN @ + 1 ELSE @]
      /\ UNCHANGED <<count, register>>
  BY DEF Call, Runs, RunsHere
<1>7. main[p] \in {"feed", "join"}
  <2>1. CASE RunsHere(p, u, ok)
    BY <2>1 DEF RunsHere
  <2>2. CASE \E w \in Threads : Runs(p, w, u, ok)
    <3>1. Busy(p) # {} /\ main[p] \in Running
      BY <2>2 DEF Runs, Busy
    <3>2. QED  BY <3>1 DEF StageInv, Stage, Running
  <2>3. QED  BY <2>1, <2>2 DEF Call
<1>8. QED  BY <1>3, <1>4, <1>5, <1>6, <1>7

-----------------------------------------------------------------------------
(* The steps of the command, by what they change.                          *)

MoveTypeOK ==
    /\ cmd \in {"list", "cp", "rm", "ok", "error"}
    /\ dst \in [Names -> Keys \union {NoKey}]
    /\ copied \subseteq Keys /\ removed \subseteq Keys

TypeInv == ListTypeOK /\ ApplyTypeOK /\ MoveTypeOK

\* The listing and other clients leave the processes and the command alone.
Aside ==
    /\ UNCHANGED <<applyVars, moveVars>>
    /\ Elems(listed) \subseteq Elems(listed')
    /\ listed' = listed \/ cmd = "list"

\* The command ends.
Outcome ==
    /\ UNCHANGED <<listed, applyVars, dst, copied, removed>>
    /\ cmd' \in {"ok", "error"} /\ (cmd' = "ok" => cmd = "rm")

StartRm == CpEnds /\ ~Reported

Quiet(p) == Steps(p) \/ KillChild(p)

\* Every step is of one of the kinds above, or a call.
LEMMA StepKinds ==
    ASSUME TypeInv, [Next]_vars
    PROVE  \/ Aside \/ Outcome \/ StartCp \/ StartRm
           \/ \E p \in Procs : Quiet(p)
           \/ \E p \in Procs, u \in Uris, ok \in BOOLEAN : CopyFunc(p, u, ok) \/ RemoveFunc(p, u, ok)
<1>1. CASE List
  <2>1. ListStep /\ cmd = "list" /\ UNCHANGED <<applyVars, moveVars>>
    BY <1>1 DEF List
  <2>2. CASE YieldKey
    BY <2>1, <2>2, YieldEffect DEF Aside, TypeInv
  <2>3. CASE GetPage \/ GetPageFails \/ NextPage
    <3>1. listed' = listed
      BY <2>3 DEF GetPage, GetPageFails, NextPage
    <3>2. QED  BY <2>1, <3>1 DEF Aside
  <2>4. QED  BY <2>1, <2>2, <2>3 DEF ListStep
<1>2. CASE Others \/ UNCHANGED vars
  <2>1. listed' = listed /\ UNCHANGED <<applyVars, moveVars>>
    BY <1>2 DEF Others, ChangeBucket, vars, listVars
  <2>2. QED  BY <2>1 DEF Aside
<1>3. CASE ListingFails \/ RmEnds
  <2>1. listed' = listed
    BY <1>3 DEF ListingFails, RmEnds, listVars
  <2>2. QED  BY <1>3, <2>1 DEF ListingFails, RmEnds, Outcome
<1>4. CASE CpEnds
  <2>1. CASE Reported
    BY <1>4, <2>1 DEF CpEnds, Outcome, listVars
  <2>2. QED  BY <1>4, <2>1 DEF StartRm
<1>5. CASE \E p \in Procs : Steps(p) \/ Calls(p) \/ KillChild(p)
  BY <1>5 DEF Quiet, Calls
<1>6. QED  BY <1>1, <1>2, <1>3, <1>4, <1>5 DEF Next, Gsutil

\* The steps of the command that are not the listing's leave it alone, but
\* that rm takes keys from the bucket.
LEMMA ListingStep ==
    ASSUME TypeInv, [Next]_vars
    PROVE  ListStep \/ Shrinks
<1>0. bucket \subseteq Keys /\ changes \in Nat
  BY DEF TypeInv, ListTypeOK
<1>1. CASE List
  BY <1>1 DEF List
<1>2. CASE Others
  BY <1>2, ChangeShrinks DEF Others, TypeInv
<1>3. CASE \E p \in Procs, u \in Uris, ok \in BOOLEAN : RemoveFunc(p, u, ok)
  BY <1>0, <1>3 DEF RemoveFunc, Shrinks
<1>4. CASE UNCHANGED listVars
  BY <1>0, <1>4 DEF listVars, Shrinks
<1>5. ASSUME NEW p \in Procs, Steps(p) \/ Calls(p) \/ KillChild(p) PROVE ListStep \/ Shrinks
  <2>1. ASSUME NEW u \in Uris, NEW ok \in BOOLEAN, CopyFunc(p, u, ok) PROVE UNCHANGED listVars
    BY <2>1 DEF CopyFunc
  <2>2. Steps(p) \/ KillChild(p) => UNCHANGED listVars
    BY DEF Steps, KillChild
  <2>3. QED  BY <1>3, <1>4, <1>5, <2>1, <2>2 DEF Calls
<1>6. CASE ListingFails \/ StartCp \/ CpEnds \/ RmEnds \/ UNCHANGED vars
  <2>1. UNCHANGED listVars
    BY <1>6 DEF ListingFails, StartCp, CpEnds, RmEnds, vars
  <2>2. QED  BY <1>4, <2>1
<1>7. QED  BY <1>1, <1>2, <1>5, <1>6 DEF Next, Gsutil

\* A copy or a removal is a call, and changes nothing of the listing.
LEMMA CallIsProcStep ==
    ASSUME NEW p \in Procs, NEW u \in Uris, NEW ok \in BOOLEAN,
           CopyFunc(p, u, ok) \/ RemoveFunc(p, u, ok)
    PROVE  Call(p, u, ok) /\ ProcStep(p) /\ listed' = listed /\ cmd' = cmd
BY DEF CopyFunc, RemoveFunc, ProcStep, listVars

\* A step between the calls, and what it leaves alone.
LEMMA QuietIsProcStep ==
    ASSUME NEW p \in Procs, Quiet(p)
    PROVE  (ApplyStep(p) \/ Kill(p)) /\ ProcStep(p) /\ UNCHANGED <<listed, moveVars>>
BY DEF Quiet, Steps, KillChild, ProcStep, listVars

\* cp and rm begin with every listed key pending.
LEMMA StartFresh ==
    ASSUME TypeInv, StartCp \/ StartRm
    PROVE  /\ ApplyTypeOK' /\ StageInv' /\ ApartInv' /\ Fresh'
           /\ UNCHANGED <<listed, config, dst, copied, removed>>
           /\ StartCp => cmd = "list" /\ cmd' = "cp" /\ counted' = TRUE
           /\ StartRm => cmd = "cp" /\ cmd' = "rm" /\ Joined /\ ~Reported
<1>1. \E uris \in Expansion, c \in BOOLEAN :
         StartApply(uris, c) /\ listed' = listed /\ (StartCp => c = TRUE)
  <2>1. CASE StartCp
    BY <2>1 DEF StartCp, listVars
  <2>2. CASE StartRm /\ ~StartCp
    BY <2>2 DEF StartRm, CpEnds, listVars
  <2>3. QED  BY <2>1, <2>2
<1>2. ApplyTypeOK' /\ StageInv' /\ ApartInv' /\ Fresh' /\ config' = config
      /\ (StartCp => counted' = TRUE)
  <2>1. PICK uris \in Expansion, c \in BOOLEAN :
           StartApply(uris, c) /\ listed' = listed /\ (StartCp => c = TRUE)
    BY <1>1
  <2>2. config' = config
    BY <2>1 DEF StartApply
  <2>3. QED  BY <2>1, <2>2, StartEffect DEF TypeInv
<1>3. QED  BY <1>1, <1>2 DEF StartCp, StartRm, CpEnds

-----------------------------------------------------------------------------
(* The processes' part of the invariant is kept.                           *)

ProcInv == TypeInv /\ StageInv /\ ApartInv

\* The types and stages of the processes, and that their URIs are apart.
LEMMA ProcKept == ProcInv /\ [Next]_vars => ApplyTypeOK' /\ StageInv' /\ ApartInv'
<1> SUFFICES ASSUME ProcInv, [Next]_vars PROVE ApplyTypeOK' /\ StageInv' /\ ApartInv'
  OBVIOUS
<1>0. TypeInv /\ ApplyTypeOK /\ StageInv /\ ApartInv
  BY DEF ProcInv, TypeInv
<1>1. CASE Aside \/ Outcome
  <2>1. UNCHANGED applyVars
    BY <1>1 DEF Aside, Outcome
  <2>2. UNCHANGED <<config, main, todo, tasks, unfinished, worker, magics>>
    BY <2>1 DEF applyVars
  <2>3. ApplyTypeOK'
    BY <1>0, <2>1 DEF applyVars, ApplyTypeOK
  <2>4. \A p \in Procs : Stage(p)'
    BY <1>0, <2>2, StageLocal DEF StageInv
  <2>5. \A p \in Procs : ApartIn(p)' /\ Pending(p)' = Pending(p)
    BY <1>0, <2>2, PlacesLocal DEF ApartInv
  <2>6. QED  BY <1>0, <2>3, <2>4, <2>5 DEF StageInv, ApartInv
<1>2. CASE StartCp \/ StartRm
  BY <1>0, <1>2, StartFresh
<1>3. CASE \E p \in Procs : Quiet(p)
  BY <1>0, <1>3, QuietIsProcStep, StepStage, QuietKeeps
<1>4. CASE \E p \in Procs, u \in Uris, ok \in BOOLEAN : CopyFunc(p, u, ok) \/ RemoveFunc(p, u, ok)
  BY <1>0, <1>4, CallIsProcStep, StepStage, CallTakes
<1>5. QED  BY <1>0, <1>1, <1>2, <1>3, <1>4, StepKinds

\* A process that has ended, and not by an exception, has nothing pending.
LEMMA NothingLeft ==
    ASSUME TypeInv, StageInv, NEW p \in Procs, main[p] \in {"off", "done"}
    PROVE  Pending(p) = {}
<1>1. todo[p] = <<>> /\ Busy(p) = {} /\ Elems(tasks[p]) \subseteq {Exit}
  BY DEF StageInv, Stage
<1>2. QED  BY <1>1, ElemsEmpty, NotBusy, TaskNames DEF Pending, Todo, Queued

-----------------------------------------------------------------------------
(* The command's part.                                                     *)

\* The effect of a call on the destination and the bucket.
LEMMA CallWrites ==
    ASSUME NEW p \in Procs, NEW u \in Uris, NEW ok \in BOOLEAN
    PROVE  /\ CopyFunc(p, u, ok) =>
                 /\ cmd = "cp" /\ removed' = removed
                 /\ ok => dst' = [dst EXCEPT ![Name[u]] = u] /\ copied' = copied \union {u}
                 /\ ~ok => dst' = dst /\ copied' = copied
           /\ RemoveFunc(p, u, ok) =>
                 /\ cmd = "rm" /\ UNCHANGED <<dst, copied>>
                 /\ removed' \subseteq removed \union {u}
BY DEF CopyFunc, RemoveFunc

\* The types of the command's variables.
LEMMA MoveTypeKept == TypeInv /\ [Next]_vars => MoveTypeOK'
<1> SUFFICES ASSUME TypeInv, [Next]_vars PROVE MoveTypeOK'
  OBVIOUS
<1>0. MoveTypeOK
  BY DEF TypeInv
<1>1. CASE Aside \/ Outcome
  BY <1>0, <1>1 DEF Aside, Outcome, moveVars, MoveTypeOK
<1>2. CASE StartCp \/ StartRm
  BY <1>0, <1>2, StartFresh DEF MoveTypeOK
<1>3. CASE \E p \in Procs : Quiet(p)
  <2>1. UNCHANGED moveVars
    BY <1>3, QuietIsProcStep
  <2>2. QED  BY <1>0, <2>1 DEF moveVars, MoveTypeOK
<1>4. CASE \E p \in Procs, u \in Uris, ok \in BOOLEAN : CopyFunc(p, u, ok) \/ RemoveFunc(p, u, ok)
  <2>1. PICK p \in Procs, u \in Uris, ok \in BOOLEAN : CopyFunc(p, u, ok) \/ RemoveFunc(p, u, ok)
    BY <1>4
  <2>2. cmd' = cmd /\ u \in Keys /\ Name[u] \in Names
    BY <2>1, CallIsProcStep, UrisAreKeys DEF Names
  <2>3. CASE CopyFunc(p, u, ok)
    BY <1>0, <2>2, <2>3, CallWrites DEF MoveTypeOK
  <2>4. CASE RemoveFunc(p, u, ok)
    BY <1>0, <2>2, <2>4, CallWrites DEF MoveTypeOK
  <2>5. QED  BY <2>1, <2>3, <2>4
<1>5. QED  BY <1>1, <1>2, <1>3, <1>4, StepKinds

\* Each listed URI is pending or was called for, once.
LEMMA OnceKept == ProcInv /\ OnceInv /\ [Next]_vars => OnceInv'
<1> SUFFICES ASSUME ProcInv, OnceInv, [Next]_vars PROVE OnceInv'
  OBVIOUS
<1>0. TypeInv /\ ApplyTypeOK /\ StageInv /\ ApartInv /\ tries \in [Uris -> Nat]
  BY DEF ProcInv, TypeInv, ApplyTypeOK
<1>1. CASE Aside \/ Outcome
  <2>1. UNCHANGED applyVars /\ Elems(listed) \subseteq Elems(listed')
        /\ (cmd' \in {"cp", "rm"} => cmd \in {"cp", "rm"} /\ listed' = listed)
    BY <1>1 DEF Aside, Outcome, moveVars
  <2>2. UNCHANGED <<todo, tasks, worker, tries>>
    BY <2>1 DEF applyVars
  <2>3. \A p \in Procs : Pending(p)' = Pending(p)
    BY <2>2, PlacesLocal
  <2>4. QED  BY <2>1, <2>2, <2>3 DEF OnceInv
<1>2. CASE StartCp \/ StartRm
  <2>1. Fresh' /\ listed' = listed
    BY <1>0, <1>2, StartFresh
  <2>2. Elems(listed) \subseteq Uris
    BY <1>0, UrisAreKeys DEF TypeInv, ListTypeOK, Elems
  <2>3. \A u \in Uris : tries'[u] = 0
    BY <2>1 DEF Fresh
  <2>4. /\ \A p \in Procs : Pending(p)' \subseteq Elems(listed')
        /\ \A u \in Elems(listed') : \E p \in Procs : u \in Pending(p)'
    BY <2>1 DEF Fresh
  <2>5. \A p \in Procs : \A u \in Pending(p)' : tries'[u] = 0
    BY <2>1, <2>2, <2>3, <2>4
  <2>6. QED  BY <2>3, <2>4, <2>5 DEF OnceInv
<1>3. CASE \E p \in Procs : Quiet(p)
  <2>1. (\A q \in Procs : Pending(q)' = Pending(q)) /\ tries' = tries /\ listed' = listed
        /\ cmd' = cmd
    BY <1>0, <1>3, QuietIsProcStep, QuietKeeps DEF moveVars
  <2>2. QED  BY <2>1 DEF OnceInv
<1>4. CASE \E p \in Procs, u \in Uris, ok \in BOOLEAN : CopyFunc(p, u, ok) \/ RemoveFunc(p, u, ok)
  <2>1. PICK p \in Procs, u \in Uris, ok \in BOOLEAN : CopyFunc(p, u, ok) \/ RemoveFunc(p, u, ok)
    BY <1>4
  <2>2. Call(p, u, ok) /\ listed' = listed /\ cmd' = cmd
    BY <2>1, CallIsProcStep
  <2>3. /\ u \in Pending(p) /\ Pending(p)' = Pending(p) \ {u}
        /\ \A q \in Procs \ {p} : Pending(q)' = Pending(q) /\ u \notin Pending(q)
        /\ tries' = [tries EXCEPT ![u] = @ + 1]
    BY <1>0, <2>2, CallTakes
  <2>4. tries'[u] = 1 /\ \A v \in Uris : v # u => tries'[v] = tries[v]
    BY <1>0, <2>3 DEF OnceInv
  <2>5. \A q \in Procs : Pending(q)' \subseteq Pending(q) \ {u}
    BY <2>3
  <2>6. \A q \in Procs : Pending(q) \subseteq Uris
    BY <1>0, UrisAreKeys DEF OnceInv, TypeInv, ListTypeOK, Elems
  <2>7. \A v \in Uris : v # u => \A q \in Procs : v \in Pending(q) => v \in Pending(q)'
    BY <2>3
  <2>8. Elems(listed) \subseteq Uris
    BY <1>0, UrisAreKeys DEF TypeInv, ListTypeOK, Elems
  <2>9. \A q \in Procs : Pending(q)' \subseteq Elems(listed') /\ \A v \in Pending(q)' : tries'[v] = 0
    BY <2>2, <2>4, <2>5, <2>6 DEF OnceInv
  <2>10. \A v \in Uris : tries'[v] <= 1
    BY <2>4 DEF OnceInv
  <2>11. cmd \in {"cp", "rm"} =>
            \A v \in Elems(listed) : tries'[v] = 1 \/ \E q \in Procs : v \in Pending(q)'
    BY <2>4, <2>7, <2>8 DEF OnceInv
  <2>12. QED  BY <2>2, <2>9, <2>10, <2>11 DEF OnceInv
<1>5. QED  BY <1>0, <1>1, <1>2, <1>3, <1>4, StepKinds

\* The function was called for each listed URI once every process has ended.
LEMMA AllCalled ==
    ASSUME TypeInv, StageInv, OnceInv, cmd \in {"cp", "rm"},
           \A p \in Procs : main[p] \in {"off", "done"}
    PROVE  \A u \in Elems(listed) : tries[u] = 1
BY NothingLeft DEF OnceInv

\* Nothing is copied before cp, nothing removed before rm, and what was copied was
\* called for.
LEMMA PhaseKept == ProcInv /\ OnceInv /\ PhaseInv /\ [Next]_vars => PhaseInv'
<1> SUFFICES ASSUME ProcInv, OnceInv, PhaseInv, [Next]_vars PROVE PhaseInv'
  OBVIOUS
<1>0. /\ TypeInv /\ ApplyTypeOK /\ StageInv /\ ApartInv /\ tries \in [Uris -> Nat]
      /\ copied \subseteq Uris
  BY UrisAreKeys DEF ProcInv, TypeInv, ApplyTypeOK, MoveTypeOK
<1>1. CASE Aside \/ Outcome
  BY <1>1 DEF Aside, Outcome, moveVars, applyVars, PhaseInv
<1>2. CASE StartCp \/ StartRm
  <2>1. CASE StartCp
    BY <1>0, <2>1, StartFresh DEF PhaseInv
  <2>2. CASE StartRm
    BY <1>0, <2>2, StartFresh DEF PhaseInv
  <2>3. QED  BY <1>2, <2>1, <2>2
<1>3. CASE \E p \in Procs : Quiet(p)
  <2>1. tries' = tries /\ counted' = counted /\ UNCHANGED moveVars
    BY <1>0, <1>3, QuietIsProcStep, QuietKeeps, StepElsewhere
  <2>2. QED  BY <2>1 DEF PhaseInv, moveVars
<1>4. CASE \E p \in Procs, u \in Uris, ok \in BOOLEAN : CopyFunc(p, u, ok) \/ RemoveFunc(p, u, ok)
  <2>1. PICK p \in Procs, u \in Uris, ok \in BOOLEAN : CopyFunc(p, u, ok) \/ RemoveFunc(p, u, ok)
    BY <1>4
  <2>2. Call(p, u, ok) /\ cmd' = cmd /\ counted' = counted
    BY <1>0, <2>1, CallIsProcStep, StepElsewhere
  <2>3. u \in Pending(p) /\ tries' = [tries EXCEPT ![u] = @ + 1]
    BY <1>0, <2>2, CallTakes
  <2>4. tries'[u] = 1 /\ \A v \in Uris : v # u => tries'[v] = tries[v]
    BY <1>0, <2>3 DEF OnceInv
  <2>5. CASE CopyFunc(p, u, ok)
    <3>1. cmd = "cp" /\ removed' = removed /\ copied' \subseteq copied \union {u}
      BY <2>5, CallWrites
    <3>2. QED  BY <1>0, <2>2, <2>4, <3>1 DEF PhaseInv
  <2>6. CASE RemoveFunc(p, u, ok)
    BY <2>2, <2>6, CallWrites DEF PhaseInv
  <2>7. QED  BY <2>1, <2>5, <2>6
<1>5. QED  BY <1>0, <1>1, <1>2, <1>3, <1>4, StepKinds

\* A copied key's name at the destination holds a copied key of that name.
LEMMA ArrivedKept == TypeInv /\ PhaseInv /\ ArrivedInv /\ [Next]_vars => ArrivedInv'
<1> SUFFICES ASSUME TypeInv, PhaseInv, ArrivedInv, [Next]_vars PROVE ArrivedInv'
  OBVIOUS
<1>0. dst \in [Names -> Keys \union {NoKey}] /\ copied \subseteq Keys
  BY DEF TypeInv, MoveTypeOK
<1>1. CASE UNCHANGED <<dst, copied>>
  BY <1>1 DEF ArrivedInv
<1>2. CASE Aside \/ Outcome \/ StartCp \/ StartRm \/ \E p \in Procs : Quiet(p)
  <2>1. UNCHANGED <<dst, copied>>
    BY <1>2, StartFresh, QuietIsProcStep DEF Aside, Outcome, moveVars
  <2>2. QED  BY <1>1, <2>1
<1>3. CASE \E p \in Procs, u \in Uris, ok \in BOOLEAN : CopyFunc(p, u, ok) \/ RemoveFunc(p, u, ok)
  <2>1. PICK p \in Procs, u \in Uris, ok \in BOOLEAN : CopyFunc(p, u, ok) \/ RemoveFunc(p, u, ok)
    BY <1>3
  <2>2. CASE CopyFunc(p, u, ok) /\ ok
    <3>1. dst' = [dst EXCEPT ![Name[u]] = u] /\ copied' = copied \union {u} /\ u \in Keys
      BY <2>2, CallWrites, UrisAreKeys
    <3>2. \A x \in copied' : Name[x] \in Names
      BY <1>0, <3>1 DEF Names
    <3>3. \A x \in copied' : dst'[Name[x]] = IF Name[x] = Name[u] THEN u ELSE dst[Name[x]]
      BY <1>0, <3>1, <3>2
    <3>4. QED  BY <3>1, <3>3 DEF ArrivedInv
  <2>3. CASE (CopyFunc(p, u, ok) /\ ~ok) \/ RemoveFunc(p, u, ok)
    BY <1>1, <2>3, CallWrites
  <2>4. QED  BY <2>1, <2>2, <2>3
<1>4. QED  BY <1>2, <1>3, StepKinds

\* A process takes no step before it begins or after it has ended.
LEMMA ProcRuns ==
    ASSUME NEW p, ProcStep(p)
    PROVE  main[p] \in Running
BY DEF ProcStep, ApplyStep, AddTask, FeedEnds, WaitCompletion, Shutdown, JoinThreads,
       ReadCount, WriteCount, GetTask, Kill, Call, Runs, RunsHere, Running

\* A call that fails is noted by its process.
LEMMA CallReports ==
    ASSUME ApplyTypeOK, NEW p \in Procs, NEW u \in Uris, NEW ok \in BOOLEAN, Call(p, u, ok)
    PROVE  /\ okay'[p] => okay[p]
           /\ ~ok => main'[p] = "raised" \/ ~okay'[p]
           /\ ok => main' = main
<1>1. okay \in [Procs -> BOOLEAN] /\ main = [q \in Procs |-> main[q]]
  BY DEF ApplyTypeOK
<1>2. CASE RunsHere(p, u, ok)
  BY <1>1, <1>2 DEF RunsHere, MainGoto
<1>3. CASE \E w \in Threads : Runs(p, w, u, ok)
  BY <1>1, <1>3 DEF Runs
<1>4. QED  BY <1>2, <1>3 DEF Call

\* With one process, the only one that runs is number 1.
LEMMA OnlyOne ==
    ASSUME TypeInv, StageInv, Alone
    PROVE  /\ 1 \in Procs
           /\ \A p \in Procs : main[p] # "off" => p = 1
<1>1. config[1] = 1 /\ 1 \in Procs /\ \A p \in Procs : p \in Nat \ {0}
  BY ConfigType DEF TypeInv, Alone
<1>2. QED  BY <1>1 DEF StageInv, Stage

\* In one process, rm begins only after every listed key has been copied.
LEMMA CopiedKept ==
    ProcInv /\ OnceInv /\ PhaseInv /\ CopiedInv /\ [Next]_vars => CopiedInv'
<1> SUFFICES ASSUME ProcInv, OnceInv, PhaseInv, CopiedInv, [Next]_vars, Alone'
             PROVE  /\ cmd' = "cp" /\ main'[1] # "raised" /\ okay'[1] =>
                          \A u \in Uris : tries'[u] = 1 => u \in copied'
                    /\ cmd' \in {"rm", "ok"} => Elems(listed') \subseteq copied'
                    /\ removed' \subseteq copied'
  BY DEF CopiedInv
<1>0. TypeInv /\ ApplyTypeOK /\ StageInv /\ ApartInv /\ tries \in [Uris -> Nat]
  BY DEF ProcInv, TypeInv, ApplyTypeOK
<1>1. CASE Aside \/ Outcome
  <2>1. UNCHANGED <<config, main, okay, tries, copied, removed>>
        /\ (cmd' = "cp" => cmd = "cp") /\ (cmd' \in {"rm", "ok"} => cmd \in {"rm", "ok"} /\ listed' = listed)
    BY <1>1 DEF Aside, Outcome, moveVars, applyVars
  <2>2. Alone
    BY <2>1 DEF Alone
  <2>3. QED  BY <2>1, <2>2 DEF CopiedInv
<1>2. CASE StartCp
  <2>1. Fresh' /\ cmd' = "cp" /\ UNCHANGED <<config, copied, removed>>
    BY <1>0, <1>2, StartFresh
  <2>2. Alone /\ \A u \in Uris : tries'[u] # 1
    BY <2>1 DEF Fresh, Alone
  <2>3. QED  BY <2>1, <2>2 DEF CopiedInv
<1>3. CASE StartRm
  <2>1. /\ UNCHANGED <<listed, config, copied, removed>>
        /\ cmd = "cp" /\ cmd' = "rm" /\ Joined /\ ~Reported
    BY <1>0, <1>3, StartFresh
  <2>2. Alone
    BY <2>1 DEF Alone
  <2>3. main[1] # "raised" /\ okay[1]
    BY <2>1, <2>2 DEF Reported
  <2>4. \A p \in Procs : main[p] \in {"off", "done"}
    BY <1>0, <2>1, <2>2, <2>3, OnlyOne DEF Joined
  <2>5. \A u \in Elems(listed) : tries[u] = 1
    BY <1>0, <2>1, <2>4, AllCalled
  <2>6. Elems(listed) \subseteq Uris
    BY <1>0, UrisAreKeys DEF TypeInv, ListTypeOK, Elems
  <2>7. Elems(listed) \subseteq copied
    BY <2>1, <2>2, <2>3, <2>5, <2>6 DEF CopiedInv
  <2>8. QED  BY <2>1, <2>2, <2>7 DEF CopiedInv
<1>4. CASE \E p \in Procs : Quiet(p)
  <2>1. PICK p \in Procs : Quiet(p)
    BY <1>4
  <2>2. /\ ApplyStep(p) \/ Kill(p)
        /\ ProcStep(p) /\ UNCHANGED <<listed, moveVars>>
    BY <2>1, QuietIsProcStep
  <2>3. tries' = tries /\ okay' = okay /\ config' = config
    BY <1>0, <2>2, QuietKeeps, StepElsewhere
       DEF ApplyStep, AddTask, FeedEnds, WaitCompletion, Shutdown, JoinThreads, ReadCount,
           WriteCount, GetTask, Kill
  <2>4. Alone
    BY <2>3 DEF Alone
  <2>5. p = 1 /\ main[1] # "raised"
    BY <1>0, <2>2, <2>4, ProcRuns, OnlyOne DEF Running
  <2>6. QED  BY <2>2, <2>3, <2>4, <2>5 DEF CopiedInv, moveVars
<1>5. CASE \E p \in Procs, u \in Uris, ok \in BOOLEAN : CopyFunc(p, u, ok) \/ RemoveFunc(p, u, ok)
  <2>1. PICK p \in Procs, u \in Uris, ok \in BOOLEAN : CopyFunc(p, u, ok) \/ RemoveFunc(p, u, ok)
    BY <1>5
  <2>2. Call(p, u, ok) /\ ProcStep(p) /\ listed' = listed /\ cmd' = cmd /\ config' = config
    BY <1>0, <2>1, CallIsProcStep, StepElsewhere
  <2>3. Alone
    BY <2>2 DEF Alone
  <2>4. p = 1 /\ main[1] # "raised"
    BY <1>0, <2>2, <2>3, ProcRuns, OnlyOne DEF Running
  <2>5. u \in Pending(p) /\ tries' = [tries EXCEPT ![u] = @ + 1]
    BY <1>0, <2>2, CallTakes
  <2>6. CASE CopyFunc(p, u, ok)
    <3>1. cmd = "cp" /\ removed' = removed /\ (ok => copied' = copied \union {u})
          /\ (~ok => copied' = copied)
      BY <2>6, CallWrites
    <3>2. (okay'[1] => okay[1]) /\ (~ok => main'[1] = "raised" \/ ~okay'[1])
      BY <1>0, <2>2, <2>4, CallReports
    <3>3. \A v \in Uris : v # u => tries'[v] = tries[v]
      BY <1>0, <2>5
    <3>4. QED  BY <2>2, <2>3, <2>4, <3>1, <3>2, <3>3 DEF CopiedInv
  <2>7. CASE RemoveFunc(p, u, ok)
    <3>1. cmd = "rm" /\ copied' = copied /\ removed' \subseteq removed \union {u}
      BY <2>7, CallWrites
    <3>2. u \in Elems(listed)
      BY <2>5 DEF OnceInv
    <3>3. QED  BY <2>2, <2>3, <3>1, <3>2 DEF CopiedInv
  <2>8. QED  BY <2>1, <2>6, <2>7
<1>6. QED  BY <1>0, <1>1, <1>2, <1>3, <1>4, <1>5, StepKinds

-----------------------------------------------------------------------------
(* What cp reports.                                                        *)

\* The keys that were copied can be counted, also by process.
LEMMA OwnedFinite ==
    ASSUME TypeInv, NEW owner
    PROVE  /\ IsFiniteSet(copied) /\ Cardinality(copied) \in Nat
           /\ \A p : IsFiniteSet(Of(owner, p)) /\ Cardinality(Of(owner, p)) \in Nat
                     /\ Cardinality(Of(owner, p)) <= Cardinality(copied)
           /\ IsFiniteSet(Settled(owner)) /\ Cardinality(Settled(owner)) \in Nat
           /\ Cardinality(Settled(owner)) <= Cardinality(copied)
<1>1. IsFiniteSet(copied)
  BY KeysAssumption, FS_Subset DEF TypeInv, MoveTypeOK
<1>2. \A S \in SUBSET copied :
         IsFiniteSet(S) /\ Cardinality(S) \in Nat /\ Cardinality(S) <= Cardinality(copied)
  BY <1>1, FS_Subset, FS_CardinalityType
<1>3. Settled(owner) \in SUBSET copied /\ \A p : Of(owner, p) \in SUBSET copied
  BY DEF Settled, Of
<1>4. QED  BY <1>1, <1>2, <1>3

\* A step after which the same processes have settled, and none more is about
\* to, does not touch the books.
LEMMA BooksLeft ==
    ASSUME NEW owner \in [copied -> Procs], NEW sum, NEW read, Books(owner, sum, read),
           UNCHANGED <<config, copied, count, register>>,
           \A p \in Procs : main'[p] = "done" <=> main[p] = "done",
           \A p \in Procs : main'[p] = "store" => main[p] = "store",
           \A p \in Procs : total'[p] = total[p]
    PROVE  owner \in [copied' -> Procs] /\ Books(owner, sum, read)'
<1>1. Settled(owner)' = Settled(owner) /\ \A p : Of(owner, p)' = Of(owner, p)
  BY DEF Settled, Of
<1>2. Wrapped(sum)' = Wrapped(sum) /\ (\A p \in Procs : Wrapped(read[p])' = Wrapped(read[p]))
      /\ Alone' = Alone
  BY DEF Wrapped, Alone
<1>3. QED  BY <1>1, <1>2 DEF Books

\* A copy is booked for its process.
LEMMA BooksCopy ==
    ASSUME TypeInv, StageInv, ApartInv, TypeInv', NEW owner \in [copied -> Procs],
           NEW sum, NEW read, Books(owner, sum, read),
           NEW p \in Procs, NEW u \in Uris, Call(p, u, TRUE),
           u \notin copied, copied' = copied \union {u}
    PROVE  \E new \in [copied' -> Procs] : Books(new, sum, read)'
<1>0. ApplyTypeOK /\ total \in [Procs -> Nat]
  BY DEF TypeInv, ApplyTypeOK
<1>1. total' = [total EXCEPT ![p] = @ + 1] /\ UNCHANGED <<config, count, register>> /\ main' = main
      /\ main[p] \in {"feed", "join"}
  BY <1>0, CallTakes, CallReports DEF Call, Runs, RunsHere
<1>2. PICK new \in [copied' -> Procs] : new[u] = p /\ \A x \in copied : new[x] = owner[x] /\ x # u
  <2>1. [x \in copied' |-> IF x = u THEN p ELSE owner[x]] \in [copied' -> Procs]
    OBVIOUS
  <2>2. QED  BY <2>1
<1>3. /\ Of(new, p)' = Of(owner, p) \union {u} /\ u \notin Of(owner, p)
      /\ \A q \in Procs : q # p => Of(new, q)' = Of(owner, q)
  BY <1>2 DEF Of
<1>4. Settled(new)' = Settled(owner)
  BY <1>1, <1>2 DEF Settled
<1>5. Cardinality(Of(new, p)') = Cardinality(Of(owner, p)) + 1 /\ Cardinality(Of(owner, p)) \in Nat
  BY <1>3, OwnedFinite, FS_AddElement
<1>6. \A q \in Procs : total'[q] <= Cardinality(Of(new, q)')
  <2>1. total'[p] <= Cardinality(Of(new, p)')
    BY <1>0, <1>1, <1>5 DEF Books
  <2>2. ASSUME NEW q \in Procs, q # p PROVE total'[q] <= Cardinality(Of(new, q)')
    BY <1>0, <1>1, <1>3, <2>2 DEF Books
  <2>3. QED  BY <2>1, <2>2
<1>7. /\ count' = Wrapped(sum)' /\ sum <= Cardinality(Settled(new)')
      /\ \A q \in Procs : main'[q] = "store" =>
            register'[q] = Wrapped(read[q])' /\ read[q] <= Cardinality(Settled(new)')
  BY <1>1, <1>4 DEF Books, Wrapped
<1>8. ~Alone' /\ (\E q \in Procs : main'[q] = "done") =>
        \E q \in Procs : main'[q] = "done" /\ sum >= total'[q]
  <2>1. \A q \in Procs : main[q] = "done" => total'[q] = total[q]
    BY <1>0, <1>1
  <2>2. QED  BY <1>1, <2>1 DEF Books, Alone
<1>9. Books(new, sum, read)'
  BY <1>6, <1>7, <1>8 DEF Books
<1>10. QED  BY <1>2, <1>9

\* A process reads the shared integer, or ends without.
LEMMA BooksRead ==
    ASSUME TypeInv, StageInv, NEW owner \in [copied -> Procs], NEW sum \in Nat,
           NEW read \in [Procs -> Nat], Books(owner, sum, read), counted,
           NEW p \in Procs, ReadCount(p), copied' = copied
    PROVE  /\ owner \in [copied' -> Procs]
           /\ \E new \in [Procs -> Nat] : Books(owner, sum, new)'
<1>0. main = [q \in Procs |-> main[q]] /\ register \in [Procs -> Int]
  BY DEF TypeInv, ApplyTypeOK
<1>1. /\ main[p] = "count" /\ UNCHANGED <<config, total, count>> /\ Alone' = Alone
      /\ Alone => main' = [main EXCEPT ![p] = "done"] /\ register' = register
      /\ ~Alone => main' = [main EXCEPT ![p] = "store"] /\ register' = [register EXCEPT ![p] = count]
  BY DEF ReadCount, MainGoto, Alone
<1>2. /\ Settled(owner) \subseteq Settled(owner)' /\ \A q : Of(owner, q)' = Of(owner, q)
      /\ ~Alone => Settled(owner)' = Settled(owner)
  BY <1>0, <1>1 DEF Settled, Of
<1>3. IsFiniteSet(copied) /\ Settled(owner)' \in SUBSET copied
  BY OwnedFinite DEF Settled
<1>4. /\ IsFiniteSet(Settled(owner)')
      /\ Cardinality(Settled(owner)') \in Nat /\ Cardinality(Settled(owner)) \in Nat
  BY <1>3, OwnedFinite, FS_Subset, FS_CardinalityType
<1>5. Cardinality(Settled(owner)) <= Cardinality(Settled(owner)')
  BY <1>2, <1>4, FS_Subset
<1>6. sum <= Cardinality(Settled(owner)) /\ count = Wrapped(sum)
  BY DEF Books
<1> DEFINE new == IF Alone THEN read ELSE [read EXCEPT ![p] = sum]
<1>7. new \in [Procs -> Nat]
  OBVIOUS
<1>8. ASSUME NEW q \in Procs, main'[q] = "store"
      PROVE  register'[q] = Wrapped(new[q]) /\ new[q] <= Cardinality(Settled(owner)')
  <2>1. CASE ~Alone /\ q = p
    BY <1>0, <1>1, <1>2, <1>6, <2>1
  <2>2. CASE Alone \/ q # p
    <3>1. main[q] = "store" /\ register'[q] = register[q] /\ new[q] = read[q] /\ read[q] \in Nat
      BY <1>0, <1>1, <1>8, <2>2
    <3>2. register[q] = Wrapped(read[q]) /\ read[q] <= Cardinality(Settled(owner))
      BY <3>1 DEF Books
    <3>3. QED  BY <1>4, <1>5, <3>1, <3>2
  <2>3. QED  BY <2>1, <2>2
<1>9. ~Alone' /\ (\E q \in Procs : main'[q] = "done") =>
        \E q \in Procs : main'[q] = "done" /\ sum >= total'[q]
  <2>1. ~Alone => \A q \in Procs : main'[q] = "done" <=> main[q] = "done"
    BY <1>0, <1>1
  <2>2. QED  BY <1>1, <2>1 DEF Books
<1>10. PICK n \in [Procs -> Nat] : n = new
  BY <1>7
<1>11. /\ \A q \in Procs : total'[q] <= Cardinality(Of(owner, q)')
       /\ count' = Wrapped(sum)' /\ sum <= Cardinality(Settled(owner)')
  BY <1>1, <1>2, <1>4, <1>5, <1>6 DEF Books, Wrapped
<1>12. \A q \in Procs : main'[q] = "store" =>
          register'[q] = Wrapped(n[q])' /\ n[q] <= Cardinality(Settled(owner)')
  BY <1>8, <1>10 DEF Wrapped
<1>13. Books(owner, sum, n)'
  BY <1>9, <1>11, <1>12 DEF Books
<1>14. QED  BY <1>10, <1>13

\* A process adds its total to what it has read, which may be less than what
\* the others have written since.
LEMMA BooksWrite ==
    ASSUME TypeInv, StageInv, NEW owner \in [copied -> Procs], NEW sum \in Nat,
           NEW read \in [Procs -> Nat], Books(owner, sum, read),
           NEW p \in Procs, WriteCount(p), copied' = copied
    PROVE  /\ owner \in [copied' -> Procs]
           /\ \E new \in Nat : Books(owner, new, read)'
<1>0. /\ main = [q \in Procs |-> main[q]] /\ register \in [Procs -> Int]
      /\ total \in [Procs -> Nat]
  BY DEF TypeInv, ApplyTypeOK
<1>1. /\ main[p] = "store" /\ count' = Wrapped(register[p] + total[p])
      /\ main' = [main EXCEPT ![p] = "done"] /\ UNCHANGED <<config, total, register>>
  BY DEF WriteCount, MainGoto
<1>2. /\ Settled(owner)' = Settled(owner) \union Of(owner, p)
      /\ Settled(owner) \intersect Of(owner, p) = {}
      /\ \A q : Of(owner, q)' = Of(owner, q)
  BY <1>0, <1>1 DEF Settled, Of
<1>3. /\ IsFiniteSet(Settled(owner)) /\ Cardinality(Settled(owner)) \in Nat
      /\ IsFiniteSet(Of(owner, p)) /\ Cardinality(Of(owner, p)) \in Nat
  BY OwnedFinite
<1>4. Cardinality(Settled(owner)') = Cardinality(Settled(owner)) + Cardinality(Of(owner, p))
  <2>1. Cardinality(Settled(owner) \union Of(owner, p))
          = Cardinality(Settled(owner)) + Cardinality(Of(owner, p)) - Cardinality({})
    BY <1>2, <1>3, FS_Union
  <2>2. QED  BY <1>2, <1>3, <2>1, FS_EmptySet
<1>5. /\ register[p] = Wrapped(read[p]) /\ read[p] <= Cardinality(Settled(owner))
      /\ total[p] <= Cardinality(Of(owner, p)) /\ read[p] \in Nat /\ total[p] \in Nat
  BY <1>0, <1>1 DEF Books
<1>6. PICK new \in Nat : new = read[p] + total[p]
  BY <1>5
<1>7. count' = Wrapped(new) /\ new <= Cardinality(Settled(owner)') /\ new >= total'[p]
  <2>1. Wrapped(Wrapped(read[p]) + total[p]) = Wrapped(read[p] + total[p])
    <3>1. read[p] \in Int /\ total[p] \in Int
      BY <1>5
    <3>2. QED  BY <3>1, WrapAdds, Zenon
  <2>2. count' = Wrapped(new)
    BY <1>1, <1>5, <1>6, <2>1
  <2>3. new <= Cardinality(Settled(owner)') /\ new >= total'[p]
    BY <1>1, <1>3, <1>4, <1>5, <1>6
  <2>4. QED  BY <2>2, <2>3
<1>8. ASSUME NEW q \in Procs, main'[q] = "store"
      PROVE  register'[q] = Wrapped(read[q]) /\ read[q] <= Cardinality(Settled(owner)')
  <2>1. main[q] = "store" /\ register'[q] = register[q] /\ read[q] \in Nat
    BY <1>0, <1>1, <1>8
  <2>2. register[q] = Wrapped(read[q]) /\ read[q] <= Cardinality(Settled(owner))
    BY <2>1 DEF Books
  <2>3. QED  BY <1>3, <1>4, <2>1, <2>2
<1>9. main'[p] = "done"
  BY <1>0, <1>1
<1>10. \A q \in Procs : total'[q] <= Cardinality(Of(owner, q)')
  BY <1>1, <1>2 DEF Books
<1>11. Books(owner, new, read)'
  BY <1>7, <1>8, <1>9, <1>10 DEF Books, Wrapped
<1>12. QED  BY <1>11

\* The other steps of a process settle nothing.
LEMMA OtherSteps ==
    ASSUME TypeInv, StageInv, ApartInv, NEW p \in Procs, ProcStep(p), ~ReadCount(p), ~WriteCount(p)
    PROVE  /\ UNCHANGED <<config, count, register>>
           /\ \A q \in Procs : main'[q] = "done" <=> main[q] = "done"
           /\ \A q \in Procs : main'[q] = "store" => main[q] = "store"
           /\ ApplyStep(p) \/ Kill(p) => total' = total
<1>0. main = [q \in Procs |-> main[q]]
  BY DEF TypeInv, ApplyTypeOK
<1>1. main[p] \in Running
  BY ProcRuns
<1>2. /\ UNCHANGED <<config, count, register>>
      /\ main' = main \/ \E x \in {"join", "count", "shutdown", "reap", "raised"} :
                            main' = [main EXCEPT ![p] = x]
  BY DEF ProcStep, ApplyStep, AddTask, FeedEnds, WaitCompletion, Shutdown, JoinThreads,
         GetTask, Kill, Call, Runs, RunsHere, MainGoto
<1>3. ApplyStep(p) \/ Kill(p) => total' = total
  BY DEF ApplyStep, AddTask, FeedEnds, WaitCompletion, Shutdown, JoinThreads,
         GetTask, Kill
<1>4. QED  BY <1>0, <1>1, <1>2, <1>3 DEF Running

\* The books are right after every step of cp.
LEMMA CountKept ==
    ASSUME ProcInv, OnceInv, PhaseInv, CountInv, [Next]_vars, TypeInv'
    PROVE  CountInv'
<1> SUFFICES ASSUME cmd' = "cp"
             PROVE  \E owner \in [copied' -> Procs], sum \in Nat, read \in [Procs -> Nat] :
                        Books(owner, sum, read)'
  BY DEF CountInv
<1>0. TypeInv /\ ApplyTypeOK /\ StageInv /\ ApartInv /\ tries \in [Uris -> Nat]
  BY DEF ProcInv, TypeInv, ApplyTypeOK
<1>1. CASE Aside \/ Outcome
  <2>1. cmd = "cp" /\ UNCHANGED <<config, copied, total, count, register, main>>
    BY <1>1 DEF Aside, Outcome, moveVars, applyVars
  <2>2. PICK owner \in [copied -> Procs], sum \in Nat, read \in [Procs -> Nat] :
               Books(owner, sum, read)
    BY <2>1 DEF CountInv
  <2>3. Books(owner, sum, read)' /\ owner \in [copied' -> Procs]
    BY <2>1, <2>2, BooksLeft
  <2>4. QED  BY <2>3
<1>2. CASE StartCp \/ StartRm
  <2>1. StartCp /\ Fresh' /\ copied' = copied
    BY <1>0, <1>2, StartFresh
  <2>2. copied' = {}
    BY <1>0, <2>1, StartFresh DEF PhaseInv
  <2>3. /\ \A p \in Procs : total'[p] = 0 /\ main'[p] \in {"off", "feed"}
        /\ count' = 0
    BY <2>1 DEF Fresh
  <2>4. PICK owner : owner \in [copied' -> Procs]
    <3>1. [x \in copied' |-> 1] \in [copied' -> Procs]
      BY <2>2
    <3>2. QED  BY <3>1
  <2>5. /\ \A p \in Procs : Of(owner, p)' = {}
        /\ Settled(owner)' = {}
    BY <2>2 DEF Of, Settled
  <2>6. PICK read \in [Procs -> Nat] : read = [p \in Procs |-> 0]
    OBVIOUS
  <2>7. Wrapped(0)' = 0
    BY WrappedZero DEF Wrapped
  <2>8. Books(owner, 0, read)'
    BY <2>3, <2>5, <2>7, FS_EmptySet DEF Books
  <2>9. QED  BY <2>4, <2>8
<1>3. CASE \E p \in Procs : Quiet(p)
  <2>1. PICK p \in Procs : Quiet(p)
    BY <1>3
  <2>2. /\ ApplyStep(p) \/ Kill(p)
        /\ ProcStep(p) /\ UNCHANGED moveVars
    BY <2>1, QuietIsProcStep
  <2>3. cmd = "cp" /\ copied' = copied
    BY <2>2 DEF moveVars
  <2>4. PICK owner \in [copied -> Procs], sum \in Nat, read \in [Procs -> Nat] :
               Books(owner, sum, read)
    BY <2>3 DEF CountInv
  <2>5. counted
    BY <2>3 DEF PhaseInv
  <2>6. CASE ReadCount(p)
    BY <1>0, <2>3, <2>4, <2>5, <2>6, BooksRead
  <2>7. CASE WriteCount(p)
    BY <1>0, <2>3, <2>4, <2>7, BooksWrite
  <2>8. CASE ~ReadCount(p) /\ ~WriteCount(p)
    <3>1. /\ UNCHANGED <<config, count, register, total>>
          /\ \A q \in Procs : main'[q] = "done" <=> main[q] = "done"
          /\ \A q \in Procs : main'[q] = "store" => main[q] = "store"
      BY <1>0, <2>2, <2>8, OtherSteps
    <3>2. owner \in [copied' -> Procs] /\ Books(owner, sum, read)'
      BY <2>3, <2>4, <3>1, BooksLeft
    <3>3. QED  BY <3>2
  <2>9. QED  BY <2>6, <2>7, <2>8
<1>4. CASE \E p \in Procs, u \in Uris, ok \in BOOLEAN : CopyFunc(p, u, ok) \/ RemoveFunc(p, u, ok)
  <2>1. PICK p \in Procs, u \in Uris, ok \in BOOLEAN : CopyFunc(p, u, ok) \/ RemoveFunc(p, u, ok)
    BY <1>4
  <2>2. Call(p, u, ok) /\ ProcStep(p) /\ cmd = "cp"
    BY <2>1, CallIsProcStep
  <2>3. CopyFunc(p, u, ok)
    BY <2>1, <2>2, CallWrites
  <2>4. /\ main[p] \in {"feed", "join"} /\ u \in Pending(p)
        /\ total' = [total EXCEPT ![p] = IF ok THEN @ + 1 ELSE @]
    BY <1>0, <2>2, CallTakes
  <2>5. total = [q \in Procs |-> total[q]]
    BY <1>0 DEF ApplyTypeOK
  <2>6. /\ UNCHANGED <<config, count, register>>
        /\ \A q \in Procs : main'[q] = "done" <=> main[q] = "done"
        /\ \A q \in Procs : main'[q] = "store" => main[q] = "store"
    <3>1. ~ReadCount(p) /\ ~WriteCount(p)
      BY <2>4 DEF ReadCount, WriteCount
    <3>2. QED  BY <1>0, <2>2, <3>1, OtherSteps
  <2>7. PICK owner \in [copied -> Procs], sum \in Nat, read \in [Procs -> Nat] :
               Books(owner, sum, read)
    BY <2>2 DEF CountInv
  <2>8. CASE ok = TRUE
    <3>1. copied' = copied \union {u}
      BY <2>3, <2>8, CallWrites
    <3>2. tries[u] = 0
      BY <2>4 DEF OnceInv
    <3>3. u \notin copied
      BY <2>2, <3>2 DEF PhaseInv
    <3>4. \E new \in [copied' -> Procs] : Books(new, sum, read)'
      BY <1>0, <2>2, <2>7, <2>8, <3>1, <3>3, BooksCopy
    <3>5. QED  BY <3>4
  <2>9. CASE ok = FALSE
    <3>1. copied' = copied
      BY <2>3, <2>9, CallWrites
    <3>2. total' = total
      BY <2>4, <2>5, <2>9
    <3>3. owner \in [copied' -> Procs] /\ Books(owner, sum, read)'
      BY <2>6, <2>7, <3>1, <3>2, BooksLeft
    <3>4. QED  BY <3>3
  <2>10. QED  BY <2>8, <2>9
<1>5. QED  BY <1>0, <1>1, <1>2, <1>3, <1>4, StepKinds

-----------------------------------------------------------------------------
(* The exit values of a pool.                                              *)

\* The threads of a pool can be counted.
LEMMA LiveFinite ==
    ASSUME ApplyTypeOK, NEW p
    PROVE  /\ IsFiniteSet(Live(p)) /\ Cardinality(Live(p)) \in Nat
           /\ IsFiniteSet(Pool) /\ Cardinality(Pool) = config[2]
<1>1. IsFiniteSet(Threads)
  BY ConfigsAssumption, FS_Interval DEF Threads
<1>2. config[2] \in Nat \ {0}
  BY ConfigType
<1>3. IsFiniteSet(Pool) /\ Cardinality(Pool) = config[2]
  <2> DEFINE n == config[2]
  <2>1. 1 \in Int /\ n \in Int /\ ~(1 > n) /\ n - 1 + 1 = n
    BY <1>2
  <2> HIDE DEF n
  <2>2. IsFiniteSet(1..n) /\ Cardinality(1..n) = n
    BY <2>1, FS_Interval
  <2>3. QED  BY <2>2 DEF n, Pool
<1>4. QED  BY <1>1, <1>3, FS_Subset, FS_CardinalityType DEF Live

\* What is said of the exit values of a process depends on its own part of
\* the state.
LEMMA ExitsLocal ==
    ASSUME NEW q, Exits(q), config' = config,
           UNCHANGED <<main[q], tasks[q], worker[q], magics[q]>>
    PROVE  Exits(q)'
BY DEF Exits, Live, Pool, Threaded

\* A pool begins with all of its threads, and no exit value.
LEMMA ExitsStart ==
    ASSUME ApplyTypeOK, NEW uris, NEW c, StartApply(uris, c)
    PROVE  ExitsInv'
<1> SUFFICES ASSUME NEW p \in Procs PROVE Exits(p)'
  BY DEF ExitsInv
<1>1. /\ main'[p] \in {"off", "feed"} /\ config' = config
      /\ worker'[p] = [w \in Threads |-> IF Threaded /\ w \in Pool THEN Idle ELSE Exit]
      /\ magics'[p] = IF Threaded THEN config[2] ELSE 0
  BY DEF StartApply
<1>2. config \in Configs
  BY DEF ApplyTypeOK
<1>3. Pool \subseteq Threads
  BY <1>2, ConfigsAssumption DEF Pool, Threads
<1>4. Live(p)' = IF Threaded THEN Pool ELSE {}
  BY <1>1, <1>3, TaskNames DEF Live
<1>5. Threaded' = Threaded /\ Pool' = Pool
  BY <1>1 DEF Threaded, Pool
<1>6. QED  BY <1>1, <1>4, <1>5 DEF Exits

\* Each step of a process keeps the exit values and its threads in balance.
LEMMA ExitsStep ==
    ASSUME ApplyTypeOK, NEW p \in Procs, Stage(p), Exits(p), ProcStep(p)
    PROVE  Exits(p)'
<1>0. /\ config' = config /\ Threaded' = Threaded /\ Pool' = Pool
      /\ main \in [Procs -> Running \union {"off", "done", "raised"}]
      /\ worker \in [Procs -> [Threads -> Uris \union {Idle, Exit}]]
      /\ tasks \in [Procs -> Seq(Uris \union {Exit})] /\ magics \in [Procs -> Nat]
      /\ tasks[p] \in Seq(Uris \union {Exit}) /\ Len(tasks[p]) \in Nat /\ magics[p] \in Nat
      /\ Cardinality(Live(p)) \in Nat /\ IsFiniteSet(Live(p))
      /\ Cardinality(Busy(p)) \in Nat /\ IsFiniteSet(Busy(p)) /\ Cardinality(Pool) = config[2]
  <2>1. config' = config
    BY StepElsewhere
  <2>2. tasks[p] \in Seq(Uris \union {Exit})
    BY DEF ApplyTypeOK
  <2>3. Threaded' = Threaded /\ Pool' = Pool
    BY <2>1 DEF Threaded, Pool
  <2>4. /\ main \in [Procs -> Running \union {"off", "done", "raised"}]
        /\ worker \in [Procs -> [Threads -> Uris \union {Idle, Exit}]]
        /\ tasks \in [Procs -> Seq(Uris \union {Exit})] /\ magics \in [Procs -> Nat]
        /\ magics[p] \in Nat
    BY DEF ApplyTypeOK
  <2>5. Len(tasks[p]) \in Nat
    BY <2>2
  <2>6. QED  BY <2>1, <2>2, <2>3, <2>4, <2>5, LiveFinite, BusyFinite
<1>l. worker'[p] = worker[p] => Live(p)' = Live(p)
  BY DEF Live
<1>1. CASE AddTask(p)
  <2>1. main[p] = "feed" /\ main' = main /\ worker' = worker /\ magics' = magics
    BY <1>1 DEF AddTask
  <2>2. QED  BY <1>0, <1>l, <2>1 DEF Exits
<1>2. CASE FeedEnds(p)
  <2>1. /\ main[p] = "feed" /\ main'[p] = IF Threaded THEN "join" ELSE "count"
        /\ worker' = worker /\ magics' = magics /\ tasks' = tasks
    BY <1>0, <1>2 DEF FeedEnds, MainGoto
  <2>2. ~Threaded => Live(p) = {} /\ Len(tasks[p]) = 0
    BY DEF Stage, Live
  <2>3. QED  BY <1>0, <1>l, <2>1, <2>2, FS_EmptySet DEF Exits
<1>3. CASE WaitCompletion(p)
  <2>1. /\ main[p] = "join" /\ main'[p] = "shutdown" /\ unfinished[p] = 0
        /\ worker' = worker /\ magics' = magics /\ tasks' = tasks
    BY <1>0, <1>3 DEF WaitCompletion, MainGoto
  <2>2. Threaded /\ unfinished[p] = Len(tasks[p]) + Cardinality(Busy(p)) /\ magics[p] = config[2]
    BY <2>1 DEF Stage
  <2>3. Len(tasks[p]) = 0
    BY <1>0, <2>1, <2>2
  <2>4. Live(p) = Pool
    BY <2>1, <2>2 DEF Exits
  <2>5. Cardinality(Live(p)) = magics[p] + Len(tasks[p])
    BY <1>0, <2>2, <2>3, <2>4
  <2>6. QED  BY <1>0, <1>l, <2>1, <2>2, <2>5 DEF Exits
<1>4. CASE Shutdown(p)
  <2>1. /\ main[p] = "shutdown" /\ worker' = worker
        /\ tasks'[p] = Append(tasks[p], Exit) /\ magics'[p] = magics[p] - 1
        /\ main'[p] = IF magics[p] = 1 THEN "reap" ELSE "shutdown"
    BY <1>0, <1>4 DEF Shutdown, MainGoto
  <2>2. magics[p] \in Nat \ {0} /\ Threaded
    BY <2>1 DEF Stage
  <2>3. Len(tasks'[p]) = Len(tasks[p]) + 1
    BY <1>0, <2>1
  <2>4. Cardinality(Live(p)') = magics'[p] + Len(tasks'[p])
    BY <1>0, <1>l, <2>1, <2>2, <2>3 DEF Exits
  <2>5. QED  BY <1>0, <1>l, <2>1, <2>2, <2>4 DEF Exits
<1>5. CASE JoinThreads(p)
  <2>1. /\ main[p] = "reap" /\ main'[p] = "count" /\ \A w \in Pool : worker[p][w] = Exit
        /\ worker' = worker /\ magics' = magics /\ tasks' = tasks
    BY <1>0, <1>5 DEF JoinThreads, MainGoto
  <2>2. Live(p) = {}
    BY <2>1 DEF Exits, Live
  <2>3. QED  BY <1>0, <1>l, <2>1, <2>2 DEF Exits
<1>6. CASE ReadCount(p) \/ WriteCount(p) \/ Kill(p)
  <2>1. /\ main'[p] \in {"store", "done", "raised"}
        /\ main'[p] # "raised" => main[p] \in {"count", "store"}
        /\ worker' = worker /\ magics' = magics /\ tasks' = tasks
    BY <1>0, <1>6 DEF ReadCount, WriteCount, Kill, MainGoto
  <2>2. QED  BY <1>0, <1>l, <2>1 DEF Exits
<1>7. ASSUME NEW w \in Threads, GetTask(p, w) PROVE Exits(p)'
  <2> DEFINE x == Head(tasks[p])
  <2>1. /\ main[p] \in Running /\ worker[p][w] = Idle /\ tasks[p] # <<>>
        /\ main' = main /\ magics' = magics
        /\ worker'[p] = [worker[p] EXCEPT ![w] = x] /\ tasks'[p] = Tail(tasks[p])
    BY <1>0, <1>7 DEF GetTask
  <2>2. /\ x \in Elems(tasks[p]) /\ Len(Tail(tasks[p])) = Len(tasks[p]) - 1
        /\ Len(tasks[p]) \in Nat \ {0} /\ x \in Uris \union {Exit}
    BY <1>0, <2>1, ElemsTail
  <2>3. worker'[p][w] = x /\ \A v \in Threads : v # w => worker'[p][v] = worker[p][v]
    BY <1>0, <2>1
  <2>4. w \in Live(p) /\ Threaded
    BY <2>1, TaskNames DEF Live, Stage
  <2>5. CASE main[p] \in {"feed", "join"}
    <3>1. x \in Uris
      <4>1. tasks[p] \in Seq(Uris)
        BY <2>5 DEF Stage
      <4>2. QED  BY <2>1, <4>1, ElemsTail
    <3> HIDE DEF x
    <3>2. Live(p)' = Live(p)
      BY <2>3, <2>4, <3>1, TaskNames DEF Live
    <3>3. QED  BY <1>0, <2>1, <2>5, <3>2 DEF Exits
  <2>6. CASE main[p] \notin {"feed", "join"}
    <3>1. Elems(tasks[p]) \subseteq {Exit}
      BY <2>1, <2>6 DEF Stage, Running
    <3>2. x = Exit
      BY <2>2, <3>1
    <3> HIDE DEF x
    <3>3. Live(p)' = Live(p) \ {w}
      BY <2>3, <3>2 DEF Live
    <3>4. Cardinality(Live(p)') = Cardinality(Live(p)) - 1
      BY <1>0, <2>4, <3>3, FS_RemoveElement
    <3>5. main[p] \in {"shutdown", "reap"}
      BY <2>1, <2>4, <2>6 DEF Exits, Running
    <3>6. Cardinality(Live(p)') = magics'[p] + Len(tasks'[p])
      BY <1>0, <2>1, <2>2, <3>4, <3>5 DEF Exits
    <3>7. QED  BY <1>0, <2>1, <2>4, <3>3, <3>5, <3>6 DEF Exits
  <2>7. QED  BY <2>5, <2>6
<1>8. ASSUME NEW w \in Threads, NEW u \in Uris, NEW ok \in BOOLEAN, Runs(p, w, u, ok)
      PROVE  Exits(p)'
  <2>1. /\ worker[p][w] = u /\ worker'[p] = [worker[p] EXCEPT ![w] = Idle]
        /\ main' = main /\ magics' = magics /\ tasks' = tasks
    BY <1>0, <1>8 DEF Runs
  <2>2. worker'[p][w] = Idle /\ \A v \in Threads : v # w => worker'[p][v] = worker[p][v]
    BY <1>0, <2>1
  <2>3. Live(p)' = Live(p)
    BY <2>1, <2>2, TaskNames DEF Live
  <2>4. QED  BY <1>0, <2>1, <2>3 DEF Exits
<1>9. ASSUME NEW u \in Uris, NEW ok \in BOOLEAN, RunsHere(p, u, ok) PROVE Exits(p)'
  <2>1. /\ main'[p] \in {"feed", "raised"} /\ ~Threaded
        /\ worker' = worker /\ magics' = magics /\ tasks' = tasks
    BY <1>0, <1>9 DEF RunsHere, MainGoto
  <2>2. QED  BY <1>0, <1>l, <2>1 DEF Exits
<1>10. QED
  BY <1>1, <1>2, <1>3, <1>4, <1>5, <1>6, <1>7, <1>8, <1>9 DEF ProcStep, ApplyStep, Call

\* Every step keeps the exit values and the threads in balance.
LEMMA ExitsKept == ProcInv /\ ExitsInv /\ [Next]_vars => ExitsInv'
<1> SUFFICES ASSUME ProcInv, ExitsInv, [Next]_vars PROVE ExitsInv'
  OBVIOUS
<1>0. TypeInv /\ ApplyTypeOK /\ StageInv
  BY DEF ProcInv, TypeInv
<1>1. CASE Aside \/ Outcome
  <2>1. UNCHANGED <<config, main, tasks, worker, magics>>
    BY <1>1 DEF Aside, Outcome, applyVars
  <2>2. QED  BY <2>1, ExitsLocal DEF ExitsInv
<1>2. CASE StartCp \/ StartRm
  <2>1. \E uris, c : StartApply(uris, c)
    BY <1>2 DEF StartCp, StartRm, CpEnds
  <2>2. QED  BY <1>0, <2>1, ExitsStart
<1>3. ASSUME NEW p \in Procs, ProcStep(p) PROVE ExitsInv'
  <2>1. Exits(p)'
    BY <1>0, <1>3, ExitsStep DEF ExitsInv, StageInv
  <2>2. ASSUME NEW q \in Procs, q # p PROVE Exits(q)'
    BY <1>0, <1>3, <2>2, StepElsewhere, ExitsLocal DEF Elsewhere, ExitsInv
  <2>3. QED  BY <2>1, <2>2 DEF ExitsInv
<1>4. QED
  BY <1>0, <1>1, <1>2, <1>3, StepKinds, QuietIsProcStep, CallIsProcStep

-----------------------------------------------------------------------------
(* The inductive invariant.                                                *)

Inv ==
    /\ ListTypeOK /\ ApplyTypeOK /\ MoveTypeOK
    /\ OrderInv /\ StayInv
    /\ StageInv /\ ApartInv /\ OnceInv
    /\ PhaseInv /\ CopiedInv /\ ArrivedInv /\ CountInv

\* The invariant holds when mv begins.
LEMMA InitInv == Init => Inv
<1> SUFFICES ASSUME Init PROVE Inv
  OBVIOUS
<1>1. /\ bucket \in SUBSET Keys /\ lpc = "page" /\ marker = 0 /\ k = NoKey
      /\ page = <<>> /\ nextMarker = NoKey /\ moreResults = TRUE
      /\ listed = <<>> /\ changes = 0 /\ stayed = bucket
  BY DEF Init, ListInit
<1>2. /\ config \in Configs /\ counted = FALSE
      /\ main = [p \in Procs |-> "off"]
      /\ todo = [p \in Procs |-> <<>>]
      /\ tasks = [p \in Procs |-> <<>>]
      /\ unfinished = [p \in Procs |-> 0]
      /\ worker = [p \in Procs |-> [w \in Threads |-> Exit]]
      /\ magics = [p \in Procs |-> 0]
      /\ okay = [p \in Procs |-> TRUE]
      /\ total = [p \in Procs |-> 0]
      /\ count = 0 /\ register = [p \in Procs |-> 0]
      /\ kills = 0
      /\ tries = [u \in Uris |-> 0]
  BY DEF Init, ApplyInit
<1>3. cmd = "list" /\ dst = [n \in Names |-> NoKey] /\ copied = {} /\ removed = {}
  BY DEF Init
<1>4. ListTypeOK /\ MoveTypeOK
  BY <1>1, <1>3 DEF ListTypeOK, MoveTypeOK
<1>5. ApplyTypeOK
  <2>1. main \in [Procs -> Running \union {"off", "done", "raised"}]
    BY <1>2
  <2>2. todo \in [Procs -> Seq(Uris)] /\ tasks \in [Procs -> Seq(Uris \union {Exit})]
    BY <1>2
  <2>3. worker \in [Procs -> [Threads -> Uris \union {Idle, Exit}]]
    BY <1>2
  <2>4. register \in [Procs -> Int] /\ total \in [Procs -> Nat] /\ count \in Int
    BY <1>2
  <2>5. QED  BY <1>2, <2>1, <2>2, <2>3, <2>4 DEF ApplyTypeOK
<1>6. Elems(<<>>) = {} /\ 1..Len(<<>>) = {} /\ Len(<<>>) = 0 /\ <<>> \in Seq(Uris)
  BY ElemsEmpty
<1>7. OrderInv
  BY <1>1, <1>6 DEF OrderInv, Rising
<1>8. StayInv
  BY <1>1, KeysOrdered DEF StayInv, KeyOrder
<1>9. ASSUME NEW p \in Procs
      PROVE  /\ todo[p] = <<>> /\ tasks[p] = <<>> /\ \A w \in Threads : worker[p][w] \notin Uris
             /\ Todo(p) = {} /\ Queued(p) = {} /\ At(p) = {} /\ Busy(p) = {} /\ Pending(p) = {}
  <2>1. todo[p] = <<>> /\ tasks[p] = <<>> /\ \A w \in Threads : worker[p][w] \notin Uris
    BY <1>2, TaskNames
  <2>2. Todo(p) = {} /\ Queued(p) = {} /\ At(p) = {} /\ Busy(p) = {}
    BY <1>6, <2>1 DEF Todo, Queued, At, Busy
  <2>3. QED  BY <2>1, <2>2 DEF Pending
<1>10. StageInv
  <2>1. config[2] \in Nat \ {0}
    BY <1>5, ConfigType
  <2>2. ASSUME NEW p \in Procs PROVE Stage(p)
    <3>1. main[p] = "off" /\ \A w \in Threads : worker[p][w] = Exit
      BY <1>2
    <3>2. QED  BY <1>6, <1>9, <2>1, <3>1 DEF Stage
  <2>3. QED  BY <2>2 DEF StageInv
<1>11. ApartInv
  <2>1. \A p \in Procs : ApartIn(p)
    BY <1>6, <1>9 DEF ApartIn, DistinctIn
  <2>2. QED  BY <1>9, <2>1 DEF ApartInv
<1>12. OnceInv
  BY <1>2, <1>3, <1>9 DEF OnceInv
<1>13. PhaseInv /\ CopiedInv /\ ArrivedInv /\ CountInv
  BY <1>3 DEF PhaseInv, CopiedInv, ArrivedInv, CountInv
<1>14. QED  BY <1>4, <1>5, <1>7, <1>8, <1>10, <1>11, <1>12, <1>13 DEF Inv

\* Every step keeps it.
LEMMA InvStep == Inv /\ [Next]_vars => Inv'
<1> SUFFICES ASSUME Inv, [Next]_vars PROVE Inv'
  OBVIOUS
<1>1. /\ TypeInv /\ ProcInv /\ ListTypeOK /\ OrderInv /\ StayInv
      /\ OnceInv /\ PhaseInv /\ CopiedInv /\ ArrivedInv /\ CountInv
  BY DEF Inv, ProcInv, TypeInv
<1>2. ListStep \/ Shrinks
  BY <1>1, ListingStep
<1>3. ListTypeOK' /\ OrderInv' /\ StayInv'
  BY <1>1, <1>2, ListTypeStep, OrderStep, StayStep
<1>4. ApplyTypeOK' /\ StageInv' /\ ApartInv'
  BY <1>1, ProcKept
<1>5. MoveTypeOK'
  BY <1>1, MoveTypeKept
<1>6. OnceInv' /\ PhaseInv' /\ CopiedInv' /\ ArrivedInv'
  BY <1>1, OnceKept, PhaseKept, CopiedKept, ArrivedKept
<1>7. TypeInv'
  BY <1>3, <1>4, <1>5 DEF TypeInv
<1>8. CountInv'
  BY <1>1, <1>7, CountKept
<1>9. QED  BY <1>3, <1>4, <1>5, <1>6, <1>8 DEF Inv

\* The inductive invariant holds of every state of a mv.
THEOREM InvAlways == Spec => []Inv
<1>1. QED  BY InitInv, InvStep, PTL DEF Spec

-----------------------------------------------------------------------------
(* What follows for the properties of the model.                           *)

\* The types of the listing, of every process and of the command; a queue
\* never holds more than a task for each thread.
THEOREM TypeCorrect == Spec => []TypeOK
<1>1. Inv => TypeOK
  BY DEF Inv, StageInv, Stage, MoveTypeOK, TypeOK
<1>2. QED  BY <1>1, InvAlways, PTL

\* bucket_lister yields no key twice, and in order, whatever the page size, the
\* server's markers and the changes of the bucket between the pages.
THEOREM ListedOnceAlways == Spec => []ListedOnce
<1>1. Inv => ListedOnce
  BY DEF Inv, OrderInv, Rising, ListedOnce
<1>2. QED  BY <1>1, InvAlways, PTL

\* A listing that ends has yielded every matching key that was never removed
\* since its first page, though its marker may be the server's or its own.
THEOREM StayersListedAlways == Spec => []StayersListed
<1>1. Inv => StayersListed
  BY DEF Inv, StayInv, Elems, StayersListed
<1>2. QED  BY <1>1, InvAlways, PTL

\* Apply calls the function at most once for each URI, and exactly once if no
\* process died or raised, for any number of processes and threads.
THEOREM CalledOnceAlways == Spec => []CalledOnce
<1>1. ASSUME Inv PROVE CalledOnce
  <2>1. TypeInv /\ StageInv /\ OnceInv
    BY <1>1 DEF Inv, TypeInv
  <2>2. \A u \in Uris : tries[u] <= 1
    BY <2>1 DEF OnceInv
  <2>3. ASSUME cmd \in {"cp", "rm"}, Joined, \A p \in Procs : main[p] # "raised"
        PROVE  \A i \in 1..Len(listed) : tries[listed[i]] = 1
    <3>1. \A p \in Procs : main[p] \in {"off", "done"}
      BY <2>3 DEF Joined
    <3>2. \A u \in Elems(listed) : tries[u] = 1
      BY <2>1, <2>3, <3>1, AllCalled
    <3>3. QED  BY <3>2 DEF Elems
  <2>4. QED  BY <2>2, <2>3 DEF CalledOnce
<1>2. QED  BY <1>1, InvAlways, PTL

\* mv in one process, whatever the number of its threads, removes from the
\* source only what has arrived.
THEOREM NoLossAlways == Spec => []NoLoss
<1>1. ASSUME Inv, Alone PROVE removed \subseteq copied
  BY <1>1 DEF Inv, CopiedInv
<1>2. ASSUME Inv, NEW x \in copied
      PROVE  dst[Name[x]] = x \/ \E y \in copied \ {x} : dst[Name[x]] = y /\ Name[y] = Name[x]
  BY <1>2 DEF Inv, ArrivedInv
<1>3. Inv => NoLoss
  BY <1>1, <1>2 DEF NoLoss
<1>4. QED  BY <1>3, InvAlways, PTL

\* What cp reports is never more than what arrived.  The integer that several
\* processes share shows, as far as a C int can, a sum that is not less than
\* what one of them copied, though the others' totals may be overwritten.
THEOREM CountHonestAlways == Spec => []CountHonest
<1>1. ASSUME Inv, cmd = "cp", Joined
      PROVE  IF Alone THEN total[1] <= Cardinality(copied)
             ELSE \E sum \in 0..Cardinality(copied) :
                     /\ count = Wrapped(sum)
                     /\ (\E p \in Procs : main[p] = "done") =>
                           \E p \in Procs : main[p] = "done" /\ sum >= total[p]
  <2>1. TypeInv /\ StageInv
    BY <1>1 DEF Inv, TypeInv
  <2>2. PICK owner \in [copied -> Procs], sum \in Nat, read \in [Procs -> Nat] :
               Books(owner, sum, read)
    BY <1>1 DEF Inv, CountInv
  <2>3. /\ Cardinality(copied) \in Nat /\ total \in [Procs -> Nat]
        /\ Cardinality(Settled(owner)) \in Nat /\ Cardinality(Settled(owner)) <= Cardinality(copied)
        /\ \A p : Cardinality(Of(owner, p)) \in Nat /\ Cardinality(Of(owner, p)) <= Cardinality(copied)
    <3>1. total \in [Procs -> Nat]
      BY <2>1 DEF TypeInv, ApplyTypeOK
    <3>2. QED  BY <2>1, <3>1, OwnedFinite
  <2>4. CASE Alone
    <3>1. 1 \in Procs
      BY <2>1, <2>4, OnlyOne
    <3>2. total[1] \in Nat /\ total[1] <= Cardinality(Of(owner, 1))
      BY <2>2, <2>3, <3>1 DEF Books
    <3>3. total[1] <= Cardinality(copied)
      BY <2>3, <3>2
    <3>4. QED  BY <2>4, <3>3
  <2>5. CASE ~Alone
    <3>1. sum <= Cardinality(Settled(owner)) /\ count = Wrapped(sum)
      BY <2>2 DEF Books
    <3>2. sum \in 0..Cardinality(copied)
      BY <2>3, <3>1
    <3>3. (\E p \in Procs : main[p] = "done") =>
              \E p \in Procs : main[p] = "done" /\ sum >= total[p]
      BY <2>2, <2>5 DEF Books
    <3>4. QED  BY <2>5, <3>1, <3>2, <3>3
  <2>6. QED  BY <2>4, <2>5
<1>2. Inv => CountHonest
  BY <1>1 DEF CountHonest
<1>3. QED  BY <1>2, InvAlways, PTL

\* What a process that runs can do next: end a call, give a waiting thread
\* what is in the queue, or go on in its main thread.
CanGoOn(p) ==
    \/ \E w \in Threads : worker[p][w] \in Uris
    \/ tasks[p] # <<>> /\ \E w \in Threads : worker[p][w] = Idle
    \/ main[p] = "feed" /\ (todo[p] = <<>> \/ ~Threaded \/ Len(tasks[p]) < config[2])
    \/ main[p] = "join" /\ unfinished[p] = 0
    \/ main[p] = "shutdown" /\ Len(tasks[p]) < config[2]
    \/ main[p] = "reap" /\ \A w \in Pool : worker[p][w] = Exit
    \/ main[p] \in {"count", "store"}

\* The threads and the main thread of a process never wait for one another, at
\* the full queue, for the tasks to be done or for the exit values; and a pool
\* that was shut down leaves neither a thread nor an exit value behind.
NeverStuck ==
    \A p \in Procs :
        /\ main[p] \in Running => CanGoOn(p)
        /\ main[p] \in {"count", "store", "done"} =>
              tasks[p] = <<>> /\ \A w \in Threads : worker[p][w] = Exit

\* ThreadPool's bounded queue and its exit values never block a process for
\* good, for any number of threads and tasks: Shutdown puts as many exit values
\* as there are threads left to take one.
THEOREM NeverStuckAlways == Spec => []NeverStuck
<1>1. Init => ExitsInv
  <2>1. ASSUME Init, NEW p \in Procs PROVE Exits(p)
    <3>1. /\ main[p] = "off" /\ magics[p] = 0 /\ \A w \in Threads : worker[p][w] = Exit
      BY <2>1 DEF Init, ApplyInit
    <3>2. QED  BY <3>1 DEF Exits, Live
  <2>2. QED  BY <2>1 DEF ExitsInv
<1>2. Inv /\ ExitsInv /\ [Next]_vars => ExitsInv'
  BY ExitsKept DEF Inv, ProcInv, TypeInv
<1>3. ASSUME Inv, ExitsInv, NEW p \in Procs
      PROVE  /\ main[p] \in Running => CanGoOn(p)
             /\ main[p] \in {"count", "store", "done"} =>
                   tasks[p] = <<>> /\ \A w \in Threads : worker[p][w] = Exit
  <2>1. ApplyTypeOK /\ Stage(p) /\ Exits(p)
    BY <1>3 DEF Inv, StageInv, ExitsInv
  <2>2. /\ tasks[p] \in Seq(Uris \union {Exit}) /\ Len(tasks[p]) \in Nat
        /\ Len(tasks[p]) = 0 <=> tasks[p] = <<>>
        /\ \A w \in Threads : worker[p][w] \in Uris \union {Idle, Exit}
        /\ config[2] \in Nat \ {0} /\ magics[p] \in Nat
        /\ IsFiniteSet(Live(p)) /\ Cardinality(Live(p)) \in Nat
        /\ IsFiniteSet(Busy(p)) /\ 1 \in Pool
    <3>1. tasks[p] \in Seq(Uris \union {Exit})
      BY <2>1 DEF ApplyTypeOK
    <3>2. \A w \in Threads : worker[p][w] \in Uris \union {Idle, Exit}
      BY <2>1 DEF ApplyTypeOK
    <3>3. Len(tasks[p]) \in Nat /\ (Len(tasks[p]) = 0 <=> tasks[p] = <<>>)
      BY <3>1, EmptySeq
    <3>4. config[2] \in Nat \ {0} /\ magics[p] \in Nat
      BY <2>1, ConfigType DEF ApplyTypeOK
    <3>5. 1 \in Pool
      BY <3>4 DEF Pool
    <3>6. QED  BY <2>1, <3>1, <3>2, <3>3, <3>4, <3>5, LiveFinite, BusyFinite
  \* a thread that has not exited works, or takes what is in the queue
  <2>3. ASSUME NEW w \in Live(p), tasks[p] # <<>> PROVE CanGoOn(p)
    BY <2>2, <2>3 DEF Live, CanGoOn
  <2>4. CASE main[p] = "feed"
    <3>1. CASE Threaded /\ ~(Len(tasks[p]) < config[2])
      <4>1. tasks[p] # <<>> /\ 1 \in Live(p)
        BY <2>1, <2>2, <2>4, <3>1 DEF Exits
      <4>2. QED  BY <2>3, <2>4, <4>1
    <3>2. QED  BY <2>4, <3>1 DEF CanGoOn
  <2>5. CASE main[p] = "join"
    <3>1. Threaded /\ unfinished[p] = Len(tasks[p]) + Cardinality(Busy(p)) /\ 1 \in Live(p)
      BY <2>1, <2>2, <2>5 DEF Stage, Exits
    <3>2. CASE tasks[p] # <<>>
      BY <2>3, <2>5, <3>1, <3>2
    <3>3. CASE tasks[p] = <<>> /\ Busy(p) = {}
      <4>1. unfinished[p] = 0
        BY <2>2, <3>1, <3>3, FS_EmptySet
      <4>2. QED  BY <2>5, <4>1 DEF CanGoOn
    <3>4. CASE Busy(p) # {}
      BY <2>5, <3>4 DEF Busy, CanGoOn
    <3>5. QED  BY <3>2, <3>3, <3>4
  <2>6. CASE main[p] \in {"shutdown", "reap"}
    <3>1. Cardinality(Live(p)) = magics[p] + Len(tasks[p]) /\ (main[p] = "reap" => magics[p] = 0)
      BY <2>1, <2>6 DEF Exits
    <3>2. CASE Live(p) = {}
      <4>1. Len(tasks[p]) = 0
        BY <2>2, <3>1, <3>2, FS_EmptySet
      <4>2. Pool \subseteq Threads
        BY <2>1, ConfigsAssumption DEF ApplyTypeOK, Pool, Threads
      <4>3. QED  BY <2>2, <2>6, <3>2, <4>1, <4>2 DEF CanGoOn, Live
    <3>3. CASE Live(p) # {} /\ tasks[p] # <<>>
      BY <2>3, <2>6, <3>3
    <3>4. CASE tasks[p] = <<>> /\ main[p] = "shutdown"
      BY <2>2, <3>4 DEF CanGoOn
    <3>5. CASE Live(p) # {} /\ tasks[p] = <<>> /\ main[p] = "reap"
      BY <2>2, <3>1, <3>5, FS_EmptySet
    <3>6. QED  BY <2>6, <3>2, <3>3, <3>4, <3>5
  <2>7. CASE main[p] \in {"count", "store", "done"}
    <3>1. /\ Cardinality(Live(p)) = magics[p] + Len(tasks[p]) /\ magics[p] = 0 /\ Live(p) = {}
      BY <2>1, <2>7 DEF Exits
    <3>2. Len(tasks[p]) = 0
      BY <2>2, <3>1, FS_EmptySet
    <3>3. tasks[p] = <<>> /\ \A w \in Threads : worker[p][w] = Exit
      BY <2>2, <3>1, <3>2 DEF Live
    <3>4. main[p] \in Running => CanGoOn(p)
      BY <2>7 DEF CanGoOn, Running
    <3>5. QED  BY <3>3, <3>4
  <2>8. QED  BY <2>4, <2>5, <2>6, <2>7 DEF Running
<1>4. Inv /\ ExitsInv => NeverStuck
  BY <1>3 DEF NeverStuck
<1>5. QED  BY <1>1, <1>2, <1>4, InvAlways, PTL DEF Spec
=============================================================================
