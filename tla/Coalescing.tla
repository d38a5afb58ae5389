------------------------------ MODULE Coalescing ------------------------------
(***************************************************************************)
(* The coalescing reconciler between the work queue of a controller and    *)
(* the reconciler of AzureMachinePools or AzureMachinePoolMachines: a      *)
(* request within Window of the last success is put off.                   *)
(*                                                                         *)
(* Time is counted in seconds and kept relative: ages of cache entries and *)
(* remaining delays, so no bound on the clock is needed.                   *)
(***************************************************************************)
EXTENDS Integers, Sequences, FiniteSets

CONSTANTS
    Keys,       \* objects requests are made for
    Window,     \* seconds a success keeps further requests back
    Size,       \* entries the cache holds
    Workers,    \* MaxConcurrentReconciles
    Requeues,   \* delays a successful reconciliation may ask for, 0 for none
    MaxBackoff, \* seconds after which a key that keeps failing is retried at last
    Nil         \* no entry, no delay

ASSUME KeysAssumption == IsFiniteSet(Keys)
ASSUME WindowAssumption == Window \in Nat \ {0}
ASSUME SizeAssumption == Size \in Nat \ {0}
ASSUME WorkersAssumption == Workers \in Nat \ {0}
ASSUME RequeuesAssumption == Requeues \subseteq Nat /\ Requeues # {}
ASSUME MaxBackoffAssumption == MaxBackoff \in Nat \ {0}
ASSUME NilAssumption == Nil \notin Int

VARIABLES
    queue,      \* work queue: keys in the order they are handed out
    dirty,      \* work queue: keys to be processed
    processing, \* work queue: keys a worker is busy with
    waiting,    \* work queue: seconds until a key is added, Nil if it is not due
    backoff,    \* rate limiter: seconds a failed key was last put back, 0 for none
    age,        \* cache: seconds since the entry was touched, Nil without entry
    recent,     \* cache: keys with an entry, least recently used first
    since,      \* seconds since the last success, at most Window + 1
    pending     \* whether an event awaits the upstream reconciler

work  == <<queue, dirty, processing, waiting, backoff>>
cache == <<age, recent>>
vars  == <<work, cache, since, pending>>

Smaller(a, b) == IF a < b THEN a ELSE b
Larger(a, b)  == IF a < b THEN b ELSE a

Init ==
    /\ queue = <<>> /\ dirty = {} /\ processing = {}
    /\ waiting = [k \in Keys |-> Nil]
    /\ backoff = [k \in Keys |-> 0]
    /\ age = [k \in Keys |-> Nil] /\ recent = <<>>
    /\ since = [k \in Keys |-> Window + 1]
    /\ pending = [k \in Keys |-> FALSE]

-----------------------------------------------------------------------------
(* The work queue of client-go *)

\* Add: a key that is being processed is queued when that is done.
Add(k) ==
    /\ dirty' = dirty \cup {k}
    /\ queue' = IF k \in dirty \/ k \in processing THEN queue ELSE Append(queue, k)

\* Done hands a key that became dirty back to the queue.
Done(k) ==
    /\ processing' = processing \ {k}
    /\ queue' = IF k \in dirty THEN Append(queue, k) ELSE queue

\* AddAfter keeps one delay per key, the shorter one.
AddAfter(k, d) == IF waiting[k] = Nil THEN d ELSE Smaller(d, waiting[k])

\* When of the rate limiter: the delay doubles with each failure, up to a limit.
\* It starts at 5ms, which is rounded up to a second here.
Doubled(d) == IF d = 0 THEN 1 ELSE Smaller(2 * d, MaxBackoff)

\* Forget: a key that did not fail starts over.
Forget(k) == backoff' = [backoff EXCEPT ![k] = 0]

\* An event of the watches.
Event(k) ==
    /\ Add(k)
    /\ pending' = [pending EXCEPT ![k] = TRUE]
    /\ UNCHANGED <<processing, waiting, backoff, cache, since>>

\* A delay has passed.
Due(k) ==
    /\ waiting[k] = 0
    /\ Add(k)
    /\ waiting' = [waiting EXCEPT ![k] = Nil]
    /\ UNCHANGED <<processing, backoff, cache, since, pending>>

\* One second passes.
Tick ==
    /\ waiting' = [k \in Keys |-> IF waiting[k] = Nil THEN Nil
                                  ELSE Larger(waiting[k] - 1, 0)]
    /\ age' = [k \in Keys |-> IF age[k] = Nil THEN Nil
                              ELSE Smaller(age[k] + 1, Window + 1)]
    /\ since' = [k \in Keys |-> Smaller(since[k] + 1, Window + 1)]
    /\ UNCHANGED <<queue, dirty, processing, backoff, recent, pending>>

-----------------------------------------------------------------------------
(* The cache *)

\* The list without the element of k, if it has one.
Holds(k) == \E i \in 1..Len(recent) : recent[i] = k
Without(k) ==
    LET at == CHOOSE i \in 1..Len(recent) : recent[i] = k
    IN  IF Holds(k)
        THEN [i \in 1..(Len(recent) - 1) |-> recent[IF i < at THEN i ELSE i + 1]]
        ELSE recent

\* Slip: an entry expires a moment early.
ExpiredEarly(k) == age[k] >= Window
Expired(k) == age[k] > Window

\* Slip: looking an entry up renews it.
PeekTouches(k) ==
    /\ recent' = Append(Without(k), k)
    /\ age' = [age EXCEPT ![k] = 0]

\* peekItem of an entry that holds: the LRU cache moves it, its age stays.
Peek(k) ==
    /\ recent' = Append(Without(k), k)
    /\ UNCHANGED age

\* peekItem of an entry that is expired or not there.
Remove(k) ==
    /\ recent' = Without(k)
    /\ age' = [age EXCEPT ![k] = Nil]

\* Slip: a cache of keys that never gives one up.
ReconciledUnbounded(k) ==
    /\ recent' = Append(Without(k), k)
    /\ age' = [age EXCEPT ![k] = 0]

\* Reconciled: the entry is touched, and the least recently used one may go.
Reconciled(k) ==
    LET added == Append(Without(k), k)
        full  == Len(added) > Size
    IN  /\ recent' = IF full THEN Tail(added) ELSE added
        /\ age' = [n \in Keys |-> IF n = k THEN 0
                                  ELSE IF full /\ n = Head(added) THEN Nil ELSE age[n]]

ShouldProcess(k) == age[k] # Nil => Expired(k)

-----------------------------------------------------------------------------
(* The coalescing reconciler *)

Get(k) ==
    /\ queue # <<>> /\ Head(queue) = k
    /\ Cardinality(processing) < Workers

\* Slip: a request is dropped within the window.
PutOffDropped(k) ==
    /\ Get(k)
    /\ ~ShouldProcess(k)
    /\ Peek(k)
    /\ dirty' = dirty \ {k} /\ queue' = Tail(queue)
    /\ Forget(k)
    /\ UNCHANGED <<processing, waiting, since, pending>>

\* Slip: a request is put off by the whole window, not by what is left of it.
PutOffWholeWindow(k) ==
    /\ Get(k)
    /\ ~ShouldProcess(k)
    /\ Peek(k)
    /\ dirty' = dirty \ {k} /\ queue' = Tail(queue)
    /\ waiting' = [waiting EXCEPT ![k] = AddAfter(k, Window)]
    /\ Forget(k)
    /\ UNCHANGED <<processing, since, pending>>

\* Within the window the request comes back when the window ends, but not before
\* a second has passed.
PutOff(k) ==
    /\ Get(k)
    /\ ~ShouldProcess(k)
    /\ Peek(k)
    /\ dirty' = dirty \ {k} /\ queue' = Tail(queue)
    /\ waiting' = [waiting EXCEPT ![k] = AddAfter(k, Larger(Window - age[k], 1))]
    /\ Forget(k)
    /\ UNCHANGED <<processing, since, pending>>

\* Outside of it the upstream reconciler is called.
Start(k) ==
    /\ Get(k)
    /\ ShouldProcess(k)
    /\ Remove(k)
    /\ dirty' = dirty \ {k} /\ queue' = Tail(queue)
    /\ processing' = processing \cup {k}
    /\ pending' = [pending EXCEPT ![k] = FALSE]
    /\ UNCHANGED <<waiting, backoff, since>>

\* It succeeds, and may ask to be called again.
Succeed(k, d) ==
    /\ k \in processing
    /\ Reconciled(k)
    /\ Done(k)
    /\ waiting' = IF d = 0 THEN waiting ELSE [waiting EXCEPT ![k] = AddAfter(k, d)]
    /\ Forget(k)
    /\ since' = [since EXCEPT ![k] = 0]
    /\ UNCHANGED <<dirty, pending>>

\* It fails: the key is added again after the back-off of the rate limiter, the
\* cache is not touched and what it was to handle is still pending.
Fail(k) ==
    /\ k \in processing
    /\ Done(k)
    /\ backoff' = [backoff EXCEPT ![k] = Doubled(backoff[k])]
    /\ waiting' = [waiting EXCEPT ![k] = AddAfter(k, Doubled(backoff[k]))]
    /\ pending' = [pending EXCEPT ![k] = TRUE]
    /\ UNCHANGED <<dirty, cache, since>>

-----------------------------------------------------------------------------
Finish(k) == Fail(k) \/ \E d \in Requeues : Succeed(k, d)

Next == \/ Tick
        \/ \E k \in Keys : \/ Event(k) \/ Due(k) \/ PutOff(k) \/ Start(k) \/ Finish(k)

Spec == Init /\ [][Next]_vars

\* Time passes, delays end, and every worker comes back: reconciliations run
\* under a timeout.
Fairness ==
    /\ WF_vars(Tick)
    /\ WF_vars(\E k \in Keys : PutOff(k) \/ Start(k))
    /\ \A k \in Keys : WF_vars(Due(k)) /\ WF_vars(Finish(k))

FairSpec == Spec /\ Fairness

-----------------------------------------------------------------------------
(* Properties *)

\* The variables keep their types, and the list of recent keys of the cache is
\* within its size and has every key with an entry.
TypeOK ==
    /\ queue \in Seq(Keys) /\ dirty \subseteq Keys /\ processing \subseteq Keys
    /\ waiting \in [Keys -> Nat \cup {Nil}]
    /\ backoff \in [Keys -> 0..MaxBackoff]
    /\ age \in [Keys -> 0..(Window + 1) \cup {Nil}]
    /\ recent \in Seq(Keys) /\ Len(recent) <= Size
    /\ \A k \in Keys : age[k] # Nil => Holds(k)
    /\ since \in [Keys -> 0..(Window + 1)]
    /\ pending \in [Keys -> BOOLEAN]

\* An event that the upstream reconciler has not seen is never forgotten while
\* requests are put off, retried, merged or evicted: the key is to be processed,
\* or a delay runs.
NoEventLost == \A k \in Keys : pending[k] => k \in dirty \/ waiting[k] # Nil

\* "Reconcile sends a request to the upstream reconciler if the request is outside
\* of the debounce window" (reconciler.go:91): within it only when the entry of
\* the last success is gone, and that goes early only from a full cache.
Debounced ==
    [][\A k \in Keys :
           /\ k \in processing' \ processing => since[k] > Window \/ age[k] = Nil
           /\ since'[k] <= Window /\ age'[k] = Nil =>
                  (since[k] <= Window /\ age[k] = Nil) \/ Len(recent) = Size]_vars

\* "a reconcile wrapper that will delay new reconcile.Requests after the cache
\* expiry" (reconciler.go:80): an event waits for the end of the window or a
\* second, whatever longer delay a success asked for before.  Only failures of
\* the upstream reconciler since the last request that was handled or put off make
\* it wait for longer, and then for no longer than their back-off.
DelayBounded ==
    \A k \in Keys : pending[k] /\ k \notin dirty
        => waiting[k] <= Larger(Window - since[k], Larger(backoff[k], 1))

\* The upstream reconciler sees every event in the end.
EventuallyProcessed == \A k \in Keys : pending[k] ~> ~pending[k]
=============================================================================
