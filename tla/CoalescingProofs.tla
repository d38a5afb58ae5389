--------------------------- MODULE CoalescingProofs ---------------------------
(***************************************************************************)
(* Proofs that the coalescing reconciler loses no event, puts none off     *)
(* beyond the window or the back-off of failures, and calls upstream       *)
(* within the window only when a full cache gave up the entry, for any     *)
(* keys, window, back-off, cache size and number of workers.               *)
(*                                                                         *)
(* DelayBounded is not inductive: how long a request is put off is taken   *)
(* from the age of the cache entry, and a success forgets the back-off an  *)
(* earlier failure may still wait for.  The invariant adds that the age is *)
(* the time since the last success, that an event which arrives while      *)
(* upstream runs is dirty, and, for that, that no key with a worker is     *)
(* handed out again.                                                       *)
(***************************************************************************)
EXTENDS Coalescing, TLAPS

-----------------------------------------------------------------------------
(* The queue and the cache *)

\* The key is somewhere in the sequence.
In(k, s) == \E i \in 1..Len(s) : s[i] = k

\* No key is in the sequence twice.
Distinct(s) == \A i, j \in 1..Len(s) : s[i] = s[j] => i = j

LEMMA Appended ==
    ASSUME NEW s \in Seq(Keys), NEW k \in Keys
    PROVE  /\ Append(s, k) \in Seq(Keys) /\ Len(Append(s, k)) = Len(s) + 1
           /\ \A n : In(n, Append(s, k)) <=> In(n, s) \/ n = k
           /\ Distinct(s) /\ ~In(k, s) => Distinct(Append(s, k))
<1> DEFINE t == Append(s, k)
<1>1. /\ t \in Seq(Keys) /\ Len(t) = Len(s) + 1 /\ Len(s) \in Nat /\ t[Len(s) + 1] = k
      /\ \A i \in 1..Len(s) : t[i] = s[i]
  OBVIOUS
<1> HIDE DEF t
<1>2. ASSUME NEW n PROVE In(n, t) <=> In(n, s) \/ n = k
  <2>1. ASSUME NEW i \in 1..Len(t), t[i] = n PROVE In(n, s) \/ n = k
    <3>1. i \in 1..Len(s) \/ i = Len(s) + 1
      BY <1>1
    <3> QED BY <1>1, <2>1, <3>1 DEF In
  <2>2. ASSUME NEW i \in 1..Len(s), s[i] = n PROVE In(n, t)
    <3>1. i \in 1..Len(t)
      BY <1>1
    <3> QED BY <1>1, <2>2, <3>1 DEF In
  <2>3. n = k => In(n, t)
    <3>1. Len(s) + 1 \in 1..Len(t)
      BY <1>1
    <3> QED BY <1>1, <3>1 DEF In
  <2> QED BY <2>1, <2>2, <2>3 DEF In
<1>3. ASSUME Distinct(s), ~In(k, s) PROVE Distinct(t)
  BY <1>1, <1>3 DEF Distinct, In
<1> QED BY <1>1, <1>2, <1>3 DEF t

LEMMA Shortened ==
    ASSUME NEW s \in Seq(Keys), s # << >>
    PROVE  /\ Tail(s) \in Seq(Keys) /\ Len(Tail(s)) = Len(s) - 1 /\ Len(s) \in Nat \ {0}
           /\ Head(s) \in Keys /\ In(Head(s), s)
           /\ \A n : In(n, Tail(s)) => In(n, s)
           /\ \A n : In(n, s) => In(n, Tail(s)) \/ n = Head(s)
           /\ Distinct(s) => Distinct(Tail(s)) /\ ~In(Head(s), Tail(s))
<1> DEFINE t == Tail(s)
<1>1. /\ t \in Seq(Keys) /\ Len(t) = Len(s) - 1 /\ Len(s) \in Nat \ {0}
      /\ Head(s) = s[1] /\ Head(s) \in Keys
      /\ \A i \in 1..Len(t) : t[i] = s[i + 1]
  OBVIOUS
<1> HIDE DEF t
<1>2. In(Head(s), s)
  BY <1>1 DEF In
<1>3. \A n : In(n, t) => In(n, s)
  <2> SUFFICES ASSUME NEW n, NEW i \in 1..Len(t), t[i] = n PROVE In(n, s)
    BY DEF In
  <2>1. i + 1 \in 1..Len(s)
    BY <1>1
  <2> QED BY <1>1, <2>1 DEF In
<1>4. \A n : In(n, s) => In(n, t) \/ n = Head(s)
  <2> SUFFICES ASSUME NEW n, NEW i \in 1..Len(s), s[i] = n PROVE In(n, t) \/ n = Head(s)
    BY DEF In
  <2>1. i = 1 \/ (i - 1 \in 1..Len(t) /\ t[i - 1] = s[i])
    BY <1>1
  <2> QED BY <1>1, <2>1 DEF In
<1>5. ASSUME Distinct(s) PROVE Distinct(t) /\ ~In(Head(s), t)
  <2>1. \A i \in 1..Len(t) : i + 1 \in 1..Len(s) /\ i + 1 # 1 /\ t[i] = s[i + 1]
    BY <1>1
  <2>2. Distinct(t)
    BY <1>1, <1>5, <2>1 DEF Distinct
  <2>3. ~In(Head(s), t)
    BY <1>1, <1>5, <2>1 DEF Distinct, In
  <2> QED BY <2>2, <2>3
<1> QED BY <1>1, <1>2, <1>3, <1>4, <1>5 DEF t

LEMMA WithoutKey ==
    ASSUME recent \in Seq(Keys), NEW k \in Keys
    PROVE  /\ Without(k) \in Seq(Keys) /\ Len(Without(k)) <= Len(recent)
           /\ In(k, recent) => Len(Without(k)) = Len(recent) - 1
           /\ \A n : n # k /\ In(n, recent) => In(n, Without(k))
<1>1. CASE ~Holds(k)
  <2>1. Without(k) = recent /\ Len(recent) \in Nat
    BY <1>1 DEF Without
  <2> QED BY <1>1, <2>1 DEF Holds, In
<1>2. CASE Holds(k)
  <2> DEFINE at == CHOOSE i \in 1..Len(recent) : recent[i] = k
             s == [i \in 1..(Len(recent) - 1) |-> recent[IF i < at THEN i ELSE i + 1]]
  <2>1. at \in 1..Len(recent) /\ recent[at] = k
    BY <1>2 DEF Holds
  <2>2. Without(k) = s
    BY <1>2 DEF Without
  <2> HIDE DEF at
  <2>3. Len(recent) \in Nat \ {0} /\ Len(recent) - 1 \in Nat
    BY <2>1
  <2>4. \A i \in 1..(Len(recent) - 1) : (IF i < at THEN i ELSE i + 1) \in 1..Len(recent)
    BY <2>1, <2>3
  <2>5. s \in [1..(Len(recent) - 1) -> Keys]
    BY <2>4
  <2>6. s \in Seq(Keys) /\ Len(s) = Len(recent) - 1
    BY <2>3, <2>5
  <2>7. ASSUME NEW n, n # k, NEW i \in 1..Len(recent), recent[i] = n
        PROVE  In(n, s)
    <3> DEFINE j == IF i < at THEN i ELSE i - 1
    <3>1. i # at
      BY <2>1, <2>7
    <3>2. j \in 1..Len(s) /\ s[j] = recent[i]
      BY <2>1, <2>3, <2>6, <3>1
    <3> HIDE DEF j, s
    <3> QED BY <2>7, <3>2 DEF In
  <2> HIDE DEF s
  <2> QED BY <2>2, <2>3, <2>6, <2>7 DEF In
<1> QED BY <1>1, <1>2

\* The queue holds exactly what is to be processed and not with a worker, or a
\* key could be appended twice.
QueueOK ==
    /\ queue \in Seq(Keys) /\ dirty \subseteq Keys /\ processing \subseteq Keys
    /\ Distinct(queue)
    /\ \A k \in Keys : In(k, queue) <=> k \in dirty /\ k \notin processing

\* Every entry of the cache is in its list, or looking one up could grow it.
CacheOK ==
    /\ age \in [Keys -> 0..(Window + 1) \cup {Nil}]
    /\ recent \in Seq(Keys) /\ Len(recent) <= Size
    /\ \A k \in Keys : age[k] # Nil => In(k, recent)

\* The head of the queue is not with a worker.
LEMMA InQueue ==
    ASSUME QueueOK, queue # << >>
    PROVE  Head(queue) \in Keys /\ Head(queue) \notin processing
BY Shortened DEF QueueOK

LEMMA AddKeeps ==
    ASSUME QueueOK, NEW k \in Keys, Add(k), processing' = processing
    PROVE  QueueOK'
<1>1. dirty' = dirty \cup {k}
  BY DEF Add
<1>2. CASE k \in dirty \/ k \in processing
  BY <1>1, <1>2 DEF Add, QueueOK
<1>3. CASE k \notin dirty /\ k \notin processing
  <2>1. queue' = Append(queue, k) /\ ~In(k, queue)
    BY <1>3 DEF Add, QueueOK
  <2> QED BY <1>1, <1>3, <2>1, Appended DEF QueueOK
<1> QED BY <1>2, <1>3

LEMMA DoneKeeps ==
    ASSUME QueueOK, NEW k \in processing, Done(k), dirty' = dirty
    PROVE  QueueOK'
<1>1. processing' = processing \ {k} /\ k \in Keys
  BY DEF Done, QueueOK
<1>2. CASE k \notin dirty
  BY <1>1, <1>2 DEF Done, QueueOK
<1>3. CASE k \in dirty
  <2>1. queue' = Append(queue, k) /\ ~In(k, queue)
    BY <1>1, <1>3 DEF Done, QueueOK
  <2> QED BY <1>1, <1>3, <2>1, Appended DEF QueueOK
<1> QED BY <1>2, <1>3

LEMMA GetKeeps ==
    ASSUME QueueOK, NEW k \in Keys, Get(k), dirty' = dirty \ {k}, queue' = Tail(queue),
           processing' = processing \/ processing' = processing \cup {k}
    PROVE  QueueOK'
<1>1. queue # << >> /\ Head(queue) = k /\ queue \in Seq(Keys) /\ Distinct(queue)
  BY DEF Get, QueueOK
<1>2. /\ Tail(queue) \in Seq(Keys) /\ Distinct(Tail(queue)) /\ ~In(k, Tail(queue))
      /\ \A n : In(n, Tail(queue)) => In(n, queue)
      /\ \A n : In(n, queue) => In(n, Tail(queue)) \/ n = k
  BY <1>1, Shortened
<1> QED BY <1>2 DEF QueueOK

LEMMA PeekKeeps ==
    ASSUME CacheOK, NEW k \in Keys, age[k] # Nil, Peek(k)
    PROVE  CacheOK'
<1>1. /\ recent' = Append(Without(k), k) /\ age' = age
      /\ recent \in Seq(Keys) /\ In(k, recent)
  BY DEF Peek, CacheOK
<1>2. /\ Without(k) \in Seq(Keys) /\ Len(Without(k)) = Len(recent) - 1
      /\ \A n : n # k /\ In(n, recent) => In(n, Without(k))
  BY <1>1, WithoutKey
<1>3. /\ recent' \in Seq(Keys) /\ Len(recent') = Len(Without(k)) + 1
      /\ \A n : In(n, recent') <=> In(n, Without(k)) \/ n = k
  BY <1>1, <1>2, Appended
<1>4. Len(recent') <= Size
  <2>1. Len(recent) \in Nat /\ Len(recent) <= Size
    BY <1>1 DEF CacheOK
  <2> QED BY <1>2, <1>3, <2>1
<1>5. \A n \in Keys : age'[n] # Nil => In(n, recent')
  BY <1>1, <1>2, <1>3 DEF CacheOK
<1> QED BY <1>1, <1>3, <1>4, <1>5 DEF CacheOK

LEMMA RemoveKeeps ==
    ASSUME CacheOK, NEW k \in Keys, Remove(k)
    PROVE  CacheOK'
<1>1. /\ recent' = Without(k) /\ age' = [age EXCEPT ![k] = Nil] /\ recent \in Seq(Keys)
  BY DEF Remove, CacheOK
<1>2. /\ recent' \in Seq(Keys) /\ Len(recent') <= Len(recent)
      /\ \A n : n # k /\ In(n, recent) => In(n, recent')
  BY <1>1, WithoutKey
<1>3. Len(recent') <= Size
  <2>1. Len(recent) \in Nat /\ Len(recent') \in Nat /\ Len(recent) <= Size
    BY <1>1, <1>2 DEF CacheOK
  <2> QED BY <1>2, <2>1, SizeAssumption
<1>4. age' \in [Keys -> 0..(Window + 1) \cup {Nil}] /\ age'[k] = Nil
      /\ \A n \in Keys \ {k} : age'[n] = age[n]
  BY <1>1 DEF CacheOK
<1> QED BY <1>2, <1>3, <1>4 DEF CacheOK

LEMMA ReconciledKeeps ==
    ASSUME CacheOK, NEW k \in Keys, Reconciled(k)
    PROVE  CacheOK' /\ \A n \in Keys : age[n] # Nil /\ age'[n] = Nil => Len(recent) = Size
<1> DEFINE added == Append(Without(k), k)
           full == Len(added) > Size
<1>1. /\ recent' = IF full THEN Tail(added) ELSE added
      /\ age' = [n \in Keys |-> IF n = k THEN 0
                                ELSE IF full /\ n = Head(added) THEN Nil ELSE age[n]]
      /\ recent \in Seq(Keys) /\ age \in [Keys -> 0..(Window + 1) \cup {Nil}]
  BY DEF Reconciled, CacheOK
<1>2. /\ Without(k) \in Seq(Keys) /\ Len(Without(k)) <= Len(recent)
      /\ In(k, recent) => Len(Without(k)) = Len(recent) - 1
      /\ \A n : n # k /\ In(n, recent) => In(n, Without(k))
  BY <1>1, WithoutKey
<1>3. /\ added \in Seq(Keys) /\ Len(added) = Len(Without(k)) + 1
      /\ added[Len(added)] = k
      /\ \A n : In(n, added) <=> In(n, Without(k)) \/ n = k
  BY <1>2, Appended
<1>4. Len(recent) \in Nat /\ Len(Without(k)) \in Nat /\ Len(recent) <= Size
  BY <1>1, <1>2 DEF CacheOK
<1> HIDE DEF added
<1>5. added # << >>
  BY <1>3, <1>4
<1>6. /\ Tail(added) \in Seq(Keys) /\ Len(Tail(added)) = Len(added) - 1
      /\ \A n : In(n, added) => In(n, Tail(added)) \/ n = Head(added)
  BY <1>3, <1>5, Shortened
<1>7. recent' \in Seq(Keys) /\ Len(recent') <= Size
  BY <1>1, <1>2, <1>3, <1>4, <1>6, SizeAssumption
<1>8. age' \in [Keys -> 0..(Window + 1) \cup {Nil}]
  BY <1>1, WindowAssumption
<1>9. In(k, recent')
  <2>1. CASE full
    <3>1. Len(Tail(added)) \in 1..Len(Tail(added)) /\ Tail(added)[Len(Tail(added))] = k
      BY <1>3, <1>4, <1>6, <2>1, SizeAssumption
    <3> QED BY <1>1, <2>1, <3>1 DEF In
  <2>2. CASE ~full
    BY <1>1, <1>3, <2>2
  <2> QED BY <2>1, <2>2
<1>10. ASSUME NEW n \in Keys, age'[n] # Nil PROVE In(n, recent')
  <2>1. CASE n = k
    BY <1>9, <2>1
  <2>2. CASE n # k
    <3>1. age[n] # Nil /\ ~(full /\ n = Head(added))
      BY <1>1, <1>10, <2>2
    <3>2. In(n, added)
      BY <1>2, <1>3, <2>2, <3>1 DEF CacheOK
    <3> QED BY <1>1, <1>6, <3>1, <3>2
  <2> QED BY <2>1, <2>2
<1>11. ASSUME NEW n \in Keys, age[n] # Nil, age'[n] = Nil PROVE Len(recent) = Size
  <2>1. full
    BY <1>1, <1>11, NilAssumption
  <2> QED BY <1>2, <1>3, <1>4, <2>1, SizeAssumption
<1> QED BY <1>7, <1>8, <1>10, <1>11 DEF CacheOK
-----------------------------------------------------------------------------
(* The invariant *)

Types ==
    /\ waiting \in [Keys -> Nat \cup {Nil}]
    /\ backoff \in [Keys -> 0..MaxBackoff]
    /\ age \in [Keys -> 0..(Window + 1) \cup {Nil}]
    /\ since \in [Keys -> 0..(Window + 1)]
    /\ pending \in [Keys -> BOOLEAN]

\* A cache entry is as old as the last success.
AgeIsSince == \A k \in Keys : age[k] # Nil => age[k] = since[k]

\* An event that arrives while upstream runs is handed out after it.
LateEventsDirty == \A k \in processing : pending[k] => k \in dirty

IndInv == Types /\ NoEventLost /\ AgeIsSince /\ LateEventsDirty /\ DelayBounded

\* How long an event may wait, for a key last handled so many seconds ago and put
\* back with this back-off.
Bound(s, b) == Larger(Window - s, Larger(b, 1))

\* The shorter of two delays is neither longer than either nor missing.
LEMMA AddAfterBounded ==
    ASSUME Types, NEW k \in Keys, NEW d \in Nat
    PROVE  /\ AddAfter(k, d) \in Nat
           /\ AddAfter(k, d) <= d
           /\ waiting[k] # Nil => AddAfter(k, d) <= waiting[k]
BY NilAssumption DEF Types, AddAfter, Smaller

\* The invariant holds at first.
LEMMA InitInv == Init => IndInv
BY WindowAssumption, NilAssumption, MaxBackoffAssumption
DEF Init, IndInv, Types, NoEventLost, AgeIsSince, LateEventsDirty, DelayBounded

\* The back-off stays within its limit and never shrinks with a failure.
LEMMA DoubledBounded ==
    ASSUME NEW b \in 0..MaxBackoff
    PROVE  Doubled(b) \in 1..MaxBackoff
BY MaxBackoffAssumption DEF Doubled, Smaller

\* Every step keeps it.
LEMMA NextInv == IndInv /\ QueueOK /\ [Next]_vars => IndInv'
<1> SUFFICES ASSUME IndInv, QueueOK, [Next]_vars PROVE IndInv'
  OBVIOUS
<1> USE WindowAssumption, NilAssumption, MaxBackoffAssumption DEF IndInv, Types
<1>1. CASE Tick
  <2>1. \A k \in Keys : /\ waiting'[k] = Nil <=> waiting[k] = Nil
                        /\ waiting[k] # Nil => waiting'[k] = Larger(waiting[k] - 1, 0)
    BY <1>1 DEF Tick, Larger
  <2>2. Types'
    BY <1>1, RequeuesAssumption DEF Tick, Larger, Smaller
  <2>3. AgeIsSince' /\ LateEventsDirty'
    BY <1>1 DEF Tick, AgeIsSince, LateEventsDirty
  <2>4. NoEventLost'
    BY <1>1, <2>1 DEF Tick, NoEventLost
  <2>5. ASSUME NEW k \in Keys, pending'[k], k \notin dirty'
        PROVE  waiting'[k] <= Bound(since'[k], backoff'[k])
    <3>1. pending[k] /\ k \notin dirty /\ backoff' = backoff
      BY <1>1, <2>5 DEF Tick
    <3>2. waiting[k] \in Nat /\ waiting[k] <= Bound(since[k], backoff[k])
      BY <3>1 DEF NoEventLost, DelayBounded, Bound
    <3>3. since[k] \in 0..(Window + 1) /\ since'[k] = Smaller(since[k] + 1, Window + 1)
          /\ backoff[k] \in 0..MaxBackoff
      BY <1>1 DEF Tick
    <3> QED
      BY <2>1, <3>1, <3>2, <3>3 DEF Larger, Smaller, Bound
  <2> QED
    BY <2>2, <2>3, <2>4, <2>5 DEF DelayBounded, Bound
<1>2. ASSUME NEW k \in Keys, Event(k) PROVE IndInv'
  BY <1>2 DEF Event, Add, cache, NoEventLost, AgeIsSince, LateEventsDirty, DelayBounded
<1>3. ASSUME NEW k \in Keys, Due(k) PROVE IndInv'
  BY <1>3 DEF Due, Add, cache, NoEventLost, AgeIsSince, LateEventsDirty, DelayBounded
<1>4. ASSUME NEW k \in Keys, PutOff(k) PROVE IndInv'
  <2> DEFINE d == Larger(Window - age[k], 1)
  <2>1. age[k] = since[k] /\ age[k] \in 0..Window
    BY <1>4 DEF PutOff, ShouldProcess, Expired, AgeIsSince
  <2>2. d \in Nat /\ d <= Bound(since[k], 0)
    BY <2>1 DEF Larger, Bound
  <2>3. AddAfter(k, d) \in Nat /\ AddAfter(k, d) <= d
    BY <2>2, AddAfterBounded
  <2>4. /\ waiting' = [waiting EXCEPT ![k] = AddAfter(k, d)]
        /\ backoff' = [backoff EXCEPT ![k] = 0]
        /\ dirty' = dirty \ {k}
        /\ UNCHANGED <<age, since, pending, processing>>
    BY <1>4 DEF PutOff, Peek, Forget
  <2>a. k \notin processing
    BY <1>4, InQueue DEF PutOff, Get, QueueOK
  <2> HIDE DEF d
  <2>5. waiting'[k] \in Nat /\ waiting'[k] <= d
    BY <2>3, <2>4
  <2>6. \A n \in Keys \ {k} : /\ waiting'[n] = waiting[n] /\ (n \in dirty' <=> n \in dirty)
                              /\ backoff'[n] = backoff[n]
    BY <2>4
  <2>7. Types' /\ AgeIsSince' /\ LateEventsDirty'
    <3>1. LateEventsDirty'
      BY <2>4, <2>a DEF LateEventsDirty, QueueOK
    <3>2. backoff' \in [Keys -> 0..MaxBackoff]
      BY <2>4
    <3> QED BY <2>3, <2>4, <3>1, <3>2 DEF AgeIsSince
  <2>8. NoEventLost'
    BY <2>4, <2>5, <2>6 DEF NoEventLost
  <2>9. waiting'[k] <= Bound(since'[k], backoff'[k])
    BY <2>1, <2>2, <2>4, <2>5 DEF Larger, Bound
  <2> QED
    BY <2>4, <2>6, <2>7, <2>8, <2>9 DEF DelayBounded, Bound
<1>5. ASSUME NEW k \in Keys, Start(k) PROVE IndInv'
  BY <1>5 DEF Start, Remove, NoEventLost, AgeIsSince, LateEventsDirty, DelayBounded
<1>6. ASSUME NEW k \in Keys, NEW d \in Requeues, Succeed(k, d) PROVE IndInv'
  <2>1. d \in Nat
    BY RequeuesAssumption
  <2>2. AddAfter(k, d) \in Nat
    BY <2>1, AddAfterBounded
  <2>3. /\ waiting' = IF d = 0 THEN waiting ELSE [waiting EXCEPT ![k] = AddAfter(k, d)]
        /\ since' = [since EXCEPT ![k] = 0]
        /\ backoff' = [backoff EXCEPT ![k] = 0]
        /\ processing' = processing \ {k} /\ k \in processing
        /\ UNCHANGED <<dirty, pending>>
    BY <1>6 DEF Succeed, Done, Forget
  <2>4. waiting'[k] \in Nat \cup {Nil} /\ (waiting[k] # Nil => waiting'[k] # Nil)
    BY <2>2, <2>3
  <2>5. \A n \in Keys \ {k} : /\ waiting'[n] = waiting[n] /\ since'[n] = since[n]
                              /\ backoff'[n] = backoff[n]
    BY <2>3
  <2>6. /\ age' \in [Keys -> 0..(Window + 1) \cup {Nil}] /\ age'[k] = 0
        /\ \A n \in Keys \ {k} : age'[n] \in {Nil, age[n]}
    <3> DEFINE added == Append(Without(k), k)
               full  == Len(added) > Size
    <3>1. age' = [n \in Keys |-> IF n = k THEN 0
                                 ELSE IF full /\ n = Head(added) THEN Nil ELSE age[n]]
      BY <1>6 DEF Succeed, Reconciled
    <3> HIDE DEF added, full
    <3> QED
      BY <3>1
  <2>7. Types'
    <3>1. waiting' \in [Keys -> Nat \cup {Nil}]
      BY <2>2, <2>3
    <3>2. since' \in [Keys -> 0..(Window + 1)] /\ backoff' \in [Keys -> 0..MaxBackoff]
      BY <2>3
    <3> QED
      BY <2>3, <2>6, <3>1, <3>2
  <2>8. AgeIsSince'
    <3>1. since'[k] = 0
      BY <2>3
    <3>2. ASSUME NEW n \in Keys \ {k}, age'[n] # Nil PROVE age'[n] = since'[n]
      BY <2>5, <2>6, <3>2 DEF AgeIsSince
    <3> QED
      BY <2>6, <3>1, <3>2 DEF AgeIsSince
  <2>9. NoEventLost' /\ LateEventsDirty'
    BY <2>3, <2>4, <2>5 DEF NoEventLost, LateEventsDirty
  <2>10. pending[k] => k \in dirty
    BY <2>3 DEF LateEventsDirty
  <2> QED
    BY <2>3, <2>5, <2>7, <2>8, <2>9, <2>10 DEF DelayBounded
<1>7. ASSUME NEW k \in Keys, Fail(k) PROVE IndInv'
  <2> DEFINE d == Doubled(backoff[k])
  <2>1. d \in 1..MaxBackoff /\ d \in Nat
    BY DoubledBounded
  <2>2. AddAfter(k, d) \in Nat /\ AddAfter(k, d) <= d
    BY <2>1, AddAfterBounded
  <2>3. /\ waiting' = [waiting EXCEPT ![k] = AddAfter(k, d)]
        /\ backoff' = [backoff EXCEPT ![k] = d]
        /\ pending' = [pending EXCEPT ![k] = TRUE]
        /\ processing' = processing \ {k}
        /\ UNCHANGED <<dirty, age, since>>
    BY <1>7 DEF Fail, Done, cache
  <2> HIDE DEF d
  <2>4. Types' /\ AgeIsSince'
    BY <2>1, <2>2, <2>3 DEF AgeIsSince
  <2>5. waiting'[k] \in Nat /\ waiting'[k] <= Bound(since'[k], backoff'[k])
    BY <2>1, <2>2, <2>3 DEF Larger, Bound
  <2>6. \A n \in Keys \ {k} : /\ waiting'[n] = waiting[n] /\ pending'[n] = pending[n]
                              /\ backoff'[n] = backoff[n]
    BY <2>3
  <2>7. LateEventsDirty'
    BY <2>3, <2>6 DEF LateEventsDirty, QueueOK
  <2> QED
    BY <2>3, <2>4, <2>5, <2>6, <2>7 DEF NoEventLost, DelayBounded, Bound
<1>8. CASE UNCHANGED vars
  BY <1>8 DEF vars, work, cache, NoEventLost, AgeIsSince, LateEventsDirty, DelayBounded
<1> QED
  BY <1>1, <1>2, <1>3, <1>4, <1>5, <1>6, <1>7, <1>8 DEF Next, Finish

\* One step: the two parts are kept, and the promise of the debouncer holds.
DebouncedStep ==
    \A k \in Keys :
        /\ k \in processing' \ processing => since[k] > Window \/ age[k] = Nil
        /\ since'[k] <= Window /\ age'[k] = Nil =>
               (since[k] <= Window /\ age[k] = Nil) \/ Len(recent) = Size

LEMMA QueueStep ==
    ASSUME IndInv, QueueOK, CacheOK, [Next]_vars
    PROVE  QueueOK' /\ CacheOK' /\ DebouncedStep
<1> USE WindowAssumption, NilAssumption
<1>0. Types /\ AgeIsSince
  BY DEF IndInv
<1>1. CASE Tick
  <2>1. UNCHANGED <<queue, dirty, processing, recent>>
    BY <1>1 DEF Tick
  <2>2. /\ age' \in [Keys -> 0..(Window + 1) \cup {Nil}]
        /\ \A k \in Keys : age'[k] = Nil <=> age[k] = Nil
        /\ \A k \in Keys : since'[k] <= Window => since[k] <= Window
    BY <1>0, <1>1 DEF Tick, Types, Smaller
  <2> QED BY <2>1, <2>2 DEF QueueOK, CacheOK, DebouncedStep
<1>2. ASSUME NEW k \in Keys, Event(k) PROVE QueueOK' /\ CacheOK' /\ DebouncedStep
  <2>1. Add(k) /\ UNCHANGED <<processing, age, recent, since>>
    BY <1>2 DEF Event, cache
  <2>2. QueueOK'
    BY <2>1, AddKeeps
  <2> QED BY <2>1, <2>2 DEF CacheOK, DebouncedStep
<1>3. ASSUME NEW k \in Keys, Due(k) PROVE QueueOK' /\ CacheOK' /\ DebouncedStep
  <2>1. Add(k) /\ UNCHANGED <<processing, age, recent, since>>
    BY <1>3 DEF Due, cache
  <2>2. QueueOK'
    BY <2>1, AddKeeps
  <2> QED BY <2>1, <2>2 DEF CacheOK, DebouncedStep
<1>4. ASSUME NEW k \in Keys, PutOff(k) PROVE QueueOK' /\ CacheOK' /\ DebouncedStep
  <2>1. /\ Get(k) /\ Peek(k) /\ dirty' = dirty \ {k} /\ queue' = Tail(queue)
        /\ UNCHANGED <<processing, age, since>> /\ age[k] # Nil
    BY <1>4 DEF PutOff, Peek, ShouldProcess
  <2>2. QueueOK' /\ CacheOK'
    BY <2>1, GetKeeps, PeekKeeps
  <2> QED BY <2>1, <2>2 DEF DebouncedStep
<1>5. ASSUME NEW k \in Keys, Start(k) PROVE QueueOK' /\ CacheOK' /\ DebouncedStep
  <2>1. /\ Get(k) /\ Remove(k) /\ dirty' = dirty \ {k} /\ queue' = Tail(queue)
        /\ processing' = processing \cup {k} /\ since' = since
        /\ age[k] # Nil => age[k] > Window
    BY <1>5 DEF Start, ShouldProcess, Expired
  <2>2. QueueOK' /\ CacheOK'
    BY <2>1, GetKeeps, RemoveKeeps
  <2>3. age' = [age EXCEPT ![k] = Nil] /\ (age[k] # Nil => since[k] > Window)
    BY <1>0, <2>1 DEF Remove, AgeIsSince
  <2>4. since[k] <= Window => ~(since[k] > Window)
    BY <1>0 DEF Types
  <2>5. \A n \in Keys \ {k} : age'[n] = age[n]
    BY <1>0, <2>3 DEF Types
  <2> QED BY <2>1, <2>2, <2>3, <2>4, <2>5 DEF DebouncedStep
<1>6. ASSUME NEW k \in Keys, NEW d \in Requeues, Succeed(k, d)
      PROVE  QueueOK' /\ CacheOK' /\ DebouncedStep
  <2>1. /\ k \in processing /\ Reconciled(k) /\ Done(k) /\ dirty' = dirty
        /\ since' = [since EXCEPT ![k] = 0] /\ processing' \subseteq processing
    BY <1>6 DEF Succeed, Done
  <2>2. QueueOK'
    BY <2>1, DoneKeeps
  <2>3. CacheOK' /\ \A n \in Keys : age[n] # Nil /\ age'[n] = Nil => Len(recent) = Size
    BY <2>1, ReconciledKeeps
  <2>4. age'[k] # Nil
    BY <2>1 DEF Reconciled
  <2>5. \A n \in Keys \ {k} : since'[n] = since[n]
    BY <1>0, <2>1 DEF Types
  <2> QED BY <2>1, <2>2, <2>3, <2>4, <2>5 DEF DebouncedStep
<1>7. ASSUME NEW k \in Keys, Fail(k) PROVE QueueOK' /\ CacheOK' /\ DebouncedStep
  <2>1. /\ k \in processing /\ Done(k) /\ UNCHANGED <<dirty, age, recent, since>>
        /\ processing' \subseteq processing
    BY <1>7 DEF Fail, Done, cache
  <2>2. QueueOK'
    BY <2>1, DoneKeeps
  <2> QED BY <2>1, <2>2 DEF CacheOK, DebouncedStep
<1>8. CASE UNCHANGED vars
  BY <1>8 DEF vars, work, cache, QueueOK, CacheOK, DebouncedStep
<1> QED
  BY <1>1, <1>2, <1>3, <1>4, <1>5, <1>6, <1>7, <1>8 DEF Next, Finish
\* The strengthened invariant of the coalescing reconciler, with its queue and
\* its cache.
LEMMA Inductive == Spec => [](IndInv /\ QueueOK /\ CacheOK)
<1>1. Init => IndInv /\ QueueOK /\ CacheOK
  <2> SUFFICES ASSUME Init PROVE QueueOK /\ CacheOK
    BY InitInv
  <2>1. queue = << >> /\ recent = << >> /\ dirty = {} /\ processing = {}
        /\ age = [k \in Keys |-> Nil]
    BY DEF Init
  <2>2. queue \in Seq(Keys) /\ Len(queue) = 0 /\ recent \in Seq(Keys) /\ Len(recent) <= Size
    BY <2>1, SizeAssumption
  <2>3. Distinct(queue) /\ \A k : ~In(k, queue)
    BY <2>2 DEF Distinct, In
  <2> QED BY <2>1, <2>2, <2>3 DEF QueueOK, CacheOK
<1>2. (IndInv /\ QueueOK /\ CacheOK) /\ [Next]_vars => (IndInv /\ QueueOK /\ CacheOK)'
  BY NextInv, QueueStep
<1> QED
  BY <1>1, <1>2, PTL DEF Spec

\* The variables keep their types, and the cache its size.
LEMMA TypeCorrect == Spec => []TypeOK
<1>1. IndInv /\ QueueOK /\ CacheOK => TypeOK
  BY DEF IndInv, Types, QueueOK, CacheOK, TypeOK, Holds, In
<1> QED
  BY <1>1, Inductive, PTL

\* No event is forgotten, whatever the cache evicts and however often requests
\* are put off, merged or retried (reconciler.go:93-121).
THEOREM NothingLost == Spec => []NoEventLost
<1>1. IndInv => NoEventLost
  BY DEF IndInv
<1> QED
  BY <1>1, Inductive, PTL

\* No event is put off beyond the end of the window or a second, or the back-off
\* of failures that nothing has ended (reconciler.go:102-116).
THEOREM NothingDelayed == Spec => []DelayBounded
<1>1. IndInv => DelayBounded
  BY DEF IndInv
<1> QED
  BY <1>1, Inductive, PTL

\* Within the window of a success the upstream reconciler is called only when
\* the cache had to give up the entry of that success.
THEOREM UpstreamIsSpared == Spec => Debounced
<1>1. IndInv /\ QueueOK /\ CacheOK /\ [Next]_vars =>
        [\A k \in Keys :
           /\ k \in processing' \ processing => since[k] > Window \/ age[k] = Nil
           /\ since'[k] <= Window /\ age'[k] = Nil =>
                  (since[k] <= Window /\ age[k] = Nil) \/ Len(recent) = Size]_vars
  BY QueueStep DEF DebouncedStep
<1> QED
  BY <1>1, Inductive, PTL DEF Spec, Debounced
=============================================================================
