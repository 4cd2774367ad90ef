----------------------------- MODULE BlockStream ----------------------------
(***************************************************************************)
(* threadsafe_queue (src/DataStreams/threadsafe_queue.h), the stream of     *)
(* blocks between the steps of a query, as the class is written: for        *)
(* threads that share one stream.  The steps are the acquisitions of the    *)
(* mutex, the sections under it, the waiting on the condition variable, and *)
(* the reads and writes of closed and of the queue's size that the class    *)
(* makes without the mutex.                                                 *)
(*                                                                         *)
(* The clients keep to what every step of a query does with its output: no  *)
(* push is begun or still running once the stream is being closed.          *)
(***************************************************************************)
EXTENDS Integers, Sequences, FiniteSets

CONSTANTS
    Threads,   \* threads that use the stream
    NoThread,  \* the holder of a mutex that is free
    MaxPushes  \* bound on the number of blocks pushed

ASSUME StreamAssumption ==
    /\ IsFiniteSet(Threads)
    /\ NoThread \notin Threads
    /\ MaxPushes \in Nat

VARIABLES
    queue,   \* m_msg_queue
    closed,  \* closed
    lock,    \* the thread that holds m_lock, or NoThread
    pc,      \* per thread: what it does next
    pushes,  \* how many blocks have been pushed or are being pushed
    popped   \* history: the blocks taken, in order

vars == <<queue, closed, lock, pc, pushes, popped>>

PushPhases  == {"push", "append", "notify"}
PopPhases   == {"pop", "popEmpty", "popLock", "popTest", "waiting", "woken"}
OtherPhases == {"tryLock", "tryTest", "close", "notifyAll", "bool", "boolEmpty"}

\* The sections under the mutex.
Sections == {"append", "notify", "popTest", "tryTest"}

\* The answers a thread can hold: operator bool, the failure of pop.
Answers == {"idle", "false", "thrown"}

TypeOK ==
    /\ queue \in Seq(Nat)
    /\ closed \in BOOLEAN
    /\ lock \in Threads \union {NoThread}
    /\ pc \in [Threads -> PushPhases \union PopPhases \union OtherPhases \union Answers]
    /\ pushes \in 0..MaxPushes
    /\ popped \in Seq(Nat)
    /\ \A t \in Threads : lock = t <=> pc[t] \in Sections

Init ==
    /\ queue = <<>>
    /\ closed = FALSE
    /\ lock = NoThread
    /\ pc = [t \in Threads |-> "idle"]
    /\ pushes = 0
    /\ popped = <<>>

Goto(t, phase) == pc' = [pc EXCEPT ![t] = phase]

Free(t) == pc[t] \in Answers

Closing == closed \/ \E t \in Threads : pc[t] = "close"

Pushing == {t \in Threads : pc[t] \in PushPhases}

\* A thread takes the mutex and goes on to the section under it.
Lock(t, from, to) ==
    /\ pc[t] = from
    /\ lock = NoThread
    /\ lock' = t
    /\ Goto(t, to)
    /\ UNCHANGED <<queue, closed, pushes, popped>>

-----------------------------------------------------------------------------
PushCall(t) ==
    /\ Free(t)
    /\ ~Closing
    /\ pushes < MaxPushes
    /\ pushes' = pushes + 1
    /\ Goto(t, "push")
    /\ UNCHANGED <<queue, closed, lock, popped>>

PushAppend(t) ==
    /\ pc[t] = "append"
    /\ queue' = Append(queue, Len(popped) + Len(queue) + 1)
    /\ Goto(t, "notify")
    /\ UNCHANGED <<closed, lock, pushes, popped>>

Waiting == {t \in Threads : pc[t] = "waiting"}

\* A push that notifies only when the queue has become non-empty.
PushNotify_FirstOnly(t) ==
    /\ pc[t] = "notify"
    /\ lock' = NoThread
    /\ IF Waiting = {} \/ Len(queue) # 1
       THEN Goto(t, "idle")
       ELSE \E w \in Waiting : pc' = [pc EXCEPT ![t] = "idle", ![w] = "woken"]
    /\ UNCHANGED <<queue, closed, pushes, popped>>

\* A push without a notification.
PushNotify_Nobody(t) ==
    /\ pc[t] = "notify"
    /\ lock' = NoThread
    /\ Goto(t, "idle")
    /\ UNCHANGED <<queue, closed, pushes, popped>>

\* notify_one, and the end of the section.
PushNotify(t) ==
    /\ pc[t] = "notify"
    /\ lock' = NoThread
    /\ IF Waiting = {}
       THEN Goto(t, "idle")
       ELSE \E w \in Waiting : pc' = [pc EXCEPT ![t] = "idle", ![w] = "woken"]
    /\ UNCHANGED <<queue, closed, pushes, popped>>

-----------------------------------------------------------------------------
\* A pop is called with any answer but "stream is closed and empty" in hand.
PopCall(t) ==
    /\ Free(t)
    /\ Goto(t, "pop")
    /\ UNCHANGED <<queue, closed, lock, pushes, popped>>

\* closed && m_msg_queue.empty(), read without the mutex.
PopReadClosed(t) ==
    /\ pc[t] = "pop"
    /\ Goto(t, IF closed THEN "popEmpty" ELSE "popLock")
    /\ UNCHANGED <<queue, closed, lock, pushes, popped>>

PopReadEmpty(t) ==
    /\ pc[t] = "popEmpty"
    /\ Goto(t, IF queue = <<>> THEN "thrown" ELSE "popLock")
    /\ UNCHANGED <<queue, closed, lock, pushes, popped>>

Take ==
    /\ popped' = Append(popped, Head(queue))
    /\ queue' = Tail(queue)

\* A pop that takes the newest block.
PopTest_Newest(t) ==
    /\ pc[t] = "popTest"
    /\ lock' = NoThread
    /\ IF queue = <<>>
       THEN Goto(t, "waiting") /\ UNCHANGED <<queue, popped>>
       ELSE /\ Goto(t, "idle")
            /\ popped' = Append(popped, queue[Len(queue)])
            /\ queue' = SubSeq(queue, 1, Len(queue) - 1)
    /\ UNCHANGED <<closed, pushes>>

\* The predicate of the wait, under the mutex: the thread takes the first block,
\* or releases the mutex and waits.  That the stream is closed does not matter.
PopTest(t) ==
    /\ pc[t] = "popTest"
    /\ lock' = NoThread
    /\ IF queue = <<>>
       THEN Goto(t, "waiting") /\ UNCHANGED <<queue, popped>>
       ELSE Goto(t, "idle") /\ Take
    /\ UNCHANGED <<closed, pushes>>

\* A condition variable may wake a thread that nobody has notified.
SpuriousWakeup(t) ==
    /\ pc[t] = "waiting"
    /\ Goto(t, "woken")
    /\ UNCHANGED <<queue, closed, lock, pushes, popped>>

\* pop(T &res), which never waits.
TryPopCall(t) ==
    /\ Free(t)
    /\ Goto(t, "tryLock")
    /\ UNCHANGED <<queue, closed, lock, pushes, popped>>

TryPopTest(t) ==
    /\ pc[t] = "tryTest"
    /\ lock' = NoThread
    /\ Goto(t, "idle")
    /\ IF queue = <<>> THEN UNCHANGED <<queue, popped>> ELSE Take
    /\ UNCHANGED <<closed, pushes>>

-----------------------------------------------------------------------------
CloseCall(t) ==
    /\ Free(t)
    /\ Pushing = {}
    /\ ~Closing
    /\ Goto(t, "close")
    /\ UNCHANGED <<queue, closed, lock, pushes, popped>>

\* Neither closed nor the notification is under the mutex.
CloseWrite(t) ==
    /\ pc[t] = "close"
    /\ closed' = TRUE
    /\ Goto(t, "notifyAll")
    /\ UNCHANGED <<queue, lock, pushes, popped>>

CloseNotify(t) ==
    /\ pc[t] = "notifyAll"
    /\ pc' = [u \in Threads |-> IF u = t THEN "idle"
                                ELSE IF u \in Waiting THEN "woken" ELSE pc[u]]
    /\ UNCHANGED <<queue, closed, lock, pushes, popped>>

\* operator bool: !isClosed() || !empty(), in this order, without the mutex.
BoolCall(t) ==
    /\ Free(t)
    /\ Goto(t, "bool")
    /\ UNCHANGED <<queue, closed, lock, pushes, popped>>

\* !isClosed() && !empty().
BoolReadClosed_And(t) ==
    /\ pc[t] = "bool"
    /\ Goto(t, IF closed THEN "false" ELSE "boolEmpty")
    /\ UNCHANGED <<queue, closed, lock, pushes, popped>>

BoolReadClosed(t) ==
    /\ pc[t] = "bool"
    /\ Goto(t, IF closed THEN "boolEmpty" ELSE "idle")
    /\ UNCHANGED <<queue, closed, lock, pushes, popped>>

BoolReadEmpty(t) ==
    /\ pc[t] = "boolEmpty"
    /\ Goto(t, IF queue = <<>> THEN "false" ELSE "idle")
    /\ UNCHANGED <<queue, closed, lock, pushes, popped>>

-----------------------------------------------------------------------------
\* The steps of a call that has begun.
Step(t) ==
    \/ Lock(t, "push", "append")
    \/ PushAppend(t)
    \/ PushNotify(t)
    \/ PopReadClosed(t)
    \/ PopReadEmpty(t)
    \/ Lock(t, "popLock", "popTest")
    \/ Lock(t, "woken", "popTest")
    \/ PopTest(t)
    \/ Lock(t, "tryLock", "tryTest")
    \/ TryPopTest(t)
    \/ CloseWrite(t)
    \/ CloseNotify(t)
    \/ BoolReadClosed(t)
    \/ BoolReadEmpty(t)

Call(t) ==
    \/ PushCall(t)
    \/ PopCall(t)
    \/ TryPopCall(t)
    \/ CloseCall(t)
    \/ BoolCall(t)

Next == \E t \in Threads : Call(t) \/ Step(t) \/ SpuriousWakeup(t)

(* The operating system runs every thread that is in a call, and gives the *)
(* mutex to a thread that finds it free again and again: a step that is    *)
(* possible infinitely often is taken.  No thread has to call anything,    *)
(* and spurious wake-ups need not happen.                                  *)
Fairness == \A t \in Threads : SF_vars(Step(t))

Spec == Init /\ [][Next]_vars
FairSpec == Spec /\ Fairness

-----------------------------------------------------------------------------
(* Blocks leave the stream in the order in which they were pushed, none is *)
(* lost and none comes twice, whichever of the two pops takes them.        *)
InOrder ==
    LET all == popped \o queue
    IN  \A i \in DOMAIN all : all[i] = i

(* No notification is lost: while a thread waits in pop, there are at least *)
(* as many threads on their way to the queue, or about to notify one, as   *)
(* there are blocks, however the pops that never wait and the spurious     *)
(* wake-ups interfere.                                                     *)
Awake == {t \in Threads : pc[t] \in {"notify", "woken", "popTest"}}

EnoughAwake == Waiting # {} => Len(queue) <= Cardinality(Awake)

(* "pull blocks from stream until it closed and empty"                     *)
(* (src/Server/Server.cpp:55): a consumer that stops because the stream    *)
(* converts to false, or because pop has failed, has left nothing behind,  *)
(* although both look at closed and at the queue without the mutex.        *)
EndMeansDrained ==
    \A t \in Threads : pc[t] \in {"false", "thrown"} => closed /\ queue = <<>>

(* A thread does not wait in pop for ever while there are blocks.          *)
WaitersServed ==
    \A t \in Threads :
        pc[t] = "waiting" /\ queue # <<>> ~> pc[t] # "waiting" \/ queue = <<>>

(* pop fails when "stream is closed and empty"                             *)
(* (src/DataStreams/threadsafe_queue.h:28): once the stream is closed,     *)
(* every pop comes to an end, with a block or with that failure.           *)
PopEndsAfterClose ==
    \A t \in Threads : closed /\ pc[t] \in PopPhases ~> pc[t] \notin PopPhases
=============================================================================
