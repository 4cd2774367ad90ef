-------------------------- MODULE BlockStreamProofs -------------------------
(***************************************************************************)
(* Theorems about BlockStream, for any finite number of threads and any     *)
(* number of blocks.                                                        *)
(*                                                                         *)
(* Each invariant needs something of its own.  InOrder rests on types only.  *)
(* EndMeansDrained rests on what the clients keep to: once closing has       *)
(* begun nobody pushes, so that an empty queue stays empty although it is    *)
(* read without the mutex.  EnoughAwake counts threads.                      *)
(***************************************************************************)
EXTENDS BlockStream, FiniteSetTheorems, TLAPS

\* Nobody pushes any more; what is read after closed was read of a closed stream.
Quiet ==
    /\ Closing => Pushing = {}
    /\ \A t \in Threads : pc[t] \in {"popEmpty", "boolEmpty"} => closed

DrainedInv == TypeOK /\ Quiet /\ EndMeansDrained

-----------------------------------------------------------------------------
(* Types.                                                                   *)

LEMMA InitTyped == Init => TypeOK
<1> SUFFICES ASSUME Init PROVE TypeOK
  OBVIOUS
<1>1. 0 \in 0..MaxPushes
  BY StreamAssumption
<1>2. /\ pc \in [Threads -> PushPhases \union PopPhases \union OtherPhases \union Answers]
      /\ \A t \in Threads : pc[t] = "idle"
  BY DEF Init, Answers
<1>3. \A t \in Threads : lock = t <=> pc[t] \in Sections
  BY <1>2, StreamAssumption DEF Init, Sections
<1>4. queue \in Seq(Nat) /\ popped \in Seq(Nat)
  BY DEF Init
<1>5. closed \in BOOLEAN /\ lock \in Threads \union {NoThread}
  BY DEF Init
<1>6. pushes \in 0..MaxPushes
  BY <1>1 DEF Init
<1> QED
  BY <1>2, <1>3, <1>4, <1>5, <1>6 DEF TypeOK

LEMMA TakeTyped ==
  ASSUME TypeOK, queue # <<>>, Take
  PROVE  /\ queue' \in Seq(Nat) /\ Len(queue') = Len(queue) - 1
         /\ popped' \in Seq(Nat) /\ Len(popped') = Len(popped) + 1
  BY DEF TypeOK, Take

\* What the actions do to the control of the threads: the mutex goes to the thread that
\* enters a section, and is free when it leaves.
LEMMA NextTyped == TypeOK /\ [Next]_vars => TypeOK'
<1> SUFFICES ASSUME TypeOK, [Next]_vars PROVE TypeOK'
  OBVIOUS
<1> USE StreamAssumption DEF TypeOK, Sections, PushPhases, PopPhases, OtherPhases, Answers
<1>1. CASE UNCHANGED vars
  BY <1>1 DEF vars
<1>2. ASSUME NEW t \in Threads, Call(t) PROVE TypeOK'
  <2>1. CASE PushCall(t)
    BY <2>1 DEF PushCall, Goto, Free
  <2>2. CASE PopCall(t) \/ TryPopCall(t) \/ CloseCall(t) \/ BoolCall(t)
    BY <2>2 DEF PopCall, TryPopCall, CloseCall, BoolCall, Goto, Free
  <2> QED
    BY <1>2, <2>1, <2>2 DEF Call
<1>3. ASSUME NEW t \in Threads, SpuriousWakeup(t) PROVE TypeOK'
  BY <1>3 DEF SpuriousWakeup, Goto
<1>4. ASSUME NEW t \in Threads, Step(t) PROVE TypeOK'
  <2>1. ASSUME NEW from, NEW to \in Sections, Lock(t, from, to), from \notin Sections PROVE TypeOK'
    BY <2>1 DEF Lock, Goto
  <2>2. CASE PushAppend(t)
    BY <2>2 DEF PushAppend, Goto
  <2>3. CASE PushNotify(t)
    <3>1. CASE Waiting = {}
      BY <2>3, <3>1 DEF PushNotify, Goto
    <3>2. ASSUME NEW w \in Waiting, pc' = [pc EXCEPT ![t] = "idle", ![w] = "woken"] PROVE TypeOK'
      BY <2>3, <3>2 DEF PushNotify, Waiting
    <3> QED
      BY <2>3, <3>1, <3>2 DEF PushNotify
  <2>4. CASE PopReadClosed(t) \/ PopReadEmpty(t) \/ BoolReadClosed(t) \/ BoolReadEmpty(t)
    BY <2>4 DEF PopReadClosed, PopReadEmpty, BoolReadClosed, BoolReadEmpty, Goto
  <2>5. CASE PopTest(t)
    BY <2>5, TakeTyped DEF PopTest, Goto
  <2>6. CASE TryPopTest(t)
    BY <2>6, TakeTyped DEF TryPopTest, Goto
  <2>7. CASE CloseWrite(t)
    BY <2>7 DEF CloseWrite, Goto
  <2>8. CASE CloseNotify(t)
    BY <2>8 DEF CloseNotify, Waiting
  <2> QED
    BY <1>4, <2>1, <2>2, <2>3, <2>4, <2>5, <2>6, <2>7, <2>8 DEF Step
<1> QED
  BY <1>1, <1>2, <1>3, <1>4 DEF Next

\* The mutex is held by the one thread that is in a section, and the control stays in
\* its phases, for any number of threads.
THEOREM StreamTypeCorrect == Spec => []TypeOK
  BY InitTyped, NextTyped, PTL DEF Spec

-----------------------------------------------------------------------------
(* Order.                                                                   *)

\* Only three actions touch the two sequences.
LEMMA QueueSteps ==
  ASSUME [Next]_vars
  PROVE  \/ UNCHANGED <<queue, popped>>
         \/ popped' = popped /\ queue' = Append(queue, Len(popped) + Len(queue) + 1)
         \/ queue # <<>> /\ Take
  BY DEF Next, Call, Step, Lock, PushCall, PushAppend, PushNotify, PopCall, PopReadClosed,
         PopReadEmpty, PopTest, SpuriousWakeup, TryPopCall, TryPopTest, CloseCall, CloseWrite,
         CloseNotify, BoolCall, BoolReadClosed, BoolReadEmpty, vars

LEMMA NextInOrder == TypeOK /\ InOrder /\ [Next]_vars => InOrder'
<1> SUFFICES ASSUME TypeOK, InOrder, [Next]_vars PROVE InOrder'
  OBVIOUS
<1> USE DEF TypeOK
<1>1. CASE UNCHANGED <<queue, popped>>
  BY <1>1 DEF InOrder
<1>2. CASE popped' = popped /\ queue' = Append(queue, Len(popped) + Len(queue) + 1)
  BY <1>2, SMTT(30) DEF InOrder
<1>3. CASE queue # <<>> /\ Take
  <2>1. popped' \o queue' = popped \o queue
    BY <1>3, SMTT(30) DEF Take
  <2> QED
    BY <2>1 DEF InOrder
<1> QED
  BY <1>1, <1>2, <1>3, QueueSteps

\* Blocks leave the stream in the order in which they came, for any number of threads
\* that push and pop (threadsafe_queue.h:19-61).
THEOREM FirstInFirstOut == Spec => []InOrder
<1>1. Init => InOrder
  BY DEF Init, InOrder
<1>2. TypeOK /\ InOrder /\ [Next]_vars => (TypeOK /\ InOrder)'
  BY NextTyped, NextInOrder
<1> QED
  BY <1>1, <1>2, InitTyped, PTL DEF Spec

-----------------------------------------------------------------------------
(* The end of the stream.                                                   *)

\* What a thread has to know to hold the answer that the stream is at its end.
LEMMA NextDrained == DrainedInv /\ [Next]_vars => DrainedInv'
<1> SUFFICES ASSUME DrainedInv, [Next]_vars PROVE DrainedInv'
  OBVIOUS
<1>0. TypeOK'
  BY NextTyped DEF DrainedInv
<1> USE DEF DrainedInv, TypeOK, Quiet, EndMeansDrained, Closing, Pushing
<1> USE DEF PushPhases, PopPhases, OtherPhases, Answers, Sections
<1>1. CASE UNCHANGED vars
  BY <1>0, <1>1 DEF vars
\* A step of one thread that neither pushes nor closes nor reads.
<1>P. ASSUME NEW t \in Threads, NEW phase, Goto(t, phase), closed' = closed,
             queue' = queue \/ (queue # <<>> /\ Take),
             phase \in PushPhases => pc[t] \in PushPhases \/ ~Closing,
             phase = "close" => Pushing = {},
             phase \in {"popEmpty", "boolEmpty"} => closed,
             phase \in {"false", "thrown"} => closed /\ queue' = <<>>
      PROVE  DrainedInv'
  BY <1>0, <1>P DEF Goto, Take
<1>2. ASSUME NEW t \in Threads, Call(t) PROVE DrainedInv'
  <2>1. CASE PushCall(t)
    BY <1>P, <2>1 DEF PushCall
  <2>2. CASE PopCall(t)
    BY <1>P, <2>2 DEF PopCall
  <2>3. CASE TryPopCall(t)
    BY <1>P, <2>3 DEF TryPopCall
  <2>4. CASE CloseCall(t)
    BY <1>P, <2>4 DEF CloseCall
  <2>5. CASE BoolCall(t)
    BY <1>P, <2>5 DEF BoolCall
  <2> QED
    BY <1>2, <2>1, <2>2, <2>3, <2>4, <2>5 DEF Call
<1>3. ASSUME NEW t \in Threads, SpuriousWakeup(t) PROVE DrainedInv'
  BY <1>P, <1>3 DEF SpuriousWakeup
<1>4. ASSUME NEW t \in Threads, Step(t) PROVE DrainedInv'
  <2>1. CASE Lock(t, "push", "append")
    BY <1>P, <2>1 DEF Lock
  <2>2. ASSUME NEW from, NEW to \in {"popTest", "tryTest"}, Lock(t, from, to) PROVE DrainedInv'
    BY <1>P, <2>2 DEF Lock
  <2>3. CASE PushAppend(t)
    BY <1>0, <2>3 DEF PushAppend, Goto
  <2>4. CASE PushNotify(t)
    <3>1. CASE Waiting = {}
      BY <2>4, <3>1, <1>P DEF PushNotify
    <3>2. ASSUME NEW w \in Waiting, pc' = [pc EXCEPT ![t] = "idle", ![w] = "woken"]
          PROVE  DrainedInv'
      BY <1>0, <2>4, <3>2 DEF PushNotify, Waiting
    <3> QED
      BY <2>4, <3>1, <3>2 DEF PushNotify
  <2>5. CASE PopReadClosed(t)
    BY <1>P, <2>5 DEF PopReadClosed
  <2>6. CASE PopReadEmpty(t)
    BY <1>P, <2>6 DEF PopReadEmpty
  <2>7. CASE BoolReadClosed(t)
    BY <1>P, <2>7 DEF BoolReadClosed
  <2>8. CASE BoolReadEmpty(t)
    BY <1>P, <2>8 DEF BoolReadEmpty
  <2>9. CASE PopTest(t)
    BY <1>P, <2>9 DEF PopTest
  <2>10. CASE TryPopTest(t)
    BY <1>P, <2>10 DEF TryPopTest
  <2>11. CASE CloseWrite(t)
    BY <1>0, <2>11 DEF CloseWrite, Goto
  <2>12. CASE CloseNotify(t)
    BY <1>0, <2>12 DEF CloseNotify, Waiting
  <2> QED
    BY <1>4, <2>1, <2>2, <2>3, <2>4, <2>5, <2>6, <2>7, <2>8, <2>9, <2>10, <2>11, <2>12 DEF Step
<1> QED
  BY <1>1, <1>2, <1>3, <1>4 DEF Next

\* A consumer that has been told of the end has left nothing behind, although both tests
\* of closed and of the queue are made without the mutex (threadsafe_queue.h:27 and 52-54).
THEOREM EndIsTheEnd == Spec => []EndMeansDrained
<1>1. Init => DrainedInv
  BY InitTyped DEF Init, DrainedInv, Quiet, Closing, Pushing, EndMeansDrained, PushPhases
<1>2. DrainedInv => EndMeansDrained
  BY DEF DrainedInv
<1> QED
  BY <1>1, <1>2, NextDrained, PTL DEF Spec

-----------------------------------------------------------------------------
(* Notifications.                                                           *)

LEMMA AwakeFinite == IsFiniteSet(Awake) /\ Cardinality(Awake) \in Nat
  BY StreamAssumption, FS_Subset, FS_CardinalityType DEF Awake

LEMMA NextAwake == TypeOK /\ EnoughAwake /\ [Next]_vars => EnoughAwake'
<1> SUFFICES ASSUME TypeOK, EnoughAwake, [Next]_vars, Waiting' # {}
             PROVE  Len(queue') <= Cardinality(Awake')
  BY DEF EnoughAwake
<1> USE DEF TypeOK
<1> DEFINE on == {"notify", "woken", "popTest"}
<1>0. IsFiniteSet(Awake) /\ Cardinality(Awake) \in Nat /\ Len(queue) \in Nat
  BY AwakeFinite
<1>F. IsFiniteSet(Awake') /\ Cardinality(Awake') \in Nat
  BY StreamAssumption, FS_Subset, FS_CardinalityType DEF Awake
\* One thread moves; the queue grows with the awake threads and shrinks before them.
<1>S. ASSUME Waiting # {}, Awake' = Awake, Len(queue') <= Len(queue), Len(queue') \in Nat
      PROVE  Len(queue') <= Cardinality(Awake')
  BY <1>0, <1>S DEF EnoughAwake
<1>A. ASSUME NEW t \in Threads, t \notin Awake, Awake' = Awake \union {t}, Waiting # {},
             Len(queue') \in Nat, Len(queue') <= Len(queue) + 1
      PROVE  Len(queue') <= Cardinality(Awake')
  <2>1. Cardinality(Awake') = Cardinality(Awake) + 1
    BY <1>0, <1>A, FS_AddElement
  <2> QED
    BY <1>0, <1>A, <2>1 DEF EnoughAwake
<1>R. ASSUME NEW t \in Awake, Awake' = Awake \ {t}, Waiting # {},
             Len(queue') \in Nat, Len(queue') <= Len(queue) - 1
      PROVE  Len(queue') <= Cardinality(Awake')
  <2>1. Cardinality(Awake') = Cardinality(Awake) - 1
    BY <1>0, <1>R, FS_RemoveElement
  <2> QED
    BY <1>0, <1>R, <2>1 DEF EnoughAwake
<1>1. CASE UNCHANGED <<queue, pc>>
  BY <1>0, <1>1, <1>S DEF Waiting, Awake
\* A thread that was not awake and is not waiting goes elsewhere.
<1>2. ASSUME NEW t \in Threads, NEW phase, pc[t] \notin on \union {"waiting"},
             phase \notin on \union {"waiting"}, Goto(t, phase),
             Len(queue') \in Nat, Len(queue') <= Len(queue)
      PROVE  Len(queue') <= Cardinality(Awake')
  <2>1. Awake' = Awake /\ Waiting # {}
    BY <1>2 DEF Awake, Waiting, Goto
  <2> QED
    BY <1>2, <2>1, <1>S
<1>3. ASSUME NEW t \in Threads, Call(t) PROVE Len(queue') <= Cardinality(Awake')
  BY <1>0, <1>2, <1>3, SMTT(30) DEF Call, PushCall, PopCall, TryPopCall, CloseCall, BoolCall, Free, Answers
<1>4. ASSUME NEW t \in Threads, SpuriousWakeup(t) PROVE Len(queue') <= Cardinality(Awake')
  <2>1. t \notin Awake /\ Awake' = Awake \union {t} /\ Waiting # {}
    BY <1>4 DEF SpuriousWakeup, Awake, Waiting, Goto
  <2>2. Len(queue') \in Nat /\ Len(queue') <= Len(queue) + 1
    BY <1>4, <1>0 DEF SpuriousWakeup
  <2> QED
    BY <1>A, <2>1, <2>2
<1>5. ASSUME NEW t \in Threads, Step(t) PROVE Len(queue') <= Cardinality(Awake')
  <2>1. CASE Lock(t, "push", "append") \/ Lock(t, "tryLock", "tryTest")
    BY <1>0, <1>2, <2>1 DEF Lock
  <2>2. CASE PopReadClosed(t) \/ PopReadEmpty(t) \/ BoolReadClosed(t) \/ BoolReadEmpty(t)
    <3>1. PICK phase \in {"popEmpty", "popLock", "thrown", "boolEmpty", "idle", "false"} :
              Goto(t, phase)
      BY <2>2 DEF PopReadClosed, PopReadEmpty, BoolReadClosed, BoolReadEmpty
    <3>2. pc[t] \in {"pop", "popEmpty", "bool", "boolEmpty"} /\ queue' = queue
      BY <2>2 DEF PopReadClosed, PopReadEmpty, BoolReadClosed, BoolReadEmpty
    <3> QED
      BY <1>0, <1>2, <3>1, <3>2
  <2>3. CASE CloseWrite(t)
    BY <1>0, <1>2, <2>3 DEF CloseWrite
  <2>4. CASE CloseNotify(t)
    BY <2>4 DEF CloseNotify, Waiting
  <2>5. CASE Lock(t, "popLock", "popTest")
    <3>1. t \notin Awake /\ Awake' = Awake \union {t} /\ Waiting # {}
      BY <2>5 DEF Lock, Awake, Waiting, Goto
    <3>2. Len(queue') \in Nat /\ Len(queue') <= Len(queue) + 1
      BY <2>5, <1>0 DEF Lock
    <3> QED
      BY <1>A, <3>1, <3>2
  <2>6. CASE Lock(t, "woken", "popTest")
    <3>1. Awake' = Awake /\ Waiting # {} /\ queue' = queue
      BY <2>6 DEF Lock, Awake, Waiting, Goto
    <3> QED
      BY <1>0, <1>S, <3>1
  <2>7. CASE PushAppend(t)
    <3>1. t \notin Awake /\ Awake' = Awake \union {t} /\ Waiting # {}
      BY <2>7 DEF PushAppend, Awake, Waiting, Goto
    <3>2. Len(queue') \in Nat /\ Len(queue') <= Len(queue) + 1
      BY <2>7, <1>0 DEF PushAppend
    <3> QED
      BY <1>A, <3>1, <3>2
  <2>8. CASE PushNotify(t)
    <3>1. CASE Waiting = {}
      BY <2>8, <3>1 DEF PushNotify, Waiting, Goto
    <3>2. ASSUME NEW w \in Waiting, pc' = [pc EXCEPT ![t] = "idle", ![w] = "woken"]
          PROVE  Len(queue') <= Cardinality(Awake')
      <4>1. /\ t \in Awake /\ w \notin Awake /\ w # t /\ queue' = queue
            /\ Awake' = (Awake \ {t}) \union {w}
        BY <2>8, <3>2 DEF PushNotify, Awake, Waiting
      <4>2. Cardinality(Awake \ {t}) = Cardinality(Awake) - 1 /\ IsFiniteSet(Awake \ {t})
        BY <1>0, <4>1, FS_RemoveElement
      <4>3. Cardinality(Awake') = Cardinality(Awake \ {t}) + 1
        BY <4>1, <4>2, FS_AddElement
      <4> QED
        BY <1>0, <3>2, <4>1, <4>2, <4>3 DEF EnoughAwake
    <3> QED
      BY <2>8, <3>1, <3>2 DEF PushNotify
  <2>9. CASE PopTest(t)
    <3>1. CASE queue = <<>>
      BY <1>F, <2>9, <3>1 DEF PopTest
    <3>2. CASE queue # <<>>
      <4>1. t \in Awake /\ Awake' = Awake \ {t} /\ Waiting # {}
        BY <2>9, <3>2 DEF PopTest, Awake, Waiting, Goto
      <4>2. Len(queue') \in Nat /\ Len(queue') <= Len(queue) - 1
        BY <1>0, <2>9, <3>2, TakeTyped DEF PopTest
      <4> QED
        BY <1>R, <4>1, <4>2
    <3> QED
      BY <3>1, <3>2
  <2>10. CASE TryPopTest(t)
    <3>1. Len(queue') \in Nat /\ Len(queue') <= Len(queue)
      BY <1>0, <2>10, TakeTyped DEF TryPopTest
    <3> QED
      BY <1>2, <2>10, <3>1 DEF TryPopTest
  <2> QED
    BY <1>5, <2>1, <2>2, <2>3, <2>4, <2>5, <2>6, <2>7, <2>8, <2>9, <2>10 DEF Step
<1> QED
  BY <1>1, <1>3, <1>4, <1>5 DEF Next, vars

\* No notification is lost, for any number of threads, of which any may take a block that
\* another one was notified of (threadsafe_queue.h:20-24 and 31-35).
THEOREM NoneSleepsThrough == Spec => []EnoughAwake
<1>1. Init => EnoughAwake
  BY DEF Init, EnoughAwake, Waiting
<1>2. TypeOK /\ EnoughAwake /\ [Next]_vars => (TypeOK /\ EnoughAwake)'
  BY NextTyped, NextAwake
<1> QED
  BY <1>1, <1>2, InitTyped, PTL DEF Spec
=============================================================================
