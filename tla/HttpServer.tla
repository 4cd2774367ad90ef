----------------------------- MODULE HttpServer -----------------------------
(***************************************************************************)
(* The listener and the thread pool of src/Libs/httplib.h: Server::listen   *)
(* binds a socket, accepts connections and puts them into the job list of    *)
(* the pool; workers take them out and serve each one to its end.            *)
(*                                                                         *)
(* What is said over a connection is left to HttpConnection; here it takes   *)
(* the steps of KeptAlive, which HttpConnection implements.                  *)
(*                                                                         *)
(* A section under the mutex of the pool is one step.  notify_one wakes any  *)
(* worker that waits; a worker may also wake for no reason.  accept that     *)
(* fails with EMFILE is tried again and changes nothing.  Nobody in this     *)
(* program calls Server::stop, and no request or reply is one at which the   *)
(* process ends (EndProcess of HttpConnection).                              *)
(***************************************************************************)
EXTENDS Naturals, Sequences, FiniteSets

CONSTANTS
    Workers,     \* the threads of the pool, CPPHTTPLIB_THREAD_POOL_COUNT of them
    Conns,       \* the connections that clients may open
    Addresses,   \* how many addresses getaddrinfo finds
    Backlog,     \* the second argument of listen
    MaxRequests  \* keep_alive_max_count_

ASSUME WorkersAssumption == IsFiniteSet(Workers) /\ Workers # {}
ASSUME NumbersAssumption ==
    Addresses \in Nat /\ Backlog \in Nat \ {0} /\ MaxRequests \in Nat \ {0}

VARIABLES
    lpc,      \* what the thread of Server::listen does
    tried,    \* how many addresses create_socket has tried
    backlog,  \* connections that the kernel has made and nobody has accepted
    sock,     \* the connection accepted last
    jobs,     \* jobs_ of the ThreadPool
    shutdown, \* shutdown_
    wpc,      \* what each worker does
    on,       \* the connection a worker serves
    conn      \* the connections, with the variables of KeptAlive

vars == <<lpc, tried, backlog, sock, jobs, shutdown, wpc, on, conn>>
pool == <<jobs, shutdown, wpc, on>>

Phases == {"out", "backlog", "refused", "idle", "busy", "ended"}
ConnStates == [phase : Phases, left : 0..MaxRequests, said : BOOLEAN]

K(c) == INSTANCE KeptAlive WITH
    phase <- conn[c].phase, left <- conn[c].left, said <- conn[c].said

TypeOK ==
    /\ lpc \in {"bind", "accept", "enqueue", "shutdown", "notify", "join", "returned"}
    /\ tried \in 0..Addresses
    /\ backlog \in Seq(Conns)
    /\ sock \in (IF lpc = "enqueue" THEN Conns ELSE {"nothing"})
    /\ jobs \in Seq(Conns)
    /\ shutdown \in BOOLEAN
    /\ wpc \in [Workers -> {"test", "waiting", "serving", "exited"}]
    /\ DOMAIN on = Workers
    /\ \A w \in Workers : on[w] \in (IF wpc[w] = "serving" THEN Conns ELSE {"nothing"})
    /\ conn \in [Conns -> ConnStates]

Init ==
    /\ lpc = "bind" /\ tried = 0
    /\ backlog = <<>> /\ sock = "nothing"
    /\ jobs = <<>> /\ shutdown = FALSE
    /\ wpc = [w \in Workers |-> "test"]
    /\ on = [w \in Workers |-> "nothing"]
    /\ conn = [c \in Conns |-> [phase |-> "out", left |-> MaxRequests, said |-> FALSE]]

SetPhase(c, phase) == [conn EXCEPT ![c].phase = phase]

-----------------------------------------------------------------------------
(* The listener.                                                            *)

\* The mistake of trying an address behind the last one.
BindAddress_PastTheEnd ==
    /\ lpc = "bind"
    /\ \/ lpc' = "bind" /\ tried' = tried + 1
       \/ lpc' = "accept" /\ tried' = 0
    /\ UNCHANGED <<backlog, sock, pool, conn>>

\* A turn of create_socket over the addresses; the socket is bound and listens, or
\* the next address is tried.
BindAddress ==
    /\ lpc = "bind" /\ tried < Addresses
    /\ \/ lpc' = "bind" /\ tried' = tried + 1
       \/ lpc' = "accept" /\ tried' = 0
    /\ UNCHANGED <<backlog, sock, pool, conn>>

\* bind_internal fails, and listen returns before a pool is made.
BindFails ==
    /\ lpc = "bind" /\ tried = Addresses
    /\ lpc' = "returned"
    /\ wpc' = [w \in Workers |-> "exited"]
    /\ UNCHANGED <<tried, backlog, sock, jobs, shutdown, on, conn>>

\* A client connects; the kernel keeps it until it is accepted.
Connect(c) ==
    /\ lpc \in {"accept", "enqueue"}
    /\ conn[c].phase = "out" /\ Len(backlog) < Backlog
    /\ backlog' = Append(backlog, c)
    /\ conn' = SetPhase(c, "backlog")
    /\ UNCHANGED <<lpc, tried, sock, pool>>

Accept ==
    /\ lpc = "accept" /\ backlog # <<>>
    /\ sock' = Head(backlog) /\ backlog' = Tail(backlog)
    /\ conn' = SetPhase(Head(backlog), "idle")
    /\ lpc' = "enqueue"
    /\ UNCHANGED <<tried, pool>>

\* The listening socket is closed, and with it what it has not handed out.
AcceptFails ==
    /\ lpc = "accept"
    /\ lpc' = "shutdown"
    /\ backlog' = <<>>
    /\ conn' = [c \in Conns |-> IF conn[c].phase = "backlog"
                                THEN [conn[c] EXCEPT !.phase = "refused"] ELSE conn[c]]
    /\ UNCHANGED <<tried, sock, pool>>

Waiting == {w \in Workers : wpc[w] = "waiting"}

\* The mistake of waking a worker only for the first job.
WakeOne_ForFirstJob ==
    IF Waiting = {} \/ jobs # <<>> THEN UNCHANGED wpc
    ELSE \E w \in Waiting : wpc' = [wpc EXCEPT ![w] = "test"]

\* notify_one.
WakeOne ==
    IF Waiting = {} THEN UNCHANGED wpc
    ELSE \E w \in Waiting : wpc' = [wpc EXCEPT ![w] = "test"]

\* ThreadPool::enqueue.
Enqueue ==
    /\ lpc = "enqueue"
    /\ jobs' = Append(jobs, sock)
    /\ WakeOne
    /\ sock' = "nothing"
    /\ lpc' = "accept"
    /\ UNCHANGED <<tried, backlog, shutdown, on, conn>>

\* ThreadPool::shutdown: the flag under the mutex, the notification after it, the join.
SetShutdown ==
    /\ lpc = "shutdown"
    /\ shutdown' = TRUE
    /\ lpc' = "notify"
    /\ UNCHANGED <<tried, backlog, sock, jobs, wpc, on, conn>>

\* The mistake of notifying nobody.
NotifyAll_Nobody ==
    /\ lpc = "notify"
    /\ lpc' = "join"
    /\ UNCHANGED <<tried, backlog, sock, pool, conn>>

NotifyAll ==
    /\ lpc = "notify"
    /\ wpc' = [w \in Workers |-> IF w \in Waiting THEN "test" ELSE wpc[w]]
    /\ lpc' = "join"
    /\ UNCHANGED <<tried, backlog, sock, jobs, shutdown, on, conn>>

Join ==
    /\ lpc = "join"
    /\ \A w \in Workers : wpc[w] = "exited"
    /\ lpc' = "returned"
    /\ UNCHANGED <<tried, backlog, sock, pool, conn>>

-----------------------------------------------------------------------------
(* ThreadPool::worker.                                                      *)

\* The mistake of leaving the job in the list.
TakeJob_Stays(w) ==
    /\ wpc[w] = "test" /\ jobs # <<>>
    /\ on' = [on EXCEPT ![w] = Head(jobs)]
    /\ wpc' = [wpc EXCEPT ![w] = "serving"]
    /\ UNCHANGED <<lpc, tried, backlog, sock, jobs, shutdown, conn>>

\* The predicate of the wait holds, and there is a job.
TakeJob(w) ==
    /\ wpc[w] = "test" /\ jobs # <<>>
    /\ on' = [on EXCEPT ![w] = Head(jobs)]
    /\ jobs' = Tail(jobs)
    /\ wpc' = [wpc EXCEPT ![w] = "serving"]
    /\ UNCHANGED <<lpc, tried, backlog, sock, shutdown, conn>>

Wait(w) ==
    /\ wpc[w] = "test" /\ jobs = <<>> /\ ~shutdown
    /\ wpc' = [wpc EXCEPT ![w] = "waiting"]
    /\ UNCHANGED <<lpc, tried, backlog, sock, jobs, shutdown, on, conn>>

SpuriousWakeup(w) ==
    /\ wpc[w] = "waiting"
    /\ wpc' = [wpc EXCEPT ![w] = "test"]
    /\ UNCHANGED <<lpc, tried, backlog, sock, jobs, shutdown, on, conn>>

\* The mistake of leaving as soon as the flag is set.
Exit_WithJobsLeft(w) ==
    /\ wpc[w] = "test" /\ shutdown
    /\ wpc' = [wpc EXCEPT ![w] = "exited"]
    /\ UNCHANGED <<lpc, tried, backlog, sock, jobs, shutdown, on, conn>>

Exit(w) ==
    /\ wpc[w] = "test" /\ shutdown /\ jobs = <<>>
    /\ wpc' = [wpc EXCEPT ![w] = "exited"]
    /\ UNCHANGED <<lpc, tried, backlog, sock, jobs, shutdown, on, conn>>

\* The job, process_and_close_socket: a step of the connection ...
Serve(w) ==
    /\ wpc[w] = "serving"
    /\ \E c \in Conns :
          /\ on[w] = c
          /\ \E next \in {s \in ConnStates : s.phase \in {"idle", "busy", "ended"}} :
                conn' = [conn EXCEPT ![c] = next]
          /\ K(c)!Next
    /\ UNCHANGED <<lpc, tried, backlog, sock, pool>>

\* The mistake of a worker that serves one connection only.
Return_LeavesLoop(w) ==
    /\ wpc[w] = "serving" /\ conn[on[w]].phase = "ended"
    /\ wpc' = [wpc EXCEPT ![w] = "exited"]
    /\ on' = [on EXCEPT ![w] = "nothing"]
    /\ UNCHANGED <<lpc, tried, backlog, sock, jobs, shutdown, conn>>

\* ... and the return from it, to the next turn of the worker's loop.
Return(w) ==
    /\ wpc[w] = "serving" /\ conn[on[w]].phase = "ended"
    /\ wpc' = [wpc EXCEPT ![w] = "test"]
    /\ on' = [on EXCEPT ![w] = "nothing"]
    /\ UNCHANGED <<lpc, tried, backlog, sock, jobs, shutdown, conn>>

-----------------------------------------------------------------------------
Listener == BindAddress \/ BindFails \/ Accept \/ Enqueue \/ SetShutdown \/ NotifyAll \/ Join
Worker(w) == TakeJob(w) \/ Wait(w) \/ Exit(w) \/ Serve(w) \/ Return(w)

Next ==
    \/ Listener \/ AcceptFails
    \/ \E c \in Conns : Connect(c)
    \/ \E w \in Workers : Worker(w) \/ SpuriousWakeup(w)

\* The threads run on.  A worker that finds the mutex free again and again gets it; the
\* steps of a connection are fair by KeptAlive.
Spec ==
    /\ Init /\ [][Next]_vars
    /\ WF_vars(Listener)
    /\ \A w \in Workers : SF_vars(Worker(w))

-----------------------------------------------------------------------------
(* Properties.                                                              *)

\* Who has a connection in hand.
InHand(c) ==
    {<<"listener", 0>> : l \in {k \in {lpc} : k = "enqueue" /\ sock = c}}
    \union {<<"job", i>> : i \in {k \in DOMAIN jobs : jobs[k] = c}}
    \union {<<"worker", w>> : w \in {v \in Workers : wpc[v] = "serving" /\ on[v] = c}}

\* A connection that has been accepted is with the listener, once in the job list, or on
\* one worker until it has ended: none is lost between the threads, none is served twice.
InOnePlace ==
    \A c \in Conns :
        /\ \A h, g \in InHand(c) : h = g
        /\ conn[c].phase \in {"idle", "busy"} => InHand(c) # {}

\* While a worker waits, there are at least as many awake ones as jobs: no notification
\* is lost between the test of the predicate and the wait, and none to a busy worker.
Awake == {w \in Workers : wpc[w] = "test"}
EnoughAwake == Waiting # {} => Len(jobs) <= Cardinality(Awake)

\* When listen returns, every connection that it has accepted has been served to its
\* end, those still in the job list at the time of the failure included.
DrainedBeforeReturn ==
    lpc = "returned" =>
        /\ jobs = <<>>
        /\ \A c \in Conns : conn[c].phase \notin {"backlog", "idle", "busy"}

\* Every connection that is accepted is served to its end, however long others are kept
\* alive, since each of these is given up after a number of requests or a time of silence.
AllServed == \A c \in Conns : conn[c].phase = "idle" ~> conn[c].phase = "ended"

\* After accept has failed for good, listen returns.
ListenReturns == lpc = "shutdown" ~> lpc = "returned"
=============================================================================
