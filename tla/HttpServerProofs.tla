-------------------------- MODULE HttpServerProofs --------------------------
(***************************************************************************)
(* Theorems about HttpServer, for any number of workers and connections.    *)
(*                                                                         *)
(* InOnePlace speaks of connections that have been accepted.  That one is    *)
(* not accepted a second time rests on where it was before: in the backlog,  *)
(* once, and nowhere else.  That the list is empty when listen returns rests  *)
(* on what a worker has seen when it leaves.                                 *)
(***************************************************************************)
EXTENDS HttpServer, FiniteSetTheorems, TLAPS

-----------------------------------------------------------------------------
(* The invariant.                                                           *)

\* The connection that worker w serves is c.
Serves(w, c) == wpc[w] = "serving" /\ on[w] = c

\* The listener has connection c in hand.
Accepted(c) == lpc = "enqueue" /\ sock = c

\* No connection stands twice in a list.
Once(list) == \A i, j \in DOMAIN list : list[i] = list[j] => i = j

\* A connection that waits to be accepted is in no other place.
BacklogApart ==
    /\ Once(backlog)
    /\ \A i \in DOMAIN backlog : conn[backlog[i]].phase = "backlog"

\* One that has been accepted is in one place, and is known to have been accepted.
JobsApart ==
    /\ Once(jobs)
    /\ \A i \in DOMAIN jobs :
          /\ conn[jobs[i]].phase = "idle"
          /\ ~Accepted(jobs[i])
          /\ \A w \in Workers : ~Serves(w, jobs[i])

WorkersApart ==
    /\ \A v, w \in Workers : wpc[v] = "serving" /\ Serves(w, on[v]) => v = w
    /\ \A w \in Workers : wpc[w] = "serving" =>
          conn[on[w]].phase \in {"idle", "busy", "ended"} /\ ~Accepted(on[w])

AcceptedIsIdle == lpc = "enqueue" => conn[sock].phase = "idle"

\* None of those that are not served to their end is lost.
NoneLost ==
    \A c \in Conns : conn[c].phase \in {"idle", "busy"} =>
        \/ Accepted(c)
        \/ \E i \in DOMAIN jobs : jobs[i] = c
        \/ \E w \in Workers : Serves(w, c)

\* A worker leaves when the flag is set and the list is empty, and the list stays empty
\* since the listener has stopped by then.
Listening == lpc \in {"bind", "accept", "enqueue"}
NoneLeftBehind ==
    /\ Listening => ~shutdown
    /\ \A w \in Workers : wpc[w] = "exited" => ~Listening /\ jobs = <<>>
    /\ ~Listening => \A c \in Conns : conn[c].phase # "backlog"
    /\ lpc = "returned" => \A w \in Workers : wpc[w] = "exited"

\* Before the socket listens there is nothing to serve.
Typed ==
    /\ TypeOK
    /\ lpc = "bind" =>
          /\ jobs = <<>>
          /\ \A c \in Conns : conn[c].phase = "out"
          /\ \A w \in Workers : wpc[w] # "serving"

PlacesInv ==
    /\ Typed
    /\ BacklogApart /\ JobsApart /\ WorkersApart /\ AcceptedIsIdle
    /\ NoneLost /\ NoneLeftBehind

-----------------------------------------------------------------------------
(* Lists.                                                                   *)

LEMMA TailFacts ==
  ASSUME NEW S, NEW list \in Seq(S), list # <<>>
  PROVE  /\ Head(list) = list[1] /\ list[1] \in S /\ 1 \in DOMAIN list
         /\ Tail(list) \in Seq(S) /\ Len(Tail(list)) = Len(list) - 1
         /\ \A i \in DOMAIN Tail(list) : i + 1 \in DOMAIN list /\ Tail(list)[i] = list[i + 1]
  OBVIOUS

LEMMA AppendFacts ==
  ASSUME NEW S, NEW list \in Seq(S), NEW x \in S
  PROVE  /\ Append(list, x) \in Seq(S) /\ Len(Append(list, x)) = Len(list) + 1
         /\ Len(list) + 1 \in DOMAIN Append(list, x) /\ Append(list, x)[Len(list) + 1] = x
         /\ \A i \in DOMAIN list : i \in DOMAIN Append(list, x) /\ Append(list, x)[i] = list[i]
         /\ \A i \in DOMAIN Append(list, x) : i \in DOMAIN list \/ i = Len(list) + 1
  OBVIOUS

\* The first of a list without repetitions does not stand in the rest.
LEMMA OnceTail ==
  ASSUME NEW S, NEW list \in Seq(S), list # <<>>, Once(list)
  PROVE  /\ Once(Tail(list))
         /\ \A i \in DOMAIN Tail(list) : Tail(list)[i] # Head(list)
<1>1. \A i \in DOMAIN Tail(list) : i \in Nat /\ i >= 1
  BY TailFacts
<1> QED
  BY <1>1, TailFacts, Z3 DEF Once

LEMMA OnceAppend ==
  ASSUME NEW S, NEW list \in Seq(S), NEW x \in S,
         Once(list), \A i \in DOMAIN list : list[i] # x
  PROVE  Once(Append(list, x))
  BY AppendFacts DEF Once

-----------------------------------------------------------------------------
(* Types.                                                                   *)

LEMMA InitTyped == Init => Typed
<1> SUFFICES ASSUME Init PROVE Typed
  OBVIOUS
<1>1. tried \in 0..Addresses
  BY NumbersAssumption DEF Init
<1>2. [phase |-> "out", left |-> MaxRequests, said |-> FALSE] \in ConnStates
  BY NumbersAssumption DEF ConnStates, Phases
<1>3. conn \in [Conns -> ConnStates]
  BY <1>2 DEF Init
<1>4. backlog \in Seq(Conns) /\ jobs \in Seq(Conns)
  BY DEF Init
<1> QED
  BY <1>1, <1>3, <1>4 DEF Init, TypeOK, Typed

\* Waking a worker that waits makes it test the predicate again.
LEMMA WakeOneFacts ==
  ASSUME TypeOK, WakeOne
  PROVE  /\ wpc' \in [Workers -> {"test", "waiting", "serving", "exited"}]
         /\ \A w \in Workers : wpc'[w] = wpc[w] \/ (wpc[w] = "waiting" /\ wpc'[w] = "test")
  BY DEF TypeOK, WakeOne, Waiting

LEMMA NextTyped == Typed /\ [Next]_vars => Typed'
<1> SUFFICES ASSUME Typed, [Next]_vars PROVE Typed'
  OBVIOUS
<1> USE NumbersAssumption DEF TypeOK, Typed
<1>1. CASE BindAddress
  <2>1. tried' \in 0..Addresses
    BY <1>1 DEF BindAddress
  <2>2. lpc' \in {"bind", "accept"} /\ lpc = "bind"
    BY <1>1 DEF BindAddress
  <2> QED
    BY <1>1, <2>1, <2>2 DEF BindAddress, pool
<1>2. CASE BindFails
  BY <1>2 DEF BindFails
<1>3. CASE Accept
  <2>1. Head(backlog) \in Conns /\ Tail(backlog) \in Seq(Conns)
    BY <1>3, TailFacts DEF Accept
  <2>2. conn' \in [Conns -> ConnStates]
    BY <1>3, <2>1 DEF Accept, SetPhase, ConnStates, Phases
  <2> QED
    BY <1>3, <2>1, <2>2 DEF Accept, pool
<1>4. CASE Enqueue
  <2>1. Append(jobs, sock) \in Seq(Conns)
    BY <1>4, AppendFacts DEF Enqueue
  <2>2. WakeOne
    BY <1>4 DEF Enqueue
  <2> QED
    BY <1>4, <2>1, <2>2, WakeOneFacts DEF Enqueue
<1>5. CASE SetShutdown
  BY <1>5 DEF SetShutdown
<1>6. CASE NotifyAll
  BY <1>6 DEF NotifyAll, Waiting
<1>7. CASE Join
  BY <1>7 DEF Join, pool
<1>8. CASE AcceptFails
  <2>1. conn' \in [Conns -> ConnStates]
    BY <1>8, ZenonT(40) DEF AcceptFails, ConnStates, Phases
  <2> QED
    BY <1>8, <2>1 DEF AcceptFails, pool
<1>9. ASSUME NEW c \in Conns, Connect(c) PROVE Typed'
  <2>1. Append(backlog, c) \in Seq(Conns)
    BY AppendFacts
  <2>2. conn' \in [Conns -> ConnStates]
    BY <1>9 DEF Connect, SetPhase, ConnStates, Phases
  <2> QED
    BY <1>9, <2>1, <2>2 DEF Connect, pool
<1>10. ASSUME NEW w \in Workers, TakeJob(w) PROVE Typed'
  <2>1. Head(jobs) \in Conns /\ Tail(jobs) \in Seq(Conns)
    BY <1>10, TailFacts DEF TakeJob
  <2> QED
    BY <1>10, <2>1 DEF TakeJob
<1>11. ASSUME NEW w \in Workers, Wait(w) PROVE Typed'
  BY <1>11 DEF Wait
<1>12. ASSUME NEW w \in Workers, SpuriousWakeup(w) PROVE Typed'
  BY <1>12 DEF SpuriousWakeup
<1>13. ASSUME NEW w \in Workers, Exit(w) PROVE Typed'
  BY <1>13 DEF Exit
<1>14. ASSUME NEW w \in Workers, Serve(w) PROVE Typed'
  <2>1. conn' \in [Conns -> ConnStates]
    BY <1>14 DEF Serve
  <2> QED
    BY <1>14, <2>1 DEF Serve, pool
<1>15. ASSUME NEW w \in Workers, Return(w) PROVE Typed'
  BY <1>15 DEF Return
<1>16. CASE UNCHANGED vars
  BY <1>16 DEF vars
<1> QED
  BY <1>1, <1>2, <1>3, <1>4, <1>5, <1>6, <1>7, <1>8, <1>9, <1>10, <1>11, <1>12, <1>13, <1>14,
     <1>15, <1>16 DEF Next, Listener, Worker

\* The listener and the workers stay in their states, whatever connections come.
THEOREM ServerTypeCorrect == Spec => []TypeOK
<1>1. Typed => TypeOK
  BY DEF Typed
<1> QED
  BY <1>1, InitTyped, NextTyped, PTL DEF Spec

-----------------------------------------------------------------------------
(* Places.                                                                  *)

Apart == BacklogApart /\ JobsApart /\ WorkersApart /\ AcceptedIsIdle /\ NoneLost

LEMMA InitPlaces == Init => PlacesInv
<1> SUFFICES ASSUME Init PROVE PlacesInv
  OBVIOUS
<1>1. \A c \in Conns : conn[c].phase = "out"
  BY DEF Init
<1>2. BacklogApart /\ JobsApart /\ WorkersApart /\ AcceptedIsIdle
  BY DEF Init, BacklogApart, JobsApart, WorkersApart, AcceptedIsIdle, Once
<1>3. NoneLost /\ NoneLeftBehind
  BY <1>1 DEF Init, NoneLost, NoneLeftBehind, Listening
<1> QED
  BY <1>2, <1>3, InitTyped DEF PlacesInv

\* A step that moves no connection.
LEMMA Unmoved ==
  ASSUME PlacesInv, UNCHANGED <<jobs, backlog, conn, sock, on>>,
         (lpc' = "enqueue") <=> (lpc = "enqueue"),
         \A w \in Workers : (wpc'[w] = "serving") <=> (wpc[w] = "serving")
  PROVE  Apart'
  BY DEF PlacesInv, Apart, BacklogApart, JobsApart, WorkersApart, AcceptedIsIdle, NoneLost,
         Once, Accepted, Serves

LEMMA AcceptPlaces ==
  ASSUME PlacesInv, Typed', Accept
  PROVE  PlacesInv'
<1> DEFINE c == Head(backlog)
<1> USE DEF PlacesInv, Typed, TypeOK
<1>1. /\ c = backlog[1] /\ c \in Conns /\ conn[c].phase = "backlog"
      /\ \A i \in DOMAIN backlog' : i + 1 \in DOMAIN backlog /\ backlog'[i] = backlog[i + 1]
      /\ \A i \in DOMAIN backlog' : backlog'[i] # c /\ backlog'[i] \in Conns
      /\ Once(backlog')
  BY TailFacts, OnceTail DEF Accept, BacklogApart
<1>2. /\ conn'[c].phase = "idle" /\ \A d \in Conns : d # c => conn'[d] = conn[d]
      /\ lpc = "accept" /\ lpc' = "enqueue" /\ sock' = c
      /\ UNCHANGED <<jobs, wpc, on, shutdown>>
  BY <1>1 DEF Accept, SetPhase, pool, ConnStates
<1> HIDE DEF c
<1>3. BacklogApart'
  BY <1>1, <1>2 DEF BacklogApart
<1>4. JobsApart'
  BY <1>1, <1>2 DEF JobsApart, Accepted, Serves, Once
<1>5. WorkersApart'
  BY <1>1, <1>2 DEF WorkersApart, Accepted, Serves
<1>6. AcceptedIsIdle'
  BY <1>2 DEF AcceptedIsIdle
<1>7. NoneLost'
  BY <1>1, <1>2 DEF NoneLost, Accepted, Serves
<1>8. NoneLeftBehind'
  BY <1>2 DEF NoneLeftBehind, Listening
<1> QED
  BY <1>3, <1>4, <1>5, <1>6, <1>7, <1>8

LEMMA AcceptFailsPlaces ==
  ASSUME PlacesInv, Typed', AcceptFails
  PROVE  PlacesInv'
<1> USE DEF PlacesInv, Typed, TypeOK
<1>1. /\ \A c \in Conns : conn[c].phase # "backlog" => conn'[c] = conn[c]
      /\ \A c \in Conns : conn[c].phase = "backlog" => conn'[c].phase = "refused"
      /\ lpc = "accept" /\ lpc' = "shutdown" /\ backlog' = <<>>
      /\ UNCHANGED <<sock, jobs, wpc, on, shutdown>>
  BY DEF AcceptFails, pool, ConnStates
<1>2. BacklogApart'
  BY <1>1 DEF BacklogApart, Once
<1>3. JobsApart'
  BY <1>1 DEF JobsApart, Accepted, Serves, Once
<1>4. WorkersApart'
  BY <1>1 DEF WorkersApart, Accepted, Serves
<1>5. AcceptedIsIdle' /\ NoneLost'
  BY <1>1 DEF AcceptedIsIdle, NoneLost, Accepted, Serves
<1>6. NoneLeftBehind'
  BY <1>1 DEF NoneLeftBehind, Listening
<1> QED
  BY <1>2, <1>3, <1>4, <1>5, <1>6

LEMMA ConnectPlaces ==
  ASSUME PlacesInv, Typed', NEW c \in Conns, Connect(c)
  PROVE  PlacesInv'
<1> USE DEF PlacesInv, Typed, TypeOK
<1>1. /\ conn[c].phase = "out" /\ conn'[c].phase = "backlog"
      /\ \A d \in Conns : d # c => conn'[d] = conn[d]
      /\ Listening /\ lpc # "bind" /\ backlog' = Append(backlog, c)
      /\ UNCHANGED <<lpc, sock, jobs, wpc, on, shutdown>>
  BY DEF Connect, SetPhase, pool, ConnStates, Listening
<1>2. \A i \in DOMAIN backlog : backlog[i] # c /\ backlog[i] \in Conns
  BY <1>1 DEF BacklogApart
<1>3. BacklogApart'
  BY <1>1, <1>2, AppendFacts, OnceAppend DEF BacklogApart
<1>4. JobsApart'
  <2>1. \A i \in DOMAIN jobs : jobs[i] # c /\ jobs[i] \in Conns
    BY <1>1 DEF JobsApart
  <2> QED
    BY <1>1, <2>1 DEF JobsApart, Accepted, Serves, Once
<1>5. WorkersApart'
  BY <1>1 DEF WorkersApart, Accepted, Serves
<1>6. AcceptedIsIdle'
  BY <1>1 DEF AcceptedIsIdle
<1>7. NoneLost'
  BY <1>1 DEF NoneLost, Accepted, Serves
<1>8. NoneLeftBehind'
  BY <1>1 DEF NoneLeftBehind, Listening
<1> QED
  BY <1>3, <1>4, <1>5, <1>6, <1>7, <1>8

LEMMA EnqueuePlaces ==
  ASSUME PlacesInv, Typed', Enqueue
  PROVE  PlacesInv'
<1> USE DEF PlacesInv, Typed, TypeOK
<1>1. /\ lpc = "enqueue" /\ lpc' = "accept" /\ sock \in Conns /\ jobs' = Append(jobs, sock)
      /\ UNCHANGED <<conn, backlog, on, shutdown>>
  BY DEF Enqueue
<1>2. \A w \in Workers : wpc'[w] = wpc[w] \/ (wpc[w] = "waiting" /\ wpc'[w] = "test")
  BY WakeOneFacts DEF Enqueue
<1>3. /\ Len(jobs) + 1 \in DOMAIN jobs' /\ jobs'[Len(jobs) + 1] = sock
      /\ \A i \in DOMAIN jobs : i \in DOMAIN jobs' /\ jobs'[i] = jobs[i]
      /\ \A i \in DOMAIN jobs' : i \in DOMAIN jobs \/ i = Len(jobs) + 1
  BY <1>1, AppendFacts
<1>4. BacklogApart'
  BY <1>1 DEF BacklogApart, Once
<1>5. JobsApart'
  <2>1. Once(jobs')
    BY <1>1, OnceAppend DEF JobsApart, Accepted
  <2>2. \A w \in Workers : ~Serves(w, sock)
    BY <1>1 DEF WorkersApart, Accepted, Serves
  <2> QED
    BY <1>1, <1>2, <1>3, <2>1, <2>2 DEF JobsApart, AcceptedIsIdle, Accepted, Serves
<1>6. WorkersApart'
  BY <1>1, <1>2 DEF WorkersApart, Accepted, Serves
<1>7. AcceptedIsIdle'
  BY <1>1 DEF AcceptedIsIdle
<1>8. NoneLost'
  BY <1>1, <1>2, <1>3 DEF NoneLost, Accepted, Serves
<1>9. NoneLeftBehind'
  BY <1>1, <1>2 DEF NoneLeftBehind, Listening
<1> QED
  BY <1>4, <1>5, <1>6, <1>7, <1>8, <1>9

LEMMA TakeJobPlaces ==
  ASSUME PlacesInv, Typed', NEW w \in Workers, TakeJob(w)
  PROVE  PlacesInv'
<1> DEFINE c == Head(jobs)
<1> USE DEF PlacesInv, Typed, TypeOK
<1>1. /\ c = jobs[1] /\ c \in Conns /\ 1 \in DOMAIN jobs
      /\ \A i \in DOMAIN jobs' : i + 1 \in DOMAIN jobs /\ jobs'[i] = jobs[i + 1]
      /\ \A i \in DOMAIN jobs' : jobs'[i] # c
      /\ Once(jobs')
  BY TailFacts, OnceTail DEF TakeJob, JobsApart
<1>2. \A i \in DOMAIN jobs : i = 1 \/ (i - 1 \in DOMAIN jobs' /\ jobs'[i - 1] = jobs[i])
  BY TailFacts DEF TakeJob
<1>3. /\ wpc[w] = "test" /\ wpc'[w] = "serving" /\ on'[w] = c /\ jobs # <<>>
      /\ \A v \in Workers : v # w => wpc'[v] = wpc[v] /\ on'[v] = on[v]
      /\ UNCHANGED <<lpc, backlog, sock, conn, shutdown>>
  BY DEF TakeJob
<1>S. \A v \in Workers : \A d \in Conns :
         (wpc'[v] = "serving" /\ on'[v] = d) <=> IF v = w THEN d = c ELSE Serves(v, d)
  BY <1>3 DEF Serves
<1>C. \A v \in Workers : ~Serves(v, c)
  BY <1>1 DEF JobsApart
<1> HIDE DEF c
<1>4. BacklogApart'
  BY <1>3 DEF BacklogApart, Once
<1>5. JobsApart'
  <2> SUFFICES ASSUME NEW i \in DOMAIN jobs'
               PROVE  /\ conn[jobs'[i]].phase = "idle" /\ ~Accepted(jobs[i])'
                      /\ \A v \in Workers : ~(wpc'[v] = "serving" /\ on'[v] = jobs'[i])
    BY <1>1, <1>3 DEF JobsApart, Serves
  <2>1. PICK j \in DOMAIN jobs : jobs'[i] = jobs[j] /\ jobs[j] # c
    BY <1>1
  <2>2. jobs'[i] \in Conns
    BY <2>1
  <2>3. \A v \in Workers : ~Serves(v, jobs[j])
    BY DEF JobsApart
  <2>4. \A v \in Workers : ~(wpc'[v] = "serving" /\ on'[v] = jobs'[i])
    BY <1>S, <2>1, <2>2, <2>3
  <2> QED
    BY <1>3, <2>1, <2>4 DEF JobsApart, Accepted
<1>6. WorkersApart'
  <2>1. conn[c].phase = "idle" /\ ~Accepted(c)
    BY <1>1 DEF JobsApart
  <2>2. \A u, v \in Workers : wpc'[v] = "serving" /\ wpc'[u] = "serving" /\ on'[u] = on'[v] => u = v
    BY <1>3, <1>C DEF WorkersApart, Serves
  <2> QED
    BY <1>3, <2>1, <2>2 DEF WorkersApart, Accepted, Serves
<1>7. AcceptedIsIdle'
  BY <1>3 DEF AcceptedIsIdle
<1>8. NoneLost'
  <2>0. SUFFICES ASSUME NEW d \in Conns, conn'[d].phase \in {"idle", "busy"}, ~Accepted(d)',
                        ~\E v \in Workers : Serves(v, d)'
                 PROVE  \E i \in DOMAIN jobs' : jobs'[i] = d
    BY DEF NoneLost
  <2>1. d # c /\ \A v \in Workers : ~Serves(v, d)
    BY <1>3, <1>S, <2>0 DEF Serves
  <2>2. PICK i \in DOMAIN jobs : jobs[i] = d
    BY <1>3, <2>0, <2>1 DEF NoneLost, Accepted
  <2> QED
    BY <1>1, <1>2, <2>1, <2>2
<1>9. NoneLeftBehind'
  BY <1>3 DEF NoneLeftBehind, Listening
<1> QED
  BY <1>4, <1>5, <1>6, <1>7, <1>8, <1>9

\* Whatever a connection does while it is served, it stays with its worker.
LEMMA ServePlaces ==
  ASSUME PlacesInv, Typed', NEW w \in Workers, Serve(w)
  PROVE  PlacesInv'
<1> USE DEF PlacesInv, Typed, TypeOK
<1>1. /\ wpc[w] = "serving" /\ on[w] \in Conns
      /\ conn'[on[w]].phase \in {"idle", "busy", "ended"}
      /\ \A d \in Conns : d # on[w] => conn'[d] = conn[d]
      /\ UNCHANGED <<lpc, sock, backlog, jobs, wpc, on, shutdown>>
  BY DEF Serve, pool, ConnStates
<1>2. BacklogApart'
  <2>1. \A i \in DOMAIN backlog : backlog[i] # on[w] /\ backlog[i] \in Conns
    BY <1>1 DEF BacklogApart, WorkersApart
  <2> QED
    BY <1>1, <2>1 DEF BacklogApart, Once
<1>3. JobsApart'
  BY <1>1 DEF JobsApart, Accepted, Serves, Once
<1>4. WorkersApart'
  BY <1>1 DEF WorkersApart, Accepted, Serves
<1>5. AcceptedIsIdle'
  BY <1>1 DEF AcceptedIsIdle, WorkersApart, Accepted
<1>6. NoneLost'
  BY <1>1 DEF NoneLost, Accepted, Serves
<1>7. NoneLeftBehind'
  BY <1>1 DEF NoneLeftBehind, Listening
<1> QED
  BY <1>2, <1>3, <1>4, <1>5, <1>6, <1>7

LEMMA ReturnPlaces ==
  ASSUME PlacesInv, Typed', NEW w \in Workers, Return(w)
  PROVE  PlacesInv'
<1> USE DEF PlacesInv, Typed, TypeOK
<1>1. /\ wpc[w] = "serving" /\ wpc'[w] = "test" /\ conn[on[w]].phase = "ended"
      /\ \A v \in Workers : v # w => wpc'[v] = wpc[v] /\ on'[v] = on[v]
      /\ UNCHANGED <<lpc, sock, backlog, jobs, conn, shutdown>>
  BY DEF Return
<1>2. BacklogApart'
  BY <1>1 DEF BacklogApart, Once
<1>3. JobsApart'
  BY <1>1 DEF JobsApart, Accepted, Serves, Once
<1>4. WorkersApart'
  BY <1>1 DEF WorkersApart, Accepted, Serves
<1>5. AcceptedIsIdle' /\ NoneLost'
  BY <1>1 DEF AcceptedIsIdle, NoneLost, Accepted, Serves
<1>6. NoneLeftBehind'
  BY <1>1 DEF NoneLeftBehind, Listening
<1> QED
  BY <1>2, <1>3, <1>4, <1>5, <1>6

LEMMA NextPlaces == PlacesInv /\ [Next]_vars => PlacesInv'
<1> SUFFICES ASSUME PlacesInv, [Next]_vars PROVE PlacesInv'
  OBVIOUS
<1>0. Typed'
  BY NextTyped DEF PlacesInv
<1> USE <1>0
<1>U. ASSUME Apart', NoneLeftBehind' PROVE PlacesInv'
  BY <1>U DEF PlacesInv, Apart
<1>1. CASE BindAddress
  <2>1. Apart'
    BY <1>1, Unmoved DEF BindAddress, pool
  <2> QED
    BY <1>1, <2>1, <1>U DEF BindAddress, pool, PlacesInv, NoneLeftBehind, Listening
<1>2. CASE BindFails
  <2>1. Apart'
    BY <1>2, Unmoved DEF BindFails, PlacesInv, Typed, TypeOK
  <2>2. NoneLeftBehind'
    BY <1>2 DEF BindFails, PlacesInv, Typed, NoneLeftBehind, Listening
  <2> QED
    BY <2>1, <2>2, <1>U
<1>3. CASE SetShutdown
  <2>1. Apart'
    BY <1>3, Unmoved DEF SetShutdown
  <2> QED
    BY <1>3, <2>1, <1>U DEF SetShutdown, PlacesInv, NoneLeftBehind, Listening
<1>4. CASE NotifyAll
  <2>1. \A w \in Workers : wpc'[w] = wpc[w] \/ (wpc[w] = "waiting" /\ wpc'[w] = "test")
    BY <1>4 DEF NotifyAll, Waiting
  <2>2. Apart'
    BY <1>4, <2>1, Unmoved DEF NotifyAll
  <2> QED
    BY <1>4, <2>1, <2>2, <1>U DEF NotifyAll, PlacesInv, NoneLeftBehind, Listening
<1>5. CASE Join
  <2>1. Apart'
    BY <1>5, Unmoved DEF Join, pool
  <2> QED
    BY <1>5, <2>1, <1>U DEF Join, pool, PlacesInv, NoneLeftBehind, Listening
<1>6. ASSUME NEW w \in Workers, Wait(w) \/ SpuriousWakeup(w) PROVE PlacesInv'
  <2>1. /\ UNCHANGED <<lpc, backlog, sock, jobs, shutdown, on, conn>>
        /\ \A v \in Workers : wpc'[v] = wpc[v] \/ wpc'[v] \in {"waiting", "test"}
        /\ \A v \in Workers : wpc'[v] = wpc[v] \/ wpc[v] \in {"waiting", "test"}
    BY <1>6 DEF Wait, SpuriousWakeup, PlacesInv, Typed, TypeOK
  <2>2. Apart'
    BY <2>1, Unmoved
  <2>3. lpc # "returned" \/ UNCHANGED wpc
    BY <2>1, <1>6 DEF Wait, SpuriousWakeup, PlacesInv, NoneLeftBehind
  <2> QED
    BY <2>1, <2>2, <2>3, <1>U DEF PlacesInv, NoneLeftBehind, Listening
<1>7. ASSUME NEW w \in Workers, Exit(w) PROVE PlacesInv'
  <2>1. /\ UNCHANGED <<lpc, backlog, sock, jobs, shutdown, on, conn>>
        /\ \A v \in Workers : v # w => wpc'[v] = wpc[v]
        /\ wpc[w] = "test" /\ wpc'[w] = "exited" /\ shutdown /\ jobs = <<>>
    BY <1>7 DEF Exit, PlacesInv, Typed, TypeOK
  <2>2. Apart'
    BY <2>1, Unmoved
  <2> QED
    BY <2>1, <2>2, <1>U DEF PlacesInv, NoneLeftBehind, Listening
<1>8. CASE UNCHANGED vars
  BY <1>8, Unmoved, <1>U DEF vars, PlacesInv, NoneLeftBehind, Listening
<1> QED
  BY <1>1, <1>2, <1>3, <1>4, <1>5, <1>6, <1>7, <1>8, AcceptPlaces, AcceptFailsPlaces,
     ConnectPlaces, EnqueuePlaces, TakeJobPlaces, ServePlaces, ReturnPlaces
     DEF Next, Listener, Worker

LEMMA AlwaysPlaces == Spec => []PlacesInv
  BY InitPlaces, NextPlaces, PTL DEF Spec

\* Between accept and the end of its service a connection is with the listener, once in
\* the job list, or on one worker (ThreadPool, httplib.h:455-523).
THEOREM ConnectionsInOnePlace == Spec => []InOnePlace
<1>1. PlacesInv => InOnePlace
  <2> SUFFICES ASSUME PlacesInv, NEW c \in Conns
               PROVE  /\ \A h, g \in InHand(c) : h = g
                      /\ conn[c].phase \in {"idle", "busy"} => InHand(c) # {}
    BY DEF InOnePlace
  <2>1. /\ \A h \in InHand(c) : \/ h = <<"listener", 0>> /\ Accepted(c)
                                \/ \E i \in DOMAIN jobs : h = <<"job", i>> /\ jobs[i] = c
                                \/ \E w \in Workers : h = <<"worker", w>> /\ Serves(w, c)
        /\ Accepted(c) => <<"listener", 0>> \in InHand(c)
        /\ \A i \in DOMAIN jobs : jobs[i] = c => <<"job", i>> \in InHand(c)
        /\ \A w \in Workers : Serves(w, c) => <<"worker", w>> \in InHand(c)
    BY DEF InHand, Accepted, Serves
  <2>2. \A h, g \in InHand(c) : h = g
    BY <2>1 DEF PlacesInv, JobsApart, WorkersApart, Once, Accepted, Serves
  <2>3. conn[c].phase \in {"idle", "busy"} => InHand(c) # {}
    BY <2>1 DEF PlacesInv, NoneLost
  <2> QED
    BY <2>2, <2>3
<1> QED
  BY <1>1, AlwaysPlaces, PTL

\* listen returns only when everything it has accepted has been served, the jobs that were
\* still in the list included (ThreadPool::shutdown and worker, httplib.h:475-523).
THEOREM NothingLeftBehind == Spec => []DrainedBeforeReturn
<1>1. PlacesInv => DrainedBeforeReturn
  <2> SUFFICES ASSUME PlacesInv, lpc = "returned"
               PROVE  jobs = <<>> /\ \A c \in Conns : conn[c].phase \notin {"backlog", "idle", "busy"}
    BY DEF DrainedBeforeReturn
  <2>1. \A w \in Workers : wpc[w] = "exited"
    BY DEF PlacesInv, NoneLeftBehind
  <2>2. jobs = <<>>
    BY <2>1, WorkersAssumption DEF PlacesInv, NoneLeftBehind
  <2>3. \A c \in Conns : conn[c].phase \notin {"idle", "busy"}
    BY <2>1, <2>2 DEF PlacesInv, NoneLost, Accepted, Serves
  <2>4. \A c \in Conns : conn[c].phase # "backlog"
    BY DEF PlacesInv, NoneLeftBehind, Listening
  <2> QED
    BY <2>2, <2>3, <2>4
<1> QED
  BY <1>1, AlwaysPlaces, PTL

-----------------------------------------------------------------------------
(* Notifications.                                                           *)

LEMMA AwakeFinite == IsFiniteSet(Awake) /\ Cardinality(Awake) \in Nat
  BY WorkersAssumption, FS_Subset, FS_CardinalityType DEF Awake

LEMMA NextAwake == Typed /\ EnoughAwake /\ [Next]_vars => EnoughAwake'
<1> SUFFICES ASSUME Typed, EnoughAwake, [Next]_vars, Waiting' # {}
             PROVE  Len(jobs') <= Cardinality(Awake')
  BY DEF EnoughAwake
<1> USE DEF Typed, TypeOK
<1>0. jobs \in Seq(Conns) /\ IsFiniteSet(Awake) /\ Cardinality(Awake) \in Nat
  BY AwakeFinite
\* A step that takes no worker off the awake ones and adds no job.
<1>S. ASSUME jobs' = jobs, Waiting # {}, Awake' = Awake
      PROVE  Len(jobs') <= Cardinality(Awake')
  BY <1>S DEF EnoughAwake
\* A worker becomes awake.
<1>A. ASSUME NEW w, w \notin Awake, Awake' = Awake \union {w}, Waiting # {},
             Len(jobs') \in {Len(jobs), Len(jobs) + 1}
      PROVE  Len(jobs') <= Cardinality(Awake')
  <2>1. Cardinality(Awake') = Cardinality(Awake) + 1
    BY <1>0, <1>A, FS_AddElement
  <2> QED
    BY <1>0, <1>A, <2>1 DEF EnoughAwake
<1>1. CASE UNCHANGED <<jobs, wpc>>
  BY <1>1, <1>S DEF Waiting, Awake
<1>2. CASE Enqueue
  <2>1. Waiting # {}
    BY <1>2 DEF Enqueue, WakeOne, Waiting
  <2>2. PICK w \in Waiting : wpc' = [wpc EXCEPT ![w] = "test"]
    BY <1>2, <2>1 DEF Enqueue, WakeOne
  <2>3. w \notin Awake /\ Awake' = Awake \union {w}
    BY <2>2 DEF Awake, Waiting
  <2>4. Len(jobs') = Len(jobs) + 1
    BY <1>2, AppendFacts DEF Enqueue
  <2> QED
    BY <1>A, <2>1, <2>3, <2>4
<1>3. ASSUME NEW w \in Workers, TakeJob(w) PROVE Len(jobs') <= Cardinality(Awake')
  <2>1. Waiting # {} /\ w \in Awake /\ Awake' = Awake \ {w} /\ Len(jobs') = Len(jobs) - 1
    BY <1>3, TailFacts DEF TakeJob, Awake, Waiting
  <2>2. Cardinality(Awake') = Cardinality(Awake) - 1
    BY <1>0, <2>1, FS_RemoveElement
  <2> QED
    BY <1>0, <2>1, <2>2 DEF EnoughAwake
<1>4. ASSUME NEW w \in Workers, Wait(w) PROVE Len(jobs') <= Cardinality(Awake')
  <2>1. jobs' = <<>> /\ Cardinality(Awake') \in Nat
    BY <1>4, WorkersAssumption, FS_Subset, FS_CardinalityType DEF Wait, Awake
  <2> QED
    BY <2>1
<1>5. ASSUME NEW w \in Workers, SpuriousWakeup(w) PROVE Len(jobs') <= Cardinality(Awake')
  <2>1. w \notin Awake /\ Awake' = Awake \union {w} /\ Waiting # {} /\ jobs' = jobs
    BY <1>5 DEF SpuriousWakeup, Awake, Waiting
  <2> QED
    BY <1>A, <2>1
<1>6. ASSUME NEW w \in Workers, Exit(w) PROVE Len(jobs') <= Cardinality(Awake')
  <2>1. jobs' = <<>> /\ Cardinality(Awake') \in Nat
    BY <1>6, WorkersAssumption, FS_Subset, FS_CardinalityType DEF Exit, Awake
  <2> QED
    BY <2>1
<1>7. ASSUME NEW w \in Workers, Return(w) PROVE Len(jobs') <= Cardinality(Awake')
  <2>1. w \notin Awake /\ Awake' = Awake \union {w} /\ Waiting # {} /\ jobs' = jobs
    BY <1>7 DEF Return, Awake, Waiting
  <2> QED
    BY <1>A, <2>1
<1>8. ASSUME BindFails \/ NotifyAll PROVE FALSE
  BY <1>8 DEF BindFails, NotifyAll, Waiting
<1>9. UNCHANGED <<jobs, wpc>> \/ Enqueue \/ BindFails \/ NotifyAll
      \/ \E w \in Workers : TakeJob(w) \/ Wait(w) \/ Exit(w) \/ Return(w) \/ SpuriousWakeup(w)
  BY DEF Next, Listener, Worker, BindAddress, Accept, SetShutdown, Join, AcceptFails, Connect,
         Serve, pool, vars
<1> QED
  BY <1>1, <1>2, <1>3, <1>4, <1>5, <1>6, <1>7, <1>8, <1>9

\* No notification is lost: while a worker waits, every job has an awake worker of its own
\* (enqueue and worker, httplib.h:467-473 and 497-519).
THEOREM NoLostNotification == Spec => []EnoughAwake
<1>1. Init => EnoughAwake
  BY DEF Init, EnoughAwake, Waiting
<1>2. Typed /\ EnoughAwake /\ [Next]_vars => (Typed /\ EnoughAwake)'
  BY NextTyped, NextAwake
<1> QED
  BY <1>1, <1>2, InitTyped, PTL DEF Spec
=============================================================================
