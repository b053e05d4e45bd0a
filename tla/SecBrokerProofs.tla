--------------------------- MODULE SecBrokerProofs ---------------------------
(***************************************************************************)
(* The broker answers each worker's own request and keeps the failure      *)
(* budget, for any number of workers and URLs, any finite number of broker *)
(* threads, and any limits: timeouts, late answers and broker deaths       *)
(* included.                                                               *)
(***************************************************************************)
EXTENDS SecBroker, FiniteSetTheorems, TLAPS

\* A call in progress has a URL, and a thread past its read has a request.
Named ==
    /\ \A w \in Workers : worker[w].pc # "idle" => worker[w].url \in Urls
    /\ \A h \in Handlers : handler[h].pc \notin {"off", "recv"} => handler[h].req \in Requests

TypeInv == TypeOK /\ Named

\* Nothing is under way on a connection.
Quiet(h) == in[h] = << >> /\ out[h] = << >> /\ handler[h].pc \in {"off", "recv"}

\* A waiting worker's request is in one place: still to be read, with the thread,
\* or answered; or the broker has died and it is nowhere.
Outstanding(w, h) ==
    \/ in[h] = <<Frame(w)>> /\ handler[h].pc = "recv" /\ out[h] = << >>
    \/ in[h] = << >> /\ handler[h].pc \notin {"off", "recv"}
       /\ handler[h].req = Frame(w) /\ out[h] = << >>
    \/ in[h] = << >> /\ handler[h].pc \in {"off", "recv"} /\ out[h] = <<Frame(w)>>
    \/ in[h] = << >> /\ handler[h].pc = "off" /\ out[h] = << >>

\* No two workers share a connection.
OwnSocket == \A v, w \in Workers : sock[v] # None /\ sock[v] = sock[w] => v = w

\* A connection that no worker holds has no answer on it, and a thread that has
\* ended left no request behind.
Abandoned ==
    \A h \in Handlers :
        /\ ~Attached(h) => out[h] = << >>
        /\ handler[h].pc = "off" => in[h] = << >>

\* What is on a worker's connection is its own call, or nothing.
Traffic(w, h) == IF worker[w].pc = "wait" THEN Outstanding(w, h) ELSE Quiet(h)

OwnTraffic == \A w \in Workers : sock[w] # None => Traffic(w, sock[w])

ConnectionInv == OwnSocket /\ Abandoned /\ OwnTraffic

\* Threads whose request for the URL has passed the preflight check and has not
\* ended yet: each may still add a failed run.
Fetchers(u) == {h \in Handlers : handler[h].pc = "network" /\ Url(h) = u}

\* The semaphore.
SemaphoreHeld == Cardinality(Active) <= MaxConnections

\* The budget counts the fetches under way as failures.
BudgetReserved ==
    \A u \in Urls :
        ledger[u].runs + Cardinality(Fetchers(u)) <= MaxFailures + MaxConnections - 1

BudgetInv == SemaphoreHeld /\ BudgetReserved

-----------------------------------------------------------------------------
(* Types                                                                   *)

\* A worker's frame is a request once it has called.
LEMMA FrameTyped ==
    ASSUME TypeInv, NEW w \in Workers, worker[w].pc # "idle" PROVE Frame(w) \in Requests
<1>1. worker[w] \in CallState /\ worker[w].url \in Urls
  BY DEF TypeInv, TypeOK, Named
<1>2. worker[w].n \in {0, 1} /\ worker[w].op \in Ops
  BY <1>1 DEF CallState
<1>. QED BY <1>1, <1>2 DEF Frame, Requests

\* The start of a process.
LEMMA InitTyped == Init => TypeInv
BY DEF Init, TypeInv, TypeOK, Named, CallState, ThreadState, Idle, Off, NoRequest, NoFailure, Ops

\* The record of a call changes its place, the one of a thread its label.
LEMMA CallMoves ==
    ASSUME NEW r \in CallState, NEW pc \in {"idle", "send", "wait"}, NEW attempt \in {1, 2}
    PROVE  /\ [r EXCEPT !.pc = pc, !.attempt = attempt] \in CallState
           /\ [r EXCEPT !.pc = pc] \in CallState
           /\ [r EXCEPT !.pc = pc, !.attempt = attempt].pc = pc
           /\ [r EXCEPT !.pc = pc, !.attempt = attempt].url = r.url
           /\ [r EXCEPT !.pc = pc].pc = pc /\ [r EXCEPT !.pc = pc].n = r.n
           /\ [r EXCEPT !.pc = pc].op = r.op /\ [r EXCEPT !.pc = pc].url = r.url
BY DEF CallState

\* The same of a thread.
LEMMA ThreadMoves ==
    ASSUME TypeInv, NEW h \in Handlers,
           NEW pc \in {"off", "recv", "peek", "gate", "reply"} \cup InSection, Goto(h, pc)
    PROVE  /\ handler' \in [Handlers -> ThreadState]
           /\ handler'[h].pc = pc /\ handler'[h].req = handler[h].req
           /\ \A g \in Handlers : g # h => handler'[g] = handler[g]
<1>. DEFINE r == [handler[h] EXCEPT !.pc = pc]
<1>1. handler[h] \in ThreadState
  BY DEF TypeInv, TypeOK
<1>2. r \in ThreadState /\ r.pc = pc /\ r.req = handler[h].req
  BY <1>1 DEF ThreadState
<1>3. handler' = [handler EXCEPT ![h] = r]
  BY <1>1 DEF Goto, ThreadState, TypeInv, TypeOK
<1>. HIDE DEF r
<1>. QED BY <1>2, <1>3 DEF TypeInv, TypeOK

\* The end of a call, and of a thread.
LEMMA EndStates ==
    /\ \A n \in {0, 1} : Idle(n) \in CallState /\ Idle(n).pc = "idle"
    /\ Off \in ThreadState /\ Off.pc = "off"
BY DEF Idle, Off, CallState, ThreadState, NoRequest, Ops

\* The number of a call is 0 or 1.
LEMMA CallNumber == ASSUME TypeInv, NEW w \in Workers PROVE worker[w].n \in {0, 1}
BY DEF TypeInv, TypeOK, CallState

\* What GiveUp makes of a call: it is sent again, or has ended.
LEMMA GiveUpEffect ==
    ASSUME TypeInv, NEW w \in Workers, worker[w].pc \in {"send", "wait"}, GiveUp(w)
    PROVE  /\ worker' \in [Workers -> CallState]
           /\ worker'[w].pc \in {"idle", "send"}
           /\ worker'[w].pc = "send" => worker'[w].url \in Urls
           /\ \A v \in Workers : v # w => worker'[v] = worker[v]
<1>1. worker[w] \in CallState /\ worker[w].url \in Urls
  BY DEF TypeInv, TypeOK, Named
<1>. DEFINE again == [worker[w] EXCEPT !.pc = "send", !.attempt = 2]
            r == IF worker[w].attempt = 1 THEN again ELSE Idle(worker[w].n)
<1>2. again \in CallState /\ again.pc = "send" /\ again.url \in Urls
  BY <1>1, CallMoves
<1>3. Idle(worker[w].n) \in CallState /\ Idle(worker[w].n).pc = "idle"
  BY CallNumber, EndStates
<1>4. worker' = [worker EXCEPT ![w] = r]
  BY DEF GiveUp
<1>. HIDE DEF again
<1>5. r \in CallState /\ r.pc \in {"idle", "send"} /\ (r.pc = "send" => r.url \in Urls)
  BY <1>2, <1>3
<1>. HIDE DEF r
<1>. QED BY <1>4, <1>5 DEF TypeInv, TypeOK

\* _reset_socket and the end of an attempt.
LEMMA GivesUpTyped ==
    ASSUME TypeInv, NEW w \in Workers, sock[w] # None, worker[w].pc \in {"send", "wait"},
           Reset(w), GiveUp(w), UNCHANGED <<in, handler, store>>
    PROVE  TypeInv'
<1>1. TypeOK'
  BY GiveUpEffect DEF TypeInv, TypeOK, Reset, store
<1>2. Named'
  BY GiveUpEffect DEF TypeInv, Named
<1>. QED BY <1>1, <1>2 DEF TypeInv

\* A refused connect ends an attempt.
LEMMA RefusedTyped ==
    ASSUME TypeInv, NEW w \in Workers, worker[w].pc = "send", GiveUp(w),
           UNCHANGED <<sock, in, out, handler, store>>
    PROVE  TypeInv'
<1>1. TypeOK'
  BY GiveUpEffect DEF TypeInv, TypeOK, store
<1>2. Named'
  BY GiveUpEffect DEF TypeInv, Named
<1>. QED BY <1>1, <1>2 DEF TypeInv

\* The client's steps keep the types.
LEMMA WorkerTyped ==
    ASSUME TypeInv, NEW w \in Workers,
           WorkerStep(w) \/ \E op \in Ops, u \in Urls : Call(w, op, u)
    PROVE  TypeInv'
<1>1. ASSUME NEW op \in Ops, NEW u \in Urls, Call(w, op, u) PROVE TypeInv'
  <2>. DEFINE r == [pc |-> "send", n |-> 1 - worker[w].n, op |-> op, url |-> u, attempt |-> 1]
  <2>1. r \in CallState /\ r.pc = "send" /\ r.url = u
    BY CallNumber DEF CallState
  <2>2. worker' = [worker EXCEPT ![w] = r] /\ UNCHANGED <<sock, in, out, handler, store>>
    BY <1>1 DEF Call
  <2>. HIDE DEF r
  <2>. QED BY <2>1, <2>2 DEF TypeInv, TypeOK, Named, store
<1>2. ASSUME NEW h \in Handlers, Connect(w, h) PROVE TypeInv'
  <2>1. Goto(h, "recv") /\ sock' = [sock EXCEPT ![w] = h] /\ UNCHANGED <<worker, in, out, store>>
    BY <1>2 DEF Connect, Goto
  <2>2. /\ handler' \in [Handlers -> ThreadState] /\ handler'[h].pc = "recv"
        /\ \A g \in Handlers : g # h => handler'[g] = handler[g]
    BY <2>1, ThreadMoves
  <2>. QED BY <2>1, <2>2, BrokerAssumption DEF TypeInv, TypeOK, Named, store
<1>3. CASE SendRequest(w)
  <2>. DEFINE r == [worker[w] EXCEPT !.pc = "wait"]
  <2>1. worker[w] \in CallState /\ worker[w].url \in Urls
    BY <1>3 DEF SendRequest, TypeInv, TypeOK, Named
  <2>2. r \in CallState /\ r.url = worker[w].url
    BY <2>1, CallMoves
  <2>3. worker' = [worker EXCEPT ![w] = r]
    BY <1>3, <2>1 DEF SendRequest, CallState, TypeInv, TypeOK
  <2>4. in' \in [Handlers -> Seq(Requests)]
    BY <1>3, FrameTyped DEF SendRequest, TypeInv, TypeOK
  <2>. HIDE DEF r
  <2>. QED BY <1>3, <2>1, <2>2, <2>3, <2>4 DEF SendRequest, TypeInv, TypeOK, Named, store
<1>4. CASE Receive(w)
  <2>1. out' \in [Handlers -> Seq(Requests)]
    BY <1>4 DEF Receive, TypeInv, TypeOK
  <2>2. worker' = [worker EXCEPT ![w] = Idle(worker[w].n)]
        /\ UNCHANGED <<sock, in, handler, store>>
    BY <1>4 DEF Receive
  <2>3. Idle(worker[w].n) \in CallState /\ Idle(worker[w].n).pc = "idle"
    BY CallNumber, EndStates
  <2>. QED BY <2>1, <2>2, <2>3 DEF TypeInv, TypeOK, Named, store
<1>5. CASE Broken(w)
  BY <1>5, GivesUpTyped DEF Broken
<1>6. CASE TimesOut(w)
  BY <1>6, GivesUpTyped DEF TimesOut, TypeInv, TypeOK
<1>7. CASE ConnectRefused(w)
  BY <1>7, RefusedTyped DEF ConnectRefused
<1>. QED BY <1>1, <1>2, <1>3, <1>4, <1>5, <1>6, <1>7 DEF WorkerStep

\* The broker's steps keep the types.
LEMMA HandlerTyped ==
    ASSUME TypeInv, NEW h \in Handlers, HandlerStep(h)
    PROVE  TypeInv'
<1>1. ~At(h, "off") /\ ~At(h, "recv") => handler[h].req \in Requests /\ Url(h) \in Urls
  BY DEF TypeInv, Named, At, Url, Requests
<1>2. ASSUME NEW pc \in {"off", "recv", "peek", "gate", "reply"} \cup InSection, Goto(h, pc),
             ~At(h, "off"), ~At(h, "recv"), UNCHANGED <<client, in, out>>,
             cached' \subseteq Urls, ledger' \in [Urls -> [runs : Nat, permanent : BOOLEAN]]
      PROVE  TypeInv'
  <2>1. /\ handler' \in [Handlers -> ThreadState] /\ handler'[h].req = handler[h].req
        /\ \A g \in Handlers : g # h => handler'[g] = handler[g]
    BY <1>2, ThreadMoves
  <2>2. TypeOK'
    BY <1>2, <2>1 DEF TypeInv, TypeOK, client
  <2>3. Named'
    BY <1>1, <1>2, <2>1 DEF TypeInv, Named, client
  <2>. QED BY <2>2, <2>3 DEF TypeInv
<1>3. CASE Recv(h)
  <2>. DEFINE r == [pc |-> IF Head(in[h]).op = "fetch" THEN "peek" ELSE "gate", req |-> Head(in[h])]
  <2>1. Head(in[h]) \in Requests /\ Tail(in[h]) \in Seq(Requests)
    BY <1>3 DEF Recv, TypeInv, TypeOK
  <2>2. r \in ThreadState /\ r.req \in Requests
    BY <2>1 DEF ThreadState
  <2>3. handler' = [handler EXCEPT ![h] = r] /\ in' = [in EXCEPT ![h] = Tail(in[h])]
        /\ UNCHANGED <<client, out, store>>
    BY <1>3 DEF Recv
  <2>. HIDE DEF r
  <2>. QED BY <2>1, <2>2, <2>3 DEF TypeInv, TypeOK, Named, client, store
<1>4. CASE Hangup(h)
  BY <1>4, EndStates DEF TypeInv, TypeOK, Named, Hangup, client, store
<1>5. CASE Peek(h) \/ Gate(h) \/ Cache(h) \/ Preflight(h)
  BY <1>2, <1>5 DEF Peek, Gate, Cache, Preflight, At, store, InSection, TypeInv, TypeOK
<1>6. CASE Succeeds(h)
  BY <1>1, <1>2, <1>6 DEF Succeeds, At, InSection, TypeInv, TypeOK
<1>7. CASE Clear(h)
  <2>1. ledger' \in [Urls -> [runs : Nat, permanent : BOOLEAN]]
    BY <1>1, <1>7 DEF Clear, At, NoFailure, TypeInv, TypeOK
  <2>. QED BY <1>2, <1>7, <2>1 DEF Clear, At, TypeInv, TypeOK
<1>8. ASSUME NEW permanent \in BOOLEAN, Fails(h, permanent) PROVE TypeInv'
  <2>1. ledger' \in [Urls -> [runs : Nat, permanent : BOOLEAN]]
    BY <1>1, <1>8 DEF Fails, At, TypeInv, TypeOK
  <2>. QED BY <1>2, <1>8, <2>1 DEF Fails, At, TypeInv, TypeOK
<1>9. CASE Reply(h)
  <2>1. CASE Attached(h)
    <3>. DEFINE r == [pc |-> "recv", req |-> NoRequest]
    <3>1. r \in ThreadState /\ r.pc = "recv"
      BY DEF ThreadState
    <3>2. out' \in [Handlers -> Seq(Requests)]
      <4>1. Append(out[h], handler[h].req) \in Seq(Requests)
        BY <1>1, <1>9 DEF Reply, At, TypeInv, TypeOK
      <4>2. out' = [out EXCEPT ![h] = Append(out[h], handler[h].req)]
        BY <1>9, <2>1 DEF Reply
      <4>. QED BY <4>1, <4>2 DEF TypeInv, TypeOK
    <3>3. handler' = [handler EXCEPT ![h] = r] /\ UNCHANGED <<client, in, store>>
      BY <1>9, <2>1 DEF Reply
    <3>. HIDE DEF r
    <3>. QED BY <3>1, <3>2, <3>3 DEF TypeInv, TypeOK, Named, client, store
  <2>2. CASE ~Attached(h)
    <3>1. /\ handler' = [handler EXCEPT ![h] = Off] /\ in' = [in EXCEPT ![h] = << >>]
          /\ UNCHANGED <<client, out, store>>
      BY <1>9, <2>2 DEF Reply
    <3>. QED BY <3>1, EndStates DEF TypeInv, TypeOK, Named, client, store
  <2>. QED BY <2>1, <2>2
<1>. QED BY <1>3, <1>4, <1>5, <1>6, <1>7, <1>8, <1>9 DEF HandlerStep

\* Every step keeps the types.
LEMMA StepTyped == TypeInv /\ [Next]_vars => TypeInv'
<1>. SUFFICES ASSUME TypeInv, [Next]_vars PROVE TypeInv'
  OBVIOUS
<1>1. ASSUME NEW u \in Urls, Expire(u) PROVE TypeInv'
  BY <1>1 DEF TypeInv, TypeOK, Named, Expire, client
<1>2. CASE ClearCache
  BY <1>2 DEF TypeInv, TypeOK, Named, ClearCache, client, NoFailure
<1>3. CASE BrokerDies
  BY <1>3, EndStates DEF TypeInv, TypeOK, Named, BrokerDies, client, store
<1>4. CASE UNCHANGED vars
  BY <1>4 DEF TypeInv, TypeOK, Named, vars
<1>. QED BY <1>1, <1>2, <1>3, <1>4, WorkerTyped, HandlerTyped DEF Next

\* Types hold in every behaviour: the calls, the connections, the broker's threads,
\* its cache and its ledger; a call that waits has a connection.
THEOREM TypeCorrect == Spec => []TypeOK
<1>1. TypeInv => TypeOK
  BY DEF TypeInv
<1>. QED BY <1>1, InitTyped, StepTyped, PTL DEF Spec

-----------------------------------------------------------------------------
(* Connections                                                             *)

\* A thread's step, which touches its own connection only, keeps the invariant when
\* it leaves that connection in order.
LEMMA ThreadKeeps ==
    ASSUME TypeInv, ConnectionInv, NEW h \in Handlers, UNCHANGED client,
           \A g \in Handlers : g # h =>
               in'[g] = in[g] /\ out'[g] = out[g] /\ handler'[g] = handler[g],
           ~Attached(h) => out'[h] = << >>,
           handler'[h].pc = "off" => in'[h] = << >>,
           \A w \in Workers : sock[w] = h => Traffic(w, h)'
    PROVE  ConnectionInv'
<1>1. OwnSocket'
  BY DEF ConnectionInv, OwnSocket, client
<1>2. Abandoned'
  BY DEF ConnectionInv, Abandoned, Attached, client
<1>3. ASSUME NEW w \in Workers, sock'[w] # None PROVE Traffic(w, sock[w])'
  <2>1. sock'[w] = sock[w] /\ worker'[w] = worker[w] /\ sock[w] \in Handlers
    BY <1>3 DEF client, TypeInv, TypeOK
  <2>2. CASE sock[w] = h
    BY <2>1, <2>2 DEF Traffic, Outstanding, Quiet, Frame
  <2>3. CASE sock[w] # h
    <3>1. Traffic(w, sock[w])
      BY <1>3, <2>1 DEF ConnectionInv, OwnTraffic
    <3>. QED BY <2>1, <2>3, <3>1 DEF Traffic, Outstanding, Quiet, Frame
  <2>. QED BY <2>2, <2>3
<1>. QED BY <1>1, <1>2, <1>3 DEF ConnectionInv, OwnTraffic

\* The start: no connection.
LEMMA InitConnection == Init => ConnectionInv
BY DEF Init, ConnectionInv, OwnSocket, Abandoned, OwnTraffic

\* A new call begins on a connection with nothing under way.
LEMMA CallKeeps ==
    ASSUME TypeInv, ConnectionInv, NEW w \in Workers, NEW op \in Ops, NEW u \in Urls, Call(w, op, u)
    PROVE  ConnectionInv'
<1>1. worker[w].pc = "idle" /\ worker'[w].pc = "send" /\ UNCHANGED <<sock, in, out, handler>>
      /\ \A v \in Workers : v # w => worker'[v] = worker[v]
  BY DEF Call, TypeInv, TypeOK
<1>2. OwnSocket' /\ Abandoned'
  BY <1>1 DEF ConnectionInv, OwnSocket, Abandoned, Attached
<1>3. ASSUME NEW v \in Workers, sock'[v] # None PROVE Traffic(v, sock[v])'
  <2>1. Traffic(v, sock[v])
    BY <1>1, <1>3 DEF ConnectionInv, OwnTraffic
  <2>2. CASE v = w
    BY <1>1, <2>1, <2>2 DEF Traffic, Quiet
  <2>3. CASE v # w
    BY <1>1, <2>1, <2>3 DEF Traffic, Outstanding, Quiet, Frame
  <2>. QED BY <2>2, <2>3
<1>. QED BY <1>2, <1>3 DEF ConnectionInv, OwnTraffic

\* A connection is new: nothing is left of the one that had the thread before.
LEMMA ConnectKeeps ==
    ASSUME TypeInv, ConnectionInv, NEW w \in Workers, NEW h \in Handlers, Connect(w, h)
    PROVE  ConnectionInv'
<1>1. /\ worker[w].pc = "send" /\ sock[w] = None /\ handler[h].pc = "off" /\ ~Attached(h)
      /\ sock' = [sock EXCEPT ![w] = h] /\ Goto(h, "recv") /\ UNCHANGED <<worker, in, out>>
  BY EndStates DEF Connect, Goto, Attached
<1>2. handler'[h].pc = "recv" /\ \A g \in Handlers : g # h => handler'[g] = handler[g]
  BY <1>1, ThreadMoves
<1>3. sock'[w] = h /\ (\A v \in Workers : v # w => sock'[v] = sock[v] /\ sock[v] # h)
  BY <1>1 DEF Attached, TypeInv, TypeOK
<1>4. in[h] = << >> /\ out[h] = << >>
  BY <1>1 DEF ConnectionInv, Abandoned
<1>5. OwnSocket'
  BY <1>3 DEF ConnectionInv, OwnSocket
<1>6. Abandoned'
  BY <1>1, <1>2, <1>3, BrokerAssumption DEF ConnectionInv, Abandoned, Attached
<1>7. ASSUME NEW v \in Workers, sock'[v] # None PROVE Traffic(v, sock[v])'
  <2>1. CASE v = w
    BY <1>1, <1>2, <1>3, <1>4, <2>1 DEF Traffic, Quiet
  <2>2. CASE v # w
    <3>1. Traffic(v, sock[v]) /\ sock[v] \in Handlers /\ sock[v] # h /\ sock'[v] = sock[v]
      BY <1>3, <1>7, <2>2 DEF ConnectionInv, OwnTraffic, TypeInv, TypeOK
    <3>. QED BY <1>1, <1>2, <3>1 DEF Traffic, Outstanding, Quiet, Frame
  <2>. QED BY <2>1, <2>2
<1>. QED BY <1>5, <1>6, <1>7 DEF ConnectionInv, OwnTraffic

\* _exchange writes the request onto a quiet connection.
LEMMA SendKeeps ==
    ASSUME TypeInv, ConnectionInv, NEW w \in Workers, SendRequest(w)
    PROVE  ConnectionInv'
<1>. DEFINE h == sock[w]
<1>1. /\ worker[w].pc = "send" /\ h \in Handlers /\ h # None /\ handler[h].pc # "off"
      /\ in' = [in EXCEPT ![h] = Append(in[h], Frame(w))] /\ UNCHANGED <<sock, out, handler>>
  BY DEF SendRequest, TypeInv, TypeOK
<1>2. /\ worker'[w].pc = "wait" /\ Frame(w)' = Frame(w)
      /\ \A v \in Workers : v # w => worker'[v] = worker[v]
  <2>1. worker[w] \in CallState /\ worker' = [worker EXCEPT ![w] = [worker[w] EXCEPT !.pc = "wait"]]
    BY DEF SendRequest, TypeInv, TypeOK
  <2>2. worker'[w].pc = "wait" /\ worker'[w].n = worker[w].n /\ worker'[w].op = worker[w].op
        /\ worker'[w].url = worker[w].url
    BY <2>1, CallMoves DEF TypeInv, TypeOK
  <2>. QED BY <2>1, <2>2 DEF Frame, TypeInv, TypeOK
<1>3. in[h] = << >> /\ out[h] = << >> /\ handler[h].pc = "recv"
  BY <1>1 DEF ConnectionInv, OwnTraffic, Traffic, Quiet
<1>4. in'[h] = <<Frame(w)>> /\ \A g \in Handlers : g # h => in'[g] = in[g]
  BY <1>1, <1>3 DEF TypeInv, TypeOK
<1>5. OwnSocket' /\ Abandoned'
  BY <1>1, <1>3, <1>4 DEF ConnectionInv, OwnSocket, Abandoned, Attached
<1>6. ASSUME NEW v \in Workers, sock'[v] # None PROVE Traffic(v, sock[v])'
  <2>1. CASE v = w
    <3>1. in'[h] = <<Frame(w)'>>
      BY <1>2, <1>4
    <3>. QED BY <1>1, <1>2, <1>3, <2>1, <3>1 DEF Traffic, Outstanding
  <2>2. CASE v # w
    <3>1. Traffic(v, sock[v]) /\ sock[v] \in Handlers /\ sock[v] # h
      BY <1>1, <1>6, <2>2 DEF ConnectionInv, OwnSocket, OwnTraffic, TypeInv, TypeOK
    <3>. QED BY <1>1, <1>2, <1>4, <2>2, <3>1 DEF Traffic, Outstanding, Quiet, Frame
  <2>. QED BY <2>1, <2>2
<1>. QED BY <1>5, <1>6 DEF ConnectionInv, OwnTraffic

\* A waiting call that has an answer has its own answer, and nothing else on the way.
LEMMA AnswerFound ==
    ASSUME TypeInv, ConnectionInv, NEW w \in Workers, worker[w].pc = "wait",
           out[sock[w]] # << >>
    PROVE  /\ sock[w] \in Handlers /\ sock[w] # None /\ out[sock[w]] = <<Frame(w)>>
           /\ in[sock[w]] = << >> /\ handler[sock[w]].pc \in {"off", "recv"}
<1>1. sock[w] \in Handlers /\ sock[w] # None
  BY DEF TypeInv, TypeOK
<1>2. Outstanding(w, sock[w])
  BY <1>1 DEF ConnectionInv, OwnTraffic, Traffic
<1>. QED BY <1>1, <1>2 DEF Outstanding

\* _exchange reads the answer.
LEMMA ReceiveKeeps ==
    ASSUME TypeInv, ConnectionInv, NEW w \in Workers, Receive(w)
    PROVE  ConnectionInv'
<1>. DEFINE h == sock[w]
<1>1. /\ h \in Handlers /\ h # None /\ out[h] = <<Frame(w)>> /\ in[h] = << >>
      /\ handler[h].pc \in {"off", "recv"}
  BY AnswerFound DEF Receive
<1>2. out' = [out EXCEPT ![h] = Tail(out[h])] /\ UNCHANGED <<sock, in, handler>>
      /\ worker' = [worker EXCEPT ![w] = Idle(worker[w].n)]
  BY DEF Receive
<1>3. out'[h] = << >> /\ \A g \in Handlers : g # h => out'[g] = out[g]
  BY <1>1, <1>2 DEF TypeInv, TypeOK
<1>4. worker'[w].pc = "idle" /\ \A v \in Workers : v # w => worker'[v] = worker[v]
  BY <1>2, CallNumber, EndStates DEF TypeInv, TypeOK
<1>5. OwnSocket' /\ Abandoned'
  BY <1>2, <1>3 DEF ConnectionInv, OwnSocket, Abandoned, Attached
<1>6. ASSUME NEW v \in Workers, sock'[v] # None PROVE Traffic(v, sock[v])'
  <2>1. CASE v = w
    BY <1>1, <1>2, <1>3, <1>4, <2>1 DEF Traffic, Quiet
  <2>2. CASE v # w
    <3>1. Traffic(v, sock[v]) /\ sock[v] \in Handlers /\ sock[v] # h
      BY <1>1, <1>2, <1>6, <2>2 DEF ConnectionInv, OwnSocket, OwnTraffic, TypeInv, TypeOK
    <3>. QED BY <1>2, <1>3, <1>4, <2>2, <3>1 DEF Traffic, Outstanding, Quiet, Frame
  <2>. QED BY <2>1, <2>2
<1>. QED BY <1>5, <1>6 DEF ConnectionInv, OwnTraffic

\* A worker that gives up leaves its connection, and no answer on it.
LEMMA GivesUpKeeps ==
    ASSUME TypeInv, ConnectionInv, NEW w \in Workers, sock[w] # None,
           worker[w].pc \in {"send", "wait"}, Reset(w), GiveUp(w), UNCHANGED <<in, handler, store>>
    PROVE  ConnectionInv'
<1>1. sock'[w] = None /\ \A v \in Workers : v # w => sock'[v] = sock[v] /\ worker'[v] = worker[v]
  BY GiveUpEffect DEF Reset, TypeInv, TypeOK
<1>2. out'[sock[w]] = << >> /\ \A g \in Handlers : g # sock[w] => out'[g] = out[g]
  BY DEF Reset, TypeInv, TypeOK
<1>3. OwnSocket'
  BY <1>1 DEF ConnectionInv, OwnSocket
<1>4. Abandoned'
  BY <1>1, <1>2 DEF ConnectionInv, Abandoned, Attached
<1>5. ASSUME NEW v \in Workers, sock'[v] # None PROVE Traffic(v, sock[v])'
  <2>1. /\ v # w /\ Traffic(v, sock[v]) /\ sock[v] \in Handlers /\ sock[v] # sock[w]
        /\ sock'[v] = sock[v]
    BY <1>1, <1>5 DEF ConnectionInv, OwnSocket, OwnTraffic, TypeInv, TypeOK
  <2>. QED BY <1>1, <1>2, <2>1 DEF Traffic, Outstanding, Quiet, Frame
<1>. QED BY <1>3, <1>4, <1>5 DEF ConnectionInv, OwnTraffic

\* A refused connect touches no connection.
LEMMA RefusedKeeps ==
    ASSUME TypeInv, ConnectionInv, NEW w \in Workers, worker[w].pc = "send", sock[w] = None,
           GiveUp(w), UNCHANGED <<sock, in, out, handler, store>>
    PROVE  ConnectionInv'
<1>1. \A v \in Workers : v # w => worker'[v] = worker[v]
  BY GiveUpEffect
<1>2. OwnSocket' /\ Abandoned'
  BY DEF ConnectionInv, OwnSocket, Abandoned, Attached
<1>3. ASSUME NEW v \in Workers, sock'[v] # None PROVE Traffic(v, sock[v])'
  <2>1. v # w /\ Traffic(v, sock[v]) /\ worker'[v] = worker[v]
    BY <1>1, <1>3 DEF ConnectionInv, OwnTraffic
  <2>. QED BY <2>1 DEF Traffic, Outstanding, Quiet, Frame
<1>. QED BY <1>2, <1>3 DEF ConnectionInv, OwnTraffic

\* The client's steps keep every connection in order.
LEMMA WorkerKeeps ==
    ASSUME TypeInv, ConnectionInv, NEW w \in Workers,
           WorkerStep(w) \/ \E op \in Ops, u \in Urls : Call(w, op, u)
    PROVE  ConnectionInv'
<1>1. CASE Broken(w)
  BY <1>1, GivesUpKeeps DEF Broken
<1>2. CASE TimesOut(w)
  BY <1>2, GivesUpKeeps DEF TimesOut, TypeInv, TypeOK
<1>3. CASE ConnectRefused(w)
  BY <1>3, RefusedKeeps DEF ConnectRefused
<1>. QED BY <1>1, <1>2, <1>3, CallKeeps, ConnectKeeps, SendKeeps, ReceiveKeeps DEF WorkerStep

\* What a worker's connection looks like while its thread has a request.
LEMMA RequestHeld ==
    ASSUME TypeInv, ConnectionInv, NEW h \in Handlers, ~At(h, "off"), ~At(h, "recv"),
           NEW w \in Workers, sock[w] = h
    PROVE  /\ worker[w].pc = "wait" /\ in[h] = << >> /\ out[h] = << >>
           /\ handler[h].req = Frame(w)
<1>1. Traffic(w, h)
  BY BrokerAssumption DEF ConnectionInv, OwnTraffic
<1>. QED BY <1>1 DEF Traffic, Outstanding, Quiet, At

\* A thread that goes from one label to the next within a request.
LEMMA GotoKeeps ==
    ASSUME TypeInv, ConnectionInv, NEW h \in Handlers, ~At(h, "off"), ~At(h, "recv"),
           NEW pc \in {"peek", "gate", "reply"} \cup InSection, Goto(h, pc),
           UNCHANGED <<client, in, out>>
    PROVE  ConnectionInv'
<1>1. /\ handler'[h].pc = pc /\ handler'[h].req = handler[h].req
      /\ \A g \in Handlers : g # h => handler'[g] = handler[g]
  BY ThreadMoves
<1>2. pc \notin {"off", "recv"}
  BY DEF InSection
<1>3. ASSUME NEW w \in Workers, sock[w] = h PROVE Traffic(w, h)'
  <2>1. worker[w].pc = "wait" /\ in[h] = << >> /\ out[h] = << >> /\ handler[h].req = Frame(w)
    BY <1>3, RequestHeld
  <2>2. Frame(w)' = Frame(w) /\ worker'[w] = worker[w]
    BY DEF Frame, client
  <2>. QED BY <1>1, <1>2, <2>1, <2>2 DEF Traffic, Outstanding
<1>4. ~Attached(h) => out'[h] = << >>
  BY DEF ConnectionInv, Abandoned
<1>5. UNCHANGED client /\ \A g \in Handlers : g # h =>
          in'[g] = in[g] /\ out'[g] = out[g] /\ handler'[g] = handler[g]
  BY <1>1
<1>. QED BY <1>1, <1>2, <1>3, <1>4, <1>5, ThreadKeeps

\* _recv_frame takes the request of the worker that holds the connection.
LEMMA RecvKeeps ==
    ASSUME TypeInv, ConnectionInv, NEW h \in Handlers, Recv(h)
    PROVE  ConnectionInv'
<1>1. /\ handler[h].pc = "recv" /\ in[h] # << >> /\ UNCHANGED <<client, out>>
      /\ handler'[h].pc \in {"peek", "gate"} /\ handler'[h].req = Head(in[h])
      /\ in'[h] = Tail(in[h])
  BY DEF Recv, At, TypeInv, TypeOK
<1>2. \A g \in Handlers : g # h =>
          in'[g] = in[g] /\ out'[g] = out[g] /\ handler'[g] = handler[g]
  BY <1>1 DEF Recv, TypeInv, TypeOK
<1>3. ASSUME NEW w \in Workers, sock[w] = h PROVE Traffic(w, h)'
  <2>1. Traffic(w, h)
    BY <1>3, BrokerAssumption DEF ConnectionInv, OwnTraffic
  <2>2. worker[w].pc = "wait" /\ in[h] = <<Frame(w)>> /\ out[h] = << >>
    BY <1>1, <2>1 DEF Traffic, Outstanding, Quiet
  <2>3. in'[h] = << >> /\ handler'[h].req = Frame(w)
    BY <1>1, <2>2
  <2>4. Frame(w)' = Frame(w) /\ worker'[w] = worker[w] /\ out'[h] = out[h]
    BY <1>1 DEF Frame, client
  <2>. QED BY <1>1, <2>2, <2>3, <2>4 DEF Traffic, Outstanding
<1>4. ~Attached(h) => out'[h] = << >>
  BY <1>1 DEF ConnectionInv, Abandoned
<1>. QED BY <1>1, <1>2, <1>3, <1>4, ThreadKeeps

\* The thread of an idle connection ends; an answer on its way still arrives.
LEMMA HangupKeeps ==
    ASSUME TypeInv, ConnectionInv, NEW h \in Handlers, Hangup(h)
    PROVE  ConnectionInv'
<1>1. /\ handler[h].pc = "recv" /\ in[h] = << >> /\ UNCHANGED <<client, in, out>>
      /\ handler'[h].pc = "off"
  BY EndStates DEF Hangup, At, TypeInv, TypeOK
<1>2. \A g \in Handlers : g # h =>
          in'[g] = in[g] /\ out'[g] = out[g] /\ handler'[g] = handler[g]
  BY <1>1 DEF Hangup, TypeInv, TypeOK
<1>3. ASSUME NEW w \in Workers, sock[w] = h PROVE Traffic(w, h)'
  <2>1. Traffic(w, h)
    BY <1>3, BrokerAssumption DEF ConnectionInv, OwnTraffic
  <2>2. worker'[w] = worker[w]
    BY <1>1 DEF client
  <2>. QED BY <1>1, <2>1, <2>2 DEF Traffic, Outstanding, Quiet, Frame
<1>4. ~Attached(h) => out'[h] = << >>
  BY <1>1 DEF ConnectionInv, Abandoned
<1>. QED BY <1>1, <1>2, <1>3, <1>4, ThreadKeeps

\* The answer goes to the worker that still waits on the connection; when it has
\* left, the thread ends without one.
LEMMA ReplyKeeps ==
    ASSUME TypeInv, ConnectionInv, NEW h \in Handlers, Reply(h)
    PROVE  ConnectionInv'
<1>1. ~At(h, "off") /\ ~At(h, "recv") /\ UNCHANGED client
  BY DEF Reply, At
<1>2. \A g \in Handlers : g # h =>
          in'[g] = in[g] /\ out'[g] = out[g] /\ handler'[g] = handler[g]
  BY DEF Reply, TypeInv, TypeOK
<1>3. CASE Attached(h)
  <2>1. /\ handler'[h].pc = "recv" /\ in'[h] = in[h]
        /\ out'[h] = Append(out[h], handler[h].req)
    BY <1>3 DEF Reply, TypeInv, TypeOK
  <2>2. ASSUME NEW w \in Workers, sock[w] = h PROVE Traffic(w, h)'
    <3>1. worker[w].pc = "wait" /\ in[h] = << >> /\ out[h] = << >> /\ handler[h].req = Frame(w)
      BY <1>1, <2>2, RequestHeld
    <3>2. Frame(w)' = Frame(w) /\ worker'[w] = worker[w]
      BY <1>1 DEF Frame, client
    <3>3. out'[h] = <<Frame(w)>>
      BY <2>1, <3>1
    <3>. QED BY <2>1, <3>1, <3>2, <3>3 DEF Traffic, Outstanding
  <2>. QED BY <1>1, <1>2, <1>3, <2>1, <2>2, ThreadKeeps
<1>4. CASE ~Attached(h)
  <2>1. in'[h] = << >> /\ out'[h] = out[h]
    BY <1>4 DEF Reply, TypeInv, TypeOK
  <2>2. out[h] = << >> /\ \A w \in Workers : sock[w] # h
    BY <1>4 DEF ConnectionInv, Abandoned, Attached
  <2>. QED BY <1>1, <1>2, <2>1, <2>2, ThreadKeeps
<1>. QED BY <1>3, <1>4

\* The broker's steps keep every connection in order.
LEMMA HandlerKeeps ==
    ASSUME TypeInv, ConnectionInv, NEW h \in Handlers, HandlerStep(h)
    PROVE  ConnectionInv'
<1>1. CASE \/ Peek(h) \/ Gate(h) \/ Cache(h) \/ Preflight(h) \/ Succeeds(h) \/ Clear(h)
           \/ \E permanent \in BOOLEAN : Fails(h, permanent)
  <2>1. ~At(h, "off") /\ ~At(h, "recv") /\ UNCHANGED <<client, in, out>>
    BY <1>1 DEF Peek, Gate, Cache, Preflight, Succeeds, Clear, Fails, At
  <2>2. PICK pc \in {"peek", "gate", "reply"} \cup InSection : Goto(h, pc)
    BY <1>1 DEF Peek, Gate, Cache, Preflight, Succeeds, Clear, Fails, InSection
  <2>. QED BY <2>1, <2>2, GotoKeeps
<1>. QED BY <1>1, RecvKeeps, HangupKeeps, ReplyKeeps DEF HandlerStep

\* A worker that waits when the broker dies has its answer already, or gets none.
LEMMA DeathKeeps ==
    ASSUME TypeInv, ConnectionInv, BrokerDies PROVE ConnectionInv'
<1>1. /\ UNCHANGED <<client, out>>
      /\ \A h \in Handlers : handler'[h].pc = "off" /\ in'[h] = << >>
  BY EndStates DEF BrokerDies
<1>2. OwnSocket' /\ Abandoned'
  BY <1>1 DEF ConnectionInv, OwnSocket, Abandoned, Attached, client
<1>3. ASSUME NEW w \in Workers, sock'[w] # None PROVE Traffic(w, sock[w])'
  <2>1. /\ Traffic(w, sock[w]) /\ sock[w] \in Handlers /\ sock'[w] = sock[w]
        /\ worker'[w] = worker[w]
    BY <1>1, <1>3 DEF ConnectionInv, OwnTraffic, TypeInv, TypeOK, client
  <2>. QED BY <1>1, <2>1 DEF Traffic, Outstanding, Quiet, Frame
<1>. QED BY <1>2, <1>3 DEF ConnectionInv, OwnTraffic

\* Every step keeps the connections in order.
LEMMA NextKeeps == TypeInv /\ ConnectionInv /\ [Next]_vars => ConnectionInv'
<1>. SUFFICES ASSUME TypeInv, ConnectionInv, [Next]_vars PROVE ConnectionInv'
  OBVIOUS
<1>1. CASE UNCHANGED <<client, in, out, handler>>
  BY <1>1 DEF ConnectionInv, OwnSocket, Abandoned, OwnTraffic, Attached, Traffic, Outstanding,
              Quiet, Frame, client
<1>2. ASSUME NEW u \in Urls, Expire(u) PROVE ConnectionInv'
  BY <1>1, <1>2 DEF Expire
<1>3. CASE ClearCache
  BY <1>1, <1>3 DEF ClearCache
<1>4. CASE UNCHANGED vars
  BY <1>1, <1>4 DEF vars, client
<1>. QED BY <1>2, <1>3, <1>4, WorkerKeeps, HandlerKeeps, DeathKeeps DEF Next

\* Every answer that ends a call is the answer to that call: a worker that timed out
\* leaves its socket, so the late answer of the broker's thread finds no reader, and
\* a connection carries one request at a time. SecBrokerClient.fetch may do without
\* a comparison of request ids.
THEOREM AnswerIsOursHolds == Spec => AnswerIsOurs
<1>1. TypeInv /\ ConnectionInv /\ [Next]_vars =>
          [\A w \in Workers :
              /\ worker[w].pc = "wait" /\ worker'[w].pc = "idle"
              /\ out[sock[w]] # << >> /\ out'[sock[w]] = Tail(out[sock[w]]) /\ sock'[w] = sock[w]
              => Head(out[sock[w]]) = Frame(w)]_vars
  <2>. SUFFICES ASSUME TypeInv, ConnectionInv, NEW w \in Workers, worker[w].pc = "wait",
                       out[sock[w]] # << >>
                PROVE  Head(out[sock[w]]) = Frame(w)
    OBVIOUS
  <2>1. out[sock[w]] = <<Frame(w)>>
    BY AnswerFound
  <2>. QED BY <2>1
<1>. QED BY <1>1, InitTyped, InitConnection, StepTyped, NextKeeps, PTL DEF Spec, AnswerIsOurs

-----------------------------------------------------------------------------
(* The semaphore and the failure budget                                    *)

\* The broker has finitely many threads, so what counts some of them is a number.
LEMMA ThreadCount ==
    ASSUME NEW T, T \subseteq Handlers, NEW S, S \subseteq T
    PROVE  /\ IsFiniteSet(S) /\ IsFiniteSet(T)
           /\ Cardinality(S) \in Nat /\ Cardinality(T) \in Nat
           /\ Cardinality(S) <= Cardinality(T)
<1>1. IsFiniteSet(T)
  BY BrokerAssumption, FS_Subset
<1>. QED BY <1>1, FS_Subset, FS_CardinalityType

\* A thread that fetches is within the semaphore.
LEMMA FetchersActive ==
    ASSUME NEW u PROVE Active \subseteq Handlers /\ Fetchers(u) \subseteq Active
BY DEF Active, Fetchers, InSection

\* Fewer threads within the semaphore, fewer fetches and no more failed runs.
LEMMA FewerKeeps ==
    ASSUME TypeInv, TypeInv', BudgetInv, Active' \subseteq Active,
           \A u \in Urls : Fetchers(u)' \subseteq Fetchers(u) /\ ledger'[u].runs <= ledger[u].runs
    PROVE  BudgetInv'
<1>1. SemaphoreHeld'
  <2>1. Cardinality(Active') <= Cardinality(Active) /\ Cardinality(Active') \in Nat
        /\ Cardinality(Active) \in Nat
    BY ThreadCount, FetchersActive
  <2>. QED BY <2>1, BrokerAssumption DEF BudgetInv, SemaphoreHeld
<1>2. ASSUME NEW u \in Urls
      PROVE  ledger'[u].runs + Cardinality(Fetchers(u)') <= MaxFailures + MaxConnections - 1
  <2>1. Fetchers(u) \subseteq Handlers
    BY FetchersActive
  <2>2. /\ Cardinality(Fetchers(u)') <= Cardinality(Fetchers(u))
        /\ Cardinality(Fetchers(u)') \in Nat /\ Cardinality(Fetchers(u)) \in Nat
    BY <2>1, ThreadCount
  <2>3. ledger[u].runs \in Nat /\ ledger'[u].runs \in Nat
    BY DEF TypeInv, TypeOK
  <2>4. ledger[u].runs + Cardinality(Fetchers(u)) <= MaxFailures + MaxConnections - 1
    BY DEF BudgetInv, BudgetReserved
  <2>. QED BY <2>2, <2>3, <2>4, BrokerAssumption
<1>. QED BY <1>1, <1>2 DEF BudgetInv, BudgetReserved

\* The step of a thread which was not fetching and does not begin to: the threads
\* within the semaphore are the same, or one fewer.
LEMMA ThreadLeaves ==
    ASSUME TypeInv, TypeInv', BudgetInv, NEW h \in Handlers,
           \A g \in Handlers : g # h => handler'[g] = handler[g],
           handler'[h].pc \in InSection => handler[h].pc \in InSection,
           handler'[h].pc # "network", UNCHANGED ledger
    PROVE  BudgetInv'
<1>1. Active' \subseteq Active
  BY DEF Active
<1>2. ASSUME NEW u \in Urls
      PROVE  Fetchers(u)' \subseteq Fetchers(u) /\ ledger'[u].runs <= ledger[u].runs
  <2>1. Fetchers(u)' \subseteq Fetchers(u)
    BY DEF Fetchers, Url
  <2>. QED BY <2>1 DEF TypeInv, TypeOK
<1>. QED BY <1>1, <1>2, FewerKeeps

\* The start: nobody fetches.
LEMMA InitBudget == Init => BudgetInv
<1>. SUFFICES ASSUME Init PROVE BudgetInv
  OBVIOUS
<1>1. Active = {} /\ \A u : Fetchers(u) = {}
  BY DEF Init, Active, Fetchers, Off, InSection
<1>2. Cardinality({}) = 0
  BY FS_EmptySet
<1>3. \A u \in Urls : ledger[u].runs = 0
  BY DEF Init, NoFailure
<1>. QED BY <1>1, <1>2, <1>3, BrokerAssumption DEF BudgetInv, SemaphoreHeld, BudgetReserved

\* A permit of the semaphore is taken.
LEMMA GateKeeps ==
    ASSUME TypeInv, TypeInv', BudgetInv, NEW h \in Handlers, Gate(h)
    PROVE  BudgetInv'
<1>1. /\ handler[h].pc = "gate" /\ Cardinality(Active) < MaxConnections /\ UNCHANGED ledger
      /\ Goto(h, IF Op(h) = "fetch" THEN "cache" ELSE "preflight")
  BY DEF Gate, At, Admitted, store
<1>2. /\ handler'[h].pc \in {"cache", "preflight"}
      /\ \A g \in Handlers : g # h => handler'[g] = handler[g]
  BY <1>1, ThreadMoves DEF InSection
<1>3. Active' = Active \cup {h} /\ h \notin Active
  BY <1>1, <1>2 DEF Active, InSection
<1>4. Cardinality(Active') = Cardinality(Active) + 1 /\ Cardinality(Active) \in Nat
  BY <1>3, ThreadCount, FetchersActive, FS_AddElement
<1>5. \A u \in Urls : Fetchers(u)' = Fetchers(u)
  BY <1>1, <1>2 DEF Fetchers, Url
<1>. QED BY <1>1, <1>4, <1>5, BrokerAssumption DEF BudgetInv, SemaphoreHeld, BudgetReserved

\* _preflight_skip: the fetch begins only below max_failure_attempts, and with it no
\* more are under way than the semaphore admits.
LEMMA PreflightKeeps ==
    ASSUME TypeInv, TypeInv', BudgetInv, NEW h \in Handlers, Preflight(h)
    PROVE  BudgetInv'
<1>1. /\ handler[h].pc = "preflight" /\ UNCHANGED ledger
      /\ Goto(h, IF Skipped(Url(h)) THEN "reply" ELSE "network")
  BY DEF Preflight, At, store
<1>2. /\ handler'[h].pc = IF Skipped(Url(h)) THEN "reply" ELSE "network"
      /\ handler'[h].req = handler[h].req
      /\ \A g \in Handlers : g # h => handler'[g] = handler[g]
  BY <1>1, ThreadMoves DEF InSection
<1>3. CASE Skipped(Url(h))
  BY <1>1, <1>2, <1>3, ThreadLeaves DEF InSection
<1>4. CASE ~Skipped(Url(h))
  <2>1. Active' = Active
    BY <1>1, <1>2, <1>4 DEF Active, InSection
  <2>2. SemaphoreHeld'
    BY <2>1 DEF BudgetInv, SemaphoreHeld
  <2>3. ASSUME NEW u \in Urls
        PROVE  ledger'[u].runs + Cardinality(Fetchers(u)') <= MaxFailures + MaxConnections - 1
    <3>1. CASE u = Url(h)
      <4>1. Fetchers(u)' \subseteq Active'
        BY DEF Active, Fetchers, InSection
      <4>2. Cardinality(Fetchers(u)') <= Cardinality(Active) /\ Cardinality(Fetchers(u)') \in Nat
            /\ Cardinality(Active) \in Nat
        BY <2>1, <4>1, FetchersActive, ThreadCount
      <4>3. ledger'[u].runs \in Nat /\ ledger'[u].runs < MaxFailures
        BY <1>1, <1>4, <3>1, BrokerAssumption DEF Skipped, TypeInv, TypeOK
      <4>. QED BY <4>2, <4>3, BrokerAssumption DEF BudgetInv, SemaphoreHeld
    <3>2. CASE u # Url(h)
      <4>1. Fetchers(u)' = Fetchers(u)
        BY <1>1, <1>2, <3>2 DEF Fetchers, Url
      <4>. QED BY <1>1, <4>1 DEF BudgetInv, BudgetReserved
    <3>. QED BY <3>1, <3>2
  <2>. QED BY <2>2, <2>3 DEF BudgetInv, BudgetReserved
<1>. QED BY <1>3, <1>4

\* clear_failure: the count is back at zero, and what is under way is within the
\* semaphore's limit.
LEMMA ResetKeeps ==
    ASSUME TypeInv, TypeInv', BudgetInv, Active' \subseteq Active, NEW U \in SUBSET Urls,
           \A u \in U : ledger'[u].runs = 0,
           \A u \in Urls \ U : ledger'[u] = ledger[u] /\ Fetchers(u)' \subseteq Fetchers(u)
    PROVE  BudgetInv'
<1>1. /\ Cardinality(Active') <= Cardinality(Active)
      /\ Cardinality(Active') \in Nat /\ Cardinality(Active) \in Nat
  BY ThreadCount, FetchersActive
<1>2. SemaphoreHeld'
  BY <1>1, BrokerAssumption DEF BudgetInv, SemaphoreHeld
<1>3. ASSUME NEW u \in Urls
      PROVE  ledger'[u].runs + Cardinality(Fetchers(u)') <= MaxFailures + MaxConnections - 1
  <2>1. CASE u \in U
    <3>1. Fetchers(u)' \subseteq Active'
      BY DEF Active, Fetchers, InSection
    <3>2. Cardinality(Fetchers(u)') <= Cardinality(Active) /\ Cardinality(Fetchers(u)') \in Nat
      <4>1. Fetchers(u)' \subseteq Active
        BY <3>1
      <4>. QED BY <4>1, FetchersActive, ThreadCount
    <3>. QED BY <1>1, <2>1, <3>2, BrokerAssumption DEF BudgetInv, SemaphoreHeld
  <2>2. CASE u \notin U
    <3>1. Fetchers(u)' \subseteq Fetchers(u) /\ Fetchers(u) \subseteq Handlers
      BY <2>2, FetchersActive
    <3>2. /\ Cardinality(Fetchers(u)') <= Cardinality(Fetchers(u))
          /\ Cardinality(Fetchers(u)') \in Nat /\ Cardinality(Fetchers(u)) \in Nat
      BY <3>1, ThreadCount
    <3>3. ledger'[u].runs = ledger[u].runs /\ ledger[u].runs \in Nat
      BY <2>2 DEF TypeInv, TypeOK
    <3>. QED BY <3>2, <3>3, BrokerAssumption DEF BudgetInv, BudgetReserved
  <2>. QED BY <2>1, <2>2
<1>. QED BY <1>2, <1>3 DEF BudgetInv, BudgetReserved

\* record_failure: the fetch under way becomes a failed run.
LEMMA FailsKeeps ==
    ASSUME TypeInv, TypeInv', BudgetInv, NEW h \in Handlers, NEW permanent \in BOOLEAN,
           Fails(h, permanent)
    PROVE  BudgetInv'
<1>1. PICK x \in Urls : x = Url(h)
  BY DEF Fails, At, TypeInv, Named, Url, Requests
<1>2. /\ handler[h].pc = "network" /\ Goto(h, "reply")
      /\ ledger' = [ledger EXCEPT ![x] = [runs |-> ledger[x].runs + 1, permanent |-> permanent]]
  BY <1>1 DEF Fails, At
<1>3. handler'[h].pc = "reply" /\ \A g \in Handlers : g # h => handler'[g] = handler[g]
  BY <1>2, ThreadMoves
<1>4. /\ ledger'[x].runs = ledger[x].runs + 1 /\ ledger[x].runs \in Nat
      /\ \A u \in Urls : u # x => ledger'[u] = ledger[u]
  BY <1>1, <1>2 DEF TypeInv, TypeOK
<1>5. Active' \subseteq Active /\ h \in Fetchers(x) /\ Fetchers(x)' = Fetchers(x) \ {h}
  BY <1>1, <1>2, <1>3 DEF Active, Fetchers, Url, InSection
<1>6. \A u \in Urls : u # x => Fetchers(u)' = Fetchers(u)
  BY <1>1, <1>2, <1>3 DEF Fetchers, Url
<1>7. SemaphoreHeld'
  <2>1. /\ Cardinality(Active') <= Cardinality(Active)
        /\ Cardinality(Active') \in Nat /\ Cardinality(Active) \in Nat
    BY <1>5, ThreadCount, FetchersActive
  <2>. QED BY <2>1, BrokerAssumption DEF BudgetInv, SemaphoreHeld
<1>8. Cardinality(Fetchers(x)') = Cardinality(Fetchers(x)) - 1 /\ Cardinality(Fetchers(x)) \in Nat
  <2>1. IsFiniteSet(Fetchers(x)) /\ Cardinality(Fetchers(x)) \in Nat
    BY FetchersActive, ThreadCount
  <2>. QED BY <1>5, <2>1, FS_RemoveElement
<1>9. ASSUME NEW u \in Urls
      PROVE  ledger'[u].runs + Cardinality(Fetchers(u)') <= MaxFailures + MaxConnections - 1
  <2>1. ledger[u].runs + Cardinality(Fetchers(u)) <= MaxFailures + MaxConnections - 1
    BY DEF BudgetInv, BudgetReserved
  <2>2. CASE u = x
    BY <1>4, <1>8, <2>1, <2>2, BrokerAssumption
  <2>3. CASE u # x
    BY <1>4, <1>6, <2>1, <2>3
  <2>. QED BY <2>2, <2>3
<1>. QED BY <1>7, <1>9 DEF BudgetInv, BudgetReserved

\* The client touches neither the semaphore nor the ledger.
LEMMA WorkerBudget ==
    ASSUME TypeInv, TypeInv', BudgetInv, NEW w \in Workers,
           WorkerStep(w) \/ \E op \in Ops, u \in Urls : Call(w, op, u)
    PROVE  BudgetInv'
<1>1. ASSUME NEW h \in Handlers, Connect(w, h) PROVE BudgetInv'
  <2>1. Goto(h, "recv") /\ UNCHANGED ledger
    BY <1>1 DEF Connect, Goto, store
  <2>2. handler'[h].pc = "recv" /\ \A g \in Handlers : g # h => handler'[g] = handler[g]
    BY <2>1, ThreadMoves
  <2>. QED BY <2>1, <2>2, ThreadLeaves DEF InSection
<1>2. CASE UNCHANGED <<handler, ledger>>
  BY <1>2 DEF BudgetInv, SemaphoreHeld, BudgetReserved, Active, Fetchers, Url
<1>3. CASE ConnectRefused(w) \/ SendRequest(w) \/ Receive(w) \/ Broken(w) \/ TimesOut(w)
           \/ \E op \in Ops, u \in Urls : Call(w, op, u)
  BY <1>2, <1>3 DEF ConnectRefused, SendRequest, Receive, Broken, TimesOut, Call, store
<1>. QED BY <1>1, <1>3 DEF WorkerStep

\* The broker's steps keep the semaphore and the reserve.
LEMMA HandlerBudget ==
    ASSUME TypeInv, TypeInv', BudgetInv, NEW h \in Handlers, HandlerStep(h)
    PROVE  BudgetInv'
<1>1. CASE Recv(h) \/ Hangup(h) \/ Reply(h)
  <2>1. handler'[h].pc \notin InSection /\ UNCHANGED ledger
    BY <1>1, EndStates DEF Recv, Hangup, Reply, InSection, TypeInv, TypeOK, store
  <2>2. \A g \in Handlers : g # h => handler'[g] = handler[g]
    BY <1>1 DEF Recv, Hangup, Reply, TypeInv, TypeOK
  <2>. QED BY <2>1, <2>2, ThreadLeaves DEF InSection
<1>2. CASE Peek(h) \/ Cache(h) \/ Succeeds(h)
  <2>1. PICK pc \in {"gate", "reply", "preflight", "clear"} : Goto(h, pc)
                     /\ (pc \in InSection => handler[h].pc \in InSection)
    BY <1>2 DEF Peek, Cache, Succeeds, At, InSection
  <2>2. handler'[h].pc = pc /\ \A g \in Handlers : g # h => handler'[g] = handler[g]
    BY <2>1, ThreadMoves DEF InSection
  <2>3. UNCHANGED ledger
    BY <1>2 DEF Peek, Cache, Succeeds, store
  <2>. QED BY <2>1, <2>2, <2>3, ThreadLeaves
<1>3. CASE Clear(h)
  <2>1. PICK x \in Urls : x = Url(h)
    BY <1>3 DEF Clear, At, TypeInv, Named, Url, Requests
  <2>2. handler[h].pc = "clear" /\ Goto(h, "reply")
        /\ ledger' = [ledger EXCEPT ![x] = NoFailure]
    BY <1>3, <2>1 DEF Clear, At
  <2>3. handler'[h].pc = "reply" /\ \A g \in Handlers : g # h => handler'[g] = handler[g]
    BY <2>2, ThreadMoves
  <2>4. Active' \subseteq Active /\ \A u \in Urls : Fetchers(u)' \subseteq Fetchers(u)
    BY <2>2, <2>3 DEF Active, Fetchers, Url, InSection
  <2>5. ledger'[x].runs = 0 /\ \A u \in Urls \ {x} : ledger'[u] = ledger[u]
    BY <2>2 DEF NoFailure, TypeInv, TypeOK
  <2>6. /\ {x} \in SUBSET Urls /\ \A u \in {x} : ledger'[u].runs = 0
        /\ \A u \in Urls \ {x} : ledger'[u] = ledger[u] /\ Fetchers(u)' \subseteq Fetchers(u)
    BY <2>4, <2>5
  <2>. QED BY <2>4, <2>6, ResetKeeps
<1>. QED BY <1>1, <1>2, <1>3, GateKeeps, PreflightKeeps, FailsKeeps DEF HandlerStep

\* Every step keeps the semaphore and the reserve.
LEMMA NextBudget == TypeInv /\ TypeInv' /\ BudgetInv /\ [Next]_vars => BudgetInv'
<1>. SUFFICES ASSUME TypeInv, TypeInv', BudgetInv, [Next]_vars PROVE BudgetInv'
  OBVIOUS
<1>1. CASE UNCHANGED <<handler, ledger>>
  BY <1>1 DEF BudgetInv, SemaphoreHeld, BudgetReserved, Active, Fetchers, Url
<1>2. ASSUME NEW u \in Urls, Expire(u) PROVE BudgetInv'
  BY <1>1, <1>2 DEF Expire
<1>3. CASE ClearCache
  <2>1. Active' \subseteq Active /\ \A u \in Urls : ledger'[u].runs = 0
    BY <1>3 DEF ClearCache, NoFailure, Active
  <2>. QED BY <2>1, ResetKeeps
<1>4. CASE BrokerDies
  <2>1. \A h \in Handlers : handler'[h].pc = "off"
    BY <1>4, EndStates DEF BrokerDies
  <2>2. Active' \subseteq Active /\ \A u \in Urls : Fetchers(u)' \subseteq Fetchers(u)
    BY <2>1 DEF Active, Fetchers, InSection
  <2>3. \A u \in Urls : ledger'[u].runs <= ledger[u].runs
    BY <1>4 DEF BrokerDies, store, TypeInv, TypeOK
  <2>. QED BY <2>2, <2>3, FewerKeeps
<1>5. CASE UNCHANGED vars
  BY <1>1, <1>5 DEF vars
<1>. QED BY <1>2, <1>3, <1>4, <1>5, WorkerBudget, HandlerBudget DEF Next

\* The failed runs of a URL stay below max_failure_attempts plus the fetches the
\* semaphore admits, whatever workers time out, retry or find the broker dead: a
\* fetch is only begun below the limit, and each fetch under way is counted as if it
\* had failed already.
THEOREM BudgetHoldsHolds == Spec => []BudgetHolds
<1>1. TypeInv /\ BudgetInv => BudgetHolds
  <2>. SUFFICES ASSUME TypeInv, BudgetInv, NEW u \in Urls
                PROVE  ledger[u].runs <= MaxFailures + MaxConnections - 1
    BY DEF BudgetHolds
  <2>1. Cardinality(Fetchers(u)) \in Nat /\ ledger[u].runs \in Nat
    BY FetchersActive, ThreadCount DEF TypeInv, TypeOK
  <2>. QED BY <2>1, BrokerAssumption DEF BudgetInv, BudgetReserved
<1>. QED BY <1>1, InitTyped, InitBudget, StepTyped, NextBudget, PTL DEF Spec

=============================================================================
