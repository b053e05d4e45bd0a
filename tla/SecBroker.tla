------------------------------ MODULE SecBroker ------------------------------
(***************************************************************************)
(* The SEC broker (edgar_sec/infra/broker): worker threads fetch through   *)
(* sockets, each served by a thread of the broker process, which owns the  *)
(* one SecHttpClient with its response cache and failure ledger. Workers   *)
(* give up after a timeout while the broker's thread goes on, and the      *)
(* broker may die. The requests of one get_bytes or stream_to_file, their  *)
(* pacing and retries, are RateLimiter's subject: here they are one step   *)
(* with its outcome.                                                       *)
(***************************************************************************)
EXTENDS Naturals, FiniteSets, Sequences

CONSTANTS
    Workers,         \* threads that use a SecBrokerClient
    Handlers,        \* threads of the broker: bounds the open connections
    Urls,
    MaxConnections,  \* permits of the semaphore
    MaxFailures,     \* max_failure_attempts
    None

ASSUME BrokerAssumption ==
    /\ MaxConnections \in Nat \ {0}
    /\ MaxFailures \in Nat \ {0}
    /\ IsFiniteSet(Handlers)
    /\ None \notin Handlers

VARIABLES
    worker,   \* each worker's call
    sock,     \* the connection its thread-local socket holds
    in,       \* requests sent on each connection
    out,      \* answers sent on it
    handler,  \* each broker thread: where it is and its request
    cached,   \* URLs with an unexpired row in url_responses
    ledger    \* url_failures: runs that failed, and the permanent mark

vars == <<worker, sock, in, out, handler, cached, ledger>>
store == <<cached, ledger>>
client == <<worker, sock>>

Ops == {"fetch", "refresh", "stream"}
Requests == [from : Workers, n : {0, 1}, op : Ops, url : Urls]
NoRequest == [from |-> None, n |-> 0, op |-> "fetch", url |-> None]
NoFailure == [runs |-> 0, permanent |-> FALSE]
Off == [pc |-> "off", req |-> NoRequest]

Idle(n) == [pc |-> "idle", n |-> n, op |-> "fetch", url |-> None, attempt |-> 1]

Init ==
    /\ worker = [w \in Workers |-> Idle(0)]
    /\ sock = [w \in Workers |-> None]
    /\ in = [h \in Handlers |-> << >>]
    /\ out = [h \in Handlers |-> << >>]
    /\ handler = [h \in Handlers |-> Off]
    /\ cached = {}
    /\ ledger = [u \in Urls |-> NoFailure]

-----------------------------------------------------------------------------
(* SecBrokerClient.fetch and stream_to_file                                *)

\* A new request_id: it differs from the one of the call before.
Call(w, op, u) ==
    /\ worker[w].pc = "idle"
    /\ worker' = [worker EXCEPT ![w] = [pc |-> "send", n |-> 1 - @.n, op |-> op, url |-> u,
                                        attempt |-> 1]]
    /\ UNCHANGED <<sock, in, out, handler, store>>

\* _get_socket connects when the thread has no socket; serve starts a thread.
Connect(w, h) ==
    /\ worker[w].pc = "send"
    /\ sock[w] = None
    /\ handler[h] = Off
    /\ \A v \in Workers : sock[v] # h
    /\ sock' = [sock EXCEPT ![w] = h]
    /\ handler' = [handler EXCEPT ![h].pc = "recv"]
    /\ UNCHANGED <<worker, in, out, store>>

Frame(w) == [from |-> w, n |-> worker[w].n, op |-> worker[w].op, url |-> worker[w].url]

\* _exchange writes the request.
SendRequest(w) ==
    /\ worker[w].pc = "send"
    /\ sock[w] # None
    /\ handler[sock[w]].pc # "off"
    /\ in' = [in EXCEPT ![sock[w]] = Append(@, Frame(w))]
    /\ worker' = [worker EXCEPT ![w].pc = "wait"]
    /\ UNCHANGED <<sock, out, handler, store>>

\* _exchange reads the answer, which ends the call whatever it says. Only
\* stream_to_file compares its request_id.
Receive(w) ==
    /\ worker[w].pc = "wait"
    /\ out[sock[w]] # << >>
    /\ out' = [out EXCEPT ![sock[w]] = Tail(@)]
    /\ worker' = [worker EXCEPT ![w] = Idle(@.n)]
    /\ UNCHANGED <<sock, in, handler, store>>

\* Mutant of Reset: the socket is kept for the second attempt.
ResetForgotten(w) == UNCHANGED <<sock, out>>

\* _reset_socket: what is still to be read is dropped.
Reset(w) ==
    /\ out' = [out EXCEPT ![sock[w]] = << >>]
    /\ sock' = [sock EXCEPT ![w] = None]

\* Mutant of GiveUp: attempts are not limited.
GiveUpNever(w) == worker' = [worker EXCEPT ![w].pc = "send", ![w].attempt = @ + 1]

\* A second attempt, or a failed result.
GiveUp(w) ==
    worker' = [worker EXCEPT ![w] =
        IF @.attempt = 1 THEN [@ EXCEPT !.pc = "send", !.attempt = 2]
                         ELSE Idle(@.n)]

\* The connection is gone: the broker closed it when it was idle, or has died.
Broken(w) ==
    /\ worker[w].pc \in {"send", "wait"}
    /\ sock[w] # None
    /\ handler[sock[w]].pc = "off"
    /\ worker[w].pc = "wait" => out[sock[w]] = << >>
    /\ Reset(w)
    /\ GiveUp(w)
    /\ UNCHANGED <<in, handler, store>>

\* No answer within _READ_TIMEOUT_S; the broker's thread goes on.
TimesOut(w) ==
    /\ worker[w].pc = "wait"
    /\ Reset(w)
    /\ GiveUp(w)
    /\ UNCHANGED <<in, handler, store>>

\* connect fails, the broker being away or its backlog full: an attempt is spent
\* without a socket.
ConnectRefused(w) ==
    /\ worker[w].pc = "send"
    /\ sock[w] = None
    /\ GiveUp(w)
    /\ UNCHANGED <<sock, in, out, handler, store>>

-----------------------------------------------------------------------------
(* SecBroker.handle_connection and fetch, SecHttpClient.get_bytes          *)

At(h, label) == handler[h].pc = label
Goto(h, label) == handler' = [handler EXCEPT ![h].pc = label]
Url(h) == handler[h].req.url
Op(h) == handler[h].req.op
Attached(h) == \E w \in Workers : sock[w] = h

\* _recv_frame: the next request, which the worker may have given up meanwhile;
\* or its end is closed, or nothing came for _READ_TIMEOUT_S.
Recv(h) ==
    /\ At(h, "recv")
    /\ in[h] # << >>
    /\ handler' = [handler EXCEPT ![h] =
          [pc |-> IF Head(in[h]).op = "fetch" THEN "peek" ELSE "gate", req |-> Head(in[h])]]
    /\ in' = [in EXCEPT ![h] = Tail(@)]
    /\ UNCHANGED <<client, out, store>>

Hangup(h) ==
    /\ At(h, "recv")
    /\ in[h] = << >>
    /\ handler' = [handler EXCEPT ![h] = Off]
    /\ UNCHANGED <<client, in, out, store>>

\* peek_cache, before the semaphore.
Peek(h) ==
    /\ At(h, "peek")
    /\ Goto(h, IF Url(h) \in cached THEN "reply" ELSE "gate")
    /\ UNCHANGED <<client, in, out, store>>

InSection == {"cache", "preflight", "network", "clear"}
Active == {h \in Handlers : handler[h].pc \in InSection}

\* Mutant of Admitted: the semaphore is left out.
AdmittedAlways == TRUE

Admitted == Cardinality(Active) < MaxConnections

\* with self._semaphore; stream_to_file does not use the cache.
Gate(h) ==
    /\ At(h, "gate")
    /\ Admitted
    /\ Goto(h, IF Op(h) = "fetch" THEN "cache" ELSE "preflight")
    /\ UNCHANGED <<client, in, out, store>>

\* get_bytes looks into the cache again.
Cache(h) ==
    /\ At(h, "cache")
    /\ Goto(h, IF Url(h) \in cached THEN "reply" ELSE "preflight")
    /\ UNCHANGED <<client, in, out, store>>

\* _preflight_skip
Skipped(u) == ledger[u].permanent \/ ledger[u].runs >= MaxFailures

Preflight(h) ==
    /\ At(h, "preflight")
    /\ Goto(h, IF Skipped(Url(h)) THEN "reply" ELSE "network")
    /\ UNCHANGED <<client, in, out, store>>

\* 200: the payload is cached, or streamed into a file.
Succeeds(h) ==
    /\ At(h, "network")
    /\ cached' = IF Op(h) = "stream" THEN cached ELSE cached \cup {Url(h)}
    /\ Goto(h, "clear")
    /\ UNCHANGED <<client, in, out, ledger>>

\* clear_failure, a transaction of its own.
Clear(h) ==
    /\ At(h, "clear")
    /\ ledger' = [ledger EXCEPT ![Url(h)] = NoFailure]
    /\ Goto(h, "reply")
    /\ UNCHANGED <<client, in, out, cached>>

\* Retries exhausted or a permanent failure: record_failure counts the run and
\* overwrites the mark.
Fails(h, permanent) ==
    /\ At(h, "network")
    /\ ledger' = [ledger EXCEPT ![Url(h)] = [runs |-> @.runs + 1, permanent |-> permanent]]
    /\ Goto(h, "reply")
    /\ UNCHANGED <<client, in, out, cached>>

\* The answer is sent, or the worker's end is closed.
Reply(h) ==
    /\ At(h, "reply")
    /\ IF Attached(h)
       THEN /\ out' = [out EXCEPT ![h] = Append(@, handler[h].req)]
            /\ handler' = [handler EXCEPT ![h] = [pc |-> "recv", req |-> NoRequest]]
            /\ UNCHANGED in
       ELSE /\ handler' = [handler EXCEPT ![h] = Off]
            /\ in' = [in EXCEPT ![h] = << >>]
            /\ UNCHANGED out
    /\ UNCHANGED <<client, store>>

-----------------------------------------------------------------------------

\* The time to live of a cached response ends; get no longer finds it.
Expire(u) ==
    /\ u \in cached
    /\ cached' = cached \ {u}
    /\ UNCHANGED <<client, in, out, handler, ledger>>

\* clear_cache with clear_failures
ClearCache ==
    /\ cached' = {}
    /\ ledger' = [u \in Urls |-> NoFailure]
    /\ UNCHANGED <<client, in, out, handler>>

\* The broker process is killed and started again: its threads are gone, the
\* database stays.
BrokerDies ==
    /\ \E h \in Handlers : handler[h] # Off
    /\ handler' = [h \in Handlers |-> Off]
    /\ in' = [h \in Handlers |-> << >>]
    /\ UNCHANGED <<client, out, store>>

WorkerStep(w) ==
    \/ \E h \in Handlers : Connect(w, h)
    \/ ConnectRefused(w) \/ SendRequest(w) \/ Receive(w) \/ Broken(w) \/ TimesOut(w)

HandlerStep(h) ==
    \/ Recv(h) \/ Hangup(h) \/ Peek(h) \/ Gate(h) \/ Cache(h) \/ Preflight(h)
    \/ Succeeds(h) \/ Clear(h) \/ Reply(h)
    \/ \E permanent \in BOOLEAN : Fails(h, permanent)

Next ==
    \/ \E w \in Workers : WorkerStep(w) \/ \E op \in Ops, u \in Urls : Call(w, op, u)
    \/ \E h \in Handlers : HandlerStep(h)
    \/ \E u \in Urls : Expire(u)
    \/ ClearCache
    \/ BrokerDies

Spec == Init /\ [][Next]_vars

-----------------------------------------------------------------------------

\* A worker's call, and a thread of the broker.
CallState == [pc : {"idle", "send", "wait"}, n : {0, 1}, op : Ops, url : Urls \cup {None},
              attempt : {1, 2}]
ThreadState == [pc : {"off", "recv", "peek", "gate", "reply"} \cup InSection,
                req : Requests \cup {NoRequest}]

\* Every variable has its type; a call that waits has a connection.
TypeOK ==
    /\ worker \in [Workers -> CallState]
    /\ sock \in [Workers -> Handlers \cup {None}]
    /\ \A w \in Workers : worker[w].pc = "wait" => sock[w] # None
    /\ in \in [Handlers -> Seq(Requests)]
    /\ out \in [Handlers -> Seq(Requests)]
    /\ handler \in [Handlers -> ThreadState]
    /\ cached \subseteq Urls
    /\ ledger \in [Urls -> [runs : Nat, permanent : BOOLEAN]]

\* An answer that ends a call was given to that call: late answers to a request
\* that timed out never reach a later one, although fetch does not compare
\* request ids.
AnswerIsOurs ==
    [][\A w \in Workers :
          /\ worker[w].pc = "wait" /\ worker'[w].pc = "idle"
          /\ out[sock[w]] # << >> /\ out'[sock[w]] = Tail(out[sock[w]]) /\ sock'[w] = sock[w]
          => Head(out[sock[w]]) = Frame(w)]_vars

\* The failure budget holds under concurrency: workers that retry what the broker
\* is still fetching can push a URL's failed runs past max_failure_attempts by no
\* more than the fetches the semaphore admits at a time.
BudgetHolds == \A u \in Urls : ledger[u].runs <= MaxFailures + MaxConnections - 1
=============================================================================
