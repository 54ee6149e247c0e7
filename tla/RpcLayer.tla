------------------------------ MODULE RpcLayer ------------------------------
(***************************************************************************)
(* RPCClient and RPCServer over torch.distributed: caller threads of rank  *)
(* 0 share one table of pending calls, one worker answers, and a receiver  *)
(* thread matches the answers to the calls.  An object goes out as two     *)
(* tensors, its length and its bytes, sent one after the other.            *)
(***************************************************************************)
EXTENDS Naturals, Sequences, FiniteSets

CONSTANTS
  Callers,       \* threads that use the client
  MaxCalls,      \* bound: calls made in a run
  Environments   \* see EnvironmentType

ASSUME CallersAssumption == IsFiniteSet(Callers) /\ MaxCalls \in Nat

\* The callers that are active, whether they pass a timeout, and what they
\* may ask for besides an operation the worker has.
EnvironmentType == [callers: SUBSET Callers, timeouts: BOOLEAN,
                    ops: SUBSET {"known", "unknown", "shutdown"}]
ASSUME EnvironmentsAssumption == Environments \subseteq EnvironmentType

Ids == 1 .. MaxCalls
Answers == {"ok", "error"}

VARIABLES
  env,      \* the circumstances
  nextId,   \* RPCClient._next_id
  pending,  \* RPCClient._pending: the ids in the table
  running,  \* RPCClient._running
  cpc,      \* where each caller is
  cid,      \* req_id of its call
  cop,      \* the operation it asks for
  given,    \* _PendingCall.response, by id
  result,   \* how each call ended for its caller
  rcv,      \* the receiver thread: "recv", "deliver" or "ended"
  due,      \* the answer it is about to deliver
  requests, \* tensors sent to the worker and not yet received
  answers,  \* answers not yet received
  srv,      \* serve_forever: "recv", "bytes" (the length is there),
            \* "crashed" or "stopped"
  length,   \* the id the length was received for
  answered  \* what the worker answered to each id

client == <<nextId, pending, running, cpc, cid, cop, given, result>>
worker == <<srv, length, answered>>
receiver == <<rcv, due>>
vars == <<env, client, receiver, requests, answers, worker>>

Idle == 0                               \* req_id of a caller between calls
NoAnswer == [id |-> Idle, answer |-> "none"]
CallerStates == {"idle", "send_length", "send_bytes", "wait", "timed_out"}
Down == srv \in {"crashed", "stopped"}

Init ==
  /\ env \in Environments
  /\ nextId = 1 /\ pending = {} /\ running = TRUE
  /\ cpc = [c \in Callers |-> "idle"] /\ cid = [c \in Callers |-> Idle]
  /\ cop = [c \in Callers |-> "known"]
  /\ given = [i \in Ids |-> "none"] /\ result = [i \in Ids |-> "none"]
  /\ rcv = "recv" /\ due = NoAnswer /\ requests = <<>> /\ answers = <<>>
  /\ srv = "recv" /\ length = Idle /\ answered = [i \in Ids |-> "none"]
-----------------------------------------------------------------------------
(* RPCClient.call *)

\* Mutant: the counter is not advanced.
StartCallSameId(c, op) ==
  /\ running /\ c \in env.callers /\ op \in env.ops
  /\ cpc[c] = "idle" /\ nextId <= MaxCalls
  /\ pending' = pending \cup {nextId}
  /\ cid' = [cid EXCEPT ![c] = nextId] /\ cop' = [cop EXCEPT ![c] = op]
  /\ cpc' = [cpc EXCEPT ![c] = "send_length"]
  /\ UNCHANGED <<env, nextId, running, given, result, receiver, requests, answers, worker>>

\* _alloc_id and the entry in the table, each under the lock.  Nobody uses a
\* client after shutdown.
StartCall(c, op) ==
  /\ running /\ c \in env.callers /\ op \in env.ops
  /\ cpc[c] = "idle" /\ nextId <= MaxCalls
  /\ nextId' = nextId + 1
  /\ pending' = pending \cup {nextId}
  /\ cid' = [cid EXCEPT ![c] = nextId] /\ cop' = [cop EXCEPT ![c] = op]
  /\ cpc' = [cpc EXCEPT ![c] = "send_length"]
  /\ UNCHANGED <<env, running, given, result, receiver, requests, answers, worker>>

\* send_obj: two sends without a lock around them.
SendLength(c) ==
  /\ cpc[c] = "send_length"
  /\ requests' = Append(requests, [part |-> "length", id |-> cid[c], op |-> cop[c]])
  /\ cpc' = [cpc EXCEPT ![c] = "send_bytes"]
  /\ UNCHANGED <<env, nextId, pending, running, cid, cop, given, result, receiver, answers, worker>>

SendBytes(c) ==
  /\ cpc[c] = "send_bytes"
  /\ requests' = Append(requests, [part |-> "bytes", id |-> cid[c], op |-> cop[c]])
  /\ cpc' = [cpc EXCEPT ![c] = "wait"]
  /\ UNCHANGED <<env, nextId, pending, running, cid, cop, given, result, receiver, answers, worker>>

\* The call is over for its caller.
EndCall(c, how) ==
  /\ result' = [result EXCEPT ![cid[c]] = how]
  /\ cpc' = [cpc EXCEPT ![c] = "idle"] /\ cid' = [cid EXCEPT ![c] = Idle]

\* A send to a worker that is gone raises.
SendFails(c) ==
  /\ cpc[c] \in {"send_length", "send_bytes"} /\ Down
  /\ pending' = pending \ {cid[c]}
  /\ EndCall(c, "failed")
  /\ UNCHANGED <<env, nextId, running, cop, given, receiver, requests, answers, worker>>

Answered(c) ==
  /\ cpc[c] = "wait" /\ given[cid[c]] # "none"
  /\ EndCall(c, given[cid[c]])
  /\ UNCHANGED <<env, nextId, pending, running, cop, given, receiver, requests, answers, worker>>

\* The wait runs out; the response was None when it was read.
WaitExpires(c) ==
  /\ env.timeouts
  /\ cpc[c] = "wait" /\ given[cid[c]] = "none"
  /\ cpc' = [cpc EXCEPT ![c] = "timed_out"]
  /\ UNCHANGED <<env, nextId, pending, running, cid, cop, given, result, receiver, requests, answers, worker>>

\* Mutant: the entry stays in the table.
GiveUpLeak(c) ==
  /\ cpc[c] = "timed_out"
  /\ EndCall(c, "timeout")
  /\ UNCHANGED <<env, nextId, pending, running, cop, given, receiver, requests, answers, worker>>

\* pop, which finds nothing when the receiver has just taken the entry out.
GiveUp(c) ==
  /\ cpc[c] = "timed_out"
  /\ pending' = pending \ {cid[c]}
  /\ EndCall(c, "timeout")
  /\ UNCHANGED <<env, nextId, running, cop, given, receiver, requests, answers, worker>>

\* RPCClient.shutdown, once nobody uses the client any more.
Shutdown ==
  /\ running /\ \A c \in Callers : cpc[c] = "idle"
  /\ running' = FALSE
  /\ UNCHANGED <<env, nextId, pending, cpc, cid, cop, given, result, receiver, requests, answers, worker>>
-----------------------------------------------------------------------------
(* _recv_loop and _deliver_response *)

\* The entry leaves the table under the lock; an answer nobody waits for is
\* dropped.  The loop looks at _running before it receives again.
ReceiveAnswer ==
  /\ rcv = "recv" /\ answers # <<>>
  /\ answers' = Tail(answers)
  /\ pending' = pending \ {Head(answers).id}
  /\ IF Head(answers).id \in pending
     THEN rcv' = "deliver" /\ due' = Head(answers)
     ELSE rcv' = (IF running THEN "recv" ELSE "ended") /\ UNCHANGED due
  /\ UNCHANGED <<env, nextId, running, cpc, cid, cop, given, result, requests, worker>>

\* Mutant: the answer goes to the call that was started last.
DeliverToLatest ==
  /\ rcv = "deliver"
  /\ given' = [given EXCEPT ![nextId - 1] = due.answer]
  /\ rcv' = (IF running THEN "recv" ELSE "ended") /\ due' = NoAnswer
  /\ UNCHANGED <<env, nextId, pending, running, cpc, cid, cop, result, requests, answers, worker>>

\* pending.set, after the lock was released.
Deliver ==
  /\ rcv = "deliver"
  /\ given' = [given EXCEPT ![due.id] = due.answer]
  /\ rcv' = (IF running THEN "recv" ELSE "ended") /\ due' = NoAnswer
  /\ UNCHANGED <<env, nextId, pending, running, cpc, cid, cop, result, requests, answers, worker>>
-----------------------------------------------------------------------------
(* RPCServer.serve_forever *)

RecvLength ==
  /\ srv = "recv" /\ requests # <<>>
  /\ requests' = Tail(requests)
  /\ IF Head(requests).part = "length"
     THEN srv' = "bytes" /\ length' = Head(requests).id
     ELSE srv' = "crashed" /\ UNCHANGED length
  /\ UNCHANGED <<env, client, receiver, answers, answered>>

Answer(id, a) ==
  /\ answers' = Append(answers, [id |-> id, answer |-> a])
  /\ answered' = [answered EXCEPT ![id] = a]

\* Mutant: an unknown operation is skipped without an answer.
HandleSilent ==
  /\ srv = "bytes" /\ requests # <<>>
  /\ requests' = Tail(requests)
  /\ LET m == Head(requests) IN
     \/ /\ m.part # "bytes" \/ m.id # length
        /\ srv' = "crashed" /\ UNCHANGED <<answers, answered>>
     \/ /\ m.part = "bytes" /\ m.id = length /\ m.op = "shutdown"
        /\ Answer(m.id, "ok") /\ srv' = "stopped"
     \/ /\ m.part = "bytes" /\ m.id = length /\ m.op = "unknown"
        /\ srv' = "recv" /\ UNCHANGED <<answers, answered>>
     \/ /\ m.part = "bytes" /\ m.id = length /\ m.op = "known"
        /\ \E a \in Answers : Answer(m.id, a)
        /\ srv' = "recv"
  /\ UNCHANGED <<env, client, receiver, length>>

\* The bytes and the handler.  Bytes of another size than announced raise in
\* recv; then _check_alive, which calls a function that does not exist, finds
\* the caller dead, and the loop ends.
Handle ==
  /\ srv = "bytes" /\ requests # <<>>
  /\ requests' = Tail(requests)
  /\ LET m == Head(requests) IN
     \/ /\ m.part # "bytes" \/ m.id # length
        /\ srv' = "crashed" /\ UNCHANGED <<answers, answered>>
     \/ /\ m.part = "bytes" /\ m.id = length /\ m.op = "shutdown"
        /\ Answer(m.id, "ok") /\ srv' = "stopped"
     \/ /\ m.part = "bytes" /\ m.id = length /\ m.op # "shutdown"
        /\ \E a \in Answers : (m.op = "unknown" => a = "error") /\ Answer(m.id, a)
        /\ srv' = "recv"
  /\ UNCHANGED <<env, client, receiver, length>>
-----------------------------------------------------------------------------
CallerStep(c) == SendLength(c) \/ SendBytes(c) \/ SendFails(c) \/ Answered(c)
                 \/ WaitExpires(c) \/ GiveUp(c)
Receiver == ReceiveAnswer \/ Deliver
Worker == RecvLength \/ Handle

Next == \/ \E c \in Callers, op \in {"known", "unknown", "shutdown"} : StartCall(c, op)
        \/ \E c \in Callers : CallerStep(c)
        \/ Shutdown \/ Receiver \/ Worker

Spec == Init /\ [][Next]_vars

\* The threads keep running.
FairSpec == Spec /\ (\A c \in Callers : WF_vars(CallerStep(c)))
                 /\ WF_vars(Receiver) /\ WF_vars(Worker)
-----------------------------------------------------------------------------
\* Types, and the ids in use: each caller has one of its own.
TypeOK ==
  /\ env \in Environments
  /\ nextId \in 1 .. MaxCalls + 1
  /\ pending \subseteq Ids /\ running \in BOOLEAN
  /\ cpc \in [Callers -> CallerStates] /\ cid \in [Callers -> Ids \cup {Idle}]
  /\ cop \in [Callers -> {"known", "unknown", "shutdown"}]
  /\ \A c \in Callers : (cpc[c] = "idle") <=> (cid[c] = Idle)
  /\ \A c, d \in Callers : cid[c] = cid[d] /\ cid[c] # Idle => c = d
  /\ given \in [Ids -> Answers \cup {"none"}]
  /\ result \in [Ids -> Answers \cup {"none", "timeout", "failed"}]
  /\ rcv \in {"recv", "deliver", "ended"}
  /\ due \in [id: Ids, answer: Answers] \cup {NoAnswer}
  /\ rcv = "deliver" => due # NoAnswer
  /\ requests \in Seq([part: {"length", "bytes"}, id: Ids,
                       op: {"known", "unknown", "shutdown"}])
  /\ answers \in Seq([id: Ids, answer: Answers])
  /\ srv \in {"recv", "bytes", "crashed", "stopped"} /\ length \in Ids \cup {Idle}
  /\ answered \in [Ids -> Answers \cup {"none"}]

\* A caller is only ever given the worker's answer to its own request,
\* however calls, timeouts and late answers interleave, and also when two
\* callers have torn each other's messages apart.
OwnAnswer == \A i \in Ids : result[i] \in Answers => result[i] = answered[i]

\* The table holds no entry of a call that is over: answers that come late
\* or never cost nothing.
NoPendingLeak == \A i \in pending : \E c \in Callers : cid[c] = i

\* Every call ends: with a timeout always, without one as long as nobody
\* stops the worker and the messages of two callers are not torn apart.
EveryCallEnds ==
  \A c \in Callers :
    cpc[c] # "idle" /\ (env.timeouts \/ (Cardinality(env.callers) = 1 /\ "shutdown" \notin env.ops))
      ~> cpc[c] = "idle"
=============================================================================
