--------------------------- MODULE RpcLayer_proof ---------------------------
(***************************************************************************)
(* For any number of callers and calls: a caller gets the worker's answer  *)
(* to its own request and the table of pending calls is kept clean.        *)
(*                                                                         *)
(* An answer is recorded once for an id, because its bytes are sent once   *)
(* and a worker that finds other bytes than announced stops: that makes    *)
(* every answer under way, being delivered or delivered the one the worker *)
(* gave to that id.                                                        *)
(***************************************************************************)
EXTENDS RpcLayer, TLAPS

Places == 1 .. Len(requests)

\* Nothing was sent or answered under this id.
Fresh(i) ==
  /\ answered[i] = "none"
  /\ \A k \in Places : requests[k].part = "bytes" => requests[k].id # i

\* An id is used by one caller, once.
IdsInv ==
  /\ \A c \in Callers : cid[c] < nextId
  /\ \A i \in Ids : i >= nextId => Fresh(i)
  /\ \A c \in Callers : cpc[c] \in {"send_length", "send_bytes"} => Fresh(cid[c])

\* The bytes of an id are in the channel at most once, and only unanswered.
RequestsInv ==
  /\ \A k \in Places : requests[k].part = "bytes" => answered[requests[k].id] = "none"
  /\ \A j, k \in Places :
       requests[j].part = "bytes" /\ requests[k].part = "bytes"
         /\ requests[j].id = requests[k].id => j = k

\* Every answer is the worker's answer to its id.
AnswersInv ==
  /\ \A k \in 1 .. Len(answers) : answers[k].answer = answered[answers[k].id]
  /\ rcv = "deliver" => due.answer = answered[due.id]
  /\ \A i \in Ids : given[i] # "none" => given[i] = answered[i]
  /\ OwnAnswer

\* A call whose answer was taken has left the table.
TableInv ==
  /\ NoPendingLeak
  /\ \A i \in pending : given[i] = "none" /\ (rcv = "deliver" => due.id # i)

Inv == TypeOK /\ IdsInv /\ RequestsInv /\ AnswersInv /\ TableInv

\* What is left of a channel when its first element is taken.
LEMMA TailOf ==
  ASSUME NEW S, NEW s \in Seq(S), s # <<>>
  PROVE  /\ 1 \in 1 .. Len(s) /\ Head(s) = s[1] /\ Head(s) \in S
         /\ Tail(s) \in Seq(S)
         /\ \A k \in 1 .. Len(Tail(s)) : k + 1 \in 1 .. Len(s) /\ Tail(s)[k] = s[k + 1]
OBVIOUS

LEMMA ElementOf ==
  ASSUME NEW S, NEW s \in Seq(S)
  PROVE  \A k \in 1 .. Len(s) : s[k] \in S
OBVIOUS

LEMMA AppendTo ==
  ASSUME NEW S, NEW s \in Seq(S), NEW x \in S
  PROVE  /\ Append(s, x) \in Seq(S)
         /\ Len(Append(s, x)) = Len(s) + 1 /\ Len(s) \in Nat
         /\ Append(s, x)[Len(s) + 1] = x
         /\ \A k \in 1 .. Len(s) : Append(s, x)[k] = s[k] /\ s[k] \in S
OBVIOUS

LEMMA RpcInit == Init => Inv
<1> SUFFICES ASSUME Init PROVE Inv
  OBVIOUS
<1>1. TypeOK
  BY CallersAssumption DEF Init, TypeOK, Ids, Idle, CallerStates, NoAnswer
<1>2. IdsInv /\ RequestsInv
  BY DEF Init, IdsInv, RequestsInv, Fresh, Places, Ids, Idle
<1>3. AnswersInv /\ TableInv
  BY DEF Init, AnswersInv, TableInv, OwnAnswer, NoPendingLeak, Answers, Ids
<1>4. QED
  BY <1>1, <1>2, <1>3 DEF Inv
-----------------------------------------------------------------------------
(* The callers. *)

LEMMA StartCallStep ==
  ASSUME Inv, NEW c \in Callers, NEW op \in {"known", "unknown", "shutdown"}, StartCall(c, op)
  PROVE  Inv'
<1> USE CallersAssumption DEF Inv
<1>1. /\ nextId \in Ids /\ nextId' = nextId + 1 /\ cpc[c] = "idle" /\ cid[c] = Idle
      /\ pending' = pending \cup {nextId}
      /\ cid' = [cid EXCEPT ![c] = nextId] /\ cop' = [cop EXCEPT ![c] = op]
      /\ cpc' = [cpc EXCEPT ![c] = "send_length"]
      /\ UNCHANGED <<env, running, given, result, rcv, due, requests, answers, srv, length, answered>>
  BY DEF StartCall, TypeOK, Ids, receiver, worker
<1>2. TypeOK'
  BY <1>1 DEF TypeOK, IdsInv, Ids, Idle, CallerStates
<1>3. IdsInv'
  BY <1>1 DEF TypeOK, IdsInv, Ids, Idle, Fresh, Places, CallerStates
<1>4. RequestsInv' /\ AnswersInv'
  BY <1>1 DEF RequestsInv, AnswersInv, OwnAnswer, Places
<1>5. NoPendingLeak'
  BY <1>1 DEF TableInv, NoPendingLeak, TypeOK, Ids, Idle
<1>6. given[nextId] = "none" /\ (rcv = "deliver" => due.id # nextId)
  BY <1>1 DEF TypeOK, IdsInv, AnswersInv, Fresh, Answers, NoAnswer, Ids
<1>7. TableInv'
  BY <1>1, <1>5, <1>6 DEF TableInv
<1>8. QED
  BY <1>2, <1>3, <1>4, <1>7

\* Sending one tensor: the length changes nothing but the channel, the bytes
\* use the id up.
LEMMA SendLengthStep ==
  ASSUME Inv, NEW c \in Callers, SendLength(c)
  PROVE  Inv'
<1> USE DEF Inv
<1> DEFINE m == [part |-> "length", id |-> cid[c], op |-> cop[c]]
<1>1. /\ cpc[c] = "send_length" /\ cid[c] \in Ids
      /\ requests' = Append(requests, m)
      /\ cpc' = [cpc EXCEPT ![c] = "send_bytes"]
      /\ UNCHANGED <<env, nextId, pending, running, cid, cop, given, result, rcv, due, answers, srv, length, answered>>
  BY DEF SendLength, TypeOK, receiver, worker
<1>2. TypeOK'
  BY <1>1 DEF TypeOK, CallerStates
<1>3. /\ Len(requests') = Len(requests) + 1 /\ Len(requests) \in Nat
      /\ requests'[Len(requests) + 1].part # "bytes"
      /\ \A k \in Places : requests'[k] = requests[k]
  BY <1>1 DEF TypeOK, Places
<1>4. \A i : Fresh(i) => Fresh(i)'
  BY <1>1, <1>3 DEF Fresh, Places
<1>5. IdsInv'
  BY <1>1, <1>4 DEF IdsInv, TypeOK, CallerStates
<1>6. RequestsInv'
  BY <1>1, <1>3 DEF RequestsInv, Places
<1>7. AnswersInv' /\ TableInv'
  BY <1>1 DEF AnswersInv, OwnAnswer, TableInv, NoPendingLeak
<1>8. QED
  BY <1>2, <1>5, <1>6, <1>7

LEMMA SendBytesStep ==
  ASSUME Inv, NEW c \in Callers, SendBytes(c)
  PROVE  Inv'
<1> USE DEF Inv
<1> DEFINE m == [part |-> "bytes", id |-> cid[c], op |-> cop[c]]
<1>1. /\ cpc[c] = "send_bytes" /\ cid[c] \in Ids
      /\ requests' = Append(requests, m)
      /\ cpc' = [cpc EXCEPT ![c] = "wait"]
      /\ UNCHANGED <<env, nextId, pending, running, cid, cop, given, result, rcv, due, answers, srv, length, answered>>
  BY DEF SendBytes, TypeOK, receiver, worker
<1>2. TypeOK'
  BY <1>1 DEF TypeOK, CallerStates
<1>3. /\ Len(requests') = Len(requests) + 1 /\ Len(requests) \in Nat
      /\ requests'[Len(requests) + 1] = m
      /\ \A k \in Places : requests'[k] = requests[k]
  BY <1>1 DEF TypeOK, Places
<1>4. Fresh(cid[c])
  BY <1>1 DEF IdsInv
<1>5. \A i : Fresh(i) /\ i # cid[c] => Fresh(i)'
  BY <1>1, <1>3 DEF Fresh, Places
<1>6. IdsInv'
  <2>1. \A d \in Callers : d # c /\ cid[d] # Idle => cid[d] # cid[c]
    BY <1>1 DEF TypeOK
  <2>2. \A d \in Callers : cpc[d] \in {"send_length", "send_bytes"} => cid[d] # Idle
    BY DEF TypeOK
  <2>3. \A i \in Ids : i >= nextId => i # cid[c]
    BY <1>1 DEF IdsInv, TypeOK, Ids
  <2>4. QED
    BY <1>1, <1>5, <2>1, <2>2, <2>3 DEF IdsInv, TypeOK, CallerStates
<1>7. RequestsInv'
  BY <1>1, <1>3, <1>4 DEF RequestsInv, Places, Fresh
<1>8. AnswersInv' /\ TableInv'
  BY <1>1 DEF AnswersInv, OwnAnswer, TableInv, NoPendingLeak
<1>9. QED
  BY <1>2, <1>6, <1>7, <1>8

\* A call ends: with a failure or a timeout, or with what was delivered.  Its
\* entry is not, or no longer, in the table.
LEMMA EndCallStep ==
  ASSUME Inv, NEW c \in Callers, cpc[c] # "idle",
         NEW how \in Answers \cup {"timeout", "failed"},
         how \in Answers => how = answered[cid[c]],
         pending' \subseteq pending, cid[c] \notin pending',
         EndCall(c, how),
         UNCHANGED <<env, nextId, running, cop, given, rcv, due, requests, answers, srv, length, answered>>
  PROVE  Inv'
<1> USE DEF Inv
<1>1. /\ result' = [result EXCEPT ![cid[c]] = how]
      /\ cpc' = [cpc EXCEPT ![c] = "idle"] /\ cid' = [cid EXCEPT ![c] = Idle]
      /\ cid[c] \in Ids
  BY DEF EndCall, TypeOK
<1>2. TypeOK'
  BY <1>1 DEF TypeOK, CallerStates, Idle, Ids
<1>3. IdsInv' /\ RequestsInv'
  BY <1>1 DEF IdsInv, RequestsInv, Fresh, Places, TypeOK, Idle, Ids
<1>4. AnswersInv'
  BY <1>1 DEF AnswersInv, OwnAnswer, TypeOK
<1>5. NoPendingLeak'
  BY <1>1 DEF TableInv, NoPendingLeak, TypeOK
<1>6. TableInv'
  BY <1>1, <1>5 DEF TableInv
<1>7. QED
  BY <1>2, <1>3, <1>4, <1>6

LEMMA CallerInv ==
  ASSUME Inv, NEW c \in Callers, CallerStep(c)
  PROVE  Inv'
<1>1. CASE SendLength(c)
  BY <1>1, SendLengthStep
<1>2. CASE SendBytes(c)
  BY <1>2, SendBytesStep
<1>3. CASE SendFails(c)
  <2>1. cpc[c] # "idle" /\ EndCall(c, "failed") /\ pending' = pending \ {cid[c]}
    BY <1>3 DEF SendFails
  <2>2. "failed" \in Answers \cup {"timeout", "failed"} /\ "failed" \notin Answers
    BY DEF Answers
  <2>3. UNCHANGED <<env, nextId, running, cop, given, rcv, due, requests, answers, srv, length, answered>>
    BY <1>3 DEF SendFails, receiver, worker
  <2>4. QED
    BY <2>1, <2>2, <2>3, EndCallStep
<1>4. CASE Answered(c)
  <2>1. cpc[c] # "idle" /\ EndCall(c, given[cid[c]]) /\ pending' = pending
    BY <1>4 DEF Answered
  <2>2. cid[c] \in Ids /\ given[cid[c]] \in Answers
    BY <1>4 DEF Answered, Inv, TypeOK
  <2>3. given[cid[c]] = answered[cid[c]] /\ cid[c] \notin pending
    BY <2>2 DEF Inv, AnswersInv, TableInv, Answers
  <2>4. UNCHANGED <<env, nextId, running, cop, given, rcv, due, requests, answers, srv, length, answered>>
    BY <1>4 DEF Answered, receiver, worker
  <2>5. QED
    BY <2>1, <2>2, <2>3, <2>4, EndCallStep
<1>5. CASE WaitExpires(c)
  <2>1. /\ cpc[c] = "wait" /\ cpc' = [cpc EXCEPT ![c] = "timed_out"]
        /\ UNCHANGED <<env, nextId, pending, running, cid, cop, given, result, rcv, due, requests, answers, srv, length, answered>>
    BY <1>5 DEF WaitExpires, receiver, worker
  <2>2. TypeOK'
    BY <2>1 DEF Inv, TypeOK, CallerStates
  <2>3. IdsInv' /\ RequestsInv'
    BY <2>1 DEF Inv, IdsInv, RequestsInv, Fresh, Places, TypeOK
  <2>4. AnswersInv' /\ TableInv'
    BY <2>1 DEF Inv, AnswersInv, OwnAnswer, TableInv, NoPendingLeak
  <2>5. QED
    BY <2>2, <2>3, <2>4 DEF Inv
<1>6. CASE GiveUp(c)
  <2>1. cpc[c] # "idle" /\ EndCall(c, "timeout") /\ pending' = pending \ {cid[c]}
    BY <1>6 DEF GiveUp
  <2>2. "timeout" \in Answers \cup {"timeout", "failed"} /\ "timeout" \notin Answers
    BY DEF Answers
  <2>3. UNCHANGED <<env, nextId, running, cop, given, rcv, due, requests, answers, srv, length, answered>>
    BY <1>6 DEF GiveUp, receiver, worker
  <2>4. QED
    BY <2>1, <2>2, <2>3, EndCallStep
<1>7. QED
  BY <1>1, <1>2, <1>3, <1>4, <1>5, <1>6 DEF CallerStep
-----------------------------------------------------------------------------
(* The receiver. *)

LEMMA ShutdownStep ==
  ASSUME Inv, Shutdown
  PROVE  Inv'
<1> USE DEF Inv, Shutdown, receiver, worker
<1>1. TypeOK'
  BY DEF TypeOK
<1>2. IdsInv' /\ RequestsInv' /\ AnswersInv' /\ TableInv'
  BY DEF IdsInv, RequestsInv, Fresh, Places, AnswersInv, OwnAnswer, TableInv, NoPendingLeak
<1>3. QED
  BY <1>1, <1>2

LEMMA ReceiveAnswerStep ==
  ASSUME Inv, ReceiveAnswer
  PROVE  Inv'
<1> USE DEF Inv
<1> DEFINE a == Head(answers)
<1>1. /\ rcv = "recv" /\ answers # <<>> /\ answers' = Tail(answers)
      /\ pending' = pending \ {a.id}
      /\ UNCHANGED <<env, nextId, running, cpc, cid, cop, given, result, requests, srv, length, answered>>
  BY DEF ReceiveAnswer, worker
<1>2. /\ a = answers[1] /\ 1 \in 1 .. Len(answers)
      /\ a \in [id: Ids, answer: Answers]
      /\ answers' \in Seq([id: Ids, answer: Answers])
      /\ \A k \in 1 .. Len(answers') : k + 1 \in 1 .. Len(answers) /\ answers'[k] = answers[k + 1]
  <2>1. answers \in Seq([id: Ids, answer: Answers])
    BY DEF TypeOK
  <2>2. QED
    BY <1>1, <2>1, TailOf
<1>3. \/ rcv' = "deliver" /\ due' = a
      \/ rcv' \in {"recv", "ended"} /\ due' = due
  BY DEF ReceiveAnswer
<1> HIDE DEF a
<1>4. TypeOK'
  <2>1. a # NoAnswer
    BY <1>2 DEF NoAnswer, Ids, Idle
  <2>2. /\ rcv' \in {"recv", "deliver", "ended"} /\ (rcv' = "deliver" => due' # NoAnswer)
        /\ due' \in [id: Ids, answer: Answers] \cup {NoAnswer}
    BY <1>2, <1>3, <2>1 DEF TypeOK
  <2>3. QED
    BY <1>1, <1>2, <2>2 DEF TypeOK
<1>5. IdsInv' /\ RequestsInv'
  BY <1>1 DEF IdsInv, RequestsInv, Fresh, Places
<1>6. AnswersInv'
  BY <1>1, <1>2, <1>3 DEF AnswersInv, OwnAnswer
<1>7. TableInv'
  BY <1>1, <1>3 DEF TableInv, NoPendingLeak
<1>8. QED
  BY <1>4, <1>5, <1>6, <1>7

LEMMA DeliverStep ==
  ASSUME Inv, Deliver
  PROVE  Inv'
<1> USE DEF Inv
<1>1. /\ rcv = "deliver" /\ rcv' \in {"recv", "ended"} /\ due' = NoAnswer
      /\ given' = [given EXCEPT ![due.id] = due.answer]
      /\ UNCHANGED <<env, nextId, pending, running, cpc, cid, cop, result, requests, answers, srv, length, answered>>
  BY DEF Deliver, worker
<1>2. due.id \in Ids /\ due.answer \in Answers
  BY <1>1 DEF TypeOK
<1>3. TypeOK'
  BY <1>1, <1>2 DEF TypeOK
<1>4. IdsInv' /\ RequestsInv'
  BY <1>1 DEF IdsInv, RequestsInv, Fresh, Places
<1>5. AnswersInv'
  BY <1>1, <1>2 DEF AnswersInv, OwnAnswer, TypeOK
<1>6. TableInv'
  BY <1>1, <1>2 DEF TableInv, NoPendingLeak, TypeOK
<1>7. QED
  BY <1>3, <1>4, <1>5, <1>6
-----------------------------------------------------------------------------
(* The worker. *)

\* Taking a tensor out of the channel keeps what is said of the channel.
LEMMA TakeRequest ==
  ASSUME Inv, requests # <<>>, requests' = Tail(requests)
  PROVE  /\ 1 \in Places /\ Head(requests) = requests[1]
         /\ Head(requests) \in [part: {"length", "bytes"}, id: Ids,
                                op: {"known", "unknown", "shutdown"}]
         /\ requests' \in Seq([part: {"length", "bytes"}, id: Ids,
                               op: {"known", "unknown", "shutdown"}])
         /\ \A k \in Places' : k + 1 \in Places /\ requests'[k] = requests[k + 1]
<1>1. requests \in Seq([part: {"length", "bytes"}, id: Ids,
                        op: {"known", "unknown", "shutdown"}])
  BY DEF Inv, TypeOK
<1>2. QED
  BY <1>1, TailOf DEF Places

LEMMA RecvLengthStep ==
  ASSUME Inv, RecvLength
  PROVE  Inv'
<1> USE DEF Inv
<1>1. /\ requests # <<>> /\ requests' = Tail(requests)
      /\ srv' \in {"bytes", "crashed"} /\ length' \in {Head(requests).id, length}
      /\ UNCHANGED <<env, nextId, pending, running, cpc, cid, cop, given, result, rcv, due, answers, answered>>
  BY DEF RecvLength, client, receiver
<1>2. /\ Head(requests) \in [part: {"length", "bytes"}, id: Ids,
                             op: {"known", "unknown", "shutdown"}]
      /\ requests' \in Seq([part: {"length", "bytes"}, id: Ids,
                            op: {"known", "unknown", "shutdown"}])
      /\ \A k \in Places' : k + 1 \in Places /\ requests'[k] = requests[k + 1]
  BY <1>1, TakeRequest
<1>3. TypeOK'
  BY <1>1, <1>2 DEF TypeOK
<1>4. \A i : Fresh(i) => Fresh(i)'
  BY <1>1, <1>2 DEF Fresh
<1>5. IdsInv'
  BY <1>1, <1>4 DEF IdsInv
<1>6. RequestsInv'
  BY <1>1, <1>2 DEF RequestsInv, Places
<1>7. AnswersInv' /\ TableInv'
  BY <1>1 DEF AnswersInv, OwnAnswer, TableInv, NoPendingLeak
<1>8. QED
  BY <1>3, <1>5, <1>6, <1>7

LEMMA HandleStep ==
  ASSUME Inv, Handle
  PROVE  Inv'
<1> USE DEF Inv
<1> DEFINE m == Head(requests)
<1>1. /\ requests # <<>> /\ requests' = Tail(requests)
      /\ srv' \in {"recv", "crashed", "stopped"}
      /\ UNCHANGED <<env, nextId, pending, running, cpc, cid, cop, given, result, rcv, due, length>>
  BY DEF Handle, client, receiver
<1>2. /\ 1 \in Places /\ m = requests[1]
      /\ m \in [part: {"length", "bytes"}, id: Ids, op: {"known", "unknown", "shutdown"}]
      /\ requests' \in Seq([part: {"length", "bytes"}, id: Ids,
                            op: {"known", "unknown", "shutdown"}])
      /\ \A k \in Places' : k + 1 \in Places /\ requests'[k] = requests[k + 1]
  BY <1>1, TakeRequest
<1>3. \/ UNCHANGED <<answers, answered>>
      \/ \E a \in Answers : m.part = "bytes" /\ Answer(m.id, a)
  BY DEF Handle, Answers
<1> HIDE DEF m
<1>4. CASE UNCHANGED <<answers, answered>>
  <2>1. TypeOK'
    BY <1>1, <1>2, <1>4 DEF TypeOK
  <2>2. \A i : Fresh(i) => Fresh(i)'
    BY <1>2, <1>4 DEF Fresh
  <2>3. IdsInv'
    BY <1>1, <2>2 DEF IdsInv
  <2>4. RequestsInv'
    <3>1. \A j, k \in Places' : j + 1 = k + 1 => j = k
      BY DEF Places
    <3>2. QED
      BY <1>2, <1>4, <3>1 DEF RequestsInv
  <2>5. AnswersInv' /\ TableInv'
    BY <1>1, <1>4 DEF AnswersInv, OwnAnswer, TableInv, NoPendingLeak
  <2>6. QED
    BY <2>1, <2>3, <2>4, <2>5
<1>5. ASSUME NEW a \in Answers, m.part = "bytes", Answer(m.id, a)
      PROVE  Inv'
  <2>1. /\ answers' = Append(answers, [id |-> m.id, answer |-> a])
        /\ answered' = [answered EXCEPT ![m.id] = a]
    BY <1>5 DEF Answer
  <2>2. TypeOK'
    BY <1>1, <1>2, <2>1 DEF TypeOK
  <2>3. answered[m.id] = "none" /\ m.id \in Ids
    BY <1>2, <1>5 DEF RequestsInv
  <2>4. \A i \in Ids : i # m.id => answered'[i] = answered[i]
    BY <2>1 DEF TypeOK
  <2>5. \A i : Fresh(i) => i # m.id
    BY <1>2, <1>5 DEF Fresh
  <2>6. \A i \in Ids : Fresh(i) => Fresh(i)'
    BY <1>2, <2>4, <2>5 DEF Fresh
  <2>7. IdsInv'
    <3>1. \A c \in Callers : cpc[c] \in {"send_length", "send_bytes"} => cid[c] \in Ids
      BY DEF TypeOK
    <3>2. QED
      BY <1>1, <2>6, <3>1 DEF IdsInv
  <2>8. RequestsInv'
    <3>1. \A j, k \in Places' : /\ j + 1 = k + 1 => j = k
                                /\ k + 1 # 1
      BY DEF Places
    <3>2. \A k \in Places' : requests'[k].id \in Ids
      <4> DEFINE R == [part: {"length", "bytes"}, id: Ids, op: {"known", "unknown", "shutdown"}]
      <4>1. requests' \in Seq(R)
        BY <1>2
      <4>2. \A x \in R : x.id \in Ids
        OBVIOUS
      <4> HIDE DEF R
      <4>3. \A k \in Places' : requests'[k] \in R
        BY <4>1, ElementOf DEF Places
      <4>4. QED
        BY <4>2, <4>3
    <3>3. \A k \in Places' : requests'[k].part = "bytes" => requests'[k].id # m.id
      BY <1>2, <1>5, <3>1 DEF RequestsInv
    <3>4. \A k \in Places' : requests'[k].part = "bytes" => answered'[requests'[k].id] = "none"
      BY <1>2, <2>4, <3>2, <3>3 DEF RequestsInv
    <3>5. QED
      BY <1>2, <3>1, <3>4 DEF RequestsInv
  <2>9. /\ Len(answers') = Len(answers) + 1 /\ Len(answers) \in Nat
        /\ answers'[Len(answers) + 1] = [id |-> m.id, answer |-> a]
        /\ \A k \in 1 .. Len(answers) : answers'[k] = answers[k] /\ answers[k].id \in Ids
                                         /\ answers[k].answer \in Answers
    <3> DEFINE A == [id: Ids, answer: Answers]
               r == [id |-> m.id, answer |-> a]
    <3>1. answers \in Seq(A) /\ r \in A /\ answers' = Append(answers, r)
      BY <2>1, <2>3 DEF TypeOK
    <3>2. \A x \in A : x.id \in Ids /\ x.answer \in Answers
      OBVIOUS
    <3> HIDE DEF A, r
    <3>3. /\ Len(answers') = Len(answers) + 1 /\ Len(answers) \in Nat
          /\ answers'[Len(answers) + 1] = r
          /\ \A k \in 1 .. Len(answers) : answers'[k] = answers[k] /\ answers[k] \in A
      BY <3>1, AppendTo
    <3>4. QED
      BY <3>2, <3>3 DEF r
  <2>10. "none" \notin Answers /\ answered'[m.id] = a
    BY <2>1, <2>3 DEF Answers, TypeOK
  <2>11. AnswersInv'
    <3>1. \A k \in 1 .. Len(answers') : answers'[k].answer = answered'[answers'[k].id]
      BY <2>3, <2>4, <2>9, <2>10 DEF AnswersInv
    <3>2. rcv = "deliver" => due.answer = answered'[due.id]
      BY <2>3, <2>4, <2>10 DEF AnswersInv, TypeOK
    <3>3. \A i \in Ids : given[i] # "none" => given[i] = answered'[i]
      BY <2>3, <2>4 DEF AnswersInv
    <3>4. OwnAnswer'
      BY <1>1, <2>3, <2>4, <2>10 DEF AnswersInv, OwnAnswer
    <3>5. QED
      BY <1>1, <3>1, <3>2, <3>3, <3>4 DEF AnswersInv
  <2>12. TableInv'
    BY <1>1 DEF TableInv, NoPendingLeak
  <2>13. QED
    BY <2>2, <2>7, <2>8, <2>11, <2>12
<1>6. QED
  BY <1>3, <1>4, <1>5
-----------------------------------------------------------------------------
LEMMA RpcStep == Inv /\ [Next]_vars => Inv'
<1> SUFFICES ASSUME Inv, [Next]_vars PROVE Inv'
  OBVIOUS
<1>1. CASE UNCHANGED vars
  <2>1. UNCHANGED <<env, nextId, pending, running, cpc, cid, cop, given, result, rcv, due, requests, answers, srv, length, answered>>
    BY <1>1 DEF vars, client, receiver, worker
  <2>2. TypeOK' /\ IdsInv' /\ RequestsInv'
    BY <2>1 DEF Inv, TypeOK, IdsInv, RequestsInv, Fresh, Places
  <2>3. AnswersInv' /\ TableInv'
    BY <2>1 DEF Inv, AnswersInv, OwnAnswer, TableInv, NoPendingLeak
  <2>4. QED
    BY <2>2, <2>3 DEF Inv
<1>2. ASSUME NEW c \in Callers, NEW op \in {"known", "unknown", "shutdown"}, StartCall(c, op)
      PROVE  Inv'
  BY <1>2, StartCallStep
<1>3. ASSUME NEW c \in Callers, CallerStep(c) PROVE Inv'
  BY <1>3, CallerInv
<1>4. CASE Shutdown \/ Receiver
  BY <1>4, ShutdownStep, ReceiveAnswerStep, DeliverStep DEF Receiver
<1>5. CASE Worker
  BY <1>5, RecvLengthStep, HandleStep DEF Worker
<1>6. QED
  BY <1>1, <1>2, <1>3, <1>4, <1>5 DEF Next

LEMMA RpcInv == Spec => []Inv
BY RpcInit, RpcStep, PTL DEF Spec

\* Ids, tables and channels are well typed, and no two callers share an id.
THEOREM RpcType == Spec => []TypeOK
<1>1. Inv => TypeOK
  BY DEF Inv
<1>2. QED
  BY RpcInv, <1>1, PTL

\* The answer a caller is given is the worker's answer to its own request,
\* for any number of callers that time out, give up and tear messages apart.
THEOREM EachItsOwnAnswer == Spec => []OwnAnswer
<1>1. Inv => OwnAnswer
  BY DEF Inv, AnswersInv
<1>2. QED
  BY RpcInv, <1>1, PTL

\* Every entry in the table of pending calls has a caller that is in a call.
THEOREM TableKeptClean == Spec => []NoPendingLeak
<1>1. Inv => NoPendingLeak
  BY DEF Inv, TableInv
<1>2. QED
  BY RpcInv, <1>1, PTL
=============================================================================
