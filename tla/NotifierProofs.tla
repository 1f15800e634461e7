--------------------------- MODULE NotifierProofs ---------------------------
(***************************************************************************)
(* What Notifier guarantees for every value of its constants: it implements*)
(* Delivery, a repeated attempt does not ring twice, and an alarm whose    *)
(* call returned nil did ring or was swallowed, provided that a payload is *)
(* still young after all attempts and pauses of its call.                  *)
(***************************************************************************)
EXTENDS Notifier, TLAPS

(***************************************************************************)
(* Types.                                                                  *)
(***************************************************************************)

\* How the counters of a call hang together with its place.
CallShape ==
    /\ call.pc # "idle" => call.attempt \in 1 .. MaxAttempts /\ call.body \in Payload
    /\ call.pc = "pause" => call.attempt < MaxAttempts

TypeInv == TypeOK /\ CallShape

\* A pause is that of the attempt before, and after the list its last one.
LEMMA BackoffNat == ASSUME NEW n \in Nat \ {0} PROVE Backoff(n) \in Nat
BY NotifierAssumption DEF Backoff

\* Without a call there is nothing to say of one.
LEMMA NoCallTypes == NoCall \in Call /\ NoCall.pc = "idle"
<1>1. MaxAttempts \in Nat
  BY NotifierAssumption
<1>2. NoPayload \in Payload \cup {NoPayload}
  OBVIOUS
<1> QED BY <1>1, <1>2 DEF NoCall, Call, Results

\* A call stays one when it is some seconds older.
LEMMA OlderCall ==
    ASSUME NEW c \in Call, NEW t \in Nat, NEW n \in 1 .. MaxAttempts,
           NEW pc \in {"attempt", "failed"}
    PROVE  /\ [c EXCEPT !.pc = pc, !.age = @ + t] \in Call
           /\ [c EXCEPT !.pc = pc, !.attempt = n, !.age = @ + t] \in Call
<1>1. c.age + t \in Nat /\ n \in 0 .. MaxAttempts
  BY DEF Call
<1> QED BY <1>1 DEF Call

LEMMA InitTypes == Init => TypeInv
<1> SUFFICES ASSUME Init PROVE TypeInv
  OBVIOUS
<1>1. MaxSends \in Nat
  BY NotifierAssumption
<1>2. call \in Call /\ call.pc = "idle"
  BY NoCallTypes DEF Init
<1>3. rung \in [Number -> Nat]
  BY DEF Init
<1>4. CallShape
  BY <1>2 DEF CallShape
<1>5. sends \in 0 .. MaxSends /\ accepted \subseteq 1 .. sends /\ swallowed \subseteq 1 .. sends
  BY <1>1 DEF Init
<1> QED BY <1>2, <1>3, <1>4, <1>5 DEF Init, TypeInv, TypeOK

\* A call begins, and ends.
LEMMA BeginTypes ==
    ASSUME TypeInv, NEW text \in Texts, NEW alarm \in BOOLEAN, NEW age \in Ages,
           Begin(text, alarm, age)
    PROVE  TypeInv'
<1>1. NewPayload(text, alarm) \in Payload
  BY DEF NewPayload, Payload, TypeInv, TypeOK
<1>2. age \in Nat /\ MaxAttempts \in Nat \ {0}
  BY NotifierAssumption
<1>3. call' \in Call /\ CallShape'
  <2>1. /\ call'.pc = "attempt" /\ call'.attempt = 1
        /\ call'.body = NewPayload(text, alarm)
    BY NoCallTypes DEF Begin, Call
  <2>2. call' \in Call
    <3>1. 1 \in 0 .. MaxAttempts /\ "attempt" \in {"idle", "attempt", "waiting", "failed", "pause", "done"}
      BY <1>2
    <3> QED BY <1>1, <1>2, <3>1 DEF Begin, NoCall, Call, Results
  <2> QED BY <1>1, <1>2, <2>1, <2>2 DEF CallShape
<1>4. sends' \in Number /\ sends' = sends + 1 /\ sends \in Nat
  BY NotifierAssumption DEF Begin, TypeInv, TypeOK, Number
<1>5. /\ wire' \subseteq Request /\ \A r \in wire' : r.send =< sends'
      /\ accepted' \subseteq 1 .. sends' /\ swallowed' \subseteq 1 .. sends'
  BY <1>4 DEF Begin, TypeInv, TypeOK, Request, Number
<1>6. cancelled' \in BOOLEAN
  BY DEF Begin
<1> QED BY <1>3, <1>4, <1>5, <1>6, NotifierAssumption DEF Begin, TypeInv, TypeOK, Number

\* A step of the call writes its local state, and an attempt the wire.
LEMMA CallTypes ==
    ASSUME TypeInv, CallStep \/ (\E ok \in BOOLEAN : Return(ok)) \/ Die
    PROVE  TypeInv'
<1> USE DEF TypeInv
<1>1. CASE Attempt
  <2>1. Post \in Request /\ Post.send =< sends'
    BY <1>1 DEF Attempt, Post, Request, TypeOK, CallShape, Number
  <2>2. wire' \subseteq wire \cup {Post}
    BY <1>1 DEF Attempt, Overdue
  <2>3. call' \in Call /\ CallShape' /\ (call'.pc # "idle" => sends' \in Number)
    BY <1>1 DEF Attempt, TypeOK, CallShape, Call
  <2> QED BY <1>1, <2>1, <2>2, <2>3 DEF Attempt, TypeOK
<1>2. CASE AttemptFails \/ Unanswered
  <2> AttemptTimeout \in Nat
    BY NotifierAssumption
  <2>1. \/ call' = [call EXCEPT !.pc = "failed"]
        \/ \E t \in Nat : call' = [call EXCEPT !.pc = "failed", !.age = @ + t]
    BY <1>2 DEF AttemptFails, Unanswered
  <2>2. call' \in Call
    <3>1. call \in Call /\ call.attempt \in 1 .. MaxAttempts
      BY <1>2 DEF AttemptFails, Unanswered, TypeOK, CallShape
    <3>2. [call EXCEPT !.pc = "failed"] \in Call
      BY <3>1 DEF Call
    <3>3. \A t \in Nat : [call EXCEPT !.pc = "failed", !.age = @ + t] \in Call
      BY <3>1, OlderCall
    <3> QED BY <2>1, <3>2, <3>3
  <2>3. CallShape' /\ sends' \in Number
    BY <1>2, <2>1 DEF AttemptFails, Unanswered, TypeOK, CallShape, Call
  <2> QED BY <1>2, <2>2, <2>3 DEF AttemptFails, Unanswered, TypeOK
<1>3. CASE Success \/ Refused \/ GiveUp \/ PauseAborted
  <2>1. call' \in Call /\ CallShape' /\ (call'.pc # "idle" => sends' \in Number)
    BY <1>3, NotifierAssumption
       DEF Success, Refused, GiveUp, PauseAborted, Done, TypeOK, CallShape, Call, Results
  <2> QED BY <1>3, <2>1 DEF Success, Refused, GiveUp, PauseAborted, TypeOK
<1>4. CASE Retry
  <2>1. Backoff(call.attempt) \in Nat
    BY <1>4, BackoffNat DEF Retry, CallShape
  <2> MaxAttempts \in Nat
    BY NotifierAssumption
  <2>2. call' \in Call
    <3>1. call \in Call /\ call.attempt + 1 \in 1 .. MaxAttempts
      BY <1>4 DEF Retry, TypeOK, CallShape
    <3> QED BY <1>4, <2>1, <3>1, OlderCall DEF Retry
  <2>3. CallShape' /\ sends' \in Number
    BY <1>4 DEF Retry, TypeOK, CallShape, Call
  <2> QED BY <1>4, <2>2, <2>3 DEF Retry, TypeOK
<1>5. CASE (\E ok \in BOOLEAN : Return(ok)) \/ Die
  <2>1. call' \in Call /\ CallShape' /\ (call'.pc # "idle" => sends' \in Number)
    BY <1>5, NotifierAssumption DEF Return, Die, NoCall, CallShape, Call, Results
  <2> QED BY <1>5, <2>1 DEF Return, Die, TypeOK
<1> QED BY <1>1, <1>2, <1>3, <1>4, <1>5 DEF CallStep

\* What the network answers to a request is a code or nothing.
LEMMA AnswerTypes ==
    ASSUME TypeInv, NEW r, NEW codes \in SUBSET {"2xx", "4xx", "5xx"}, Answers(r, codes)
    PROVE  answer' \in {"none", "2xx", "4xx", "5xx"}
BY DEF Answers, TypeInv, TypeOK

LEMMA NetworkTypes == ASSUME TypeInv, Network PROVE TypeInv'
<1> USE DEF TypeInv
<1>1. CASE Terminate
  BY <1>1 DEF Terminate, TypeOK, CallShape
<1>2. ASSUME NEW r \in wire, Accept(r) PROVE TypeInv'
  <2>1. r \in Request /\ r.send \in 1 .. sends /\ r.body \in Payload
    BY DEF TypeOK, Request, Number
  <2>2. rung' \in [Number -> Nat]
    BY <1>2, <2>1 DEF Accept, TypeOK, Request
  <2>3. answer' \in {"none", "2xx", "4xx", "5xx"}
    BY <1>2, AnswerTypes DEF Accept
  <2>4. late' \in BOOLEAN
    BY <1>2 DEF Accept, TypeOK, Ended
  <2> QED BY <1>2, <2>1, <2>2, <2>3, <2>4 DEF Accept, TypeOK, CallShape
<1>3. ASSUME NEW r \in wire, Reject(r) PROVE TypeInv'
  <2>1. answer' \in {"none", "2xx", "4xx", "5xx"}
    BY <1>3, AnswerTypes DEF Reject
  <2> QED BY <1>3, <2>1 DEF Reject, TypeOK, CallShape
<1>4. ASSUME NEW r \in wire, Swallow(r) PROVE TypeInv'
  <2>1. answer' \in {"none", "2xx", "4xx", "5xx"}
    BY <1>4, AnswerTypes DEF Swallow
  <2>2. r.send \in 1 .. sends
    BY DEF TypeOK, Request, Number
  <2> QED BY <1>4, <2>1, <2>2 DEF Swallow, TypeOK, CallShape
<1> QED BY <1>1, <1>2, <1>3, <1>4 DEF Network

\* The variables of the call, the network and Home Assistant keep their types.
THEOREM NotifierTypes == Spec => []TypeOK
<1>1. ASSUME TypeInv, Next PROVE TypeInv'
  BY <1>1, BeginTypes, CallTypes, NetworkTypes DEF Next
<1>2. TypeInv /\ UNCHANGED vars => TypeInv'
  BY DEF TypeInv, TypeOK, CallShape, vars
<1>3. TypeInv => TypeOK
  BY DEF TypeInv
<1> QED BY InitTypes, <1>1, <1>2, <1>3, PTL DEF Spec

(***************************************************************************)
(* Delivery.  The one thing to know beyond the types is that a 2xx on its  *)
(* way belongs to the call in progress: an answer is never carried over to *)
(* another attempt, and only a request Home Assistant took or swallowed is *)
(* answered so.                                                            *)
(***************************************************************************)

AnswerIsTrue == call.pc = "waiting" /\ answer = "2xx" => sends \in accepted \cup swallowed

ResultShape == call.result # "none" => call.pc = "done"

DeliveryInv == AnswerIsTrue /\ ResultShape

LEMMA AnswersStayTrue ==
    ASSUME TypeInv, DeliveryInv, Next
    PROVE  DeliveryInv'
<1> USE DEF TypeInv, DeliveryInv
<1>1. CASE \E text \in Texts, alarm \in BOOLEAN, age \in Ages : Begin(text, alarm, age)
  BY <1>1 DEF Begin, NoCall, AnswerIsTrue, ResultShape
<1>2. CASE CallStep \/ (\E ok \in BOOLEAN : Return(ok)) \/ Die
  <2>1. CASE Attempt
    BY <2>1 DEF Attempt, AnswerIsTrue, ResultShape, TypeOK, Call
  <2>2. CASE AttemptFails \/ Unanswered
    <3>1. call'.pc = "failed" /\ call'.result = call.result
          /\ call.pc \in {"attempt", "waiting"}
      BY <2>2 DEF AttemptFails, Unanswered, TypeOK, Call
    <3> QED BY <3>1 DEF AnswerIsTrue, ResultShape
  <2>3. CASE Success \/ Refused \/ PauseAborted
    <3>1. call'.pc = "done"
      BY <2>3 DEF Success, Refused, PauseAborted, Done, TypeOK, Call
    <3> QED BY <3>1 DEF AnswerIsTrue, ResultShape
  <2>4. CASE GiveUp
    <3>1. \/ call'.pc = "done"
          \/ call.pc = "failed" /\ call'.pc = "pause" /\ call'.result = call.result
      BY <2>4 DEF GiveUp, Done, TypeOK, Call
    <3> QED BY <3>1 DEF AnswerIsTrue, ResultShape
  <2>5. CASE Retry
    <3>1. call.pc = "pause" /\ call'.pc = "attempt" /\ call'.result = call.result
      BY <2>5 DEF Retry, TypeOK, Call
    <3> QED BY <3>1 DEF AnswerIsTrue, ResultShape
  <2>6. CASE (\E ok \in BOOLEAN : Return(ok)) \/ Die
    BY <2>6 DEF Return, Die, NoCall, AnswerIsTrue, ResultShape
  <2> QED BY <1>2, <2>1, <2>2, <2>3, <2>4, <2>5, <2>6 DEF CallStep
<1>3. CASE Terminate
  BY <1>3 DEF Terminate, AnswerIsTrue, ResultShape
<1>4. ASSUME NEW r \in wire, Accept(r) PROVE DeliveryInv'
  <2>1. CASE Awaited(r)
    BY <1>4, <2>1 DEF Accept, Awaited, AnswerIsTrue, ResultShape
  <2>2. CASE ~Awaited(r)
    <3>1. answer' = answer
      BY <1>4, <2>2 DEF Accept, Answers
    <3> QED BY <1>4, <3>1 DEF Accept, AnswerIsTrue, ResultShape
  <2> QED BY <2>1, <2>2
<1>5. ASSUME NEW r \in wire, Reject(r) PROVE DeliveryInv'
  <2>1. answer' \in {"4xx", "5xx", "none"}
    BY <1>5 DEF Reject, Answers
  <2> QED BY <1>5, <2>1 DEF Reject, AnswerIsTrue, ResultShape
<1>6. ASSUME NEW r \in wire, Swallow(r) PROVE DeliveryInv'
  BY <1>6 DEF Swallow, Awaited, AnswerIsTrue, ResultShape
<1> QED BY <1>1, <1>2, <1>3, <1>4, <1>5, <1>6 DEF Next, Network

\* A call begins: a message is asked for.
LEMMA BeginAsks ==
    ASSUME NEW text, NEW alarm, NEW age, Begin(text, alarm, age)
    PROVE  Promise!Ask
BY DEF Begin, NoCall, Promise!Ask, Outcome

\* A step of the call decides its outcome or none.
LEMMA CallRefines ==
    ASSUME TypeInv, DeliveryInv, CallStep
    PROVE  Promise!Next \/ UNCHANGED Promise!vars
<1> USE DEF TypeInv, DeliveryInv
<1>1. CASE Success
  <2>1. sends \in accepted \cup swallowed
    BY <1>1 DEF Success, AnswerIsTrue
  <2>2. Promise!Succeed
    BY <1>1, <2>1 DEF Success, Done, Promise!Succeed, Outcome, TypeOK, Call
  <2> QED BY <2>2 DEF Promise!Next
<1>2. CASE Refused \/ PauseAborted
  <2>1. Promise!Fail
    BY <1>2 DEF Refused, PauseAborted, Done, Promise!Fail, Outcome, TypeOK, Call
  <2> QED BY <2>1 DEF Promise!Next
<1>3. CASE GiveUp
  <2>1. CASE call'.pc = "done"
    <3>1. Promise!Fail
      BY <1>3, <2>1 DEF GiveUp, Done, Promise!Fail, Outcome, TypeOK, Call
    <3> QED BY <3>1 DEF Promise!Next
  <2>2. CASE call'.pc # "done"
    <3>1. call'.pc = "pause" /\ call.pc = "failed"
      BY <1>3, <2>2 DEF GiveUp, Done, TypeOK, Call
    <3> QED BY <1>3, <3>1 DEF GiveUp, Promise!vars, Outcome
  <2> QED BY <2>1, <2>2
<1>4. CASE Attempt \/ AttemptFails \/ Unanswered \/ Retry
  <2>1. /\ call.pc \in {"attempt", "waiting", "pause"}
        /\ call'.pc \in {"waiting", "failed", "attempt"}
        /\ UNCHANGED <<sends, accepted, swallowed>>
    BY <1>4 DEF Attempt, AttemptFails, Unanswered, Retry, TypeOK, Call
  <2> QED BY <2>1 DEF Promise!vars, Outcome
<1> QED BY <1>1, <1>2, <1>3, <1>4 DEF CallStep

\* It returns, or its process dies.
LEMMA EndCloses ==
    ASSUME TypeInv, (\E ok \in BOOLEAN : Return(ok)) \/ Die
    PROVE  Promise!Close
BY DEF Return, Die, NoCall, Promise!Close, Outcome

\* A request that is accepted arrives, whichever call it belongs to; one is swallowed
\* while its call waits.
LEMMA NetworkRefines ==
    ASSUME TypeInv, Network
    PROVE  Promise!Next \/ UNCHANGED Promise!vars
<1> USE DEF TypeInv
<1>1. CASE Terminate
  BY <1>1 DEF Terminate, Promise!vars, Outcome
<1>2. ASSUME NEW r \in wire, Accept(r) PROVE Promise!Next
  <2>1. r.send \in 1 .. sends
    BY DEF TypeOK, Request, Number
  <2>2. Promise!Arrive(r.send)
    BY <1>2, <2>1 DEF Accept, Promise!Arrive, Outcome
  <2> QED BY <2>1, <2>2 DEF Promise!Next
<1>3. ASSUME NEW r \in wire, Reject(r) PROVE UNCHANGED Promise!vars
  BY <1>3 DEF Reject, Promise!vars, Outcome
<1>4. ASSUME NEW r \in wire, Swallow(r) PROVE Promise!Next
  <2>1. Promise!Swallow
    BY <1>4 DEF Swallow, Awaited, Promise!Swallow, Outcome
  <2> QED BY <2>1 DEF Promise!Next
<1> QED BY <1>1, <1>2, <1>3, <1>4 DEF Network

\* Send keeps what Delivery promises: it returns nil only for a message that Home
\* Assistant has accepted, or answered with a 2xx without accepting it, whatever was
\* lost, delayed, refused or cancelled.
THEOREM SendDelivers == Spec => Delivers
<1>1. Init => TypeInv /\ DeliveryInv /\ Promise!Init
  <2> SUFFICES ASSUME Init PROVE TypeInv /\ DeliveryInv /\ Promise!Init
    OBVIOUS
  <2>1. TypeInv
    BY InitTypes
  <2> QED BY <2>1 DEF Init, NoCall, DeliveryInv, AnswerIsTrue, ResultShape, Promise!Init, Outcome
<1>2. TypeInv /\ DeliveryInv /\ [Next]_vars => TypeInv' /\ DeliveryInv'
  <2>1. ASSUME TypeInv, DeliveryInv, Next PROVE TypeInv' /\ DeliveryInv'
    BY <2>1, BeginTypes, CallTypes, NetworkTypes, AnswersStayTrue DEF Next
  <2>2. TypeInv /\ DeliveryInv /\ UNCHANGED vars => TypeInv' /\ DeliveryInv'
    BY DEF TypeInv, TypeOK, CallShape, DeliveryInv, AnswerIsTrue, ResultShape, vars
  <2> QED BY <2>1, <2>2
<1>3. TypeInv /\ DeliveryInv /\ [Next]_vars => [Promise!Next]_(Promise!vars)
  <2>1. ASSUME TypeInv, DeliveryInv, Next PROVE Promise!Next \/ UNCHANGED Promise!vars
    BY <2>1, BeginAsks, CallRefines, EndCloses, NetworkRefines DEF Next, Promise!Next
  <2>2. ASSUME UNCHANGED vars PROVE UNCHANGED Promise!vars
    BY <2>2 DEF vars, Promise!vars, Outcome
  <2> QED BY <2>1, <2>2
<1> QED BY <1>1, <1>2, <1>3, PTL DEF Spec, Delivers, Promise!Spec

(***************************************************************************)
(* The phones.  A request carries the payload of its call, and while the   *)
(* call has not ended nothing else reaches the sensor, unless an older     *)
(* request arrives late.                                                   *)
(***************************************************************************)

Running == call.pc \notin {"idle", "done"}

BodiesInv ==
    /\ call.pc # "idle" => call.body.time = sends
    /\ \A r \in wire : /\ r.body.time = r.send
                       /\ r.send = sends /\ call.pc # "idle" => r.body = call.body

RungOnceInv ==
    /\ \A n \in Number : n > sends => rung[n] = 0
    /\ ~late => /\ \A n \in Number : rung[n] =< 1
                /\ Running => (rung[sends] > 0 => sensor = call.body)

\* What every step of a call leaves alone.
LEMMA CallStepShape ==
    ASSUME TypeInv, CallStep
    PROVE  /\ Running /\ call'.pc # "idle" /\ call'.body = call.body
           /\ UNCHANGED <<sends, sensor, accepted, swallowed, rung, late>>
           /\ wire' \subseteq wire \cup {Post}
<1> USE DEF TypeInv, TypeOK, Call
<1>1. CASE Attempt
  BY <1>1 DEF Attempt, Overdue, Running
<1>2. CASE AttemptFails \/ Unanswered
  BY <1>2 DEF AttemptFails, Unanswered, Running
<1>3. CASE Success \/ Refused \/ PauseAborted
  BY <1>3 DEF Success, Refused, PauseAborted, Done, Running
<1>4. CASE GiveUp
  BY <1>4 DEF GiveUp, Done, Running
<1>5. CASE Retry
  BY <1>5 DEF Retry, Running
<1> QED BY <1>1, <1>2, <1>3, <1>4, <1>5 DEF CallStep

LEMMA BodiesKeep == ASSUME TypeInv, BodiesInv, Next PROVE BodiesInv'
<1> USE DEF BodiesInv
<1>1. CASE \E text \in Texts, alarm \in BOOLEAN, age \in Ages : Begin(text, alarm, age)
  <2>1. PICK text, alarm, age : Begin(text, alarm, age)
    BY <1>1
  <2>2. call'.pc # "idle" /\ call'.body = NewPayload(text, alarm) /\ sends' = sends + 1
    BY <2>1, NoCallTypes DEF Begin, NoCall
  <2>3. \A r \in wire' : r.body.time = r.send /\ r.send # sends'
    BY <2>1, <2>2 DEF Begin, TypeInv, TypeOK, Request, Number
  <2> QED BY <2>2, <2>3 DEF NewPayload
<1>2. CASE CallStep
  <2>1. Post.body = call.body /\ Post.send = sends /\ call.pc # "idle"
    BY <1>2, CallStepShape DEF Post, Running
  <2> QED BY <1>2, <2>1, CallStepShape
<1>3. CASE (\E ok \in BOOLEAN : Return(ok)) \/ Die
  BY <1>3, NoCallTypes DEF Return, Die
<1>4. CASE Network
  BY <1>4 DEF Network, Terminate, Accept, Reject, Swallow
<1> QED BY <1>1, <1>2, <1>3, <1>4 DEF Next

\* A request of a call that still runs rings when the sensor shows something else,
\* and that is only so before the first one.
LEMMA RingsKeep == ASSUME TypeInv, BodiesInv, RungOnceInv, Next PROVE RungOnceInv'
<1>1. CASE \E text \in Texts, alarm \in BOOLEAN, age \in Ages : Begin(text, alarm, age)
  <2>1. sends' = sends + 1 /\ sends' \in Number /\ UNCHANGED <<sensor, rung, late>>
    BY <1>1, NotifierAssumption DEF Begin, TypeInv, TypeOK, Number
  <2> QED BY <2>1 DEF RungOnceInv, TypeInv, TypeOK, Number
<1>2. CASE CallStep
  BY <1>2, CallStepShape DEF RungOnceInv, Running
<1>3. CASE (\E ok \in BOOLEAN : Return(ok)) \/ Die
  BY <1>3, NoCallTypes DEF Return, Die, RungOnceInv, Running
<1>4. CASE Terminate \/ \E r \in wire : Reject(r) \/ Swallow(r)
  BY <1>4 DEF Terminate, Reject, Swallow, RungOnceInv, Running
<1>5. ASSUME NEW r \in wire, Accept(r) PROVE RungOnceInv'
  <2>1. /\ r.send \in 1 .. sends /\ r.send \in Number /\ rung \in [Number -> Nat]
        /\ sends' = sends /\ call' = call /\ sensor' = r.body
        /\ sends \in 0 .. MaxSends
    BY <1>5 DEF Accept, TypeInv, TypeOK, Request, Number
  <2>0. ~late' => ~late /\ ~Ended(r)
    BY <1>5 DEF Accept
  <2>2. \/ rung' = rung
        \/ Rings(r, TRUE) /\ \A n \in Number :
              rung'[n] = IF n = r.send THEN rung[n] + 1 ELSE rung[n]
    <3>1. PICK fresh \in Fresh(r) :
             rung' = IF Rings(r, fresh) THEN [rung EXCEPT ![r.send] = @ + 1] ELSE rung
      BY <1>5 DEF Accept
    <3>2. CASE Rings(r, fresh)
      BY <2>1, <3>1, <3>2 DEF Rings
    <3> QED BY <3>1, <3>2
  <2>3. \A n \in Number : n > sends => rung'[n] = 0
    <3>1. \A n \in Number : n > sends => rung[n] = 0 /\ n # r.send
      BY <2>1 DEF RungOnceInv, Number
    <3> QED BY <2>2, <3>1
  <2>4. ASSUME ~late'
        PROVE  (\A n \in Number : rung'[n] =< 1) /\ sensor' = call.body
    <3>1. ~late /\ Running /\ r.send = sends /\ r.body = call.body
      BY <2>0, <2>4 DEF Ended, Running, BodiesInv
    <3>2. Rings(r, TRUE) => rung[sends] = 0
      BY <2>1, <3>1 DEF Rings, RungOnceInv
    <3>3. \A n \in Number : rung[n] =< 1
      BY <3>1 DEF RungOnceInv
    <3>4. CASE rung' = rung
      BY <2>1, <3>1, <3>3, <3>4
    <3>5. CASE Rings(r, TRUE) /\ \A n \in Number :
                  rung'[n] = IF n = r.send THEN rung[n] + 1 ELSE rung[n]
      <4>1. \A n \in Number : rung'[n] = IF n = sends THEN 1 ELSE rung[n]
        BY <3>1, <3>2, <3>5
      <4> QED BY <2>1, <3>1, <3>3, <4>1
    <3> QED BY <2>2, <3>4, <3>5
  <2> QED BY <2>1, <2>3, <2>4 DEF RungOnceInv, Running
<1> QED BY <1>1, <1>2, <1>3, <1>4, <1>5 DEF Next, Network

\* No message rings the phones twice, however often its attempts are repeated,
\* unless a request is accepted after its call had ended.
THEOREM OneRing == Spec => []RingsOnce
<1>1. Init => TypeInv /\ BodiesInv /\ RungOnceInv
  <2> SUFFICES ASSUME Init PROVE TypeInv /\ BodiesInv /\ RungOnceInv
    OBVIOUS
  <2>1. TypeInv /\ call.pc = "idle"
    BY InitTypes, NoCallTypes DEF Init
  <2> QED BY <2>1 DEF Init, BodiesInv, RungOnceInv, Running
<1>2. TypeInv /\ BodiesInv /\ RungOnceInv /\ [Next]_vars => (TypeInv /\ BodiesInv /\ RungOnceInv)'
  <2>1. ASSUME TypeInv, BodiesInv, RungOnceInv, Next
        PROVE  (TypeInv /\ BodiesInv /\ RungOnceInv)'
    BY <2>1, BeginTypes, CallTypes, NetworkTypes, BodiesKeep, RingsKeep DEF Next
  <2>2. TypeInv /\ BodiesInv /\ RungOnceInv /\ UNCHANGED vars
          => (TypeInv /\ BodiesInv /\ RungOnceInv)'
    BY DEF TypeInv, TypeOK, CallShape, BodiesInv, RungOnceInv, Running, vars
  <2> QED BY <2>1, <2>2
<1>3. TypeInv /\ RungOnceInv => RingsOnce
  BY DEF TypeInv, TypeOK, RungOnceInv, RingsOnce
<1> QED BY <1>1, <1>2, <1>3, PTL DEF Spec

(***************************************************************************)
(* The alarm.  Home Assistant drops a payload that is too old, so this one *)
(* needs to know how long a call can take.                                 *)
(***************************************************************************)

\* Every attempt timed out, every pause the longest: the payload is still young.
Punctual(longest) ==
    /\ \A n \in Nat \ {0} : Backoff(n) =< longest
    /\ \A a \in Ages :
          a + (MaxAttempts - 1) * (AttemptTimeout + longest) + AttemptTimeout < FreshFor

\* How old the payload can be by now.
AgeInv(longest) ==
    Running => \E a \in Ages :
        call.age =< a + (call.attempt - 1) * (AttemptTimeout + longest)
                      + (IF call.pc \in {"failed", "pause"} THEN AttemptTimeout ELSE 0)

AlarmInv ==
    /\ sensor.time # -1 => sensor.time \in accepted
    /\ Running /\ call.body.alarm /\ sends \in accepted => rung[sends] > 0
    /\ ReportedAlarmRang

\* A product grows with its first factor.
LEMMA Monotone ==
    ASSUME NEW m \in Nat, NEW n \in Nat, m =< n, NEW k \in Nat
    PROVE  m * k =< n * k
<1>1. PICK d \in Nat : n = m + d
  BY n - m \in Nat
<1>2. n * k = m * k + d * k /\ d * k \in Nat
  BY <1>1
<1>3. m * k \in Nat
  OBVIOUS
<1> QED BY <1>2, <1>3

LEMMA AgesKeep ==
    ASSUME NEW longest \in Nat, Punctual(longest), TypeInv, AgeInv(longest), Next
    PROVE  AgeInv(longest)'
<1>0. AttemptTimeout \in Nat /\ Ages \subseteq Nat /\ AttemptTimeout + longest \in Nat
  BY NotifierAssumption
<1> DEFINE Base(n) == (n - 1) * (AttemptTimeout + longest)
<1>1. CASE \E text \in Texts, alarm \in BOOLEAN, age \in Ages : Begin(text, alarm, age)
  <2>1. PICK age \in Ages : call'.age = age /\ call'.attempt = 1 /\ call'.pc = "attempt"
    BY <1>1 DEF Begin, NoCall
  <2>2. call'.age =< age + (call'.attempt - 1) * (AttemptTimeout + longest) + 0
    BY <1>0, <2>1
  <2> QED BY <2>1, <2>2 DEF AgeInv
<1>2. CASE Attempt
  BY <1>2 DEF Attempt, AgeInv, Running, TypeInv, TypeOK, Call
<1>3. CASE AttemptFails \/ Unanswered
  <2>1. PICK t \in 0 .. AttemptTimeout :
          call'.pc = "failed" /\ call'.attempt = call.attempt /\ call'.age = call.age + t
    <3>1. call.age = call.age + 0 /\ 0 \in 0 .. AttemptTimeout /\ AttemptTimeout \in 0 .. AttemptTimeout
      BY <1>0 DEF TypeInv, TypeOK, Call
    <3>2. \/ call' = [call EXCEPT !.pc = "failed"]
          \/ \E t \in {0, AttemptTimeout} : call' = [call EXCEPT !.pc = "failed", !.age = @ + t]
      BY <1>3 DEF AttemptFails, Unanswered
    <3>3. CASE call' = [call EXCEPT !.pc = "failed"]
      BY <3>1, <3>3 DEF TypeInv, TypeOK, Call
    <3>4. CASE \E t \in {0, AttemptTimeout} : call' = [call EXCEPT !.pc = "failed", !.age = @ + t]
      BY <3>1, <3>4 DEF TypeInv, TypeOK, Call
    <3> QED BY <3>2, <3>3, <3>4
  <2>2. Running /\ call.pc \in {"attempt", "waiting"} /\ call.age \in Nat /\ call.attempt \in Nat
    BY <1>3 DEF AttemptFails, Unanswered, Running, TypeInv, TypeOK, Call
  <2>3. PICK a \in Ages : call.age =< a + Base(call.attempt) + 0
    BY <2>2 DEF AgeInv
  <2>4. Base(call.attempt) \in Int
    BY <1>0, <2>2
  <2>5. call'.age =< a + Base(call.attempt) + AttemptTimeout
    <3> HIDE DEF Base
    <3> QED BY <1>0, <2>1, <2>2, <2>3, <2>4
  <2> QED BY <2>1, <2>5 DEF AgeInv
<1>4. CASE Success \/ Refused \/ PauseAborted \/ (\E ok \in BOOLEAN : Return(ok)) \/ Die
  <2>1. call'.pc \in {"done", "idle"}
    BY <1>4, NoCallTypes DEF Success, Refused, PauseAborted, Done, Return, Die, TypeInv, TypeOK, Call
  <2> QED BY <2>1 DEF AgeInv, Running
<1>5. CASE GiveUp
  <2>1. \/ call'.pc = "done"
        \/ /\ call.pc = "failed" /\ call'.pc = "pause"
           /\ call'.attempt = call.attempt /\ call'.age = call.age
    BY <1>5 DEF GiveUp, Done, TypeInv, TypeOK, Call
  <2> QED BY <2>1 DEF AgeInv, Running
<1>6. CASE Retry
  <2>1. /\ call.pc = "pause" /\ call'.pc = "attempt" /\ call'.attempt = call.attempt + 1
        /\ call'.age = call.age + Backoff(call.attempt)
        /\ call.age \in Nat /\ call.attempt \in Nat \ {0}
    BY <1>6 DEF Retry, TypeInv, TypeOK, CallShape, Call
  <2>2. Backoff(call.attempt) \in Nat /\ Backoff(call.attempt) =< longest
    BY <2>1, BackoffNat DEF Punctual
  <2>3. PICK a \in Ages : call.age =< a + Base(call.attempt) + AttemptTimeout
    BY <2>1 DEF AgeInv, Running
  <2>4. /\ Base(call.attempt) \in Int
        /\ Base(call'.attempt) = Base(call.attempt) + (AttemptTimeout + longest)
    BY <1>0, <2>1
  <2>5. call'.age =< a + Base(call'.attempt) + 0
    <3> HIDE DEF Base
    <3> QED BY <1>0, <2>1, <2>2, <2>3, <2>4
  <2> QED BY <2>1, <2>5 DEF AgeInv
<1>7. CASE Network
  <2>1. call' = call
    BY <1>7 DEF Network, Terminate, Accept, Reject, Swallow
  <2> QED BY <2>1 DEF AgeInv, Running
<1> QED BY <1>1, <1>2, <1>3, <1>4, <1>5, <1>6, <1>7 DEF Next, CallStep

\* While a call runs, Home Assistant takes its alarm for a new one.
LEMMA StillFresh ==
    ASSUME NEW longest \in Nat, Punctual(longest), TypeInv, AgeInv(longest), Running
    PROVE  call.age < FreshFor
<1> DEFINE Step == AttemptTimeout + longest
<1>1. /\ AttemptTimeout \in Nat /\ Ages \subseteq Nat /\ Step \in Nat /\ FreshFor \in Nat
      /\ MaxAttempts - 1 \in Nat
  BY NotifierAssumption
<1>2. call.attempt - 1 \in Nat /\ call.attempt - 1 =< MaxAttempts - 1 /\ call.age \in Nat
  BY NotifierAssumption DEF Running, TypeInv, TypeOK, CallShape, Call
<1>3. PICK a \in Ages :
        call.age =< a + (call.attempt - 1) * Step
                      + (IF call.pc \in {"failed", "pause"} THEN AttemptTimeout ELSE 0)
  BY DEF AgeInv
<1>4. (call.attempt - 1) * Step =< (MaxAttempts - 1) * Step
  <2> HIDE DEF Step
  <2> QED BY <1>1, <1>2, Monotone
<1>5. (call.attempt - 1) * Step \in Nat /\ (MaxAttempts - 1) * Step \in Nat
  <2> HIDE DEF Step
  <2> QED BY <1>1, <1>2
<1>6. a + (MaxAttempts - 1) * Step + AttemptTimeout < FreshFor
  BY DEF Punctual
<1>7. \A x, y \in Nat : x =< y /\ a + y + AttemptTimeout < FreshFor
         /\ call.age =< a + x + (IF call.pc \in {"failed", "pause"} THEN AttemptTimeout ELSE 0)
         => call.age < FreshFor
  BY <1>1, <1>2
<1> QED BY <1>3, <1>4, <1>5, <1>6, <1>7

LEMMA AlarmsKeep ==
    ASSUME NEW longest \in Nat, Punctual(longest), TypeInv, AgeInv(longest),
           DeliveryInv, BodiesInv, AlarmInv, Next
    PROVE  AlarmInv'
<1> USE DEF AlarmInv
<1>1. CASE \E text \in Texts, alarm \in BOOLEAN, age \in Ages : Begin(text, alarm, age)
  <2>1. /\ sends' = sends + 1 /\ UNCHANGED <<sensor, accepted, rung>>
        /\ call'.result = "none"
    BY <1>1 DEF Begin, NoCall
  <2>2. sends' \notin accepted'
    BY <2>1 DEF TypeInv, TypeOK
  <2> QED BY <2>1, <2>2 DEF ReportedAlarmRang
<1>2. CASE CallStep
  <2>1. /\ Running /\ call'.body = call.body
        /\ UNCHANGED <<sends, sensor, accepted, swallowed, rung>>
    BY <1>2, CallStepShape
  <2>2. call'.result = "nil" => sends \in accepted \cup swallowed
    <3>1. CASE Success
      BY <3>1 DEF Success, DeliveryInv, AnswerIsTrue
    <3>2. CASE Refused \/ PauseAborted
      BY <3>2 DEF Refused, PauseAborted, Done, TypeInv, TypeOK, Call
    <3>3. CASE Attempt \/ AttemptFails \/ Unanswered \/ Retry
      <4>1. call'.result = call.result
        BY <3>3 DEF Attempt, AttemptFails, Unanswered, Retry, TypeInv, TypeOK, Call
      <4> QED BY <2>1, <4>1 DEF DeliveryInv, ResultShape, Running
    <3>4. CASE GiveUp
      <4>1. call'.result \in {"aborted", "exhausted", call.result}
        BY <3>4 DEF GiveUp, Done, TypeInv, TypeOK, Call
      <4> QED BY <2>1, <4>1 DEF DeliveryInv, ResultShape, Running
    <3> QED BY <1>2, <3>1, <3>2, <3>3, <3>4 DEF CallStep
  <2> QED BY <2>1, <2>2 DEF ReportedAlarmRang
<1>3. CASE (\E ok \in BOOLEAN : Return(ok)) \/ Die
  <2>1. ~Running' /\ call'.result = "none" /\ UNCHANGED <<sensor, accepted>>
    BY <1>3 DEF Return, Die, NoCall, Running
  <2> QED BY <2>1 DEF ReportedAlarmRang
<1>4. CASE Terminate \/ \E r \in wire : Reject(r) \/ Swallow(r)
  BY <1>4 DEF Terminate, Reject, Swallow, ReportedAlarmRang, Running
<1>5. ASSUME NEW r \in wire, Accept(r) PROVE AlarmInv'
  <2>1. /\ r.send \in Number /\ r.body.time = r.send /\ rung \in [Number -> Nat]
        /\ sends' = sends /\ call' = call /\ sensor' = r.body /\ swallowed' = swallowed
        /\ accepted' = accepted \cup {r.send}
    BY <1>5 DEF Accept, TypeInv, TypeOK, Request, BodiesInv
  <2>2. PICK fresh \in Fresh(r) :
          rung' = IF Rings(r, fresh) THEN [rung EXCEPT ![r.send] = @ + 1] ELSE rung
    BY <1>5 DEF Accept
  <2>3. \A n \in Number : rung[n] \in Nat /\ rung'[n] \in Nat /\ rung'[n] >= rung[n]
    <3>1. CASE rung' = rung
      BY <2>1, <3>1
    <3>2. CASE rung' = [rung EXCEPT ![r.send] = @ + 1]
      BY <2>1, <3>2
    <3> QED BY <2>2, <3>1, <3>2
  <2>4. sends \in Number \/ ~Running
    BY DEF Running, TypeInv, TypeOK
  <2>5. ASSUME Running, call.body.alarm, sends \notin accepted, r.send = sends
        PROVE  rung'[sends] > 0
    <3>1. r.body = call.body /\ ~Ended(r)
      BY <2>5 DEF BodiesInv, Running, Ended
    <3>2. fresh = TRUE
      BY <2>2, <2>5, <3>1, StillFresh DEF Fresh
    <3>3. r.body # sensor
      BY <2>1, <2>4, <2>5 DEF Number
    <3>4. Rings(r, fresh)
      BY <2>5, <3>1, <3>2, <3>3 DEF Rings
    <3> QED BY <2>1, <2>2, <2>5, <3>4
  <2>6. ReportedAlarmRang'
    <3>1. call.pc # "idle" => sends \in Number
      BY DEF TypeInv, TypeOK
    <3>2. call.result = "nil" => call.pc = "done"
      BY DEF DeliveryInv, ResultShape
    <3> QED BY <2>1, <2>3, <3>1, <3>2 DEF ReportedAlarmRang
  <2>7. sensor'.time \in accepted'
    BY <2>1
  <2>8. Running' /\ call'.body.alarm /\ sends' \in accepted' => rung'[sends'] > 0
    BY <2>1, <2>3, <2>4, <2>5 DEF Running
  <2> QED BY <2>6, <2>7, <2>8
<1> QED BY <1>1, <1>2, <1>3, <1>4, <1>5 DEF Next, Network

\* An alarm whose call returned nil rang the phones, or Home Assistant answered 2xx to
\* a request of that call without taking it, provided that a payload is still young
\* when all the attempts and pauses of its call have passed.  On this rests that the
\* OnFailure unit stays silent when status.json says "reported".
THEOREM AlarmRang ==
    ASSUME NEW longest \in Nat, Punctual(longest)
    PROVE  Spec => []ReportedAlarmRang
<1> DEFINE Inv == TypeInv /\ AgeInv(longest) /\ DeliveryInv /\ BodiesInv /\ AlarmInv
<1>1. Init => Inv
  <2> SUFFICES ASSUME Init PROVE Inv
    OBVIOUS
  <2>1. TypeInv /\ call.pc = "idle"
    BY InitTypes, NoCallTypes DEF Init
  <2>2. AgeInv(longest) /\ DeliveryInv /\ BodiesInv
    BY <2>1 DEF Init, NoCall, AgeInv, Running, DeliveryInv, AnswerIsTrue, ResultShape, BodiesInv
  <2>3. AlarmInv
    BY <2>1 DEF Init, NoCall, NoPayload, AlarmInv, Running, ReportedAlarmRang
  <2> QED BY <2>1, <2>2, <2>3
<1>2. Inv /\ [Next]_vars => Inv'
  <2>1. ASSUME Inv, Next PROVE Inv'
    BY <2>1, BeginTypes, CallTypes, NetworkTypes, AgesKeep, AnswersStayTrue, BodiesKeep,
       AlarmsKeep DEF Next
  <2>2. Inv /\ UNCHANGED vars => Inv'
    BY DEF TypeInv, TypeOK, CallShape, AgeInv, Running, DeliveryInv, AnswerIsTrue,
           ResultShape, BodiesInv, AlarmInv, ReportedAlarmRang, vars
  <2> QED BY <2>1, <2>2
<1>3. Inv => ReportedAlarmRang
  BY DEF AlarmInv
<1> QED BY <1>1, <1>2, <1>3, PTL DEF Spec
=============================================================================
