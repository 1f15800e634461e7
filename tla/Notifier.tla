------------------------------ MODULE Notifier ------------------------------
(***************************************************************************)
(* Notifier.Send: one POST to the webhook of Home Assistant, tried a few   *)
(* times, and what Home Assistant makes of it: the sensor takes over the   *)
(* fields of the payload, and the alert automation rings the phones        *)
(* (internal/watch/notify.go; homeassistant/*.yaml).                       *)
(*                                                                         *)
(* Requests and answers get lost, a proxy answers for a Home Assistant     *)
(* that did or did not get the request, Home Assistant answers 200 to a    *)
(* request it does not take, a request that was given up may still arrive  *)
(* later, and SIGTERM cancels the context at any moment.                   *)
(*                                                                         *)
(* Calls follow one another.  Time is the age of the payload in seconds;   *)
(* it passes when an attempt times out and in the pauses.                  *)
(***************************************************************************)
EXTENDS Integers, Sequences, FiniteSets

CONSTANTS
    MaxAttempts,    \* attempts of one call (3)
    AttemptTimeout, \* seconds an attempt may take (10)
    Backoffs,       \* seconds of the pauses between them (<<5, 15>>)
    Ages,           \* how old a payload may be when Send gets it
    FreshFor,       \* the alert automation drops what is as old as this (1800)
    Texts,          \* what payloads say, apart from their time
    MaxSends,       \* bound: the calls
    MaxOverdue,     \* bound: requests that were given up and may still arrive
    Faults       \* which failures may happen, a subset of AllFaults

\* no connection; a request or an answer lost; a 5xx from Home Assistant or a
\* proxy; a 4xx; a 2xx for a request that is not taken; a request that arrives after
\* it was given up; SIGTERM.
AllFaults == {"connect", "lost", "server", "refuse", "deaf", "late", "term"}

ASSUME NotifierAssumption ==
    /\ MaxAttempts \in Nat \ {0}
    /\ AttemptTimeout \in Nat
    /\ Backoffs \in Seq(Nat) /\ Len(Backoffs) > 0
    /\ Ages \subseteq Nat /\ FreshFor \in Nat
    /\ MaxSends \in Nat /\ MaxOverdue \in Nat
    /\ Faults \subseteq AllFaults

VARIABLES
    sends,      \* how many calls of Send there were: the last one's number
    call,       \* the local state of the call in progress
    cancelled,  \* its context was cancelled
    wire,       \* the requests Home Assistant has not looked at yet
    answer,     \* the answer on its way back to the attempt in progress
    sensor,     \* sensor.photowatch_deleted: the payload it shows

\* Nothing below is read by the program or by Home Assistant.
    accepted,   \* history: the calls whose payload reached the sensor
    swallowed,  \* history: the calls with a request that got a 2xx and was not taken
    rung,       \* history: how often the phones rang for each call
    late        \* history: a request was accepted after its call had ended

vars == <<sends, call, cancelled, wire, answer, sensor, accepted, swallowed, rung, late>>

Number == 1 .. MaxSends

Payload == [time : Nat, text : Texts, alarm : BOOLEAN]
NoPayload == [time |-> -1]

Request == [send : Number, attempt : 1 .. MaxAttempts, body : Payload]

\* pc is the next thing the call will do; "done" is about to return its result.
Results == {"none", "nil", "permanent", "aborted", "exhausted"}
Call == [pc : {"idle", "attempt", "waiting", "failed", "pause", "done"},
         attempt : 0 .. MaxAttempts, body : Payload \cup {NoPayload},
         age : Nat, result : Results]

NoCall == [pc |-> "idle", attempt |-> 0, body |-> NoPayload, age |-> 0, result |-> "none"]

Init ==
    /\ sends = 0 /\ call = NoCall /\ cancelled = FALSE
    /\ wire = {} /\ answer = "none"
    /\ sensor = NoPayload
    /\ accepted = {} /\ swallowed = {} /\ rung = [n \in Number |-> 0] /\ late = FALSE

(***************************************************************************)
(* The program.                                                            *)
(***************************************************************************)

\* Mutant of NewPayload: without a field that differs from run to run.
NewPayloadTimeless(text, alarm) == [time |-> 0, text |-> text, alarm |-> alarm]

\* newPayload: its time tells it from every other one.
NewPayload(text, alarm) == [time |-> sends + 1, text |-> text, alarm |-> alarm]

\* Send is called; the context may be cancelled already.
Begin(text, alarm, age) ==
    /\ call.pc = "idle"
    /\ sends < MaxSends
    /\ sends' = sends + 1
    /\ call' = [NoCall EXCEPT !.pc = "attempt", !.attempt = 1, !.age = age,
                              !.body = NewPayload(text, alarm)]
    /\ cancelled' \in IF "term" \in Faults THEN BOOLEAN ELSE {FALSE}
    /\ answer' = "none"
    /\ UNCHANGED <<wire, sensor, accepted, swallowed, rung, late>>

\* Given up, and neither lost nor looked at by Home Assistant.
Overdue == {w \in SUBSET wire : Cardinality(w) =< MaxOverdue}

\* Mutant of Post: the time of the payload is that of the attempt.
PostStamped ==
    [send |-> sends, attempt |-> call.attempt,
     body |-> [call.body EXCEPT !.time = MaxAttempts * sends + call.attempt]]

\* The payload is encoded once, so that every attempt sends the same.
Post == [send |-> sends, attempt |-> call.attempt, body |-> call.body]

\* oneAttempt: the POST goes out.  Of the requests before it some are lost.
Attempt ==
    /\ call.pc = "attempt" /\ ~cancelled
    /\ \E overdue \in Overdue :
        wire' = overdue \cup {Post}
    /\ call' = [call EXCEPT !.pc = "waiting"]
    /\ answer' = "none"
    /\ UNCHANGED <<sends, cancelled, sensor, accepted, swallowed, rung, late>>

\* No connection comes about; with a cancelled context none is tried.
AttemptFails ==
    /\ call.pc = "attempt"
    /\ \/ cancelled /\ call' = [call EXCEPT !.pc = "failed"]
       \/ /\ ~cancelled /\ "connect" \in Faults
          /\ \E t \in {0, AttemptTimeout} :
                call' = [call EXCEPT !.pc = "failed", !.age = @ + t]
    /\ UNCHANGED <<sends, cancelled, wire, answer, sensor, accepted, swallowed, rung, late>>

Done(result) == [call EXCEPT !.pc = "done", !.result = result]

\* Mutant of Success: whatever was answered, the request has been there.
SuccessAnyAnswer ==
    /\ call.pc = "waiting" /\ answer # "none"
    /\ call' = Done("nil")
    /\ UNCHANGED <<sends, cancelled, wire, answer, sensor, accepted, swallowed, rung, late>>

\* A 2xx: Home Assistant is taken to have it.
Success ==
    /\ call.pc = "waiting" /\ answer = "2xx"
    /\ call' = Done("nil")
    /\ UNCHANGED <<sends, cancelled, wire, answer, sensor, accepted, swallowed, rung, late>>

\* A 4xx is permanent.
Refused ==
    /\ call.pc = "waiting" /\ answer = "4xx"
    /\ call' = Done("permanent")
    /\ UNCHANGED <<sends, cancelled, wire, answer, sensor, accepted, swallowed, rung, late>>

\* Any other answer, no answer in time, or a context cancelled meanwhile: the
\* attempt has failed, whatever became of its request.
Unanswered ==
    /\ call.pc = "waiting"
    /\ \/ answer = "5xx" /\ call' = [call EXCEPT !.pc = "failed"]
       \/ /\ answer = "none"
          /\ \E t \in {0, AttemptTimeout} :
                call' = [call EXCEPT !.pc = "failed", !.age = @ + t]
       \/ cancelled /\ call' = [call EXCEPT !.pc = "failed"]
    /\ UNCHANGED <<sends, cancelled, wire, answer, sensor, accepted, swallowed, rung, late>>

\* Mutant of GiveUp: the last attempt is followed by a pause and another one.
GiveUpLate ==
    /\ call.pc = "failed"
    /\ call' = IF cancelled THEN Done("aborted")
               ELSE IF call.attempt =< MaxAttempts
               THEN [call EXCEPT !.pc = "pause"]
               ELSE Done("exhausted")
    /\ UNCHANGED <<sends, cancelled, wire, answer, sensor, accepted, swallowed, rung, late>>

\* After a failed attempt: stop when cancelled, pause, or give up.
GiveUp ==
    /\ call.pc = "failed"
    /\ call' = IF cancelled THEN Done("aborted")
               ELSE IF call.attempt < MaxAttempts
               THEN [call EXCEPT !.pc = "pause"]
               ELSE Done("exhausted")
    /\ UNCHANGED <<sends, cancelled, wire, answer, sensor, accepted, swallowed, rung, late>>

Backoff(attempt) ==
    Backoffs[IF attempt =< Len(Backoffs) THEN attempt ELSE Len(Backoffs)]

\* Mutant of Retry: an attempt that got no answer does not count.
RetryUncounted ==
    /\ call.pc = "pause"
    /\ call' = [call EXCEPT !.pc = "attempt",
                            !.attempt = IF answer = "none" THEN @ ELSE @ + 1]
    /\ UNCHANGED <<sends, cancelled, wire, answer, sensor, accepted, swallowed, rung, late>>

\* The pause is over.  When the context is cancelled at that very moment, select
\* takes either case.
Retry ==
    /\ call.pc = "pause"
    /\ call' = [call EXCEPT !.pc = "attempt", !.attempt = @ + 1,
                            !.age = @ + Backoff(call.attempt)]
    /\ UNCHANGED <<sends, cancelled, wire, answer, sensor, accepted, swallowed, rung, late>>

PauseAborted ==
    /\ call.pc = "pause" /\ cancelled
    /\ call' = Done("aborted")
    /\ UNCHANGED <<sends, cancelled, wire, answer, sensor, accepted, swallowed, rung, late>>

\* Send returns.
Return(ok) ==
    /\ call.pc = "done" /\ ok = (call.result = "nil")
    /\ call' = NoCall
    /\ UNCHANGED <<sends, cancelled, wire, answer, sensor, accepted, swallowed, rung, late>>

\* The process dies in the call.
Die ==
    /\ call.pc # "idle"
    /\ call' = NoCall
    /\ UNCHANGED <<sends, cancelled, wire, answer, sensor, accepted, swallowed, rung, late>>

\* systemctl stop, or TimeoutStartSec.
Terminate ==
    /\ "term" \in Faults
    /\ call.pc # "idle" /\ ~cancelled
    /\ cancelled' = TRUE
    /\ UNCHANGED <<sends, call, wire, answer, sensor, accepted, swallowed, rung, late>>

(***************************************************************************)
(* The network and Home Assistant.                                         *)
(***************************************************************************)

\* The attempt in progress waits for the answer to this request.
Awaited(r) == call.pc = "waiting" /\ r.send = sends /\ r.attempt = call.attempt

\* Its call has ended.
Ended(r) == r.send # sends \/ call.pc \in {"idle", "done"}

CanArrive(r) == Awaited(r) \/ "late" \in Faults

\* An answer from Home Assistant or a proxy reaches the attempt, or gets lost.
Answers(r, codes) ==
    answer' \in IF Awaited(r)
                THEN codes \cup (IF "lost" \in Faults THEN {"none"} ELSE {})
                ELSE {answer}

\* The alert automation: every change of the sensor triggers it; it rings for an
\* alarm that is not as old as what Home Assistant restores when it starts.
Rings(r, fresh) == r.body # sensor /\ r.body.alarm /\ fresh

\* How old the payload of an earlier call is when its request arrives is not
\* known; that of this call has its age.
Fresh(r) == IF Ended(r) THEN BOOLEAN ELSE {call.age < FreshFor}

\* The webhook: the sensor shows the payload.  The answer may be the 5xx of a
\* proxy that no longer waited.
Accept(r) ==
    /\ CanArrive(r)
    /\ wire' = wire \ {r}
    /\ sensor' = r.body
    /\ accepted' = accepted \cup {r.send}
    /\ \E fresh \in Fresh(r) :
        rung' = IF Rings(r, fresh) THEN [rung EXCEPT ![r.send] = @ + 1] ELSE rung
    /\ late' = (late \/ Ended(r))
    /\ Answers(r, {"2xx"} \cup (IF "server" \in Faults THEN {"5xx"} ELSE {}))
    /\ UNCHANGED <<sends, call, cancelled, swallowed>>

\* Home Assistant is starting, or a proxy refuses: the sensor learns nothing.
Reject(r) ==
    /\ Awaited(r)
    /\ wire' = wire \ {r}
    /\ \/ "server" \in Faults /\ Answers(r, {"5xx"})
       \/ "refuse" \in Faults /\ Answers(r, {"4xx"})
    /\ UNCHANGED <<sends, call, cancelled, sensor, accepted, swallowed, rung, late>>

\* A webhook id Home Assistant does not know, or a request that does not look local
\* (local_only): it answers 200 and the sensor learns nothing.
Swallow(r) ==
    /\ "deaf" \in Faults
    /\ Awaited(r)
    /\ wire' = wire \ {r}
    /\ swallowed' = swallowed \cup {r.send}
    /\ Answers(r, {"2xx"} \cup (IF "server" \in Faults THEN {"5xx"} ELSE {}))
    /\ UNCHANGED <<sends, call, cancelled, sensor, accepted, rung, late>>

(***************************************************************************)
(* The specification.                                                      *)
(***************************************************************************)

\* The call takes a step of its own.
CallStep ==
    \/ Attempt \/ AttemptFails
    \/ Success \/ Refused \/ Unanswered
    \/ GiveUp \/ Retry \/ PauseAborted

Network ==
    \/ Terminate
    \/ \E r \in wire : Accept(r) \/ Reject(r) \/ Swallow(r)

Next ==
    \/ \E text \in Texts, alarm \in BOOLEAN, age \in Ages : Begin(text, alarm, age)
    \/ CallStep \/ Network
    \/ \E ok \in BOOLEAN : Return(ok)
    \/ Die

Spec == Init /\ [][Next]_vars

\* The process takes its next step; nothing is asked of the network or of HA.
FairSpec ==
    /\ Spec
    /\ WF_vars(CallStep) /\ WF_vars(\E ok \in BOOLEAN : Return(ok))

(***************************************************************************)
(* Properties.                                                             *)
(***************************************************************************)

\* Every variable has its type; what is on the wire was sent by a call there was.
TypeOK ==
    /\ sends \in 0 .. MaxSends
    /\ call \in Call /\ (call.pc # "idle" => sends \in Number)
    /\ cancelled \in BOOLEAN /\ late \in BOOLEAN
    /\ wire \subseteq Request /\ \A r \in wire : r.send =< sends
    /\ answer \in {"none", "2xx", "4xx", "5xx"}
    /\ sensor \in Payload \cup {NoPayload}
    /\ accepted \subseteq 1 .. sends /\ swallowed \subseteq 1 .. sends
    /\ rung \in [Number -> Nat]

Outcome ==
    IF call.pc # "done" THEN "none" ELSE IF call.result = "nil" THEN "ok" ELSE "failed"

Promise == INSTANCE Delivery WITH
    count <- sends, open <- call.pc # "idle", outcome <- Outcome,
    arrived <- accepted, swallowed <- swallowed

\* The attempts, pauses and answers add up to a delivery: Send returns nil only for
\* a message Home Assistant has, or one it answered with a 2xx without taking it
\* (notify.go:224-227), and whatever it says of one message says nothing of another.
Delivers == Promise!Spec

\* status.json says "reported" of a message whose Send returned nil, and then the
\* OnFailure unit stays silent (run.go:131).  So a phone has rung for it, unless Home
\* Assistant answered 2xx to a request of this very call without taking it: also when
\* the message repeats the failure of the day before word for word, when only a later
\* attempt was answered, and when the run took as long as its timeouts allow.  For the
\* exception there is the dead man's switch (report.go:517-521, DeadMan).
ReportedAlarmRang ==
    call.result = "nil" /\ call.body.alarm => rung[sends] > 0 \/ sends \in swallowed

\* However often a payload is posted, it rings once, because an attempt that
\* repeats it changes nothing; only a request that arrives after its call had ended
\* can put an older payload between two.
RingsOnce == \A n \in Number : rung[n] > 1 => late

\* Send ends, whatever the network does: no answer, no refusal and no SIGTERM keeps
\* a run from its state file.
SendEnds == call.pc # "idle" ~> call.pc = "idle"
=============================================================================
