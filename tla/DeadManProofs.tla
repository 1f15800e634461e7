--------------------------- MODULE DeadManProofs ---------------------------
(***************************************************************************)
(* The dead man's switch, for every choice of the hours and of the limit:  *)
(* no false alarm as long as the limit covers the hours from midnight to   *)
(* the look, and silence is noticed as long as it is not above two days.   *)
(***************************************************************************)
EXTENDS DeadMan, TLAPS

TypeOK ==
    /\ now \in Nat
    /\ last_run \in heard \cup {Never}
    /\ due \in BOOLEAN
    /\ alarms \subseteq looked /\ looked \subseteq Nat
    /\ heard \subseteq 0 .. now

\* The sensor shows the newest message, and no message comes at noon sharp.
SensorInv ==
    /\ last_run = Never => heard = {}
    /\ \A t \in heard : t =< last_run /\ t % Day # Noon

\* The automation looks at noon, and has looked at no noon to come.
LookInv ==
    /\ due => now % Day = Noon
    /\ \A d \in looked : NoonOf(d) =< now

Inv == TypeOK /\ SensorInv /\ LookInv

\* A noon is that of its day.
LEMMA NoonOfToday ==
    ASSUME now \in Nat, now % Day = Noon
    PROVE  Today \in Nat /\ now = NoonOf(Today)
BY DEF Day, Today, NoonOf

LEMMA InitInv == Init => Inv
<1> SUFFICES ASSUME Init PROVE Inv
  OBVIOUS
<1>1. TypeOK
  BY DEF Init, TypeOK
<1>2. SensorInv
  BY DEF Init, SensorInv
<1>3. LookInv
  BY DEF Init, LookInv
<1> QED BY <1>1, <1>2, <1>3 DEF Inv

LEMMA StepInv == ASSUME Inv, [Next]_vars PROVE Inv'
<1> USE DEF Inv
<1>1. CASE Pass
  <2>1. PICK t \in Moments : t > now /\ now' = t /\ due' = (t % Day = Noon)
    BY <1>1 DEF Pass
  <2>2. t \in Nat
    BY <2>1, DeadManAssumption DEF Moments, Day
  <2>3. TypeOK'
    BY <1>1, <2>1, <2>2 DEF Pass, TypeOK
  <2>4. SensorInv'
    BY <1>1 DEF Pass, SensorInv
  <2>5. LookInv'
    <3>1. \A d \in looked : NoonOf(d) \in Nat
      BY DeadManAssumption DEF TypeOK, NoonOf, Day
    <3> QED BY <1>1, <2>1, <2>2, <3>1 DEF Pass, LookInv, TypeOK
  <2> QED BY <2>3, <2>4, <2>5
<1>2. CASE Message
  <2>1. now % Day # Noon
    BY <1>2, DeadManAssumption DEF Message
  <2>2. TypeOK'
    BY <1>2 DEF Message, TypeOK
  <2>3. SensorInv'
    <3>1. now # Never /\ last_run' = now /\ heard' = heard \cup {now} /\ now' = now
      BY <1>2 DEF Message, TypeOK, Never
    <3> QED BY <2>1, <3>1 DEF TypeOK, SensorInv
  <2> QED BY <1>2, <2>2, <2>3 DEF Message, LookInv
<1>3. CASE Look
  <2>1. Today \in Nat /\ now = NoonOf(Today)
    BY <1>3, NoonOfToday DEF Look, LookInv, TypeOK
  <2>2. looked' = looked \cup {Today} /\ alarms' \subseteq looked' /\ due' = FALSE
        /\ UNCHANGED <<now, last_run, heard>>
    BY <1>3 DEF Look, TypeOK
  <2>3. \A d \in looked' : NoonOf(d) =< now'
    BY <2>1, <2>2 DEF LookInv, TypeOK
  <2> QED BY <2>1, <2>2, <2>3 DEF TypeOK, SensorInv, LookInv
<1>4. CASE NotLooked
  BY <1>4 DEF NotLooked, TypeOK, SensorInv, LookInv
<1>5. CASE UNCHANGED vars
  BY <1>5 DEF vars, TypeOK, SensorInv, LookInv
<1> QED BY <1>1, <1>2, <1>3, <1>4, <1>5 DEF Next

\* A message that comes later changes nothing in the mornings that are over.
LEMMA AlarmsStep ==
    ASSUME Noon =< Limit, Inv, AlarmsAreReal, [Next]_vars
    PROVE  AlarmsAreReal'
<1> USE DEF Inv
<1>1. CASE Message
  <2>1. alarms' = alarms /\ heard' = heard \cup {now}
    BY <1>1 DEF Message
  <2>2. \A d \in alarms : ~(d * Day =< now /\ now < NoonOf(d))
    BY DeadManAssumption DEF LookInv, TypeOK, NoonOf, Day
  <2> QED BY <2>1, <2>2 DEF AlarmsAreReal, HeardBetween
<1>2. CASE Look /\ Silent
  <2>1. Today \in Nat /\ now = NoonOf(Today)
    BY <1>2, NoonOfToday DEF Look, LookInv, TypeOK
  <2>2. \A t \in heard : t < now - Limit
    BY <1>2, DeadManAssumption DEF Silent, SensorInv, TypeOK, Never
  <2>3. ~HeardBetween(Today * Day, NoonOf(Today))
    BY <2>1, <2>2, DeadManAssumption DEF HeardBetween, NoonOf, Day, TypeOK
  <2>4. alarms' = alarms \cup {Today} /\ heard' = heard
    BY <1>2 DEF Look
  <2> QED BY <2>3, <2>4 DEF AlarmsAreReal, HeardBetween
<1>3. CASE Pass \/ NotLooked \/ UNCHANGED vars \/ (Look /\ ~Silent)
  <2>1. alarms' = alarms /\ heard' = heard
    BY <1>3 DEF Pass, NotLooked, vars, Look
  <2> QED BY <2>1 DEF AlarmsAreReal, HeardBetween
<1> QED BY <1>1, <1>2, <1>3 DEF Next

\* What was silent when it was looked at was called so; it is never less silent.
LEMMA SilenceStep ==
    ASSUME Limit =< 2 * Day, Inv, SilenceIsNoticed, [Next]_vars
    PROVE  SilenceIsNoticed'
<1> USE DEF Inv
<1>1. CASE Look
  <2>1. Today \in Nat /\ now = NoonOf(Today)
    BY <1>1, NoonOfToday DEF Look, LookInv, TypeOK
  <2>2. looked' = looked \cup {Today} /\ heard' = heard /\ alarms \subseteq alarms'
    BY <1>1 DEF Look
  <2>3. CASE Silent
    <3>1. Today \in alarms'
      BY <1>1, <2>3 DEF Look
    <3> QED BY <2>2, <3>1 DEF SilenceIsNoticed, HeardBetween
  <2>4. CASE ~Silent
    <3>1. last_run \in heard /\ now - last_run =< Limit /\ last_run < now
      BY <1>1, <2>4, DeadManAssumption DEF Silent, TypeOK, SensorInv, LookInv, Look
    <3>2. HeardBetween(NoonOf(Today - 2), NoonOf(Today))
      BY <2>1, <3>1, DeadManAssumption DEF HeardBetween, NoonOf, Day, TypeOK
    <3> QED BY <2>2, <3>2 DEF SilenceIsNoticed, HeardBetween
  <2> QED BY <2>3, <2>4
<1>2. CASE Pass \/ NotLooked \/ Message \/ UNCHANGED vars
  <2>1. looked' = looked /\ alarms' = alarms /\ heard \subseteq heard'
    BY <1>2 DEF Pass, NotLooked, Message, vars
  <2> QED BY <2>1 DEF SilenceIsNoticed, HeardBetween
<1> QED BY <1>1, <1>2 DEF Next

\* Whatever the hours of the messages are: when the limit is at least the time from
\* midnight to the look, no alarm is given on a day of which a message was heard
\* before noon.
THEOREM NoFalseAlarm == ASSUME Noon =< Limit PROVE Spec => []AlarmsAreReal
<1>1. Init => AlarmsAreReal
  BY DEF Init, AlarmsAreReal
<1> QED BY <1>1, InitInv, StepInv, AlarmsStep, PTL DEF Spec

\* Whatever the hours of the messages are: when the limit is not above two days,
\* whoever looks after two days without a message calls it silent.
THEOREM NoSilenceMissed == ASSUME Limit =< 2 * Day PROVE Spec => []SilenceIsNoticed
<1>1. Init => SilenceIsNoticed
  BY DEF Init, SilenceIsNoticed
<1> QED BY <1>1, InitInv, StepInv, SilenceStep, PTL DEF Spec
=============================================================================
