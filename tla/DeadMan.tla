------------------------------ MODULE DeadMan ------------------------------
(***************************************************************************)
(* The dead man's switch in Home Assistant: the heartbeat sensor           *)
(* (template-photowatch.yaml) and the automation "task is silent"          *)
(* (automations-photowatch.yaml), against the hours at which messages come *)
(* (photowatch.timer).                                                     *)
(*                                                                         *)
(* The sensor takes the moment at which any message is accepted: of the    *)
(* timed run, of a run caught up with or started by hand, and of the       *)
(* OnFailure unit.  The automation looks at it once a day.  Time is in     *)
(* minutes; days have 24 hours.  A message that is refused or lost is a    *)
(* message that does not come.                                             *)
(***************************************************************************)
EXTENDS Integers

CONSTANTS
    Mornings,   \* minutes of a day at which the timed run's message may come
    Others,     \* minutes at which any other message may come
    Noon,       \* minute at which the automation looks: 12:00
    Limit,      \* age of the sensor that is called silent: 108000 seconds
    MaxDay      \* bound: the last day

Day == 1440

ASSUME DeadManAssumption ==
    /\ Mornings \subseteq 0 .. Noon - 1
    /\ Others \subseteq 0 .. Day - 1
    /\ Noon \in 1 .. Day - 1 /\ Noon \notin Others
    /\ Limit \in Nat /\ MaxDay \in Nat

Never == -1

VARIABLES
    now,        \* minutes since the midnight before the first day
    last_run,   \* sensor.photowatch_last_run, Never when unknown
    due,        \* the automation still has to look at this noon
    alarms,     \* days on which both phones were told that the task is silent
    looked,     \* history: days on which the automation looked
    heard       \* history: the moments at which messages were accepted

vars == <<now, last_run, due, alarms, looked, heard>>

Today == now \div Day

Init ==
    /\ now = 0
    /\ last_run = Never
    /\ due = FALSE
    /\ alarms = {} /\ looked = {} /\ heard = {}

\* The moments at which something may happen.
Moments == {d * Day + m : d \in 0 .. MaxDay, m \in Mornings \cup Others \cup {Noon}}

\* Time moves to the next moment; a noon is not passed before it is looked at.
Pass ==
    /\ ~due
    /\ \E t \in Moments :
        /\ t > now /\ \A u \in Moments : u > now => t =< u
        /\ now' = t
        /\ due' = (t % Day = Noon)
    /\ UNCHANGED <<last_run, alarms, looked, heard>>

\* The webhook accepts a message: state is now(), whatever the payload says.
Message ==
    /\ now % Day \in Mornings \cup Others
    /\ last_run # now
    /\ last_run' = now
    /\ heard' = heard \cup {now}
    /\ UNCHANGED <<now, due, alarms, looked>>

\* Mutant of Silent: 10800 seconds.
SilentAfterThreeHours == last_run = Never \/ now - last_run > Limit \div 10

\* Mutant of Silent: unknown does not count.
SilentIfKnown == last_run # Never /\ now - last_run > Limit

\* The condition of the automation.
Silent == last_run = Never \/ now - last_run > Limit

\* The trigger at 12:00.
Look ==
    /\ due
    /\ due' = FALSE
    /\ looked' = looked \cup {Today}
    /\ alarms' = IF Silent THEN alarms \cup {Today} ELSE alarms
    /\ UNCHANGED <<now, last_run, heard>>

\* Home Assistant is down at noon: a time trigger is not caught up with.
NotLooked ==
    /\ due
    /\ due' = FALSE
    /\ UNCHANGED <<now, last_run, alarms, looked, heard>>

Next == Pass \/ Message \/ Look \/ NotLooked

Spec == Init /\ [][Next]_vars

(***************************************************************************)
(* Properties.                                                             *)
(***************************************************************************)

NoonOf(d) == d * Day + Noon

HeardBetween(from, to) == \E t \in heard : from =< t /\ t < to

\* The alarm is never false: on a day of an alarm there was no message that
\* morning, however long the spread and the duration of the run
\* (automations-photowatch.yaml:98, "long enough for the 5 minute spread").
AlarmsAreReal ==
    \A d \in alarms : ~HeardBetween(d * Day, NoonOf(d))

\* Two days without a message are noticed, unless nobody looked; so is a task of
\* which nothing was ever heard.
SilenceIsNoticed ==
    \A d \in looked : ~HeardBetween(NoonOf(d - 2), NoonOf(d)) => d \in alarms

\* "Short enough to catch one missed day" (automations-photowatch.yaml:98): when
\* nothing is heard from one noon to the next, one of the two looks after it says
\* so.
MissedDayIsCaught ==
    \A d \in looked :
        d - 1 \in looked /\ ~HeardBetween(NoonOf(d - 2), NoonOf(d - 1))
            => {d - 1, d} \cap alarms # {}
=============================================================================
