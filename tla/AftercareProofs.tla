-------------------------- MODULE AftercareProofs --------------------------
(***************************************************************************)
(* No side issue is lost, and none is told twice, for any number of runs   *)
(* and any set of failures.                                                *)
(***************************************************************************)
EXTENDS Aftercare, TLAPS

\* An issue that needs no message any more.
Done(i) == i = None \/ i \in lost \/ told[i] > 0

\* Where the issue of status.json stands at every step of the run: a run that has
\* a plan took it along, and after its message it is done.  Only a run on its way to
\* the second write has an issue of its own.
EarlierIsHeld ==
    /\ run.pc \in {"read", "work"} => ~run.plan
    /\ run.pc = "work" => run.earlier = status \/ Done(status)
    /\ run.pc = "send" /\ run.plan => run.earlier = status \/ Done(status)
    /\ run.pc = "first" /\ run.plan => Done(status)
    /\ run.pc \in {"aftercare", "second"} => Done(status)
    /\ run.pc # "second" => run.issue = None

LostInv == TypeOK /\ NoIssueIsLost /\ EarlierIsHeld

\* Nothing was met before the first run.
LEMMA InitLost == Init => LostInv
  BY AftercareAssumption DEF Init, LostInv, TypeOK, NoIssueIsLost, EarlierIsHeld, Run, Idle,
     Issue, None, OnTheirWay, Done

\* Types survive every step.
LEMMA TypeStep == TypeOK /\ [Next]_vars => TypeOK'
  <1> SUFFICES ASSUME TypeOK, [Next]_vars PROVE TypeOK'
    OBVIOUS
  <1> USE DEF TypeOK, Run, Idle, history
  <1>1. CASE Start
    <2>1. runs + 1 \in Issue
      BY <1>1, AftercareAssumption DEF Start, Issue
    <2> QED
      BY <1>1, <2>1 DEF Start
  <1>2. CASE Kill
    BY <1>2 DEF Kill
  <1>3. CASE Read
    BY <1>3 DEF Read
  <1>4. CASE ReadFails
    BY <1>4 DEF ReadFails
  <1>5. CASE Build \/ BuildTooLong
    BY <1>5, ZenonT(40) DEF Build, BuildTooLong
  <1>6. CASE StrandEarly
    BY <1>6 DEF StrandEarly
  <1>7. CASE Send
    BY <1>7 DEF Send
  <1>8. CASE SendFails
    BY <1>8 DEF SendFails
  <1>9. CASE FirstWrite
    BY <1>9 DEF FirstWrite, StateAfterRun, AfterFirst
  <1>10. CASE FirstWriteFails
    BY <1>10 DEF FirstWriteFails, AfterFirst
  <1>11. CASE Work
    BY <1>11, ZenonT(40) DEF Work
  <1>12. CASE SecondWrite
    BY <1>12 DEF SecondWrite
  <1>13. CASE SecondWriteFails
    BY <1>13 DEF SecondWriteFails
  <1>14. CASE UNCHANGED vars
    BY <1>14 DEF vars
  <1> QED
    BY <1>1, <1>2, <1>3, <1>4, <1>5, <1>6, <1>7, <1>8, <1>9, <1>10, <1>11, <1>12,
       <1>13, <1>14 DEF Next

\* So do the two other parts.
LEMMA LostStep == LostInv /\ [Next]_vars => LostInv'
  <1> SUFFICES ASSUME LostInv, [Next]_vars PROVE NoIssueIsLost' /\ EarlierIsHeld'
    BY TypeStep DEF LostInv
  <1> USE DEF LostInv, NoIssueIsLost, EarlierIsHeld, OnTheirWay, Done, TypeOK, Run, Idle, history
  <1>1. CASE Start
    BY <1>1 DEF Start
  <1>2. CASE Kill
    BY <1>2 DEF Kill
  <1>3. CASE Read \/ ReadFails
    BY <1>3 DEF Read, ReadFails
  <1>4. CASE Build \/ BuildTooLong \/ StrandEarly
    <2>1. CASE Build
      BY <2>1 DEF Build
    <2>2. CASE BuildTooLong
      BY <2>2 DEF BuildTooLong
    <2>3. CASE StrandEarly
      BY <2>3 DEF StrandEarly
    <2> QED
      BY <1>4, <2>1, <2>2, <2>3
  <1>5. CASE Send
    <2>1. \A i \in Issue : told[i] > 0 => told'[i] > 0
      BY <1>5 DEF Send
    <2>2. run.earlier \in Issue => told'[run.earlier] > 0
      BY <1>5 DEF Send
    <2> QED
      BY <1>5, <2>1, <2>2 DEF Send
  <1>6. CASE SendFails
    BY <1>6 DEF SendFails
  <1>7. CASE FirstWrite
    BY <1>7 DEF FirstWrite, StateAfterRun, AfterFirst
  <1>8. CASE FirstWriteFails
    BY <1>8 DEF FirstWriteFails, AfterFirst
  <1>9. CASE Work
    <2>1. PICK issue \in {runs, None} :
            /\ run' = [run EXCEPT !.pc = "second", !.issue = issue]
            /\ raised' = raised \cup ({issue} \ {None})
      BY <1>9 DEF Work
    <2>2. run'.issue = issue /\ run'.pc = "second"
      BY <2>1
    <2>3. None \notin raised
      BY AftercareAssumption DEF Issue, None
    <2>4. NoIssueIsLost'
      BY <1>9, <2>1, <2>2, <2>3 DEF Work
    <2> QED
      BY <1>9, <2>1, <2>2, <2>4 DEF Work
  <1>10. CASE SecondWrite
    BY <1>10 DEF SecondWrite
  <1>11. CASE SecondWriteFails
    BY <1>11 DEF SecondWriteFails
  <1>12. CASE UNCHANGED vars
    BY <1>12 DEF vars
  <1> QED
    BY <1>1, <1>2, <1>3, <1>4, <1>5, <1>6, <1>7, <1>8, <1>9, <1>10, <1>11, <1>12 DEF Next

\* Every side issue is on its way, told, or taken by a failure of its own
\* (stateAfterRun and the two writes around the aftercare).
THEOREM IssuesAreNotLost == Spec => []NoIssueIsLost
  <1>1. LostInv => NoIssueIsLost
    BY DEF LostInv
  <1> QED
    BY InitLost, LostStep, <1>1, PTL DEF Spec

\* An issue that may still be told, because no message has carried it, or because
\* it is known to be in status.json after its message.
Fresh(i) == i = None \/ told[i] = 0 \/ i \in stuck

\* What a run may tell is fresh; only issues there were are told; and the number of
\* a run is no issue before its aftercare.
TellIsFresh ==
    /\ run.pc \in {"idle", "read", "work", "send"} => Fresh(status)
    /\ run.pc = "first" /\ ~run.plan => Fresh(status)
    /\ run.pc \in {"read", "work", "send"} => Fresh(run.earlier)
    /\ run.pc \in {"aftercare", "second"} => status = None \/ status \in stuck
    /\ run.pc = "send" /\ run.earlier # None => run.plan
    /\ run.pc = "second" => Fresh(run.issue)

RaisedInOrder ==
    /\ \A i \in raised : i =< runs
    /\ run.pc \notin {"idle", "second"} => runs \notin raised
    /\ \A i \in Issue \ raised : told[i] = 0

TellInv == LostInv /\ ToldOnce /\ TellIsFresh /\ RaisedInOrder

\* Nothing was told before the first run.
LEMMA InitTell == Init => TellInv
  BY InitLost DEF Init, TellInv, ToldOnce, TellIsFresh, RaisedInOrder, Fresh, Idle, Issue, None

\* Numbers of runs are given out in order, and only what was met is told.
LEMMA OrderStep == LostInv /\ RaisedInOrder /\ [Next]_vars => RaisedInOrder'
  <1> SUFFICES ASSUME LostInv, RaisedInOrder, [Next]_vars PROVE RaisedInOrder'
    OBVIOUS
  <1>0. raised \subseteq Nat /\ runs \in Nat /\ None \notin Issue
    BY AftercareAssumption DEF LostInv, TypeOK, Issue, None
  <1> USE <1>0 DEF RaisedInOrder, LostInv, TypeOK, Run, Idle, history
  <1>1. CASE Start
    BY <1>1 DEF Start
  <1>2. CASE Kill
    BY <1>2 DEF Kill
  <1>3. CASE Read \/ ReadFails \/ Build \/ BuildTooLong \/ StrandEarly
    BY <1>3 DEF Read, ReadFails, Build, BuildTooLong, StrandEarly
  <1>4. CASE Send
    BY <1>4 DEF Send
  <1>5. CASE SendFails
    BY <1>5 DEF SendFails
  <1>6. CASE FirstWrite \/ FirstWriteFails
    BY <1>6 DEF FirstWrite, FirstWriteFails, AfterFirst
  <1>7. CASE Work
    BY <1>7 DEF Work
  <1>8. CASE SecondWrite \/ SecondWriteFails
    <2>1. run'.pc = "idle" /\ UNCHANGED <<runs, raised, told>>
      BY <1>8 DEF SecondWrite, SecondWriteFails
    <2> QED
      BY <2>1
  <1>9. CASE UNCHANGED vars
    BY <1>9 DEF vars
  <1> QED
    BY <1>1, <1>2, <1>3, <1>4, <1>5, <1>6, <1>7, <1>8, <1>9 DEF Next

\* A step tells only what is fresh, and leaves only fresh issues to be told.
LEMMA TellStep == TellInv /\ [Next]_vars => TellInv'
  <1> SUFFICES ASSUME TellInv, [Next]_vars PROVE ToldOnce' /\ TellIsFresh'
    BY LostStep, OrderStep DEF TellInv
  <1>0. None \notin Issue
    BY AftercareAssumption DEF Issue, None
  <1> USE <1>0 DEF TellInv, ToldOnce, TellIsFresh, Fresh, LostInv, EarlierIsHeld, TypeOK, Run,
                   Idle, history
  <1>1. CASE Start
    BY <1>1 DEF Start
  <1>2. CASE Kill
    BY <1>2 DEF Kill
  <1>3. CASE Read \/ ReadFails
    BY <1>3 DEF Read, ReadFails
  <1>4. CASE Build
    BY <1>4 DEF Build
  <1>5. CASE BuildTooLong \/ StrandEarly
    BY <1>5 DEF BuildTooLong, StrandEarly
  <1>6. CASE Send
    <2>1. \A i \in Issue \ {run.earlier} : told'[i] = told[i]
      BY <1>6 DEF Send
    <2>2. run.earlier \in Issue => told'[run.earlier] = told[run.earlier] + 1
      BY <1>6 DEF Send
    <2>3. ToldOnce'
      BY <1>6, <2>1, <2>2 DEF Send
    <2> QED
      BY <1>6, <2>1, <2>3 DEF Send
  <1>7. CASE SendFails
    BY <1>7 DEF SendFails
  <1>8. CASE FirstWrite
    BY <1>8 DEF FirstWrite, StateAfterRun, AfterFirst
  <1>9. CASE FirstWriteFails
    BY <1>9 DEF FirstWriteFails, AfterFirst
  <1>10. CASE Work
    <2>1. told[runs] = 0
      BY <1>10 DEF Work, RaisedInOrder
    <2> QED
      BY <1>10, <2>1 DEF Work
  <1>11. CASE SecondWrite \/ SecondWriteFails
    BY <1>11 DEF SecondWrite, SecondWriteFails
  <1>12. CASE UNCHANGED vars
    BY <1>12 DEF vars
  <1> QED
    BY <1>1, <1>2, <1>3, <1>4, <1>5, <1>6, <1>7, <1>8, <1>9, <1>10, <1>11, <1>12 DEF Next

\* No side issue is told twice, unless status.json could not be brought up to date
\* after its message (the condition plan != nil in stateAfterRun).
THEOREM IssuesAreToldOnce == Spec => []ToldOnce
  <1>1. TellInv => ToldOnce
    BY DEF TellInv
  <1> QED
    BY InitTell, TellStep, <1>1, PTL DEF Spec
=============================================================================
