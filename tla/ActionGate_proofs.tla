------------------------- MODULE ActionGate_proofs -------------------------
(* Proofs about ActionGate, for any threads, actions and bounds.             *)
EXTENDS ActionGate, TLAPS

Busy(t) == pc[t] \notin {"idle", "turn"}

AutoLabels   == {"auto_dispatch", "auto_audit", "auto_journal"}
ReplayLabels == {"bind", "replay", "replay_dispatch", "replay_record"}
AfterRun     == {"auto_audit", "auto_journal", "replay_record"}

(* An action is in one place: in one thread's hand, or in the slot.          *)
OnePlace ==
  /\ \A t \in Threads : Busy(t) => act[t] \in Actions
  /\ \A t \in Threads : Busy(t) => slot # act[t]
  /\ \A t, u \in Threads : Busy(t) /\ Busy(u) /\ act[t] = act[u] => t = u

(* Nothing happens to an action before it was attempted.                     *)
AttemptedFirst ==
  /\ \A t \in Threads : Busy(t) => origin[act[t]] # "none"
  /\ slot # None => origin[slot] # "none"
  /\ \A a \in ran \cup refused : origin[a] # "none"

(* Who holds an action on the auto-approved path attempted it, attended; an  *)
(* action being replayed was answered.                                       *)
HandsOK ==
  \A t \in Threads :
    /\ pc[t] = "preview" => (origin[act[t]] = "unattended" <=> ~Attended(t))
    /\ pc[t] \in AutoLabels => /\ origin[act[t]] # "unattended"
                               /\ "auto_approved" \in rows[act[t]]
    /\ pc[t] \in ReplayLabels => asked[act[t]] # None

(* The tools stay what they are: the actions nobody may run do not get past   *)
(* the decision, and those that may not be approved in advance not onto the  *)
(* auto-approved path.                                                       *)
Closed == {a \in Actions : Barred(a)}
Held   == {a \in Actions : ~tool[a].auto \/ tool[a].floor = "ask"}

ToolsOK ==
  /\ \A t \in Threads : Busy(t) /\ pc[t] # "preview" => act[t] \notin Closed
  /\ slot \notin Closed
  /\ \A t \in Threads : pc[t] \in AutoLabels => act[t] \notin Held

(* The two halves of AskedWhenOwed.                                          *)
UnattendedAsked == \A a \in ran : origin[a] = "unattended" => asked[a] # None
HeldAsked == \A a \in ran : a \notin Closed /\ (a \in Held => asked[a] # None)

(* A refused action is nowhere any more, and one that ran is at most being   *)
(* recorded.                                                                 *)
GoneOK ==
  /\ slot \notin ran \cup refused
  /\ \A t \in Threads : Busy(t) => act[t] \notin refused
  /\ \A t \in Threads : Busy(t) /\ act[t] \in ran => pc[t] \in AfterRun

(* A row of who allowed it, or a thread about to write one.                  *)
RunRows ==
  \A a \in ran :
    \/ rows[a] \cap {"auto_approved", "confirmed"} # {}
    \/ \E t \in Threads : pc[t] = "replay_record" /\ act[t] = a

(* The state only grows, so that a plan was computed before its yes was said: *)
(* where the bind finds the state of the plan, it is the state of the yes.   *)
(* What no human was asked about has no yes to compare.                      *)
ToRun == {"replay", "replay_dispatch", "replay_record"}

BoundOK ==
  /\ \A a \in Actions : shown[a] # None => shown[a] <= state
  /\ \A a \in Actions : asked[a] # None => asked[a] <= state
  /\ \A a \in Actions : origin[a] = "none" => asked[a] = None
  /\ \A t \in Threads :
       pc[t] \in {"preview"} \cup AutoLabels => asked[act[t]] = None
  /\ \A t \in Threads : pc[t] = "bind" =>
       /\ shown[act[t]] # None /\ asked[act[t]] # None
       /\ shown[act[t]] <= asked[act[t]]
  /\ \A t \in Threads :
       pc[t] \in ToRun => shown[act[t]] \in {None, asked[act[t]]}

(* With one flip of the gate at most, a gate that was seen on and is off     *)
(* stays off, and only a call dispatched with the gate off is a dry run.     *)
SeenOn(t) ==
  pc[t] = "auto_dispatch" \/ (pc[t] = "replay_dispatch" /\ gateBefore[t])

DryRun(t) ==
  /\ pc[t] \in AfterRun /\ ok[t] /\ act[t] \notin ran
  /\ pc[t] = "replay_record" => gateBefore[t]

OneFlip ==
  /\ \A t \in Threads : SeenOn(t) /\ locked => flips = 1
  /\ \A t \in Threads : DryRun(t) => locked /\ flips = 1 /\ act[t] \notin Mcp
  /\ JournalHonest

IInv ==
  /\ TypeOK /\ OnePlace /\ AttemptedFirst /\ HandsOK /\ GoneOK
  /\ ToolsOK /\ UnattendedAsked /\ HeldAsked /\ RefusalIsFinal /\ RunRows
  /\ BoundOK /\ RunsWhatWasShown

-----------------------------------------------------------------------------
(* The initial values have their types. *)
LEMMA TypeInit == Init => TypeOK
<1> SUFFICES ASSUME Init PROVE TypeOK
  OBVIOUS
<1> USE ActionGateAssumption DEF ActionGateAssumption, Init
<1>1. /\ state \in 0 .. MaxDrift
      /\ flips \in 0 .. MaxFlips /\ rules \in 0 .. MaxRules
  OBVIOUS
<1>2. shown \in [Actions -> (0 .. MaxDrift) \cup {None}]
  BY <1>1
<1>3. pc \in [Threads -> Labels] /\ act \in [Threads -> Actions \cup {None}]
  BY DEF Labels
<1>4. rows \in [Actions -> SUBSET Outcomes]
  OBVIOUS
<1>5. gateBefore \in [Threads -> BOOLEAN] /\ ok \in [Threads -> BOOLEAN]
  OBVIOUS
<1>6. /\ origin \in [Actions -> {"none", "attended", "unattended"}]
      /\ asked \in [Actions -> (0 .. MaxDrift) \cup {None}]
  OBVIOUS
<1> QED
  BY <1>1, <1>2, <1>3, <1>4, <1>5, <1>6 DEF TypeOK, Decisions, Speakers, Tools

(* Every step preserves the types. *)
LEMMA TypeOKStep == TypeOK /\ OnePlace /\ [Next]_vars => TypeOK'
<1> SUFFICES ASSUME TypeOK, OnePlace, [Next]_vars PROVE TypeOK'
  OBVIOUS
<1> USE ActionGateAssumption
    DEF ActionGateAssumption, TypeOK, Labels, Outcomes, Speakers, Decisions,
         gates, threads, records, history, Goto, Proceed, Done, Home, Keep, Audit, Free
<1>1. CASE UNCHANGED vars
  BY <1>1 DEF vars
<1>2. CASE TurnBegin
  BY <1>2 DEF TurnBegin
<1>3. CASE TurnEnd
  BY <1>3 DEF TurnEnd
<1>4. CASE Lapse
  BY <1>4 DEF Lapse
<1>5. CASE Panic
  BY <1>5 DEF Panic
<1>6. CASE Unlock
  <2>1. flips' \in 0 .. MaxFlips
    BY <1>6 DEF Unlock
  <2> QED
    BY <1>6, <2>1 DEF Unlock
<1>7. CASE SetRule
  BY <1>7 DEF SetRule
<1>8. CASE Drift
  BY <1>8 DEF Drift
<1>9. ASSUME NEW t \in Threads, Step(t) PROVE TypeOK'
  <2>1. ASSUME NEW a \in Actions, Attempt(t, a) PROVE TypeOK'
    BY <2>1 DEF Attempt
  <2>2. CASE PreviewFails(t)
    BY <2>2 DEF PreviewFails
  <2>3. CASE Decide(t)
    <3>1. act[t] \in Actions
      BY <2>3 DEF Decide, OnePlace, Busy
    <3>2. \/ UNCHANGED rows
          \/ \E outcomes \in SUBSET Outcomes : Audit(act[t], outcomes)
      BY <2>3 DEF Decide
    <3>3. Done(t) \/ \E label \in Labels : Proceed(t, label)
      BY <2>3 DEF Decide
    <3>4. rows' \in [Actions -> SUBSET Outcomes]
      <4>1. ASSUME NEW outcomes \in SUBSET Outcomes, Audit(act[t], outcomes)
            PROVE  rows' \in [Actions -> SUBSET Outcomes]
        BY ONLY <4>1, <3>1, rows \in [Actions -> SUBSET Outcomes] DEF Audit
      <4> QED
        BY <3>2, <4>1
    <3>5. UNCHANGED <<gates, slot, shown, journal, ran, history>>
      BY <2>3 DEF Decide
    <3>6. /\ pc' \in [Threads -> Labels]
          /\ act' \in [Threads -> Actions \cup {None}]
          /\ gateBefore' \in [Threads -> BOOLEAN] /\ ok' \in [Threads -> BOOLEAN]
      <4>1. CASE Done(t)
        BY <4>1
      <4>2. ASSUME NEW label \in Labels, Proceed(t, label)
            PROVE  /\ pc' \in [Threads -> Labels]
                   /\ UNCHANGED <<act, gateBefore, ok>>
        BY <4>2
      <4> QED
        BY <3>3, <4>1, <4>2
    <3> QED
      BY <3>4, <3>5, <3>6
  <2>4. CASE AutoDispatch(t)
    <3>1. PICK good \in IF locked /\ act[t] \in Mcp THEN {FALSE} ELSE BOOLEAN :
            /\ ok' = [ok EXCEPT ![t] = good]
            /\ ran' = IF ~locked /\ good THEN ran \cup {act[t]} ELSE ran
      BY <2>4 DEF AutoDispatch, Dispatch
    <3>2. act[t] \in Actions
      BY <2>4 DEF AutoDispatch, OnePlace, Busy
    <3> QED
      BY <2>4, <3>1, <3>2 DEF AutoDispatch
  <2>5. CASE AutoAudit(t)
    BY <2>5 DEF AutoAudit
  <2>6. CASE AutoJournal(t)
    <3>1. act[t] \in Actions
      BY <2>6 DEF AutoJournal, OnePlace, Busy
    <3> QED
      BY <2>6, <3>1 DEF AutoJournal
  <2>7. CASE ComputePlan(t)
    BY <2>7 DEF ComputePlan
  <2>8. CASE ParkAction(t)
    BY <2>8 DEF ParkAction
  <2>9. CASE Yes(t)
    BY <2>9 DEF Yes, Answered, Replay, MayConfirm
  <2>10. CASE Repark(t)
    BY <2>10 DEF Repark
  <2>11. CASE Bind(t)
    BY <2>11 DEF Bind
  <2>12. CASE ReplayGate(t)
    BY <2>12 DEF ReplayGate
  <2>13. CASE ReplayDispatch(t)
    <3>1. PICK good \in IF locked /\ act[t] \in Mcp THEN {FALSE} ELSE BOOLEAN :
            /\ ok' = [ok EXCEPT ![t] = good]
            /\ ran' = IF ~locked /\ good THEN ran \cup {act[t]} ELSE ran
      BY <2>13 DEF ReplayDispatch, Dispatch
    <3>2. act[t] \in Actions
      BY <2>13 DEF ReplayDispatch, OnePlace, Busy
    <3> QED
      BY <2>13, <3>1, <3>2 DEF ReplayDispatch
  <2>14. CASE ReplayRecord(t)
    <3>1. act[t] \in Actions
      BY <2>14 DEF ReplayRecord, OnePlace, Busy
    <3>2. journal' \subseteq Actions
      BY <2>14, <3>1 DEF ReplayRecord
    <3>3. rows' \in [Actions -> SUBSET Outcomes]
      <4>1. {"confirmed"} \cup (IF Executed(t) THEN {"executed"} ELSE {})
              \subseteq Outcomes
        OBVIOUS
      <4> QED
        BY <2>14, <4>1 DEF ReplayRecord
    <3> QED
      BY <2>14, <3>2, <3>3 DEF ReplayRecord
  <2>15. CASE No(t)
    BY <2>15 DEF No
  <2> QED
    BY <1>9, <2>1, <2>2, <2>3, <2>4, <2>5, <2>6, <2>7, <2>8, <2>9, <2>10,
        <2>11, <2>12, <2>13, <2>14, <2>15 DEF Step
<1> QED
  BY <1>1, <1>2, <1>3, <1>4, <1>5, <1>6, <1>7, <1>8, <1>9 DEF Next

(* An action stays in one place. *)
LEMMA OnePlaceStep == TypeOK /\ OnePlace /\ AttemptedFirst /\ [Next]_vars
  => OnePlace'
<1> SUFFICES ASSUME TypeOK /\ OnePlace /\ AttemptedFirst, [Next]_vars
     PROVE OnePlace'
  OBVIOUS
<1> USE ActionGateAssumption DEF TypeOK, OnePlace, Busy, gates, threads,
    records, history, Goto, Proceed, Done, Home, Keep, Free, Audit
<1>1. CASE UNCHANGED vars
  BY <1>1 DEF vars
<1>2. CASE TurnBegin
  BY <1>2 DEF TurnBegin
<1>3. CASE TurnEnd
  BY <1>3 DEF TurnEnd
<1>4. CASE Lapse
  BY <1>4 DEF Lapse
<1>5. CASE Panic
  BY <1>5 DEF Panic
<1>6. CASE Unlock
  BY <1>6 DEF Unlock
<1>7. CASE SetRule
  BY <1>7 DEF SetRule
<1>8. CASE Drift
  BY <1>8 DEF Drift
<1>9. ASSUME NEW t \in Threads, Step(t) PROVE OnePlace'
  <2>1. ASSUME NEW a \in Actions, Attempt(t, a) PROVE OnePlace'
    <3>1. CASE Goto(t, "preview") /\ Keep(t, a)
      <4>1. \A u \in Threads : Busy(u) => act[u] # a
        BY <2>1 DEF Attempt, AttemptedFirst
      <4>2. slot # a
        BY <2>1 DEF Attempt, AttemptedFirst
      <4> QED
        BY <2>1, <3>1, <4>1, <4>2 DEF Attempt
    <3>2. CASE UNCHANGED threads
      BY <2>1, <3>2 DEF Attempt
    <3> QED
      BY <2>1, <3>1, <3>2 DEF Attempt
  <2>2. CASE PreviewFails(t)
    BY <2>2 DEF PreviewFails
  <2>3. CASE Decide(t)
    BY <2>3 DEF Decide
  <2>4. CASE AutoDispatch(t)
    BY <2>4 DEF AutoDispatch, Dispatch
  <2>5. CASE AutoAudit(t)
    BY <2>5 DEF AutoAudit
  <2>6. CASE AutoJournal(t)
    BY <2>6 DEF AutoJournal
  <2>7. CASE ComputePlan(t)
    BY <2>7 DEF ComputePlan
  <2>8. CASE ParkAction(t)
    BY <2>8 DEF ParkAction
  <2>9. CASE Yes(t)
    BY <2>9 DEF Yes, Answered, Replay, MayConfirm
  <2>10. CASE Repark(t)
    BY <2>10 DEF Repark
  <2>11. CASE Bind(t)
    BY <2>11 DEF Bind
  <2>12. CASE ReplayGate(t)
    BY <2>12 DEF ReplayGate
  <2>13. CASE ReplayDispatch(t)
    BY <2>13 DEF ReplayDispatch, Dispatch
  <2>14. CASE ReplayRecord(t)
    BY <2>14 DEF ReplayRecord
  <2>15. CASE No(t)
    BY <2>15 DEF No
  <2> QED
    BY <1>9, <2>1, <2>2, <2>3, <2>4, <2>5, <2>6, <2>7, <2>8, <2>9, <2>10,
        <2>11, <2>12, <2>13, <2>14, <2>15 DEF Step
<1> QED
  BY <1>1, <1>2, <1>3, <1>4, <1>5, <1>6, <1>7, <1>8, <1>9 DEF Next

(* An action is attempted before it is held, parked, refused or run. *)
LEMMA AttemptedFirstStep ==
  TypeOK /\ OnePlace /\ AttemptedFirst /\ [Next]_vars => AttemptedFirst'
<1> SUFFICES ASSUME TypeOK /\ OnePlace /\ AttemptedFirst, [Next]_vars
     PROVE AttemptedFirst'
  OBVIOUS
<1> USE ActionGateAssumption DEF TypeOK, OnePlace, AttemptedFirst, Busy,
    gates, threads, records, history, Goto, Proceed, Done, Home, Keep, Free, Audit
<1>1. CASE UNCHANGED vars
  BY <1>1 DEF vars
<1>2. CASE TurnBegin
  BY <1>2 DEF TurnBegin
<1>3. CASE TurnEnd
  BY <1>3 DEF TurnEnd
<1>4. CASE Lapse
  BY <1>4 DEF Lapse
<1>5. CASE Panic
  BY <1>5 DEF Panic
<1>6. CASE Unlock
  BY <1>6 DEF Unlock
<1>7. CASE SetRule
  BY <1>7 DEF SetRule
<1>8. CASE Drift
  BY <1>8 DEF Drift
<1>9. ASSUME NEW t \in Threads, Step(t) PROVE AttemptedFirst'
  <2>1. ASSUME NEW a \in Actions, Attempt(t, a) PROVE AttemptedFirst'
    BY <2>1 DEF Attempt
  <2>2. CASE PreviewFails(t)
    BY <2>2 DEF PreviewFails
  <2>3. CASE Decide(t)
    BY <2>3 DEF Decide
  <2>4. CASE AutoDispatch(t)
    BY <2>4 DEF AutoDispatch, Dispatch
  <2>5. CASE AutoAudit(t)
    BY <2>5 DEF AutoAudit
  <2>6. CASE AutoJournal(t)
    BY <2>6 DEF AutoJournal
  <2>7. CASE ComputePlan(t)
    BY <2>7 DEF ComputePlan
  <2>8. CASE ParkAction(t)
    BY <2>8 DEF ParkAction
  <2>9. CASE Yes(t)
    BY <2>9 DEF Yes, Answered, Replay, MayConfirm
  <2>10. CASE Repark(t)
    BY <2>10 DEF Repark
  <2>11. CASE Bind(t)
    BY <2>11 DEF Bind
  <2>12. CASE ReplayGate(t)
    BY <2>12 DEF ReplayGate
  <2>13. CASE ReplayDispatch(t)
    BY <2>13 DEF ReplayDispatch, Dispatch
  <2>14. CASE ReplayRecord(t)
    BY <2>14 DEF ReplayRecord
  <2>15. CASE No(t)
    BY <2>15 DEF No
  <2> QED
    BY <1>9, <2>1, <2>2, <2>3, <2>4, <2>5, <2>6, <2>7, <2>8, <2>9, <2>10,
        <2>11, <2>12, <2>13, <2>14, <2>15 DEF Step
<1> QED
  BY <1>1, <1>2, <1>3, <1>4, <1>5, <1>6, <1>7, <1>8, <1>9 DEF Next

(* What a thread holds was attempted, allowed or answered as its place says. *)
LEMMA HandsOKStep ==
  TypeOK /\ OnePlace /\ AttemptedFirst /\ HandsOK /\ [Next]_vars => HandsOK'
<1> SUFFICES ASSUME TypeOK /\ OnePlace /\ AttemptedFirst /\ HandsOK,
     [Next]_vars PROVE HandsOK'
  OBVIOUS
<1> USE ActionGateAssumption DEF TypeOK, OnePlace, HandsOK, AutoLabels,
    ReplayLabels, Busy, gates, threads, records, history, Goto, Proceed, Done, Home,
        Keep, Free, Audit
<1>1. CASE UNCHANGED vars
  BY <1>1 DEF vars
<1>2. CASE TurnBegin
  BY <1>2 DEF TurnBegin
<1>3. CASE TurnEnd
  BY <1>3 DEF TurnEnd
<1>4. CASE Lapse
  BY <1>4 DEF Lapse
<1>5. CASE Panic
  BY <1>5 DEF Panic
<1>6. CASE Unlock
  BY <1>6 DEF Unlock
<1>7. CASE SetRule
  BY <1>7 DEF SetRule
<1>8. CASE Drift
  BY <1>8 DEF Drift
<1>9. ASSUME NEW t \in Threads, Step(t) PROVE HandsOK'
  <2>1. ASSUME NEW a \in Actions, Attempt(t, a) PROVE HandsOK'
    <3>1. \A u \in Threads : Busy(u) => act[u] # a
      BY <2>1 DEF Attempt, AttemptedFirst
    <3>2. CASE Goto(t, "preview") /\ Keep(t, a) /\ UNCHANGED rows
      BY <2>1, <3>1, <3>2 DEF Attempt
    <3>3. CASE UNCHANGED threads /\ Audit(a, {"blocked_voice_id"})
      BY <2>1, <3>1, <3>3 DEF Attempt
    <3>4. CASE UNCHANGED <<threads, records>>
      BY <2>1, <3>1, <3>4 DEF Attempt
    <3> QED
      BY <2>1, <3>2, <3>3, <3>4 DEF Attempt
  <2>2. CASE PreviewFails(t)
    BY <2>2 DEF PreviewFails
  <2>3. CASE Decide(t)
    <3>1. act[t] \in Actions /\ (origin[act[t]] = "unattended" <=> ~Attended(t))
      BY <2>3 DEF Decide
    <3>2. Decision(t) = "always" => origin[act[t]] # "unattended"
      BY <3>1 DEF Decision
    <3>3. \A u \in Threads : u # t /\ Busy(u) => act[u] # act[t]
      BY <2>3 DEF Decide
    <3>4. CASE Decision(t) = "always" /\ ~locked
      BY <2>3, <3>1, <3>2, <3>3, <3>4 DEF Decide
    <3>5. CASE pc' = [pc EXCEPT ![t] = Home(t)]
      BY <2>3, <3>1, <3>3, <3>5 DEF Decide
    <3>6. CASE Goto(t, "plan") /\ UNCHANGED rows
      BY <2>3, <3>6 DEF Decide
    <3> QED
      BY <2>3, <3>4, <3>5, <3>6 DEF Decide
  <2>4. CASE AutoDispatch(t)
    BY <2>4 DEF AutoDispatch, Dispatch
  <2>5. CASE AutoAudit(t)
    BY <2>5 DEF AutoAudit
  <2>6. CASE AutoJournal(t)
    BY <2>6 DEF AutoJournal
  <2>7. CASE ComputePlan(t)
    BY <2>7 DEF ComputePlan
  <2>8. CASE ParkAction(t)
    BY <2>8 DEF ParkAction
  <2>9. CASE Yes(t)
    BY <2>9 DEF Yes, Answered, Replay, MayConfirm
  <2>10. CASE Repark(t)
    BY <2>10 DEF Repark
  <2>11. CASE Bind(t)
    BY <2>11 DEF Bind
  <2>12. CASE ReplayGate(t)
    BY <2>12 DEF ReplayGate
  <2>13. CASE ReplayDispatch(t)
    BY <2>13 DEF ReplayDispatch, Dispatch
  <2>14. CASE ReplayRecord(t)
    BY <2>14 DEF ReplayRecord
  <2>15. CASE No(t)
    BY <2>15 DEF No
  <2> QED
    BY <1>9, <2>1, <2>2, <2>3, <2>4, <2>5, <2>6, <2>7, <2>8, <2>9, <2>10,
        <2>11, <2>12, <2>13, <2>14, <2>15 DEF Step
<1> QED
  BY <1>1, <1>2, <1>3, <1>4, <1>5, <1>6, <1>7, <1>8, <1>9 DEF Next

(* What was refused, or has run, does not come back. *)
LEMMA GoneOKStep ==
  TypeOK /\ OnePlace /\ AttemptedFirst /\ GoneOK /\ [Next]_vars => GoneOK'
<1> SUFFICES ASSUME TypeOK /\ OnePlace /\ AttemptedFirst /\ GoneOK,
     [Next]_vars PROVE GoneOK'
  OBVIOUS
<1> USE ActionGateAssumption DEF TypeOK, OnePlace, AttemptedFirst, GoneOK,
    AfterRun, Busy, gates, threads, records, history, Goto, Proceed, Done, Home,
        Keep, Free, Audit
<1>1. CASE UNCHANGED vars
  BY <1>1 DEF vars
<1>2. CASE TurnBegin
  BY <1>2 DEF TurnBegin
<1>3. CASE TurnEnd
  BY <1>3 DEF TurnEnd
<1>4. CASE Lapse
  BY <1>4 DEF Lapse
<1>5. CASE Panic
  BY <1>5 DEF Panic
<1>6. CASE Unlock
  BY <1>6 DEF Unlock
<1>7. CASE SetRule
  BY <1>7 DEF SetRule
<1>8. CASE Drift
  BY <1>8 DEF Drift
<1>9. ASSUME NEW t \in Threads, Step(t) PROVE GoneOK'
  <2>1. ASSUME NEW a \in Actions, Attempt(t, a) PROVE GoneOK'
    BY <2>1 DEF Attempt
  <2>2. CASE PreviewFails(t)
    BY <2>2 DEF PreviewFails
  <2>3. CASE Decide(t)
    BY <2>3 DEF Decide
  <2>4. CASE AutoDispatch(t)
    BY <2>4 DEF AutoDispatch, Dispatch
  <2>5. CASE AutoAudit(t)
    BY <2>5 DEF AutoAudit
  <2>6. CASE AutoJournal(t)
    BY <2>6 DEF AutoJournal
  <2>7. CASE ComputePlan(t)
    BY <2>7 DEF ComputePlan
  <2>8. CASE ParkAction(t)
    BY <2>8 DEF ParkAction
  <2>9. CASE Yes(t)
    <3>1. slot \in Actions /\ slot \notin ran \cup refused /\ slot' = None
      BY <2>9 DEF Yes
    <3>2. \A u \in Threads : Busy(u) => act[u] # slot
      OBVIOUS
    <3>3. /\ refused' \subseteq refused \cup {slot}
          /\ None \notin ran \cup refused'
      BY <2>9, <3>1 DEF Yes, Answered
    <3>4. CASE MayConfirm(t)
      <4>1. refused' = refused
        BY <2>9, <3>4 DEF Yes, Answered, MayConfirm, GuestTurn
      <4>2. Keep(t, slot) /\ UNCHANGED ran
        BY <2>9, <3>4 DEF Yes, Replay
      <4>3. \E label \in {"bind", "replay"} : Goto(t, label)
        BY <2>9, <3>4 DEF Yes, Replay
      <4> QED
        BY <3>1, <3>2, <4>1, <4>2, <4>3
    <3>5. CASE ~MayConfirm(t)
      <4>1. UNCHANGED <<pc, act, ran>>
        BY <2>9, <3>5 DEF Yes, Replay
      <4> QED
        BY <3>1, <3>2, <3>3, <4>1
    <3> QED
      BY <3>4, <3>5
  <2>10. CASE Repark(t)
    BY <2>10 DEF Repark
  <2>11. CASE Bind(t)
    BY <2>11 DEF Bind
  <2>12. CASE ReplayGate(t)
    BY <2>12 DEF ReplayGate
  <2>13. CASE ReplayDispatch(t)
    BY <2>13 DEF ReplayDispatch, Dispatch
  <2>14. CASE ReplayRecord(t)
    BY <2>14 DEF ReplayRecord
  <2>15. CASE No(t)
    BY <2>15 DEF No
  <2> QED
    BY <1>9, <2>1, <2>2, <2>3, <2>4, <2>5, <2>6, <2>7, <2>8, <2>9, <2>10,
        <2>11, <2>12, <2>13, <2>14, <2>15 DEF Step
<1> QED
  BY <1>1, <1>2, <1>3, <1>4, <1>5, <1>6, <1>7, <1>8, <1>9 DEF Next

-----------------------------------------------------------------------------
(* An action of an unattended run happens only after a yes. *)
LEMMA UnattendedAskedStep ==
       TypeOK /\ OnePlace /\ AttemptedFirst /\ HandsOK /\ UnattendedAsked
  /\ [Next]_vars
    => UnattendedAsked'

<1> SUFFICES ASSUME TypeOK /\ OnePlace /\ AttemptedFirst /\ HandsOK,
                    UnattendedAsked,
                    [Next]_vars
             PROVE UnattendedAsked'
  OBVIOUS
<1> USE ActionGateAssumption
    DEF TypeOK, OnePlace, AttemptedFirst, HandsOK, UnattendedAsked,
        AutoLabels, ReplayLabels, Busy, gates, threads, records, history,
             Goto, Proceed, Done, Home, Keep, Free, Audit
<1>1. CASE UNCHANGED vars
  BY <1>1 DEF vars
<1>2. CASE TurnBegin
  BY <1>2 DEF TurnBegin
<1>3. CASE TurnEnd
  BY <1>3 DEF TurnEnd
<1>4. CASE Lapse
  BY <1>4 DEF Lapse
<1>5. CASE Panic
  BY <1>5 DEF Panic
<1>6. CASE Unlock
  BY <1>6 DEF Unlock
<1>7. CASE SetRule
  BY <1>7 DEF SetRule
<1>8. CASE Drift
  BY <1>8 DEF Drift
<1>9. ASSUME NEW t \in Threads, Step(t) PROVE UnattendedAsked'
  <2>1. ASSUME NEW a \in Actions, Attempt(t, a) PROVE UnattendedAsked'
    BY <2>1 DEF Attempt
  <2>2. CASE PreviewFails(t)
    BY <2>2 DEF PreviewFails
  <2>3. CASE Decide(t)
    BY <2>3 DEF Decide
  <2>4. CASE AutoDispatch(t)
    BY <2>4 DEF AutoDispatch, Dispatch
  <2>5. CASE AutoAudit(t)
    BY <2>5 DEF AutoAudit
  <2>6. CASE AutoJournal(t)
    BY <2>6 DEF AutoJournal
  <2>7. CASE ComputePlan(t)
    BY <2>7 DEF ComputePlan
  <2>8. CASE ParkAction(t)
    BY <2>8 DEF ParkAction
  <2>9. CASE Yes(t)
    BY <2>9 DEF Yes, Answered, Replay, MayConfirm
  <2>10. CASE Repark(t)
    BY <2>10 DEF Repark
  <2>11. CASE Bind(t)
    BY <2>11 DEF Bind
  <2>12. CASE ReplayGate(t)
    BY <2>12 DEF ReplayGate
  <2>13. CASE ReplayDispatch(t)
    BY <2>13 DEF ReplayDispatch, Dispatch
  <2>14. CASE ReplayRecord(t)
    BY <2>14 DEF ReplayRecord
  <2>15. CASE No(t)
    BY <2>15 DEF No
  <2> QED
    BY <1>9, <2>1, <2>2, <2>3, <2>4, <2>5, <2>6, <2>7, <2>8, <2>9, <2>10,
        <2>11, <2>12, <2>13, <2>14, <2>15 DEF Step
<1> QED
  BY <1>1, <1>2, <1>3, <1>4, <1>5, <1>6, <1>7, <1>8, <1>9 DEF Next

(* No step changes what stands about a tool. *)
LEMMA ToolFixed == [Next]_vars => tool' = tool
BY DEF Next, vars, gates, TurnBegin, TurnEnd, Lapse, Panic, Unlock, SetRule,
       Drift, Step, Attempt, PreviewFails, Decide, AutoDispatch, AutoAudit,
       AutoJournal, ComputePlan, ParkAction, Yes, Repark, Bind, ReplayGate,
       ReplayDispatch, ReplayRecord, No

(* Nobody gets past the decision with what may not be run, or not like that. *)
LEMMA ToolsOKStep ==
  TypeOK /\ OnePlace /\ ToolsOK /\ [Next]_vars => ToolsOK'
<1> SUFFICES ASSUME TypeOK /\ OnePlace /\ ToolsOK,
                    [Next]_vars
             PROVE ToolsOK'
  OBVIOUS
<1> USE ActionGateAssumption
    DEF TypeOK, ToolsOK, OnePlace, AutoLabels, Busy, gates, threads, records, history,
        Goto, Proceed, Done, Home, Keep, Free
<1>0. Closed' = Closed /\ Held' = Held /\ None \notin Closed
  BY ToolFixed DEF Closed, Held, Barred
<1>1. CASE UNCHANGED vars
  BY <1>0, <1>1 DEF vars
<1>2. CASE TurnBegin
  BY <1>0, <1>2 DEF TurnBegin
<1>3. CASE TurnEnd
  BY <1>0, <1>3 DEF TurnEnd
<1>4. CASE Lapse
  BY <1>0, <1>4 DEF Lapse
<1>5. CASE Panic
  BY <1>0, <1>5 DEF Panic
<1>6. CASE Unlock
  BY <1>0, <1>6 DEF Unlock
<1>7. CASE SetRule
  BY <1>0, <1>7 DEF SetRule
<1>8. CASE Drift
  BY <1>0, <1>8 DEF Drift
<1>9. ASSUME NEW t \in Threads, Step(t) PROVE ToolsOK'
  <2>1. ASSUME NEW a \in Actions, Attempt(t, a) PROVE ToolsOK'
    BY <1>0, <2>1 DEF Attempt
  <2>2. CASE PreviewFails(t)
    BY <1>0, <2>2 DEF PreviewFails
  <2>3. CASE Decide(t)
    <3>1. act[t] \in Actions /\ pc[t] = "preview"
      BY <2>3 DEF Decide
    <3>2. act[t] \in Closed => Decision(t) = "never"
      BY <3>1 DEF Closed, Barred, Decision, Verdict, Combine, Evaluate
    <3>3. Decision(t) = "always" => act[t] \notin Held
      BY <3>1 DEF Held, Decision, Verdict, Combine, Evaluate
    <3>4. CASE Decision(t) = "always" /\ ~locked
      BY <1>0, <2>3, <3>1, <3>2, <3>3, <3>4 DEF Decide
    <3>5. CASE pc' = [pc EXCEPT ![t] = Home(t)]
      BY <1>0, <2>3, <3>1, <3>5 DEF Decide
    <3>6. CASE Goto(t, "plan") /\ Decision(t) = "ask"
      BY <1>0, <2>3, <3>1, <3>2, <3>6 DEF Decide
    <3> QED
      BY <2>3, <3>4, <3>5, <3>6 DEF Decide
  <2>4. CASE AutoDispatch(t)
    BY <1>0, <2>4 DEF AutoDispatch, Dispatch
  <2>5. CASE AutoAudit(t)
    BY <1>0, <2>5 DEF AutoAudit
  <2>6. CASE AutoJournal(t)
    BY <1>0, <2>6 DEF AutoJournal
  <2>7. CASE ComputePlan(t)
    BY <1>0, <2>7 DEF ComputePlan
  <2>8. CASE ParkAction(t)
    BY <1>0, <2>8 DEF ParkAction
  <2>9. CASE Yes(t)
    BY <1>0, <2>9 DEF Yes, Answered, Replay, MayConfirm
  <2>10. CASE Repark(t)
    BY <1>0, <2>10 DEF Repark
  <2>11. CASE Bind(t)
    BY <1>0, <2>11 DEF Bind
  <2>12. CASE ReplayGate(t)
    BY <1>0, <2>12 DEF ReplayGate
  <2>13. CASE ReplayDispatch(t)
    BY <1>0, <2>13 DEF ReplayDispatch, Dispatch
  <2>14. CASE ReplayRecord(t)
    BY <1>0, <2>14 DEF ReplayRecord
  <2>15. CASE No(t)
    BY <1>0, <2>15 DEF No
  <2> QED
    BY <1>9, <2>1, <2>2, <2>3, <2>4, <2>5, <2>6, <2>7, <2>8, <2>9, <2>10,
        <2>11, <2>12, <2>13, <2>14, <2>15 DEF Step
<1> QED
  BY <1>1, <1>2, <1>3, <1>4, <1>5, <1>6, <1>7, <1>8, <1>9 DEF Next

(* What must be asked about happens only after a yes. *)
LEMMA HeldAskedStep ==
  TypeOK /\ OnePlace /\ HandsOK /\ ToolsOK /\ HeldAsked /\ [Next]_vars => HeldAsked'
<1> SUFFICES ASSUME TypeOK /\ OnePlace /\ HandsOK /\ ToolsOK /\ HeldAsked,
                    [Next]_vars
             PROVE HeldAsked'
  OBVIOUS
<1> USE ActionGateAssumption
    DEF TypeOK, HandsOK, ToolsOK, HeldAsked, ReplayLabels, OnePlace, AutoLabels, Busy, gates, threads, records, history,
        Goto, Proceed, Done, Home, Keep, Free
<1>0. Closed' = Closed /\ Held' = Held
  BY ToolFixed DEF Closed, Held, Barred
<1>1. CASE UNCHANGED vars
  BY <1>0, <1>1 DEF vars
<1>2. CASE TurnBegin
  BY <1>0, <1>2 DEF TurnBegin
<1>3. CASE TurnEnd
  BY <1>0, <1>3 DEF TurnEnd
<1>4. CASE Lapse
  BY <1>0, <1>4 DEF Lapse
<1>5. CASE Panic
  BY <1>0, <1>5 DEF Panic
<1>6. CASE Unlock
  BY <1>0, <1>6 DEF Unlock
<1>7. CASE SetRule
  BY <1>0, <1>7 DEF SetRule
<1>8. CASE Drift
  BY <1>0, <1>8 DEF Drift
<1>9. ASSUME NEW t \in Threads, Step(t) PROVE HeldAsked'
  <2>1. ASSUME NEW a \in Actions, Attempt(t, a) PROVE HeldAsked'
    BY <1>0, <2>1 DEF Attempt
  <2>2. CASE PreviewFails(t)
    BY <1>0, <2>2 DEF PreviewFails
  <2>3. CASE Decide(t)
    BY <1>0, <2>3 DEF Decide
  <2>4. CASE AutoDispatch(t)
    BY <1>0, <2>4 DEF AutoDispatch, Dispatch
  <2>5. CASE AutoAudit(t)
    BY <1>0, <2>5 DEF AutoAudit
  <2>6. CASE AutoJournal(t)
    BY <1>0, <2>6 DEF AutoJournal
  <2>7. CASE ComputePlan(t)
    BY <1>0, <2>7 DEF ComputePlan
  <2>8. CASE ParkAction(t)
    BY <1>0, <2>8 DEF ParkAction
  <2>9. CASE Yes(t)
    BY <1>0, <2>9 DEF Yes, Answered, Replay, MayConfirm
  <2>10. CASE Repark(t)
    BY <1>0, <2>10 DEF Repark
  <2>11. CASE Bind(t)
    BY <1>0, <2>11 DEF Bind
  <2>12. CASE ReplayGate(t)
    BY <1>0, <2>12 DEF ReplayGate
  <2>13. CASE ReplayDispatch(t)
    BY <1>0, <2>13 DEF ReplayDispatch, Dispatch
  <2>14. CASE ReplayRecord(t)
    BY <1>0, <2>14 DEF ReplayRecord
  <2>15. CASE No(t)
    BY <1>0, <2>15 DEF No
  <2> QED
    BY <1>9, <2>1, <2>2, <2>3, <2>4, <2>5, <2>6, <2>7, <2>8, <2>9, <2>10,
        <2>11, <2>12, <2>13, <2>14, <2>15 DEF Step
<1> QED
  BY <1>1, <1>2, <1>3, <1>4, <1>5, <1>6, <1>7, <1>8, <1>9 DEF Next

(* What was refused does not happen, what happened is not refused. *)
LEMMA RefusalIsFinalStep ==
  TypeOK /\ OnePlace /\ GoneOK /\ RefusalIsFinal /\ [Next]_vars
       => RefusalIsFinal'
<1> SUFFICES ASSUME TypeOK /\ OnePlace /\ GoneOK /\ RefusalIsFinal,
                    [Next]_vars
             PROVE RefusalIsFinal'
  OBVIOUS
<1> USE ActionGateAssumption
    DEF TypeOK, OnePlace, GoneOK, RefusalIsFinal, AfterRun, Busy, gates,
         threads, records, history, Goto, Proceed, Done, Home, Keep, Free, Audit
<1>1. CASE UNCHANGED vars
  BY <1>1 DEF vars
<1>2. CASE TurnBegin
  BY <1>2 DEF TurnBegin
<1>3. CASE TurnEnd
  BY <1>3 DEF TurnEnd
<1>4. CASE Lapse
  BY <1>4 DEF Lapse
<1>5. CASE Panic
  BY <1>5 DEF Panic
<1>6. CASE Unlock
  BY <1>6 DEF Unlock
<1>7. CASE SetRule
  BY <1>7 DEF SetRule
<1>8. CASE Drift
  BY <1>8 DEF Drift
<1>9. ASSUME NEW t \in Threads, Step(t) PROVE RefusalIsFinal'
  <2>1. ASSUME NEW a \in Actions, Attempt(t, a) PROVE RefusalIsFinal'
    BY <2>1 DEF Attempt
  <2>2. CASE PreviewFails(t)
    BY <2>2 DEF PreviewFails
  <2>3. CASE Decide(t)
    BY <2>3 DEF Decide
  <2>4. CASE AutoDispatch(t)
    BY <2>4 DEF AutoDispatch, Dispatch
  <2>5. CASE AutoAudit(t)
    BY <2>5 DEF AutoAudit
  <2>6. CASE AutoJournal(t)
    BY <2>6 DEF AutoJournal
  <2>7. CASE ComputePlan(t)
    BY <2>7 DEF ComputePlan
  <2>8. CASE ParkAction(t)
    BY <2>8 DEF ParkAction
  <2>9. CASE Yes(t)
    BY <2>9 DEF Yes, Answered, Replay, MayConfirm
  <2>10. CASE Repark(t)
    BY <2>10 DEF Repark
  <2>11. CASE Bind(t)
    BY <2>11 DEF Bind
  <2>12. CASE ReplayGate(t)
    BY <2>12 DEF ReplayGate
  <2>13. CASE ReplayDispatch(t)
    BY <2>13 DEF ReplayDispatch, Dispatch
  <2>14. CASE ReplayRecord(t)
    BY <2>14 DEF ReplayRecord
  <2>15. CASE No(t)
    BY <2>15 DEF No
  <2> QED
    BY <1>9, <2>1, <2>2, <2>3, <2>4, <2>5, <2>6, <2>7, <2>8, <2>9, <2>10,
        <2>11, <2>12, <2>13, <2>14, <2>15 DEF Step
<1> QED
  BY <1>1, <1>2, <1>3, <1>4, <1>5, <1>6, <1>7, <1>8, <1>9 DEF Next

(* What happened has a row that allows it, or is about to get one. *)
LEMMA RunRowsStep ==
  TypeOK /\ OnePlace /\ AttemptedFirst /\ HandsOK /\ RunRows /\ [Next]_vars
       => RunRows'

<1> SUFFICES ASSUME TypeOK /\ OnePlace /\ AttemptedFirst /\ HandsOK /\ RunRows,
                    [Next]_vars
             PROVE RunRows'
  OBVIOUS
<1> USE ActionGateAssumption
    DEF TypeOK, OnePlace, HandsOK, RunRows, AutoLabels, Busy, gates, threads,
         records, history, Goto, Proceed, Done, Home, Keep, Free, Audit
<1>1. CASE UNCHANGED vars
  BY <1>1 DEF vars
<1>2. CASE TurnBegin
  BY <1>2 DEF TurnBegin
<1>3. CASE TurnEnd
  BY <1>3 DEF TurnEnd
<1>4. CASE Lapse
  BY <1>4 DEF Lapse
<1>5. CASE Panic
  BY <1>5 DEF Panic
<1>6. CASE Unlock
  BY <1>6 DEF Unlock
<1>7. CASE SetRule
  BY <1>7 DEF SetRule
<1>8. CASE Drift
  BY <1>8 DEF Drift
<1>9. ASSUME NEW t \in Threads, Step(t) PROVE RunRows'
  <2>1. ASSUME NEW a \in Actions, Attempt(t, a) PROVE RunRows'
    BY <2>1 DEF Attempt
  <2>2. CASE PreviewFails(t)
    BY <2>2 DEF PreviewFails
  <2>3. CASE Decide(t)
    BY <2>3 DEF Decide
  <2>4. CASE AutoDispatch(t)
    BY <2>4 DEF AutoDispatch, Dispatch
  <2>5. CASE AutoAudit(t)
    BY <2>5 DEF AutoAudit
  <2>6. CASE AutoJournal(t)
    BY <2>6 DEF AutoJournal
  <2>7. CASE ComputePlan(t)
    BY <2>7 DEF ComputePlan
  <2>8. CASE ParkAction(t)
    BY <2>8 DEF ParkAction
  <2>9. CASE Yes(t)
    BY <2>9 DEF Yes, Answered, Replay, MayConfirm
  <2>10. CASE Repark(t)
    BY <2>10 DEF Repark
  <2>11. CASE Bind(t)
    BY <2>11 DEF Bind
  <2>12. CASE ReplayGate(t)
    BY <2>12 DEF ReplayGate
  <2>13. CASE ReplayDispatch(t)
    BY <2>13 DEF ReplayDispatch, Dispatch
  <2>14. CASE ReplayRecord(t)
    BY <2>14 DEF ReplayRecord
  <2>15. CASE No(t)
    BY <2>15 DEF No
  <2> QED
    BY <1>9, <2>1, <2>2, <2>3, <2>4, <2>5, <2>6, <2>7, <2>8, <2>9, <2>10,
        <2>11, <2>12, <2>13, <2>14, <2>15 DEF Step
<1> QED
  BY <1>1, <1>2, <1>3, <1>4, <1>5, <1>6, <1>7, <1>8, <1>9 DEF Next

(* The plans, the yeses and the state keep their order. *)
LEMMA BoundOKStep ==
  TypeOK /\ OnePlace /\ AttemptedFirst /\ BoundOK /\ [Next]_vars => BoundOK'
<1> SUFFICES ASSUME TypeOK /\ OnePlace /\ AttemptedFirst /\ BoundOK, [Next]_vars
             PROVE BoundOK'
  OBVIOUS
<1> USE ActionGateAssumption
    DEF BoundOK, AttemptedFirst, AutoLabels, ToRun, TypeOK, OnePlace, Busy, gates, threads, records, history,
        Goto, Proceed, Done, Home, Keep, Free, Audit
<1>1. CASE UNCHANGED vars
  BY <1>1 DEF vars
<1>2. CASE TurnBegin
  BY <1>2 DEF TurnBegin
<1>3. CASE TurnEnd
  BY <1>3 DEF TurnEnd
<1>4. CASE Lapse
  BY <1>4 DEF Lapse
<1>5. CASE Panic
  BY <1>5 DEF Panic
<1>6. CASE Unlock
  BY <1>6 DEF Unlock
<1>7. CASE SetRule
  BY <1>7 DEF SetRule
<1>8. CASE Drift
  BY <1>8 DEF Drift
<1>9. ASSUME NEW t \in Threads, Step(t) PROVE BoundOK'
  <2>1. ASSUME NEW a \in Actions, Attempt(t, a) PROVE BoundOK'
    BY <2>1 DEF Attempt
  <2>2. CASE PreviewFails(t)
    BY <2>2 DEF PreviewFails
  <2>3. CASE Decide(t)
    BY <2>3 DEF Decide
  <2>4. CASE AutoDispatch(t)
    BY <2>4 DEF AutoDispatch, Dispatch
  <2>5. CASE AutoAudit(t)
    BY <2>5 DEF AutoAudit
  <2>6. CASE AutoJournal(t)
    BY <2>6 DEF AutoJournal
  <2>7. CASE ComputePlan(t)
    BY <2>7 DEF ComputePlan
  <2>8. CASE ParkAction(t)
    BY <2>8 DEF ParkAction
  <2>9. CASE Yes(t)
    <3>1. /\ slot \in Actions /\ origin[slot] # "none"
          /\ \A u \in Threads : Busy(u) => act[u] # slot
          /\ UNCHANGED <<state, shown, origin>>
      BY <2>9 DEF Yes
    <3>2. CASE MayConfirm(t)
      <4>1. /\ asked' = [asked EXCEPT ![slot] = state]
            /\ act' = [act EXCEPT ![t] = slot]
            /\ pc' = [pc EXCEPT ![t] = IF shown[slot] # None THEN "bind"
                                                           ELSE "replay"]
        BY <2>9, <3>2 DEF Yes, Replay
      <4>2. state \in Nat /\ state # None
        OBVIOUS
      <4>3. \A u \in Threads \ {t} : Busy(u) =>
              /\ pc'[u] = pc[u] /\ act'[u] = act[u]
              /\ asked'[act'[u]] = asked[act[u]]
        BY <3>1, <4>1
      <4>4. pc'[t] \in {"bind", "replay"} /\ act'[t] = slot /\ asked'[slot] = state
        BY <3>1, <4>1
      <4> QED
        BY <3>1, <4>1, <4>2, <4>3, <4>4
    <3>3. CASE ~MayConfirm(t)
      <4>1. UNCHANGED <<pc, act, asked>>
        BY <2>9, <3>3 DEF Yes, Replay
      <4> QED
        BY <3>1, <4>1
    <3> QED
      BY <3>2, <3>3
  <2>10. CASE Repark(t)
    BY <2>10 DEF Repark
  <2>11. CASE Bind(t)
    <3>1. act[t] \in Actions /\ shown[act[t]] = state /\ pc[t] = "bind"
      BY <2>11 DEF Bind, StillBound
    <3>2. /\ shown[act[t]] # None /\ asked[act[t]] # None
          /\ shown[act[t]] <= asked[act[t]] /\ asked[act[t]] <= state
      BY <3>1
    <3>3. shown[act[t]] \in Nat /\ asked[act[t]] \in Nat /\ state \in Nat
      BY <3>1, <3>2
    <3>4. asked[act[t]] = shown[act[t]]
      BY <3>1, <3>2, <3>3
    <3>5. /\ pc' = [pc EXCEPT ![t] = "replay"]
          /\ UNCHANGED <<state, shown, asked, origin, act>>
      BY <2>11 DEF Bind
    <3> QED
      BY <3>1, <3>4, <3>5
  <2>12. CASE ReplayGate(t)
    BY <2>12 DEF ReplayGate
  <2>13. CASE ReplayDispatch(t)
    BY <2>13 DEF ReplayDispatch, Dispatch
  <2>14. CASE ReplayRecord(t)
    BY <2>14 DEF ReplayRecord
  <2>15. CASE No(t)
    BY <2>15 DEF No
  <2> QED
    BY <1>9, <2>1, <2>2, <2>3, <2>4, <2>5, <2>6, <2>7, <2>8, <2>9, <2>10,
        <2>11, <2>12, <2>13, <2>14, <2>15 DEF Step
<1> QED
  BY <1>1, <1>2, <1>3, <1>4, <1>5, <1>6, <1>7, <1>8, <1>9 DEF Next

(* What runs is what was shown, and is shown or asked about no more. *)
LEMMA RunsWhatWasShownStep ==
  TypeOK /\ OnePlace /\ GoneOK /\ BoundOK /\ RunsWhatWasShown /\ [Next]_vars => RunsWhatWasShown'
<1> SUFFICES ASSUME TypeOK /\ OnePlace /\ GoneOK /\ BoundOK /\ RunsWhatWasShown, [Next]_vars
             PROVE RunsWhatWasShown'
  OBVIOUS
<1> USE ActionGateAssumption
    DEF RunsWhatWasShown, GoneOK, AfterRun, BoundOK, AutoLabels, ToRun, TypeOK, OnePlace, Busy, gates, threads, records, history,
        Goto, Proceed, Done, Home, Keep, Free, Audit
<1>1. CASE UNCHANGED vars
  BY <1>1 DEF vars
<1>2. CASE TurnBegin
  BY <1>2 DEF TurnBegin
<1>3. CASE TurnEnd
  BY <1>3 DEF TurnEnd
<1>4. CASE Lapse
  BY <1>4 DEF Lapse
<1>5. CASE Panic
  BY <1>5 DEF Panic
<1>6. CASE Unlock
  BY <1>6 DEF Unlock
<1>7. CASE SetRule
  BY <1>7 DEF SetRule
<1>8. CASE Drift
  BY <1>8 DEF Drift
<1>9. ASSUME NEW t \in Threads, Step(t) PROVE RunsWhatWasShown'
  <2>1. ASSUME NEW a \in Actions, Attempt(t, a) PROVE RunsWhatWasShown'
    BY <2>1 DEF Attempt
  <2>2. CASE PreviewFails(t)
    BY <2>2 DEF PreviewFails
  <2>3. CASE Decide(t)
    BY <2>3 DEF Decide
  <2>4. CASE AutoDispatch(t)
    BY <2>4 DEF AutoDispatch, Dispatch
  <2>5. CASE AutoAudit(t)
    BY <2>5 DEF AutoAudit
  <2>6. CASE AutoJournal(t)
    BY <2>6 DEF AutoJournal
  <2>7. CASE ComputePlan(t)
    BY <2>7 DEF ComputePlan
  <2>8. CASE ParkAction(t)
    BY <2>8 DEF ParkAction
  <2>9. CASE Yes(t)
    BY <2>9 DEF Yes, Answered, Replay, MayConfirm
  <2>10. CASE Repark(t)
    BY <2>10 DEF Repark
  <2>11. CASE Bind(t)
    BY <2>11 DEF Bind
  <2>12. CASE ReplayGate(t)
    BY <2>12 DEF ReplayGate
  <2>13. CASE ReplayDispatch(t)
    BY <2>13 DEF ReplayDispatch, Dispatch
  <2>14. CASE ReplayRecord(t)
    BY <2>14 DEF ReplayRecord
  <2>15. CASE No(t)
    BY <2>15 DEF No
  <2> QED
    BY <1>9, <2>1, <2>2, <2>3, <2>4, <2>5, <2>6, <2>7, <2>8, <2>9, <2>10,
        <2>11, <2>12, <2>13, <2>14, <2>15 DEF Step
<1> QED
  BY <1>1, <1>2, <1>3, <1>4, <1>5, <1>6, <1>7, <1>8, <1>9 DEF Next

(* One flip cannot make both reads of the gate lie about the one between. *)
LEMMA OneFlipStep ==
  ASSUME MaxFlips <= 1
  PROVE  TypeOK /\ OnePlace /\ OneFlip /\ [Next]_vars => OneFlip'
<1> SUFFICES ASSUME TypeOK /\ OnePlace /\ OneFlip, [Next]_vars
             PROVE OneFlip'
  OBVIOUS
<1> USE ActionGateAssumption
    DEF TypeOK, OnePlace, OneFlip, SeenOn, DryRun, JournalHonest, AfterRun, Busy, gates,
         threads, records, history, Goto, Proceed, Done, Home, Keep, Free, Audit
<1>1. CASE UNCHANGED vars
  BY <1>1 DEF vars
<1>2. CASE TurnBegin
  BY <1>2 DEF TurnBegin
<1>3. CASE TurnEnd
  BY <1>3 DEF TurnEnd
<1>4. CASE Lapse
  BY <1>4 DEF Lapse
<1>5. CASE Panic
  BY <1>5 DEF Panic
<1>6. CASE Unlock
  <2>1. flips \in Nat /\ flips = 0
    BY <1>6 DEF Unlock
  <2>2. \A t \in Threads : ~DryRun(t)
    BY <2>1
  <2>3. locked' = FALSE /\ UNCHANGED <<pc, act, ok, gateBefore, ran, journal>>
    BY <1>6 DEF Unlock
  <2> QED
    BY <2>2, <2>3
<1>7. CASE SetRule
  BY <1>7 DEF SetRule
<1>8. CASE Drift
  BY <1>8 DEF Drift
<1>9. ASSUME NEW t \in Threads, Step(t) PROVE OneFlip'
  <2>1. ASSUME NEW a \in Actions, Attempt(t, a) PROVE OneFlip'
    BY <2>1 DEF Attempt
  <2>2. CASE PreviewFails(t)
    BY <2>2 DEF PreviewFails
  <2>3. CASE Decide(t)
    BY <2>3 DEF Decide
  <2>4. CASE AutoDispatch(t)
    <3>1. PICK good \in BOOLEAN :
             /\ locked /\ act[t] \in Mcp => ~good
             /\ ok' = [ok EXCEPT ![t] = good]
             /\ ran' = IF ~locked /\ good THEN ran \cup {act[t]} ELSE ran
      BY <2>4 DEF AutoDispatch, Dispatch
    <3>2. /\ pc[t] = "auto_dispatch" /\ pc' = [pc EXCEPT ![t] = "auto_audit"]
          /\ UNCHANGED <<locked, flips, act, gateBefore, journal>>
      BY <2>4 DEF AutoDispatch
    <3>3. \A u \in Threads : SeenOn(u)' => SeenOn(u)
      BY <3>2
    <3>4. \A u \in Threads \ {t} : DryRun(u)' => DryRun(u)
      BY <3>1, <3>2
    <3>5. DryRun(t)' => SeenOn(t) /\ locked /\ act[t] \notin Mcp
      BY <3>1, <3>2
    <3> QED
      BY <3>1, <3>2, <3>3, <3>4, <3>5
  <2>5. CASE AutoAudit(t)
    BY <2>5 DEF AutoAudit
  <2>6. CASE AutoJournal(t)
    BY <2>6 DEF AutoJournal
  <2>7. CASE ComputePlan(t)
    BY <2>7 DEF ComputePlan
  <2>8. CASE ParkAction(t)
    BY <2>8 DEF ParkAction
  <2>9. CASE Yes(t)
    BY <2>9 DEF Yes, Answered, Replay, MayConfirm
  <2>10. CASE Repark(t)
    BY <2>10 DEF Repark
  <2>11. CASE Bind(t)
    BY <2>11 DEF Bind
  <2>12. CASE ReplayGate(t)
    BY <2>12 DEF ReplayGate
  <2>13. CASE ReplayDispatch(t)
    <3>1. PICK good \in BOOLEAN :
             /\ locked /\ act[t] \in Mcp => ~good
             /\ ok' = [ok EXCEPT ![t] = good]
             /\ ran' = IF ~locked /\ good THEN ran \cup {act[t]} ELSE ran
      BY <2>13 DEF ReplayDispatch, Dispatch
    <3>2. /\ pc[t] = "replay_dispatch" /\ pc' = [pc EXCEPT ![t] = "replay_record"]
          /\ UNCHANGED <<locked, flips, act, gateBefore, journal>>
      BY <2>13 DEF ReplayDispatch
    <3>3. \A u \in Threads : SeenOn(u)' => SeenOn(u)
      BY <3>2
    <3>4. \A u \in Threads \ {t} : DryRun(u)' => DryRun(u)
      BY <3>1, <3>2
    <3>5. DryRun(t)' => SeenOn(t) /\ locked /\ act[t] \notin Mcp
      BY <3>1, <3>2
    <3> QED
      BY <3>1, <3>2, <3>3, <3>4, <3>5
  <2>14. CASE ReplayRecord(t)
    BY <2>14 DEF ReplayRecord, Executed
  <2>15. CASE No(t)
    BY <2>15 DEF No
  <2> QED
    BY <1>9, <2>1, <2>2, <2>3, <2>4, <2>5, <2>6, <2>7, <2>8, <2>9, <2>10,
        <2>11, <2>12, <2>13, <2>14, <2>15 DEF Step
<1> QED
  BY <1>1, <1>2, <1>3, <1>4, <1>5, <1>6, <1>7, <1>8, <1>9 DEF Next

(* The initial states satisfy the invariant. *)
LEMMA InitIInv == Init => IInv
<1> SUFFICES ASSUME Init PROVE IInv
  OBVIOUS
<1>1. TypeOK
  BY TypeInit
<1>2. /\ slot = None /\ ran = {} /\ refused = {}
      /\ \A t \in Threads : pc[t] = "idle"
  BY DEF Init
<1>3. BoundOK
  BY DEF Init, BoundOK, AutoLabels, ToRun
<1> QED
  BY <1>1, <1>2, <1>3, ActionGateAssumption
  DEF IInv, OnePlace, AttemptedFirst, HandsOK, ToolsOK, GoneOK,
      UnattendedAsked, HeldAsked, Closed, ActionGateAssumption,
      RefusalIsFinal, RunRows, RunsWhatWasShown, Busy, AutoLabels, ReplayLabels

(* Every step preserves the invariant. *)
LEMMA NextIInv == IInv /\ [Next]_vars => IInv'
BY TypeOKStep, OnePlaceStep, AttemptedFirstStep, HandsOKStep, GoneOKStep,
   ToolsOKStep, UnattendedAskedStep, HeldAskedStep, RefusalIsFinalStep, RunRowsStep,
   BoundOKStep, RunsWhatWasShownStep DEF IInv

(* The invariant holds of every behaviour. *)
LEMMA Invariant == Spec => []IInv
BY InitIInv, NextIInv, PTL DEF Spec

-----------------------------------------------------------------------------
(* Every variable keeps its type. *)
THEOREM TypeCorrect == Spec => []TypeOK
BY Invariant, PTL DEF IInv

(* Whatever rule the user sets and whenever: an action of an unattended run, *)
(* of a tool that may not be approved in advance, or of one the fleet wants  *)
(* asked about happens only after a yes, and a barred one never does.        *)
THEOREM AskedWhenOwedHolds == Spec => []AskedWhenOwed
<1>1. IInv => AskedWhenOwed
  BY DEF IInv, TypeOK, UnattendedAsked, HeldAsked, Closed, Held, AskedWhenOwed,
         MustAsk
<1> QED
  BY <1>1, Invariant, PTL

(* An action that was denied, or answered by a stranger or a guest, never    *)
(* happens.                                                                  *)
THEOREM RefusalIsFinalHolds == Spec => []RefusalIsFinal
BY Invariant, PTL DEF IInv

(* A planned action runs against the state its user was asked about, however *)
(* the state moves between the question, the yes and the bind.               *)
THEOREM RunsWhatWasShownHolds == Spec => []RunsWhatWasShown
BY Invariant, PTL DEF IInv

(* The audit log says of every side effect who allowed it.                   *)
THEOREM RunsAccountedForHolds == Spec => []RunsAccountedFor
<1>1. IInv => RunsAccountedFor
  BY DEF IInv, RunRows, RunsAccountedFor, Free, Home
<1> QED
  BY <1>1, Invariant, PTL

(* With the gate flipped once at most, the journal holds only what happened. *)
THEOREM JournalHonestHolds ==
  ASSUME MaxFlips <= 1
  PROVE  Spec => []JournalHonest
<1>1. Init => OneFlip
  BY DEF Init, OneFlip, SeenOn, DryRun, JournalHonest, AfterRun
<1>2. TypeOK /\ OnePlace /\ OneFlip /\ [Next]_vars => OneFlip'
  BY OneFlipStep
<1>3. IInv => TypeOK /\ OnePlace
  BY DEF IInv
<1>4. OneFlip => JournalHonest
  BY DEF OneFlip
<1> QED
  BY <1>1, <1>2, <1>3, <1>4, Invariant, PTL DEF Spec
=============================================================================
