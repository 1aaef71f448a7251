------------------------------ MODULE Standing ------------------------------
(***************************************************************************)
(* Standing missions (daemon/src/standing.rs, standing_task of main.rs):   *)
(* goals that the daemon runs by itself, each kept as one row of the       *)
(* memory store with the time of its last run.  An interval mission is due *)
(* when its period has passed, a signal mission when its signal is also    *)
(* there, and a condition mission (a tripwire) on the rising edge of its   *)
(* reading, once its debounce has passed.                                  *)
(*                                                                         *)
(* One tick reads the clock, the switch and the list, decides what is due, *)
(* runs each mission in turn and stamps it with the time the TICK began.   *)
(* Meanwhile turns create and cancel missions, the switch and the lockdown *)
(* flip, and the readings move.  The store has a lock for each call, not   *)
(* for a call after another.                                               *)
(*                                                                         *)
(* Time is kept as ages, in periods of a tick, and an age stops at Old,    *)
(* where every mission is rested: a record that never ran (last_run = 0)   *)
(* has that age.  Daily missions, which go by the calendar, and the        *)
(* enabled flag of one mission, which no code clears, are left out.        *)
(***************************************************************************)
EXTENDS Integers, FiniteSets

CONSTANTS
  Missions,     \* content ids of the missions that may be created
  Kind,         \* Kind[m] \in {"interval", "signal", "condition"}
  Gap,          \* Gap[m]: clamped interval, signal cooldown or debounce
  MaxTurns,     \* bound: turns that create one mission at the same time
  MaxActive,    \* MAX_ACTIVE
  EvalEvery,    \* condition_eval_secs
  MaxMishaps,   \* bound: failures of the store and ends of the process
  None          \* no mission

ASSUME StandingAssumption ==
  /\ IsFiniteSet(Missions) /\ None \notin Missions
  /\ Kind \in [Missions -> {"interval", "signal", "condition"}]
  /\ Gap \in [Missions -> Nat \ {0}]
  /\ {MaxTurns, MaxActive, EvalEvery, MaxMishaps} \subseteq Nat

VARIABLES
  store,      \* meta.standing.*: the age of the last run of each mission
  switchOn,   \* the switch is on and the daemon is not locked down
  reading,    \* what the signals say of each signal and condition mission
  evalAge,    \* age of last_condition_eval
  latched,    \* TripwireLedger: the conditions whose latch is set
  tick,       \* the tick under way: its place, the age of its now, what it
              \* read, the missions left and the one that runs
  creating,   \* per mission: the turns that have checked it and not yet saved it
  mishaps,    \* failures and ends so far
  ran,        \* history: age of the tick that last began a run of a mission
  excused,    \* history: missions whose stamp was lost or made anew
  early,      \* history: missions with no right to run in the tick that looks
  spent,      \* history: tripwires that fired and were not read clear since
  gone,       \* history: missions not created, or cancelled since
  raced       \* history: creations overlapped, or a stamp undid a cancel

missionVars == <<store, switchOn, reading, evalAge, latched, tick, creating,
                 mishaps, ran, excused, early, spent, gone, raced>>

world   == <<switchOn, reading>>
history == <<ran, excused, early, spent, gone, raced>>

Old == CHOOSE n \in {Gap[m] : m \in Missions} \cup {EvalEvery} :
         \A k \in {Gap[m] : m \in Missions} \cup {EvalEvery} : k <= n

Ages  == 0..Old
Older(age) == IF age < Old THEN age + 1 ELSE Old

Asleep == [pc |-> "sleep", age |-> 0, on |-> FALSE, eval |-> FALSE,
           rested |-> <<>>, todo |-> {}, cur |-> None]

Conditions == {m \in Missions : Kind[m] = "condition"}

-----------------------------------------------------------------------------
(* The tick.                                                               *)

(* What an interval mission needs besides its period: nothing; a signal or a
   condition has to hold. *)
Present(m) == Kind[m] = "interval" \/ reading[m] = "holds"

(* Faulty form: no signal source is wired to the tick. *)
IsDueUnwired(m) == Kind[m] = "interval" /\ tick.rested[m]

(* is_due: never for a condition, which is due on its edge only. *)
IsDue(m) == Kind[m] # "condition" /\ tick.rested[m] /\ Present(m)

(* due_missions: with the switch off nothing is due. *)
DueMissions == {m \in DOMAIN tick.rested : tick.on /\ IsDue(m)}

(* tripwire_step: fire on a rising edge that is rested. *)
Fires(m) == Present(m) /\ m \notin latched /\ tick.rested[m]

(* Faulty form: an edge within the cooldown sets the latch all the same. *)
EdgeConsumed(m) ==
  \/ reading[m] = "holds"
  \/ m \in latched /\ reading[m] # "clear"

(* Faulty form: no latch, so a reading that stays fires again. *)
LatchForgotten(m) == FALSE

(* The latch after the step; an edge within the cooldown leaves it unset. *)
NextLatched(m) ==
  \/ Fires(m)
  \/ m \in latched /\ reading[m] # "clear"

Listed == Conditions \cap DOMAIN tick.rested

(* Conditions are evaluated when the switch is on, there are some and the
   cadence has passed. *)
Evaluates == tick.on /\ tick.eval /\ Listed # {}

(* due_condition_missions. *)
DueConditions == IF Evaluates THEN {m \in Listed : Fires(m)} ELSE {}

Look ==
  /\ tick.pc = "sleep"
  /\ tick' = [Asleep EXCEPT
                !.pc = "looked", !.on = switchOn, !.eval = evalAge >= EvalEvery,
                !.rested = [m \in DOMAIN store |-> store[m] >= Gap[m]]]
  /\ early' = {m \in Missions \ excused : ran[m] < Gap[m]}
  /\ UNCHANGED <<store, world, evalAge, latched, creating, mishaps, ran,
                 excused, spent, gone, raced>>

(* The loop goes to its next mission, or to sleep after the last. *)
Rest == IF tick.todo = {} THEN Asleep ELSE [tick EXCEPT !.pc = "next", !.cur = None]

Decide ==
  /\ tick.pc = "looked"
  /\ LET due == DueMissions \cup DueConditions
     IN tick' = IF due = {} THEN Asleep
                ELSE [Asleep EXCEPT !.pc = "next", !.age = tick.age, !.todo = due]
  /\ early' = {}
  /\ IF Evaluates
       THEN /\ latched' = {m \in Listed : NextLatched(m)}
            /\ evalAge' = tick.age
            /\ spent' = {m \in Listed :
                           Fires(m) \/ (m \in spent /\ reading[m] # "clear")}
       ELSE UNCHANGED <<latched, evalAge, spent>>
  /\ UNCHANGED <<store, world, creating, mishaps, ran, excused, gone,
                 raced>>

(* run_one begins: the missions due by the clock before the tripwires, from
   what the tick read, whatever happened to the mission or the switch. *)
BeginRun(m) ==
  /\ tick.pc = "next" /\ m \in tick.todo
  /\ Kind[m] = "condition" => tick.todo \subseteq Conditions
  /\ tick' = [tick EXCEPT !.pc = "run", !.todo = @ \ {m}, !.cur = m]
  /\ ran' = [ran EXCEPT ![m] = tick.age]
  /\ UNCHANGED <<store, world, evalAge, latched, creating, mishaps, excused,
                 early, spent, gone, raced>>

(* Faulty form: the tick's own copy is stamped, without the re-load. *)
MarkUnread ==
  /\ tick.pc = "run"
  /\ tick' = [tick EXCEPT !.pc = "save"]
  /\ UNCHANGED <<store, world, evalAge, latched, creating, mishaps, history>>

(* mark_ran lists the store and looks for the mission. *)
MarkRead ==
  /\ tick.pc = "run"
  /\ tick' = IF tick.cur \in DOMAIN store THEN [tick EXCEPT !.pc = "save"] ELSE Rest
  /\ UNCHANGED <<store, world, evalAge, latched, creating, mishaps, history>>

(* save: the row of a mission is written, over the one that is there. *)
Stored(m, age) ==
  [k \in DOMAIN store \cup {m} |-> IF k = m THEN age ELSE store[k]]

(* Faulty form: a run is stamped only where there was none. *)
MarkOnlyFirst ==
  /\ tick.pc = "save"
  /\ store' = IF tick.cur \in DOMAIN store THEN store
              ELSE Stored(tick.cur, tick.age)
  /\ excused' = excused \ {tick.cur}
  /\ tick' = Rest
  /\ UNCHANGED <<world, evalAge, latched, creating, mishaps, ran, early, spent,
                 gone, raced>>

(* mark_ran saves what it found with last_run = the tick's now. *)
MarkSave ==
  /\ tick.pc = "save"
  /\ store' = Stored(tick.cur, tick.age)
  /\ excused' = excused \ {tick.cur}
  /\ tick' = Rest
  /\ UNCHANGED <<world, evalAge, latched, creating, mishaps, ran, early, spent,
                 gone, raced>>

(* Either call of mark_ran fails: a warning, and the run is not stamped. *)
MarkFails ==
  /\ tick.pc \in {"run", "save"} /\ mishaps < MaxMishaps
  /\ mishaps' = mishaps + 1
  /\ excused' = excused \cup {tick.cur}
  /\ tick' = Rest
  /\ UNCHANGED <<store, world, evalAge, latched, creating, ran, early, spent,
                 gone, raced>>

Tick == Look \/ Decide \/ (\E m \in Missions : BeginRun(m)) \/ MarkRead \/ MarkSave

-----------------------------------------------------------------------------
(* Turns.                                                                  *)

(* A turn is between the check of some mission and its save. *)
Creating == \E m \in Missions : creating[m] > 0

(* Faulty form: the cap counts the record that is about to be made. *)
CheckOffByOne(m) ==
  /\ creating[m] < MaxTurns
  /\ m \in DOMAIN store \/ Cardinality(DOMAIN store) <= MaxActive
  /\ creating' = [creating EXCEPT ![m] = @ + 1]
  /\ raced' = (raced \/ Creating)
  /\ UNCHANGED <<store, world, evalAge, latched, tick, mishaps, ran, excused,
                 early, spent, gone>>

(* create: refused at the cap unless the id is there already. *)
CreateCheck(m) ==
  /\ creating[m] < MaxTurns
  /\ m \in DOMAIN store \/ Cardinality(DOMAIN store) < MaxActive
  /\ creating' = [creating EXCEPT ![m] = @ + 1]
  /\ raced' = (raced \/ Creating)
  /\ UNCHANGED <<store, world, evalAge, latched, tick, mishaps, ran, excused,
                 early, spent, gone>>

(* create: the record is saved as one that never ran, a re-created one too. *)
CreateSave(m) ==
  /\ creating[m] > 0
  /\ store' = Stored(m, Old)
  /\ creating' = [creating EXCEPT ![m] = @ - 1]
  /\ excused' = excused \cup {m}
  /\ gone' = gone \ {m}
  /\ UNCHANGED <<world, evalAge, latched, tick, mishaps, ran, early, spent, raced>>

(* cancel: the row is deleted.  One that falls between the read and the save
   of mark_ran is undone by that save, and is not counted as gone. *)
Stamping(m) == tick.pc = "save" /\ tick.cur = m

Cancel(m) ==
  /\ m \in DOMAIN store
  /\ store' = [k \in DOMAIN store \ {m} |-> store[k]]
  /\ IF Stamping(m) THEN raced' = TRUE /\ gone' = gone
                    ELSE raced' = raced /\ gone' = gone \cup {m}
  /\ excused' = excused \cup {m}
  /\ UNCHANGED <<world, evalAge, latched, tick, creating, mishaps, ran, early,
                 spent>>

-----------------------------------------------------------------------------
(* The surroundings.                                                       *)

(* [standing].enabled is edited, or the lockdown is engaged or released. *)
ToggleSwitch ==
  /\ switchOn' = ~switchOn
  /\ UNCHANGED <<store, reading, evalAge, latched, tick, creating, mishaps, history>>

(* A reading moves: holds, the dead band of the hysteresis, or clear. *)
Move(m, r) ==
  /\ Kind[m] # "interval"
  /\ Kind[m] = "signal" => r # "band"
  /\ reading' = [reading EXCEPT ![m] = r]
  /\ UNCHANGED <<store, switchOn, evalAge, latched, tick, creating, mishaps, history>>

Pass ==
  /\ store' = [m \in DOMAIN store |-> Older(store[m])]
  /\ tick' = IF tick.pc = "sleep" THEN tick ELSE [tick EXCEPT !.age = Older(@)]
  /\ evalAge' = Older(evalAge)
  /\ ran' = [m \in Missions |-> Older(ran[m])]
  /\ UNCHANGED <<world, latched, creating, mishaps, excused, early, spent, gone,
                 raced>>

(* The process ends and starts again: the store is kept, the tick, the ledger
   and the creations under way are not. *)
DaemonRestarts ==
  /\ mishaps < MaxMishaps
  /\ mishaps' = mishaps + 1
  /\ tick' = Asleep
  /\ latched' = {}
  /\ spent' = {}
  /\ early' = {}
  /\ evalAge' = Old
  /\ creating' = [m \in Missions |-> 0]
  /\ excused' = IF tick.pc \in {"run", "save"} THEN excused \cup {tick.cur} ELSE excused
  /\ UNCHANGED <<store, world, ran, gone, raced>>

MissionInit ==
  /\ store = <<>> /\ switchOn = TRUE
  /\ reading = [m \in Missions |-> "clear"]
  /\ evalAge = Old /\ latched = {}
  /\ tick = Asleep
  /\ creating = [m \in Missions |-> 0]
  /\ mishaps = 0
  /\ ran = [m \in Missions |-> Old]
  /\ excused = Missions /\ gone = Missions
  /\ early = {} /\ spent = {} /\ raced = FALSE

MissionTurns == \E m \in Missions : CreateCheck(m) \/ CreateSave(m) \/ Cancel(m)

MissionNext ==
  \/ Tick \/ MarkFails
  \/ MissionTurns
  \/ ToggleSwitch
  \/ \E m \in Missions, r \in {"clear", "band", "holds"} : Move(m, r)
  \/ Pass
  \/ DaemonRestarts

MissionSpec == MissionInit /\ [][MissionNext]_missionVars

(* The standing task keeps ticking and time goes on; nothing is promised of
   the user, the readings or the disk. *)
FairMissionSpec == MissionSpec /\ WF_missionVars(Tick) /\ WF_missionVars(Pass)

-----------------------------------------------------------------------------
(* Properties.                                                             *)

(* The store never holds more than MAX_ACTIVE missions, unless two creations
   overlapped or a cancel was undone by a stamp. *)
CapHolds == raced \/ Cardinality(DOMAIN store) <= MaxActive

(* The shapes of the store, the ledger and the tick: the latch is kept for
   conditions only, a mission is run only in a tick that read it, and the
   store is within its cap. *)
MissionTypeOK ==
  /\ CapHolds
  /\ DOMAIN store \subseteq Missions /\ \A m \in DOMAIN store : store[m] \in Ages
  /\ switchOn \in BOOLEAN /\ raced \in BOOLEAN
  /\ reading \in [Missions -> {"clear", "band", "holds"}]
  /\ {tick.age, evalAge} \subseteq Ages
  /\ latched \subseteq Conditions /\ spent \subseteq Conditions
  /\ tick.pc \in {"sleep", "looked", "next", "run", "save"}
  /\ DOMAIN tick.rested \cup tick.todo \subseteq Missions
  /\ tick.pc = "next" => tick.todo # {}
  /\ tick.cur \in IF tick.pc \in {"run", "save"} THEN Missions ELSE {None}
  /\ creating \in [Missions -> 0..MaxTurns]
  /\ mishaps \in 0..MaxMishaps
  /\ ran \in [Missions -> Ages]
  /\ {excused, early, gone} \subseteq SUBSET Missions

(* No mission is due again within its period: from the tick that ran it to the
   tick that runs it again the interval, cooldown or debounce has passed,
   unless it was created anew or its stamp was lost (is_due, tripwire_step and
   mark_ran together). *)
OncePerPeriod == [][(tick'.todo \ tick.todo) \cap early = {}]_missionVars

(* A cancelled mission stays cancelled: a run that was under way does not put
   the row back (mark_ran re-loads it for that). *)
CancelledStaysGone == gone \cap DOMAIN store = {}

(* A tripwire fires once for an edge: between two runs of one process its
   reading was seen clear. *)
NoStorm == [][(tick'.todo \ tick.todo) \cap spent = {}]_missionVars

Runs(m) == tick.pc = "run" /\ tick.cur = m
Disturbed(m) == ~switchOn \/ m \notin DOMAIN store

(* While the switch stays on, an interval mission that stays in the store, and
   a signal mission whose signal stays, is run again and again. *)
DueRuns ==
  \A m \in Missions \ Conditions :
    (m \in DOMAIN store /\ Present(m))
       ~> (Runs(m) \/ ~Present(m) \/ Disturbed(m))

(* A tripwire whose reading holds and whose latch is unset is run in the end:
   the debounce defers an edge and never swallows it. *)
TripwireFires ==
  \A m \in Conditions :
    (m \in DOMAIN store /\ Present(m) /\ m \notin latched)
       ~> (Runs(m) \/ ~Present(m) \/ Disturbed(m))

=============================================================================
