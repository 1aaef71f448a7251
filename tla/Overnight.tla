------------------------------ MODULE Overnight ------------------------------
(***************************************************************************)
(* The overnight queue (daemon/src/overnight.rs, overnight_task of main.rs *)
(* and the overnight verb of command.rs): work the user queues and the     *)
(* daemon does while they are away.                                        *)
(*                                                                         *)
(* The queue is one file.  The verb reads it, appends a task and writes it *)
(* back before it answers that the task is queued.  The runner reads it    *)
(* once, awaits a completion for each queued task, and writes its own copy *)
(* back after the last.  No lock joins a read to the write that follows,   *)
(* and fs::write cuts the file before it fills it: an end of the process   *)
(* in between leaves a file that does not parse and loads as empty.        *)
(*                                                                         *)
(* A task is the id made from its prompt and the time it was queued, so no *)
(* task is queued twice.  A write is one step for the other threads; only  *)
(* an end of the process divides it.                                       *)
(***************************************************************************)
EXTENDS Naturals, Sequences, SequencesExt

CONSTANTS
  Tasks,        \* the tasks that may be queued
  Verbs,        \* connections that may be queueing at the same time
  MaxQueue,     \* MAX_QUEUE
  MaxLosses     \* bound: failed writes and ends of the process

ASSUME OvernightAssumption == MaxQueue \in Nat \ {0} /\ MaxLosses \in Nat

VARIABLES
  file,       \* queue.json: a sequence of tasks with their status
  fit,        \* the switch is on, no lockdown, the user away, a key, no pressure
  rested,     \* min_gap_secs have passed since last_run.txt, or it is not there
  runner,     \* the pass under way: its place, its copy, what it completed
  verb,       \* what each connection has read and is about to write
  losses,     \* failed writes and ends so far
  asked,      \* history: tasks that were asked for
  kept,       \* history: tasks answered as queued while nobody else held a copy,
              \* and not yet finished in the file
  runs,       \* history: how often each task was completed, counted to two
  redo        \* history: tasks whose result was lost with its copy

queueVars == <<file, fit, rested, runner, verb, losses, asked, kept, runs, redo>>

Statuses == {"queued", "done", "failed"}
Entries  == [task : Tasks, status : Statuses]
Idle     == [pc |-> "idle", copy |-> <<>>, did |-> {}]
NoVerb   == [pc |-> "idle", copy |-> <<>>, task |-> {}]

Queued(q) == {q[i].task : i \in {j \in DOMAIN q : q[j].status = "queued"}}

Reading == {v \in Verbs : verb[v].pc # "idle"}

-----------------------------------------------------------------------------
(* The verb.                                                               *)

NewEntry(t) == [task |-> t, status |-> "queued"]

(* Faulty form: at the cap the oldest task goes, finished or not. *)
PlanEvictingAny(q, t) ==
  {Append(IF Len(q) >= MaxQueue THEN Tail(q) ELSE q, NewEntry(t))}

(* Faulty form: the queue may grow one past the cap. *)
PlanPastCap(q, t) == IF Len(q) <= MaxQueue THEN {Append(q, NewEntry(t))} ELSE {}

Oldest(q, D) == CHOOSE i \in D : \A j \in D : i <= j

(* plan_enqueue: at the cap the oldest finished task makes room; with none the
   request is refused.  The result is the queue, or nothing. *)
PlanEnqueue(q, t) ==
  LET done == {i \in DOMAIN q : q[i].status # "queued"}
  IN IF Len(q) < MaxQueue THEN {Append(q, NewEntry(t))}
     ELSE IF done = {} THEN {}
     ELSE {Append(RemoveAt(q, Oldest(q, done)), NewEntry(t))}

(* enqueue reads the file and plans. *)
Enqueue(v, t) ==
  /\ verb[v].pc = "idle" /\ t \notin asked
  /\ asked' = asked \cup {t}
  /\ \E q \in PlanEnqueue(file, t) :
       verb' = [verb EXCEPT ![v] = [pc |-> "write", copy |-> q, task |-> {t}]]
  /\ UNCHANGED <<file, fit, rested, runner, losses, kept, runs, redo>>

(* The queue is full: refused, and nothing is written. *)
Refuse(v, t) ==
  /\ verb[v].pc = "idle" /\ t \notin asked
  /\ PlanEnqueue(file, t) = {}
  /\ asked' = asked \cup {t}
  /\ UNCHANGED <<file, fit, rested, runner, verb, losses, kept, runs, redo>>

(* enqueue writes the file and answers that the task is queued.  When someone
   else holds an older copy, that answer may not last. *)
Acknowledge(v) ==
  /\ verb[v].pc = "write"
  /\ file' = verb[v].copy
  /\ verb' = [verb EXCEPT ![v] = NoVerb]
  /\ kept' = IF runner.pc = "idle" /\ Reading = {v} THEN kept \cup verb[v].task
                                                    ELSE kept
  /\ UNCHANGED <<fit, rested, runner, losses, asked, runs, redo>>

(* The write fails: the answer says that the task is not queued. *)
WriteFails(v) ==
  /\ verb[v].pc = "write" /\ losses < MaxLosses
  /\ losses' = losses + 1
  /\ verb' = [verb EXCEPT ![v] = NoVerb]
  /\ UNCHANGED <<file, fit, rested, runner, asked, kept, runs, redo>>

-----------------------------------------------------------------------------
(* The runner.                                                             *)

(* overnight_task: should_run_now and the other gates, then the queue is read. *)
BeginPass ==
  /\ runner.pc = "idle" /\ fit /\ rested
  /\ runner' = [pc |-> "run", copy |-> file, did |-> {}]
  /\ UNCHANGED <<file, fit, rested, verb, losses, asked, kept, runs, redo>>

First(q, S) == CHOOSE i \in DOMAIN q : q[i].task \in S
                 /\ \A j \in DOMAIN q : q[j].task \in S => i <= j

(* Faulty form: every task that did not succeed is pending. *)
PendingUnlessDone(q) == {q[i].task : i \in {j \in DOMAIN q : q[j].status # "done"}}

(* The tasks a pass has still to complete. *)
Pending(q) == Queued(q)

(* One completion is awaited: it succeeds, or fails or times out. *)
RunTask ==
  /\ runner.pc = "run" /\ Pending(runner.copy) \ runner.did # {}
  /\ LET i == First(runner.copy, Pending(runner.copy) \ runner.did)
         t == runner.copy[i].task
     IN /\ \E st \in {"done", "failed"} :
             runner' = [runner EXCEPT !.copy[i].status = st, !.did = @ \cup {t}]
        /\ runs' = [runs EXCEPT ![t] = IF @ < 2 THEN @ + 1 ELSE 2]
  /\ UNCHANGED <<file, fit, rested, verb, losses, asked, kept, redo>>

AtSave == runner.pc = "run" /\ Pending(runner.copy) \subseteq runner.did

(* Faulty form: the list is written back as it was read. *)
SaveUnmarked ==
  /\ AtSave
  /\ runner' = [runner EXCEPT !.pc = "stamp"]
  /\ UNCHANGED <<file, fit, rested, verb, losses, asked, kept, runs, redo>>

(* The copy is written back when anything ran.  A connection that has read the
   file and not yet written it will undo this. *)
Save ==
  /\ AtSave
  /\ runner' = [runner EXCEPT !.pc = "stamp"]
  /\ file' = IF runner.did = {} THEN file ELSE runner.copy
  /\ kept' = kept \ runner.did
  /\ redo' = IF Reading = {} THEN redo ELSE redo \cup runner.did
  /\ UNCHANGED <<fit, rested, verb, losses, asked, runs>>

(* The write fails without a word: the tasks run again in the next window. *)
SaveFails ==
  /\ AtSave /\ runner.did # {} /\ losses < MaxLosses
  /\ losses' = losses + 1
  /\ runner' = [runner EXCEPT !.pc = "stamp"]
  /\ redo' = redo \cup runner.did
  /\ UNCHANGED <<file, fit, rested, verb, asked, kept, runs>>

(* write_last_run, even when nothing ran. *)
Stamp ==
  /\ runner.pc = "stamp"
  /\ runner' = Idle
  /\ rested' = FALSE
  /\ UNCHANGED <<file, fit, verb, losses, asked, kept, runs, redo>>

Runner == BeginPass \/ RunTask \/ Save \/ Stamp

-----------------------------------------------------------------------------
(* The surroundings.                                                       *)

Rests ==
  /\ ~rested /\ rested' = TRUE
  /\ UNCHANGED <<file, fit, runner, verb, losses, asked, kept, runs, redo>>

(* The user leaves or comes back, the switch is flipped, a key is filed. *)
ToggleFit ==
  /\ fit' = ~fit
  /\ UNCHANGED <<file, rested, runner, verb, losses, asked, kept, runs, redo>>

(* The process ends: the copies are gone.  When it ends inside a write the
   file is cut, and what it held is gone too. *)
Writing == (AtSave /\ runner.did # {}) \/ \E v \in Verbs : verb[v].pc = "write"

Stops ==
  /\ losses < MaxLosses
  /\ losses' = losses + 1
  /\ runner' = Idle
  /\ verb' = [v \in Verbs |-> NoVerb]
  /\ redo' = redo \cup runner.did
  /\ UNCHANGED <<fit, rested, asked, runs>>

Dies     == Stops /\ UNCHANGED <<file, kept>>
DiesTorn == Writing /\ Stops /\ file' = <<>> /\ kept' = {}

QueueInit ==
  /\ file = <<>> /\ fit \in BOOLEAN /\ rested = TRUE
  /\ runner = Idle /\ verb = [v \in Verbs |-> NoVerb] /\ losses = 0
  /\ asked = {} /\ kept = {} /\ runs = [t \in Tasks |-> 0] /\ redo = {}

QueueNext ==
  \/ \E v \in Verbs :
       \/ \E t \in Tasks : Enqueue(v, t) \/ Refuse(v, t)
       \/ Acknowledge(v) \/ WriteFails(v)
  \/ Runner \/ SaveFails
  \/ Rests \/ ToggleFit
  \/ Dies \/ DiesTorn

QueueSpec == QueueInit /\ [][QueueNext]_queueVars

(* The overnight task keeps ticking, every completion ends (RUN_TIMEOUT), and
   time goes on. *)
FairQueueSpec == QueueSpec /\ WF_queueVars(Runner) /\ WF_queueVars(Rests)

-----------------------------------------------------------------------------
(* Properties.                                                             *)

(* The shapes of the file and its copies: no copy, and so no file, is longer
   than MAX_QUEUE or has a task twice, whoever writes last. *)
Sound(q) ==
  /\ q \in Seq(Entries) /\ Len(q) <= MaxQueue
  /\ \A i, j \in DOMAIN q : q[i].task = q[j].task => i = j

QueueTypeOK ==
  /\ Sound(file) /\ Sound(runner.copy) /\ \A v \in Verbs : Sound(verb[v].copy)
  /\ {fit, rested} \subseteq BOOLEAN
  /\ runner.pc \in {"idle", "run", "stamp"} /\ runner.did \subseteq Tasks
  /\ \A v \in Verbs : verb[v].pc \in {"idle", "write"} /\ verb[v].task \subseteq Tasks
  /\ losses \in 0..MaxLosses
  /\ {asked, kept, redo} \subseteq SUBSET Tasks
  /\ runs \in [Tasks -> 0..2]

(* A task answered as queued while no pass and no other connection held a copy
   of the queue stays queued in the file until a pass has finished it, through
   evictions at the cap, the writes of others and ends of the process outside
   a write (enqueue, plan_enqueue, run_pending). *)
AckedKept == kept \subseteq Queued(file)

(* "The queue is durable": no write of the runner takes a task out of the file
   that is waiting there and that the pass did not complete.  One that was
   answered as queued while the pass awaited a completion is not in the copy
   the pass writes back (enqueue and run_pending). *)
QueueIsDurable ==
  [][Save => Queued(file) \subseteq Queued(file') \cup runner.did]_queueVars

(* A task is completed once, unless its result was lost: by a failed write, an
   end of the process in the pass, or a connection that wrote an older list
   (run_pending and plan_enqueue). *)
RunOnce == \A t \in Tasks : runs[t] > 1 => t \in redo

(* A kept task is finished in the end while the gates stay open. *)
QueuedRuns == \A t \in Tasks : t \in kept ~> (t \notin kept \/ ~fit)

=============================================================================
