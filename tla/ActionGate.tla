---------------------------- MODULE ActionGate -----------------------------
(***************************************************************************)
(* The path of one consequential action through darwind, from the model's  *)
(* tool call to its records: execute_tool_bound, its twin for MCP tools,   *)
(* execute_mcp_tool, and replay_confirmed_action of                        *)
(* src/daemon/src/anthropic.rs, with the gates they read.                  *)
(*                                                                         *)
(* A voice turn, command-channel connections and background runs (standing *)
(* missions, webhooks) each take actions through the same chokepoint.  Its *)
(* gates are process-global values read at different moments, with awaits  *)
(* between them: the emergency stop, the user's policy rule, the voice-id  *)
(* gate of the voice turn, the state a plan was computed from.  The        *)
(* confirmation slot is abstracted to the action it holds: ConfirmSlot     *)
(* models its two locks.                                                   *)
(***************************************************************************)
EXTENDS Naturals

CONSTANTS
  Voice, Channel, Background,  \* threads: the voice turns, one at a time;
                               \* command connections; unattended runs
  Actions,       \* consequential tool calls, each attempted at most once
  Planned,       \* those whose tool has a planner (plan.rs)
  Mcp,           \* those of a tool of an external MCP server
  Profiles,      \* what may stand about the tools of the actions at start
  None,          \* no action
  MaxFlips,      \* bound: panics and unlocks
  MaxRules,      \* bound: policy rules the user sets
  MaxDrift       \* bound: changes of the state the plans are bound to

Threads == {Voice} \cup Channel \cup Background

Decisions == {"never", "always", "ask"}

\* What the policy knows of a tool from the start on: whether it may ever be
\* approved in advance (is_never_auto_approve), what the narrower rule of the
\* policy file that matches the action says, and the floor that the fleet
\* baseline sets for it, which cannot say "always".
Tools == [auto : BOOLEAN, narrow : Decisions, floor : {"none", "ask", "never"}]

ASSUME ActionGateAssumption ==
  /\ Voice \notin Channel /\ Voice \notin Background
  /\ Channel \cap Background = {}
  /\ Planned \subseteq Actions /\ Mcp \subseteq Actions /\ Planned \cap Mcp = {}
  /\ None \notin Actions /\ None \notin 0 .. MaxDrift
  /\ Profiles \subseteq [Actions -> Tools]
  /\ MaxFlips \in Nat /\ MaxRules \in Nat /\ MaxDrift \in Nat

Outcomes == {"blocked_voice_id", "blocked_policy", "auto_approved",
             "always_inert", "parked", "dry_run", "confirmed", "denied",
             "executed"}

\* Whose voice the turn's gate was set from; "off" is no gate (voice-id off,
\* nobody enrolled, or no voice turn under way).
Speakers == {"off", "owner", "stranger"}

VARIABLES
  locked,      \* the emergency stop: consequential_allowed() is ~locked
  rule,        \* per action: the user's rule for its tool, "ask" if there is none
  tool,        \* per action: what stands about its tool
  speaker,     \* TURN_GATE
  guest,       \* the voice turn under way is a guest's
  state,       \* what compute_plan reads
  slot,        \* the action parked for a yes
  shown,       \* per action: the state its plan was computed from, or None
  pc,          \* where each thread is
  act,         \* local: the action each thread has in hand
  gateBefore,  \* local, replay: the gate as read before the dispatch
  ok,          \* local: what dispatch_tool returned, no error
  rows,        \* per action: its rows of the audit log
  journal,     \* actions in the undo journal
  ran,         \* actions whose side effect happened
  origin,      \* history, per action: whether an attended thread attempted it
  asked,       \* history, per action: the state when a human said yes, or None
  refused,     \* history: actions a human denied, or that an unrecognised or
               \* guest voice said yes to
  flips, rules \* how often the gate was flipped and the rule set

gates    == <<locked, rule, tool, speaker, guest, state, flips, rules>>
threads  == <<pc, act, gateBefore, ok>>
records  == <<rows, journal>>
history  == <<origin, asked, refused>>
vars     == <<gates, slot, shown, threads, records, ran, history>>

Attended(t) == t \notin Background

\* A thread with nothing in hand; the voice thread acts inside a turn.
Home(t) == IF t = Voice THEN "turn" ELSE "idle"
Free(t) == pc[t] = Home(t)

Goto(t, label) == pc' = [pc EXCEPT ![t] = label]

Keep(t, a) == act' = [act EXCEPT ![t] = a]

\* The call goes on, or returns and its locals are gone.
Proceed(t, label) == Goto(t, label) /\ UNCHANGED <<act, gateBefore, ok>>

Done(t) ==
  /\ Goto(t, Home(t))
  /\ Keep(t, None)
  /\ gateBefore' = [gateBefore EXCEPT ![t] = FALSE]
  /\ ok' = [ok EXCEPT ![t] = FALSE]

Audit(a, outcomes) == rows' = [rows EXCEPT ![a] = @ \cup outcomes]

-----------------------------------------------------------------------------
(* The voice turn: run_pipeline sets the gate from this utterance's speaker  *)
(* and a drop guard clears it on every way out.                              *)

TurnBegin ==
  /\ pc[Voice] = "idle"
  /\ speaker' \in Speakers
  /\ guest' \in BOOLEAN
  /\ Proceed(Voice, "turn")
  /\ UNCHANGED <<locked, rule, tool, state, flips, rules, slot, shown, records,
                 ran, history>>

TurnEnd ==
  /\ pc[Voice] = "turn"
  /\ speaker' = "off"
  /\ guest' = FALSE
  /\ Proceed(Voice, "idle")
  /\ UNCHANGED <<locked, rule, tool, state, flips, rules, slot, shown, records,
                 ran, history>>

\* THRESHOLD's guest scope is task-local: it binds the voice turn only.
GuestTurn(t) == t = Voice /\ guest

-----------------------------------------------------------------------------
(* execute_tool_bound. *)

\* A guest is refused every tool outside the read-only scope; an unrecognised
\* voice is refused and the refusal audited; otherwise the preview is awaited.
Attempt(t, a) ==
  /\ Free(t)
  /\ origin[a] = "none"
  /\ origin' = [origin EXCEPT ![a] =
                  IF Attended(t) THEN "attended" ELSE "unattended"]
  /\ \/ GuestTurn(t) /\ UNCHANGED <<threads, records>>
     \/ /\ ~GuestTurn(t) /\ speaker = "stranger"
        /\ Audit(a, {"blocked_voice_id"})
        /\ UNCHANGED <<threads, journal>>
     \/ /\ ~GuestTurn(t) /\ speaker # "stranger"
        /\ Goto(t, "preview")
        /\ Keep(t, a)
        /\ UNCHANGED <<gateBefore, ok, records>>
  /\ UNCHANGED <<gates, slot, shown, ran, asked, refused>>

\* The dry-run dispatch failed: relay the error, audit nothing.
PreviewFails(t) ==
  /\ pc[t] = "preview"
  /\ Done(t)
  /\ UNCHANGED <<gates, slot, shown, records, ran, history>>

\* PolicyStore::evaluate: of the rules that match any Never wins, then any
\* Always, but of a tool that may not be approved in advance.
Evaluate(a) ==
  LET matching == {rule[a], tool[a].narrow}
  IN IF "never" \in matching THEN "never"
     ELSE IF "always" \in matching /\ tool[a].auto THEN "always"
     ELSE "ask"

\* Mutant: the baseline is a default that the user's rule replaces.
CombineAsDefault(local, floor) ==
  IF floor # "none" /\ local = "ask" THEN floor ELSE local

\* fleet::combine: the stricter of the two.
Combine(local, floor) ==
  IF "never" \in {local, floor} THEN "never"
  ELSE IF floor = "ask" THEN "ask"
  ELSE local

\* evaluate_global: the user's rules under the floor of the fleet.
Verdict(a) == Combine(Evaluate(a), tool[a].floor)

\* Mutant: the decision ignores who is present.
DecisionAnyone(t) == Verdict(act[t])

\* An unattended run's Always is parked as an Ask.
Decision(t) ==
  IF Verdict(act[t]) = "always" /\ ~Attended(t) THEN "ask" ELSE Verdict(act[t])

\* The master switch and the policy are read after the preview, in one go.
\* With the gate off nothing is parked and nothing runs: a dry run is audited.
Decide(t) ==
  /\ pc[t] = "preview"
  /\ LET a == act[t] IN
     \/ /\ Decision(t) = "never"
        /\ Audit(a, {"blocked_policy"}) /\ Done(t)
     \/ /\ Decision(t) = "always" /\ ~locked
        /\ Audit(a, {"auto_approved"}) /\ Proceed(t, "auto_dispatch")
     \/ /\ Decision(t) = "always" /\ locked
        /\ Audit(a, {"always_inert", "dry_run"}) /\ Done(t)
     \/ /\ Decision(t) = "ask" /\ ~locked
        /\ Proceed(t, "plan") /\ UNCHANGED rows
     \/ /\ Decision(t) = "ask" /\ locked
        /\ Audit(a, {"dry_run"}) /\ Done(t)
  /\ UNCHANGED <<gates, slot, shown, journal, ran, history>>

\* dispatch_tool reads the gate once more: with it off the call is a dry run,
\* which is no error either, except of an MCP tool, whose manager refuses it.
\* The side effect happens or the call fails.
Dispatch(t) ==
  \E good \in IF locked /\ act[t] \in Mcp THEN {FALSE} ELSE BOOLEAN :
    /\ ok' = [ok EXCEPT ![t] = good]
    /\ ran' = IF ~locked /\ good THEN ran \cup {act[t]} ELSE ran

AutoDispatch(t) ==
  /\ pc[t] = "auto_dispatch"
  /\ Dispatch(t)
  /\ Goto(t, "auto_audit")
  /\ UNCHANGED <<gates, slot, shown, act, gateBefore, records, history>>

\* The second row of an auto-approved action, by the error flag alone.
AutoAudit(t) ==
  /\ pc[t] = "auto_audit"
  /\ Audit(act[t], {IF ok[t] THEN "executed" ELSE "dry_run"})
  /\ Proceed(t, "auto_journal")
  /\ UNCHANGED <<gates, slot, shown, journal, ran, history>>

\* The journal is told only if the gate still reads on; an MCP call without an
\* error was no dry run, so there the gate is not read again.
AutoJournal(t) ==
  /\ pc[t] = "auto_journal"
  /\ journal' = IF ok[t] /\ (act[t] \in Mcp \/ ~locked)
                THEN journal \cup {act[t]} ELSE journal
  /\ Done(t)
  /\ UNCHANGED <<gates, slot, shown, rows, ran, history>>

\* The second look and compute_plan are awaited: the plan binds this state.  A
\* tool without a planner, or a state that cannot be read, has no plan.
ComputePlan(t) ==
  /\ pc[t] = "plan"
  /\ \/ act[t] \in Planned /\ shown' = [shown EXCEPT ![act[t]] = state]
     \/ shown' = [shown EXCEPT ![act[t]] = None]
  /\ Proceed(t, "park")
  /\ UNCHANGED <<gates, slot, records, ran, history>>

\* park_ctx: the newest action replaces whatever waited.
ParkAction(t) ==
  /\ pc[t] = "park"
  /\ slot' = act[t]
  /\ Audit(act[t], {"parked"})
  /\ Done(t)
  /\ UNCHANGED <<gates, shown, journal, ran, history>>

-----------------------------------------------------------------------------
(* The answers: a voice turn through the router, a connection by id.         *)

\* Mutant: the replay trusts the check made when the action was parked.
MayConfirmAlways(t) == TRUE

\* May this speaker's yes replay the action?  The voice-id gate is read by
\* every thread, the guest scope by the voice turn.
MayConfirm(t) == speaker # "stranger" /\ ~GuestTurn(t)

\* History: whose yes it was.
Answered(t, a) ==
  refused' = IF t = Voice /\ (speaker = "stranger" \/ guest)
             THEN refused \cup {a} ELSE refused

\* The yes replays the action, which is in the slot no more, or is refused.
Replay(t, a) ==
  \/ /\ MayConfirm(t)
     /\ asked' = [asked EXCEPT ![a] = state]
     /\ Keep(t, a)
     /\ Goto(t, IF shown[a] # None THEN "bind" ELSE "replay")
     /\ UNCHANGED rows
  \/ /\ ~MayConfirm(t)
     /\ IF speaker = "stranger" THEN Audit(a, {"blocked_voice_id"})
                                ELSE UNCHANGED rows
     /\ UNCHANGED <<pc, act, asked>>

\* A yes empties the slot, whether or not the replay then refuses.
Yes(t) ==
  /\ Free(t) /\ Attended(t) /\ slot # None
  /\ slot' = None
  /\ Answered(t, slot)
  /\ Replay(t, slot)
  /\ UNCHANGED <<gates, shown, gateBefore, ok, journal, ran, origin>>

\* The state moved since the plan was shown, or it cannot be read any more:
\* park the fresh plan, or the old one, and run nothing.
Repark(t) ==
  /\ pc[t] = "bind"
  /\ \/ state # shown[act[t]] /\ shown' = [shown EXCEPT ![act[t]] = state]
     \/ UNCHANGED shown
  /\ slot' = act[t]
  /\ Done(t)
  /\ UNCHANGED <<gates, records, ran, history>>

\* Mutant: a plan that cannot be compared binds.
StillBoundAlways(a, now) == TRUE

StillBound(a, now) == shown[a] = now

Bind(t) ==
  /\ pc[t] = "bind" /\ StillBound(act[t], state)
  /\ Proceed(t, "replay")
  /\ UNCHANGED <<gates, slot, shown, records, ran, history>>

ReplayGate(t) ==
  /\ pc[t] = "replay"
  /\ gateBefore' = [gateBefore EXCEPT ![t] = ~locked]
  /\ Goto(t, "replay_dispatch")
  /\ UNCHANGED <<gates, slot, shown, act, ok, records, ran, history>>

ReplayDispatch(t) ==
  /\ pc[t] = "replay_dispatch"
  /\ Dispatch(t)
  /\ Goto(t, "replay_record")
  /\ UNCHANGED <<gates, slot, shown, act, gateBefore, records, history>>

\* Mutant: no error means executed.
ExecutedIfNoError(t) == ok[t]

\* The gate is read on both sides of the dispatch.
Executed(t) == ok[t] /\ gateBefore[t] /\ ~locked

\* Mutant: the row is written by the journal's verdict alone.
ReplayRecordExecuted(t) ==
  /\ pc[t] = "replay_record"
  /\ journal' = IF Executed(t) THEN journal \cup {act[t]} ELSE journal
  /\ Audit(act[t], IF Executed(t) THEN {"executed"} ELSE {})
  /\ Done(t)
  /\ UNCHANGED <<gates, slot, shown, ran, history>>

ReplayRecord(t) ==
  /\ pc[t] = "replay_record"
  /\ journal' = IF Executed(t) THEN journal \cup {act[t]} ELSE journal
  /\ Audit(act[t], {"confirmed"} \cup IF Executed(t) THEN {"executed"} ELSE {})
  /\ Done(t)
  /\ UNCHANGED <<gates, slot, shown, ran, history>>

\* A no empties the slot.  The router audits the denial, the channel does not.
No(t) ==
  /\ Free(t) /\ Attended(t) /\ slot # None
  /\ slot' = None
  /\ refused' = refused \cup {slot}
  /\ IF t = Voice THEN Audit(slot, {"denied"}) ELSE UNCHANGED rows
  /\ UNCHANGED <<gates, shown, threads, journal, ran, origin, asked>>

\* The action expires, or the user moved on.
Lapse ==
  /\ slot # None
  /\ slot' = None
  /\ UNCHANGED <<gates, shown, threads, records, ran, history>>

-----------------------------------------------------------------------------
(* What moves under the threads. *)

Panic ==
  /\ flips < MaxFlips /\ ~locked
  /\ locked' = TRUE /\ slot' = None /\ flips' = flips + 1
  /\ UNCHANGED <<rule, tool, speaker, guest, state, rules, shown, threads, records,
                 ran, history>>

Unlock ==
  /\ flips < MaxFlips /\ locked
  /\ locked' = FALSE /\ flips' = flips + 1
  /\ UNCHANGED <<rule, tool, speaker, guest, state, rules, slot, shown, threads,
                 records, ran, history>>

\* The user says always, never or ask of a tool; an Always is refused of a tool
\* that may not be approved in advance.
SetRule ==
  /\ rules < MaxRules
  /\ \E a \in Actions : \E d \in Decisions \ {rule[a]} :
       /\ d = "always" => tool[a].auto
       /\ rule' = [rule EXCEPT ![a] = d]
  /\ rules' = rules + 1
  /\ UNCHANGED <<locked, tool, speaker, guest, state, flips, slot, shown, threads,
                 records, ran, history>>

Drift ==
  /\ state < MaxDrift
  /\ state' = state + 1
  /\ UNCHANGED <<locked, rule, tool, speaker, guest, flips, rules, slot, shown,
                 threads, records, ran, history>>

-----------------------------------------------------------------------------
Init ==
  /\ locked \in BOOLEAN /\ speaker = "off" /\ guest = FALSE
  /\ rule = [a \in Actions |-> "ask"] /\ tool \in Profiles
  /\ state = 0 /\ flips = 0 /\ rules = 0
  /\ slot = None
  /\ shown = [a \in Actions |-> None]
  /\ pc = [t \in Threads |-> "idle"]
  /\ act = [t \in Threads |-> None]
  /\ gateBefore = [t \in Threads |-> FALSE]
  /\ ok = [t \in Threads |-> FALSE]
  /\ rows = [a \in Actions |-> {}]
  /\ journal = {}
  /\ ran = {}
  /\ origin = [a \in Actions |-> "none"]
  /\ asked = [a \in Actions |-> None]
  /\ refused = {}

Step(t) ==
  \/ \E a \in Actions : Attempt(t, a)
  \/ PreviewFails(t) \/ Decide(t)
  \/ AutoDispatch(t) \/ AutoAudit(t) \/ AutoJournal(t)
  \/ ComputePlan(t) \/ ParkAction(t)
  \/ Yes(t) \/ Repark(t) \/ Bind(t)
  \/ ReplayGate(t) \/ ReplayDispatch(t) \/ ReplayRecord(t)
  \/ No(t)

Next ==
  \/ TurnBegin \/ TurnEnd \/ Lapse
  \/ Panic \/ Unlock \/ SetRule \/ Drift
  \/ \E t \in Threads : Step(t)

Spec == Init /\ [][Next]_vars

-----------------------------------------------------------------------------
(* Properties. *)

Labels == {"idle", "turn", "preview", "auto_dispatch", "auto_audit",
           "auto_journal", "plan", "park", "bind", "replay",
           "replay_dispatch", "replay_record"}

TypeOK ==
  /\ locked \in BOOLEAN
  /\ rule \in [Actions -> Decisions] /\ tool \in [Actions -> Tools]
  /\ speaker \in Speakers /\ guest \in BOOLEAN
  /\ state \in 0 .. MaxDrift
  /\ flips \in 0 .. MaxFlips /\ rules \in 0 .. MaxRules
  /\ slot \in Actions \cup {None}
  /\ shown \in [Actions -> (0 .. MaxDrift) \cup {None}]
  /\ pc \in [Threads -> Labels]
  /\ act \in [Threads -> Actions \cup {None}]
  /\ gateBefore \in [Threads -> BOOLEAN] /\ ok \in [Threads -> BOOLEAN]
  /\ rows \in [Actions -> SUBSET Outcomes]
  /\ journal \subseteq Actions /\ ran \subseteq Actions
  /\ origin \in [Actions -> {"none", "attended", "unattended"}]
  /\ asked \in [Actions -> (0 .. MaxDrift) \cup {None}]
  /\ refused \subseteq Actions

\* The actions a human has to be asked about, and those nobody may run.
MustAsk(a) ==
  \/ origin[a] = "unattended"
  \/ ~tool[a].auto
  \/ tool[a].floor = "ask"

Barred(a) == "never" \in {tool[a].narrow, tool[a].floor}

\* evaluate_global, downgrade_always_if_unattended and park_ctx: whatever rule
\* the user sets and whenever, an action of an unattended run, of a tool that may
\* not be approved in advance, or of one the fleet wants asked about happens only
\* after a human said yes to it; one that is barred from the start never does.
AskedWhenOwed ==
  \A a \in ran : ~Barred(a) /\ (MustAsk(a) => asked[a] # None)

\* The confirm gates of replay_confirmed_action: once a human denied an action,
\* or an unrecognised or guest voice said yes to it, it never happens.
RefusalIsFinal ==
  ran \cap refused = {}

\* plan.rs: the state a planned action runs against is the one the user was
\* asked about, from the question through the yes to the bind.
RunsWhatWasShown ==
  \A a \in ran : asked[a] # None /\ shown[a] # None => asked[a] = shown[a]

\* Every side effect is accounted for: once its thread is done, the audit log
\* says who allowed it.
RunsAccountedFor ==
  \A a \in ran :
    (\A t \in Threads : act[t] # a)
      => rows[a] \cap {"auto_approved", "confirmed"} # {}

\* replay_confirmed_action, anthropic.rs:8168-8170: a flip of the gate that
\* races the dispatch "can then only ever SKIP a record (conservative), never
\* journal a dry-run as executed".
JournalHonest == journal \subseteq ran

\* replay_confirmed_action, anthropic.rs:8194-8195: "Executed says the side
\* effect really ran".
ExecutedMeansRan == \A a \in Actions : "executed" \in rows[a] => a \in ran

\* policy.rs:16: a Never rule is a hard block.  A yes given while the rule stands
\* starts no replay.
NeverIsAHardBlock ==
  [][\A t \in Threads : Yes(t) /\ Verdict(slot) = "never" => pc'[t] = Home(t)]_vars
=============================================================================
