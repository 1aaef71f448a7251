---------------------------- MODULE ConfirmSlot ----------------------------
(***************************************************************************)
(* The confirmation slot of darwind: src/daemon/src/confirm.rs.            *)
(*                                                                         *)
(* A consequential action the model proposes is not run but PARKED, and    *)
(* only a human's yes on a later turn (spoken, or `confirm {id}` on the    *)
(* local command channel) replays it.  The code keeps two process-global   *)
(* cells, each behind a mutex of its own:                                  *)
(*                                                                         *)
(*   PENDING   the one parked action that waits for an answer,             *)
(*   PROMPTED  the content id of the action the operator was last asked    *)
(*             about; only the park of an attended turn writes it.         *)
(*                                                                         *)
(* Four kinds of threads share them: the voice pipeline, background        *)
(* workers (standing missions, overnight agents, webhooks), connections    *)
(* of the command channel, and the audio capture thread.  A step of the    *)
(* model is what one thread does between taking a mutex and releasing it;  *)
(* a handler that takes the two one after the other is two steps.          *)
(***************************************************************************)
EXTENDS Integers

CONSTANTS
  Actions,      \* content ids: what derive_pending_id can return
  Voice,        \* the voice pipeline (main.rs runs one turn at a time)
  Background,   \* unattended turns
  Channel,      \* command channel connections (ask, confirm, deny, panic)
  Audio,        \* audio capture threads
  NoAction,     \* PROMPTED = None
  TTL,          \* PENDING_TTL
  MaxParks,     \* bound: writes of PENDING in a behaviour
  MaxTime       \* bound: the clock

Threads == {Voice} \cup Background \cup Channel \cup Audio

ASSUME ConfirmSlotAssumption ==
  /\ NoAction \notin Actions
  /\ TTL \in Nat /\ MaxParks \in Nat /\ MaxTime \in Nat
  /\ Voice \notin Background \cup Channel \cup Audio

VARIABLES
  pending,      \* PENDING: NoPark or the parked action
  prompted,     \* PROMPTED: an id or NoAction
  clock,        \* Instant::now()
  pc,           \* where each thread is
  arg,          \* the id a thread holds in a local variable
  hand,         \* the action a thread took out of the slot and has not resolved
  parks,        \* history: parks so far, the serial of the last one
  fired,        \* history: serials of the parks that were replayed
  heard,        \* history: heard[a], times the operator was asked about a
  spoken,       \* history: spoken[a], times a spoken yes replayed a
  askedAt       \* history: askedAt[a], when the operator was last asked about a

slot    == <<pending, prompted>>
threads == <<pc, arg, hand>>
history == <<parks, fired, heard, spoken, askedAt>>
vars    == <<pending, prompted, clock, pc, arg, hand,
             parks, fired, heard, spoken, askedAt>>

-----------------------------------------------------------------------------
(* Values. *)

\* A park: its content id, when it was created, and its serial number (history).
Park   == [id : Actions, at : 0 .. MaxTime, serial : 1 .. MaxParks]
NoPark == [id |-> NoAction, at |-> 0, serial |-> 0]

PC == {"idle", "park_slot", "take_lock", "clear_prompt", "replay"}

\* now.duration_since(created_at) <= PENDING_TTL
Live(p) == p # NoPark /\ clock - p.at <= TTL

Expired(p) == p # NoPark /\ clock - p.at > TTL

Idle(t) == pc[t] = "idle"

Goto(t, label) == pc' = [pc EXCEPT ![t] = label]

Hold(t, a) == arg' = [arg EXCEPT ![t] = a]

\* The operator is asked about a: PROMPTED is armed.
Ask(a) == /\ prompted' = a
          /\ heard'   = [heard EXCEPT ![a] = @ + 1]
          /\ askedAt' = [askedAt EXCEPT ![a] = clock]

\* Mutant: an expiry or an answer by id empties the slot only.
RetireSlotOnly == pending' = NoPark /\ UNCHANGED prompted

\* retire_slot: the slot is emptied and the prompt with it, under PENDING's lock.
RetireSlot == pending' = NoPark /\ prompted' = NoAction

\* PENDING := the action; whatever waited there is overwritten.
WriteSlot(a) ==
  /\ parks < MaxParks
  /\ parks' = parks + 1
  /\ pending' = [id |-> a, at |-> clock, serial |-> parks + 1]

-----------------------------------------------------------------------------
(* park_ctx. *)

\* park_ctx(true, ..), first lock: PROMPTED names the action.  Attended turns do
\* this: an utterance in the voice pipeline, a question typed on the channel.
ParkPrompt(t, a) ==
  /\ t \in {Voice} \cup Channel /\ Idle(t)
  /\ Ask(a)
  /\ Hold(t, a)
  /\ Goto(t, "park_slot")
  /\ UNCHANGED <<pending, clock, hand, parks, fired, spoken>>

\* A replay found that the state its plan was computed over has drifted: nothing
\* fires, and the same action is parked again with park_ctx(true, ..).
ReparkPrompt(t) ==
  /\ pc[t] = "replay"
  /\ Ask(hand[t].id)
  /\ Hold(t, hand[t].id)
  /\ hand' = [hand EXCEPT ![t] = NoPark]
  /\ Goto(t, "park_slot")
  /\ UNCHANGED <<pending, clock, parks, fired, spoken>>

\* park_ctx(true, ..), second lock: PENDING holds the action.
ParkSlot(t) ==
  /\ pc[t] = "park_slot"
  /\ WriteSlot(arg[t])
  /\ Hold(t, NoAction)
  /\ Goto(t, "idle")
  /\ UNCHANGED <<prompted, clock, hand, fired, heard, spoken, askedAt>>

\* park_ctx(false, ..): the prompt reaches nobody, PROMPTED is left alone.
ParkUnattended(t, a) ==
  /\ t \in Background /\ Idle(t)
  /\ WriteSlot(a)
  /\ UNCHANGED <<prompted, clock, threads, fired, heard, spoken, askedAt>>

-----------------------------------------------------------------------------
(* The spoken answer: take_live, then resolve_reply. *)

\* take_live, first lock: a copy of PROMPTED.
TakeRead(t) ==
  /\ t = Voice /\ Idle(t)
  /\ Hold(t, prompted)
  /\ Goto(t, "take_lock")
  /\ UNCHANGED <<slot, clock, hand, history>>

\* Mutant: with no prompt on record, whatever is parked is taken.
MatchesAnything(t) == /\ pending # NoPark
                      /\ arg[t] \in {NoAction, pending.id}

\* Does the slot hold the action the copy names?
MatchesPrompt(t) == /\ pending # NoPark
                    /\ arg[t] # NoAction
                    /\ pending.id = arg[t]

\* take_live, second lock: another action, or none, is left as it is; a matching
\* one leaves the slot and its prompt is consumed, and it is handed over unless
\* it has aged out.
TakeMatch(t) ==
  /\ pc[t] = "take_lock"
  /\ IF MatchesPrompt(t)
     THEN /\ RetireSlot
          /\ IF Live(pending)
             THEN /\ hand' = [hand EXCEPT ![t] = pending]
                  /\ Goto(t, "replay")
             ELSE /\ UNCHANGED hand
                  /\ Goto(t, "idle")
     ELSE /\ UNCHANGED <<slot, hand>>
          /\ Goto(t, "idle")
  /\ Hold(t, NoAction)
  /\ UNCHANGED <<clock, history>>

\* An affirmed action is replayed and fires.
Fire(t) ==
  /\ pc[t] = "replay"
  /\ fired' = fired \cup {hand[t].serial}
  /\ spoken' = IF t = Voice THEN [spoken EXCEPT ![hand[t].id] = @ + 1]
                            ELSE spoken
  /\ hand' = [hand EXCEPT ![t] = NoPark]
  /\ Goto(t, "idle")
  /\ UNCHANGED <<slot, clock, arg, parks, heard, askedAt>>

\* The reply was a no or unrelated, or the replay refused: nothing fires, and
\* the action is gone from the slot already.
LetGo(t) ==
  /\ pc[t] = "replay"
  /\ hand' = [hand EXCEPT ![t] = NoPark]
  /\ Goto(t, "idle")
  /\ UNCHANGED <<slot, clock, arg, history>>

-----------------------------------------------------------------------------
(* The command channel answers by id, under PENDING's lock throughout. *)

\* Mutant: the action is copied out of the slot, not taken.
ConfirmByIdClone(t, a) ==
  /\ t \in Channel /\ Idle(t)
  /\ Live(pending) /\ pending.id = a
  /\ hand' = [hand EXCEPT ![t] = pending]
  /\ Goto(t, "replay")
  /\ UNCHANGED <<slot, clock, arg, history>>

ConfirmById(t, a) ==
  /\ t \in Channel /\ Idle(t)
  /\ \/ /\ Live(pending) /\ pending.id = a
        /\ RetireSlot
        /\ hand' = [hand EXCEPT ![t] = pending]
        /\ Goto(t, "replay")
     \/ /\ Expired(pending)
        /\ RetireSlot
        /\ UNCHANGED <<hand, pc>>
  /\ UNCHANGED <<clock, arg, history>>

DenyById(t, a) ==
  /\ t \in Channel /\ Idle(t)
  /\ \/ Live(pending) /\ pending.id = a
     \/ Expired(pending)
  /\ RetireSlot
  /\ UNCHANGED <<clock, threads, history>>

-----------------------------------------------------------------------------
(* Predicates that drop what has aged out, and the unconditional clear. *)

\* is_live (every utterance) and peek_pending (listings, the snapshot, and the
\* router after a replay).
DropExpired(t) ==
  /\ t \in {Voice} \cup Channel /\ Idle(t)
  /\ Expired(pending)
  /\ RetireSlot
  /\ UNCHANGED <<clock, threads, history>>

\* clear, first lock: a barge-in on the audio thread, a panic from the voice or
\* from the channel.
ClearSlot(t) ==
  /\ t \notin Background /\ Idle(t)
  /\ pending' = NoPark
  /\ Goto(t, "clear_prompt")
  /\ UNCHANGED <<prompted, clock, arg, hand, history>>

\* clear, second lock.
ClearPrompt(t) ==
  /\ pc[t] = "clear_prompt"
  /\ prompted' = NoAction
  /\ Goto(t, "idle")
  /\ UNCHANGED <<pending, clock, arg, hand, history>>

\* The clock counts in fractions of PENDING_TTL, two minutes; the window between
\* two locks is microseconds, so it does not tick there.
Tick == /\ clock < MaxTime
        /\ \A t \in Threads : pc[t] \in {"idle", "replay"}
        /\ clock' = clock + 1
        /\ UNCHANGED <<slot, threads, history>>

-----------------------------------------------------------------------------
Init ==
  /\ pending = NoPark
  /\ prompted = NoAction
  /\ clock = 0
  /\ pc = [t \in Threads |-> "idle"]
  /\ arg = [t \in Threads |-> NoAction]
  /\ hand = [t \in Threads |-> NoPark]
  /\ parks = 0
  /\ fired = {}
  /\ heard = [a \in Actions |-> 0]
  /\ spoken = [a \in Actions |-> 0]
  /\ askedAt = [a \in Actions |-> 0]

Step(t) ==
  \/ ReparkPrompt(t) \/ ParkSlot(t)
  \/ TakeRead(t) \/ TakeMatch(t) \/ Fire(t) \/ LetGo(t)
  \/ DropExpired(t) \/ ClearSlot(t) \/ ClearPrompt(t)
  \/ \E a \in Actions : \/ ParkPrompt(t, a) \/ ParkUnattended(t, a)
                        \/ ConfirmById(t, a) \/ DenyById(t, a)

Next == Tick \/ \E t \in Threads : Step(t)

Spec == Init /\ [][Next]_vars

-----------------------------------------------------------------------------
(* Properties. *)

\* Every variable has its type.
TypeOK ==
  /\ pending \in Park \cup {NoPark}
  /\ prompted \in Actions \cup {NoAction}
  /\ clock \in 0 .. MaxTime
  /\ pc \in [Threads -> PC]
  /\ arg \in [Threads -> Actions \cup {NoAction}]
  /\ hand \in [Threads -> Park \cup {NoPark}]
  /\ parks \in 0 .. MaxParks
  /\ fired \subseteq 1 .. MaxParks
  /\ heard \in [Actions -> Nat]
  /\ spoken \in [Actions -> Nat]
  /\ askedAt \in [Actions -> 0 .. MaxTime]

\* A prompt never outlives the action it asked about: whenever the slot is
\* empty and no thread is inside park_ctx or clear, PROMPTED is None.  A prompt
\* left behind by an expiry, a denial or a confirmation by id would authorise
\* the next park of the same action (retire_slot's comment).
NoOrphanPrompt ==
  (/\ pending = NoPark
   /\ \A t \in Threads : pc[t] \notin {"park_slot", "clear_prompt"})
  => prompted = NoAction

\* Being asked once about an action licenses at most one spoken execution of
\* it, whatever background turns park the same action again, and whatever the
\* command channel confirms or denies in between.
OnePromptOneFire == \A a \in Actions : spoken[a] <= heard[a]

\* Each park is a ticket of ParkLifecycle.
waitingTickets  == IF pending = NoPark THEN {} ELSE {pending.serial}
answeredTickets == {hand[t].serial : t \in {u \in Threads : pc[u] = "replay"}}

Lifecycle == INSTANCE ParkLifecycle WITH
  Tickets  <- 1 .. MaxParks,
  waiting  <- waitingTickets,
  answered <- answeredTickets,
  fired    <- fired,
  dropped  <- (1 .. parks) \ (waitingTickets \cup answeredTickets \cup fired)

\* The two cells, the locks and the interleavings implement the life cycle of a
\* park: one waits at a time, each is answered at most once and fires at most
\* once, and one that was denied, expired, cleared or overwritten never fires.
ImplementsLifecycle == Lifecycle!Spec

-----------------------------------------------------------------------------
(* A claim of a comment in confirm.rs that the code does not keep. *)

\* PENDING_TTL, confirm.rs:46-47: "After this, a "yes" no longer confirms it --
\* the user has to ask again."  An action the voice pipeline takes for replay
\* was asked about no longer ago than PENDING_TTL.
SpokenWithinTTL ==
  [][hand[Voice] = NoPark /\ hand'[Voice] # NoPark
       => clock - askedAt[hand'[Voice].id] <= TTL]_vars
=============================================================================
