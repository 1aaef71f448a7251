------------------------------ MODULE Journal ------------------------------
(***************************************************************************)
(* The reversible-action journal (journal.rs): the session's ledger of     *)
(* executed actions, and "undo that" (router.rs), which hands the inverse  *)
(* of the last entry to the same gate a spoken command passes.             *)
(*                                                                         *)
(* An action stands for an agent, a tool and its input: what a pending id  *)
(* is derived from.  How an action comes to be parked, approved or refused *)
(* is ActionGate's; here it may be any of these at any time.               *)
(***************************************************************************)
EXTENDS Integers, Sequences

CONSTANTS
  Voice,       \* the voice loop, the one thread that hears "undo that"
  Channel,     \* the command connections
  Actions,
  Ungated,     \* inverses that run without a gate (standing_cancel)
  Inverse,     \* derive_inverse: per action its inverse, or None
  None,
  Cap,         \* JOURNAL_CAP
  MaxRuns,     \* bound: side effects that happen
  MaxFlips     \* bound: panics and unlocks

\* JournalEntry; at, where in done the action took effect, is history (0: it
\* was a dry run after all, which takes two flips of the gate).
Entry == [seq : Nat \ {0}, action : Actions, undone : BOOLEAN,
          at : 0 .. MaxRuns]

ASSUME JournalAssumption ==
  /\ None \notin Actions /\ None \notin Entry /\ Voice \notin Channel
  /\ Ungated \subseteq Actions
  /\ Inverse \in [Actions -> Actions \cup {None}]
  /\ Cap \in Nat \ {0}
  /\ MaxRuns \in Nat /\ MaxFlips \in Nat

Threads == Channel \cup {Voice}

VARIABLES
  entries,     \* JournalState.entries, oldest first
  nextSeq,     \* JournalState.next_seq
  expected,    \* JournalState.expected: the armed undo, or None
  slot,        \* the confirmation slot
  locked, flips,
  pc,          \* what each thread is doing
  act,         \* the action it is running
  undoOf,      \* the entry "undo that" was said of, or None
  gateRun,     \* the gate before the dispatch
  gateUndo,    \* the gate before the undo
  at,          \* where in done its dispatch took effect, 0 if it did not
  done,        \* history: the side effects, in the order they happened
  claims       \* history: entries of which the user was told "Undone."

ledger  == <<entries, nextSeq, expected>>
gate    == <<locked, flips>>
locals  == <<act, undoOf, gateRun, gateUndo, at>>
history == <<done, claims>>
vars    == <<ledger, slot, gate, pc, locals, history>>

Gated == Actions \ Ungated

Goto(t, label) == pc' = [pc EXCEPT ![t] = label]

\* A thread done with its action keeps nothing of it.
Rest(t) ==
  /\ Goto(t, "idle")
  /\ act' = [act EXCEPT ![t] = None]
  /\ at' = [at EXCEPT ![t] = 0]
  /\ gateRun' = [gateRun EXCEPT ![t] = FALSE]

-----------------------------------------------------------------------------
(* The gate and the confirmation slot, as the journal meets them.            *)

\* A panic also empties the slot; an unlock brings nothing back.
Panic ==
  /\ flips < MaxFlips /\ ~locked
  /\ locked' = TRUE /\ slot' = None /\ flips' = flips + 1
  /\ UNCHANGED <<ledger, pc, locals, history>>

Unlock ==
  /\ flips < MaxFlips /\ locked
  /\ locked' = FALSE /\ flips' = flips + 1
  /\ UNCHANGED <<ledger, slot, pc, locals, history>>

\* A gated action is parked, in place of what the slot held.
Park(t) ==
  /\ pc[t] = "idle" /\ ~locked
  /\ \E x \in Gated : slot' = x
  /\ UNCHANGED <<ledger, gate, pc, locals, history>>

Deny(t) ==
  /\ pc[t] = "idle" /\ slot # None
  /\ slot' = None
  /\ UNCHANGED <<ledger, gate, pc, locals, history>>

\* The yes takes the action out of the slot and replays it.
Confirm(t) ==
  /\ pc[t] = "idle" /\ slot # None
  /\ slot' = None
  /\ act' = [act EXCEPT ![t] = slot]
  /\ gateRun' = [gateRun EXCEPT ![t] = ~locked]
  /\ Goto(t, "dispatch")
  /\ UNCHANGED <<ledger, gate, undoOf, gateUndo, at, history>>

\* An Always rule runs an action at once.
AutoApprove(t) ==
  /\ pc[t] = "idle" /\ ~locked
  /\ \E x \in Gated : act' = [act EXCEPT ![t] = x]
  /\ gateRun' = [gateRun EXCEPT ![t] = TRUE]
  /\ Goto(t, "dispatch")
  /\ UNCHANGED <<ledger, slot, gate, undoOf, gateUndo, at, history>>

\* With the gate on, or none to pass, the side effect happens; with it off the
\* call is a dry run.  An ungated cancel may also find nothing to cancel.
Effect(t) ==
  \/ /\ ~locked \/ act[t] \in Ungated
     /\ Len(done) < MaxRuns
     /\ done' = Append(done, act[t])
     /\ at' = [at EXCEPT ![t] = Len(done) + 1]
  \/ /\ locked \/ act[t] \in Ungated
     /\ at' = [at EXCEPT ![t] = 0]
     /\ UNCHANGED done

Dispatch(t) ==
  /\ pc[t] = "dispatch"
  /\ Effect(t)
  /\ Goto(t, "record")
  /\ UNCHANGED <<ledger, slot, gate, act, undoOf, gateRun, gateUndo, claims>>

\* An error is relayed as it is, in an undo too: nothing is recorded, nothing
\* claimed.
Fails(t) ==
  /\ pc[t] \in {"dispatch", "undo_run"}
  /\ undoOf' = IF t = Voice THEN None ELSE undoOf
  /\ Rest(t)
  /\ UNCHANGED <<ledger, slot, gate, gateUndo, history>>

-----------------------------------------------------------------------------
(* record_executed, one lock.                                                *)

\* The ledger with the entry of that number marked undone, if it is still there.
Flag(q) ==
  [i \in DOMAIN entries |->
    [entries[i] EXCEPT !.undone = @ \/ entries[i].seq = q]]

\* Mutant: the armed undo is looked up by nothing but its presence.
FlagOnMatchAny(x) == IF expected # None THEN Flag(expected.seq) ELSE entries

\* This very execution is the inverse some entry was waiting for.
FlagOnMatch(x) ==
  IF expected # None /\ expected.action = x THEN Flag(expected.seq) ELSE entries

\* Mutant: the ledger truncates at its tail.
EvictNewest(s) == IF Len(s) > Cap THEN SubSeq(s, 1, Cap) ELSE s

Evict(s) == IF Len(s) > Cap THEN SubSeq(s, Len(s) - Cap + 1, Len(s)) ELSE s

\* Executed says there was no error and the gate was on at both reads.  The
\* reply of an undo is composed once its inverse was handed over.
Record(t) ==
  /\ pc[t] = "record"
  /\ IF gateRun[t] /\ ~locked
     THEN /\ entries' = Evict(Append(FlagOnMatch(act[t]),
                 [seq |-> nextSeq, action |-> act[t], undone |-> FALSE,
                  at |-> at[t]]))
          /\ nextSeq' = nextSeq + 1
          /\ expected' = IF expected # None /\ expected.action = act[t]
                         THEN None ELSE expected
     ELSE UNCHANGED ledger
  /\ IF t = Voice /\ undoOf # None
     THEN Goto(t, "undo_reply") /\ UNCHANGED <<act, at, gateRun>>
     ELSE Rest(t)
  /\ UNCHANGED <<slot, gate, undoOf, gateUndo, history>>

-----------------------------------------------------------------------------
(* "undo that".                                                              *)

\* prepare_undo: the last entry, never an older one.  Its inverse is armed as
\* the expected undo; otherwise there is only something to say.
PrepareUndo ==
  /\ pc[Voice] = "idle" /\ entries # <<>>
  /\ LET last == entries[Len(entries)] IN
       /\ ~last.undone /\ Inverse[last.action] # None
       /\ expected' = [seq |-> last.seq, action |-> Inverse[last.action]]
       /\ undoOf' = last
       /\ act' = [act EXCEPT ![Voice] = Inverse[last.action]]
  /\ gateUndo' = ~locked
  /\ Goto(Voice, "undo_run")
  /\ UNCHANGED <<entries, nextSeq, slot, gate, gateRun, at, history>>

\* A gated inverse is parked, or shown as a dry run with the gate off.
UndoParks ==
  /\ pc[Voice] = "undo_run" /\ act[Voice] \in Gated
  /\ slot' = IF locked THEN slot ELSE act[Voice]
  /\ Goto(Voice, "undo_reply")
  /\ UNCHANGED <<ledger, gate, locals, history>>

\* An Always rule runs the gated inverse at once.
UndoAuto ==
  /\ pc[Voice] = "undo_run" /\ act[Voice] \in Gated /\ ~locked
  /\ gateRun' = [gateRun EXCEPT ![Voice] = TRUE]
  /\ Goto(Voice, "dispatch")
  /\ UNCHANGED <<ledger, slot, gate, act, undoOf, gateUndo, at, history>>

\* An ungated inverse runs here; a miss is no error.
UndoUngated ==
  /\ pc[Voice] = "undo_run" /\ act[Voice] \in Ungated
  /\ Effect(Voice)
  /\ Goto(Voice, "undo_reply")
  /\ UNCHANGED <<ledger, slot, gate, act, undoOf, gateRun, gateUndo, claims>>

\* Mutant: a friendly miss counts as a cancellation.
ExecutedDirectlyOnMiss ==
  /\ slot # act[Voice]
  /\ act[Voice] \in Ungated \/ (gateUndo /\ ~locked)

\* executed_directly: nothing of that id is parked, the gate was on on both
\* sides for a gated inverse, and an ungated one says it did something.
ExecutedDirectly ==
  /\ slot # act[Voice]
  /\ act[Voice] \in Gated => gateUndo /\ ~locked
  /\ act[Voice] \in Ungated => at[Voice] # 0

\* The reply; mark_undone flags the entry of an ungated inverse.
UndoReply ==
  /\ pc[Voice] = "undo_reply"
  /\ LET e == undoOf IN
     /\ claims' = IF ExecutedDirectly THEN claims \cup {e} ELSE claims
     /\ IF ExecutedDirectly /\ act[Voice] \in Ungated
        THEN entries' = Flag(e.seq) /\ expected' = None
        ELSE UNCHANGED <<entries, expected>>
  /\ undoOf' = None
  /\ Rest(Voice)
  /\ UNCHANGED <<nextSeq, slot, gate, gateUndo, done>>

-----------------------------------------------------------------------------
Init ==
  /\ entries = <<>> /\ nextSeq = 1 /\ expected = None
  /\ slot = None
  /\ locked \in BOOLEAN /\ flips = 0
  /\ pc = [t \in Threads |-> "idle"]
  /\ act = [t \in Threads |-> None]
  /\ undoOf = None /\ gateUndo = FALSE
  /\ gateRun = [t \in Threads |-> FALSE]
  /\ at = [t \in Threads |-> 0]
  /\ done = <<>> /\ claims = {}

Next ==
  \/ Panic \/ Unlock
  \/ \E t \in Threads :
       \/ Park(t) \/ Deny(t) \/ Confirm(t) \/ AutoApprove(t)
       \/ Dispatch(t) \/ Fails(t) \/ Record(t)
  \/ PrepareUndo \/ UndoParks \/ UndoAuto \/ UndoUngated \/ UndoReply

Spec == Init /\ [][Next]_vars

-----------------------------------------------------------------------------
\* Every variable keeps its type.
TypeOK ==
  /\ entries \in Seq(Entry) /\ Len(entries) <= Cap
  /\ nextSeq \in Nat \ {0}
  /\ expected \in [seq : Nat \ {0}, action : Actions] \cup {None}
  /\ slot \in Gated \cup {None}
  /\ locked \in BOOLEAN /\ flips \in 0 .. MaxFlips
  /\ pc \in [Threads ->
       {"idle", "dispatch", "record", "undo_run", "undo_reply"}]
  /\ act \in [Threads -> Actions \cup {None}]
  /\ undoOf \in Entry \cup {None} /\ gateUndo \in BOOLEAN
  /\ gateRun \in [Threads -> BOOLEAN]
  /\ at \in [Threads -> 0 .. MaxRuns]
  /\ done \in Seq(Actions) /\ Len(done) <= MaxRuns
  /\ claims \subseteq Entry

\* record_at evicts from the old end: the ledger is always the newest
\* executions of the session, in order and without a gap, so "undo that" and
\* the panel's newest rows mean what they say.
RetainedAreTheNewest ==
  \A i \in DOMAIN entries : entries[i].seq = nextSeq - Len(entries) + i - 1

\* Did the inverse of e's action happen after e did?
Reversed(e) ==
  \E j \in e.at + 1 .. Len(done) : done[j] = Inverse[e.action]

\* record_at: an entry is marked undone for its own inverse and nothing else,
\* whatever is armed, parked, refused, evicted and executed in between.  (The
\* inverse may have taken effect before the action did: with two calls in
\* flight they are recorded in the order they return.)
UndoneHasInverse ==
  \A i \in DOMAIN entries :
    entries[i].undone => Inverse[entries[i].action] \in {done[j] : j \in DOMAIN done}

\* inverse_confirmed: of an inverse that runs without a gate, "Undone." is
\* never said over a miss.
UngatedClaimHonest ==
  \A e \in claims : Inverse[e.action] \in Ungated => Reversed(e)

\* compose_undo_response, journal.rs:640: "Undone." is said when the inverse
\* "already ran".
ClaimHonest == \A e \in claims : Reversed(e)
=============================================================================
