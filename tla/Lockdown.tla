------------------------------ MODULE Lockdown ------------------------------
(***************************************************************************)
(* The emergency stop of darwind: src/daemon/src/lockdown.rs.              *)
(*                                                                         *)
(* The stop lives in three places that must tell the same story: the       *)
(* process-global flag every gate reads, the marker file that makes a      *)
(* restart come up locked, and the retained lockdown.status frame the HUD  *)
(* shows.  panic and unlock write them one after the other with no lock    *)
(* held, each called from its own command-channel task; the daemon may     *)
(* die between any two of the writes, and the two file operations are      *)
(* best-effort.                                                            *)
(*                                                                         *)
(* The confirmation slot is one bit here (ConfirmSlot models it): is an    *)
(* action armed?  Turns read the gate, await, and then park.               *)
(***************************************************************************)
EXTENDS Naturals

CONSTANTS
  Operators,    \* tasks that call panic and unlock
  Turns,        \* turns that park consequential actions
  MaxFaults,    \* bound: file operations that fail
  MaxCrashes    \* bound: crashes of the daemon

ASSUME LockdownAssumption ==
  /\ MaxFaults \in Nat /\ MaxCrashes \in Nat
  /\ Operators \cap Turns = {}

Threads == Operators \cup Turns

VARIABLES
  up,           \* the daemon is running
  flag,         \* LOCKDOWN
  marker,       \* state/lockdown exists
  shown,        \* the retained lockdown.status frame: its locked field
  armed,        \* an action is parked and awaits a yes
  pc,           \* where each thread is
  faults,       \* file operations that failed so far
  crashes,      \* crashes so far
  clean,        \* history: panics under way that no unlock has overlapped
  engaged,      \* history: a clean panic has returned, and no unlock was begun
                \* since
  lockedWhenDown  \* history: the daemon went down locked, with no panic and
                  \* no unlock under way

vars == <<up, flag, marker, shown, armed, pc, faults, crashes,
          clean, engaged, lockedWhenDown>>

PanicSteps  == {"panic_clear", "panic_mark", "panic_emit"}
UnlockSteps == {"unlock_flag", "unlock_unmark", "unlock_emit"}
TurnSteps   == {"turn_park"}

Goto(t, label) == pc' = [pc EXCEPT ![t] = label]

At(t, label) == up /\ pc[t] = label

\* No panic and no unlock is under way.
Quiet == \A t \in Operators : pc[t] = "idle"

Unlocking == \E t \in Operators : pc[t] \in UnlockSteps

-----------------------------------------------------------------------------
(* panic. *)

\* set_flag(true): from here on every gate reads locked.
PanicFlag(t) ==
  /\ t \in Operators /\ At(t, "idle")
  /\ flag' = TRUE
  /\ clean' = IF Unlocking THEN clean ELSE clean \cup {t}
  /\ Goto(t, "panic_clear")
  /\ UNCHANGED <<up, marker, shown, armed, faults, crashes, engaged,
                 lockedWhenDown>>

\* confirm::clear (and playback::stop_track).
PanicClear(t) ==
  /\ At(t, "panic_clear")
  /\ armed' = FALSE
  /\ Goto(t, "panic_mark")
  /\ UNCHANGED <<up, flag, marker, shown, faults, crashes, clean,
                 engaged, lockedWhenDown>>

\* write_marker: a failure is logged and the panic goes on.
PanicMark(t) ==
  /\ At(t, "panic_mark")
  /\ \/ marker' = TRUE /\ UNCHANGED faults
     \/ faults < MaxFaults /\ faults' = faults + 1 /\ UNCHANGED marker
  /\ Goto(t, "panic_emit")
  /\ UNCHANGED <<up, flag, shown, armed, crashes, clean, engaged,
                 lockedWhenDown>>

\* Mutant: panic emits its audit-shaped event only, not lockdown.status.
PanicEmitAuditOnly(t) ==
  /\ At(t, "panic_emit")
  /\ engaged' = (engaged \/ t \in clean)
  /\ clean' = clean \ {t}
  /\ Goto(t, "idle")
  /\ UNCHANGED <<up, flag, marker, shown, armed, faults, crashes,
                 lockedWhenDown>>

\* telemetry::emit("lockdown.status", locked), and the panic returns.
PanicEmit(t) ==
  /\ At(t, "panic_emit")
  /\ shown' = TRUE
  /\ engaged' = (engaged \/ t \in clean)
  /\ clean' = clean \ {t}
  /\ Goto(t, "idle")
  /\ UNCHANGED <<up, flag, marker, armed, faults, crashes, lockedWhenDown>>

-----------------------------------------------------------------------------
(* unlock. *)

\* is_locked_down: with nothing locked, unlock returns and changes nothing.
UnlockCheck(t) ==
  /\ t \in Operators /\ At(t, "idle")
  /\ flag
  /\ clean' = {}
  /\ engaged' = FALSE
  /\ Goto(t, "unlock_flag")
  /\ UNCHANGED <<up, flag, marker, shown, armed, faults, crashes,
                 lockedWhenDown>>

\* set_flag(false).
UnlockFlag(t) ==
  /\ At(t, "unlock_flag")
  /\ flag' = FALSE
  /\ Goto(t, "unlock_unmark")
  /\ UNCHANGED <<up, marker, shown, armed, faults, crashes, clean,
                 engaged, lockedWhenDown>>

\* remove_marker: an absent marker is success, a failure is logged.
UnlockUnmark(t) ==
  /\ At(t, "unlock_unmark")
  /\ \/ marker' = FALSE /\ UNCHANGED faults
     \/ marker /\ faults < MaxFaults /\ faults' = faults + 1 /\ UNCHANGED marker
  /\ Goto(t, "unlock_emit")
  /\ UNCHANGED <<up, flag, shown, armed, crashes, clean, engaged,
                 lockedWhenDown>>

\* telemetry::emit("lockdown.status", not locked), and the unlock returns.
UnlockEmit(t) ==
  /\ At(t, "unlock_emit")
  /\ shown' = FALSE
  /\ Goto(t, "idle")
  /\ UNCHANGED <<up, flag, marker, armed, faults, crashes, clean,
                 engaged, lockedWhenDown>>

-----------------------------------------------------------------------------
(* A turn that parks an action: execute_tool reads consequential_allowed,    *)
(* awaits the advisories and the plan, and then parks.                       *)

\* Mutant: the gate is passed without looking at the stop.
TurnReadNothing(t) ==
  /\ t \in Turns /\ At(t, "idle")
  /\ Goto(t, "turn_park")
  /\ UNCHANGED <<up, flag, marker, shown, armed, faults, crashes, clean,
                 engaged, lockedWhenDown>>

TurnReadGate(t) ==
  /\ t \in Turns /\ At(t, "idle")
  /\ ~flag
  /\ Goto(t, "turn_park")
  /\ UNCHANGED <<up, flag, marker, shown, armed, faults, crashes, clean,
                 engaged, lockedWhenDown>>

TurnPark(t) ==
  /\ At(t, "turn_park")
  /\ armed' = TRUE
  /\ Goto(t, "idle")
  /\ UNCHANGED <<up, flag, marker, shown, faults, crashes, clean,
                 engaged, lockedWhenDown>>

-----------------------------------------------------------------------------
(* Crash and restart. *)

\* The process dies: what was in memory is gone, the marker stays.
Crash ==
  /\ up /\ crashes < MaxCrashes
  /\ up' = FALSE
  /\ crashes' = crashes + 1
  /\ lockedWhenDown' = (flag /\ Quiet)
  /\ flag' = FALSE
  /\ armed' = FALSE
  /\ pc' = [t \in Threads |-> "idle"]
  /\ clean' = {}
  /\ UNCHANGED <<marker, shown, faults, engaged>>

\* Mutant: init reports the marker and does not set the flag.
RestartReportOnly ==
  /\ ~up
  /\ up' = TRUE
  /\ shown' = marker
  /\ UNCHANGED <<flag, marker, armed, pc, faults, crashes, clean, engaged,
                 lockedWhenDown>>

\* Mutant: the marker is consumed by the restart that reads it.
RestartConsumes ==
  /\ ~up
  /\ up' = TRUE
  /\ flag' = marker
  /\ shown' = marker
  /\ marker' = FALSE
  /\ UNCHANGED <<armed, pc, faults, crashes, clean, engaged, lockedWhenDown>>

\* main: init re-enters lockdown if the marker is there, and the start-up
\* snapshot of lockdown.status is emitted before the command channel is served.
Restart ==
  /\ ~up
  /\ up' = TRUE
  /\ flag' = marker
  /\ shown' = marker
  /\ UNCHANGED <<marker, armed, pc, faults, crashes, clean, engaged,
                 lockedWhenDown>>

-----------------------------------------------------------------------------
Init ==
  /\ up = TRUE
  /\ flag = FALSE
  /\ marker = FALSE
  /\ shown = FALSE
  /\ armed = FALSE
  /\ pc = [t \in Threads |-> "idle"]
  /\ faults = 0
  /\ crashes = 0
  /\ clean = {}
  /\ engaged = FALSE
  /\ lockedWhenDown = FALSE

Step(t) ==
  \/ PanicFlag(t) \/ PanicClear(t) \/ PanicMark(t) \/ PanicEmit(t)
  \/ UnlockCheck(t) \/ UnlockFlag(t) \/ UnlockUnmark(t) \/ UnlockEmit(t)
  \/ TurnReadGate(t) \/ TurnPark(t)

Next == Crash \/ Restart \/ \E t \in Threads : Step(t)

Spec == Init /\ [][Next]_vars

-----------------------------------------------------------------------------
(* Properties. *)

TypeOK ==
  /\ up \in BOOLEAN /\ flag \in BOOLEAN /\ marker \in BOOLEAN
  /\ shown \in BOOLEAN /\ armed \in BOOLEAN
  /\ pc \in [Threads -> {"idle"} \cup PanicSteps \cup UnlockSteps \cup TurnSteps]
  /\ faults \in 0 .. MaxFaults /\ crashes \in 0 .. MaxCrashes
  /\ clean \subseteq Operators
  /\ engaged \in BOOLEAN /\ lockedWhenDown \in BOOLEAN

\* A panic that no unlock overlapped holds from its return until somebody
\* unlocks: the running daemon is locked, and with the disk working the marker
\* is there, through further panics and through crashes and restarts.  A failed
\* write of the marker costs the restart only.
EngagedHolds ==
  engaged => /\ faults = 0 => marker
             /\ up /\ (faults = 0 \/ crashes = 0) => flag

\* While nothing is under way, the flag, the marker and the frame the HUD is
\* shown agree, if no file operation failed.
StoriesAgree == up /\ Quiet /\ faults = 0 => flag = marker /\ flag = shown

\* init, lockdown.rs:206-207: "so a restart can never silently drop the
\* emergency stop".  A daemon that went down locked, with no panic and no
\* unlock under way and every file operation successful, comes up locked.
RestartKeepsStop ==
  [][~up /\ up' /\ lockedWhenDown /\ faults = 0 => flag']_vars

\* What can still arm an action after a panic are the turns that had passed the
\* gate before it: while the stop is engaged, through restarts if no write of
\* the marker failed, no further turn gets past, so these only grow fewer.
Passed == {t \in Turns : pc[t] = "turn_park"}
NoneGetsPast ==
  [][engaged /\ engaged' /\ (faults = 0 \/ crashes = 0)
       => Passed' \subseteq Passed]_vars

\* panic, lockdown.rs:267 and 279: "an armed action must never survive a
\* panic".
NothingArmedAfterPanic == up /\ engaged => ~armed
=============================================================================
