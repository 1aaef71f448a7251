--------------------------- MODULE Journal_proofs ---------------------------
(***************************************************************************)
(* Theorems about the journal, for any connections, actions and bounds:    *)
(* type correctness, that the ledger retains the newest executions, that   *)
(* "Undone." is said of an ungated inverse only when it ran, and, with at  *)
(* most one flip of the gate, that an entry is marked undone only for an   *)
(* inverse that ran.                                                       *)
(***************************************************************************)
EXTENDS Journal, TLAPS

-----------------------------------------------------------------------------
(* Type correctness. *)

LEMMA InitTypeOK == Init => TypeOK
  <1> SUFFICES ASSUME Init PROVE TypeOK
    OBVIOUS
  <1> USE JournalAssumption DEF JournalAssumption
  <1>1. entries \in Seq(Entry) /\ Len(entries) <= Cap
    BY DEF Init
  <1>2. flips \in 0 .. MaxFlips /\ at \in [Threads -> 0 .. MaxRuns]
    BY DEF Init
  <1>3. pc \in [Threads ->
          {"idle", "dispatch", "record", "undo_run", "undo_reply"}]
    BY DEF Init
  <1>4. done \in Seq(Actions) /\ Len(done) <= MaxRuns
    BY DEF Init
  <1>5. act \in [Threads -> Actions \cup {None}] /\ gateRun \in [Threads -> BOOLEAN]
    BY DEF Init
  <1>6. /\ expected = None /\ slot = None
        /\ locked \in BOOLEAN /\ undoOf = None /\ gateUndo \in BOOLEAN
        /\ claims = {}
    BY Zenon DEF Init
  <1>8. nextSeq \in Nat \ {0}
    BY DEF Init
  <1>7. /\ expected \in [seq : Nat \ {0}, action : Actions] \cup {None}
        /\ slot \in Gated \cup {None}
        /\ undoOf \in Entry \cup {None}
        /\ claims \subseteq Entry
    BY <1>6
  <1> QED
    BY <1>1, <1>2, <1>3, <1>4, <1>5, <1>6, <1>7, <1>8 DEF TypeOK

\* Flagging keeps a ledger a ledger, entry for entry.
LEMMA FlagKeepsLedger ==
  ASSUME entries \in Seq(Entry), NEW q
  PROVE  /\ Flag(q) \in Seq(Entry) /\ Len(Flag(q)) = Len(entries)
         /\ \A i \in 1 .. Len(entries) : /\ Flag(q)[i].seq = entries[i].seq
                                         /\ Flag(q)[i].action = entries[i].action
                                         /\ Flag(q)[i].at = entries[i].at
  <1>1. DOMAIN entries = 1 .. Len(entries) /\ Len(entries) \in Nat
    OBVIOUS
  <1>2. ASSUME NEW i \in 1 .. Len(entries)
        PROVE  /\ Flag(q)[i] \in Entry
               /\ Flag(q)[i].seq = entries[i].seq
               /\ Flag(q)[i].action = entries[i].action
               /\ Flag(q)[i].at = entries[i].at
    <2>1. entries[i] \in Entry
      OBVIOUS
    <2> DEFINE u == entries[i].undone \/ entries[i].seq = q
    <2>2. Flag(q)[i] = [entries[i] EXCEPT !.undone = u]
      BY <1>1 DEF Flag
    <2>3. u \in BOOLEAN
      BY <2>1 DEF Entry
    <2> HIDE DEF u
    <2> QED
      BY <2>1, <2>2, <2>3 DEF Entry
  <1>3. Flag(q) \in [1 .. Len(entries) -> Entry]
    <2>1. Flag(q) = [i \in 1 .. Len(entries) |-> Flag(q)[i]]
      BY <1>1 DEF Flag
    <2> QED
      BY <1>2, <2>1
  <1> QED
    BY <1>1, <1>2, <1>3

\* Evicting keeps the newest Cap entries.
LEMMA EvictKeepsNewest ==
  ASSUME NEW s \in Seq(Entry)
  PROVE  /\ Evict(s) \in Seq(Entry)
         /\ Len(s) <= Cap + 1 => Len(Evict(s)) <= Cap
         /\ Len(Evict(s)) <= Len(s)
         /\ Len(s) >= 1 => Len(Evict(s)) >= 1
         /\ \A i \in 1 .. Len(Evict(s)) :
              Evict(s)[i] = s[Len(s) - Len(Evict(s)) + i]
  <1> USE JournalAssumption DEF JournalAssumption
  <1>1. CASE Len(s) > Cap
    <2> DEFINE r == SubSeq(s, Len(s) - Cap + 1, Len(s))
    <2>1. Len(s) - Cap + 1 \in 1 .. Len(s) + 1 /\ Len(s) \in 1 .. Len(s)
      BY <1>1
    <2>2. r \in Seq(Entry) /\ Len(r) = Cap
      BY <2>1
    <2>3. \A i \in 1 .. Cap : r[i] = s[Len(s) - Cap + i]
      BY <2>1
    <2>4. Evict(s) = r
      BY <1>1 DEF Evict
    <2> HIDE DEF r
    <2>5. Len(Evict(s)) = Cap /\ Len(s) \in Nat
      BY <2>2, <2>4
    <2>6. \A i \in 1 .. Len(Evict(s)) : Evict(s)[i] = s[Len(s) - Len(Evict(s)) + i]
      BY <2>3, <2>4, <2>5
    <2> QED
      BY <1>1, <2>2, <2>4, <2>5, <2>6
  <1>2. CASE ~(Len(s) > Cap)
    <2>1. Evict(s) = s /\ Len(s) \in Nat
      BY <1>2 DEF Evict
    <2>2. \A i \in 1 .. Len(s) : Len(s) - Len(s) + i = i
      BY <2>1
    <2> QED
      BY <1>2, <2>1, <2>2
  <1> QED
    BY <1>1, <1>2

LEMMA FlagOnMatchKeepsLedger ==
  ASSUME TypeOK, NEW x
  PROVE  /\ FlagOnMatch(x) \in Seq(Entry)
         /\ Len(FlagOnMatch(x)) = Len(entries)
         /\ \A i \in 1 .. Len(entries) :
              /\ FlagOnMatch(x)[i].seq = entries[i].seq
              /\ FlagOnMatch(x)[i].action = entries[i].action
              /\ FlagOnMatch(x)[i].at = entries[i].at
  <1>1. entries \in Seq(Entry)
    BY DEF TypeOK
  <1>2. CASE expected # None /\ expected.action = x
    <2>1. FlagOnMatch(x) = Flag(expected.seq)
      BY <1>2 DEF FlagOnMatch
    <2> QED
      BY <1>1, <2>1, FlagKeepsLedger
  <1>3. CASE ~(expected # None /\ expected.action = x)
    BY <1>1, <1>3 DEF FlagOnMatch
  <1> QED
    BY <1>2, <1>3

\* The entry a record appends.
NewEntry(t) ==
  [seq |-> nextSeq, action |-> act[t], undone |-> FALSE, at |-> at[t]]

\* What a recorded execution does to the ledger, entry by entry.
LEMMA RecordShape ==
  ASSUME TypeOK, NEW t \in Threads, act[t] \in Actions,
         entries' = Evict(Append(FlagOnMatch(act[t]), NewEntry(t)))
  PROVE  /\ entries' \in Seq(Entry) /\ Len(entries') <= Cap
         /\ Len(entries') >= 1 /\ Len(entries') <= Len(entries) + 1
         /\ \A i \in 1 .. Len(entries') :
              LET j == Len(entries) + 1 - Len(entries') + i IN
              IF j = Len(entries) + 1
              THEN entries'[i] = NewEntry(t)
              ELSE /\ j \in 1 .. Len(entries)
                   /\ entries'[i].seq = entries[j].seq
                   /\ entries'[i].at = entries[j].at
                   /\ entries'[i] = FlagOnMatch(act[t])[j]
  <1> USE JournalAssumption DEF JournalAssumption
  <1> DEFINE f == FlagOnMatch(act[t])
             g == Append(f, NewEntry(t))
  <1>1. f \in Seq(Entry) /\ Len(f) = Len(entries)
        /\ \A i \in 1 .. Len(entries) : /\ f[i].seq = entries[i].seq
                                        /\ f[i].at = entries[i].at
    BY FlagOnMatchKeepsLedger
  <1>2. NewEntry(t) \in Entry
    BY DEF NewEntry, Entry, TypeOK
  <1> HIDE DEF f
  <1>3. g \in Seq(Entry) /\ Len(g) = Len(entries) + 1
        /\ g[Len(entries) + 1] = NewEntry(t)
        /\ \A i \in 1 .. Len(entries) : g[i] = f[i]
    BY <1>1, <1>2
  <1>4. entries' = Evict(g)
    BY DEF f
  <1> HIDE DEF g
  <1>5. entries \in Seq(Entry) /\ Len(entries) \in Nat /\ Len(entries) <= Cap
    BY DEF TypeOK
  <1>6. /\ entries' \in Seq(Entry) /\ Len(entries') <= Cap
        /\ Len(entries') <= Len(entries) + 1
        /\ \A i \in 1 .. Len(entries') :
             entries'[i] = g[Len(entries) + 1 - Len(entries') + i]
    <2>1. \A i \in 1 .. Len(Evict(g)) :
            Evict(g)[i] = g[Len(g) - Len(Evict(g)) + i]
      BY <1>3, EvictKeepsNewest
    <2>2. /\ Evict(g) \in Seq(Entry) /\ Len(Evict(g)) <= Len(g)
          /\ Len(g) <= Cap + 1 => Len(Evict(g)) <= Cap
      BY <1>3, EvictKeepsNewest
    <2>3. Len(g) <= Cap + 1
      BY <1>3, <1>5
    <2> QED
      BY <1>3, <1>4, <2>1, <2>2, <2>3
  <1>7. Len(entries') >= 1
    <2>1. Len(g) >= 1
      BY <1>3, <1>5
    <2> QED
      BY <1>3, <1>4, <2>1, EvictKeepsNewest
  <1>8. Len(entries') \in Nat
    BY <1>6
  <1>9. ASSUME NEW i \in 1 .. Len(entries')
        PROVE  LET j == Len(entries) + 1 - Len(entries') + i IN
               IF j = Len(entries) + 1
               THEN entries'[i] = NewEntry(t)
               ELSE /\ j \in 1 .. Len(entries)
                    /\ entries'[i].seq = entries[j].seq
                    /\ entries'[i].at = entries[j].at
                    /\ entries'[i] = f[j]
    <2> DEFINE j == Len(entries) + 1 - Len(entries') + i
    <2>1. j \in 1 .. Len(entries) + 1 /\ entries'[i] = g[j]
      <3>1. Len(entries') - i \in 0 .. Len(entries)
        BY <1>5, <1>6, <1>8
      <3>2. entries'[i] = g[j]
        BY <1>6
      <3> QED
        BY <1>5, <1>8, <3>1, <3>2
    <2>2. CASE j = Len(entries) + 1
      BY <2>1, <2>2, <1>3
    <2>3. CASE j # Len(entries) + 1
      <3>1. j \in 1 .. Len(entries)
        BY <2>1, <2>3, <1>5
      <3> HIDE DEF j
      <3> QED
        BY <2>1, <3>1, <2>3, <1>1, <1>3 DEF j
    <2> QED
      BY <2>2, <2>3
  <1> QED
    BY <1>6, <1>7, <1>9 DEF f

-----------------------------------------------------------------------------
(* The steps keep the types. *)

\* An effect keeps its types; what happened is never taken back.
LEMMA EffectType ==
  ASSUME TypeOK, NEW t \in Threads, act[t] \in Actions, Effect(t)
  PROVE  /\ done' \in Seq(Actions) /\ Len(done') <= MaxRuns
         /\ at' \in [Threads -> 0 .. MaxRuns]
         /\ Len(done) \in Nat /\ Len(done') \in Nat /\ Len(done') >= Len(done)
         /\ \A j \in 1 .. Len(done) : done'[j] = done[j]
         /\ (\A u \in Threads : at[u] <= Len(done))
              => \A u \in Threads : at'[u] <= Len(done')
  <1> USE JournalAssumption DEF JournalAssumption
  <1>1. done \in Seq(Actions) /\ Len(done) \in Nat /\ Len(done) <= MaxRuns
        /\ at \in [Threads -> 0 .. MaxRuns]
    BY DEF TypeOK
  <1>2. CASE /\ Len(done) < MaxRuns
             /\ done' = Append(done, act[t])
             /\ at' = [at EXCEPT ![t] = Len(done) + 1]
    <2>1. Len(done) + 1 \in 0 .. MaxRuns
      BY <1>1, <1>2
    <2>2. Len(done') = Len(done) + 1
      BY <1>1, <1>2
    <2>3. \A u \in Threads : at'[u] = at[u] \/ at'[u] = Len(done')
      BY <1>1, <1>2, <2>2
    <2>4. \A u \in Threads : at[u] \in Nat
      BY <1>1
    <2> QED
      BY <1>1, <1>2, <2>1, <2>2, <2>3, <2>4
  <1>3. CASE at' = [at EXCEPT ![t] = 0] /\ done' = done
    <2>1. 0 \in 0 .. MaxRuns
      OBVIOUS
    <2>2. \A u \in Threads : at'[u] = at[u] \/ at'[u] = 0
      BY <1>1, <1>3
    <2> QED
      BY <1>1, <1>3, <2>1, <2>2
  <1> QED
    BY <1>2, <1>3 DEF Effect

\* A thread that dispatches or records has an action in hand; one that records
\* a side effect knows when it happened.
HandsFull ==
  /\ \A t \in Threads : pc[t] # "idle" => act[t] \in Actions
  /\ pc[Voice] \in {"undo_run", "undo_reply"} => undoOf # None

LEMMA TypeStep ==
  ASSUME TypeOK, HandsFull, [Next]_vars
  PROVE  TypeOK'
  <1> USE JournalAssumption DEF JournalAssumption
  <1>v. Voice \in Threads
    BY DEF Threads
  <1>1. CASE UNCHANGED vars
    BY <1>1 DEF vars, ledger, gate, locals, history, TypeOK
  <1>2. CASE Panic
    <2>1. flips' \in 0 .. MaxFlips
      BY <1>2 DEF Panic, TypeOK
    <2>2. locked' = TRUE /\ slot' = None
          /\ UNCHANGED <<ledger, pc, locals, history>>
      BY <1>2 DEF Panic
    <2> QED
      BY <2>1, <2>2 DEF TypeOK, ledger, locals, history
  <1>3. CASE Unlock
    <2>1. flips' \in 0 .. MaxFlips
      BY <1>3 DEF Unlock, TypeOK
    <2>2. locked' = FALSE
          /\ UNCHANGED <<ledger, slot, pc, locals, history>>
      BY <1>3 DEF Unlock
    <2> QED
      BY <2>1, <2>2 DEF TypeOK, ledger, locals, history
  <1>4. ASSUME NEW t \in Threads, Park(t) PROVE TypeOK'
    BY <1>4 DEF Park, TypeOK, ledger, gate, locals, history
  <1>5. ASSUME NEW t \in Threads, Deny(t) PROVE TypeOK'
    BY <1>5 DEF Deny, TypeOK, ledger, gate, locals, history
  <1>6. ASSUME NEW t \in Threads, Confirm(t) PROVE TypeOK'
    <2>1. slot \in Actions
      BY <1>6 DEF Confirm, TypeOK, Gated
    <2>2. act' \in [Threads -> Actions \cup {None}]
      BY <1>6, <2>1 DEF Confirm, TypeOK
    <2>3. gateRun' \in [Threads -> BOOLEAN]
      BY <1>6 DEF Confirm, TypeOK
    <2> QED
      BY <1>6, <2>2, <2>3 DEF Confirm, Goto, TypeOK, ledger, gate, history
  <1>7. ASSUME NEW t \in Threads, AutoApprove(t) PROVE TypeOK'
    BY <1>7 DEF AutoApprove, Gated, Goto, TypeOK, ledger, gate, history
  <1>8. ASSUME NEW t \in Threads, Dispatch(t) PROVE TypeOK'
    <2>1. act[t] \in Actions
      BY <1>8 DEF Dispatch, HandsFull
    <2>2. /\ done' \in Seq(Actions) /\ Len(done') <= MaxRuns
          /\ at' \in [Threads -> 0 .. MaxRuns]
      BY <1>8, <2>1, EffectType DEF Dispatch
    <2> QED
      BY <1>8, <2>2 DEF Dispatch, Goto, TypeOK, ledger, gate
  <1>9. ASSUME NEW t \in Threads, Fails(t) PROVE TypeOK'
    <2>1. at' \in [Threads -> 0 .. MaxRuns]
      BY <1>9 DEF Fails, Rest, TypeOK
    <2> QED
      BY <1>9, <2>1 DEF Fails, Rest, Goto, TypeOK, ledger, gate, history
  <1>10. ASSUME NEW t \in Threads, Record(t) PROVE TypeOK'
    <2>1. act[t] \in Actions
      BY <1>10 DEF Record, HandsFull
    <2>2. /\ act' \in [Threads -> Actions \cup {None}]
          /\ at' \in [Threads -> 0 .. MaxRuns]
          /\ gateRun' \in [Threads -> BOOLEAN]
          /\ pc' \in [Threads ->
               {"idle", "dispatch", "record", "undo_run", "undo_reply"}]
      <3>1. CASE UNCHANGED <<act, at, gateRun>> /\ Goto(t, "undo_reply")
        BY <3>1 DEF Goto, TypeOK
      <3>2. CASE Rest(t)
        BY <3>2 DEF Rest, Goto, TypeOK
      <3> QED
        BY <1>10, <3>1, <3>2 DEF Record
    <2>3. /\ entries' \in Seq(Entry) /\ Len(entries') <= Cap
          /\ nextSeq' \in Nat \ {0}
          /\ expected' \in [seq : Nat \ {0}, action : Actions] \cup {None}
      <3>1. CASE gateRun[t] /\ ~locked
        <4>1. /\ entries' = Evict(Append(FlagOnMatch(act[t]), NewEntry(t)))
              /\ nextSeq' = nextSeq + 1
              /\ expected' \in {None, expected}
          BY <1>10, <3>1, Zenon DEF Record, NewEntry
        <4>3. entries' \in Seq(Entry) /\ Len(entries') <= Cap
          BY <4>1, <2>1, RecordShape
        <4> QED
          BY <4>1, <4>3 DEF TypeOK
      <3>2. CASE UNCHANGED ledger
        BY <3>2 DEF ledger, TypeOK
      <3> QED
        BY <1>10, <3>1, <3>2 DEF Record
    <2>4. UNCHANGED <<slot, locked, flips, undoOf, gateUndo, done, claims>>
      BY <1>10 DEF Record, gate, history
    <2> QED
      BY <2>2, <2>3, <2>4 DEF TypeOK
  <1>11. CASE PrepareUndo
    <2> DEFINE last == entries[Len(entries)]
    <2>1. last \in Entry
      BY <1>11 DEF PrepareUndo, TypeOK
    <2>2. Inverse[last.action] \in Actions
      BY <1>11, <2>1 DEF PrepareUndo, Entry
    <2>3. /\ expected' = [seq |-> last.seq, action |-> Inverse[last.action]]
          /\ undoOf' = last
          /\ act' = [act EXCEPT ![Voice] = Inverse[last.action]]
          /\ gateUndo' = ~locked
          /\ pc' = [pc EXCEPT ![Voice] = "undo_run"]
          /\ UNCHANGED <<entries, nextSeq, slot, gate, gateRun, at, history>>
      BY <1>11 DEF PrepareUndo, Goto
    <2> HIDE DEF last
    <2>4. expected' \in [seq : Nat \ {0}, action : Actions]
      BY <2>1, <2>2, <2>3 DEF Entry
    <2>5. act' \in [Threads -> Actions \cup {None}]
      BY <2>2, <2>3 DEF TypeOK
    <2>6. gateUndo' \in BOOLEAN
      BY <2>3 DEF TypeOK
    <2> QED
      BY <2>1, <2>3, <2>4, <2>5, <2>6 DEF TypeOK, gate, history
  <1>12. CASE UndoParks
    <2>1. slot' \in Gated \cup {None}
      BY <1>12 DEF UndoParks, TypeOK
    <2> QED
      BY <1>12, <2>1 DEF UndoParks, Goto, TypeOK, ledger, gate, locals, history
  <1>13. CASE UndoAuto
    BY <1>13 DEF UndoAuto, Goto, TypeOK, ledger, gate, history
  <1>14. CASE UndoUngated
    <2>1. act[Voice] \in Actions
      BY <1>14 DEF UndoUngated
    <2>2. /\ done' \in Seq(Actions) /\ Len(done') <= MaxRuns
          /\ at' \in [Threads -> 0 .. MaxRuns]
      BY <1>14, <1>v, <2>1, EffectType DEF UndoUngated
    <2> QED
      BY <1>14, <2>2 DEF UndoUngated, Goto, TypeOK, ledger, gate
  <1>15. CASE UndoReply
    <2>1. undoOf \in Entry
      BY <1>15 DEF UndoReply, HandsFull, TypeOK
    <2>2. entries' \in Seq(Entry) /\ Len(entries') <= Cap
      <3>1. CASE entries' = Flag(undoOf.seq)
        BY <3>1, FlagKeepsLedger DEF TypeOK
      <3>2. CASE entries' = entries
        BY <3>2 DEF TypeOK
      <3> QED
        BY <1>15, <3>1, <3>2 DEF UndoReply
    <2>3. /\ expected' \in {None, expected} /\ undoOf' = None
          /\ claims' \in {claims, claims \cup {undoOf}}
          /\ UNCHANGED <<nextSeq, slot, locked, flips, gateUndo, done>>
          /\ Rest(Voice)
      BY <1>15, Zenon DEF UndoReply, gate
    <2>4. /\ at' \in [Threads -> 0 .. MaxRuns]
          /\ act' \in [Threads -> Actions \cup {None}]
          /\ gateRun' \in [Threads -> BOOLEAN]
          /\ pc' \in [Threads ->
               {"idle", "dispatch", "record", "undo_run", "undo_reply"}]
      <3>1. at' \in [Threads -> 0 .. MaxRuns]
        <4>1. at' = [at EXCEPT ![Voice] = 0] /\ 0 \in 0 .. MaxRuns
          BY <2>3 DEF Rest
        <4> QED
          BY <4>1 DEF TypeOK
      <3>2. act' \in [Threads -> Actions \cup {None}]
        BY <2>3 DEF Rest, TypeOK
      <3>3. gateRun' \in [Threads -> BOOLEAN]
        BY <2>3 DEF Rest, TypeOK
      <3> QED
        BY <2>3, <3>1, <3>2, <3>3 DEF Rest, Goto, TypeOK
    <2> QED
      BY <2>1, <2>2, <2>3, <2>4 DEF TypeOK
  <1> QED
    BY <1>1, <1>2, <1>3, <1>4, <1>5, <1>6, <1>7, <1>8, <1>9, <1>10, <1>11,
       <1>12, <1>13, <1>14, <1>15 DEF Next

LEMMA InitHandsFull == Init => HandsFull
  BY DEF Init, HandsFull, Threads

LEMMA HandsFullStep ==
  ASSUME TypeOK, HandsFull, [Next]_vars
  PROVE  HandsFull'
  <1> USE JournalAssumption DEF JournalAssumption
  <1>v. Voice \in Threads
    BY DEF Threads
  <1>1. CASE UNCHANGED vars
    BY <1>1 DEF vars, locals, HandsFull
  <1>2. CASE Panic
    BY <1>2 DEF Panic, locals, HandsFull
  <1>3. CASE Unlock
    BY <1>3 DEF Unlock, locals, HandsFull
  <1>4. ASSUME NEW t \in Threads, Park(t) PROVE HandsFull'
    BY <1>4 DEF Park, locals, HandsFull
  <1>5. ASSUME NEW t \in Threads, Deny(t) PROVE HandsFull'
    BY <1>5 DEF Deny, locals, HandsFull
  <1>6. ASSUME NEW t \in Threads, Confirm(t) PROVE HandsFull'
    <2>1. slot \in Actions
      BY <1>6 DEF Confirm, TypeOK, Gated
    <2> QED
      BY <1>6, <1>v, <2>1 DEF Confirm, Goto, TypeOK, HandsFull
  <1>7. ASSUME NEW t \in Threads, AutoApprove(t) PROVE HandsFull'
    BY <1>7, <1>v DEF AutoApprove, Gated, Goto, TypeOK, HandsFull
  <1>8. ASSUME NEW t \in Threads, Dispatch(t) PROVE HandsFull'
    BY <1>8, <1>v DEF Dispatch, Goto, TypeOK, HandsFull
  <1>9. ASSUME NEW t \in Threads, Fails(t) PROVE HandsFull'
    BY <1>9, <1>v DEF Fails, Rest, Goto, TypeOK, HandsFull
  <1>10. ASSUME NEW t \in Threads, Record(t) PROVE HandsFull'
    <2>1. CASE t = Voice /\ undoOf # None
      <3>1. pc' = [pc EXCEPT ![t] = "undo_reply"] /\ UNCHANGED <<act, undoOf>>
        BY <1>10, <2>1, Zenon DEF Record, Goto
      <3>2. pc[t] # "idle"
        BY <1>10 DEF Record
      <3> QED
        BY <1>v, <2>1, <3>1, <3>2 DEF TypeOK, HandsFull
    <2>2. CASE ~(t = Voice /\ undoOf # None)
      <3>1. Rest(t) /\ undoOf' = undoOf
        BY <1>10, <2>2, Zenon DEF Record
      <3> QED
        BY <1>v, <3>1 DEF Rest, Goto, TypeOK, HandsFull
    <2> QED
      BY <2>1, <2>2
  <1>11. CASE PrepareUndo
    <2> DEFINE last == entries[Len(entries)]
    <2>1. last \in Entry
      BY <1>11 DEF PrepareUndo, TypeOK
    <2>2. Inverse[last.action] \in Actions
      BY <1>11, <2>1 DEF PrepareUndo, Entry
    <2>3. last # None
      BY <2>1
    <2> HIDE DEF last
    <2>4. /\ undoOf' = last
          /\ act' = [act EXCEPT ![Voice] = Inverse[last.action]]
          /\ pc' = [pc EXCEPT ![Voice] = "undo_run"]
      BY <1>11 DEF PrepareUndo, Goto, last
    <2> QED
      BY <1>v, <2>2, <2>3, <2>4 DEF TypeOK, HandsFull
  <1>12. CASE UndoParks
    BY <1>12, <1>v DEF UndoParks, Goto, TypeOK, locals, HandsFull
  <1>13. CASE UndoAuto
    BY <1>13, <1>v DEF UndoAuto, Goto, TypeOK, HandsFull
  <1>14. CASE UndoUngated
    BY <1>14, <1>v DEF UndoUngated, Goto, TypeOK, HandsFull
  <1>15. CASE UndoReply
    BY <1>15, <1>v DEF UndoReply, Rest, Goto, TypeOK, HandsFull
  <1> QED
    BY <1>1, <1>2, <1>3, <1>4, <1>5, <1>6, <1>7, <1>8, <1>9, <1>10, <1>11,
       <1>12, <1>13, <1>14, <1>15 DEF Next

-----------------------------------------------------------------------------
(* The ledger retains the newest executions. *)

LEMMA RetainedStep ==
  ASSUME TypeOK, HandsFull, RetainedAreTheNewest, [Next]_vars
  PROVE  RetainedAreTheNewest'
  <1> USE JournalAssumption DEF JournalAssumption
  <1>1. entries \in Seq(Entry) /\ Len(entries) \in Nat /\ nextSeq \in Nat
    BY DEF TypeOK
  <1>2. \A i \in 1 .. Len(entries) :
          entries[i].seq = nextSeq - Len(entries) + i - 1
    BY <1>1 DEF RetainedAreTheNewest
  <1>3. CASE UNCHANGED <<entries, nextSeq>>
    BY <1>3 DEF RetainedAreTheNewest
  <1>4. ASSUME NEW t \in Threads, Record(t), gateRun[t], ~locked
        PROVE  RetainedAreTheNewest'
    <2>1. act[t] \in Actions
      BY <1>4 DEF Record, HandsFull
    <2>2. /\ entries' = Evict(Append(FlagOnMatch(act[t]), NewEntry(t)))
          /\ nextSeq' = nextSeq + 1
      BY <1>4, Zenon DEF Record, NewEntry
    <2>3. /\ entries' \in Seq(Entry)
          /\ Len(entries') <= Len(entries) + 1
          /\ \A i \in 1 .. Len(entries') :
               LET j == Len(entries) + 1 - Len(entries') + i IN
               IF j = Len(entries) + 1
               THEN entries'[i] = NewEntry(t)
               ELSE /\ j \in 1 .. Len(entries)
                    /\ entries'[i].seq = entries[j].seq
                    /\ entries'[i].at = entries[j].at
      <3>1. entries' = Evict(Append(FlagOnMatch(act[t]), NewEntry(t))) /\ act[t] \in Actions
        BY <2>1, <2>2
      <3>2. t \in Threads /\ TypeOK
        BY <1>4
      <3> HIDE DEF JournalAssumption
      <3> QED
        BY ONLY <3>1, <3>2, RecordShape, SMTT(20)
    <2>4. DOMAIN entries' = 1 .. Len(entries') /\ Len(entries') \in Nat
      BY <2>3
    <2>5. ASSUME NEW i \in 1 .. Len(entries')
          PROVE  entries'[i].seq = nextSeq' - Len(entries') + i - 1
      <3> DEFINE j == Len(entries) + 1 - Len(entries') + i
      <3>1. CASE j = Len(entries) + 1
        <4>1. entries'[i].seq = nextSeq
          BY <2>3, <3>1 DEF NewEntry
        <4> QED
          BY <1>1, <2>2, <2>4, <3>1, <4>1
      <3>2. CASE j # Len(entries) + 1
        <4>1. j \in 1 .. Len(entries) /\ entries'[i].seq = entries[j].seq
          BY <2>3, <3>2
        <4>2. entries'[i].seq = nextSeq - Len(entries) + j - 1
          BY <1>2, <4>1
        <4> QED
          BY <1>1, <2>2, <2>4, <4>2
      <3> QED
        BY <3>1, <3>2
    <2> QED
      BY <2>4, <2>5 DEF RetainedAreTheNewest
  <1>5. CASE UndoReply /\ entries' = Flag(undoOf.seq)
    <2>1. nextSeq' = nextSeq
      BY <1>5 DEF UndoReply
    <2>2. /\ Len(entries') = Len(entries) /\ entries' \in Seq(Entry)
          /\ \A i \in 1 .. Len(entries) : entries'[i].seq = entries[i].seq
      BY <1>1, <1>5, FlagKeepsLedger
    <2> QED
      BY <1>1, <1>2, <2>1, <2>2 DEF RetainedAreTheNewest
  <1>6. ASSUME NEW t \in Threads, Record(t) PROVE RetainedAreTheNewest'
    <2>1. CASE UNCHANGED ledger
      BY <1>3, <2>1 DEF ledger
    <2> QED
      BY <1>4, <1>6, <2>1 DEF Record
  <1>7. CASE UndoReply
    <2>1. CASE UNCHANGED <<entries, expected>>
      BY <1>3, <1>7, <2>1 DEF UndoReply
    <2> QED
      BY <1>5, <1>7, <2>1 DEF UndoReply
  <1>8. CASE UNCHANGED vars
    BY <1>3, <1>8 DEF vars, ledger
  <1>9. CASE PrepareUndo
    BY <1>3, <1>9 DEF PrepareUndo
  <1> QED
    BY <1>3, <1>6, <1>7, <1>8, <1>9
    DEF Next, ledger, Panic, Unlock, Park, Deny, Confirm, AutoApprove,
        Dispatch, Fails, UndoParks, UndoAuto, UndoUngated

-----------------------------------------------------------------------------
(* What the user is told of an ungated inverse. *)

(* No dispatch is later than what happened; an undo in hand is of an entry   *)
(* and its inverse; an ungated one that took effect reversed its entry.      *)
PastOK ==
  /\ \A t \in Threads : at[t] <= Len(done)
  /\ \A i \in 1 .. Len(entries) : entries[i].at <= Len(done)
  /\ undoOf # None => undoOf.at <= Len(done)

UndoOK ==
  /\ undoOf # None => pc[Voice] # "idle" /\ act[Voice] = Inverse[undoOf.action]
  /\ pc[Voice] \in {"dispatch", "record"} => act[Voice] \in Gated
  /\ pc[Voice] = "undo_reply" /\ act[Voice] \in Ungated /\ at[Voice] # 0
       => Reversed(undoOf)

LEMMA ReversedStays ==
  ASSUME TypeOK, NEW e \in Entry, Reversed(e), [Next]_vars, HandsFull
  PROVE  Reversed(e)'
  <1>1. done \in Seq(Actions) /\ Len(done) \in Nat /\ e.at \in Nat
    BY JournalAssumption DEF TypeOK, Entry, JournalAssumption
  <1>2. CASE done' = done
    BY <1>2 DEF Reversed
  <1>3. ASSUME NEW t \in Threads, act[t] \in Actions, Effect(t)
        PROVE  Reversed(e)'
    <2>1. /\ Len(done') >= Len(done) /\ done' \in Seq(Actions)
          /\ \A j \in 1 .. Len(done) : done'[j] = done[j]
      BY <1>3, EffectType
    <2>2. PICK j \in e.at + 1 .. Len(done) : done[j] = Inverse[e.action]
      BY DEF Reversed
    <2>3. j \in 1 .. Len(done) /\ j \in e.at + 1 .. Len(done')
      BY <1>1, <2>1, <2>2
    <2> QED
      BY <2>1, <2>2, <2>3 DEF Reversed
  <1>4. ASSUME NEW t \in Threads, Dispatch(t) PROVE Reversed(e)'
    BY <1>3, <1>4 DEF Dispatch, HandsFull
  <1>5. CASE UndoUngated
    <2>1. act[Voice] \in Actions /\ Voice \in Threads
      BY <1>5, JournalAssumption DEF UndoUngated, Threads, JournalAssumption
    <2> QED
      BY <1>3, <1>5, <2>1 DEF UndoUngated
  <1> QED
    BY <1>2, <1>4, <1>5
    DEF Next, vars, history, Panic, Unlock, Park, Deny, Confirm, AutoApprove,
        Fails, Record, PrepareUndo, UndoParks, UndoAuto, UndoReply

LEMMA PastStep ==
  ASSUME TypeOK, HandsFull, PastOK, UndoOK, [Next]_vars
  PROVE  PastOK'
  <1> USE JournalAssumption DEF JournalAssumption
  <1>v. Voice \in Threads
    BY DEF Threads
  <1>0. CASE UNCHANGED vars
    BY <1>0 DEF vars, ledger, locals, history, PastOK, Reversed
  <1>1. CASE Panic
    BY <1>1, <1>v DEF Panic, Rest, Goto, ledger, gate, locals, history, TypeOK, PastOK, Reversed, Gated
  <1>2. CASE Unlock
    BY <1>2, <1>v DEF Unlock, Rest, Goto, ledger, gate, locals, history, TypeOK, PastOK, Reversed, Gated
  <1>3. ASSUME NEW t \in Threads, Park(t) PROVE PastOK'
    BY <1>3, <1>v DEF Park, Rest, Goto, ledger, gate, locals, history, TypeOK, PastOK, Reversed, Gated
  <1>4. ASSUME NEW t \in Threads, Deny(t) PROVE PastOK'
    BY <1>4, <1>v DEF Deny, Rest, Goto, ledger, gate, locals, history, TypeOK, PastOK, Reversed, Gated
  <1>5. ASSUME NEW t \in Threads, Confirm(t) PROVE PastOK'
    BY <1>5, <1>v DEF Confirm, Rest, Goto, ledger, gate, locals, history, TypeOK, PastOK, Reversed, Gated
  <1>6. ASSUME NEW t \in Threads, AutoApprove(t) PROVE PastOK'
    BY <1>6, <1>v DEF AutoApprove, Rest, Goto, ledger, gate, locals, history, TypeOK, PastOK, Reversed, Gated
  <1>7. ASSUME NEW t \in Threads, Dispatch(t) PROVE PastOK'
    <2>1. act[t] \in Actions /\ Effect(t)
      BY <1>7 DEF Dispatch, HandsFull
    <2>2. Len(done') >= Len(done) /\ Len(done) \in Nat /\ Len(done') \in Nat
      BY <2>1, EffectType
    <2>3. \A u \in Threads : at'[u] <= Len(done')
      BY <2>1, EffectType DEF PastOK
    <2>4. entries' = entries /\ undoOf' = undoOf
      BY <1>7 DEF Dispatch, ledger
    <2>5. \A i \in 1 .. Len(entries) : entries[i].at \in Nat
      <3>1. \A i \in 1 .. Len(entries) : entries[i] \in Entry
        BY DEF TypeOK
      <3> QED
        BY <3>1 DEF Entry
    <2>6. undoOf # None => undoOf.at \in Nat
      BY DEF TypeOK, Entry
    <2> QED
      BY <2>2, <2>3, <2>4, <2>5, <2>6 DEF PastOK
  <1>8. ASSUME NEW t \in Threads, Fails(t) PROVE PastOK'
    BY <1>8, <1>v DEF Fails, Rest, Goto, ledger, gate, locals, history, TypeOK, PastOK, Reversed, Gated
  <1>9. ASSUME NEW t \in Threads, Record(t) PROVE PastOK'
    <2>1. act[t] \in Actions
      BY <1>9 DEF Record, HandsFull
    <2>2. /\ \A u \in Threads : at'[u] <= Len(done')
          /\ undoOf' = undoOf /\ done' = done
      <3>1. undoOf' = undoOf /\ done' = done
        BY <1>9 DEF Record, history
      <3>2. at' = at \/ at' = [at EXCEPT ![t] = 0]
        BY <1>9 DEF Record, Rest
      <3>3. Len(done) \in Nat /\ at \in [Threads -> 0 .. MaxRuns]
        BY DEF TypeOK
      <3>4. \A u \in Threads : at'[u] <= Len(done)
        BY <3>2, <3>3 DEF PastOK
      <3> QED
        BY <3>1, <3>4
    <2>3. \A i \in 1 .. Len(entries') : entries'[i].at <= Len(done)
      <3>1. CASE gateRun[t] /\ ~locked
        <4>1. entries' = Evict(Append(FlagOnMatch(act[t]), NewEntry(t)))
          BY <1>9, <3>1, Zenon DEF Record, NewEntry
        <4>3. \A i \in 1 .. Len(entries') :
               LET j == Len(entries) + 1 - Len(entries') + i IN
               IF j = Len(entries) + 1
               THEN entries'[i] = NewEntry(t)
               ELSE /\ j \in 1 .. Len(entries)
                    /\ entries'[i].seq = entries[j].seq
                    /\ entries'[i].at = entries[j].at
          BY <2>1, <4>1, RecordShape
        <4>4. NewEntry(t).at = at[t]
          BY DEF NewEntry
        <4> QED
          BY <4>3, <4>4 DEF PastOK
      <3>2. CASE entries' = entries
        BY <3>2 DEF PastOK
      <3> QED
        BY <1>9, <3>1, <3>2 DEF Record, ledger
    <2> QED
      BY <2>2, <2>3 DEF PastOK
  <1>10. CASE PrepareUndo
    <2>1. /\ undoOf' = entries[Len(entries)] /\ Len(entries) \in 1 .. Len(entries)
          /\ UNCHANGED <<entries, at, done>>
      BY <1>10 DEF PrepareUndo, history, TypeOK
    <2> QED
      BY <2>1 DEF PastOK
  <1>11. CASE UndoParks
    BY <1>11, <1>v DEF UndoParks, Rest, Goto, ledger, gate, locals, history, TypeOK, PastOK, Reversed, Gated
  <1>12. CASE UndoAuto
    BY <1>12, <1>v DEF UndoAuto, Rest, Goto, ledger, gate, locals, history, TypeOK, PastOK, Reversed, Gated
  <1>13. CASE UndoUngated
    <2>1. act[Voice] \in Actions /\ Effect(Voice)
      BY <1>13 DEF UndoUngated
    <2>2. Len(done') >= Len(done) /\ Len(done) \in Nat /\ Len(done') \in Nat
      BY <1>v, <2>1, EffectType
    <2>3. \A u \in Threads : at'[u] <= Len(done')
      BY <1>v, <2>1, EffectType DEF PastOK
    <2>4. entries' = entries /\ undoOf' = undoOf
      BY <1>13 DEF UndoUngated, ledger
    <2>5. \A i \in 1 .. Len(entries) : entries[i].at \in Nat
      <3>1. \A i \in 1 .. Len(entries) : entries[i] \in Entry
        BY DEF TypeOK
      <3> QED
        BY <3>1 DEF Entry
    <2>6. undoOf # None => undoOf.at \in Nat
      BY DEF TypeOK, Entry
    <2> QED
      BY <2>2, <2>3, <2>4, <2>5, <2>6 DEF PastOK
  <1>14. CASE UndoReply
    <2>1. /\ Len(entries') = Len(entries)
          /\ \A i \in 1 .. Len(entries) : entries'[i].at = entries[i].at
      <3>1. CASE entries' = Flag(undoOf.seq)
        BY <3>1, FlagKeepsLedger DEF TypeOK
      <3>2. CASE entries' = entries
        BY <3>2
      <3> QED
        BY <1>14, <3>1, <3>2 DEF UndoReply
    <2>2. undoOf' = None /\ done' = done /\ at' = [at EXCEPT ![Voice] = 0]
      BY <1>14 DEF UndoReply, Rest
    <2>3. \A u \in Threads : at'[u] <= Len(done)
      BY <1>v, <2>2 DEF TypeOK, PastOK
    <2> QED
      BY <2>1, <2>2, <2>3 DEF PastOK
  <1> QED
    BY <1>0, <1>1, <1>2, <1>3, <1>4, <1>5, <1>6, <1>7, <1>8, <1>9, <1>10, <1>11, <1>12, <1>13, <1>14 DEF Next

LEMMA UndoStep ==
  ASSUME TypeOK, HandsFull, PastOK, UndoOK, [Next]_vars
  PROVE  UndoOK'
  <1> USE JournalAssumption DEF JournalAssumption
  <1>v. Voice \in Threads
    BY DEF Threads
  <1>0. CASE UNCHANGED vars
    BY <1>0 DEF vars, ledger, locals, history, UndoOK, Reversed
  <1>1. CASE Panic
    BY <1>1, <1>v DEF Panic, Rest, Goto, ledger, gate, locals, history, TypeOK, UndoOK, Reversed, Gated
  <1>2. CASE Unlock
    BY <1>2, <1>v DEF Unlock, Rest, Goto, ledger, gate, locals, history, TypeOK, UndoOK, Reversed, Gated
  <1>3. ASSUME NEW t \in Threads, Park(t) PROVE UndoOK'
    BY <1>3, <1>v DEF Park, Rest, Goto, ledger, gate, locals, history, TypeOK, UndoOK, Reversed, Gated
  <1>4. ASSUME NEW t \in Threads, Deny(t) PROVE UndoOK'
    BY <1>4, <1>v DEF Deny, Rest, Goto, ledger, gate, locals, history, TypeOK, UndoOK, Reversed, Gated
  <1>5. ASSUME NEW t \in Threads, Confirm(t) PROVE UndoOK'
    BY <1>5, <1>v DEF Confirm, Rest, Goto, ledger, gate, locals, history, TypeOK, UndoOK, Reversed, Gated
  <1>6. ASSUME NEW t \in Threads, AutoApprove(t) PROVE UndoOK'
    BY <1>6, <1>v DEF AutoApprove, Rest, Goto, ledger, gate, locals, history, TypeOK, UndoOK, Reversed, Gated
  <1>7. ASSUME NEW t \in Threads, Dispatch(t) PROVE UndoOK'
    <2>1. /\ pc' = [pc EXCEPT ![t] = "record"] /\ act' = act /\ undoOf' = undoOf
          /\ pc[t] = "dispatch"
      BY <1>7 DEF Dispatch, Goto
    <2>2. pc[Voice] # "undo_reply" => pc'[Voice] # "undo_reply"
      BY <2>1, <1>v DEF TypeOK
    <2>3. CASE pc[Voice] # "undo_reply"
      BY <2>1, <2>2, <2>3, <1>v DEF TypeOK, UndoOK, Gated
    <2>4. CASE pc[Voice] = "undo_reply"
      <3>1. t # Voice
        BY <2>1, <2>4
      <3>2. at'[Voice] = at[Voice]
        BY <1>7, <3>1, <1>v DEF Dispatch, Effect, TypeOK
      <3>3. undoOf \in Entry
        BY <2>4 DEF HandsFull, TypeOK
      <3>4. ASSUME act[Voice] \in Ungated, at[Voice] # 0 PROVE Reversed(undoOf)'
        <4>1. Reversed(undoOf)
          BY <2>4, <3>4 DEF UndoOK
        <4>2. \A e \in Entry : Reversed(e) =>
                \E j \in e.at + 1 .. Len(done') : done'[j] = Inverse[e.action]
          BY ReversedStays DEF Reversed
        <4> QED
          BY <2>1, <3>3, <4>1, <4>2 DEF Reversed
      <3> QED
        BY <2>1, <2>4, <3>1, <3>2, <3>4, <1>v DEF TypeOK, UndoOK
    <2> QED
      BY <2>3, <2>4
  <1>8. ASSUME NEW t \in Threads, Fails(t) PROVE UndoOK'
    BY <1>8, <1>v DEF Fails, Rest, Goto, ledger, gate, locals, history, TypeOK, UndoOK, Reversed, Gated
  <1>9. ASSUME NEW t \in Threads, Record(t) PROVE UndoOK'
    BY <1>9, <1>v DEF Record, Rest, Goto, ledger, gate, locals, history, TypeOK, UndoOK, Reversed, Gated
  <1>10. CASE PrepareUndo
    <2> DEFINE last == entries[Len(entries)]
    <2>1. /\ undoOf' = last
          /\ act' = [act EXCEPT ![Voice] = Inverse[last.action]]
          /\ pc' = [pc EXCEPT ![Voice] = "undo_run"]
      BY <1>10 DEF PrepareUndo, Goto
    <2> QED
      BY <2>1, <1>v DEF TypeOK, UndoOK
  <1>11. CASE UndoParks
    BY <1>11, <1>v DEF UndoParks, Rest, Goto, ledger, gate, locals, history, TypeOK, UndoOK, Reversed, Gated
  <1>12. CASE UndoAuto
    BY <1>12, <1>v DEF UndoAuto, Rest, Goto, ledger, gate, locals, history, TypeOK, UndoOK, Reversed, Gated
  <1>13. CASE UndoUngated
    <2>1. /\ pc' = [pc EXCEPT ![Voice] = "undo_reply"] /\ act' = act
          /\ undoOf' = undoOf /\ act[Voice] \in Actions
          /\ undoOf # None /\ pc[Voice] = "undo_run"
      BY <1>13 DEF UndoUngated, Goto, HandsFull
    <2>2. undoOf \in Entry /\ undoOf.at <= Len(done)
          /\ act[Voice] = Inverse[undoOf.action]
      BY <2>1 DEF TypeOK, PastOK, UndoOK
    <2>3. ASSUME at'[Voice] # 0 PROVE Reversed(undoOf)'
      <3>1. done' = Append(done, act[Voice])
        BY <1>13, <2>3, <1>v DEF UndoUngated, Effect, TypeOK
      <3>2. done \in Seq(Actions) /\ undoOf.at \in Nat /\ Len(done) \in Nat
        BY <2>2 DEF TypeOK, Entry
      <3>3. /\ Len(done') = Len(done) + 1
            /\ done'[Len(done) + 1] = Inverse[undoOf.action]
        BY <2>1, <2>2, <3>1, <3>2
      <3>4. Len(done) + 1 \in undoOf.at + 1 .. Len(done')
        BY <2>2, <3>2, <3>3
      <3> QED
        BY <2>1, <3>3, <3>4 DEF Reversed
    <2> QED
      BY <2>1, <2>2, <2>3, <1>v DEF TypeOK, UndoOK
  <1>14. CASE UndoReply
    BY <1>14, <1>v DEF UndoReply, Rest, Goto, ledger, gate, locals, history, TypeOK, UndoOK, Reversed, Gated
  <1> QED
    BY <1>0, <1>1, <1>2, <1>3, <1>4, <1>5, <1>6, <1>7, <1>8, <1>9, <1>10, <1>11, <1>12, <1>13, <1>14 DEF Next

LEMMA ClaimStep ==
  ASSUME TypeOK, HandsFull, UndoOK, UngatedClaimHonest, [Next]_vars
  PROVE  UngatedClaimHonest'
  <1>1. ASSUME NEW e \in claims, Inverse[e.action] \in Ungated
        PROVE  Reversed(e)'
    BY <1>1, ReversedStays DEF UngatedClaimHonest, TypeOK
  <1>2. CASE claims' = claims
    BY <1>1, <1>2 DEF UngatedClaimHonest
  <1>3. CASE UndoReply
    <2>1. CASE ExecutedDirectly
      <3>1. /\ claims' = claims \cup {undoOf} /\ done' = done
            /\ pc[Voice] = "undo_reply" /\ undoOf # None
        BY <1>3, <2>1 DEF UndoReply, HandsFull
      <3>2. Inverse[undoOf.action] \in Ungated => Reversed(undoOf)
        BY <2>1, <3>1 DEF UndoOK, ExecutedDirectly
      <3>3. ASSUME NEW e \in claims', Inverse[e.action] \in Ungated
            PROVE  Reversed(e)'
        <4>1. CASE e \in claims
          BY <1>1, <3>3, <4>1
        <4>2. CASE e = undoOf
          BY <3>1, <3>2, <3>3, <4>2 DEF Reversed
        <4> QED
          BY <3>1, <4>1, <4>2
      <3> QED
        BY <3>3 DEF UngatedClaimHonest
    <2>2. CASE ~ExecutedDirectly
      BY <1>2, <1>3, <2>2 DEF UndoReply
    <2> QED
      BY <2>1, <2>2
  <1> QED
    BY <1>2, <1>3
    DEF Next, vars, history, Panic, Unlock, Park, Deny, Confirm, AutoApprove,
        Dispatch, Fails, Record, PrepareUndo, UndoParks, UndoAuto, UndoUngated

-----------------------------------------------------------------------------
(* What is marked undone.  With at most one flip of the gate, a dispatch     *)
(* whose gate was on at both reads took effect; and the armed undo, like the *)
(* undo in hand, is of the entry that has its number.                        *)

Happened == {done[j] : j \in DOMAIN done}

GateOK ==
  /\ \A t \in Threads : gateRun[t] /\ locked => flips >= 1
  /\ \A t \in Threads : pc[t] \in {"dispatch", "record"} => act[t] \in Gated
  /\ \A t \in Threads :
       pc[t] = "record" /\ gateRun[t] /\ ~locked => act[t] \in Happened

ArmedOK ==
  /\ expected # None =>
       /\ expected.seq < nextSeq
       /\ \A i \in 1 .. Len(entries) : entries[i].seq = expected.seq
            => expected.action = Inverse[entries[i].action]
  /\ undoOf # None =>
       /\ undoOf.seq < nextSeq
       /\ \A i \in 1 .. Len(entries) : entries[i].seq = undoOf.seq
            => undoOf.action = entries[i].action

LEMMA FlagMarks ==
  ASSUME entries \in Seq(Entry), NEW q, NEW i \in 1 .. Len(entries),
         Flag(q)[i].undone
  PROVE  entries[i].undone \/ entries[i].seq = q
  <1>1. entries[i] \in Entry /\ DOMAIN entries = 1 .. Len(entries)
    OBVIOUS
  <1> DEFINE u == entries[i].undone \/ entries[i].seq = q
  <1>2. Flag(q)[i] = [entries[i] EXCEPT !.undone = u]
    BY <1>1 DEF Flag
  <1> HIDE DEF u
  <1>3. u
    BY <1>1, <1>2 DEF Entry
  <1> QED
    BY <1>3 DEF u

\* What happened is never taken back, and an effect with the gate on happened.
LEMMA HappenedEffect ==
  ASSUME TypeOK, NEW t \in Threads, act[t] \in Actions, Effect(t)
  PROVE  /\ Happened \subseteq Happened'
         /\ act[t] \in Gated /\ ~locked => act[t] \in Happened'
  <1>1. /\ done' \in Seq(Actions) /\ done \in Seq(Actions)
        /\ Len(done) \in Nat /\ Len(done') \in Nat /\ Len(done') >= Len(done)
        /\ \A j \in 1 .. Len(done) : done'[j] = done[j]
    BY EffectType DEF TypeOK
  <1>2. Happened \subseteq Happened'
    <2>1. /\ DOMAIN done = 1 .. Len(done) /\ DOMAIN done' = 1 .. Len(done')
          /\ 1 .. Len(done) \subseteq 1 .. Len(done')
      BY <1>1
    <2> QED
      BY <1>1, <2>1 DEF Happened
  <1>3. ASSUME act[t] \in Gated, ~locked PROVE act[t] \in Happened'
    <2>1. done' = Append(done, act[t])
      BY <1>3 DEF Effect, Gated
    <2>2. Len(done) + 1 \in DOMAIN done' /\ done'[Len(done) + 1] = act[t]
      BY <1>1, <2>1
    <2> QED
      BY <2>2 DEF Happened
  <1> QED
    BY <1>2, <1>3

LEMMA HappenedStays ==
  ASSUME TypeOK, HandsFull, [Next]_vars
  PROVE  Happened \subseteq Happened'
  <1>1. CASE done' = done
    BY <1>1 DEF Happened
  <1>2. ASSUME NEW t \in Threads, Dispatch(t)
        PROVE  Happened \subseteq Happened'
    BY <1>2, HappenedEffect DEF Dispatch, HandsFull
  <1>3. CASE UndoUngated
    <2>1. act[Voice] \in Actions /\ Effect(Voice) /\ Voice \in Threads
      BY <1>3, JournalAssumption DEF UndoUngated, JournalAssumption, Threads
    <2> QED
      BY <2>1, HappenedEffect
  <1> QED
    BY <1>1, <1>2, <1>3
    DEF Next, vars, history, Panic, Unlock, Park, Deny, Confirm, AutoApprove,
        Fails, Record, PrepareUndo, UndoParks, UndoAuto, UndoReply

LEMMA GateStep ==
  ASSUME MaxFlips <= 1, TypeOK, HandsFull, UndoOK, GateOK, [Next]_vars
  PROVE  GateOK'
  <1> USE JournalAssumption DEF JournalAssumption
  <1>v. Voice \in Threads
    BY DEF Threads
  <1>f. flips \in Nat /\ Happened \subseteq Happened'
    BY HappenedStays DEF TypeOK
  <1>0. CASE UNCHANGED vars
    BY <1>0 DEF vars, gate, locals, history, GateOK, Happened
  <1>1. CASE Panic
    BY <1>1, <1>f DEF Panic, locals, history, GateOK, Happened
  <1>2. CASE Unlock
    <2>1. \A t \in Threads : ~gateRun[t]
      BY <1>2, <1>f DEF Unlock, GateOK
    <2> QED
      BY <1>2, <2>1 DEF Unlock, locals, GateOK
  <1>3. ASSUME NEW t \in Threads, Park(t) \/ Deny(t) PROVE GateOK'
    BY <1>3 DEF Park, Deny, gate, locals, history, GateOK, Happened
  <1>4. ASSUME NEW t \in Threads, Confirm(t) PROVE GateOK'
    BY <1>4 DEF Confirm, Goto, gate, history, TypeOK, GateOK, Happened, Gated
  <1>5. ASSUME NEW t \in Threads, AutoApprove(t) PROVE GateOK'
    BY <1>5 DEF AutoApprove, Goto, gate, history, TypeOK, GateOK, Happened
  <1>6. ASSUME NEW t \in Threads, Dispatch(t) PROVE GateOK'
    <2>1. /\ pc[t] = "dispatch" /\ pc' = [pc EXCEPT ![t] = "record"]
          /\ UNCHANGED <<locked, flips, act, gateRun>> /\ Effect(t)
      BY <1>6 DEF Dispatch, Goto, gate
    <2>2. act[t] \in Gated /\ act[t] \in Actions
      BY <2>1 DEF GateOK, Gated
    <2>3. ~locked => act[t] \in Happened'
      BY <2>1, <2>2, HappenedEffect
    <2> QED
      BY <1>f, <2>1, <2>2, <2>3 DEF GateOK, TypeOK
  <1>7. ASSUME NEW t \in Threads, Fails(t) PROVE GateOK'
    BY <1>7 DEF Fails, Rest, Goto, gate, history, TypeOK, GateOK, Happened
  <1>8. ASSUME NEW t \in Threads, Record(t) PROVE GateOK'
    <2>1. UNCHANGED <<locked, flips, done>>
      BY <1>8 DEF Record, gate, history
    <2>2. CASE /\ pc' = [pc EXCEPT ![t] = "undo_reply"]
               /\ UNCHANGED <<act, gateRun>>
      BY <2>1, <2>2 DEF TypeOK, GateOK, Happened
    <2>3. CASE Rest(t)
      BY <2>1, <2>3 DEF Rest, Goto, TypeOK, GateOK, Happened
    <2> QED
      BY <1>8, <2>2, <2>3 DEF Record, Goto
  <1>9. CASE PrepareUndo
    <2>1. /\ \A t \in Threads \ {Voice} : act'[t] = act[t] /\ pc'[t] = pc[t]
          /\ pc'[Voice] = "undo_run"
          /\ UNCHANGED <<locked, flips, gateRun, done>>
      BY <1>9, <1>v DEF PrepareUndo, Goto, gate, history, TypeOK
    <2> QED
      BY <2>1 DEF GateOK, Happened
  <1>10. CASE UndoParks
    BY <1>10, <1>v
    DEF UndoParks, Goto, gate, locals, history, TypeOK, GateOK, Happened
  <1>11. CASE UndoAuto
    BY <1>11, <1>v DEF UndoAuto, Goto, gate, history, TypeOK, GateOK, Happened
  <1>12. CASE UndoUngated
    <2>1. /\ pc' = [pc EXCEPT ![Voice] = "undo_reply"]
          /\ UNCHANGED <<locked, flips, act, gateRun>>
      BY <1>12 DEF UndoUngated, Goto, gate
    <2> QED
      BY <1>f, <1>v, <2>1 DEF GateOK, TypeOK
  <1>13. CASE UndoReply
    <2>1. /\ pc' = [pc EXCEPT ![Voice] = "idle"]
          /\ act' = [act EXCEPT ![Voice] = None]
          /\ gateRun' = [gateRun EXCEPT ![Voice] = FALSE]
          /\ UNCHANGED <<locked, flips, done>>
      BY <1>13 DEF UndoReply, Rest, Goto, gate
    <2> QED
      BY <1>v, <2>1 DEF GateOK, TypeOK, Happened
  <1> QED
    BY <1>0, <1>1, <1>2, <1>3, <1>4, <1>5, <1>6, <1>7, <1>8, <1>9, <1>10,
       <1>11, <1>12, <1>13 DEF Next

\* What a step does to the ledger: nothing, an execution recorded, or an entry
\* marked for an ungated inverse.
LEMMA LedgerSteps ==
  ASSUME [Next]_vars
  PROVE  \/ UNCHANGED <<entries, nextSeq, expected, undoOf>>
         \/ UNCHANGED <<entries, nextSeq, expected>> /\ undoOf' \in {None, undoOf}
         \/ \E t \in Threads : Record(t) /\ gateRun[t] /\ ~locked
         \/ PrepareUndo
         \/ UndoReply /\ ExecutedDirectly /\ act[Voice] \in Ungated
  <1>1. ASSUME NEW t \in Threads, Record(t), ~(gateRun[t] /\ ~locked)
        PROVE  UNCHANGED <<entries, nextSeq, expected, undoOf>>
    BY <1>1 DEF Record, ledger
  <1>2. ASSUME UndoReply, ~(ExecutedDirectly /\ act[Voice] \in Ungated)
        PROVE  UNCHANGED <<entries, nextSeq, expected>> /\ undoOf' = None
    BY <1>2 DEF UndoReply
  <1> QED
    BY <1>1, <1>2
    DEF Next, vars, ledger, locals, Panic, Unlock, Park, Deny, Confirm,
        AutoApprove, Dispatch, Fails, UndoParks, UndoAuto, UndoUngated

\* What a recorded execution does to the entries it keeps.
LEMMA RecordMarks ==
  ASSUME TypeOK, HandsFull, RetainedAreTheNewest, NEW t \in Threads, Record(t),
         gateRun[t], ~locked, NEW i \in 1 .. Len(entries')
  PROVE  \/ entries'[i] = NewEntry(t)
         \/ \E j \in 1 .. Len(entries) :
              /\ entries'[i].seq = entries[j].seq
              /\ entries'[i].action = entries[j].action
              /\ entries[j].seq < nextSeq
              /\ entries'[i].undone =>
                   \/ entries[j].undone
                   \/ /\ expected # None /\ entries[j].seq = expected.seq
                      /\ expected.action = act[t]
  <1>1. act[t] \in Actions
    BY DEF Record, HandsFull
  <1>2. entries' = Evict(Append(FlagOnMatch(act[t]), NewEntry(t)))
    BY Zenon DEF Record, NewEntry
  <1> DEFINE j == Len(entries) + 1 - Len(entries') + i
  <1>3. \/ entries'[i] = NewEntry(t)
        \/ j \in 1 .. Len(entries) /\ entries'[i] = FlagOnMatch(act[t])[j]
    BY <1>1, <1>2, RecordShape
  <1> HIDE DEF j
  <1>4. ASSUME j \in 1 .. Len(entries), entries'[i] = FlagOnMatch(act[t])[j]
        PROVE  /\ entries'[i].seq = entries[j].seq
               /\ entries'[i].action = entries[j].action
               /\ entries[j].seq < nextSeq
               /\ entries'[i].undone =>
                    \/ entries[j].undone
                    \/ /\ expected # None /\ entries[j].seq = expected.seq
                       /\ expected.action = act[t]
    <2>1. /\ entries'[i].seq = entries[j].seq
          /\ entries'[i].action = entries[j].action
      BY <1>4, FlagOnMatchKeepsLedger
    <2>2. entries[j].seq < nextSeq
      BY <1>4 DEF RetainedAreTheNewest, TypeOK
    <2>3. CASE expected # None /\ expected.action = act[t]
      <3>1. FlagOnMatch(act[t]) = Flag(expected.seq) /\ entries \in Seq(Entry)
        BY <2>3 DEF FlagOnMatch, TypeOK
      <3>2. entries'[i].undone => entries[j].undone \/ entries[j].seq = expected.seq
        BY <1>4, <3>1, FlagMarks
      <3> QED
        BY <2>1, <2>2, <2>3, <3>2
    <2>4. CASE ~(expected # None /\ expected.action = act[t])
      BY <1>4, <2>1, <2>2, <2>4 DEF FlagOnMatch
    <2> QED
      BY <2>3, <2>4
  <1> QED
    BY <1>3, <1>4

LEMMA ArmedStep ==
  ASSUME TypeOK, HandsFull, RetainedAreTheNewest, ArmedOK, [Next]_vars
  PROVE  ArmedOK'
  <1> USE JournalAssumption DEF JournalAssumption
  <1>n. nextSeq \in Nat /\ entries \in Seq(Entry) /\ Len(entries) \in Nat
    BY DEF TypeOK
  <1>1. CASE UNCHANGED <<entries, nextSeq, expected>> /\ undoOf' \in {None, undoOf}
    BY <1>1 DEF ArmedOK
  <1>2. ASSUME NEW t \in Threads, Record(t), gateRun[t], ~locked PROVE ArmedOK'
    <2>1. nextSeq' = nextSeq + 1 /\ expected' \in {None, expected} /\ undoOf' = undoOf
      BY <1>2 DEF Record
    <2>2. ASSUME NEW i \in 1 .. Len(entries')
          PROVE  \/ entries'[i].seq = nextSeq
                 \/ \E j \in 1 .. Len(entries) :
                      /\ entries'[i].seq = entries[j].seq
                      /\ entries'[i].action = entries[j].action
      <3>1. NewEntry(t).seq = nextSeq
        BY DEF NewEntry
      <3> QED
        BY <1>2, <3>1, RecordMarks
    <2>3. /\ expected # None => expected.seq \in Nat
          /\ undoOf # None => undoOf.seq \in Nat
      BY DEF TypeOK, Entry
    <2>4. expected' # None =>
            /\ expected'.seq < nextSeq'
            /\ \A i \in 1 .. Len(entries') : entries'[i].seq = expected'.seq
                 => expected'.action = Inverse[entries'[i].action]
      BY <1>n, <2>1, <2>2, <2>3 DEF ArmedOK
    <2>5. undoOf' # None =>
            /\ undoOf'.seq < nextSeq'
            /\ \A i \in 1 .. Len(entries') : entries'[i].seq = undoOf'.seq
                 => undoOf'.action = entries'[i].action
      BY <1>n, <2>1, <2>2, <2>3 DEF ArmedOK
    <2> QED
      BY <2>4, <2>5 DEF ArmedOK
  <1>3. CASE PrepareUndo
    <2> DEFINE last == entries[Len(entries)]
    <2>1. /\ expected' = [seq |-> last.seq, action |-> Inverse[last.action]]
          /\ undoOf' = last
          /\ UNCHANGED <<entries, nextSeq>>
          /\ Len(entries) \in 1 .. Len(entries)
      BY <1>n, <1>3 DEF PrepareUndo
    <2>2. \A i \in 1 .. Len(entries) : entries[i].seq = nextSeq - Len(entries) + i - 1
      BY <1>n DEF RetainedAreTheNewest
    <2>3. last.seq < nextSeq
      <3>1. last.seq = nextSeq - Len(entries) + Len(entries) - 1
        BY <2>1, <2>2
      <3> QED
        BY <1>n, <3>1
    <2>4. \A i \in 1 .. Len(entries) : entries[i].seq = last.seq => entries[i] = last
      <3>1. ASSUME NEW i \in 1 .. Len(entries), entries[i].seq = last.seq
            PROVE  i = Len(entries)
        BY <1>n, <2>1, <2>2, <3>1
      <3> QED
        BY <3>1
    <2> HIDE DEF last
    <2> QED
      BY <2>1, <2>3, <2>4 DEF ArmedOK
  <1>4. CASE UndoReply /\ ExecutedDirectly /\ act[Voice] \in Ungated
    <2>1. expected' = None /\ undoOf' = None
      BY <1>4 DEF UndoReply
    <2> QED
      BY <2>1 DEF ArmedOK
  <1> QED
    BY <1>1, <1>2, <1>3, <1>4, LedgerSteps

LEMMA UndoneStep ==
  ASSUME TypeOK, HandsFull, RetainedAreTheNewest, UndoOK, GateOK, ArmedOK,
         UndoneHasInverse, [Next]_vars
  PROVE  UndoneHasInverse'
  <1> USE JournalAssumption DEF JournalAssumption
  <1>n. entries \in Seq(Entry) /\ DOMAIN entries = 1 .. Len(entries)
    BY DEF TypeOK
  <1>h. Happened \subseteq Happened'
    BY HappenedStays
  <1>u. \A i \in 1 .. Len(entries) :
          entries[i].undone => Inverse[entries[i].action] \in Happened
    BY <1>n DEF UndoneHasInverse, Happened
  <1> SUFFICES ASSUME NEW i \in DOMAIN entries', entries'[i].undone
               PROVE  Inverse[entries'[i].action] \in Happened'
    BY DEF UndoneHasInverse, Happened
  <1>1. CASE entries' = entries
    BY <1>1, <1>h, <1>n, <1>u
  <1>2. ASSUME NEW t \in Threads, Record(t), gateRun[t], ~locked
        PROVE  Inverse[entries'[i].action] \in Happened'
    <2>1. i \in 1 .. Len(entries')
      BY TypeStep DEF TypeOK
    <2>2. act[t] \in Happened
      BY <1>2 DEF Record, GateOK
    <2>3. ~NewEntry(t).undone
      BY DEF NewEntry
    <2>4. PICK j \in 1 .. Len(entries) :
              /\ entries'[i].action = entries[j].action
              /\ \/ entries[j].undone
                 \/ /\ expected # None /\ entries[j].seq = expected.seq
                    /\ expected.action = act[t]
      BY <1>2, <2>1, <2>3, RecordMarks
    <2> QED
      BY <1>h, <1>u, <2>2, <2>4 DEF ArmedOK
  <1>3. CASE UndoReply /\ ExecutedDirectly /\ act[Voice] \in Ungated
    <2>1. /\ entries' = Flag(undoOf.seq) /\ undoOf # None /\ done' = done
          /\ Reversed(undoOf)
      BY <1>3 DEF UndoReply, HandsFull, UndoOK, ExecutedDirectly
    <2>2. i \in 1 .. Len(entries) /\ entries'[i].action = entries[i].action
      BY <1>n, <2>1, FlagKeepsLedger
    <2>3. entries[i].undone \/ entries[i].seq = undoOf.seq
      BY <1>n, <2>1, <2>2, FlagMarks
    <2>4. Inverse[undoOf.action] \in Happened
      <3>1. undoOf.at \in Nat /\ done \in Seq(Actions)
        BY <2>1 DEF TypeOK, Entry
      <3> QED
        BY <2>1, <3>1 DEF Reversed, Happened
    <2> QED
      BY <1>h, <1>u, <2>1, <2>2, <2>3, <2>4 DEF ArmedOK
  <1>4. CASE PrepareUndo
    BY <1>1, <1>4 DEF PrepareUndo
  <1> QED
    BY <1>1, <1>2, <1>3, <1>4, LedgerSteps

-----------------------------------------------------------------------------
(* The theorems. *)

IInv ==
  /\ TypeOK /\ HandsFull /\ RetainedAreTheNewest
  /\ PastOK /\ UndoOK /\ UngatedClaimHonest

LEMMA InitIInv == Init => IInv
  <1> SUFFICES ASSUME Init PROVE IInv
    OBVIOUS
  <1> USE JournalAssumption DEF JournalAssumption
  <1>1. TypeOK /\ HandsFull
    BY InitTypeOK, InitHandsFull
  <1>2. RetainedAreTheNewest
    BY DEF Init, RetainedAreTheNewest
  <1>3. PastOK
    BY DEF Init, PastOK
  <1>4. UndoOK /\ UngatedClaimHonest
    BY DEF Init, UndoOK, UngatedClaimHonest, Threads
  <1> QED
    BY <1>1, <1>2, <1>3, <1>4 DEF IInv

LEMMA NextIInv == IInv /\ [Next]_vars => IInv'
  BY TypeStep, HandsFullStep, RetainedStep, PastStep, UndoStep, ClaimStep
  DEF IInv

LEMMA Invariant == Spec => []IInv
  BY InitIInv, NextIInv, PTL DEF Spec

(* Every variable of the journal keeps its type. *)
THEOREM TypeCorrect == Spec => []TypeOK
  BY Invariant, PTL DEF IInv

(* record_at evicts from the old end: the ledger is always the newest        *)
(* executions of the session, in order and without a gap.                    *)
THEOREM RetainedAreTheNewestHolds == Spec => []RetainedAreTheNewest
  BY Invariant, PTL DEF IInv

(* inverse_confirmed: "Undone." is said of an inverse that needs no gate     *)
(* only when it took effect after the action.                                *)
THEOREM UngatedClaimHonestHolds == Spec => []UngatedClaimHonest
  BY Invariant, PTL DEF IInv

(* record_at and mark_undone: with at most one flip of the gate, an entry is *)
(* marked undone only when its own inverse happened, whatever is armed,      *)
(* parked, refused, evicted and executed in between.                         *)
THEOREM UndoneHasInverseHolds ==
  ASSUME MaxFlips <= 1
  PROVE  Spec => []UndoneHasInverse
  <1> DEFINE Marked == GateOK /\ ArmedOK /\ UndoneHasInverse
  <1>1. Init => Marked
    BY DEF Init, GateOK, ArmedOK, UndoneHasInverse, Threads
  <1>2. IInv /\ Marked /\ [Next]_vars => Marked'
    BY GateStep, ArmedStep, UndoneStep DEF IInv
  <1>3. Marked => UndoneHasInverse
    OBVIOUS
  <1> HIDE DEF Marked
  <1> QED
    BY <1>1, <1>2, <1>3, Invariant, PTL DEF Spec
=============================================================================
