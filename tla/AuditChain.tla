---------------------------- MODULE AuditChain ----------------------------
(***************************************************************************)
(* The audit log (audit.rs): hash-chained rows in a database of their own, *)
(* a retention that deletes the oldest, and the external anchor, the head  *)
(* of the chain as last witnessed in the Keychain.  Rows are appended      *)
(* under one lock by whoever takes a decision; the forensic captures of    *)
(* triage.rs verify and witness the head while others append; the start of *)
(* the daemon does so before anything else runs.                           *)
(*                                                                         *)
(* A hash stands for what it was computed from: the n-th row ever written  *)
(* has hash n, and nothing else has it.                                    *)
(***************************************************************************)
EXTENDS Integers, Sequences, SequencesExt

CONSTANTS
  Captures,    \* the forensic captures
  Cap,         \* max_entries
  None,
  MaxRows,     \* bound: rows appended
  MaxCrashes,  \* bound: ends of the process
  MaxDamage    \* bound: faults of the disk

Genesis == 0
Hashes  == 1 .. MaxRows
Row     == [seq : Nat \ {0}, prev : Hashes \cup {Genesis}, hash : Hashes,
            ok : BOOLEAN]
Witness == [seq : Nat \ {0}, hash : Hashes]

ASSUME AuditAssumption ==
  /\ Cap \in Nat \ {0}
  /\ MaxRows \in Nat /\ MaxCrashes \in Nat /\ MaxDamage \in Nat
  /\ None \notin Witness /\ None \notin {"match", "extended", "mismatch"}

VARIABLES
  log,         \* the rows, by seq; ok: does its hash recompute?
  born,        \* every row ever written, in that order
  anchor,      \* the Keychain's witness, or None
  up,          \* is the daemon running?
  verdict,     \* the verdict of the last start
  pc, mark, head,   \* per capture: where it is, the witness and head it read
  prior,       \* per capture the verdict before it, until it is in the bundle
  backup,      \* an older copy of the database file
  crashes, damage

disk     == <<log, born, anchor, backup, damage>>
captures == <<pc, mark, head, prior>>
vars     == <<disk, up, verdict, captures, crashes>>

-----------------------------------------------------------------------------
(* append_raw: the tail, the insert and the prune under one lock.            *)

\* Mutant: the sequence number is the number of rows.
NextRowByCount ==
  [seq |-> Len(log) + 1,
   prev |-> IF log = <<>> THEN Genesis ELSE Last(log).hash,
   hash |-> Len(born) + 1, ok |-> TRUE]

NextRow ==
  [seq |-> IF log = <<>> THEN 1 ELSE Last(log).seq + 1,
   prev |-> IF log = <<>> THEN Genesis ELSE Last(log).hash,
   hash |-> Len(born) + 1, ok |-> TRUE]

\* prune_oldest deletes what is older than the newest Cap rows, nothing else.
Prune(s) == IF Len(s) > Cap THEN SubSeq(s, Len(s) - Cap + 1, Len(s)) ELSE s

AppendRaw ==
  /\ Len(born) < MaxRows
  /\ log' = Prune(Append(log, NextRow))
  /\ born' = Append(born, NextRow)

Record ==
  /\ up
  /\ AppendRaw
  /\ UNCHANGED <<anchor, up, verdict, captures, backup, crashes, damage>>

-----------------------------------------------------------------------------
(* verify_entries and verify_against_anchor.                                 *)

\* Each row recomputes, follows its predecessor and links to it; the first one
\* may link to a row that was pruned.
Verifies(s) ==
  \A i \in DOMAIN s :
    /\ s[i].ok
    /\ i > 1 => s[i].seq = s[i - 1].seq + 1 /\ s[i].prev = s[i - 1].hash

HashAt(q) == {log[i].hash : i \in {j \in DOMAIN log : log[j].seq = q}}

\* Mutant: the witnessed row is not looked up, the chain only has to be longer.
VerdictBySeq(a, h) ==
  IF h = None THEN "mismatch"
  ELSE IF a = h THEN "match"
  ELSE IF a.seq <= h.seq THEN "extended" ELSE "mismatch"

\* Mutant: a witnessed row that is gone was tampered with.
VerdictUnpruned(a, h) ==
  IF h = None THEN "mismatch"
  ELSE IF a = h THEN "match"
  ELSE IF a.hash \in HashAt(a.seq) /\ a.seq <= h.seq THEN "extended"
  ELSE "mismatch"

\* Witness a against head h and, for the row of a's seq, the log as it is now.
Verdict(a, h) ==
  IF h = None THEN "mismatch"
  ELSE IF a = h THEN "match"
  ELSE IF a.hash \in HashAt(a.seq) /\ a.seq <= h.seq THEN "extended"
  ELSE IF HashAt(a.seq) = {} /\ a.seq < h.seq THEN "extended"
  ELSE "mismatch"

ChainHead == IF log = <<>> THEN None ELSE [seq |-> Last(log).seq, hash |-> Last(log).hash]

-----------------------------------------------------------------------------
(* triage::capture.                                                          *)

Goto(t, label) == pc' = [pc EXCEPT ![t] = label]

\* A local of a capture is not read again, or never was.
Drop(local, t) == [local EXCEPT ![t] = None]

\* The Keychain answers, or not, which reads as no anchor.
ReadAnchor(t) ==
  /\ up /\ pc[t] = "idle"
  /\ \/ /\ anchor # None
        /\ mark' = [mark EXCEPT ![t] = anchor] /\ Goto(t, "head")
     \/ /\ UNCHANGED mark /\ Goto(t, "gather")
  /\ UNCHANGED <<disk, up, verdict, head, prior, crashes>>

ReadHead(t) ==
  /\ up /\ pc[t] = "head"
  /\ head' = [head EXCEPT ![t] = ChainHead]
  /\ Goto(t, "at")
  /\ UNCHANGED <<disk, up, verdict, mark, prior, crashes>>

ReadAt(t) ==
  /\ up /\ pc[t] = "at"
  /\ prior' = [prior EXCEPT ![t] = Verdict(mark[t], head[t])]
  /\ mark' = Drop(mark, t) /\ head' = Drop(head, t)
  /\ Goto(t, "gather")
  /\ UNCHANGED <<disk, up, verdict, crashes>>

\* The bundle's digest is recorded; when that fails the head is witnessed all
\* the same, and when the bundle could not be written nothing follows.
RecordEvidence(t) ==
  /\ up /\ pc[t] = "gather"
  /\ \/ (AppendRaw \/ UNCHANGED <<log, born>>) /\ Goto(t, "witness")
     \/ UNCHANGED <<log, born>> /\ Goto(t, "idle")
  /\ prior' = Drop(prior, t)
  /\ UNCHANGED <<anchor, up, verdict, mark, head, backup, crashes, damage>>

\* anchor_to: the head is read and then written, or there is none to write.
WitnessHead(t) ==
  /\ up /\ pc[t] = "witness"
  /\ head' = [head EXCEPT ![t] = ChainHead]
  /\ Goto(t, IF log = <<>> THEN "idle" ELSE "write")
  /\ UNCHANGED <<disk, up, verdict, mark, prior, crashes>>

WriteAnchor(t) ==
  /\ up /\ pc[t] = "write"
  /\ anchor' \in {anchor, head[t]}
  /\ head' = Drop(head, t)
  /\ Goto(t, "idle")
  /\ UNCHANGED <<log, born, up, verdict, mark, prior, backup, crashes, damage>>

-----------------------------------------------------------------------------
(* The process and the disk.                                                 *)

\* The process ends, perhaps between an insert and its prune.
Crash ==
  /\ up /\ crashes < MaxCrashes
  /\ up' = FALSE /\ crashes' = crashes + 1
  /\ \/ UNCHANGED <<log, born>>
     \/ /\ Len(born) < MaxRows
        /\ log' = Append(log, NextRow) /\ born' = Append(born, NextRow)
  /\ pc' = [t \in Captures |-> "idle"]
  /\ mark' = [t \in Captures |-> None] /\ head' = mark' /\ prior' = mark'
  /\ UNCHANGED <<anchor, verdict, backup, damage>>

\* verify_and_reanchor_on_start: an unreadable Keychain is no anchor, and a
\* mismatch leaves the witness alone.
Start ==
  /\ ~up
  /\ up' = TRUE
  /\ \E a \in {anchor, None} :
       verdict' = IF a = None THEN None ELSE Verdict(a, ChainHead)
  /\ \/ /\ verdict' # "mismatch" /\ log # <<>>
        /\ anchor' = ChainHead
     \/ UNCHANGED anchor
  /\ UNCHANGED <<log, born, captures, backup, crashes, damage>>

\* A copy of the database file is made, and put back while the daemon is down.
Backup ==
  /\ backup' = log
  /\ UNCHANGED <<log, born, anchor, up, verdict, captures, crashes, damage>>

Restore ==
  /\ ~up /\ damage < MaxDamage
  /\ log' = backup /\ damage' = damage + 1
  /\ UNCHANGED <<born, anchor, up, verdict, captures, backup, crashes>>

\* A row is damaged or lost.
Decay ==
  /\ ~up /\ damage < MaxDamage
  /\ \E i \in DOMAIN log :
       log' \in {[log EXCEPT ![i].ok = FALSE], RemoveAt(log, i)}
  /\ damage' = damage + 1
  /\ UNCHANGED <<born, anchor, up, verdict, captures, backup, crashes>>

-----------------------------------------------------------------------------
Init ==
  /\ log = <<>> /\ born = <<>> /\ anchor = None
  /\ up = FALSE /\ verdict = None
  /\ pc = [t \in Captures |-> "idle"]
  /\ mark = [t \in Captures |-> None] /\ head = [t \in Captures |-> None]
  /\ prior = [t \in Captures |-> None]
  /\ backup = <<>> /\ crashes = 0 /\ damage = 0

Next ==
  \/ Record \/ Crash \/ Start \/ Backup \/ Restore \/ Decay
  \/ \E t \in Captures :
       \/ ReadAnchor(t) \/ ReadHead(t) \/ ReadAt(t)
       \/ RecordEvidence(t) \/ WitnessHead(t) \/ WriteAnchor(t)

Spec == Init /\ [][Next]_vars

-----------------------------------------------------------------------------
\* Every variable keeps its type; retention is exact but for the rows a crash
\* left behind.
TypeOK ==
  /\ log \in Seq(Row) /\ Len(log) <= Cap + crashes
  /\ born \in Seq(Row) /\ Len(born) <= MaxRows
  /\ anchor \in Witness \cup {None}
  /\ up \in BOOLEAN
  /\ verdict \in {"match", "extended", "mismatch", None}
  /\ pc \in [Captures -> {"idle", "head", "at", "gather", "witness", "write"}]
  /\ mark \in [Captures -> Witness \cup {None}]
  /\ head \in [Captures -> Witness \cup {None}]
  /\ prior \in [Captures -> {"match", "extended", "mismatch", None}]
  /\ backup \in Seq(Row) /\ Len(backup) <= Cap + crashes
  /\ crashes \in 0 .. MaxCrashes /\ damage \in 0 .. MaxDamage

\* prune_oldest: the daemon's own housekeeping, its crashes included, never
\* breaks the chain.
HousekeepingVerifies == damage = 0 => Verifies(log)

\* verify_against_anchor: on a disk without faults no start and no capture,
\* whatever is appended and pruned under it, reports a mismatch.
NoFalseAlarm ==
  damage = 0 => verdict # "mismatch" /\ \A t \in Captures : prior[t] # "mismatch"

\* The rows up to a witness that are in the log, and those its hash folds in.
Under(a) == {log[i] : i \in {j \in DOMAIN log : log[j].seq <= a.seq}}
Lineage[h \in 0 .. Len(born)] ==
  IF h = Genesis THEN {} ELSE {born[h]} \cup Lineage[born[h].prev]

\* "Pinning the head pins the whole chain": when the chain verifies and the
\* anchor does not object, the rows up to the anchor are rows its witnessed hash
\* was computed from, whatever copy was put back, whatever was appended to it
\* and whatever rows were damaged or lost.
BenignMeansUnchanged ==
  anchor # None /\ Verifies(log) /\ Verdict(anchor, ChainHead) # "mismatch" =>
    Under(anchor) \subseteq Lineage[anchor.hash]
=============================================================================
