------------------------ MODULE AuditChain_proofs ------------------------
(***************************************************************************)
(* Theorems about the audit log, for any captures, cap and bounds: type    *)
(* correctness, that the daemon's own appends, prunes and crashes keep the *)
(* chain verifying, that on a disk without faults no check of it against   *)
(* the external anchor reports a mismatch, and that on any disk a chain    *)
(* that verifies and does not contradict its anchor is unchanged up to it. *)
(***************************************************************************)
EXTENDS AuditChain, SequenceTheorems, FiniteSetTheorems, TLAPS

-----------------------------------------------------------------------------
(* append_raw and prune_oldest. *)

LEMMA PruneShape ==
  ASSUME NEW s \in Seq(Row)
  PROVE  /\ Prune(s) \in Seq(Row)
         /\ Len(Prune(s)) = IF Len(s) > Cap THEN Cap ELSE Len(s)
         /\ \A i \in 1 .. Len(Prune(s)) :
              Prune(s)[i] = s[Len(s) - Len(Prune(s)) + i]
  <1>1. Cap \in Nat \ {0} /\ Len(s) \in Nat
    BY AuditAssumption DEF AuditAssumption
  <1>2. CASE Len(s) > Cap
    <2>1. \A i \in Len(s) - Cap + 1 .. Len(s) : s[i] \in Row
      BY <1>1, <1>2
    <2>2. /\ Prune(s) \in Seq(Row) /\ Len(Prune(s)) = Cap
          /\ \A i \in 1 .. Cap : Prune(s)[i] = s[Len(s) - Cap + 1 + i - 1]
      BY <1>1, <1>2, <2>1, SubSeqProperties DEF Prune
    <2> QED
      BY <1>1, <1>2, <2>2
  <1>3. CASE ~(Len(s) > Cap)
    BY <1>1, <1>3 DEF Prune
  <1> QED
    BY <1>2, <1>3

LEMMA NextRowShape ==
  ASSUME log \in Seq(Row), born \in Seq(Row), Len(born) < MaxRows
  PROVE  /\ NextRow \in Row
         /\ Append(born, NextRow) \in Seq(Row)
         /\ Len(Append(born, NextRow)) = Len(born) + 1
         /\ Append(log, NextRow) \in Seq(Row)
         /\ Len(Append(log, NextRow)) = Len(log) + 1
  <1>1. MaxRows \in Nat /\ Len(born) \in Nat /\ Len(log) \in Nat
    BY AuditAssumption DEF AuditAssumption
  <1>2. Len(born) + 1 \in Hashes
    BY <1>1 DEF Hashes
  <1>3. CASE log = <<>>
    BY <1>2, <1>3 DEF NextRow, Row
  <1>4. CASE log # <<>>
    <2>1. Len(log) \in 1 .. Len(log)
      BY <1>1, <1>4
    <2>2. Last(log) \in Row
      BY <2>1 DEF Last
    <2>3. Last(log).seq \in Nat \ {0} /\ Last(log).hash \in Hashes
      BY <2>2 DEF Row
    <2>4. NextRow = [seq |-> Last(log).seq + 1, prev |-> Last(log).hash,
                     hash |-> Len(born) + 1, ok |-> TRUE]
      BY <1>4 DEF NextRow
    <2> QED
      BY <1>2, <2>3, <2>4 DEF Row
  <1>5. NextRow \in Row
    BY <1>3, <1>4
  <1> QED
    BY <1>5

LEMMA ChainHeadShape ==
  ASSUME log \in Seq(Row)
  PROVE  /\ ChainHead \in Witness \cup {None}
         /\ log # <<>> => ChainHead \in Witness
  <1>1. CASE log # <<>>
    <2>1. Last(log) \in Row
      <3>1. Len(log) \in 1 .. Len(log)
        BY <1>1
      <3> QED
        BY <3>1 DEF Last
    <2> QED
      BY <1>1, <2>1 DEF ChainHead, Row, Witness
  <1> QED
    BY <1>1 DEF ChainHead

LEMMA RemoveAtShape ==
  ASSUME NEW s \in Seq(Row), NEW i \in 1 .. Len(s)
  PROVE  RemoveAt(s, i) \in Seq(Row) /\ Len(RemoveAt(s, i)) = Len(s) - 1
  <1>1. Len(s) \in Nat
    OBVIOUS
  <1>2. SubSeq(s, 1, i - 1) \in Seq(Row) /\ Len(SubSeq(s, 1, i - 1)) = i - 1
    <2>1. \A j \in 1 .. i - 1 : s[j] \in Row
      BY <1>1
    <2> QED
      BY <1>1, <2>1, SubSeqProperties
  <1>3. /\ SubSeq(s, i + 1, Len(s)) \in Seq(Row)
        /\ Len(SubSeq(s, i + 1, Len(s))) = Len(s) - i
    <2>1. \A j \in i + 1 .. Len(s) : s[j] \in Row
      BY <1>1
    <2>2. PICK m \in Int : m = i + 1
      BY <1>1
    <2>3. \A j \in m .. Len(s) : s[j] \in Row
      BY <2>1, <2>2
    <2>4. /\ SubSeq(s, m, Len(s)) \in Seq(Row)
          /\ Len(SubSeq(s, m, Len(s))) = IF m <= Len(s) THEN Len(s) - m + 1 ELSE 0
      BY <1>1, <2>3, SubSeqProperties
    <2>5. (IF m <= Len(s) THEN Len(s) - m + 1 ELSE 0) = Len(s) - i
      BY <1>1, <2>2
    <2>6. SubSeq(s, i + 1, Len(s)) = SubSeq(s, m, Len(s))
      BY <2>2
    <2> QED
      BY <2>4, <2>5, <2>6
  <1>4. PICK p \in Seq(Row) : p = SubSeq(s, 1, i - 1)
    BY <1>2
  <1>5. PICK q \in Seq(Row) : q = SubSeq(s, i + 1, Len(s))
    BY <1>3
  <1>6. p \o q \in Seq(Row) /\ Len(p \o q) = Len(p) + Len(q)
    BY ConcatProperties
  <1>7. Len(p) = i - 1 /\ Len(q) = Len(s) - i
    BY <1>2, <1>3, <1>4, <1>5
  <1>8. RemoveAt(s, i) = p \o q
    BY <1>4, <1>5 DEF RemoveAt
  <1>9. (i - 1) + (Len(s) - i) = Len(s) - 1
    BY <1>1
  <1>10. Len(p \o q) = Len(s) - 1
    BY <1>6, <1>7, <1>9
  <1> QED
    BY <1>6, <1>8, <1>10, Zenon
-----------------------------------------------------------------------------
(* Type correctness. *)

\* The log and its copy: rows, no more of them than the cap and the crashes.
LogsOK ==
  /\ log \in Seq(Row) /\ Len(log) <= Cap + crashes
  /\ born \in Seq(Row) /\ Len(born) <= MaxRows
  /\ backup \in Seq(Row) /\ Len(backup) <= Cap + crashes
  /\ crashes \in 0 .. MaxCrashes /\ damage \in 0 .. MaxDamage

\* What was read from it.
ReadingsOK ==
  /\ anchor \in Witness \cup {None}
  /\ up \in BOOLEAN
  /\ verdict \in {"match", "extended", "mismatch", None}
  /\ pc \in [Captures -> {"idle", "head", "at", "gather", "witness", "write"}]
  /\ mark \in [Captures -> Witness \cup {None}]
  /\ head \in [Captures -> Witness \cup {None}]
  /\ prior \in [Captures -> {"match", "extended", "mismatch", None}]

LEMMA TypeOKParts == TypeOK <=> LogsOK /\ ReadingsOK
  BY DEF TypeOK, LogsOK, ReadingsOK

LEMMA AppendRawLogs ==
  ASSUME LogsOK, AppendRaw, UNCHANGED <<backup, crashes, damage>>
  PROVE  LogsOK'
  <1> USE AuditAssumption DEF AuditAssumption
  <1>1. Len(log) \in Nat /\ Len(born) \in Nat /\ Len(born) < MaxRows
    BY DEF LogsOK, AppendRaw
  <1>2. /\ born' \in Seq(Row) /\ Len(born') = Len(born) + 1
        /\ Append(log, NextRow) \in Seq(Row)
    BY <1>1, NextRowShape DEF LogsOK, AppendRaw
  <1>3. log' \in Seq(Row) /\ Len(log') <= Cap
    <2>1. PICK s \in Seq(Row) : s = Append(log, NextRow)
      BY <1>2
    <2>2. Prune(s) \in Seq(Row) /\ Len(Prune(s)) = IF Len(s) > Cap THEN Cap ELSE Len(s)
      BY PruneShape
    <2>3. log' = Prune(s) /\ Len(s) \in Nat
      BY <2>1 DEF AppendRaw
    <2> QED
      BY <2>2, <2>3
  <1> QED
    BY <1>1, <1>2, <1>3 DEF LogsOK

LEMMA LogsStep ==
  ASSUME LogsOK, [Next]_vars
  PROVE  LogsOK'
  <1> USE AuditAssumption DEF AuditAssumption
  <1>1. CASE AppendRaw /\ UNCHANGED <<backup, crashes, damage>>
    BY <1>1, AppendRawLogs
  <1>2. CASE Crash
    <2>1. /\ crashes' = crashes + 1 /\ crashes' \in 0 .. MaxCrashes
          /\ UNCHANGED <<backup, damage>>
      BY <1>2 DEF Crash, LogsOK
    <2>2. CASE UNCHANGED <<log, born>>
      BY <2>1, <2>2 DEF LogsOK
    <2>3. CASE /\ Len(born) < MaxRows
               /\ log' = Append(log, NextRow) /\ born' = Append(born, NextRow)
      <3>1. /\ log' \in Seq(Row) /\ Len(log') = Len(log) + 1
            /\ born' \in Seq(Row) /\ Len(born') = Len(born) + 1
        BY <2>3, NextRowShape DEF LogsOK
      <3>2. Len(log) \in Nat /\ Len(born) \in Nat /\ Len(backup) \in Nat
        BY DEF LogsOK
      <3> QED
        BY <2>1, <2>3, <3>1, <3>2 DEF LogsOK
    <2> QED
      BY <1>2, <2>2, <2>3 DEF Crash
  <1>3. CASE Backup
    BY <1>3 DEF Backup, LogsOK
  <1>4. CASE Restore
    BY <1>4 DEF Restore, LogsOK
  <1>5. CASE Decay
    <2>1. /\ damage' \in 0 .. MaxDamage
          /\ UNCHANGED <<born, backup, crashes>>
      BY <1>5 DEF Decay, LogsOK
    <2>2. PICK i \in DOMAIN log :
            log' \in {[log EXCEPT ![i].ok = FALSE], RemoveAt(log, i)}
      BY <1>5 DEF Decay
    <2>3. i \in 1 .. Len(log) /\ Len(log) \in Nat
      BY <2>2 DEF LogsOK
    <2>4. log' \in Seq(Row) /\ Len(log') <= Len(log)
      <3>1. CASE log' = [log EXCEPT ![i].ok = FALSE]
        <4>1. log[i] \in Row
          BY <2>3 DEF LogsOK
        <4>2. [log[i] EXCEPT !.ok = FALSE] \in Row
          BY <4>1 DEF Row
        <4>3. log' = [log EXCEPT ![i] = [log[i] EXCEPT !.ok = FALSE]]
          BY <3>1
        <4> QED
          BY <2>3, <4>2, <4>3, ExceptSeq DEF LogsOK
      <3>2. CASE log' = RemoveAt(log, i)
        BY <2>3, <3>2, RemoveAtShape DEF LogsOK
      <3> QED
        BY <2>2, <3>1, <3>2
    <2>5. Len(log') \in Nat
      BY <2>4
    <2> QED
      BY <2>1, <2>3, <2>4, <2>5 DEF LogsOK
  <1>6. CASE UNCHANGED <<log, born, backup, crashes, damage>>
    BY <1>6 DEF LogsOK
  <1> QED
    BY <1>1, <1>2, <1>3, <1>4, <1>5, <1>6
    DEF Next, vars, disk, captures, Record, Start, ReadAnchor, ReadHead,
        ReadAt, RecordEvidence, WitnessHead, WriteAnchor

LEMMA VerdictType ==
  ASSUME NEW a, NEW h
  PROVE  Verdict(a, h) \in {"match", "extended", "mismatch"}
  BY DEF Verdict

LEMMA ReadingsStep ==
  ASSUME LogsOK, ReadingsOK, [Next]_vars
  PROVE  ReadingsOK'
  <1>1. ChainHead \in Witness \cup {None} /\ (log # <<>> => ChainHead \in Witness)
    BY ChainHeadShape DEF LogsOK
  <1>2. CASE Start
    <2>1. verdict' \in {"match", "extended", "mismatch", None}
      BY <1>2, VerdictType DEF Start
    <2> QED
      BY <1>1, <1>2, <2>1 DEF Start, ReadingsOK, captures
  <1>3. CASE Crash
    BY <1>3 DEF Crash, ReadingsOK
  <1>4. CASE Record \/ Backup \/ Restore \/ Decay
    BY <1>4 DEF Record, Backup, Restore, Decay, ReadingsOK, captures
  <1>5. ASSUME NEW t \in Captures, ReadAnchor(t)
        PROVE  ReadingsOK'
    BY <1>5 DEF ReadAnchor, Goto, ReadingsOK, disk
  <1>6. ASSUME NEW t \in Captures, ReadHead(t)
        PROVE  ReadingsOK'
    BY <1>1, <1>6 DEF ReadHead, Goto, ReadingsOK, disk
  <1>7. ASSUME NEW t \in Captures, ReadAt(t)
        PROVE  ReadingsOK'
    <2>1. Verdict(mark[t], head[t]) \in {"match", "extended", "mismatch"}
      BY VerdictType
    <2> QED
      BY <1>7, <2>1 DEF ReadAt, Goto, Drop, ReadingsOK, disk
  <1>8. ASSUME NEW t \in Captures, RecordEvidence(t)
        PROVE  ReadingsOK'
    BY <1>8 DEF RecordEvidence, Goto, Drop, ReadingsOK
  <1>9. ASSUME NEW t \in Captures, WitnessHead(t)
        PROVE  ReadingsOK'
    BY <1>1, <1>9 DEF WitnessHead, Goto, ReadingsOK, disk
  <1>10. ASSUME NEW t \in Captures, WriteAnchor(t)
         PROVE  ReadingsOK'
    BY <1>10 DEF WriteAnchor, Goto, Drop, ReadingsOK
  <1>11. CASE UNCHANGED vars
    BY <1>11 DEF vars, disk, captures, ReadingsOK
  <1> QED
    BY <1>2, <1>3, <1>4, <1>5, <1>6, <1>7, <1>8, <1>9, <1>10, <1>11 DEF Next

LEMMA InitTyped == Init => LogsOK /\ ReadingsOK
  <1>1. Init => LogsOK
    <2>1. <<>> \in Seq(Row) /\ Len(<<>>) = 0
      OBVIOUS
    <2> QED
      BY <2>1, AuditAssumption DEF AuditAssumption, Init, LogsOK
  <1>2. Init => ReadingsOK
    BY DEF Init, ReadingsOK
  <1> QED
    BY <1>1, <1>2

LEMMA TypedHolds == Spec => [](LogsOK /\ ReadingsOK)
  <1>1. LogsOK /\ ReadingsOK /\ [Next]_vars => (LogsOK /\ ReadingsOK)'
    BY LogsStep, ReadingsStep
  <1> QED
    BY <1>1, InitTyped, PTL DEF Spec

\* audit.rs, triage.rs: every variable keeps its type, and the log is never
\* longer than its cap and one row per crash.
THEOREM TypeCorrect == Spec => []TypeOK
  BY TypedHolds, TypeOKParts, PTL

-----------------------------------------------------------------------------
(* The disk without faults: the log is the end of what was ever written,   *)
(* and a witness is the number of one of the rows written.                 *)

NthRow(n) == [seq |-> n, prev |-> n - 1, hash |-> n, ok |-> TRUE]

Straight(s, n) ==
  /\ Len(s) <= n
  /\ n > 0 => Len(s) > 0
  /\ \A i \in 1 .. Len(s) : s[i] = NthRow(n - Len(s) + i)

SeenWitness(w) == w \in Witness /\ w.seq = w.hash /\ w.seq <= Len(born)

LogStraight == Straight(log, Len(born))
AnchorSeen  == anchor # None => SeenWitness(anchor)
MarkSeen(t) == pc[t] \in {"head", "at"} => SeenWitness(mark[t])
HeadSeen(t) == pc[t] \in {"at", "write"} => SeenWitness(head[t])
MarkBelow(t) == pc[t] = "at" => mark[t].seq <= head[t].seq
CapturesSeen == \A t \in Captures : MarkSeen(t) /\ HeadSeen(t) /\ MarkBelow(t)

Sound ==
  damage = 0 => LogStraight /\ AnchorSeen /\ CapturesSeen /\ NoFalseAlarm

LEMMA NextRowStraight ==
  ASSUME LogsOK, LogStraight, Len(born) < MaxRows
  PROVE  NextRow = NthRow(Len(born) + 1)
  <1>1. Len(born) \in Nat /\ Len(log) \in Nat
    BY DEF LogsOK
  <1>2. CASE log = <<>>
    <2>1. Len(born) = 0
      BY <1>1, <1>2 DEF LogStraight, Straight
    <2> QED
      BY <1>2, <2>1 DEF NextRow, NthRow, Genesis
  <1>3. CASE log # <<>>
    <2>1. Len(log) \in 1 .. Len(log)
      BY <1>1, <1>3 DEF LogsOK
    <2>2. Last(log) = NthRow(Len(born) - Len(log) + Len(log))
      BY <2>1 DEF Last, LogStraight, Straight
    <2>3. Last(log).seq = Len(born) /\ Last(log).hash = Len(born)
      BY <1>1, <2>2 DEF NthRow
    <2>4. NextRow = [seq |-> Len(born) + 1, prev |-> Len(born),
                     hash |-> Len(born) + 1, ok |-> TRUE]
      BY <1>3, <2>3 DEF NextRow
    <2>5. Len(born) + 1 - 1 = Len(born)
      BY <1>1
    <2> QED
      BY <2>4, <2>5 DEF NthRow
  <1> QED
    BY <1>2, <1>3

LEMMA InsertStraight ==
  ASSUME LogsOK, LogStraight, Len(born) < MaxRows
  PROVE  Straight(Append(log, NextRow), Len(born) + 1)
  <1>1. Len(born) \in Nat /\ Len(log) \in Nat /\ log \in Seq(Row)
    BY DEF LogsOK
  <1>2. PICK s \in Seq(Row) : s = Append(log, NextRow)
    BY NextRowShape DEF LogsOK
  <1>3. /\ Len(s) = Len(log) + 1
        /\ \A i \in 1 .. Len(log) : s[i] = log[i]
        /\ s[Len(log) + 1] = NextRow
    BY <1>1, <1>2
  <1>4. \A i \in 1 .. Len(s) : s[i] = NthRow(Len(born) + 1 - Len(s) + i)
    <2> TAKE i \in 1 .. Len(s)
    <2>1. Len(born) + 1 - Len(s) + i = Len(born) - Len(log) + i
      BY <1>1, <1>3
    <2>2. CASE i \in 1 .. Len(log)
      BY <1>3, <2>1, <2>2 DEF LogStraight, Straight
    <2>3. CASE i = Len(log) + 1
      <3>1. Len(born) - Len(log) + i = Len(born) + 1
        BY <1>1, <2>3
      <3> QED
        BY <1>3, <2>1, <2>3, <3>1, NextRowStraight
    <2> QED
      BY <1>1, <1>3, <2>2, <2>3
  <1>5. Len(s) <= Len(born) + 1 /\ Len(s) > 0
    BY <1>1, <1>3 DEF LogStraight, Straight
  <1> QED
    BY <1>2, <1>4, <1>5 DEF Straight

LEMMA PruneStraight ==
  ASSUME NEW s \in Seq(Row), NEW n \in Nat, Straight(s, n)
  PROVE  Straight(Prune(s), n)
  <1>1. PICK r \in Seq(Row) : r = Prune(s)
    BY PruneShape
  <1>2. /\ Len(r) = IF Len(s) > Cap THEN Cap ELSE Len(s)
        /\ \A i \in 1 .. Len(r) : r[i] = s[Len(s) - Len(r) + i]
    BY <1>1, PruneShape
  <1>3. Cap \in Nat \ {0} /\ Len(s) \in Nat /\ Len(r) \in Nat /\ Len(r) <= Len(s)
    BY <1>2, AuditAssumption DEF AuditAssumption
  <1>4. \A i \in 1 .. Len(r) : r[i] = NthRow(n - Len(r) + i)
    <2> TAKE i \in 1 .. Len(r)
    <2>1. PICK j \in 1 .. Len(s) : j = Len(s) - Len(r) + i
      <3>1. Len(s) - Len(r) + i \in 1 .. Len(s)
        BY <1>3
      <3> QED
        BY <3>1
    <2>2. r[i] = NthRow(n - Len(s) + j)
      <3>1. r[i] = s[j]
        BY <1>2, <2>1
      <3>2. s[j] = NthRow(n - Len(s) + j)
        BY DEF Straight
      <3> QED
        BY <3>1, <3>2
    <2>3. n - Len(s) + j = n - Len(r) + i
      BY <1>3, <2>1
    <2> QED
      BY <2>2, <2>3
  <1>5. Len(r) <= n /\ (n > 0 => Len(r) > 0)
    BY <1>2, <1>3 DEF Straight
  <1> QED
    BY <1>1, <1>4, <1>5 DEF Straight

\* A straight log verifies.
LEMMA StraightVerifies ==
  ASSUME NEW s \in Seq(Row), NEW n \in Nat, Straight(s, n)
  PROVE  Verifies(s)
  <1> SUFFICES ASSUME NEW i \in 1 .. Len(s)
               PROVE  /\ s[i].ok
                      /\ i > 1 => /\ s[i].seq = s[i - 1].seq + 1
                                  /\ s[i].prev = s[i - 1].hash
    BY DEF Verifies
  <1>1. Len(s) \in Nat /\ s[i] = NthRow(n - Len(s) + i)
    BY DEF Straight
  <1>2. ASSUME i > 1
        PROVE  s[i].seq = s[i - 1].seq + 1 /\ s[i].prev = s[i - 1].hash
    <2>1. PICK j \in 1 .. Len(s) : j = i - 1
      BY <1>1, <1>2
    <2>2. s[j] = NthRow(n - Len(s) + j)
      BY DEF Straight
    <2>3. n - Len(s) + i = (n - Len(s) + j) + 1 /\ n - Len(s) + i - 1 = n - Len(s) + j
      BY <1>1, <2>1
    <2> QED
      BY <1>1, <2>1, <2>2, <2>3 DEF NthRow
  <1> QED
    BY <1>1, <1>2 DEF NthRow

\* A witness below the head of a straight log is found or was pruned.
LEMMA VerdictBenign ==
  ASSUME LogsOK, LogStraight, NEW a, NEW h,
         SeenWitness(a), SeenWitness(h), a.seq <= h.seq
  PROVE  Verdict(a, h) \in {"match", "extended"}
  <1>1. None \notin Witness
    BY AuditAssumption DEF AuditAssumption
  <1>2. a.seq \in Nat /\ h.seq \in Nat /\ h # None
    BY <1>1 DEF SeenWitness, Witness
  <1>3. CASE a = h
    BY <1>2, <1>3 DEF Verdict
  <1>4. CASE a # h
    <2>1. a.seq < h.seq
      BY <1>2, <1>4 DEF SeenWitness, Witness
    <2>2. ASSUME NEW i \in DOMAIN log, log[i].seq = a.seq
          PROVE  log[i].hash = a.hash
      <3>1. i \in 1 .. Len(log)
        BY DEF LogsOK
      <3>2. log[i] = NthRow(Len(born) - Len(log) + i)
        BY <3>1 DEF LogStraight, Straight
      <3> QED
        BY <2>2, <3>2 DEF NthRow, SeenWitness
    <2>3. HashAt(a.seq) = {} \/ a.hash \in HashAt(a.seq)
      BY <2>2 DEF HashAt
    <2>4. a.seq <= h.seq
      OBVIOUS
    <2> QED
      BY <1>2, <1>4, <2>1, <2>3, <2>4, Zenon DEF Verdict
  <1> QED
    BY <1>3, <1>4

LEMMA HeadStraight ==
  ASSUME LogsOK, LogStraight, Len(born) > 0
  PROVE  /\ log # <<>> /\ SeenWitness(ChainHead)
         /\ ChainHead.seq = Len(born)
  <1>1. Len(born) \in Nat /\ Len(log) \in Nat /\ Len(log) > 0
    BY DEF LogsOK, LogStraight, Straight
  <1>2. log # <<>>
    BY <1>1
  <1>3. Last(log) = NthRow(Len(born) - Len(log) + Len(log))
    BY <1>1 DEF Last, LogStraight, Straight
  <1>4. Last(log).seq = Len(born) /\ Last(log).hash = Len(born)
    BY <1>1, <1>3 DEF NthRow
  <1>5. ChainHead \in Witness
    BY <1>2, ChainHeadShape DEF LogsOK
  <1> QED
    BY <1>1, <1>2, <1>4, <1>5 DEF ChainHead, SeenWitness

-----------------------------------------------------------------------------
(* Every step keeps it so. *)

\* One row is written, pruned or not, or none, unless the disk fails.
LEMMA LogSteps ==
  ASSUME [Next]_vars, damage \in Nat, damage' = 0
  PROVE  /\ damage = 0
         /\ \/ UNCHANGED <<log, born>>
            \/ /\ Len(born) < MaxRows /\ born' = Append(born, NextRow)
               /\ \/ log' = Append(log, NextRow)
                  \/ log' = Prune(Append(log, NextRow))
  <1>1. ~Restore /\ ~Decay
    BY DEF Restore, Decay
  <1> QED
    BY <1>1 DEF Next, vars, disk, captures, Record, Start, Crash, Backup,
       AppendRaw, ReadAnchor, ReadHead, ReadAt, RecordEvidence, WitnessHead,
       WriteAnchor

LEMMA LogStraightStep ==
  ASSUME LogsOK, LogStraight, [Next]_vars, damage' = 0
  PROVE  /\ LogStraight'
         /\ Len(born) \in Nat /\ Len(born') \in Nat /\ Len(born) <= Len(born')
  <1>1. Len(born) \in Nat /\ damage \in Nat
    BY DEF LogsOK
  <1>2. CASE UNCHANGED <<log, born>>
    BY <1>1, <1>2 DEF LogStraight, Straight, NthRow
  <1>3. CASE Len(born) < MaxRows /\ born' = Append(born, NextRow)
    <2>1. /\ Append(log, NextRow) \in Seq(Row)
          /\ Len(born') = Len(born) + 1
      BY <1>3, NextRowShape DEF LogsOK
    <2>2. PICK s \in Seq(Row) : s = Append(log, NextRow)
      BY <2>1
    <2>3. PICK n \in Nat : n = Len(born) + 1
      BY <1>1
    <2>4. Straight(s, n)
      BY <1>3, <2>2, <2>3, InsertStraight
    <2>5. Straight(Prune(s), n)
      BY <2>4, PruneStraight
    <2>6. log' = s \/ log' = Prune(s) \/ UNCHANGED <<log, born>>
      BY <1>1, <2>2, LogSteps
    <2>7. CASE UNCHANGED <<log, born>>
      BY <1>2, <2>7
    <2>8. CASE log' = s \/ log' = Prune(s)
      <3>1. PICK r : r = log'
        OBVIOUS
      <3>2. Straight(r, n)
        BY <2>4, <2>5, <2>8, <3>1
      <3>3. LogStraight' <=> Straight(r, n)
        BY <2>1, <2>3, <3>1 DEF LogStraight, Straight
      <3> QED
        BY <1>1, <2>1, <3>2, <3>3
    <2> QED
      BY <2>6, <2>7, <2>8
  <1> QED
    BY <1>1, <1>2, <1>3, LogSteps

LEMMA SoundStep ==
  ASSUME LogsOK, ReadingsOK, Sound, [Next]_vars
  PROVE  Sound'
  <1> SUFFICES ASSUME damage' = 0
               PROVE  (LogStraight /\ AnchorSeen /\ CapturesSeen /\ NoFalseAlarm)'
    BY DEF Sound
  <1>1. damage = 0
    BY LogSteps DEF LogsOK
  <1>2. LogStraight /\ AnchorSeen /\ CapturesSeen /\ NoFalseAlarm
    BY <1>1 DEF Sound
  <1>3. LogStraight' /\ Len(born) \in Nat /\ Len(born') \in Nat
        /\ Len(born) <= Len(born')
    BY <1>2, LogStraightStep
  <1>4. ASSUME NEW w, SeenWitness(w)
        PROVE  w.seq <= Len(born')
    BY <1>3, <1>4 DEF SeenWitness, Witness
  <1>5. \A t \in Captures : MarkSeen(t) /\ HeadSeen(t) /\ MarkBelow(t)
    BY <1>2 DEF CapturesSeen
  <1>6. None \notin Witness /\ None # "mismatch"
    BY AuditAssumption DEF AuditAssumption
  <1>7. ASSUME NEW t \in Captures,
               pc'[t] = pc[t], mark'[t] = mark[t], head'[t] = head[t]
        PROVE  (MarkSeen(t) /\ HeadSeen(t) /\ MarkBelow(t))'
    <2>1. MarkSeen(t) /\ HeadSeen(t) /\ MarkBelow(t)
      BY <1>5
    <2>2. MarkSeen(t)'
      BY <1>4, <1>7, <2>1 DEF MarkSeen, SeenWitness
    <2>3. HeadSeen(t)'
      BY <1>4, <1>7, <2>1 DEF HeadSeen, SeenWitness
    <2>4. MarkBelow(t)'
      BY <1>7, <2>1 DEF MarkBelow
    <2> QED
      BY <2>2, <2>3, <2>4
  <1>8. ASSUME UNCHANGED anchor
        PROVE  AnchorSeen'
    BY <1>2, <1>4, <1>8 DEF AnchorSeen, SeenWitness
  <1>9. CASE UNCHANGED <<anchor, verdict, captures>>
    <2>1. CapturesSeen'
      BY <1>7, <1>9 DEF CapturesSeen, captures
    <2>2. NoFalseAlarm'
      BY <1>1, <1>2, <1>9 DEF NoFalseAlarm, captures
    <2> QED
      BY <1>3, <1>8, <1>9, <2>1, <2>2
  <1>10. CASE Crash
    <2>1. CapturesSeen'
      BY <1>10 DEF Crash, CapturesSeen, MarkSeen, HeadSeen, MarkBelow
    <2>2. NoFalseAlarm'
      BY <1>1, <1>2, <1>6, <1>10 DEF Crash, NoFalseAlarm
    <2> QED
      BY <1>3, <1>8, <1>10, <2>1, <2>2 DEF Crash
  <1>11. CASE Start
    <2>1. CapturesSeen'
      BY <1>7, <1>11 DEF Start, CapturesSeen, captures
    <2>2. AnchorSeen'
      <3>1. CASE UNCHANGED anchor
        BY <1>8, <3>1
      <3>2. CASE log # <<>> /\ anchor' = ChainHead
        <4>1. Len(born) > 0
          <5>1. Len(log) \in Nat \ {0}
            BY <3>2 DEF LogsOK
          <5> QED
            BY <1>2, <1>3, <5>1 DEF LogStraight, Straight
        <4>2. SeenWitness(ChainHead) /\ UNCHANGED born
          BY <1>2, <1>11, <4>1, HeadStraight DEF Start
        <4> QED
          BY <3>2, <4>2 DEF AnchorSeen, SeenWitness
      <3> QED
        BY <1>11, <3>1, <3>2 DEF Start
    <2>3. verdict' # "mismatch"
      <3>1. PICK a \in {anchor, None} :
              verdict' = IF a = None THEN None ELSE Verdict(a, ChainHead)
        BY <1>11 DEF Start
      <3>2. CASE a = None
        BY <1>6, <3>1, <3>2
      <3>3. CASE a # None
        <4>1. a = anchor /\ SeenWitness(a)
          BY <1>2, <3>1, <3>3 DEF AnchorSeen
        <4>2. a.seq \in Nat \ {0} /\ a.seq <= Len(born)
          BY <4>1 DEF SeenWitness, Witness
        <4>3. SeenWitness(ChainHead) /\ ChainHead.seq = Len(born)
          BY <1>2, <1>3, <4>2, HeadStraight
        <4>4. Verdict(a, ChainHead) \in {"match", "extended"}
          BY <1>2, <4>1, <4>2, <4>3, VerdictBenign
        <4> QED
          BY <3>1, <3>3, <4>4
      <3> QED
        BY <3>2, <3>3
    <2>4. NoFalseAlarm'
      BY <1>1, <1>2, <1>11, <2>3 DEF Start, NoFalseAlarm, captures
    <2> QED
      BY <1>3, <2>1, <2>2, <2>4
  <1>12. ASSUME NEW t \in Captures,
                ReadAnchor(t) \/ ReadHead(t) \/ ReadAt(t) \/ RecordEvidence(t)
                  \/ WitnessHead(t) \/ WriteAnchor(t)
         PROVE  (AnchorSeen /\ CapturesSeen /\ NoFalseAlarm)'
    <2> DEFINE Rest == \A u \in Captures \ {t} :
                         pc'[u] = pc[u] /\ mark'[u] = mark[u] /\ head'[u] = head[u]
    <2>1. Rest
      BY <1>12 DEF ReadAnchor, ReadHead, ReadAt, RecordEvidence, WitnessHead,
         WriteAnchor, Goto, Drop, ReadingsOK
    <2>2. ASSUME (MarkSeen(t) /\ HeadSeen(t) /\ MarkBelow(t))'
          PROVE  CapturesSeen'
      BY <1>7, <2>1, <2>2 DEF CapturesSeen
    <2>3. MarkSeen(t) /\ HeadSeen(t) /\ MarkBelow(t)
      BY <1>5
    <2>4. ASSUME UNCHANGED verdict,
                 \A u \in Captures : prior'[u] \in {prior[u], None}
          PROVE  NoFalseAlarm'
      BY <1>1, <1>2, <1>6, <2>4 DEF NoFalseAlarm
    <2> HIDE DEF Rest
    <2>5. CASE ReadAnchor(t)
      <3>1. /\ pc'[t] = "head" /\ mark'[t] = anchor /\ SeenWitness(anchor)
            \/ pc'[t] = "gather"
        BY <1>2, <2>5 DEF ReadAnchor, Goto, ReadingsOK, AnchorSeen
      <3>2. UNCHANGED <<anchor, born, verdict>>
        BY <2>5 DEF ReadAnchor, disk
      <3>3. (MarkSeen(t) /\ HeadSeen(t) /\ MarkBelow(t))'
        BY <3>1, <3>2 DEF MarkSeen, HeadSeen, MarkBelow, SeenWitness
      <3>4. UNCHANGED prior
        BY <2>5 DEF ReadAnchor
      <3> QED
        BY <1>8, <2>2, <2>4, <3>2, <3>3, <3>4
    <2>6. CASE ReadHead(t)
      <3>1. /\ pc[t] = "head" /\ pc'[t] = "at" /\ mark'[t] = mark[t]
            /\ head'[t] = ChainHead /\ UNCHANGED <<anchor, born, verdict, prior>>
        BY <2>6 DEF ReadHead, Goto, ReadingsOK, disk
      <3>2. SeenWitness(mark[t])
        BY <2>3, <3>1 DEF MarkSeen
      <3>3. mark[t].seq \in Nat \ {0} /\ mark[t].seq <= Len(born)
        BY <3>2 DEF SeenWitness, Witness
      <3>4. SeenWitness(ChainHead) /\ ChainHead.seq = Len(born)
        BY <1>2, <1>3, <3>3, HeadStraight
      <3>5. (MarkSeen(t) /\ HeadSeen(t) /\ MarkBelow(t))'
        BY <3>1, <3>2, <3>3, <3>4 DEF MarkSeen, HeadSeen, MarkBelow, SeenWitness
      <3> QED
        BY <1>8, <2>2, <2>4, <3>1, <3>5
    <2>7. CASE ReadAt(t)
      <3>1. /\ pc[t] = "at" /\ pc'[t] = "gather"
            /\ prior' = [prior EXCEPT ![t] = Verdict(mark[t], head[t])]
            /\ UNCHANGED <<anchor, verdict>>
        BY <2>7 DEF ReadAt, Goto, ReadingsOK, disk
      <3>2. Verdict(mark[t], head[t]) \in {"match", "extended"}
        BY <1>2, <2>3, <3>1, VerdictBenign DEF MarkSeen, HeadSeen, MarkBelow
      <3>3. NoFalseAlarm'
        BY <1>1, <1>2, <3>1, <3>2 DEF NoFalseAlarm, ReadingsOK
      <3>4. (MarkSeen(t) /\ HeadSeen(t) /\ MarkBelow(t))'
        BY <3>1 DEF MarkSeen, HeadSeen, MarkBelow
      <3> QED
        BY <1>8, <2>2, <3>1, <3>3, <3>4
    <2>8. CASE RecordEvidence(t)
      <3>1. /\ pc'[t] \in {"witness", "idle"} /\ UNCHANGED <<anchor, verdict>>
            /\ \A u \in Captures : prior'[u] \in {prior[u], None}
        BY <2>8 DEF RecordEvidence, Goto, Drop, ReadingsOK
      <3>2. (MarkSeen(t) /\ HeadSeen(t) /\ MarkBelow(t))'
        BY <3>1 DEF MarkSeen, HeadSeen, MarkBelow
      <3> QED
        BY <1>8, <2>2, <2>4, <3>1, <3>2
    <2>9. CASE WitnessHead(t)
      <3>1. /\ pc'[t] = (IF log = <<>> THEN "idle" ELSE "write")
            /\ head'[t] = ChainHead /\ UNCHANGED <<anchor, born, verdict, prior>>
        BY <2>9 DEF WitnessHead, Goto, ReadingsOK, disk
      <3>2. log # <<>> => SeenWitness(ChainHead)
        <4>1. Len(log) \in Nat /\ (log # <<>> => Len(log) > 0)
          BY DEF LogsOK
        <4>2. log # <<>> => Len(born) > 0
          BY <1>2, <1>3, <4>1 DEF LogStraight, Straight
        <4> QED
          BY <1>2, <4>2, HeadStraight
      <3>3. (MarkSeen(t) /\ HeadSeen(t) /\ MarkBelow(t))'
        BY <3>1, <3>2 DEF MarkSeen, HeadSeen, MarkBelow, SeenWitness
      <3> QED
        BY <1>8, <2>2, <2>4, <3>1, <3>3
    <2>10. CASE WriteAnchor(t)
      <3>1. /\ pc[t] = "write" /\ pc'[t] = "idle" /\ anchor' \in {anchor, head[t]}
            /\ UNCHANGED <<born, verdict, prior>>
        BY <2>10 DEF WriteAnchor, Goto, ReadingsOK
      <3>2. SeenWitness(head[t])
        BY <2>3, <3>1 DEF HeadSeen
      <3>3. AnchorSeen'
        BY <1>2, <3>1, <3>2 DEF AnchorSeen, SeenWitness
      <3>4. (MarkSeen(t) /\ HeadSeen(t) /\ MarkBelow(t))'
        BY <3>1 DEF MarkSeen, HeadSeen, MarkBelow
      <3> QED
        BY <2>2, <2>4, <3>1, <3>3, <3>4
    <2> QED
      BY <1>12, <2>5, <2>6, <2>7, <2>8, <2>9, <2>10
  <1>13. CASE Record \/ Backup \/ UNCHANGED vars
    BY <1>9, <1>13 DEF Record, Backup, vars, disk, captures
  <1>14. ~Restore /\ ~Decay
    BY <1>1 DEF Restore, Decay
  <1> QED
    BY <1>3, <1>10, <1>11, <1>12, <1>13, <1>14 DEF Next

LEMMA SoundHolds == Spec => [](LogsOK /\ Sound)
  <1>1. Init => LogsOK /\ ReadingsOK /\ Sound
    <2>1. Init => LogsOK
      <3>1. <<>> \in Seq(Row) /\ Len(<<>>) = 0
        OBVIOUS
      <3> QED
        BY <3>1, AuditAssumption DEF AuditAssumption, Init, LogsOK
    <2>2. Init => ReadingsOK
      BY DEF Init, ReadingsOK
    <2>3. Init => LogStraight
      BY DEF Init, LogStraight, Straight
    <2>4. Init => AnchorSeen /\ CapturesSeen
      BY DEF Init, AnchorSeen, CapturesSeen, MarkSeen, HeadSeen, MarkBelow
    <2>5. Init => NoFalseAlarm
      BY AuditAssumption DEF AuditAssumption, Init, NoFalseAlarm
    <2> QED
      BY <2>1, <2>2, <2>3, <2>4, <2>5 DEF Sound
  <1>2. LogsOK /\ ReadingsOK /\ Sound /\ [Next]_vars => (LogsOK /\ ReadingsOK /\ Sound)'
    BY LogsStep, ReadingsStep, SoundStep
  <1> QED
    BY <1>1, <1>2, PTL DEF Spec

\* audit.rs: appends, prunes and crashes between the two leave a log that
\* verify_entries finds intact.
THEOREM HousekeepingVerifiesHolds == Spec => []HousekeepingVerifies
  <1>1. LogsOK /\ Sound => HousekeepingVerifies
    BY StraightVerifies DEF LogsOK, Sound, LogStraight, HousekeepingVerifies
  <1> QED
    BY <1>1, SoundHolds, PTL

\* audit.rs: no start and no capture, whatever is appended and pruned while it
\* reads the anchor, the head and the row, takes the daemon's own work for a
\* rewrite of the chain.
THEOREM NoFalseAlarmHolds == Spec => []NoFalseAlarm
  <1>1. Sound => NoFalseAlarm
    BY DEF Sound, NoFalseAlarm
  <1> QED
    BY <1>1, SoundHolds, PTL

-----------------------------------------------------------------------------
(* Any disk.  What holds of a chain from one row to the next holds along the *)
(* whole chain: a set of naturals that is not empty has a least member, so   *)
(* there is no least row at which it could fail.                             *)

LEMMA LeastNatural ==
  ASSUME NEW T \in SUBSET Nat, T # {}
  PROVE  \E n \in T : \A m \in T : n <= m
  <1> DEFINE Below == {0 .. n : n \in T}
  <1>1. Below \subseteq FiniteSubsetsOf(Nat) /\ Below # {}
    <2>1. ASSUME NEW n \in T PROVE 0 .. n \in FiniteSubsetsOf(Nat)
      <3>1. IsFiniteSet(0 .. n) /\ 0 .. n \subseteq Nat
        BY FS_Interval
      <3> QED
        BY <3>1 DEF FiniteSubsetsOf
    <2> QED
      BY <2>1
  <1>2. PICK s \in Below :
          \A r \in Below : ~ (<<r, s>> \in StrictSubsetOrdering(Nat))
    <2> HIDE DEF Below
    <2> QED
      BY <1>1, FS_StrictSubsetOrderingWellFounded, WFMin
  <1>3. PICK n \in T : s = 0 .. n
    BY <1>2
  <1>4. ASSUME NEW m \in T, m < n PROVE FALSE
    <2>1. 0 .. m \in Below /\ 0 .. m \subseteq s /\ 0 .. m # s
      BY <1>3, <1>4
    <2>2. <<0 .. m, s>> \in StrictSubsetOrdering(Nat)
      BY <2>1, <1>3 DEF StrictSubsetOrdering
    <2> QED
      BY <1>2, <2>1, <2>2
  <1> QED
    BY <1>4

\* In a chain that verifies the numbers run down from the last row's without a
\* gap.
LEMMA NumbersRun ==
  ASSUME NEW s \in Seq(Row), Verifies(s), NEW d \in Nat, d < Len(s)
  PROVE  s[Len(s) - d].seq = s[Len(s)].seq - d
  <1>n. Len(s) \in Nat /\ DOMAIN s = 1 .. Len(s)
    OBVIOUS
  <1>s. \A i \in 1 .. Len(s) : s[i].seq \in Nat
    <2>1. \A i \in 1 .. Len(s) : s[i] \in Row
      BY <1>n
    <2> QED
      BY <2>1 DEF Row
  <1> DEFINE Bad == {e \in Nat : /\ e < Len(s)
                                 /\ s[Len(s) - e].seq # s[Len(s)].seq - e}
  <1>1. CASE Bad = {}
    BY <1>1
  <1>2. CASE Bad # {}
    <2>1. PICK e \in Bad : \A f \in Bad : e <= f
      <3> HIDE DEF Bad
      <3>1. Bad \in SUBSET Nat
        BY DEF Bad
      <3> QED
        BY <1>2, <3>1, LeastNatural
    <2>2. e \in Nat /\ e < Len(s) /\ s[Len(s) - e].seq # s[Len(s)].seq - e
      BY <2>1
    <2>3. e # 0
      <3>1. Len(s) - 0 = Len(s) /\ Len(s) \in 1 .. Len(s)
        BY <1>n, <2>2
      <3> QED
        BY <1>s, <2>2, <3>1
    <2>4. e - 1 \in Nat /\ e - 1 < Len(s) /\ e - 1 \notin Bad
      <3>1. e - 1 \in Nat /\ e - 1 < Len(s) /\ ~(e <= e - 1)
        BY ONLY <1>n, <2>2, <2>3
      <3> HIDE DEF Bad
      <3> QED
        BY ONLY <2>1, <3>1
    <2>5. s[Len(s) - (e - 1)].seq = s[Len(s)].seq - (e - 1)
      BY <2>4
    <2>6. PICK i \in 1 .. Len(s) : i = Len(s) - (e - 1) /\ i > 1
      BY <1>n, <2>2, <2>3
    <2>7. s[i].seq = s[i - 1].seq + 1 /\ i - 1 = Len(s) - e /\ i - 1 \in 1 .. Len(s)
      <3>1. i - 1 = Len(s) - e /\ i - 1 \in 1 .. Len(s)
        BY ONLY <1>n, <2>2, <2>6
      <3>2. i \in DOMAIN s
        BY <1>n, <2>6
      <3>3. s[i].seq = s[i - 1].seq + 1
        BY <2>6, <3>2, Zenon DEF Verifies
      <3> QED
        BY <3>1, <3>3
    <2>8. Len(s) \in 1 .. Len(s)
      BY <1>n, <2>2
    <2>9. s[i].seq \in Nat /\ s[i - 1].seq \in Nat /\ s[Len(s)].seq \in Nat
      BY <1>s, <2>7, <2>8
    <2>10. s[i].seq = s[Len(s)].seq - (e - 1) /\ s[i - 1].seq # s[Len(s)].seq - e
      BY <2>2, <2>5, <2>6, <2>7
    <2>11. FALSE
      <3>1. PICK x, y, z \in Nat : x = s[i].seq /\ y = s[i - 1].seq /\ z = s[Len(s)].seq
        BY <2>9
      <3>2. PICK w \in Nat : w = e
        BY <2>2
      <3>3. x = y + 1 /\ x = z - (w - 1) /\ y # z - w
        BY <2>7, <2>10, <3>1, <3>2
      <3> HIDE DEF Bad
      <3> QED
        BY ONLY <3>3
    <2> QED
      BY <2>11
  <1> QED
    BY <1>1, <1>2

\* The rows a hash folds in: itself, and those the row before it folds in.
LEMMA LineageUnfolds ==
  ASSUME born \in Seq(Row),
         \A h \in 1 .. Len(born) : born[h].prev \in 0 .. Len(born),
         NEW h \in 1 .. Len(born)
  PROVE  Lineage[h] = {born[h]} \cup Lineage[born[h].prev]
  <1> DEFINE N == 0 .. Len(born)
             Closed(C) == \A x \in C : x # 0 => born[x].prev \in C
             Reach(g) == {x \in 1 .. Len(born) :
                            \A C \in SUBSET N : g \in C /\ Closed(C) => x \in C}
             f == [g \in N |-> {born[x] : x \in Reach(g)}]
             Solves(l) == l = [g \in N |-> IF g = Genesis THEN {}
                                           ELSE {born[g]} \cup l[born[g].prev]]
  <1>n. Len(born) \in Nat /\ 0 \in N
    OBVIOUS
  <1>1. Reach(0) = {}
    <2>1. {0} \in SUBSET N /\ Closed({0})
      BY <1>n
    <2>2. ASSUME NEW x \in Reach(0) PROVE FALSE
      <3>1. x \in {0} /\ x \in 1 .. Len(born)
        BY <2>1, <2>2
      <3> QED
        BY <1>n, <3>1
    <2> QED
      BY <2>2
  <1>2. ASSUME NEW g \in 1 .. Len(born)
        PROVE  Reach(g) = {g} \cup Reach(born[g].prev)
    <2>1. born[g].prev \in N /\ g \in N /\ g # 0
      BY <1>n
    <2>2. ASSUME NEW x \in Reach(g), x # g PROVE x \in Reach(born[g].prev)
      <3>1. ASSUME NEW C \in SUBSET N, born[g].prev \in C, Closed(C)
            PROVE  x \in C
        <4>1. C \cup {g} \in SUBSET N /\ Closed(C \cup {g})
          BY <2>1, <3>1
        <4>2. x \in C \cup {g}
          BY <2>2, <4>1
        <4> QED
          BY <2>2, <4>2
      <3> QED
        BY <2>2, <3>1
    <2>3. ASSUME NEW x \in Reach(born[g].prev) PROVE x \in Reach(g)
      BY <2>1, <2>3
    <2>4. g \in Reach(g)
      OBVIOUS
    <2> QED
      BY <2>2, <2>3, <2>4
  <1>3. Solves(f)
    <2> HIDE DEF Reach
    <2>1. ASSUME NEW g \in N
          PROVE  f[g] = IF g = Genesis THEN {} ELSE {born[g]} \cup f[born[g].prev]
      <3>1. CASE g = 0
        BY <1>1, <3>1 DEF Genesis
      <3>2. CASE g # 0
        <4>1. g \in 1 .. Len(born) /\ born[g].prev \in N
          BY <1>n, <3>2
        <4>2. Reach(g) = {g} \cup Reach(born[g].prev)
          BY <1>2, <4>1
        <4>3. /\ f[g] = {born[x] : x \in Reach(g)}
              /\ f[born[g].prev] = {born[x] : x \in Reach(born[g].prev)}
          BY <4>1
        <4> HIDE DEF f
        <4> QED
          BY <3>2, <4>2, <4>3 DEF Genesis
      <3> QED
        BY <3>1, <3>2
    <2>2. f = [g \in N |-> f[g]]
      OBVIOUS
    <2> HIDE DEF f
    <2> QED
      BY <2>1, <2>2
  <1>4. Lineage = CHOOSE l : Solves(l)
    BY DEF Lineage
  <1>5. Solves(Lineage)
    <2> HIDE DEF Solves, f
    <2> QED
      BY <1>3, <1>4
  <1>6. h \in N /\ h # Genesis
    BY <1>n DEF Genesis
  <1> QED
    BY <1>5, <1>6

-----------------------------------------------------------------------------
(* Any disk: a row that recomputes is the row that was written with its hash, *)
(* in the log and in a copy of it, and links to a row that was written.       *)

FromBorn(s, b) ==
  \A i \in 1 .. Len(s) :
    s[i].hash <= Len(b) /\ (s[i].ok => s[i] = b[s[i].hash])

LinksBack(b) == \A h \in 1 .. Len(b) : b[h].prev \in 0 .. Len(b)

Genuine == FromBorn(log, born) /\ FromBorn(backup, born) /\ LinksBack(born)

LEMMA RowFields ==
  ASSUME NEW s \in Seq(Row), NEW i \in 1 .. Len(s)
  PROVE  /\ s[i] \in Row /\ s[i].hash \in Nat \ {0} /\ s[i].prev \in Nat
         /\ s[i].seq \in Nat /\ s[i].ok \in BOOLEAN
  <1>1. s[i] \in Row
    OBVIOUS
  <1> QED
    BY <1>1 DEF Row, Hashes, Genesis

LEMMA BornGrows ==
  ASSUME NEW s \in Seq(Row), NEW b \in Seq(Row), NEW r \in Row, FromBorn(s, b)
  PROVE  FromBorn(s, Append(b, r))
  <1>1. /\ Len(Append(b, r)) = Len(b) + 1 /\ Len(b) \in Nat
        /\ \A h \in 1 .. Len(b) : Append(b, r)[h] = b[h]
    OBVIOUS
  <1> SUFFICES ASSUME NEW i \in 1 .. Len(s)
               PROVE  /\ s[i].hash <= Len(b) + 1
                      /\ s[i].ok => s[i] = Append(b, r)[s[i].hash]
    BY <1>1 DEF FromBorn
  <1>2. s[i].hash \in Nat \ {0} /\ s[i].hash <= Len(b)
    BY RowFields DEF FromBorn
  <1> QED
    BY <1>1, <1>2 DEF FromBorn

LEMMA InsertBorn ==
  ASSUME NEW s \in Seq(Row), NEW b \in Seq(Row), NEW r \in Row,
         FromBorn(s, b), r.hash = Len(b) + 1
  PROVE  FromBorn(Append(s, r), Append(b, r))
  <1>1. /\ Len(Append(b, r)) = Len(b) + 1 /\ Append(b, r)[Len(b) + 1] = r
        /\ Len(b) \in Nat
    OBVIOUS
  <1>2. /\ Len(Append(s, r)) = Len(s) + 1 /\ Append(s, r)[Len(s) + 1] = r
        /\ \A i \in 1 .. Len(s) : Append(s, r)[i] = s[i]
        /\ Len(s) \in Nat
    OBVIOUS
  <1>3. FromBorn(s, Append(b, r))
    BY BornGrows
  <1>s. Append(s, r) \in Seq(Row) /\ Append(b, r) \in Seq(Row)
    OBVIOUS
  <1>4. PICK t \in Seq(Row) : t = Append(s, r)
    BY <1>s
  <1>5. PICK c \in Seq(Row) : c = Append(b, r)
    BY <1>s
  <1>6. ASSUME NEW i \in 1 .. Len(t)
        PROVE  t[i].hash <= Len(c) /\ (t[i].ok => t[i] = c[t[i].hash])
    <2>1. CASE i \in 1 .. Len(s)
      BY <1>2, <1>3, <1>4, <1>5, <2>1 DEF FromBorn
    <2>2. CASE i = Len(s) + 1
      <3>1. t[i] = r /\ c[r.hash] = r /\ r.hash <= Len(c)
        BY <1>1, <1>2, <1>4, <1>5, <2>2
      <3> QED
        BY <3>1
    <2> QED
      BY <1>2, <1>4, <2>1, <2>2
  <1> QED
    BY <1>4, <1>5, <1>6 DEF FromBorn

LEMMA PruneBorn ==
  ASSUME NEW s \in Seq(Row), NEW b, FromBorn(s, b)
  PROVE  FromBorn(Prune(s), b)
  <1>1. /\ Len(Prune(s)) \in Nat /\ Len(s) \in Nat /\ Len(Prune(s)) <= Len(s)
        /\ \A i \in 1 .. Len(Prune(s)) :
             Prune(s)[i] = s[Len(s) - Len(Prune(s)) + i]
    BY PruneShape, AuditAssumption DEF AuditAssumption
  <1>2. \A i \in 1 .. Len(Prune(s)) :
          Len(s) - Len(Prune(s)) + i \in 1 .. Len(s)
    BY <1>1
  <1> QED
    BY <1>1, <1>2 DEF FromBorn

LEMMA RemoveBorn ==
  ASSUME NEW s \in Seq(Row), NEW b, FromBorn(s, b), NEW i \in 1 .. Len(s)
  PROVE  FromBorn(RemoveAt(s, i), b)
  <1>n. Len(s) \in Nat
    OBVIOUS
  <1>1. PICK p \in Seq(Row) : p = SubSeq(s, 1, i - 1)
    <2>1. \A j \in 1 .. i - 1 : s[j] \in Row
      BY <1>n
    <2>2. SubSeq(s, 1, i - 1) \in Seq(Row)
      BY <1>n, <2>1, SubSeqProperties
    <2> QED
      BY <2>2
  <1>2. PICK m \in Int : m = i + 1
    BY <1>n
  <1>3. \A j \in m .. Len(s) : s[j] \in Row
    BY <1>n, <1>2
  <1>4. /\ SubSeq(s, m, Len(s)) \in Seq(Row)
        /\ \A j \in 1 .. Len(SubSeq(s, m, Len(s))) :
             SubSeq(s, m, Len(s))[j] = s[m + j - 1]
        /\ Len(SubSeq(s, m, Len(s))) = IF m <= Len(s) THEN Len(s) - m + 1 ELSE 0
    BY <1>n, <1>3, SubSeqProperties
  <1>5. PICK q \in Seq(Row) : q = SubSeq(s, m, Len(s))
    BY <1>4
  <1>6. /\ Len(p) = i - 1
        /\ \A j \in 1 .. Len(p) : p[j] = s[j]
    BY <1>n, <1>1
  <1>7. /\ Len(q) = Len(s) - i
        /\ \A j \in 1 .. Len(q) : q[j] = s[i + j]
    <2>1. Len(q) = Len(s) - i
      BY <1>n, <1>2, <1>4, <1>5
    <2>2. \A j \in 1 .. Len(q) : m + j - 1 = i + j
      BY <1>2, <2>1
    <2> QED
      BY <1>4, <1>5, <2>1, <2>2
  <1>8. /\ Len(p \o q) = Len(p) + Len(q)
        /\ \A j \in 1 .. Len(p) + Len(q) :
             (p \o q)[j] = IF j <= Len(p) THEN p[j] ELSE q[j - Len(p)]
    BY ConcatProperties
  <1>9. RemoveAt(s, i) = p \o q
    BY <1>1, <1>2, <1>5 DEF RemoveAt
  <1>10. ASSUME NEW j \in 1 .. Len(p \o q)
         PROVE  \E k \in 1 .. Len(s) : (p \o q)[j] = s[k]
    <2>1. CASE j <= Len(p)
      <3>1. j \in 1 .. Len(p) /\ j \in 1 .. Len(s)
        BY <1>n, <1>6, <1>7, <1>8, <2>1
      <3> QED
        BY <1>6, <1>8, <2>1, <3>1
    <2>2. CASE ~(j <= Len(p))
      <3>1. /\ j - Len(p) \in 1 .. Len(q) /\ j \in 1 .. Len(p) + Len(q)
            /\ i + (j - Len(p)) \in 1 .. Len(s)
        BY <1>n, <1>6, <1>7, <1>8, <2>2
      <3> QED
        BY <1>7, <1>8, <2>2, <3>1
    <2> QED
      BY <2>1, <2>2
  <1> QED
    BY <1>9, <1>10, Zenon DEF FromBorn

LEMMA NextRowLinks ==
  ASSUME LogsOK, Genuine, Len(born) < MaxRows
  PROVE  /\ NextRow \in Row /\ NextRow.hash = Len(born) + 1
         /\ NextRow.prev \in 0 .. Len(born)
  <1>1. NextRow \in Row
    BY NextRowShape DEF LogsOK
  <1>2. Len(born) \in Nat /\ Len(log) \in Nat
    BY DEF LogsOK
  <1>3. CASE log = <<>>
    BY <1>1, <1>2, <1>3 DEF NextRow, Genesis
  <1>4. CASE log # <<>>
    <2>1. Len(log) \in 1 .. Len(log)
      BY <1>2, <1>4 DEF LogsOK
    <2>2. Last(log).hash \in Nat /\ Last(log).hash <= Len(born)
      BY <2>1, RowFields DEF Last, LogsOK, Genuine, FromBorn
    <2>3. NextRow.hash = Len(born) + 1 /\ NextRow.prev = Last(log).hash
      BY <1>4 DEF NextRow
    <2> QED
      BY <1>1, <1>2, <2>2, <2>3
  <1> QED
    BY <1>3, <1>4

LEMMA GenuineGrows ==
  ASSUME LogsOK, Genuine, Len(born) < MaxRows
  PROVE  /\ LinksBack(Append(born, NextRow))
         /\ FromBorn(backup, Append(born, NextRow))
         /\ FromBorn(Append(log, NextRow), Append(born, NextRow))
         /\ FromBorn(Prune(Append(log, NextRow)), Append(born, NextRow))
  <1>1. PICK r \in Row : /\ r = NextRow /\ r.hash = Len(born) + 1
                         /\ r.prev \in 0 .. Len(born)
    BY NextRowLinks
  <1>2. log \in Seq(Row) /\ born \in Seq(Row) /\ backup \in Seq(Row)
    BY DEF LogsOK
  <1>3. PICK b \in Seq(Row) : b = Append(born, r)
    <2>1. Append(born, r) \in Seq(Row)
      BY <1>1, <1>2
    <2> QED
      BY <2>1
  <1>4. PICK s \in Seq(Row) : s = Append(log, r)
    <2>1. Append(log, r) \in Seq(Row)
      BY <1>1, <1>2
    <2> QED
      BY <2>1
  <1>5. FromBorn(backup, b) /\ FromBorn(s, b)
    BY <1>1, <1>2, <1>3, <1>4, BornGrows, InsertBorn DEF Genuine
  <1>6. FromBorn(Prune(s), b)
    BY <1>5, PruneBorn
  <1>7. LinksBack(b)
    <2>1. /\ Len(b) = Len(born) + 1 /\ Len(born) \in Nat
          /\ b[Len(born) + 1] = r
          /\ \A h \in 1 .. Len(born) : b[h] = born[h]
      BY <1>2, <1>3
    <2>2. \A h \in 1 .. Len(b) : h \in 1 .. Len(born) \/ h = Len(born) + 1
      BY <2>1
    <2>3. 0 .. Len(born) \subseteq 0 .. Len(b)
      BY <2>1
    <2> QED
      BY <1>1, <2>1, <2>2, <2>3 DEF LinksBack, Genuine
  <1> QED
    BY <1>1, <1>3, <1>4, <1>5, <1>6, <1>7

LEMMA GenuineStep ==
  ASSUME LogsOK, Genuine, [Next]_vars
  PROVE  Genuine'
  <1>1. CASE /\ Len(born) < MaxRows /\ born' = Append(born, NextRow)
             /\ UNCHANGED backup
             /\ \/ log' = Append(log, NextRow)
                \/ log' = Prune(Append(log, NextRow))
    BY <1>1, GenuineGrows DEF Genuine
  <1>2. CASE Backup \/ Restore
    BY <1>2 DEF Backup, Restore, Genuine
  <1>3. CASE Decay
    <2>1. PICK i \in DOMAIN log :
            log' \in {[log EXCEPT ![i].ok = FALSE], RemoveAt(log, i)}
      BY <1>3 DEF Decay
    <2>2. i \in 1 .. Len(log) /\ log \in Seq(Row)
      BY <2>1 DEF LogsOK
    <2>3. CASE log' = RemoveAt(log, i)
      BY <1>3, <2>2, <2>3, RemoveBorn DEF Decay, Genuine
    <2>4. CASE log' = [log EXCEPT ![i].ok = FALSE]
      <3>1. log[i] \in Row
        BY <2>2
      <3>2. [log[i] EXCEPT !.ok = FALSE] \in Row
        BY <3>1 DEF Row
      <3>3. /\ log' = [log EXCEPT ![i] = [log[i] EXCEPT !.ok = FALSE]]
            /\ log' \in Seq(Row) /\ Len(log') = Len(log)
        BY <2>2, <2>4, <3>2, ExceptSeq
      <3>4. log'[i] = [log[i] EXCEPT !.ok = FALSE]
        BY <2>2, <3>3
      <3>5. log'[i].hash = log[i].hash /\ ~log'[i].ok
        BY <3>1, <3>4 DEF Row
      <3>6. \A j \in 1 .. Len(log) : j # i => log'[j] = log[j]
        BY <2>2, <3>3
      <3>7. FromBorn(log, born)'
        BY <1>3, <3>3, <3>5, <3>6 DEF Decay, Genuine, FromBorn
      <3> QED
        BY <1>3, <3>7 DEF Decay, Genuine
    <2> QED
      BY <2>1, <2>3, <2>4
  <1>4. CASE UNCHANGED <<log, born, backup>>
    BY <1>4 DEF Genuine
  <1> QED
    BY <1>1, <1>2, <1>3, <1>4
    DEF Next, vars, disk, captures, Record, Start, Crash, AppendRaw,
        ReadAnchor, ReadHead, ReadAt, RecordEvidence, WitnessHead, WriteAnchor

\* Down a chain of genuine rows that verifies, what each row's hash folds in
\* is folded into the later ones' too.
LEMMA LineageRunsDown ==
  ASSUME LogsOK, Genuine, Verifies(log),
         NEW k \in 1 .. Len(log), NEW i \in 1 .. k
  PROVE  log[i] \in Lineage[log[k].hash]
  <1>n. /\ log \in Seq(Row) /\ born \in Seq(Row) /\ Len(log) \in Nat
        /\ Len(born) \in Nat /\ DOMAIN log = 1 .. Len(log)
    BY DEF LogsOK
  <1>g. ASSUME NEW j \in 1 .. Len(log)
        PROVE  /\ log[j].hash \in 1 .. Len(born)
               /\ log[j] = born[log[j].hash]
               /\ Lineage[log[j].hash]
                    = {log[j]} \cup Lineage[log[j].prev]
    <2>1. /\ log[j].hash \in 1 .. Len(born)
          /\ log[j] = born[log[j].hash]
      BY <1>n, RowFields DEF Genuine, FromBorn, Verifies
    <2>2. PICK h \in 1 .. Len(born) : h = log[j].hash
      BY <2>1
    <2>3. Lineage[h] = {born[h]} \cup Lineage[born[h].prev]
      BY <1>n, LineageUnfolds DEF Genuine, LinksBack
    <2> QED
      BY <2>1, <2>2, <2>3
  <1> DEFINE Bad == {d \in Nat : /\ d < k
                                 /\ ~(Lineage[log[k - d].hash]
                                        \subseteq Lineage[log[k].hash])}
  <1>1. CASE Bad = {}
    <2>1. k - i \in Nat /\ k - i < k /\ k - (k - i) = i
      BY <1>n
    <2>2. Lineage[log[k - (k - i)].hash] \subseteq Lineage[log[k].hash]
      BY <1>1, <2>1
    <2>3. i \in 1 .. Len(log)
      BY <1>n
    <2> QED
      BY <1>g, <2>1, <2>2, <2>3
  <1>2. CASE Bad # {}
    <2>1. PICK e \in Bad : \A f \in Bad : e <= f
      <3> HIDE DEF Bad
      <3>1. Bad \in SUBSET Nat
        BY DEF Bad
      <3> QED
        BY <1>2, <3>1, LeastNatural
    <2>2. /\ e \in Nat /\ e < k
          /\ ~(Lineage[log[k - e].hash] \subseteq Lineage[log[k].hash])
      BY <2>1
    <2>3. e # 0
      <3>1. k - 0 = k
        BY <1>n
      <3> QED
        BY <2>2, <3>1
    <2>4. e - 1 \in Nat /\ e - 1 < k /\ e - 1 \notin Bad
      <3>1. e - 1 \in Nat /\ e - 1 < k /\ ~(e <= e - 1)
        BY ONLY <1>n, <2>2, <2>3
      <3> HIDE DEF Bad
      <3> QED
        BY ONLY <2>1, <3>1
    <2>5. Lineage[log[k - (e - 1)].hash] \subseteq Lineage[log[k].hash]
      BY <2>4
    <2>6. PICK j \in 1 .. Len(log) : j = k - (e - 1) /\ j > 1
      BY <1>n, <2>2, <2>3
    <2>7. /\ log[j].prev = log[j - 1].hash /\ j - 1 = k - e
      <3>1. j - 1 = k - e
        BY <1>n, <2>2, <2>6
      <3>2. j \in DOMAIN log /\ j > 1
        BY <1>n, <2>6
      <3> HIDE DEF Bad
      <3> QED
        BY <3>1, <3>2 DEF Verifies
    <2>8. Lineage[log[j - 1].hash] \subseteq Lineage[log[j].hash]
      BY <1>g, <2>7
    <2>9. FALSE
      <3> HIDE DEF Bad
      <3> QED
        BY <2>2, <2>5, <2>6, <2>7, <2>8
    <2> QED
      BY <2>9
  <1> QED
    BY <1>1, <1>2

\* What a benign verdict says of a chain that verifies: the anchor is one of
\* its rows, or all of it was written later.
LEMMA BenignPlaces ==
  ASSUME LogsOK, Verifies(log), NEW a \in Witness,
         Verdict(a, ChainHead) # "mismatch"
  PROVE  \/ \E k \in 1 .. Len(log) : /\ log[k].hash = a.hash
                                     /\ log[k].seq = a.seq
         \/ \A i \in 1 .. Len(log) : log[i].seq > a.seq
  <1>n. /\ log \in Seq(Row) /\ Len(log) \in Nat /\ DOMAIN log = 1 .. Len(log)
        /\ a.seq \in Nat
    BY DEF LogsOK, Witness
  <1> DEFINE last == log[Len(log)]
  <1>1. /\ log # <<>> /\ Len(log) \in 1 .. Len(log)
        /\ ChainHead = [seq |-> last.seq, hash |-> last.hash]
    <2>1. ChainHead # None
      BY DEF Verdict
    <2>2. log # <<>>
      BY <2>1 DEF ChainHead
    <2> QED
      BY <1>n, <2>2 DEF ChainHead, Last
  <1>2. CASE a = ChainHead
    BY <1>1, <1>2
  <1>3. CASE a.hash \in HashAt(a.seq)
    BY <1>n, <1>3 DEF HashAt
  <1>4. CASE HashAt(a.seq) = {} /\ a.seq < ChainHead.seq
    <2>1. a.seq < last.seq /\ last.seq \in Nat
      BY <1>1, <1>4, <1>n, RowFields
    <2>2. SUFFICES ASSUME NEW i \in 1 .. Len(log), ~(log[i].seq > a.seq)
                   PROVE  FALSE
      OBVIOUS
    <2>3. PICK d \in Nat : d = Len(log) - i /\ d < Len(log) /\ Len(log) - d = i
      BY <1>n, <2>2
    <2>4. log[i].seq = last.seq - d
      BY <1>n, <2>3, NumbersRun
    <2>5. PICK e \in Nat : e = last.seq - a.seq /\ e <= d
      BY <1>n, <2>1, <2>2, <2>4
    <2>6. e < Len(log) /\ Len(log) - e \in 1 .. Len(log)
      BY <1>n, <2>1, <2>3, <2>5
    <2>7. log[Len(log) - e].seq = last.seq - e
      BY <1>n, <2>6, NumbersRun
    <2>8. log[Len(log) - e].seq = a.seq
      BY <1>n, <2>1, <2>5, <2>7
    <2>9. log[Len(log) - e].hash \in HashAt(a.seq)
      BY <1>n, <2>6, <2>8 DEF HashAt
    <2> QED
      BY <1>4, <2>9
  <1> QED
    BY <1>2, <1>3, <1>4 DEF Verdict

LEMMA BenignUnchanged ==
  ASSUME LogsOK, ReadingsOK, Genuine
  PROVE  BenignMeansUnchanged
  <1> SUFFICES ASSUME anchor # None, Verifies(log),
                      Verdict(anchor, ChainHead) # "mismatch",
                      NEW i \in 1 .. Len(log), log[i].seq <= anchor.seq
               PROVE  log[i] \in Lineage[anchor.hash]
    BY DEF BenignMeansUnchanged, Under, LogsOK
  <1>n. log \in Seq(Row) /\ Len(log) \in Nat
    BY DEF LogsOK
  <1>1. PICK a \in Witness : a = anchor
    BY DEF ReadingsOK
  <1>2. log[i].seq \in Nat /\ a.seq \in Nat
    BY <1>n, RowFields DEF Witness
  <1>3. PICK k \in 1 .. Len(log) : log[k].hash = a.hash /\ log[k].seq = a.seq
    BY <1>1, <1>2, BenignPlaces
  <1>4. i \in 1 .. k
    <2>1. PICK d \in Nat : d = Len(log) - i /\ d < Len(log) /\ Len(log) - d = i
      BY <1>n
    <2>2. PICK e \in Nat : e = Len(log) - k /\ e < Len(log) /\ Len(log) - e = k
      <3>1. Len(log) - k \in Nat /\ Len(log) - k < Len(log) /\ Len(log) - (Len(log) - k) = k
        BY <1>n, <1>3
      <3> QED
        BY <3>1
    <2>3. /\ log[i].seq = log[Len(log)].seq - d
          /\ log[k].seq = log[Len(log)].seq - e
      BY <1>n, <2>1, <2>2, NumbersRun
    <2>4. Len(log) \in 1 .. Len(log)
      BY <1>n
    <2>5. log[Len(log)].seq \in Nat
      BY <1>n, <2>4, RowFields
    <2>6. log[i].seq <= log[k].seq
      BY <1>1, <1>3
    <2>7. PICK z \in Nat : z = log[Len(log)].seq
      BY <2>5
    <2>8. z - d <= z - e
      BY <2>3, <2>6, <2>7
    <2>9. e <= d
      BY ONLY <2>1, <2>2, <2>7, <2>8
    <2> QED
      BY ONLY <1>n, <1>3, <2>1, <2>2, <2>9
  <1>5. log[i] \in Lineage[log[k].hash]
    BY <1>4, LineageRunsDown
  <1> QED
    BY <1>1, <1>3, <1>5

\* audit.rs, "pinning the head pins the whole chain": on any disk, whatever
\* copy was put back and whatever was damaged, lost or appended to it, when the
\* chain verifies and the anchor does not object, the rows up to the anchor are
\* rows its hash was computed from.
THEOREM BenignMeansUnchangedHolds == Spec => []BenignMeansUnchanged
  <1>1. Init => Genuine
    BY DEF Init, Genuine, FromBorn, LinksBack
  <1>2. LogsOK /\ Genuine /\ [Next]_vars => Genuine'
    BY GenuineStep
  <1>3. LogsOK /\ ReadingsOK /\ Genuine => BenignMeansUnchanged
    BY BenignUnchanged
  <1> QED
    BY <1>1, <1>2, <1>3, TypedHolds, PTL DEF Spec
=============================================================================
