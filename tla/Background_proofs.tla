------------------------- MODULE Background_proofs --------------------------
(***************************************************************************)
(* Proofs about the emergency stop and the two background tasks that it    *)
(* holds back, each component by itself: the names of the three modules    *)
(* are disjoint, and no step of a proof uses more than one of them.        *)
(*                                                                         *)
(* Lockdown: for any operators, turns and bounds; StoriesAgreeAlways and   *)
(* RestartKeepsStopAlways are about a single operator.                     *)
(* Overnight: for any tasks, connections, queue length and bounds.         *)
(* Standing: for any finite set of missions, of any kinds and gaps, and    *)
(* any bounds.                                                             *)
(***************************************************************************)
EXTENDS Lockdown, Overnight, Standing, SequenceTheorems, FiniteSetTheorems,
        FunctionTheorems, TLAPS

-----------------------------------------------------------------------------
(***************************************************************************)
(* The emergency stop.                                                     *)
(***************************************************************************)

(* Where each thread can be: panic and unlock are for operators, parking is  *)
(* for turns, and a stopped daemon runs nothing.                             *)
PcOK ==
  /\ \A t \in Threads : pc[t] \in PanicSteps \cup UnlockSteps => t \in Operators
  /\ \A t \in Threads : pc[t] \in TurnSteps => t \in Turns
  /\ ~up => \A t \in Threads : pc[t] = "idle"

(* A clean panic is under way, nothing unlocks beside it, and it has done    *)
(* what comes before its place in panic.                                     *)
CleanOK ==
  \A t \in clean : /\ up
                   /\ flag
                   /\ pc[t] \in PanicSteps
                   /\ ~Unlocking
                   /\ faults = 0 /\ pc[t] = "panic_emit" => marker

(* The strengthening of EngagedHolds: while the stop is engaged nothing      *)
(* unlocks.                                                                  *)
EngagedOK == engaged => ~Unlocking

FaultsOK == crashes = 0 => up

IInv == TypeOK /\ PcOK /\ CleanOK /\ EngagedOK /\ FaultsOK /\ EngagedHolds

-----------------------------------------------------------------------------
(* The initial states satisfy the invariant. *)
LEMMA InitIInv == Init => IInv
<1> SUFFICES ASSUME Init PROVE IInv
  OBVIOUS
<1> USE DEF Init
<1>1. pc \in [Threads -> {"idle"}]
  OBVIOUS
<1>2. TypeOK
  <2>1. faults \in 0 .. MaxFaults /\ crashes \in 0 .. MaxCrashes
    BY LockdownAssumption DEF LockdownAssumption
  <2>2. pc \in [Threads -> {"idle"} \cup PanicSteps \cup UnlockSteps
                            \cup TurnSteps]
    BY <1>1
  <2> QED
    BY <2>1, <2>2 DEF TypeOK
<1>3. PcOK
  BY <1>1 DEF PcOK, PanicSteps, UnlockSteps, TurnSteps
<1>4. CleanOK /\ EngagedOK /\ FaultsOK /\ EngagedHolds
  <2>1. clean = {} /\ ~engaged /\ up
    OBVIOUS
  <2> QED
    BY <2>1 DEF CleanOK, EngagedOK, FaultsOK, EngagedHolds
<1> QED
  BY <1>2, <1>3, <1>4 DEF IInv

(* Every step preserves the invariant: one step of the proof per action. *)
LEMMA NextIInv == IInv /\ [Next]_vars => IInv'
<1> SUFFICES ASSUME IInv, [Next]_vars PROVE IInv'
  OBVIOUS
<1> USE LockdownAssumption
    DEF LockdownAssumption, IInv, TypeOK, PcOK, CleanOK, EngagedOK, FaultsOK,
        EngagedHolds, Unlocking, PanicSteps, UnlockSteps, TurnSteps, Threads,
        Goto, At
<1>1. CASE Crash
  <2>1. crashes' \in 0 .. MaxCrashes /\ crashes' # 0
    BY <1>1 DEF Crash
  <2>2. pc' \in [Threads -> {"idle"}]
    BY <1>1 DEF Crash
  <2> QED
    BY <1>1, <2>1, <2>2 DEF Crash
<1>2. CASE Restart
  BY <1>2 DEF Restart
<1>3. ASSUME NEW t \in Threads, Step(t) PROVE IInv'
  <2>1. CASE PanicFlag(t)
    BY <2>1 DEF PanicFlag
  <2>2. CASE PanicClear(t)
    BY <2>2 DEF PanicClear
  <2>3. CASE PanicMark(t)
    <3>1. CASE marker' = TRUE /\ UNCHANGED faults
      BY <2>3, <3>1 DEF PanicMark
    <3>2. CASE faults < MaxFaults /\ faults' = faults + 1 /\ UNCHANGED marker
      <4>1. faults' \in 0 .. MaxFaults /\ faults' # 0
        BY <3>2
      <4> QED
        BY <2>3, <3>2, <4>1 DEF PanicMark
    <3> QED
      BY <2>3, <3>1, <3>2 DEF PanicMark
  <2>4. CASE PanicEmit(t)
    BY <2>4 DEF PanicEmit
  <2>5. CASE UnlockCheck(t)
    BY <2>5 DEF UnlockCheck
  <2>6. CASE UnlockFlag(t)
    BY <2>6 DEF UnlockFlag
  <2>7. CASE UnlockUnmark(t)
    <3>1. ~engaged /\ clean = {}
      BY <1>3, <2>7 DEF UnlockUnmark
    <3>2. faults' \in 0 .. MaxFaults /\ marker' \in BOOLEAN
      <4>1. CASE marker' = FALSE /\ UNCHANGED faults
        BY <4>1
      <4>2. CASE marker /\ faults < MaxFaults /\ faults' = faults + 1
                 /\ UNCHANGED marker
        BY <4>2
      <4> QED
        BY <2>7, <4>1, <4>2 DEF UnlockUnmark
    <3> QED
      BY <2>7, <3>1, <3>2 DEF UnlockUnmark
  <2>8. CASE UnlockEmit(t)
    BY <2>8 DEF UnlockEmit
  <2>9. CASE TurnReadGate(t)
    BY <2>9 DEF TurnReadGate
  <2>10. CASE TurnPark(t)
    BY <2>10 DEF TurnPark
  <2> QED
    BY <1>3, <2>1, <2>2, <2>3, <2>4, <2>5, <2>6, <2>7, <2>8, <2>9, <2>10
       DEF Step
<1>4. CASE UNCHANGED vars
  BY <1>4 DEF vars
<1> QED
  BY <1>1, <1>2, <1>3, <1>4 DEF Next

(* Every variable keeps its type. *)
THEOREM TypeCorrect == Spec => []TypeOK
<1>1. IInv => TypeOK
  BY DEF IInv
<1> QED
  BY <1>1, InitIInv, NextIInv, PTL DEF Spec

(* A panic that no unlock overlapped holds from its return until somebody    *)
(* unlocks (panic and init of lockdown.rs).                                  *)
THEOREM EngagedHoldsAlways == Spec => []EngagedHolds
<1>1. IInv => EngagedHolds
  BY DEF IInv
<1> QED
  BY <1>1, InitIInv, NextIInv, PTL DEF Spec

(* While the stop is engaged no turn gets past the gate (consequential_allowed *)
(* of integrations/mod.rs): the turns that may still arm an action are those   *)
(* that read the gate before the panic.                                        *)
THEOREM NoneGetsPastAlways == Spec => NoneGetsPast
<1>1. IInv /\ [Next]_vars =>
        [engaged /\ engaged' /\ (faults = 0 \/ crashes = 0)
           => Passed' \subseteq Passed]_vars
  <2> SUFFICES ASSUME IInv, Next, engaged, faults = 0 \/ crashes = 0,
                      NEW u \in Turns, pc'[u] = "turn_park"
               PROVE  pc[u] = "turn_park"
    BY DEF Passed
  <2> USE LockdownAssumption DEF LockdownAssumption, Threads, Goto, At
  <2>1. TypeOK /\ (up => flag)
    BY DEF IInv, EngagedHolds
  <2>2. CASE Crash
    BY <2>2 DEF Crash
  <2>3. CASE Restart
    BY <2>3 DEF Restart
  <2>4. ASSUME NEW t \in Threads, Step(t) PROVE pc[u] = "turn_park"
    <3>1. ~TurnReadGate(t)
      BY <2>1 DEF TurnReadGate
    <3>2. pc' = pc \/ \E label : pc' = [pc EXCEPT ![t] = label]
                                /\ label # "turn_park"
      BY <2>4, <3>1
         DEF Step, PanicFlag, PanicClear, PanicMark, PanicEmit, UnlockCheck,
             UnlockFlag, UnlockUnmark, UnlockEmit, TurnPark
    <3> QED
      BY <2>1, <3>2 DEF TypeOK
  <2> QED
    BY <2>2, <2>3, <2>4 DEF Next
<1> QED
  BY <1>1, InitIInv, NextIInv, PTL DEF Spec, NoneGetsPast

-----------------------------------------------------------------------------
(* One operator.  Two that race can leave the three places telling different *)
(* stories; one cannot, because each place in panic and unlock tells what    *)
(* has been written so far.                                                  *)

SingleOperator == \A o, p \in Operators : o = p

(* At its place in panic or unlock, what the operator has already written,   *)
(* in a session in which no file operation failed.                           *)
WrittenSoFar(o) ==
  /\ pc[o] = "idle" => flag = marker /\ flag = shown
  /\ pc[o] \in PanicSteps => flag
  /\ pc[o] = "panic_emit" => marker
  /\ pc[o] \in {"unlock_unmark", "unlock_emit"} => ~flag
  /\ pc[o] = "unlock_emit" => ~marker

(* A daemon that is down and went down locked left the marker behind.        *)
MarkerWaits == ~up /\ lockedWhenDown => marker

OneInv ==
  faults = 0 => /\ up => \A o \in Operators : WrittenSoFar(o)
                /\ up /\ Operators = {} => flag = marker /\ flag = shown
                /\ MarkerWaits

LEMMA InitOneInv == Init => OneInv
<1> SUFFICES ASSUME Init PROVE OneInv
  OBVIOUS
<1>1. \A o \in Operators : pc[o] = "idle"
  BY DEF Init, Threads
<1>2. up /\ flag = FALSE /\ marker = FALSE /\ shown = FALSE /\ lockedWhenDown = FALSE
  BY DEF Init
<1> QED
  BY <1>1, <1>2 DEF OneInv, WrittenSoFar, MarkerWaits, PanicSteps

LEMMA OneInvStories == OneInv => StoriesAgree
  BY DEF OneInv, WrittenSoFar, StoriesAgree, Quiet

(* One step of the proof per action; the operator that moves is the only one. *)
LEMMA NextOneInv ==
  ASSUME SingleOperator
  PROVE  TypeOK /\ TypeOK' /\ PcOK /\ OneInv /\ [Next]_vars => OneInv'
<1> SUFFICES ASSUME TypeOK, TypeOK', PcOK, OneInv, [Next]_vars, faults' = 0
             PROVE  OneInv'
  BY DEF OneInv
<1> USE LockdownAssumption DEF LockdownAssumption
<1>0. faults = 0
  <2>1. faults' \in {faults, faults + 1}
    BY DEF Next, vars, Crash, Restart, Step, PanicFlag, PanicClear, PanicMark,
           PanicEmit, UnlockCheck, UnlockFlag, UnlockUnmark, UnlockEmit,
           TurnReadGate, TurnPark
  <2>2. faults \in Nat
    BY DEF TypeOK
  <2> QED
    BY <2>1, <2>2
<1>1. CASE Crash
  <2>1. flag /\ Quiet => marker
    BY <1>0, <1>1, OneInvStories DEF StoriesAgree, Crash
  <2> QED
    BY <1>1, <2>1 DEF Crash, OneInv, MarkerWaits
<1>2. CASE Restart
  <2>1. \A o \in Operators : pc'[o] = "idle"
    BY <1>2 DEF Restart, PcOK, Threads
  <2> QED
    BY <1>2, <2>1 DEF Restart, OneInv, MarkerWaits, WrittenSoFar, PanicSteps
<1>3. ASSUME NEW o \in Operators, Step(o) PROVE OneInv'
  <2>1. \A p \in Operators : p = o
    BY <1>3 DEF SingleOperator
  <2>2. up /\ up' /\ WrittenSoFar(o)
    BY <1>0, <1>3
       DEF OneInv, Step, At, PanicFlag, PanicClear, PanicMark, PanicEmit,
           UnlockCheck, UnlockFlag, UnlockUnmark, UnlockEmit, TurnReadGate,
           TurnPark
  <2>3. WrittenSoFar(o)'
    <3> USE <1>0, <2>2
        DEF WrittenSoFar, TypeOK, Threads, Goto, At, PanicSteps, UnlockSteps,
            TurnSteps
    <3>1. CASE PanicFlag(o)
      BY <1>3, <3>1 DEF PanicFlag
    <3>2. CASE PanicClear(o)
      BY <1>3, <3>2 DEF PanicClear
    <3>3. CASE PanicMark(o)
      BY <1>3, <3>3 DEF PanicMark
    <3>4. CASE PanicEmit(o)
      BY <1>3, <3>4 DEF PanicEmit
    <3>5. CASE UnlockCheck(o)
      BY <1>3, <3>5 DEF UnlockCheck
    <3>6. CASE UnlockFlag(o)
      BY <1>3, <3>6 DEF UnlockFlag
    <3>7. CASE UnlockUnmark(o)
      BY <1>3, <3>7 DEF UnlockUnmark
    <3>8. CASE UnlockEmit(o)
      BY <1>3, <3>8 DEF UnlockEmit
    <3>9. ~TurnReadGate(o) /\ ~TurnPark(o)
      BY <1>3 DEF TurnReadGate, TurnPark, PcOK, At, TurnSteps, Threads
    <3> QED
      BY <1>3, <3>1, <3>2, <3>3, <3>4, <3>5, <3>6, <3>7, <3>8, <3>9 DEF Step
  <2> QED
    BY <1>3, <2>1, <2>2, <2>3 DEF OneInv, MarkerWaits
<1>4. ASSUME NEW t \in Turns, Step(t) PROVE OneInv'
  <2>1. t \notin Operators /\ t \in Threads
    BY <1>4 DEF Threads
  <2>2. TurnReadGate(t) \/ TurnPark(t)
    BY <1>4, <2>1
       DEF Step, PcOK, At, PanicFlag, PanicClear, PanicMark, PanicEmit,
           UnlockCheck, UnlockFlag, UnlockUnmark, UnlockEmit, PanicSteps,
           UnlockSteps
  <2>3. /\ UNCHANGED <<up, flag, marker, shown, faults, lockedWhenDown>>
        /\ \A o \in Operators : pc'[o] = pc[o]
    BY <2>1, <2>2 DEF TurnReadGate, TurnPark, Goto, TypeOK, Threads
  <2> QED
    BY <2>3 DEF OneInv, MarkerWaits, WrittenSoFar
<1>5. CASE UNCHANGED vars
  BY <1>5 DEF vars, OneInv, MarkerWaits, WrittenSoFar
<1> QED
  BY <1>1, <1>2, <1>3, <1>4, <1>5 DEF Next, Threads

(* With one operator the flag every gate reads, the marker a restart reads   *)
(* and the frame the HUD shows agree whenever nothing is under way (panic,   *)
(* unlock and init of lockdown.rs).                                          *)
THEOREM StoriesAgreeAlways ==
  ASSUME SingleOperator
  PROVE  Spec => []StoriesAgree
<1>1. IInv => TypeOK /\ PcOK
  BY DEF IInv
<1> QED
  BY <1>1, InitIInv, NextIInv, InitOneInv, NextOneInv, OneInvStories, PTL
     DEF Spec

(* With one operator a daemon that went down locked, with nothing under way, *)
(* comes up locked (init of lockdown.rs).                                    *)
THEOREM RestartKeepsStopAlways ==
  ASSUME SingleOperator
  PROVE  Spec => RestartKeepsStop
<1>1. IInv => TypeOK /\ PcOK
  BY DEF IInv
<1>2. OneInv /\ [Next]_vars =>
        [~up /\ up' /\ lockedWhenDown /\ faults = 0 => flag']_vars
  <2> SUFFICES ASSUME OneInv, Next, ~up, up', lockedWhenDown, faults = 0
               PROVE  flag'
    OBVIOUS
  <2>1. Restart
    BY DEF Next, Crash, Step, At, PanicFlag, PanicClear, PanicMark, PanicEmit,
           UnlockCheck, UnlockFlag, UnlockUnmark, UnlockEmit, TurnReadGate,
           TurnPark
  <2> QED
    BY <2>1 DEF Restart, OneInv, MarkerWaits
<1> QED
  BY <1>1, <1>2, InitIInv, NextIInv, InitOneInv, NextOneInv, PTL
     DEF Spec, RestartKeepsStop

-----------------------------------------------------------------------------
(***************************************************************************)
(* The overnight queue.                                                    *)
(***************************************************************************)

(* A set of numbers that is not empty has a least.                           *)
LEMMA LeastNatural ==
ASSUME NEW T \in SUBSET Nat, T # {}
PROVE  \E n \in T : \A m \in T : n <= m
<1> DEFINE Below == {0 .. n : n \in T}
<1>1. Below \subseteq FiniteSubsetsOf(Nat) /\ Below # {}
  <2>1. ASSUME NEW n \in T PROVE 0 .. n \in FiniteSubsetsOf(Nat)
    <3>1. IsFiniteSet(0 .. n) /\ 0 .. n \subseteq Nat
      BY FS_Interval
    <3> QED
      BY <3>1 DEF FiniteSubsetsOf
  <2> QED
    BY <2>1
<1>2. PICK s \in Below :
        \A r \in Below : ~ (<<r, s>> \in StrictSubsetOrdering(Nat))
  <2> HIDE DEF Below
  <2> QED
    BY <1>1, FS_StrictSubsetOrderingWellFounded, WFMin
<1>3. PICK n \in T : s = 0 .. n
  BY <1>2
<1>4. ASSUME NEW m \in T, m < n PROVE FALSE
  <2>1. 0 .. m \in Below /\ 0 .. m \subseteq s /\ 0 .. m # s
    BY <1>3, <1>4
  <2>2. <<0 .. m, s>> \in StrictSubsetOrdering(Nat)
    BY <2>1, <1>3 DEF StrictSubsetOrdering
  <2> QED
    BY <1>2, <2>1, <2>2
<1> QED
  BY <1>4

-----------------------------------------------------------------------------
(* What the operators on the list return. *)
TasksOf(q) == {q[i].task : i \in DOMAIN q}

LEMMA QueuedMembers ==
  ASSUME NEW q, NEW t
  PROVE  t \in Queued(q) <=> \E i \in DOMAIN q : q[i].status = "queued" /\ q[i].task = t
BY DEF Queued

LEMMA QueuedAreTasks ==
  ASSUME NEW q \in Seq(Entries)
  PROVE  Queued(q) \subseteq TasksOf(q) /\ TasksOf(q) \subseteq Tasks
<1>1. \A i \in DOMAIN q : q[i] \in Entries
  OBVIOUS
<1> QED
  BY <1>1 DEF Queued, TasksOf, Entries

(* Of no entries, nothing is queued. *)
LEMMA EmptyList ==
  /\ Sound(<<>>) /\ Queued(<<>>) = {} /\ TasksOf(<<>>) = {}
<1>1. <<>> \in Seq(Entries) /\ Len(<<>>) = 0 /\ DOMAIN <<>> = {}
  OBVIOUS
<1> QED
  BY <1>1, OvernightAssumption DEF OvernightAssumption, Sound, Queued, TasksOf

(* A task that is not listed is appended as queued. *)
LEMMA AppendedList ==
  ASSUME NEW q \in Seq(Entries), NEW t \in Tasks, t \notin TasksOf(q),
         Len(q) < MaxQueue, \A i, j \in DOMAIN q : q[i].task = q[j].task => i = j
  PROVE  /\ Sound(Append(q, NewEntry(t)))
         /\ Queued(Append(q, NewEntry(t))) = Queued(q) \cup {t}
         /\ TasksOf(Append(q, NewEntry(t))) = TasksOf(q) \cup {t}
<1> DEFINE n == Len(q)
           r == Append(q, NewEntry(t))
<1>1. NewEntry(t) \in Entries /\ NewEntry(t).task = t /\ NewEntry(t).status = "queued"
  BY DEF NewEntry, Entries, Statuses
<1>2. /\ n \in Nat /\ DOMAIN q = 1 .. n
      /\ r \in Seq(Entries) /\ Len(r) = n + 1 /\ DOMAIN r = 1 .. n + 1
      /\ \A i \in 1 .. n : r[i] = q[i]
      /\ r[n + 1] = NewEntry(t)
  BY <1>1, AppendProperties, LenProperties
<1> HIDE DEF n, r
<1>3. \A i \in 1 .. n + 1 : i \in 1 .. n \/ i = n + 1
  BY <1>2
<1>4. \A i \in 1 .. n : i \in 1 .. n + 1
  BY <1>2
<1>5. n + 1 \in 1 .. n + 1
  BY <1>2
<1>6. Queued(r) = Queued(q) \cup {t}
  <2>1. ASSUME NEW u \in Queued(r) PROVE u \in Queued(q) \cup {t}
    BY <1>1, <1>2, <1>3 DEF Queued
  <2>2. ASSUME NEW u \in Queued(q) PROVE u \in Queued(r)
    BY <1>2, <1>4 DEF Queued
  <2>3. t \in Queued(r)
    BY <1>1, <1>2, <1>5 DEF Queued
  <2> QED
    BY <2>1, <2>2, <2>3
<1>7. TasksOf(r) = TasksOf(q) \cup {t}
  <2>1. ASSUME NEW u \in TasksOf(r) PROVE u \in TasksOf(q) \cup {t}
    BY <1>1, <1>2, <1>3 DEF TasksOf
  <2>2. ASSUME NEW u \in TasksOf(q) PROVE u \in TasksOf(r)
    BY <1>2, <1>4 DEF TasksOf
  <2>3. t \in TasksOf(r)
    BY <1>1, <1>2, <1>5 DEF TasksOf
  <2> QED
    BY <2>1, <2>2, <2>3
<1>8. ASSUME NEW i \in DOMAIN r, NEW j \in DOMAIN r, r[i].task = r[j].task
      PROVE  i = j
  <2>1. \A k \in 1 .. n : q[k].task # t
    BY <1>2 DEF TasksOf
  <2> QED
    BY <1>1, <1>2, <1>3, <1>8, <2>1
<1>9. Len(r) <= MaxQueue
  BY <1>2, OvernightAssumption DEF OvernightAssumption, n
<1> QED
  BY <1>2, <1>6, <1>7, <1>8, <1>9 DEF Sound, r

(* An entry that is not queued leaves the list, and nothing else does. *)
LEMMA EvictedList ==
  ASSUME NEW q \in Seq(Entries), NEW k \in DOMAIN q, q[k].status # "queued",
         \A i, j \in DOMAIN q : q[i].task = q[j].task => i = j
  PROVE  /\ RemoveAt(q, k) \in Seq(Entries)
         /\ Len(RemoveAt(q, k)) = Len(q) - 1
         /\ Queued(RemoveAt(q, k)) = Queued(q)
         /\ TasksOf(RemoveAt(q, k)) \subseteq TasksOf(q)
         /\ \A i, j \in DOMAIN RemoveAt(q, k) :
              RemoveAt(q, k)[i].task = RemoveAt(q, k)[j].task => i = j
<1> DEFINE n == Len(q)
           r == RemoveAt(q, k)
<1>1. n \in Nat /\ DOMAIN q = 1 .. n /\ k \in 1 .. n
  BY LenProperties
<1>2. /\ r \in Seq(Entries) /\ Len(r) = n - 1
      /\ \A i \in 1 .. n - 1 : r[i] = IF i < k THEN q[i] ELSE q[i + 1]
  <2> DEFINE a == SubSeq(q, 1, k - 1)
             b == SubSeq(q, k + 1, n)
  <2>1. /\ a \in Seq(Entries) /\ Len(a) = k - 1
        /\ \A i \in 1 .. k - 1 : a[i] = q[i]
    BY <1>1, SubSeqProperties
  <2>2. /\ b \in Seq(Entries) /\ Len(b) = n - k
        /\ \A i \in 1 .. n - k : b[i] = q[k + i]
    <3>1. /\ b \in Seq(Entries)
          /\ Len(b) = IF k + 1 <= n THEN n - (k + 1) + 1 ELSE 0
          /\ \A i \in 1 .. n - (k + 1) + 1 : b[i] = q[(k + 1) + i - 1]
      BY <1>1, SubSeqProperties
    <3> HIDE DEF b
    <3>2. ASSUME NEW i \in 1 .. n - k PROVE b[i] = q[k + i]
      <4>1. (k + 1) + i - 1 = k + i /\ i \in 1 .. n - (k + 1) + 1
        BY <1>1
      <4> QED
        BY <3>1, <4>1
    <3> QED
      BY <1>1, <3>1, <3>2
  <2>3. r = a \o b
    BY DEF RemoveAt
  <2>8. a \in Seq(Entries) /\ b \in Seq(Entries)
    BY <2>1, <2>2
  <2> HIDE DEF a, b, r
  <2>9. /\ a \o b \in Seq(Entries) /\ Len(a \o b) = Len(a) + Len(b)
        /\ \A i \in 1 .. Len(a) + Len(b) :
             (a \o b)[i] = IF i <= Len(a) THEN a[i] ELSE b[i - Len(a)]
    BY ONLY <2>8, ConcatProperties
  <2>4. /\ r \in Seq(Entries) /\ Len(r) = Len(a) + Len(b)
        /\ \A i \in 1 .. Len(a) + Len(b) :
             r[i] = IF i <= Len(a) THEN a[i] ELSE b[i - Len(a)]
    BY <2>3, <2>9
  <2>7. Len(a) + Len(b) = n - 1 /\ n \in Int /\ k \in Int
    BY <1>1, <2>1, <2>2
  <2>6. \A i \in 1 .. n - 1 :
          r[i] = IF i <= k - 1 THEN a[i] ELSE b[i - (k - 1)]
    BY <2>1, <2>4, <2>7
  <2>5. ASSUME NEW i \in 1 .. n - 1
        PROVE  r[i] = IF i < k THEN q[i] ELSE q[i + 1]
    <3>1. CASE i < k
      <4>1. i \in 1 .. k - 1 /\ i <= k - 1
        BY <2>7, <3>1
      <4> QED
        BY <2>1, <2>6, <3>1, <4>1
    <3>2. CASE ~ (i < k)
      <4>1. i - (k - 1) \in 1 .. n - k /\ k + (i - (k - 1)) = i + 1
        BY <1>1, <3>2
      <4>2. r[i] = b[i - (k - 1)]
        <5>1. ~ (i <= k - 1)
          BY <2>7, <3>2
        <5> QED
          BY <2>6, <5>1
      <4> QED
        BY <2>2, <3>2, <4>1, <4>2
    <3> QED
      BY <3>1, <3>2
  <2> QED
    BY <2>4, <2>5, <2>7
<1> HIDE DEF n, r
<1>3. DOMAIN r = 1 .. n - 1
  BY <1>1, <1>2, LenProperties
<1> DEFINE src(i) == IF i < k THEN i ELSE i + 1
<1>4. \A i \in DOMAIN r : src(i) \in DOMAIN q /\ src(i) # k /\ r[i] = q[src(i)]
  BY <1>1, <1>2, <1>3
<1>5. \A i, j \in DOMAIN r : src(i) = src(j) => i = j
  BY <1>1, <1>3
<1>6. \A j \in DOMAIN q : j # k => \E i \in DOMAIN r : src(i) = j
  <2> SUFFICES ASSUME NEW j \in DOMAIN q, j # k
               PROVE  \E i \in DOMAIN r : src(i) = j
    OBVIOUS
  <2>1. CASE j < k
    <3>1. j \in DOMAIN r /\ src(j) = j
      BY <1>1, <1>3, <2>1
    <3> QED
      BY <3>1
  <2>2. CASE j > k
    <3>1. j - 1 \in DOMAIN r /\ src(j - 1) = j
      BY <1>1, <1>3, <2>2
    <3> QED
      BY <3>1
  <2> QED
    BY <1>1, <2>1, <2>2
<1> HIDE DEF src
<1>7. Queued(r) = Queued(q)
  <2>1. ASSUME NEW u \in Queued(r) PROVE u \in Queued(q)
    BY <1>4 DEF Queued
  <2>2. ASSUME NEW u \in Queued(q) PROVE u \in Queued(r)
    <3>1. PICK j \in DOMAIN q : q[j].status = "queued" /\ q[j].task = u
      BY DEF Queued
    <3>2. PICK i \in DOMAIN r : src(i) = j
      BY <3>1, <1>6
    <3> QED
      BY <3>1, <3>2, <1>4 DEF Queued
  <2> QED
    BY <2>1, <2>2
<1>8. TasksOf(r) \subseteq TasksOf(q)
  BY <1>4 DEF TasksOf
<1>9. ASSUME NEW i \in DOMAIN r, NEW j \in DOMAIN r, r[i].task = r[j].task
      PROVE  i = j
  BY <1>4, <1>5, <1>9
<1> QED
  BY <1>2, <1>7, <1>8, <1>9 DEF r, n

(* plan_enqueue keeps what was queued, adds the task, and stays sound.       *)
LEMMA PlannedList ==
  ASSUME NEW q, Sound(q), NEW t \in Tasks, t \notin TasksOf(q),
         NEW r \in PlanEnqueue(q, t)
  PROVE  /\ Sound(r)
         /\ Queued(r) = Queued(q) \cup {t}
         /\ TasksOf(r) \subseteq TasksOf(q) \cup {t}
<1>1. /\ q \in Seq(Entries) /\ Len(q) <= MaxQueue
      /\ \A i, j \in DOMAIN q : q[i].task = q[j].task => i = j
  BY DEF Sound
<1> DEFINE done == {i \in DOMAIN q : q[i].status # "queued"}
<1>2. CASE Len(q) < MaxQueue
  <2>1. r = Append(q, NewEntry(t))
    BY <1>2 DEF PlanEnqueue
  <2> QED
    BY <1>1, <1>2, <2>1, AppendedList
<1>3. CASE ~ (Len(q) < MaxQueue)
  <2>1. done # {} /\ r = Append(RemoveAt(q, Oldest(q, done)), NewEntry(t))
    BY <1>3 DEF PlanEnqueue
  <2>2. done \in SUBSET Nat
    BY <1>1
  <2>3. Oldest(q, done) \in done
    <3>1. \E i \in done : \A j \in done : i <= j
      BY <2>1, <2>2, LeastNatural
    <3> HIDE DEF done
    <3> QED
      BY <3>1 DEF Oldest
  <2> DEFINE k == Oldest(q, done)
             s == RemoveAt(q, k)
  <2>4. k \in DOMAIN q /\ q[k].status # "queued"
    BY <2>3
  <2> HIDE DEF k
  <2>5. /\ s \in Seq(Entries) /\ Len(s) = Len(q) - 1
        /\ Queued(s) = Queued(q) /\ TasksOf(s) \subseteq TasksOf(q)
        /\ \A i, j \in DOMAIN s : s[i].task = s[j].task => i = j
    BY <1>1, <2>4, EvictedList
  <2>6. r = Append(s, NewEntry(t))
    BY <2>1 DEF k
  <2> HIDE DEF s
  <2>7. Len(s) < MaxQueue
    <3>1. Len(q) \in Nat /\ MaxQueue \in Nat
      BY <1>1, OvernightAssumption DEF OvernightAssumption
    <3> QED
      BY <3>1, <1>1, <2>5
  <2>8. t \notin TasksOf(s)
    BY <2>5
  <2>9. /\ Sound(r) /\ Queued(r) = Queued(s) \cup {t}
        /\ TasksOf(r) = TasksOf(s) \cup {t}
    BY <2>5, <2>6, <2>7, <2>8, AppendedList
  <2> QED
    BY <2>5, <2>9
<1> QED
  BY <1>2, <1>3

(* The first entry of some queued tasks is one of them.                      *)
LEMMA FirstEntry ==
  ASSUME NEW q \in Seq(Entries), NEW S \in SUBSET Queued(q), S # {}
  PROVE  First(q, S) \in DOMAIN q /\ q[First(q, S)].task \in S
<1> DEFINE P == {i \in DOMAIN q : q[i].task \in S}
<1>1. P \in SUBSET Nat /\ P # {}
  BY DEF Queued
<1>2. PICK i \in P : \A j \in P : i <= j
  BY <1>1, LeastNatural
<1>3. \E n \in DOMAIN q : /\ q[n].task \in S
                          /\ \A j \in DOMAIN q : q[j].task \in S => n <= j
  BY <1>2
<1> QED
  BY <1>3 DEF First

(* Marking one entry takes its task, and no other, from what is queued.      *)
LEMMA MarkedList ==
  ASSUME NEW q, Sound(q), NEW i \in DOMAIN q, NEW st \in {"done", "failed"}
  PROVE  /\ Sound([q EXCEPT ![i].status = st])
         /\ Queued([q EXCEPT ![i].status = st]) = Queued(q) \ {q[i].task}
         /\ TasksOf([q EXCEPT ![i].status = st]) = TasksOf(q)
<1> DEFINE e == [q[i] EXCEPT !.status = st]
           r == [q EXCEPT ![i] = e]
<1>1. /\ q \in Seq(Entries) /\ Len(q) <= MaxQueue
      /\ \A k, j \in DOMAIN q : q[k].task = q[j].task => k = j
      /\ DOMAIN q = 1 .. Len(q)
  BY LenProperties DEF Sound
<1>2. q[i] \in Entries
  BY <1>1
<1>3. e \in Entries /\ e.task = q[i].task /\ e.status = st
  BY <1>2 DEF Entries, Statuses
<1> HIDE DEF e
<1>4. /\ r \in Seq(Entries) /\ Len(r) = Len(q)
      /\ \A j \in 1 .. Len(q) : r[j] = IF j = i THEN e ELSE q[j]
  BY <1>1, <1>3, ExceptSeq
<1>5. DOMAIN r = DOMAIN q
  BY <1>1
<1>6. \A j \in DOMAIN q : /\ r[j].task = q[j].task
                          /\ r[j].status = IF j = i THEN st ELSE q[j].status
  BY <1>1, <1>3, <1>4
<1>7. r = [q EXCEPT ![i].status = st]
  BY DEF e
<1> HIDE DEF r
<1>8. Sound(r)
  BY <1>1, <1>4, <1>5, <1>6 DEF Sound
<1>9. Queued(r) = Queued(q) \ {q[i].task}
  <2>1. ASSUME NEW u \in Queued(r) PROVE u \in Queued(q) \ {q[i].task}
    <3>1. PICK j \in DOMAIN q : r[j].status = "queued" /\ r[j].task = u
      BY <1>5 DEF Queued
    <3>2. j # i
      BY <3>1, <1>6
    <3>3. q[j].status = "queued" /\ q[j].task = u
      BY <3>1, <3>2, <1>6
    <3>4. q[j].task # q[i].task
      BY <3>2, <1>1
    <3> QED
      BY <3>3, <3>4 DEF Queued
  <2>2. ASSUME NEW u \in Queued(q), u # q[i].task PROVE u \in Queued(r)
    <3>1. PICK j \in DOMAIN q : q[j].status = "queued" /\ q[j].task = u
      BY DEF Queued
    <3>2. j # i
      BY <3>1, <2>2
    <3> QED
      BY <3>1, <3>2, <1>5, <1>6 DEF Queued
  <2> QED
    BY <2>1, <2>2
<1>10. TasksOf(r) = TasksOf(q)
  BY <1>5, <1>6 DEF TasksOf
<1> QED
  BY <1>7, <1>8, <1>9, <1>10

-----------------------------------------------------------------------------
(* The file and its copies are sound, and hold only tasks that were asked    *)
(* for; so no task is queued twice, and none ran that was not asked for.     *)
ListOK(q) == Sound(q) /\ TasksOf(q) \subseteq asked

QueueShapes ==
  /\ ListOK(file) /\ ListOK(runner.copy) /\ \A v \in Verbs : ListOK(verb[v].copy)
  /\ runner \in [pc : {"idle", "run", "stamp"}, copy : Seq(Entries),
                 did : SUBSET Tasks]
  /\ verb \in [Verbs -> [pc : {"idle", "write"}, copy : Seq(Entries),
                         task : SUBSET Tasks]]
  /\ \A v \in Verbs : verb[v].pc = "idle" => verb[v] = NoVerb
  /\ fit \in BOOLEAN /\ rested \in BOOLEAN /\ losses \in 0 .. MaxLosses
  /\ asked \subseteq Tasks /\ kept \subseteq Tasks /\ redo \subseteq Tasks
  /\ runs \in [Tasks -> 0 .. 2]

Asked == \A t \in Tasks : runs[t] # 0 => t \in asked

(* The kept tasks are queued in every copy that may be written back, but for *)
(* those the pass under way has completed.                                   *)
KeptOK ==
  /\ AckedKept
  /\ \A v \in Verbs : verb[v].pc = "write" =>
       kept \cup verb[v].task \subseteq Queued(verb[v].copy)
  /\ runner.pc = "run" => kept \ runner.did \subseteq Queued(runner.copy)

(* A task that ran, and whose result is not lost, waits in no list; but for  *)
(* the lists that the pass under way, which completed it, did not write yet. *)
Settled(t) == t \notin Queued(file) /\ \A v \in Verbs : t \notin Queued(verb[v].copy)

OnceOK ==
  /\ RunOnce
  /\ runner.pc = "run" => runner.did \cap Queued(runner.copy) = {}
  /\ \A t \in Tasks : runs[t] # 0 /\ t \notin redo =>
       /\ runner.pc = "run" => t \notin Queued(runner.copy)
       /\ (runner.pc = "run" /\ t \in runner.did) \/ Settled(t)

QueueInv == QueueShapes /\ Asked /\ KeptOK /\ OnceOK

-----------------------------------------------------------------------------
LEMMA InitQueueInv == QueueInit => QueueInv
<1> SUFFICES ASSUME QueueInit PROVE QueueInv
  OBVIOUS
<1> USE OvernightAssumption DEF QueueInit, OvernightAssumption
<1>1. ListOK(<<>>)
  BY EmptyList DEF ListOK
<1>2. runner \in [pc : {"idle", "run", "stamp"}, copy : Seq(Entries),
                  did : SUBSET Tasks]
  BY DEF Idle
<1>3. NoVerb \in [pc : {"idle", "write"}, copy : Seq(Entries), task : SUBSET Tasks]
  BY DEF NoVerb
<1>4. \A v \in Verbs : verb[v] = NoVerb /\ verb[v].copy = <<>> /\ verb[v].pc = "idle"
  BY DEF NoVerb
<1>5. runner.copy = <<>> /\ runner.pc = "idle"
  BY DEF Idle
<1>6. losses \in 0 .. MaxLosses /\ runs \in [Tasks -> 0 .. 2]
  OBVIOUS
<1>7. QueueShapes
  BY <1>1, <1>2, <1>3, <1>4, <1>5, <1>6 DEF QueueShapes
<1>8. Asked /\ KeptOK
  BY <1>4, <1>5 DEF Asked, KeptOK, AckedKept
<1>9. OnceOK
  BY <1>5 DEF OnceOK, RunOnce
<1> QED
  BY <1>7, <1>8, <1>9 DEF QueueInv

(* What the two steps that make a new list leave in it. *)
LEMMA EnqueueEffect ==
  ASSUME QueueShapes, NEW v \in Verbs, NEW t \in Tasks, Enqueue(v, t)
  PROVE  \E q : /\ Sound(q) /\ Queued(q) = Queued(file) \cup {t}
                /\ TasksOf(q) \subseteq TasksOf(file) \cup {t}
                /\ verb' = [verb EXCEPT ![v] = [pc |-> "write", copy |-> q,
                                                task |-> {t}]]
<1>1. PICK q \in PlanEnqueue(file, t) :
        verb' = [verb EXCEPT ![v] = [pc |-> "write", copy |-> q, task |-> {t}]]
  BY DEF Enqueue
<1>2. Sound(file) /\ t \notin TasksOf(file)
  BY DEF Enqueue, QueueShapes, ListOK
<1>3. /\ Sound(q) /\ Queued(q) = Queued(file) \cup {t}
      /\ TasksOf(q) \subseteq TasksOf(file) \cup {t}
  BY <1>2, PlannedList
<1> QED
  BY <1>1, <1>3

LEMMA RunTaskEffect ==
  ASSUME QueueShapes, RunTask
  PROVE  \E t \in Queued(runner.copy) \ runner.did, q \in Seq(Entries) :
           /\ Sound(q) /\ Queued(q) = Queued(runner.copy) \ {t}
           /\ TasksOf(q) = TasksOf(runner.copy)
           /\ runner.pc = "run" /\ runner'.pc = "run"
           /\ runner' = [runner EXCEPT !.copy = q, !.did = @ \cup {t}]
           /\ runs' = [runs EXCEPT ![t] = IF @ < 2 THEN @ + 1 ELSE 2]
<1> DEFINE S == Queued(runner.copy) \ runner.did
           i == First(runner.copy, S)
           t == runner.copy[i].task
<1>1. S # {} /\ runner.pc = "run"
  BY DEF RunTask, Pending
<1>2. /\ runner.copy \in Seq(Entries) /\ Sound(runner.copy)
      /\ runner \in [pc : {"idle", "run", "stamp"}, copy : Seq(Entries),
                     did : SUBSET Tasks]
  BY DEF QueueShapes, ListOK
<1>3. i \in DOMAIN runner.copy /\ t \in S
  BY <1>1, <1>2, FirstEntry
<1>4. PICK st \in {"done", "failed"} :
        runner' = [runner EXCEPT !.copy[i].status = st, !.did = @ \cup {t}]
  BY DEF RunTask, Pending
<1>5. runs' = [runs EXCEPT ![t] = IF @ < 2 THEN @ + 1 ELSE 2]
  BY DEF RunTask, Pending
<1> HIDE DEF i
<1> DEFINE q == [runner.copy EXCEPT ![i].status = st]
<1>6. /\ Sound(q) /\ Queued(q) = Queued(runner.copy) \ {t}
      /\ TasksOf(q) = TasksOf(runner.copy)
  BY <1>2, <1>3, MarkedList
<1>7. runner' = [runner EXCEPT !.copy = q, !.did = @ \cup {t}]
  BY <1>4
<1> HIDE DEF q, t, S
<1>8. runner'.pc = "run"
  BY <1>1, <1>2, <1>7
<1>9. t \in Queued(runner.copy) \ runner.did /\ q \in Seq(Entries)
  BY <1>3, <1>6 DEF S, Sound
<1> QED
  BY <1>1, <1>5, <1>6, <1>7, <1>8, <1>9

(* The end of the process, torn write or not. *)
LEMMA StopsEffect ==
  ASSUME QueueShapes, Dies \/ DiesTorn
  PROVE  /\ runner' = Idle /\ runner'.pc = "idle" /\ runner'.copy = <<>>
         /\ \A v \in Verbs : verb'[v] = NoVerb /\ verb'[v].copy = <<>>
                             /\ verb'[v].pc = "idle"
         /\ verb' = [v \in Verbs |-> NoVerb]
         /\ redo' = redo \cup runner.did
         /\ UNCHANGED <<fit, rested, asked, runs>>
         /\ losses < MaxLosses /\ losses' = losses + 1
         /\ (file' = file /\ kept' = kept) \/ (file' = <<>> /\ kept' = {})
<1>1. Stops
  BY DEF Dies, DiesTorn
<1>2. (file' = file /\ kept' = kept) \/ (file' = <<>> /\ kept' = {})
  BY DEF Dies, DiesTorn
<1> QED
  BY <1>1, <1>2 DEF Stops, Idle, NoVerb

LEMMA QueueShapesKept ==
  ASSUME QueueShapes, [QueueNext]_queueVars
  PROVE  QueueShapes'
<1> USE OvernightAssumption DEF OvernightAssumption
<1> DEFINE Runners == [pc : {"idle", "run", "stamp"}, copy : Seq(Entries),
                       did : SUBSET Tasks]
           Verbals == [pc : {"idle", "write"}, copy : Seq(Entries),
                       task : SUBSET Tasks]
<1>0. /\ runner \in Runners /\ verb \in [Verbs -> Verbals]
      /\ Idle \in Runners /\ NoVerb \in Verbals
      /\ NoVerb.copy = <<>> /\ Idle.copy = <<>> /\ NoVerb.pc = "idle"
  BY DEF QueueShapes, Idle, NoVerb
<1>a. /\ asked \subseteq Tasks /\ kept \subseteq Tasks /\ redo \subseteq Tasks
      /\ runs \in [Tasks -> 0 .. 2] /\ losses \in 0 .. MaxLosses
      /\ fit \in BOOLEAN /\ rested \in BOOLEAN
      /\ ListOK(file) /\ ListOK(runner.copy) /\ \A v \in Verbs : ListOK(verb[v].copy)
      /\ \A v \in Verbs : verb[v].pc = "idle" => verb[v] = NoVerb
  BY DEF QueueShapes
<1>b. ListOK(<<>>) /\ Sound(<<>>) /\ TasksOf(<<>>) = {}
  BY EmptyList DEF ListOK
<1>1. ASSUME NEW v \in Verbs, NEW t \in Tasks, Enqueue(v, t) PROVE QueueShapes'
  <2>1. PICK q : /\ Sound(q) /\ TasksOf(q) \subseteq TasksOf(file) \cup {t}
                 /\ verb' = [verb EXCEPT ![v] = [pc |-> "write", copy |-> q,
                                                 task |-> {t}]]
    BY <1>1, EnqueueEffect
  <2>2. /\ asked' = asked \cup {t}
        /\ UNCHANGED <<file, fit, rested, runner, losses, kept, runs, redo>>
    BY <1>1 DEF Enqueue
  <2>3. q \in Seq(Entries)
    BY <2>1 DEF Sound
  <2>4. /\ verb' \in [Verbs -> Verbals]
        /\ \A w \in Verbs : verb'[w].pc = "idle" => verb'[w] = NoVerb
        /\ verb'[v].copy = q
        /\ \A w \in Verbs : w # v => verb'[w] = verb[w]
    BY <1>0, <1>a, <2>1, <2>3
  <2>5. ListOK(file)' /\ ListOK(runner.copy)' /\ \A w \in Verbs : ListOK(verb[w].copy)'
    <3>1. \A l : ListOK(l) => Sound(l) /\ TasksOf(l) \subseteq asked'
      BY <2>2 DEF ListOK
    <3>2. TasksOf(q) \subseteq asked'
      BY <1>a, <2>1, <2>2 DEF ListOK
    <3>3. file' = file /\ runner'.copy = runner.copy
      BY <2>2
    <3>4. ASSUME NEW w \in Verbs
          PROVE  Sound(verb'[w].copy) /\ TasksOf(verb'[w].copy) \subseteq asked'
      BY <1>a, <2>1, <2>4, <3>1, <3>2
    <3> QED
      BY <1>a, <3>1, <3>3, <3>4 DEF ListOK
  <2> QED
    BY <1>0, <1>a, <2>2, <2>4, <2>5 DEF QueueShapes
<1>2. ASSUME NEW v \in Verbs, NEW t \in Tasks, Refuse(v, t) PROVE QueueShapes'
  <2>1. /\ asked' = asked \cup {t}
        /\ UNCHANGED <<file, fit, rested, runner, verb, losses, kept, runs, redo>>
    BY <1>2 DEF Refuse
  <2>2. ListOK(file)' /\ ListOK(runner.copy)' /\ \A w \in Verbs : ListOK(verb[w].copy)'
    BY <1>a, <2>1 DEF ListOK
  <2> QED
    BY <1>0, <1>a, <2>1, <2>2 DEF QueueShapes
<1>3. ASSUME NEW v \in Verbs, Acknowledge(v) \/ WriteFails(v) PROVE QueueShapes'
  <2>1. /\ verb' = [verb EXCEPT ![v] = NoVerb]
        /\ file' \in {file, verb[v].copy}
        /\ UNCHANGED <<fit, rested, runner, asked, runs, redo>>
        /\ kept' \subseteq kept \cup verb[v].task
        /\ losses' \in 0 .. MaxLosses
    BY <1>3, <1>a DEF Acknowledge, WriteFails
  <2>2. /\ verb' \in [Verbs -> Verbals] /\ verb'[v] = NoVerb
        /\ \A w \in Verbs : verb'[w].pc = "idle" => verb'[w] = NoVerb
        /\ \A w \in Verbs : w # v => verb'[w] = verb[w]
    BY <1>0, <1>a, <2>1
  <2>3. ListOK(file)' /\ ListOK(runner.copy)' /\ \A w \in Verbs : ListOK(verb[w].copy)'
    <3>1. ASSUME NEW w \in Verbs PROVE ListOK(verb'[w].copy)
      BY <1>0, <1>a, <1>b, <2>2
    <3>2. ListOK(file') /\ ListOK(runner'.copy)
      BY <1>a, <2>1
    <3> QED
      BY <2>1, <3>1, <3>2 DEF ListOK
  <2>4. kept' \subseteq Tasks
    BY <1>0, <1>a, <2>1
  <2> QED
    BY <1>0, <1>a, <2>1, <2>2, <2>3, <2>4 DEF QueueShapes
<1>4. CASE BeginPass
  <2>1. /\ runner' = [pc |-> "run", copy |-> file, did |-> {}]
        /\ UNCHANGED <<file, fit, rested, verb, losses, asked, kept, runs, redo>>
    BY <1>4 DEF BeginPass
  <2>2. runner' \in Runners /\ runner'.copy = file
    BY <1>a, <2>1 DEF ListOK, Sound
  <2>3. ListOK(file)' /\ ListOK(runner.copy)' /\ \A w \in Verbs : ListOK(verb[w].copy)'
    BY <1>a, <2>1, <2>2 DEF ListOK
  <2> QED
    BY <1>0, <1>a, <2>1, <2>2, <2>3 DEF QueueShapes
<1>5. CASE RunTask
  <2>1. PICK t \in Queued(runner.copy) \ runner.did, q \in Seq(Entries) :
           /\ Sound(q) /\ TasksOf(q) = TasksOf(runner.copy)
           /\ runner' = [runner EXCEPT !.copy = q, !.did = @ \cup {t}]
           /\ runs' = [runs EXCEPT ![t] = IF @ < 2 THEN @ + 1 ELSE 2]
    BY <1>5, RunTaskEffect
  <2>2. UNCHANGED <<file, fit, rested, verb, losses, asked, kept, redo>>
    BY <1>5 DEF RunTask
  <2>3. t \in Tasks /\ q \in Seq(Entries)
    BY <1>0, <2>1, QueuedAreTasks DEF Sound
  <2>4. runner' \in Runners /\ runner'.copy = q
    BY <1>0, <2>1, <2>3
  <2>5. runs' \in [Tasks -> 0 .. 2]
    BY <1>a, <2>1, <2>3
  <2>6. ListOK(file)' /\ ListOK(runner.copy)' /\ \A w \in Verbs : ListOK(verb[w].copy)'
    BY <1>a, <2>1, <2>2, <2>4 DEF ListOK
  <2> QED
    BY <1>0, <1>a, <2>2, <2>4, <2>5, <2>6 DEF QueueShapes
<1>6. CASE Save \/ SaveFails
  <2>1. /\ runner' = [runner EXCEPT !.pc = "stamp"]
        /\ file' \in {file, runner.copy}
        /\ kept' \subseteq kept /\ redo' \subseteq redo \cup runner.did
        /\ losses' \in 0 .. MaxLosses
        /\ UNCHANGED <<fit, rested, verb, asked, runs>>
    BY <1>6, <1>a DEF Save, SaveFails
  <2>2. runner' \in Runners /\ runner'.copy = runner.copy
    BY <1>0, <2>1
  <2>3. ListOK(file)' /\ ListOK(runner.copy)' /\ \A w \in Verbs : ListOK(verb[w].copy)'
    BY <1>a, <2>1, <2>2 DEF ListOK
  <2>4. redo' \subseteq Tasks /\ kept' \subseteq Tasks
    BY <1>0, <1>a, <2>1
  <2> QED
    BY <1>0, <1>a, <2>1, <2>2, <2>3, <2>4 DEF QueueShapes
<1>7. CASE Stamp
  <2>1. /\ runner' = Idle /\ rested' = FALSE
        /\ UNCHANGED <<file, fit, verb, losses, asked, kept, runs, redo>>
    BY <1>7 DEF Stamp
  <2>2. ListOK(file)' /\ ListOK(runner.copy)' /\ \A w \in Verbs : ListOK(verb[w].copy)'
    BY <1>0, <1>a, <1>b, <2>1 DEF ListOK
  <2> QED
    BY <1>0, <1>a, <2>1, <2>2 DEF QueueShapes
<1>8. CASE Rests \/ ToggleFit \/ UNCHANGED queueVars
  <2>1. /\ UNCHANGED <<file, runner, verb, losses, asked, kept, runs, redo>>
        /\ rested' \in BOOLEAN /\ fit' \in BOOLEAN
    BY <1>8, <1>a DEF Rests, ToggleFit, queueVars
  <2>2. ListOK(file)' /\ ListOK(runner.copy)' /\ \A w \in Verbs : ListOK(verb[w].copy)'
    BY <1>a, <2>1 DEF ListOK
  <2> QED
    BY <1>0, <1>a, <2>1, <2>2 DEF QueueShapes
<1>9. CASE Dies \/ DiesTorn
  <2>1. /\ runner' = Idle /\ verb' = [v \in Verbs |-> NoVerb]
        /\ redo' = redo \cup runner.did /\ kept' \in {kept, {}}
        /\ UNCHANGED <<fit, rested, asked, runs>>
        /\ losses' \in 0 .. MaxLosses
        /\ file' \in {file, <<>>}
    BY <1>9, <1>a, StopsEffect
  <2>2. ListOK(file)' /\ ListOK(runner.copy)' /\ \A w \in Verbs : ListOK(verb[w].copy)'
    BY <1>0, <1>a, <1>b, <2>1 DEF ListOK
  <2>3. redo' \subseteq Tasks /\ kept' \subseteq Tasks
    BY <1>0, <1>a, <2>1
  <2>4. \A v \in Verbs : verb'[v] = NoVerb
    BY <2>1
  <2>5. verb' \in [Verbs -> Verbals]
    BY <1>0, <2>1
  <2> QED
    BY <1>0, <1>a, <2>1, <2>2, <2>3, <2>4, <2>5 DEF QueueShapes
<1> QED
  BY <1>1, <1>2, <1>3, <1>4, <1>5, <1>6, <1>7, <1>8, <1>9 DEF QueueNext, Runner

LEMMA AskedKept ==
  ASSUME QueueShapes, Asked, [QueueNext]_queueVars
  PROVE  Asked'
<1>1. CASE RunTask
  <2>1. PICK t \in Queued(runner.copy) \ runner.did, q \in Seq(Entries) :
           runs' = [runs EXCEPT ![t] = IF @ < 2 THEN @ + 1 ELSE 2]
    BY <1>1, RunTaskEffect
  <2>2. t \in asked /\ runs \in [Tasks -> 0 .. 2]
    BY <2>1, QueuedAreTasks DEF QueueShapes, ListOK
  <2>3. asked' = asked
    BY <1>1 DEF RunTask
  <2> QED
    BY <2>1, <2>2, <2>3 DEF Asked
<1>2. ASSUME ~RunTask PROVE runs' = runs /\ asked \subseteq asked'
  BY <1>2 DEF QueueNext, Runner, Enqueue, Refuse, Acknowledge, WriteFails, BeginPass,
       Save, SaveFails, Stamp, Rests, ToggleFit, Dies, DiesTorn, Stops, queueVars
<1> QED
  BY <1>1, <1>2 DEF Asked

-----------------------------------------------------------------------------
(* The kept tasks. *)
LEMMA KeptKept ==
  ASSUME QueueShapes, KeptOK, [QueueNext]_queueVars
  PROVE  KeptOK'
<1>0. /\ runner \in [pc : {"idle", "run", "stamp"}, copy : Seq(Entries),
                     did : SUBSET Tasks]
      /\ verb \in [Verbs -> [pc : {"idle", "write"}, copy : Seq(Entries),
                             task : SUBSET Tasks]]
      /\ NoVerb.pc = "idle" /\ Idle.pc = "idle"
  BY DEF QueueShapes, NoVerb, Idle
<1>a. /\ kept \subseteq Queued(file)
      /\ \A v \in Verbs : verb[v].pc = "write" =>
           kept \cup verb[v].task \subseteq Queued(verb[v].copy)
      /\ runner.pc = "run" => kept \ runner.did \subseteq Queued(runner.copy)
  BY DEF KeptOK, AckedKept
<1>1. ASSUME NEW v \in Verbs, NEW t \in Tasks, Enqueue(v, t) PROVE KeptOK'
  <2>1. PICK q : /\ Queued(q) = Queued(file) \cup {t}
                 /\ verb' = [verb EXCEPT ![v] = [pc |-> "write", copy |-> q,
                                                 task |-> {t}]]
    BY <1>1, EnqueueEffect
  <2>2. UNCHANGED <<file, runner, kept>>
    BY <1>1 DEF Enqueue
  <2>3. /\ verb'[v].copy = q /\ verb'[v].task = {t}
        /\ \A w \in Verbs : w # v => verb'[w] = verb[w]
    BY <1>0, <2>1
  <2>4. ASSUME NEW w \in Verbs, verb'[w].pc = "write"
        PROVE  kept' \cup verb'[w].task \subseteq Queued(verb'[w].copy)
    BY <1>a, <2>1, <2>2, <2>3, <2>4
  <2> QED
    BY <1>a, <2>2, <2>4 DEF KeptOK, AckedKept
<1>2. ASSUME NEW v \in Verbs, Acknowledge(v) PROVE KeptOK'
  <2>1. /\ verb[v].pc = "write" /\ file' = verb[v].copy
        /\ verb' = [verb EXCEPT ![v] = NoVerb]
        /\ UNCHANGED runner
    BY <1>2 DEF Acknowledge
  <2>2. \A w \in Verbs : verb'[w] = IF w = v THEN NoVerb ELSE verb[w]
    BY <1>0, <2>1
  <2>3. CASE runner.pc = "idle" /\ Reading = {v}
    <3>1. kept' = kept \cup verb[v].task
      BY <1>2, <2>3 DEF Acknowledge
    <3>2. ASSUME NEW w \in Verbs PROVE verb'[w].pc # "write"
      BY <1>0, <2>2, <2>3 DEF Reading
    <3> QED
      BY <1>a, <2>1, <2>3, <3>1, <3>2 DEF KeptOK, AckedKept
  <2>4. CASE ~ (runner.pc = "idle" /\ Reading = {v})
    <3>1. kept' = kept
      BY <1>2, <2>4 DEF Acknowledge
    <3>2. ASSUME NEW w \in Verbs, verb'[w].pc = "write"
          PROVE  kept' \cup verb'[w].task \subseteq Queued(verb'[w].copy)
      BY <1>0, <1>a, <2>2, <3>1, <3>2
    <3> QED
      BY <1>a, <2>1, <3>1, <3>2 DEF KeptOK, AckedKept
  <2> QED
    BY <2>3, <2>4
<1>3. ASSUME NEW v \in Verbs, WriteFails(v) PROVE KeptOK'
  <2>1. /\ verb' = [verb EXCEPT ![v] = NoVerb]
        /\ UNCHANGED <<file, runner, kept>>
    BY <1>3 DEF WriteFails
  <2>2. \A w \in Verbs : verb'[w] = IF w = v THEN NoVerb ELSE verb[w]
    BY <1>0, <2>1
  <2>3. ASSUME NEW w \in Verbs, verb'[w].pc = "write"
        PROVE  kept' \cup verb'[w].task \subseteq Queued(verb'[w].copy)
    BY <1>0, <1>a, <2>1, <2>2, <2>3
  <2> QED
    BY <1>a, <2>1, <2>3 DEF KeptOK, AckedKept
<1>4. CASE BeginPass
  <2>1. /\ runner'.copy = file /\ UNCHANGED <<file, verb, kept>>
    BY <1>4 DEF BeginPass
  <2> QED
    BY <1>a, <2>1 DEF KeptOK, AckedKept
<1>5. CASE RunTask
  <2>1. PICK t \in Queued(runner.copy) \ runner.did, q \in Seq(Entries) :
           /\ Queued(q) = Queued(runner.copy) \ {t}
           /\ runner.pc = "run"
           /\ runner' = [runner EXCEPT !.copy = q, !.did = @ \cup {t}]
    BY <1>5, RunTaskEffect
  <2>2. UNCHANGED <<file, verb, kept>>
    BY <1>5 DEF RunTask
  <2>3. runner'.copy = q /\ runner'.did = runner.did \cup {t}
    BY <1>0, <2>1
  <2>4. kept' \ runner'.did \subseteq Queued(runner'.copy)
    BY <1>a, <2>1, <2>2, <2>3
  <2> QED
    BY <1>a, <2>2, <2>4 DEF KeptOK, AckedKept
<1>6. CASE Save \/ SaveFails
  <2>1. /\ runner.pc = "run" /\ runner'.pc = "stamp" /\ verb' = verb
        /\ kept' \subseteq kept
    BY <1>6, <1>0 DEF Save, SaveFails, AtSave
  <2>2. kept' \subseteq Queued(file')
    <3>1. CASE SaveFails
      BY <1>a, <3>1 DEF SaveFails
    <3>2. CASE Save /\ runner.did = {}
      BY <1>a, <3>2 DEF Save
    <3>3. CASE Save /\ runner.did # {}
      BY <1>a, <2>1, <3>3 DEF Save
    <3> QED
      BY <1>6, <3>1, <3>2, <3>3
  <2> QED
    BY <1>a, <2>1, <2>2 DEF KeptOK, AckedKept
<1>7. CASE Stamp
  BY <1>0, <1>a, <1>7 DEF Stamp, KeptOK, AckedKept
<1>8. CASE Rests \/ ToggleFit \/ (\E v \in Verbs, t \in Tasks : Refuse(v, t))
           \/ UNCHANGED queueVars
  <2>1. UNCHANGED <<file, runner, verb, kept>>
    BY <1>8 DEF Rests, ToggleFit, Refuse, queueVars
  <2> QED
    BY <1>a, <2>1 DEF KeptOK, AckedKept
<1>9. CASE Dies \/ DiesTorn
  <2>1. /\ runner'.pc = "idle" /\ \A v \in Verbs : verb'[v].pc = "idle"
        /\ (file' = file /\ kept' = kept) \/ (file' = <<>> /\ kept' = {})
    BY <1>9, StopsEffect
  <2> QED
    BY <1>a, <2>1 DEF KeptOK, AckedKept
<1> QED
  BY <1>1, <1>2, <1>3, <1>4, <1>5, <1>6, <1>7, <1>8, <1>9 DEF QueueNext, Runner

-----------------------------------------------------------------------------
(* Each task once. *)
LEMMA OnceKept ==
  ASSUME QueueShapes, Asked, OnceOK, [QueueNext]_queueVars
  PROVE  OnceOK'
<1>0. /\ runner \in [pc : {"idle", "run", "stamp"}, copy : Seq(Entries),
                     did : SUBSET Tasks]
      /\ verb \in [Verbs -> [pc : {"idle", "write"}, copy : Seq(Entries),
                             task : SUBSET Tasks]]
      /\ NoVerb.pc = "idle" /\ Idle.pc = "idle" /\ NoVerb.copy = <<>>
      /\ runs \in [Tasks -> 0 .. 2]
  BY DEF QueueShapes, NoVerb, Idle
<1>a. /\ \A t \in Tasks : runs[t] > 1 => t \in redo
      /\ runner.pc = "run" => runner.did \cap Queued(runner.copy) = {}
      /\ \A t \in Tasks : runs[t] # 0 /\ t \notin redo =>
           /\ runner.pc = "run" => t \notin Queued(runner.copy)
           /\ (runner.pc = "run" /\ t \in runner.did) \/ Settled(t)
  BY DEF OnceOK, RunOnce
<1>b. Queued(<<>>) = {}
  BY EmptyList
<1>1. ASSUME NEW v \in Verbs, NEW t \in Tasks, Enqueue(v, t) PROVE OnceOK'
  <2>1. PICK q : /\ Queued(q) = Queued(file) \cup {t}
                 /\ verb' = [verb EXCEPT ![v] = [pc |-> "write", copy |-> q,
                                                 task |-> {t}]]
    BY <1>1, EnqueueEffect
  <2>2. UNCHANGED <<file, runner, runs, redo>> /\ t \notin asked
    BY <1>1 DEF Enqueue
  <2>3. \A w \in Verbs : verb'[w].copy = IF w = v THEN q ELSE verb[w].copy
    BY <1>0, <2>1
  <2>4. ASSUME NEW u \in Tasks, runs[u] # 0, Settled(u) PROVE Settled(u)'
    <3>1. u # t
      BY <2>2, <2>4 DEF Asked
    <3> QED
      BY <2>1, <2>2, <2>3, <2>4, <3>1 DEF Settled
  <2> QED
    BY <1>a, <2>2, <2>4 DEF OnceOK, RunOnce
<1>2. ASSUME NEW v \in Verbs, Acknowledge(v) \/ WriteFails(v) PROVE OnceOK'
  <2>1. /\ verb' = [verb EXCEPT ![v] = NoVerb]
        /\ file' \in {file, verb[v].copy}
        /\ UNCHANGED <<runner, runs, redo>>
    BY <1>2 DEF Acknowledge, WriteFails
  <2>2. \A w \in Verbs : verb'[w].copy = IF w = v THEN <<>> ELSE verb[w].copy
    BY <1>0, <2>1
  <2>3. ASSUME NEW u \in Tasks, Settled(u) PROVE Settled(u)'
    <3>1. u \notin Queued(file')
      BY <2>1, <2>3 DEF Settled
    <3> QED
      BY <1>b, <2>2, <2>3, <3>1 DEF Settled
  <2> QED
    BY <1>a, <2>1, <2>3 DEF OnceOK, RunOnce
<1>3. CASE BeginPass
  <2>1. /\ runner.pc = "idle" /\ runner'.copy = file /\ runner'.did = {}
        /\ UNCHANGED <<file, verb, runs, redo>>
    BY <1>3 DEF BeginPass
  <2>2. ASSUME NEW u \in Tasks, runs[u] # 0, u \notin redo
        PROVE  u \notin Queued(runner'.copy) /\ Settled(u)'
    <3>1. Settled(u)
      BY <1>a, <2>1, <2>2
    <3> QED
      BY <2>1, <3>1 DEF Settled
  <2> QED
    BY <1>a, <2>1, <2>2 DEF OnceOK, RunOnce
<1>4. CASE RunTask
  <2>1. PICK t \in Queued(runner.copy) \ runner.did, q \in Seq(Entries) :
           /\ Queued(q) = Queued(runner.copy) \ {t}
           /\ runner.pc = "run" /\ runner'.pc = "run"
           /\ runner' = [runner EXCEPT !.copy = q, !.did = @ \cup {t}]
           /\ runs' = [runs EXCEPT ![t] = IF @ < 2 THEN @ + 1 ELSE 2]
    BY <1>4, RunTaskEffect
  <2>2. UNCHANGED <<file, verb, redo>>
    BY <1>4 DEF RunTask
  <2>3. runner'.copy = q /\ runner'.did = runner.did \cup {t}
    BY <1>0, <2>1
  <2>4. t \in Tasks /\ (runs[t] = 0 \/ t \in redo)
    BY <1>0, <1>a, <2>1, QueuedAreTasks
  <2>5. /\ \A u \in Tasks : u # t => runs'[u] = runs[u]
        /\ runs[t] = 0 => runs'[t] = 1
    BY <1>0, <2>1, <2>4
  <2>6. \A u \in Tasks : runs'[u] > 1 => u \in redo
    BY <1>a, <2>4, <2>5
  <2>7. runner'.did \cap Queued(runner'.copy) = {}
    BY <1>a, <2>1, <2>3
  <2>8. ASSUME NEW u \in Tasks, runs'[u] # 0, u \notin redo
        PROVE  /\ u \notin Queued(runner'.copy)
               /\ u \in runner'.did \/ Settled(u)'
    <3>1. CASE u = t
      BY <2>1, <2>3, <3>1
    <3>2. CASE u # t
      <4>1. runs[u] # 0
        BY <2>5, <2>8, <3>2
      <4>2. u \notin Queued(runner.copy) /\ (u \in runner.did \/ Settled(u))
        BY <1>a, <2>1, <2>8, <4>1
      <4>3. Settled(u) => Settled(u)'
        BY <2>2 DEF Settled
      <4> QED
        BY <2>1, <2>3, <4>2, <4>3
    <3> QED
      BY <3>1, <3>2
  <2> QED
    BY <2>1, <2>2, <2>6, <2>7, <2>8 DEF OnceOK, RunOnce
<1>5. CASE Save
  <2>1. /\ runner.pc = "run" /\ runner'.pc = "stamp"
        /\ file' = IF runner.did = {} THEN file ELSE runner.copy
        /\ redo' = IF Reading = {} THEN redo ELSE redo \cup runner.did
        /\ UNCHANGED <<verb, runs>>
    BY <1>5, <1>0 DEF Save, AtSave
  <2>2. ASSUME NEW u \in Tasks, runs[u] # 0, u \notin redo'
        PROVE  Settled(u)'
    <3>1. /\ u \notin redo /\ u \notin Queued(runner.copy)
          /\ u \in runner.did \/ Settled(u)
      BY <1>a, <2>1, <2>2
    <3>2. CASE Settled(u)
      BY <2>1, <3>1, <3>2 DEF Settled
    <3>3. CASE u \in runner.did
      <4>1. Reading = {} /\ file' = runner.copy
        BY <2>1, <2>2, <3>3
      <4>2. \A v \in Verbs : verb'[v].copy = <<>>
        BY <1>0, <2>1, <4>1 DEF Reading, QueueShapes
      <4> QED
        BY <1>b, <3>1, <4>1, <4>2 DEF Settled
    <3> QED
      BY <3>1, <3>2, <3>3
  <2>3. \A u \in Tasks : runs'[u] > 1 => u \in redo'
    BY <1>a, <2>1
  <2> QED
    BY <2>1, <2>2, <2>3 DEF OnceOK, RunOnce
<1>6. CASE SaveFails \/ Stamp \/ Dies \/ DiesTorn
  <2>1. /\ runner'.pc # "run" /\ runs' = runs /\ redo \subseteq redo'
        /\ runner.pc = "run" => runner.did \subseteq redo'
    <3>1. CASE SaveFails \/ Stamp
      BY <1>0, <3>1 DEF SaveFails, Stamp, AtSave
    <3>2. CASE Dies \/ DiesTorn
      BY <3>2, StopsEffect
    <3> QED
      BY <1>6, <3>1, <3>2
  <2>2. ASSUME NEW u \in Tasks, Settled(u) PROVE Settled(u)'
    <3>1. CASE SaveFails \/ Stamp
      BY <2>2, <3>1 DEF SaveFails, Stamp, Settled
    <3>2. CASE Dies \/ DiesTorn
      <4>1. /\ \A v \in Verbs : verb'[v].copy = <<>>
            /\ file' \in {file, <<>>}
        BY <3>2, StopsEffect
      <4> QED
        BY <1>b, <2>2, <4>1 DEF Settled
    <3> QED
      BY <1>6, <3>1, <3>2
  <2>3. ASSUME NEW u \in Tasks, runs'[u] # 0, u \notin redo' PROVE Settled(u)'
    BY <1>a, <2>1, <2>2, <2>3
  <2>4. \A u \in Tasks : runs'[u] > 1 => u \in redo'
    BY <1>a, <2>1
  <2> QED
    BY <2>1, <2>3, <2>4 DEF OnceOK, RunOnce
<1>7. CASE Rests \/ ToggleFit \/ (\E v \in Verbs, t \in Tasks : Refuse(v, t))
           \/ UNCHANGED queueVars
  <2>1. UNCHANGED <<file, runner, verb, runs, redo>>
    BY <1>7 DEF Rests, ToggleFit, Refuse, queueVars
  <2>2. ASSUME NEW u \in Tasks, Settled(u) PROVE Settled(u)'
    BY <2>1, <2>2 DEF Settled
  <2> QED
    BY <1>a, <2>1, <2>2 DEF OnceOK, RunOnce
<1> QED
  BY <1>1, <1>2, <1>3, <1>4, <1>5, <1>6, <1>7 DEF QueueNext, Runner

LEMMA QueueInvHolds == QueueSpec => []QueueInv
<1>1. QueueInit => QueueInv
  BY InitQueueInv
<1>2. QueueInv /\ [QueueNext]_queueVars => QueueInv'
  BY QueueShapesKept, AskedKept, KeptKept, OnceKept DEF QueueInv
<1> QED
  BY <1>1, <1>2, PTL DEF QueueSpec

(* QueueTypeOK holds in every state: no copy of the queue, and so no file,   *)
(* is longer than MAX_QUEUE or holds a task twice, whoever writes last       *)
(* (plan_enqueue, run_pending and the writes of overnight.rs).               *)
THEOREM QueueTypeCorrect == QueueSpec => []QueueTypeOK
<1>1. QueueInv => QueueTypeOK
  BY DEF QueueInv, QueueShapes, QueueTypeOK, ListOK
<1> QED
  BY <1>1, QueueInvHolds, PTL

(* A task answered as queued while nobody else held a copy of the queue is   *)
(* queued in the file until a pass has finished it (enqueue, plan_enqueue    *)
(* and run_pending of overnight.rs).                                         *)
THEOREM AckedKeptHolds == QueueSpec => []AckedKept
<1>1. QueueInv => AckedKept
  BY DEF QueueInv, KeptOK
<1> QED
  BY <1>1, QueueInvHolds, PTL

(* A task is completed once, unless its result was lost (run_pending and     *)
(* plan_enqueue of overnight.rs).                                            *)
THEOREM RunOnceHolds == QueueSpec => []RunOnce
<1>1. QueueInv => RunOnce
  BY DEF QueueInv, OnceOK
<1> QED
  BY <1>1, QueueInvHolds, PTL

-----------------------------------------------------------------------------
(***************************************************************************)
(* Standing missions.                                                      *)
(***************************************************************************)

(* A finite set of numbers that is not empty has a greatest.                 *)
LEMMA GreatestNatural ==
  ASSUME NEW T \in SUBSET Nat, T # {}, IsFiniteSet(T)
  PROVE  \E n \in T : \A m \in T : m <= n
<1> DEFINE Above == {T \ (0 .. n) : n \in T}
<1>1. Above \subseteq FiniteSubsetsOf(T) /\ Above # {}
  <2>1. ASSUME NEW n \in T PROVE T \ (0 .. n) \in FiniteSubsetsOf(T)
    BY FS_Difference DEF FiniteSubsetsOf
  <2> QED
    BY <2>1
<1>2. PICK s \in Above :
        \A r \in Above : ~ (<<r, s>> \in StrictSubsetOrdering(T))
  <2> HIDE DEF Above
  <2> QED
    BY <1>1, FS_StrictSubsetOrderingWellFounded, WFMin
<1>3. PICK n \in T : s = T \ (0 .. n)
  BY <1>2
<1>4. ASSUME NEW m \in T, m > n PROVE FALSE
  <2>1. T \ (0 .. m) \in Above
    OBVIOUS
  <2>2. m \in Nat /\ n \in Nat /\ n < m
    BY <1>4
  <2>3. m \in s
    BY <2>2, <1>3
  <2>4. m \notin T \ (0 .. m)
    BY <2>2
  <2>5. ASSUME NEW k \in T \ (0 .. m) PROVE k \in s
    <3>1. k \in Nat /\ ~ (k \in 0 .. m)
      OBVIOUS
    <3>2. ~ (k \in 0 .. n)
      BY <3>1, <2>2
    <3> QED
      BY <3>2, <1>3
  <2>6. <<T \ (0 .. m), s>> \in StrictSubsetOrdering(T)
    BY <2>3, <2>4, <2>5, <1>3 DEF StrictSubsetOrdering
  <2> QED
    BY <1>2, <2>1, <2>6
<1> QED
  BY <1>4

(* The age at which ages stop is one of the gaps.                            *)
LEMMA OldIsNatural == Old \in Nat
<1> USE StandingAssumption DEF StandingAssumption
<1> DEFINE G == {Gap[m] : m \in Missions} \cup {EvalEvery}
<1>1. G \in SUBSET Nat /\ G # {}
  OBVIOUS
<1>2. IsFiniteSet(G)
  <2>1. IsFiniteSet({Gap[m] : m \in Missions})
    <3>1. IsFiniteSet(Missions)
      OBVIOUS
    <3>2. Gap \in [Missions -> Nat \ {0}]
      OBVIOUS
    <3> DEFINE R == {Gap[m] : m \in Missions}
    <3>3. Gap \in Surjection(Missions, R)
      BY <3>2, Fun_IsSurj
    <3> QED
      BY <3>1, <3>3, FS_Surjection
  <2> QED
    BY <2>1, FS_AddElement
<1>3. \E n \in G : \A k \in G : k <= n
  BY <1>1, <1>2, GreatestNatural
<1>4. Old \in G
  BY <1>3 DEF Old
<1> QED
  BY <1>1, <1>4

(* The shapes that MissionTypeOK names, with the record of the tick as one.  *)
TickShape ==
  [pc : {"sleep", "looked", "next", "run", "save"}, age : Ages, on : BOOLEAN,
   eval : BOOLEAN, rested : UNION {[D -> BOOLEAN] : D \in SUBSET Missions},
   todo : SUBSET Missions, cur : Missions \cup {None}]

TickOK ==
  /\ tick \in TickShape
  /\ tick.pc = "next" => tick.todo # {}
  /\ tick.cur \in IF tick.pc \in {"run", "save"} THEN Missions ELSE {None}

StoreOK ==
  /\ DOMAIN store \subseteq Missions /\ \A m \in DOMAIN store : store[m] \in Ages
  /\ evalAge \in Ages
  /\ ran \in [Missions -> Ages]

WorldOK ==
  /\ switchOn \in BOOLEAN /\ raced \in BOOLEAN
  /\ reading \in [Missions -> {"clear", "band", "holds"}]
  /\ creating \in [Missions -> 0..MaxTurns]
  /\ mishaps \in 0..MaxMishaps
  /\ {excused, early, gone} \subseteq SUBSET Missions

(* A tripwire that fired and was not read clear has its latch set.           *)
LatchOK == spent \subseteq latched /\ latched \subseteq Conditions

Shapes == TickOK /\ StoreOK /\ WorldOK /\ LatchOK

(* Before any race: one creation at a time, which leaves the store within    *)
(* the cap, and the mission that is stamped is in the store.                 *)
CapOK ==
  raced \/ /\ Cardinality(DOMAIN store) <= MaxActive
           /\ \A m, n \in Missions : creating[m] > 0 /\ creating[n] > 0 => m = n
           /\ \A m \in Missions : creating[m] <= 1
           /\ \A m \in Missions : creating[m] > 0 =>
                Cardinality(DOMAIN store \cup {m}) <= MaxActive
           /\ tick.pc = "save" => tick.cur \in DOMAIN store

(* The save of mark_ran never restores a mission that is counted as gone.    *)
GoneOK == CancelledStaysGone /\ (tick.pc = "save" => tick.cur \notin gone)

(* The stamp of a mission is never older than its last run, but for the run  *)
(* that is not stamped yet; and what a tick found rested has the right to    *)
(* run in it.                                                                *)
StampOK ==
  /\ tick.pc \in {"run", "save"} => ran[tick.cur] = tick.age
  /\ \A m \in DOMAIN store :
       \/ m \in excused
       \/ tick.pc \in {"run", "save"} /\ tick.cur = m
       \/ store[m] <= ran[m]
  /\ tick.pc = "looked" =>
       \A m \in DOMAIN tick.rested : tick.rested[m] => m \notin early

MissionInv == Shapes /\ CapOK /\ GoneOK /\ StampOK

-----------------------------------------------------------------------------
(* What the helpers return. *)
LEMMA OlderIsAnAge ==
  ASSUME NEW a \in Ages
  PROVE  Older(a) \in Ages /\ \A b \in Ages : b <= a => Older(b) <= Older(a)
BY OldIsNatural DEF Older, Ages

LEMMA AsleepShape == Asleep \in TickShape
<1>1. <<>> \in [{} -> BOOLEAN]
  OBVIOUS
<1>2. <<>> \in UNION {[D -> BOOLEAN] : D \in SUBSET Missions}
  BY <1>1
<1> QED
  BY <1>2, OldIsNatural DEF Asleep, TickShape, Ages

LEMMA RestShape ==
  ASSUME TickOK, tick.pc \in {"run", "save"}
  PROVE  /\ Rest \in TickShape
         /\ Rest.pc \in {"sleep", "next"} /\ Rest.cur = None
         /\ Rest.pc = "next" => Rest.todo # {}
         /\ Rest.todo \subseteq tick.todo
<1>1. CASE tick.todo = {}
  <2>1. Rest = Asleep
    BY <1>1 DEF Rest
  <2> QED
    BY <2>1, AsleepShape DEF Asleep
<1>2. CASE tick.todo # {}
  <2>1. Rest = [tick EXCEPT !.pc = "next", !.cur = None]
    BY <1>2 DEF Rest
  <2> QED
    BY <2>1, <1>2 DEF TickOK, TickShape
<1> QED
  BY <1>1, <1>2

LEMMA StoredShape ==
  ASSUME NEW m \in Missions, NEW age \in Ages, StoreOK
  PROVE  /\ DOMAIN Stored(m, age) = DOMAIN store \cup {m}
         /\ \A k \in DOMAIN store \cup {m} : Stored(m, age)[k] \in Ages
         /\ Stored(m, age)[m] = age
         /\ \A k \in DOMAIN store : k # m => Stored(m, age)[k] = store[k]
BY DEF Stored, StoreOK

LEMMA RestedShape ==
  ASSUME TickOK
  PROVE  /\ DOMAIN tick.rested \subseteq Missions
         /\ \A m \in DOMAIN tick.rested : tick.rested[m] \in BOOLEAN
<1>1. tick.rested \in UNION {[D -> BOOLEAN] : D \in SUBSET Missions}
  BY DEF TickOK, TickShape
<1> QED
  BY <1>1

-----------------------------------------------------------------------------
(* The shapes are kept. *)
LEMMA InitShapes == MissionInit => MissionInv
<1> SUFFICES ASSUME MissionInit PROVE MissionInv
  OBVIOUS
<1> USE StandingAssumption, OldIsNatural DEF MissionInit, StandingAssumption
<1>1. tick \in TickShape /\ tick.pc = "sleep" /\ tick.cur = None
  BY AsleepShape DEF Asleep
<1>2. DOMAIN store = {}
  OBVIOUS
<1>3. TickOK
  BY <1>1 DEF TickOK
<1>6. StoreOK /\ WorldOK /\ LatchOK
  <2>1. StoreOK
    BY <1>2 DEF StoreOK, Ages
  <2>2. 0 \in 0 .. MaxTurns /\ 0 \in 0 .. MaxMishaps
    OBVIOUS
  <2>3. WorldOK
    BY <2>2 DEF WorldOK
  <2>4. LatchOK
    BY DEF LatchOK
  <2> QED
    BY <2>1, <2>3, <2>4
<1>7. Shapes
  BY <1>3, <1>6 DEF Shapes
<1>4. CapOK
  <2>1. Cardinality(DOMAIN store) = 0
    BY <1>2, FS_EmptySet
  <2> QED
    BY <1>1, <2>1 DEF CapOK
<1>5. GoneOK /\ StampOK
  BY <1>1, <1>2 DEF GoneOK, CancelledStaysGone, StampOK
<1> QED
  BY <1>7, <1>4, <1>5 DEF MissionInv

LEMMA NextTick ==
  ASSUME Shapes, [MissionNext]_missionVars
  PROVE  TickOK'
<1> USE DEF Shapes, TickOK
<1>1. CASE Look
  <2> DEFINE rest == [m \in DOMAIN store |-> store[m] >= Gap[m]]
  <2>1. rest \in [DOMAIN store -> BOOLEAN] /\ DOMAIN store \in SUBSET Missions
    BY DEF StoreOK
  <2>2. rest \in UNION {[D -> BOOLEAN] : D \in SUBSET Missions}
    BY <2>1
  <2>3. switchOn \in BOOLEAN /\ (evalAge >= EvalEvery) \in BOOLEAN
    BY DEF WorldOK
  <2>4. tick' = [Asleep EXCEPT !.pc = "looked", !.on = switchOn,
                               !.eval = evalAge >= EvalEvery, !.rested = rest]
    BY <1>1 DEF Look
  <2> HIDE DEF rest
  <2> QED
    BY <2>2, <2>3, <2>4, AsleepShape DEF TickShape, Asleep
<1>2. CASE Decide
  <2> DEFINE due == DueMissions \cup DueConditions
  <2>1. due \subseteq Missions
    BY RestedShape DEF DueMissions, DueConditions, Listed, Conditions
  <2>2. tick' = IF due = {} THEN Asleep
                ELSE [Asleep EXCEPT !.pc = "next", !.age = tick.age, !.todo = due]
    BY <1>2 DEF Decide
  <2> HIDE DEF due
  <2> QED
    BY <2>1, <2>2, AsleepShape DEF TickShape, Asleep
<1>3. ASSUME NEW m \in Missions, BeginRun(m) PROVE TickOK'
  BY <1>3 DEF BeginRun, TickShape
<1>4. CASE MarkRead
  BY <1>4, RestShape DEF MarkRead, TickShape
<1>5. CASE MarkSave
  BY <1>5, RestShape DEF MarkSave
<1>6. CASE MarkFails
  BY <1>6, RestShape DEF MarkFails
<1>7. CASE MissionTurns
  BY <1>7 DEF MissionTurns, CreateCheck, CreateSave, Cancel
<1>8. CASE ToggleSwitch \/ \E m \in Missions, r \in {"clear", "band", "holds"} :
                             Move(m, r)
  BY <1>8 DEF ToggleSwitch, Move
<1>9. CASE Pass
  BY <1>9, OlderIsAnAge DEF Pass, TickShape
<1>10. CASE DaemonRestarts
  BY <1>10, AsleepShape DEF DaemonRestarts, Asleep
<1>11. CASE UNCHANGED missionVars
  BY <1>11 DEF missionVars
<1> QED
  BY <1>1, <1>2, <1>3, <1>4, <1>5, <1>6, <1>7, <1>8, <1>9, <1>10, <1>11
     DEF MissionNext, Tick

LEMMA NextStore ==
  ASSUME Shapes, [MissionNext]_missionVars
  PROVE  StoreOK'
<1> USE OldIsNatural DEF Shapes
<1> tick.age \in Ages /\ Old \in Ages
  BY DEF TickOK, TickShape, Ages
<1>1. CASE Look \/ MarkRead \/ MarkFails \/ ToggleSwitch
  BY <1>1 DEF Look, MarkRead, MarkFails, ToggleSwitch, world, history, StoreOK
<1>2. CASE Decide
  BY <1>2 DEF Decide, StoreOK
<1>3. ASSUME NEW m \in Missions, BeginRun(m) PROVE StoreOK'
  BY <1>3 DEF BeginRun, StoreOK
<1>4. CASE MarkSave
  <2>1. tick.cur \in Missions
    BY <1>4 DEF MarkSave, TickOK
  <2>2. /\ store' = Stored(tick.cur, tick.age)
        /\ evalAge' = evalAge /\ ran' = ran
    BY <1>4 DEF MarkSave
  <2>3. /\ DOMAIN store' = DOMAIN store \cup {tick.cur}
        /\ \A k \in DOMAIN store \cup {tick.cur} : store'[k] \in Ages
    BY <2>1, <2>2, StoredShape
  <2> QED
    BY <2>1, <2>2, <2>3 DEF StoreOK
<1>5. ASSUME NEW m \in Missions, CreateCheck(m) PROVE StoreOK'
  BY <1>5 DEF CreateCheck, StoreOK
<1>6. ASSUME NEW m \in Missions, CreateSave(m) PROVE StoreOK'
  <2>1. store' = Stored(m, Old) /\ evalAge' = evalAge /\ ran' = ran
    BY <1>6 DEF CreateSave
  <2>2. /\ DOMAIN store' = DOMAIN store \cup {m}
        /\ \A k \in DOMAIN store \cup {m} : store'[k] \in Ages
    BY <2>1, StoredShape
  <2> QED
    BY <2>1, <2>2 DEF StoreOK
<1>7. ASSUME NEW m \in Missions, Cancel(m) PROVE StoreOK'
  BY <1>7 DEF Cancel, StoreOK
<1>8. ASSUME NEW m \in Missions, NEW r \in {"clear", "band", "holds"}, Move(m, r)
      PROVE StoreOK'
  BY <1>8 DEF Move, history, StoreOK
<1>9. CASE Pass
  <2>1. store' = [m \in DOMAIN store |-> Older(store[m])]
    BY <1>9 DEF Pass
  <2>2. evalAge' = Older(evalAge) /\ ran' = [m \in Missions |-> Older(ran[m])]
    BY <1>9 DEF Pass
  <2> QED
    BY <2>1, <2>2, OlderIsAnAge DEF StoreOK
<1>10. CASE DaemonRestarts
  BY <1>10 DEF DaemonRestarts, StoreOK
<1>11. CASE UNCHANGED missionVars
  BY <1>11 DEF missionVars, StoreOK
<1> QED
  BY <1>1, <1>2, <1>3, <1>4, <1>5, <1>6, <1>7, <1>8, <1>9, <1>10, <1>11
     DEF MissionNext, Tick, MissionTurns

LEMMA NextWorld ==
  ASSUME Shapes, [MissionNext]_missionVars
  PROVE  WorldOK'
<1> USE StandingAssumption DEF Shapes, WorldOK, StandingAssumption
<1>1. CASE Look
  BY <1>1 DEF Look, world
<1>2. CASE Decide
  BY <1>2 DEF Decide, world
<1>3. ASSUME NEW m \in Missions, BeginRun(m) PROVE WorldOK'
  BY <1>3 DEF BeginRun, world
<1>4. CASE MarkRead
  BY <1>4 DEF MarkRead, world, history
<1>5. CASE MarkSave
  BY <1>5 DEF MarkSave, world
<1>6. CASE MarkFails
  <2>1. tick.cur \in Missions
    BY <1>6 DEF MarkFails, TickOK
  <2> QED
    BY <1>6, <2>1 DEF MarkFails, world
<1>7. ASSUME NEW m \in Missions, CreateCheck(m) PROVE WorldOK'
  <2>1. raced' \in BOOLEAN
    BY <1>7 DEF CreateCheck, Creating
  <2> QED
    BY <1>7, <2>1 DEF CreateCheck, world
<1>8. ASSUME NEW m \in Missions, CreateSave(m) PROVE WorldOK'
  BY <1>8 DEF CreateSave, world
<1>9. ASSUME NEW m \in Missions, Cancel(m) PROVE WorldOK'
  <2>1. /\ raced' \in BOOLEAN
        /\ gone' \subseteq Missions /\ excused' \subseteq Missions
    BY <1>9 DEF Cancel
  <2> QED
    BY <1>9, <2>1 DEF Cancel, world
<1>10. CASE ToggleSwitch
  BY <1>10 DEF ToggleSwitch, history
<1>11. ASSUME NEW m \in Missions, NEW r \in {"clear", "band", "holds"}, Move(m, r)
       PROVE WorldOK'
  BY <1>11 DEF Move, history
<1>12. CASE Pass
  BY <1>12 DEF Pass, world
<1>13. CASE DaemonRestarts
  <2>1. tick.pc \in {"run", "save"} => tick.cur \in Missions
    BY DEF TickOK
  <2> QED
    BY <1>13, <2>1 DEF DaemonRestarts, world
<1>14. CASE UNCHANGED missionVars
  BY <1>14 DEF missionVars
<1> QED
  BY <1>1, <1>2, <1>3, <1>4, <1>5, <1>6, <1>7, <1>8, <1>9, <1>10, <1>11, <1>12,
     <1>13, <1>14 DEF MissionNext, Tick, MissionTurns

LEMMA NextLatch ==
  ASSUME Shapes, [MissionNext]_missionVars
  PROVE  LatchOK'
<1> USE DEF Shapes, LatchOK
<1>1. CASE Decide
  <2>1. CASE Evaluates
    BY <1>1, <2>1 DEF Decide, Listed, NextLatched
  <2>2. CASE ~Evaluates
    BY <1>1, <2>2 DEF Decide
  <2> QED
    BY <2>1, <2>2
<1>2. CASE DaemonRestarts
  BY <1>2 DEF DaemonRestarts
<1>3. ASSUME ~Decide, ~DaemonRestarts PROVE UNCHANGED <<latched, spent>>
  BY <1>3 DEF MissionNext, Tick, MissionTurns, Look, BeginRun, MarkRead, MarkSave,
       MarkFails, CreateCheck, CreateSave, Cancel, ToggleSwitch, Move, Pass, history,
       missionVars
<1> QED
  BY <1>1, <1>2, <1>3

(* Only mark_ran reaches the save. *)
LEMMA TickGoesOn ==
  ASSUME Shapes, Look \/ Decide \/ \E m \in Missions : BeginRun(m)
  PROVE  tick'.pc # "save" /\ UNCHANGED <<store, creating, raced, gone>>
<1>1. CASE Look
  BY <1>1 DEF Look, Asleep
<1>2. CASE Decide
  <2>1. UNCHANGED <<store, creating, raced, gone>>
    BY <1>2 DEF Decide
  <2>2. \E due : tick' = IF due = {} THEN Asleep
                  ELSE [Asleep EXCEPT !.pc = "next", !.age = tick.age, !.todo = due]
    BY <1>2 DEF Decide
  <2> QED
    BY <2>1, <2>2 DEF Asleep
<1>3. ASSUME NEW m \in Missions, BeginRun(m)
      PROVE  tick'.pc # "save" /\ UNCHANGED <<store, creating, raced, gone>>
  BY <1>3 DEF BeginRun, Shapes, TickOK, TickShape
<1> QED
  BY <1>1, <1>2, <1>3

LEMMA ShapesKept ==
  ASSUME Shapes, [MissionNext]_missionVars
  PROVE  Shapes'
BY NextTick, NextStore, NextWorld, NextLatch DEF Shapes

-----------------------------------------------------------------------------
(* The cap. *)
LEMMA StoreIsFinite ==
  ASSUME StoreOK
  PROVE  /\ IsFiniteSet(DOMAIN store)
         /\ Cardinality(DOMAIN store) \in Nat
         /\ \A m : Cardinality(DOMAIN store \cup {m}) =
                     IF m \in DOMAIN store THEN Cardinality(DOMAIN store)
                                           ELSE Cardinality(DOMAIN store) + 1
         /\ \A m : Cardinality(DOMAIN store \ {m}) <= Cardinality(DOMAIN store)
<1>1. IsFiniteSet(DOMAIN store)
  BY StandingAssumption, FS_Subset DEF StandingAssumption, StoreOK
<1>2. \A m : /\ IsFiniteSet(DOMAIN store \ {m})
             /\ Cardinality(DOMAIN store \ {m}) <= Cardinality(DOMAIN store)
  BY <1>1, FS_Subset
<1> QED
  BY <1>1, <1>2, FS_AddElement, FS_CardinalityType

LEMMA CapKept ==
  ASSUME Shapes, CapOK, [MissionNext]_missionVars
  PROVE  CapOK'
<1> USE StandingAssumption DEF StandingAssumption
<1> creating \in [Missions -> 0..MaxTurns] /\ raced \in BOOLEAN
  BY DEF Shapes, WorldOK
<1> DEFINE Cap(D) == Cardinality(D) <= MaxActive
<1>1. ASSUME raced' PROVE CapOK'
  BY <1>1 DEF CapOK
<1>2. ASSUME UNCHANGED <<store, creating, raced>>,
             tick'.pc = "save" => tick.pc = "save" /\ tick'.cur = tick.cur
      PROVE  CapOK'
  BY <1>2 DEF CapOK
<1>3. ASSUME UNCHANGED <<store, creating, raced>>,
             MarkRead
      PROVE  CapOK'
  <2>1. tick'.pc = "save" => tick'.cur \in DOMAIN store
    BY <1>3, RestShape DEF MarkRead, Shapes, TickOK, TickShape
  <2> QED
    BY <1>3, <2>1 DEF CapOK
<1>4. CASE MarkSave
  <2>1. CASE raced
    BY <1>1, <1>4, <2>1 DEF MarkSave
  <2>2. CASE ~raced
    <3>1. tick.cur \in DOMAIN store /\ tick.cur \in Missions
      BY <1>4, <2>2 DEF CapOK, MarkSave, Shapes, TickOK
    <3>2. DOMAIN store' = DOMAIN store
      BY <1>4, <3>1 DEF MarkSave, Stored
    <3>3. tick'.pc # "save"
      BY <1>4, RestShape DEF MarkSave, Shapes
    <3>4. creating' = creating /\ raced' = raced
      BY <1>4 DEF MarkSave
    <3> QED
      BY <3>2, <3>3, <3>4 DEF CapOK
  <2> QED
    BY <2>1, <2>2
<1>5. ASSUME NEW m \in Missions, CreateCheck(m) PROVE CapOK'
  <2>1. CASE raced'
    BY <1>1, <2>1
  <2>2. CASE ~raced'
    <3>1. ~raced /\ \A n \in Missions : creating[n] = 0
      <4>1. ~raced /\ ~Creating
        BY <1>5, <2>2 DEF CreateCheck
      <4> QED
        BY <4>1 DEF Creating
    <3>2. /\ creating'[m] = 1
          /\ \A n \in Missions : n # m => creating'[n] = 0
      BY <1>5, <3>1 DEF CreateCheck
    <3>3. store' = store /\ tick' = tick
      BY <1>5 DEF CreateCheck
    <3>4. Cap(DOMAIN store \cup {m})
      BY <1>5, <3>1, StoreIsFinite DEF CreateCheck, CapOK, Shapes
    <3> QED
      BY <3>1, <3>2, <3>3, <3>4 DEF CapOK
  <2> QED
    BY <2>1, <2>2
<1>6. ASSUME NEW m \in Missions, CreateSave(m) PROVE CapOK'
  <2>1. CASE raced
    BY <1>1, <1>6, <2>1 DEF CreateSave
  <2>2. CASE ~raced
    <3>1. creating[m] = 1 /\ \A n \in Missions : n # m => creating[n] = 0
      BY <1>6, <2>2 DEF CapOK, CreateSave
    <3>2. \A n \in Missions : creating'[n] = 0
      BY <1>6, <3>1 DEF CreateSave
    <3>3. DOMAIN store' = DOMAIN store \cup {m} /\ tick' = tick
      BY <1>6 DEF CreateSave, Stored
    <3>4. Cap(DOMAIN store')
      BY <1>6, <2>2, <3>3 DEF CapOK, CreateSave
    <3>5. tick'.pc = "save" => tick'.cur \in DOMAIN store'
      BY <2>2, <3>3 DEF CapOK
    <3> QED
      BY <3>2, <3>4, <3>5 DEF CapOK
  <2> QED
    BY <2>1, <2>2
<1>7. ASSUME NEW m \in Missions, Cancel(m) PROVE CapOK'
  <2>1. CASE raced'
    BY <1>1, <2>1
  <2>2. CASE ~raced'
    <3>1. ~raced /\ ~ Stamping(m) /\ tick' = tick /\ creating' = creating
      BY <1>7, <2>2 DEF Cancel
    <3>2. DOMAIN store' = DOMAIN store \ {m}
      BY <1>7 DEF Cancel
    <3>3. Cap(DOMAIN store')
      BY <3>1, <3>2, StoreIsFinite, FS_CardinalityType, FS_Subset DEF CapOK, Shapes
    <3>4. tick'.pc = "save" => tick'.cur \in DOMAIN store'
      BY <3>1, <3>2 DEF CapOK, Stamping
    <3>5. ASSUME NEW n \in Missions, creating[n] > 0
          PROVE  Cap(DOMAIN store' \cup {n})
      <4>1. Cap(DOMAIN store \cup {n})
        BY <3>1, <3>5 DEF CapOK
      <4>2. /\ IsFiniteSet(DOMAIN store \cup {n})
            /\ DOMAIN store' \cup {n} \subseteq DOMAIN store \cup {n}
        BY <3>2, StoreIsFinite, FS_AddElement DEF Shapes
      <4>3. /\ Cardinality(DOMAIN store' \cup {n})
                 <= Cardinality(DOMAIN store \cup {n})
            /\ Cardinality(DOMAIN store' \cup {n}) \in Nat
            /\ Cardinality(DOMAIN store \cup {n}) \in Nat
        BY <4>2, FS_Subset, FS_CardinalityType
      <4> QED
        BY <4>1, <4>3
    <3> QED
      BY <3>1, <3>3, <3>4, <3>5 DEF CapOK
  <2> QED
    BY <2>1, <2>2
<1>8. CASE Pass
  <2>1. DOMAIN store' = DOMAIN store /\ creating' = creating /\ raced' = raced
    BY <1>8 DEF Pass
  <2>2. tick'.pc = tick.pc /\ tick'.cur = tick.cur
    BY <1>8 DEF Pass, Shapes, TickOK, TickShape
  <2> QED
    BY <2>1, <2>2 DEF CapOK
<1>9. CASE DaemonRestarts
  <2>1. /\ store' = store /\ raced' = raced /\ tick' = Asleep
        /\ creating' = [m \in Missions |-> 0]
    BY <1>9 DEF DaemonRestarts
  <2> QED
    BY <2>1 DEF CapOK, Asleep
<1>10. CASE Look \/ Decide \/ \E m \in Missions : BeginRun(m)
  <2>1. tick'.pc # "save" /\ UNCHANGED <<store, creating, raced>>
    BY <1>10, TickGoesOn
  <2> QED
    BY <1>2, <2>1
<1>11. CASE MarkFails
  <2>1. tick'.pc # "save" /\ UNCHANGED <<store, creating, raced>>
    BY <1>11, RestShape DEF MarkFails, Shapes
  <2> QED
    BY <1>2, <2>1
<1>12. CASE ToggleSwitch \/ (\E m \in Missions, r \in {"clear", "band", "holds"} :
                              Move(m, r)) \/ UNCHANGED missionVars
  <2>1. UNCHANGED <<store, creating, raced, tick>>
    BY <1>12 DEF ToggleSwitch, Move, history, missionVars
  <2> QED
    BY <1>2, <2>1
<1>13. MarkRead => UNCHANGED <<store, creating, raced>>
  BY DEF MarkRead, history
<1> QED
  BY <1>3, <1>4, <1>5, <1>6, <1>7, <1>8, <1>9, <1>10, <1>11, <1>12, <1>13
     DEF MissionNext, Tick, MissionTurns

-----------------------------------------------------------------------------
(* The missions that are gone. *)
LEMMA GoneKept ==
  ASSUME Shapes, GoneOK, [MissionNext]_missionVars
  PROVE  GoneOK'
<1> USE DEF GoneOK, CancelledStaysGone
<1>1. ASSUME DOMAIN store' = DOMAIN store, gone' = gone,
             tick'.pc = "save" => tick.pc = "save" /\ tick'.cur = tick.cur
      PROVE  GoneOK'
  BY <1>1
<1>2. CASE MarkRead
  <2>1. tick'.pc = "save" => tick'.cur \in DOMAIN store
    BY <1>2, RestShape DEF MarkRead, Shapes, TickOK, TickShape
  <2>2. store' = store /\ gone' = gone
    BY <1>2 DEF MarkRead, history
  <2> QED
    BY <2>1, <2>2
<1>3. CASE MarkSave
  <2>1. DOMAIN store' = DOMAIN store \cup {tick.cur} /\ gone' = gone
    BY <1>3 DEF MarkSave, Stored
  <2>2. tick.cur \notin gone
    BY <1>3 DEF MarkSave
  <2>3. tick'.pc # "save"
    BY <1>3, RestShape DEF MarkSave, Shapes
  <2> QED
    BY <2>1, <2>2, <2>3
<1>4. ASSUME NEW m \in Missions, CreateSave(m) PROVE GoneOK'
  <2>1. /\ DOMAIN store' = DOMAIN store \cup {m}
        /\ gone' = gone \ {m} /\ tick' = tick
    BY <1>4 DEF CreateSave, Stored
  <2> QED
    BY <2>1
<1>5. ASSUME NEW m \in Missions, Cancel(m) PROVE GoneOK'
  <2>1. DOMAIN store' = DOMAIN store \ {m} /\ tick' = tick
    BY <1>5 DEF Cancel
  <2>2. gone' \subseteq gone \cup {m}
    BY <1>5 DEF Cancel
  <2>3. tick.pc = "save" /\ tick.cur = m => gone' = gone
    BY <1>5 DEF Cancel, Stamping
  <2> QED
    BY <2>1, <2>2, <2>3
<1>6. CASE Pass
  <2>1. DOMAIN store' = DOMAIN store /\ gone' = gone
    BY <1>6 DEF Pass
  <2>2. tick'.pc = tick.pc /\ tick'.cur = tick.cur
    BY <1>6 DEF Pass, Shapes, TickOK, TickShape
  <2> QED
    BY <2>1, <2>2
<1>7. CASE Look \/ Decide \/ \E m \in Missions : BeginRun(m)
  <2>1. tick'.pc # "save" /\ UNCHANGED <<store, gone>>
    BY <1>7, TickGoesOn
  <2> QED
    BY <1>1, <2>1
<1>8. CASE MarkFails \/ DaemonRestarts
  <2>1. tick'.pc # "save" /\ UNCHANGED <<store, gone>>
    BY <1>8, RestShape DEF MarkFails, DaemonRestarts, Asleep, Shapes
  <2> QED
    BY <1>1, <2>1
<1>9. CASE (\E m \in Missions : CreateCheck(m)) \/ ToggleSwitch
           \/ (\E m \in Missions, r \in {"clear", "band", "holds"} : Move(m, r))
           \/ UNCHANGED missionVars
  <2>1. UNCHANGED <<store, gone, tick>>
    BY <1>9 DEF CreateCheck, ToggleSwitch, Move, history, missionVars
  <2> QED
    BY <1>1, <2>1
<1> QED
  BY <1>2, <1>3, <1>4, <1>5, <1>6, <1>7, <1>8, <1>9
     DEF MissionNext, Tick, MissionTurns

-----------------------------------------------------------------------------
(* The stamps. *)
LEMMA StampKept ==
  ASSUME Shapes, StampOK, [MissionNext]_missionVars
  PROVE  StampOK'
<1> Shapes'
  BY ShapesKept
<1> tick \in TickShape /\ StoreOK
  BY DEF Shapes, TickOK
<1>1. CASE Look
  <2>1. /\ tick'.pc = "looked" /\ tick'.rested = [m \in DOMAIN store |-> store[m] >= Gap[m]]
        /\ UNCHANGED <<store, ran, excused>>
        /\ tick.pc = "sleep"
        /\ early' = {m \in Missions \ excused : ran[m] < Gap[m]}
    BY <1>1 DEF Look, Asleep
  <2>2. ASSUME NEW m \in DOMAIN store, store[m] >= Gap[m], m \in early' PROVE FALSE
    <3>1. m \in Missions /\ m \notin excused /\ ran[m] < Gap[m]
      BY <2>1, <2>2
    <3>2. store[m] <= ran[m]
      BY <2>1, <3>1 DEF StampOK
    <3>3. store[m] \in Nat /\ ran[m] \in Nat /\ Gap[m] \in Nat
      BY <3>1, StandingAssumption DEF StandingAssumption, StoreOK, Ages
    <3> QED
      BY <2>2, <3>1, <3>2, <3>3
  <2> QED
    BY <2>1, <2>2 DEF StampOK
<1>2. CASE Decide
  <2>1. tick'.pc \in {"sleep", "next"}
    <3>1. \E due : tick' = IF due = {} THEN Asleep
                  ELSE [Asleep EXCEPT !.pc = "next", !.age = tick.age, !.todo = due]
      BY <1>2 DEF Decide
    <3> QED
      BY <3>1 DEF Asleep
  <2>2. UNCHANGED <<store, ran, excused>> /\ tick.pc = "looked"
    BY <1>2 DEF Decide
  <2> QED
    BY <2>1, <2>2 DEF StampOK
<1>3. ASSUME NEW m \in Missions, BeginRun(m) PROVE StampOK'
  <2>1. /\ tick.pc = "next" /\ tick'.pc = "run" /\ tick'.cur = m
        /\ tick'.age = tick.age
        /\ ran' = [ran EXCEPT ![m] = tick.age]
        /\ UNCHANGED <<store, excused>>
    BY <1>3 DEF BeginRun, TickShape
  <2>2. ran'[m] = tick.age /\ \A k \in Missions : k # m => ran'[k] = ran[k]
    BY <2>1 DEF StoreOK
  <2> QED
    BY <2>1, <2>2 DEF StampOK, StoreOK
<1>4. CASE MarkRead
  <2>1. tick.pc = "run" /\ UNCHANGED <<store, ran, excused>>
    BY <1>4 DEF MarkRead, history
  <2>2. CASE tick.cur \in DOMAIN store
    <3>1. tick'.pc = "save" /\ tick'.cur = tick.cur /\ tick'.age = tick.age
      BY <1>4, <2>2 DEF MarkRead, TickShape
    <3> QED
      BY <2>1, <3>1 DEF StampOK
  <2>3. CASE tick.cur \notin DOMAIN store
    <3>1. tick'.pc \in {"sleep", "next"}
      BY <1>4, <2>1, <2>3, RestShape DEF MarkRead, Shapes
    <3> QED
      BY <2>1, <2>3, <3>1 DEF StampOK
  <2> QED
    BY <2>2, <2>3
<1>5. CASE MarkSave
  <2>1. /\ tick.pc = "save" /\ tick.cur \in Missions
        /\ store' = Stored(tick.cur, tick.age)
        /\ ran' = ran /\ excused' = excused \ {tick.cur}
    BY <1>5 DEF MarkSave, Shapes, TickOK
  <2>2. tick'.pc \in {"sleep", "next"}
    BY <1>5, RestShape DEF MarkSave, Shapes
  <2>3. /\ DOMAIN store' = DOMAIN store \cup {tick.cur}
        /\ store'[tick.cur] = tick.age
        /\ \A k \in DOMAIN store : k # tick.cur => store'[k] = store[k]
    BY <2>1 DEF Stored
  <2>4. ran[tick.cur] = tick.age
    BY <2>1 DEF StampOK
  <2>5. tick.age \in Nat
    BY OldIsNatural DEF TickShape, Ages
  <2>6. ASSUME NEW k \in DOMAIN store' PROVE k \in excused' \/ store'[k] <= ran'[k]
    <3>1. CASE k = tick.cur
      BY <2>1, <2>3, <2>4, <2>5, <3>1
    <3>2. CASE k # tick.cur
      <4>1. k \in DOMAIN store /\ store'[k] = store[k]
        BY <2>3, <2>6, <3>2
      <4>2. k \in excused \/ store[k] <= ran[k]
        BY <3>2, <4>1 DEF StampOK
      <4> QED
        BY <2>1, <3>2, <4>1, <4>2
    <3> QED
      BY <3>1, <3>2
  <2> QED
    BY <2>2, <2>6 DEF StampOK
<1>6. CASE MarkFails
  <2>1. /\ tick.pc \in {"run", "save"}
        /\ UNCHANGED <<store, ran>> /\ excused' = excused \cup {tick.cur}
    BY <1>6 DEF MarkFails
  <2>2. tick'.pc \in {"sleep", "next"}
    BY <1>6, RestShape DEF MarkFails, Shapes
  <2> QED
    BY <2>1, <2>2 DEF StampOK
<1>7. ASSUME NEW m \in Missions, CreateSave(m) PROVE StampOK'
  <2>1. /\ DOMAIN store' = DOMAIN store \cup {m}
        /\ \A k \in DOMAIN store : k # m => store'[k] = store[k]
        /\ excused' = excused \cup {m}
        /\ UNCHANGED <<tick, ran, early>>
    BY <1>7 DEF CreateSave, Stored
  <2> QED
    BY <2>1 DEF StampOK
<1>8. ASSUME NEW m \in Missions, Cancel(m) PROVE StampOK'
  <2>1. /\ DOMAIN store' = DOMAIN store \ {m}
        /\ \A k \in DOMAIN store' : store'[k] = store[k]
        /\ excused' = excused \cup {m}
        /\ UNCHANGED <<tick, ran, early>>
    BY <1>8 DEF Cancel
  <2> QED
    BY <2>1 DEF StampOK
<1>9. CASE Pass
  <2>1. /\ DOMAIN store' = DOMAIN store
        /\ \A m \in DOMAIN store : store'[m] = Older(store[m])
        /\ ran' = [m \in Missions |-> Older(ran[m])]
        /\ UNCHANGED <<excused, early>>
    BY <1>9 DEF Pass
  <2>2. /\ tick'.pc = tick.pc /\ tick'.cur = tick.cur /\ tick'.rested = tick.rested
        /\ tick.pc \in {"run", "save"} => tick'.age = Older(tick.age)
    BY <1>9 DEF Pass, TickShape
  <2>3. ASSUME NEW m \in DOMAIN store, store[m] <= ran[m]
        PROVE  store'[m] <= ran'[m]
    <3>1. m \in Missions /\ store[m] \in Ages /\ ran[m] \in Ages
      BY DEF StoreOK
    <3> QED
      BY <2>1, <2>3, <3>1, OlderIsAnAge
  <2>4. tick.pc \in {"run", "save"} => ran'[tick.cur] = Older(tick.age)
    BY <2>1 DEF StampOK, Shapes, TickOK
  <2> QED
    BY <2>1, <2>2, <2>3, <2>4 DEF StampOK
<1>10. CASE DaemonRestarts
  <2>1. /\ tick'.pc = "sleep" /\ UNCHANGED <<store, ran>>
        /\ excused' = IF tick.pc \in {"run", "save"} THEN excused \cup {tick.cur}
                                                     ELSE excused
    BY <1>10 DEF DaemonRestarts, Asleep
  <2> QED
    BY <2>1 DEF StampOK
<1>11. CASE (\E m \in Missions : CreateCheck(m)) \/ ToggleSwitch
            \/ (\E m \in Missions, r \in {"clear", "band", "holds"} : Move(m, r))
            \/ UNCHANGED missionVars
  <2>1. UNCHANGED <<store, tick, ran, excused, early>>
    BY <1>11 DEF CreateCheck, ToggleSwitch, Move, history, missionVars
  <2> QED
    BY <2>1 DEF StampOK
<1> QED
  BY <1>1, <1>2, <1>3, <1>4, <1>5, <1>6, <1>7, <1>8, <1>9, <1>10, <1>11
     DEF MissionNext, Tick, MissionTurns

LEMMA MissionInvKept == MissionInv /\ [MissionNext]_missionVars => MissionInv'
BY ShapesKept, CapKept, GoneKept, StampKept DEF MissionInv

LEMMA MissionInvHolds == MissionSpec => []MissionInv
<1>1. MissionInit => MissionInv
  BY InitShapes
<1> QED
  BY <1>1, MissionInvKept, PTL DEF MissionSpec

-----------------------------------------------------------------------------
(* Which missions a step adds to those that are to run.                      *)
LEMMA OnlyDecideAdds ==
  ASSUME MissionInv, [MissionNext]_missionVars, NEW m \in tick'.todo \ tick.todo
  PROVE  Decide /\ m \in DueMissions \cup DueConditions
<1> USE DEF MissionInv, Shapes, TickOK
<1> tick \in TickShape
  OBVIOUS
<1>1. CASE Look
  BY <1>1 DEF Look, Asleep
<1>2. CASE Decide
  <2> DEFINE due == DueMissions \cup DueConditions
  <2>1. tick' = IF due = {} THEN Asleep
                ELSE [Asleep EXCEPT !.pc = "next", !.age = tick.age, !.todo = due]
    BY <1>2 DEF Decide
  <2>2. m \in due
    <3> HIDE DEF due
    <3> QED
      BY <2>1 DEF Asleep
  <2> QED
    BY <1>2, <2>2
<1>3. ASSUME NEW k \in Missions, BeginRun(k) PROVE FALSE
  BY <1>3 DEF BeginRun, TickShape
<1>4. CASE MarkRead \/ MarkSave \/ MarkFails
  <2>1. tick'.todo \subseteq tick.todo
    BY <1>4, RestShape DEF MarkRead, MarkSave, MarkFails, TickShape
  <2> QED
    BY <2>1
<1>5. CASE Pass
  BY <1>5 DEF Pass, TickShape
<1>6. CASE DaemonRestarts
  BY <1>6 DEF DaemonRestarts, Asleep
<1>7. CASE MissionTurns \/ ToggleSwitch
           \/ (\E k \in Missions, r \in {"clear", "band", "holds"} : Move(k, r))
           \/ UNCHANGED missionVars
  BY <1>7 DEF MissionTurns, CreateCheck, CreateSave, Cancel, ToggleSwitch, Move,
       missionVars
<1> QED
  BY <1>1, <1>2, <1>3, <1>4, <1>5, <1>6, <1>7 DEF MissionNext, Tick

(* MissionTypeOK holds in every state, the cap of the store with it: at most *)
(* MAX_ACTIVE missions unless two creations overlapped or a cancel was       *)
(* undone by a stamp (create, cancel and mark_ran of standing.rs).           *)
THEOREM MissionTypeCorrect == MissionSpec => []MissionTypeOK
<1>1. MissionInv => MissionTypeOK
  <2> SUFFICES ASSUME MissionInv PROVE MissionTypeOK
    OBVIOUS
  <2> USE DEF MissionInv, Shapes
  <2>1. CapHolds
    BY DEF CapHolds, CapOK
  <2>2. /\ DOMAIN tick.rested \cup tick.todo \subseteq Missions
        /\ tick.age \in Ages
        /\ tick.pc \in {"sleep", "looked", "next", "run", "save"}
        /\ tick.pc = "next" => tick.todo # {}
        /\ tick.cur \in IF tick.pc \in {"run", "save"} THEN Missions ELSE {None}
    BY RestedShape DEF TickOK, TickShape
  <2> QED
    BY <2>1, <2>2 DEF MissionTypeOK, StoreOK, WorldOK, LatchOK
<1> QED
  BY <1>1, MissionInvHolds, PTL

(* A cancelled mission stays cancelled, whatever run of it was under way,    *)
(* but for a cancel between the read and the save of mark_ran.               *)
THEOREM CancelledStaysGoneHolds == MissionSpec => []CancelledStaysGone
<1>1. MissionInv => CancelledStaysGone
  BY DEF MissionInv, GoneOK
<1> QED
  BY <1>1, MissionInvHolds, PTL

(* No mission runs twice within its interval, cooldown or debounce, unless   *)
(* it was created anew or its stamp was lost (is_due, tripwire_step and      *)
(* mark_ran of standing.rs).                                                 *)
THEOREM OncePerPeriodHolds == MissionSpec => OncePerPeriod
<1>1. MissionInv /\ [MissionNext]_missionVars
        => [(tick'.todo \ tick.todo) \cap early = {}]_missionVars
  <2> SUFFICES ASSUME MissionInv, [MissionNext]_missionVars,
                      NEW m \in tick'.todo \ tick.todo
               PROVE  m \notin early
    OBVIOUS
  <2>1. Decide /\ m \in DueMissions \cup DueConditions
    BY OnlyDecideAdds
  <2>2. m \in DOMAIN tick.rested /\ tick.rested[m]
    BY <2>1 DEF DueMissions, IsDue, DueConditions, Listed, Fires
  <2> QED
    BY <2>1, <2>2 DEF Decide, MissionInv, StampOK
<1> QED
  BY <1>1, MissionInvHolds, PTL DEF MissionSpec, OncePerPeriod

(* A tripwire that fired does not fire again before its reading was seen     *)
(* clear (tripwire_step of standing.rs).                                     *)
THEOREM NoStormHolds == MissionSpec => NoStorm
<1>1. MissionInv /\ [MissionNext]_missionVars
        => [(tick'.todo \ tick.todo) \cap spent = {}]_missionVars
  <2> SUFFICES ASSUME MissionInv, [MissionNext]_missionVars,
                      NEW m \in tick'.todo \ tick.todo
               PROVE  m \notin spent
    OBVIOUS
  <2>1. m \in DueMissions \cup DueConditions
    BY OnlyDecideAdds
  <2>2. spent \subseteq latched /\ spent \subseteq Conditions
    BY DEF MissionInv, Shapes, LatchOK
  <2>3. m \in DueMissions => m \notin Conditions
    BY DEF DueMissions, IsDue, Conditions
  <2>4. m \in DueConditions => m \notin latched
    BY DEF DueConditions, Fires
  <2> QED
    BY <2>1, <2>2, <2>3, <2>4
<1> QED
  BY <1>1, MissionInvHolds, PTL DEF MissionSpec, NoStorm
=============================================================================
