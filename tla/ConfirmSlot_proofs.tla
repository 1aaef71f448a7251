------------------------ MODULE ConfirmSlot_proofs ------------------------
(***************************************************************************)
(* Proofs about the confirmation slot, for every set of content ids and    *)
(* threads, every PENDING_TTL and every value of the bounds.               *)
(***************************************************************************)
EXTENDS ConfirmSlot, TLAPS

(* Where a thread may be, and what it then holds. *)
LocalsOK ==
  \A t \in Threads :
    /\ pc[t] = "park_slot" => arg[t] \in Actions
    /\ pc[t] = "take_lock" => t = Voice
    /\ pc[t] = "replay" => hand[t] \in Park
    /\ pc[t] # "replay" => hand[t] = NoPark

TInv == TypeOK /\ LocalsOK

LEMMA VoiceIsAThread == Voice \in Threads
  BY DEF Threads

LEMMA NoParkIsNoPark == NoPark \notin Park
  BY ConfirmSlotAssumption DEF NoPark, Park

\* The type invariant and the threads' local variables are kept by every step.
LEMMA TInvStep == TInv /\ [Next]_vars => TInv'
<1> SUFFICES ASSUME TInv, [Next]_vars PROVE TInv'
  OBVIOUS
<1> USE ConfirmSlotAssumption, VoiceIsAThread, NoParkIsNoPark
<1> USE DEF TInv, TypeOK, LocalsOK
<1>1. CASE UNCHANGED vars
  BY <1>1 DEF vars
<1>2. CASE Tick
  BY <1>2 DEF Tick, slot, threads, history
<1>3. ASSUME NEW t \in Threads, Step(t) PROVE TInv'
  <2>1. CASE ReparkPrompt(t)
    <3>1. hand[t].id \in Actions
      BY <2>1 DEF ReparkPrompt, Park
    <3> QED
      BY <2>1, <3>1 DEF ReparkPrompt, Ask, Hold, Goto, PC
  <2>2. CASE ParkSlot(t)
    <3>1. arg[t] \in Actions /\ parks + 1 \in 1 .. MaxParks
      BY <2>2 DEF ParkSlot, WriteSlot
    <3>2. pending' \in Park
      BY <2>2, <3>1 DEF ParkSlot, WriteSlot, Park
    <3> QED
      BY <2>2, <3>1, <3>2 DEF ParkSlot, WriteSlot, Hold, Goto, PC
  <2>3. CASE TakeRead(t)
    BY <2>3 DEF TakeRead, Hold, Goto, Idle, PC, slot, history
  <2>4. CASE TakeMatch(t)
    BY <2>4 DEF TakeMatch, MatchesPrompt, Live, RetireSlot, Hold, Goto, PC, slot, history
  <2>5. CASE Fire(t)
    <3>1. hand[t].id \in Actions /\ hand[t].serial \in 1 .. MaxParks
      BY <2>5 DEF Fire, Park
    <3>2. spoken' \in [Actions -> Nat]
      BY <2>5, <3>1 DEF Fire
    <3>3. fired' \subseteq 1 .. MaxParks
      BY <2>5, <3>1 DEF Fire
    <3>4. LocalsOK'
      BY <2>5 DEF Fire, Goto, PC
    <3> QED
      BY <2>5, <3>2, <3>3, <3>4 DEF Fire, Goto, PC, slot
  <2>6. CASE LetGo(t)
    BY <2>6 DEF LetGo, Goto, PC, slot, history
  <2>7. CASE DropExpired(t)
    BY <2>7 DEF DropExpired, RetireSlot, threads, history
  <2>8. CASE ClearSlot(t)
    BY <2>8 DEF ClearSlot, Goto, Idle, PC, history
  <2>9. CASE ClearPrompt(t)
    BY <2>9 DEF ClearPrompt, Goto, PC, history
  <2>10. ASSUME NEW a \in Actions, ParkPrompt(t, a) PROVE TInv'
    BY <2>10 DEF ParkPrompt, Ask, Hold, Goto, Idle, PC
  <2>11. ASSUME NEW a \in Actions, ParkUnattended(t, a) PROVE TInv'
    <3>1. pending' \in Park
      BY <2>11 DEF ParkUnattended, WriteSlot, Park
    <3> QED
      BY <2>11, <3>1 DEF ParkUnattended, WriteSlot, threads
  <2>12. ASSUME NEW a \in Actions, ConfirmById(t, a) PROVE TInv'
    BY <2>12 DEF ConfirmById, Live, Expired, RetireSlot, Goto, Idle, PC, history
  <2>13. ASSUME NEW a \in Actions, DenyById(t, a) PROVE TInv'
    BY <2>13 DEF DenyById, RetireSlot, threads, history
  <2> QED
    BY <1>3, <2>1, <2>2, <2>3, <2>4, <2>5, <2>6, <2>7, <2>8, <2>9,
       <2>10, <2>11, <2>12, <2>13 DEF Step
<1> QED
  BY <1>1, <1>2, <1>3 DEF Next

THEOREM TypeCorrect == Spec => []TypeOK
<1>1. Init => TInv
  BY ConfirmSlotAssumption, VoiceIsAThread
  DEF Init, TInv, TypeOK, LocalsOK, PC
<1> QED
  BY <1>1, TInvStep, PTL DEF Spec, TInv

-----------------------------------------------------------------------------
(* No prompt outlives its action. *)

\* While the slot is empty and PROMPTED is armed, some thread is between the
\* two locks of park_ctx, and will fill the slot, or between the two locks of
\* clear, and will drop the prompt.
Orphaned == pending = NoPark /\ prompted # NoAction

Between == \E t \in Threads : pc[t] \in {"park_slot", "clear_prompt"}

OrphanInv == Orphaned => Between

LEMMA OrphanInvStep == TInv /\ OrphanInv /\ [Next]_vars => OrphanInv'
<1> SUFFICES ASSUME TInv, OrphanInv, [Next]_vars, Orphaned' PROVE Between'
  BY DEF OrphanInv
<1> USE ConfirmSlotAssumption, VoiceIsAThread, NoParkIsNoPark
<1> USE DEF TInv, TypeOK, LocalsOK
<1>1. CASE UNCHANGED vars
  BY <1>1 DEF vars, Orphaned, Between, OrphanInv
<1>2. CASE Tick
  BY <1>2 DEF Tick, slot, threads, history, Orphaned, Between, OrphanInv
<1>3. ASSUME NEW t \in Threads, Step(t) PROVE Between'
  <2> DEFINE Other == pc[t] \notin {"park_slot", "clear_prompt"}
  \* A step that leaves the two cells alone, of a thread that is not between two
  \* locks, keeps the thread that is.
  <2>1. ASSUME slot' = slot, Other, \A u \in Threads : u # t => pc'[u] = pc[u]
        PROVE Between'
    BY <2>1 DEF slot, Orphaned, Between, OrphanInv
  <2>2. CASE RetireSlot
    BY <2>2 DEF RetireSlot, Orphaned
  <2>3. ASSUME pending' \in Park PROVE Between'
    BY <2>3 DEF Orphaned
  <2>4. CASE ReparkPrompt(t)
    BY <2>4 DEF ReparkPrompt, Goto, Between
  <2>5. CASE ParkSlot(t)
    <3>1. pending' \in Park
      BY <2>5 DEF ParkSlot, WriteSlot, Park
    <3> QED
      BY <2>3, <3>1
  <2>6. CASE TakeRead(t)
    BY <2>1, <2>6 DEF TakeRead, Idle, Goto
  <2>7. CASE TakeMatch(t)
    BY <2>1, <2>2, <2>7 DEF TakeMatch, Goto
  <2>8. CASE Fire(t)
    BY <2>1, <2>8 DEF Fire, Goto
  <2>9. CASE LetGo(t)
    BY <2>1, <2>9 DEF LetGo, Goto
  <2>10. CASE DropExpired(t)
    BY <2>2, <2>10 DEF DropExpired
  <2>11. CASE ClearSlot(t)
    BY <2>11 DEF ClearSlot, Goto, Between
  <2>12. CASE ClearPrompt(t)
    BY <2>12 DEF ClearPrompt, Orphaned
  <2>13. ASSUME NEW a \in Actions, ParkPrompt(t, a) PROVE Between'
    BY <2>13 DEF ParkPrompt, Goto, Between
  <2>14. ASSUME NEW a \in Actions, ParkUnattended(t, a) PROVE Between'
    <3>1. pending' \in Park
      BY <2>14 DEF ParkUnattended, WriteSlot, Park
    <3> QED
      BY <2>3, <3>1
  <2>15. ASSUME NEW a \in Actions, ConfirmById(t, a) PROVE Between'
    BY <2>2, <2>15 DEF ConfirmById
  <2>16. ASSUME NEW a \in Actions, DenyById(t, a) PROVE Between'
    BY <2>2, <2>16 DEF DenyById
  <2> QED
    BY <1>3, <2>4, <2>5, <2>6, <2>7, <2>8, <2>9, <2>10, <2>11, <2>12,
       <2>13, <2>14, <2>15, <2>16 DEF Step
<1> QED
  BY <1>1, <1>2, <1>3 DEF Next

\* For every number of threads of each kind, a prompt never outlives the action
\* it asked about, outside the windows between the two locks.
THEOREM NoOrphanPromptHolds == Spec => []NoOrphanPrompt
<1>1. Init => TInv /\ OrphanInv
  BY ConfirmSlotAssumption, VoiceIsAThread
  DEF Init, TInv, TypeOK, LocalsOK, PC, OrphanInv, Orphaned
<1>2. TInv /\ OrphanInv => NoOrphanPrompt
  BY DEF OrphanInv, Orphaned, Between, NoOrphanPrompt
<1> QED
  BY <1>1, <1>2, TInvStep, OrphanInvStep, PTL DEF Spec

-----------------------------------------------------------------------------
(* One question, at most one spoken execution. *)

One(P) == IF P THEN 1 ELSE 0

\* What may still become a spoken execution of a: the action the voice pipeline
\* holds, and the question that is open.  The question is in PROMPTED, or in
\* the copy take_live made of it, or in both; both count once.
Held(a) == One(hand[Voice].id = a)

Open(a) == One(prompted = a \/ (pc[Voice] = "take_lock" /\ arg[Voice] = a))

Budget == \A a \in Actions : spoken[a] + Held(a) + Open(a) <= heard[a]

\* A step is within the budget of a if it spends no more than it earns.
LEMMA BudgetKept ==
  ASSUME TypeOK, TypeOK', Budget, NEW a \in Actions,
         spoken'[a] + Held(a)' + Open(a)' - heard'[a]
           <= spoken[a] + Held(a) + Open(a) - heard[a]
  PROVE  spoken'[a] + Held(a)' + Open(a)' <= heard'[a]
<1>1. /\ spoken[a] \in Nat /\ heard[a] \in Nat
      /\ spoken'[a] \in Nat /\ heard'[a] \in Nat
  BY DEF TypeOK
<1>2. /\ Held(a) \in 0 .. 1 /\ Open(a) \in 0 .. 1
      /\ Held(a)' \in 0 .. 1 /\ Open(a)' \in 0 .. 1
  BY DEF Held, Open, One
<1> QED
  BY <1>1, <1>2 DEF Budget

LEMMA BudgetStep == TInv /\ TInv' /\ Budget /\ [Next]_vars => Budget'
<1> SUFFICES ASSUME TInv, TInv', Budget, [Next]_vars, NEW b \in Actions
             PROVE  spoken'[b] + Held(b)' + Open(b)' <= heard'[b]
  BY DEF Budget
<1> USE ConfirmSlotAssumption, VoiceIsAThread, NoParkIsNoPark
<1> USE DEF TInv, TypeOK, LocalsOK, Held, Open, One
<1> DEFINE Left == spoken[b] + Held(b) + Open(b) - heard[b]
<1> SUFFICES Left' <= Left
  BY BudgetKept
<1>0. NoPark.id \notin Actions
  BY DEF NoPark
<1>1. CASE UNCHANGED vars
  BY <1>1 DEF vars
<1>2. CASE Tick
  BY <1>2 DEF Tick, slot, threads, history
<1>3. ASSUME NEW t \in Threads, Step(t) PROVE Left' <= Left
  <2>1. CASE ReparkPrompt(t)
    <3>1. CASE hand[t].id = b
      BY <2>1, <3>1 DEF ReparkPrompt, Ask, Hold, Goto, Park
    <3>2. CASE hand[t].id # b
      BY <2>1, <3>2, <1>0 DEF ReparkPrompt, Ask, Hold, Goto, Park
    <3> QED
      BY <3>1, <3>2
  <2>2. CASE ParkSlot(t)
    BY <2>2 DEF ParkSlot, WriteSlot, Hold, Goto
  <2>3. CASE TakeRead(t)
    BY <2>3 DEF TakeRead, Hold, Goto, Idle, slot, history
  <2>4. CASE TakeMatch(t)
    BY <2>4, <1>0 DEF TakeMatch, MatchesPrompt, Live, RetireSlot, Hold, Goto, slot, history
  <2>5. CASE Fire(t)
    BY <2>5, <1>0 DEF Fire, Goto, slot, Park
  <2>6. CASE LetGo(t)
    BY <2>6, <1>0 DEF LetGo, Goto, slot, history
  <2>7. CASE DropExpired(t)
    BY <2>7 DEF DropExpired, RetireSlot, threads, history
  <2>8. CASE ClearSlot(t)
    BY <2>8 DEF ClearSlot, Goto, Idle, history
  <2>9. CASE ClearPrompt(t)
    BY <2>9 DEF ClearPrompt, Goto, history
  <2>10. ASSUME NEW a \in Actions, ParkPrompt(t, a) PROVE Left' <= Left
    <3>1. CASE a = b
      BY <2>10, <3>1 DEF ParkPrompt, Ask, Hold, Goto, Idle
    <3>2. CASE a # b
      BY <2>10, <3>2 DEF ParkPrompt, Ask, Hold, Goto, Idle
    <3> QED
      BY <3>1, <3>2
  <2>11. ASSUME NEW a \in Actions, ParkUnattended(t, a) PROVE Left' <= Left
    BY <2>11 DEF ParkUnattended, WriteSlot, threads
  <2>12. ASSUME NEW a \in Actions, ConfirmById(t, a) PROVE Left' <= Left
    <3>1. t # Voice
      BY <2>12 DEF ConfirmById
    <3> QED
      BY <2>12, <3>1 DEF ConfirmById, RetireSlot, Goto, history
  <2>13. ASSUME NEW a \in Actions, DenyById(t, a) PROVE Left' <= Left
    BY <2>13 DEF DenyById, RetireSlot, threads, history
  <2> QED
    BY <1>3, <2>1, <2>2, <2>3, <2>4, <2>5, <2>6, <2>7, <2>8, <2>9,
       <2>10, <2>11, <2>12, <2>13 DEF Step
<1> QED
  BY <1>1, <1>2, <1>3 DEF Next

\* For every number of background and channel threads: being asked once about
\* an action licenses at most one spoken execution of it.
THEOREM OnePromptOneFireHolds == Spec => []OnePromptOneFire
<1>1. Init => TInv /\ Budget
  BY ConfirmSlotAssumption, VoiceIsAThread
  DEF Init, TInv, TypeOK, LocalsOK, PC, Budget, Held, Open, One, NoPark
<1>2. TInv /\ Budget => OnePromptOneFire
  <2> SUFFICES ASSUME TInv, Budget, NEW a \in Actions
               PROVE  spoken[a] <= heard[a]
    BY DEF OnePromptOneFire
  <2>1. /\ spoken[a] \in Nat /\ heard[a] \in Nat
        /\ Held(a) \in 0 .. 1 /\ Open(a) \in 0 .. 1
    BY DEF TInv, TypeOK, Held, Open, One
  <2> QED
    BY <2>1 DEF Budget
<1> QED
  BY <1>1, <1>2, TInvStep, BudgetStep, PTL DEF Spec

-----------------------------------------------------------------------------
(* The slot implements the life cycle of a park. *)

Holding == {t \in Threads : pc[t] = "replay"}

\* The action in the slot, the actions in hand and the actions that fired are
\* different parks, all of them given out already.
SerialInv ==
  /\ fired \subseteq 1 .. parks
  /\ waitingTickets \subseteq 1 .. parks
  /\ answeredTickets \subseteq 1 .. parks
  /\ waitingTickets \cap (answeredTickets \cup fired) = {}
  /\ answeredTickets \cap fired = {}
  /\ \A t, u \in Holding : hand[t].serial = hand[u].serial => t = u

RInv == TInv /\ SerialInv

\* How a step changes the three sets, seen from the thread that takes it.
LEMMA SameHands ==
  ASSUME UNCHANGED hand, Holding' = Holding
  PROVE  answeredTickets' = answeredTickets
  BY DEF answeredTickets, Holding

LEMMA SameSlot ==
  ASSUME UNCHANGED pending
  PROVE  waitingTickets' = waitingTickets
  BY DEF waitingTickets

LEMMA HandEmptied ==
  ASSUME RInv, NEW t \in Holding, Holding' = Holding \ {t},
         \A u \in Threads : u # t => hand'[u] = hand[u]
  PROVE  /\ answeredTickets' = answeredTickets \ {hand[t].serial}
         /\ hand[t].serial \in answeredTickets
         /\ hand[t].serial \in 1 .. parks
         /\ \A u, v \in Holding' : hand'[u].serial = hand'[v].serial => u = v
  BY DEF answeredTickets, Holding, RInv, SerialInv

LEMMA HandFilled ==
  ASSUME RInv, NEW t \in Threads, t \notin Holding, pending \in Park,
         Holding' = Holding \cup {t}, hand'[t] = pending,
         \A u \in Threads : u # t => hand'[u] = hand[u]
  PROVE  /\ answeredTickets' = answeredTickets \cup {pending.serial}
         /\ waitingTickets = {pending.serial}
         /\ \A u, v \in Holding' : hand'[u].serial = hand'[v].serial => u = v
<1>1. pending # NoPark
  BY NoParkIsNoPark
<1>2. waitingTickets = {pending.serial}
  BY <1>1 DEF waitingTickets
<1>3. answeredTickets' = answeredTickets \cup {pending.serial}
  BY DEF answeredTickets, Holding
<1>4. \A u \in Holding : hand[u].serial # pending.serial
  BY <1>2 DEF answeredTickets, Holding, RInv, SerialInv
<1> QED
  BY <1>2, <1>3, <1>4 DEF RInv, SerialInv, Holding

\* The kinds of steps there are, in terms of tickets: nothing happens to any,
\* the slot is retired, a park takes the slot, the waiting ticket is answered,
\* or an answered one fires or is let go.
Stutters == UNCHANGED <<waitingTickets, answeredTickets, fired, parks>>

Retires == /\ waitingTickets # {} /\ waitingTickets' = {}
           /\ UNCHANGED <<answeredTickets, fired, parks>>

ParksNew == /\ parks' = parks + 1 /\ waitingTickets' = {parks + 1}
            /\ parks + 1 \in 1 .. MaxParks
            /\ UNCHANGED <<answeredTickets, fired>>

Answers == \E k \in 1 .. parks :
  /\ waitingTickets = {k} /\ waitingTickets' = {}
  /\ answeredTickets' = answeredTickets \cup {k}
  /\ UNCHANGED <<fired, parks>>

Resolves == \E k \in answeredTickets :
  /\ answeredTickets' = answeredTickets \ {k}
  /\ fired' = fired \/ fired' = fired \cup {k}
  /\ UNCHANGED <<waitingTickets, parks>>

TicketStep == Stutters \/ Retires \/ ParksNew \/ Answers \/ Resolves

OneHolderEach ==
  \A t, u \in Holding : hand[t].serial = hand[u].serial => t = u

\* A step of each kind is a step of the life cycle.
LEMMA TicketStepImplements ==
  RInv /\ RInv' /\ TicketStep => [Lifecycle!Next]_(Lifecycle!vars)
<1> SUFFICES ASSUME RInv, RInv', TicketStep
             PROVE  [Lifecycle!Next]_(Lifecycle!vars)
  OBVIOUS
<1> USE DEF RInv, TInv, SerialInv, TypeOK
<1> USE ConfirmSlotAssumption
<1> DEFINE D == (1 .. parks) \ (waitingTickets \cup answeredTickets \cup fired)
<1>1. CASE Stutters
  BY <1>1 DEF Stutters, Lifecycle!vars
<1>2. CASE Retires
  <2>1. D' = D \cup waitingTickets
    BY <1>2 DEF Retires
  <2> QED
    BY <1>2, <2>1 DEF Retires, Lifecycle!Next, Lifecycle!Retire
<1>3. CASE ParksNew
  <2>0. 1 .. parks' = (1 .. parks) \cup {parks + 1} /\ parks + 1 \notin 1 .. parks
    BY <1>3 DEF ParksNew
  <2>1. D' = D \cup waitingTickets
    <3>1. /\ waitingTickets \subseteq 1 .. parks
          /\ waitingTickets \cap (answeredTickets \cup fired) = {}
          /\ parks + 1 \notin answeredTickets \cup fired
      BY <2>0
    <3>2. fired' = fired /\ answeredTickets' = answeredTickets /\ waitingTickets' = {parks + 1}
      BY <1>3 DEF ParksNew
    <3> HIDE DEF RInv, TInv, SerialInv, TypeOK
    <3> QED
      BY <2>0, <3>1, <3>2
  <2>2. Lifecycle!Park(parks + 1)
    BY <1>3, <2>1 DEF ParksNew, Lifecycle!Park, Lifecycle!Seen
  <2> QED
    BY <1>3, <2>2 DEF ParksNew, Lifecycle!Next
<1>4. CASE Answers
  <2>1. PICK k \in 1 .. parks :
          /\ waitingTickets = {k} /\ waitingTickets' = {}
          /\ answeredTickets' = answeredTickets \cup {k}
          /\ UNCHANGED <<fired, parks>>
    BY <1>4 DEF Answers
  <2>2. D' = D
    BY <2>1
  <2>3. Lifecycle!Answer(k) /\ k \in 1 .. MaxParks
    BY <2>1, <2>2 DEF Lifecycle!Answer
  <2> QED
    BY <2>3 DEF Lifecycle!Next
<1>5. CASE Resolves
  <2>1. PICK k \in answeredTickets :
          /\ answeredTickets' = answeredTickets \ {k}
          /\ fired' = fired \/ fired' = fired \cup {k}
          /\ UNCHANGED <<waitingTickets, parks>>
    BY <1>5 DEF Resolves
  <2>2. k \in 1 .. MaxParks /\ k \in 1 .. parks
    OBVIOUS
  <2>3. CASE fired' = fired
    <3>1. D' = D \cup {k}
      BY <2>1, <2>2, <2>3
    <3> QED
      BY <2>1, <2>2, <2>3, <3>1 DEF Lifecycle!Next, Lifecycle!Abandon
  <2>4. CASE fired' = fired \cup {k}
    <3>1. D' = D
      BY <2>1, <2>2, <2>4
    <3> QED
      BY <2>1, <2>2, <2>4, <3>1 DEF Lifecycle!Next, Lifecycle!Fire
  <2> QED
    BY <2>1, <2>3, <2>4
<1> QED
  BY <1>1, <1>2, <1>3, <1>4, <1>5 DEF TicketStep

\* The kinds of steps keep SerialInv.
LEMMA SerialInvKept ==
  ASSUME SerialInv, parks \in Nat, TicketStep, OneHolderEach'
  PROVE  SerialInv'
<1> USE DEF SerialInv
<1>0. \A t, u \in Holding' : hand'[t].serial = hand'[u].serial => t = u
  BY DEF OneHolderEach
<1>1. CASE Stutters
  BY <1>0, <1>1 DEF Stutters
<1>2. CASE Retires
  BY <1>0, <1>2 DEF Retires
<1>3. CASE ParksNew
  <2>1. 1 .. parks' = (1 .. parks) \cup {parks + 1} /\ parks + 1 \notin 1 .. parks
    BY <1>3 DEF ParksNew
  <2>2. parks + 1 \notin answeredTickets \cup fired
    BY <2>1
  <2> HIDE DEF SerialInv
  <2>3. fired' = fired /\ answeredTickets' = answeredTickets /\ waitingTickets' = {parks + 1}
    BY <1>3 DEF ParksNew
  <2> QED
    BY <1>0, <2>1, <2>2, <2>3 DEF SerialInv
<1>4. CASE Answers
  BY <1>0, <1>4 DEF Answers
<1>5. CASE Resolves
  <2>1. PICK k \in answeredTickets :
          /\ answeredTickets' = answeredTickets \ {k}
          /\ fired' = fired \/ fired' = fired \cup {k}
          /\ UNCHANGED <<waitingTickets, parks>>
    BY <1>5 DEF Resolves
  <2>2. k \in 1 .. parks /\ k \notin waitingTickets /\ fired' \subseteq fired \cup {k}
    BY <2>1
  <2> QED
    BY <1>0, <2>1, <2>2
<1> QED
  BY <1>1, <1>2, <1>3, <1>4, <1>5 DEF TicketStep

\* Every step of the slot is a step of one of the kinds, and keeps SerialInv.
LEMMA SerialInvStep ==
  RInv /\ TInv' /\ [Next]_vars => SerialInv' /\ TicketStep
<1> SUFFICES ASSUME RInv, TInv', [Next]_vars
             PROVE  TicketStep /\ OneHolderEach'
  BY SerialInvKept DEF RInv, TInv, TypeOK
<1> USE ConfirmSlotAssumption, VoiceIsAThread, NoParkIsNoPark
<1> USE DEF TicketStep
<1>0. OneHolderEach /\ TInv /\ SerialInv
  BY DEF RInv, SerialInv, OneHolderEach
<1>t. pc \in [Threads -> PC] /\ hand \in [Threads -> Park \cup {NoPark}]
  BY DEF RInv, TInv, TypeOK
\* A step that leaves every hand as it is.
<1>a. ASSUME UNCHANGED hand, Holding' = Holding
      PROVE  OneHolderEach' /\ UNCHANGED answeredTickets
  BY <1>a, <1>0, SameHands DEF OneHolderEach
\* Such a step that empties the slot is a retirement, unless it was empty.
<1>b. ASSUME UNCHANGED <<hand, fired, parks>>, Holding' = Holding,
             pending' = NoPark \/ pending' = pending
      PROVE  TicketStep /\ OneHolderEach'
  <2>1. UNCHANGED <<answeredTickets, fired, parks>> /\ OneHolderEach'
    BY <1>a, <1>b
  <2>2. CASE pending' = pending
    BY <2>1, <2>2, SameSlot DEF Stutters
  <2>3. CASE pending' = NoPark /\ pending = NoPark
    BY <2>1, <2>3, SameSlot DEF Stutters
  <2>4. CASE pending' = NoPark /\ pending # NoPark
    BY <2>1, <2>4 DEF Retires, waitingTickets
  <2> QED
    BY <1>b, <2>2, <2>3, <2>4
\* A step that writes a new park into the slot.
<1>c. ASSUME NEW a, WriteSlot(a), UNCHANGED <<hand, fired>>, Holding' = Holding
      PROVE  TicketStep /\ OneHolderEach'
  <2>1. UNCHANGED <<answeredTickets, fired>> /\ OneHolderEach'
    BY <1>a, <1>c
  <2>2. pending'.serial = parks + 1 /\ parks' = parks + 1 /\ parks + 1 \in 1 .. MaxParks
    BY <1>c DEF WriteSlot, RInv, TInv, TypeOK
  <2>3. pending' # NoPark
    BY <2>2 DEF NoPark
  <2> QED
    BY <2>1, <2>2, <2>3 DEF ParksNew, waitingTickets
\* A step in which t lets go of what it holds, fired or not.
<1>d. ASSUME NEW t \in Holding, Holding' = Holding \ {t},
             hand' = [hand EXCEPT ![t] = NoPark], UNCHANGED <<pending, parks>>,
             fired' = fired \/ fired' = fired \cup {hand[t].serial}
      PROVE  TicketStep /\ OneHolderEach'
  <2>1. \A u \in Threads : u # t => hand'[u] = hand[u]
    BY <1>d, <1>t DEF Holding
  <2> QED
    BY <1>d, <2>1, HandEmptied, SameSlot DEF OneHolderEach, Resolves
\* A step in which t takes the action out of the slot.
<1>e. ASSUME NEW t \in Threads, t \notin Holding, pending # NoPark,
             Holding' = Holding \cup {t}, pending' = NoPark,
             hand' = [hand EXCEPT ![t] = pending], UNCHANGED <<parks, fired>>
      PROVE  TicketStep /\ OneHolderEach'
  <2>1. pending \in Park /\ hand'[t] = pending
        /\ \A u \in Threads : u # t => hand'[u] = hand[u]
    BY <1>e, <1>t DEF RInv, TInv, TypeOK
  <2>2. /\ answeredTickets' = answeredTickets \cup {pending.serial}
        /\ waitingTickets = {pending.serial}
        /\ OneHolderEach'
    BY <1>e, <2>1, HandFilled DEF OneHolderEach
  <2>3. waitingTickets' = {} /\ pending.serial \in 1 .. parks
    BY <1>e, <1>0, <2>2 DEF waitingTickets, SerialInv
  <2> QED
    BY <1>e, <2>2, <2>3 DEF Answers
<1>1. CASE UNCHANGED vars
  BY <1>1, <1>b DEF vars, Holding
<1>2. CASE Tick
  BY <1>2, <1>b DEF Tick, slot, threads, history, Holding
<1>3. ASSUME NEW t \in Threads, Step(t) PROVE TicketStep /\ OneHolderEach'
  <2>1. CASE ReparkPrompt(t)
    BY <1>d, <1>t, <2>1 DEF ReparkPrompt, Goto, Holding
  <2>2. CASE ParkSlot(t)
    BY <1>c, <1>t, <2>2 DEF ParkSlot, Goto, Holding
  <2>3. CASE TakeRead(t)
    BY <1>b, <1>t, <2>3 DEF TakeRead, Idle, Goto, Holding, slot, history
  <2>4. CASE TakeMatch(t)
    <3>1. CASE MatchesPrompt(t) /\ Live(pending)
      BY <1>e, <1>t, <2>4, <3>1
      DEF TakeMatch, MatchesPrompt, Goto, Holding, RetireSlot, history
    <3>2. CASE ~(MatchesPrompt(t) /\ Live(pending))
      BY <1>b, <1>t, <2>4, <3>2
      DEF TakeMatch, Goto, Holding, RetireSlot, slot, history
    <3> QED
      BY <3>1, <3>2
  <2>5. CASE Fire(t)
    BY <1>d, <1>t, <2>5 DEF Fire, Goto, Holding, slot
  <2>6. CASE LetGo(t)
    BY <1>d, <1>t, <2>6 DEF LetGo, Goto, Holding, slot, history
  <2>7. CASE DropExpired(t)
    BY <1>b, <2>7 DEF DropExpired, RetireSlot, threads, history, Holding
  <2>8. CASE ClearSlot(t)
    BY <1>b, <1>t, <2>8 DEF ClearSlot, Idle, Goto, Holding, history
  <2>9. CASE ClearPrompt(t)
    BY <1>b, <1>t, <2>9 DEF ClearPrompt, Goto, Holding, history
  <2>10. ASSUME NEW a \in Actions, ParkPrompt(t, a) PROVE TicketStep /\ OneHolderEach'
    BY <1>b, <1>t, <2>10 DEF ParkPrompt, Idle, Goto, Holding
  <2>11. ASSUME NEW a \in Actions, ParkUnattended(t, a) PROVE TicketStep /\ OneHolderEach'
    BY <1>c, <2>11 DEF ParkUnattended, threads, Holding
  <2>12. ASSUME NEW a \in Actions, ConfirmById(t, a) PROVE TicketStep /\ OneHolderEach'
    <3>1. CASE Live(pending) /\ pending.id = a /\ Goto(t, "replay")
               /\ RetireSlot /\ hand' = [hand EXCEPT ![t] = pending]
      <4>1. pc[t] = "idle" /\ pc' = [pc EXCEPT ![t] = "replay"]
        BY <2>12, <3>1 DEF ConfirmById, Idle, Goto
      <4>2. t \notin Holding /\ Holding' = Holding \cup {t}
        BY <1>t, <4>1 DEF Holding
      <4>3. pending # NoPark /\ pending' = NoPark /\ UNCHANGED <<parks, fired>>
        BY <2>12, <3>1 DEF ConfirmById, RetireSlot, Live, history
      <4> QED
        BY <1>e, <3>1, <4>2, <4>3
    <3>2. CASE RetireSlot /\ UNCHANGED <<hand, pc>>
      BY <1>b, <2>12, <3>2 DEF ConfirmById, RetireSlot, Holding, history
    <3> QED
      BY <2>12, <3>1, <3>2 DEF ConfirmById
  <2>13. ASSUME NEW a \in Actions, DenyById(t, a) PROVE TicketStep /\ OneHolderEach'
    BY <1>b, <2>13 DEF DenyById, RetireSlot, threads, history, Holding
  <2> QED
    BY <1>3, <2>1, <2>2, <2>3, <2>4, <2>5, <2>6, <2>7, <2>8, <2>9,
       <2>10, <2>11, <2>12, <2>13 DEF Step
<1> QED
  BY <1>1, <1>2, <1>3 DEF Next

\* The two cells, their locks and every interleaving of the threads implement
\* the life cycle of a park: one park waits at a time, each is answered at most
\* once and fires at most once, and a dropped one never fires.
THEOREM ImplementsLifecycleHolds == Spec => ImplementsLifecycle
<1>1. Init => RInv /\ Lifecycle!Init
  <2> SUFFICES ASSUME Init PROVE RInv /\ Lifecycle!Init
    OBVIOUS
  <2>1. waitingTickets = {} /\ answeredTickets = {} /\ parks = 0 /\ fired = {}
    BY DEF Init, waitingTickets, answeredTickets
  <2>2. 1 .. parks = {} /\ Holding = {}
    BY <2>1 DEF Init, Holding
  <2>3. TInv
    BY ConfirmSlotAssumption, VoiceIsAThread DEF Init, TInv, TypeOK, LocalsOK, PC
  <2> QED
    BY <2>1, <2>2, <2>3 DEF RInv, SerialInv, Lifecycle!Init
<1>2. RInv /\ [Next]_vars => RInv' /\ [Lifecycle!Next]_(Lifecycle!vars)
  BY TInvStep, SerialInvStep, TicketStepImplements DEF RInv
<1> QED
  BY <1>1, <1>2, PTL DEF Spec, ImplementsLifecycle, Lifecycle!Spec
=============================================================================
